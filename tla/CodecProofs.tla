----------------------------- MODULE CodecProofs ----------------------------
(***************************************************************************)
(* Names, texts and type bit maps on the wire, for every message and every *)
(* value of the limits.  readName ends (ReadNameEnds) and stays inside the *)
(* message (ReadNameInside), whatever the octets are, and refuses a name   *)
(* that leads to a pointer to itself (LoopIsRefused); what writeName       *)
(* wrote, with whatever pointers to earlier names, readName reads back     *)
(* (NameRoundTrip), and so are the strings of a TXT record (TextRoundTrip) *)
(* and the types of an NSEC record (TypesRoundTrip).                       *)
(*                                                                         *)
(* The loops of the codec are functions of the number of rounds.  The      *)
(* reader's measure is Left; its invariant is Inside.  The writer's is     *)
(* Findable: from every offset in the table of suffixes, in every message  *)
(* that agrees with the buffer, the reader reads that suffix.              *)
(***************************************************************************)
EXTENDS Codec, WellFoundedInduction, TLAPS

-----------------------------------------------------------------------------
(* Loops: functions after[k] of the number of rounds.  That there is such a *)
(* function follows from the well-foundedness of the natural numbers.       *)

\* A set of natural numbers that is not empty has a least element.
LEMMA LeastNat ==
    ASSUME NEW T \in SUBSET Nat, T # {}
    PROVE  \E n \in T : \A m \in T : n <= m
<1>1. T \subseteq Nat
  OBVIOUS
<1>2. PICK n \in T : \A m \in T : ~(<<m, n>> \in OpToRel(<, Nat))
  BY <1>1, WFMin, NatLessThanWellFounded
<1>3. \A m \in T : ~(m < n)
  BY <1>2 DEF OpToRel
<1> QED
  BY <1>3

LEMMA NextNat == \A n \in Nat : n + 1 \in Nat
  OBVIOUS

LEMMA Difference ==
    ASSUME NEW i \in Nat, NEW j \in Nat, i <= j
    PROVE  \E m \in Nat : j = i + m
<1>1. j - i \in Nat /\ j = i + (j - i)
  OBVIOUS
<1> QED
  BY <1>1

\* Hence induction, for a set instead of a predicate.
LEMMA Induct ==
    ASSUME NEW T, 0 \in T, \A k \in Nat : k \in T => k + 1 \in T
    PROVE  \A k \in Nat : k \in T
<1> DEFINE Rest == {k \in Nat : k \notin T}
<1> SUFFICES ASSUME Rest # {} PROVE FALSE
  OBVIOUS
<1>1. Rest \in SUBSET Nat
  OBVIOUS
<1>2. PICK n \in Rest : \A m \in Rest : n <= m
  <2> HIDE DEF Rest
  <2> QED
    BY <1>1, LeastNat
<1>3. n - 1 \in Nat /\ n - 1 \notin Rest /\ n = n - 1 + 1
  BY <1>2
<1> QED
  BY <1>3

-----------------------------------------------------------------------------
(* Loops: a function that is defined by its value for the number before. *)

\* The first n + 1 values of a loop that starts with s0; step[<<k, x>>] follows x in
\* round k.
Rounds(S, s0, step, n) ==
    {f \in [0 .. n -> S] :
        /\ f[0] = s0
        /\ \A k \in 1 .. n : f[k] = step[<<k, f[k - 1]>>]}

LEMMA RoundsExist ==
    ASSUME NEW S, NEW s0 \in S, NEW step \in [Nat \X S -> S], NEW n \in Nat
    PROVE  Rounds(S, s0, step, n) # {}
<1> DEFINE T == {m \in Nat : Rounds(S, s0, step, m) = {}}
<1> SUFFICES ASSUME T # {} PROVE FALSE
  OBVIOUS
<1>1. PICK m \in T : \A k \in T : m <= k
  BY LeastNat
<1>2. CASE m = 0
  <2>1. [i \in 0 .. 0 |-> s0] \in Rounds(S, s0, step, 0)
    BY DEF Rounds
  <2> QED
    BY <1>2, <2>1
<1>3. CASE m # 0
  <2>1. m - 1 \in Nat /\ m - 1 \notin T
    BY <1>1, <1>3
  <2>2. PICK f : f \in Rounds(S, s0, step, m - 1)
    BY <2>1
  <2>3. /\ f \in [0 .. m - 1 -> S] /\ f[0] = s0
        /\ \A k \in 1 .. m - 1 : f[k] = step[<<k, f[k - 1]>>]
    BY <2>2 DEF Rounds
  <2> DEFINE g == [i \in 0 .. m |-> IF i = m THEN step[<<m, f[m - 1]>>] ELSE f[i]]
  <2>4. step[<<m, f[m - 1]>>] \in S
    <3>1. f[m - 1] \in S
      BY <2>1, <2>3
    <3> QED
      BY <3>1
  <2>5. g \in [0 .. m -> S]
    BY <2>3, <2>4
  <2>6. g[0] = s0
    BY <1>3, <2>3
  <2>7. ASSUME NEW k \in 1 .. m PROVE g[k] = step[<<k, g[k - 1]>>]
    <3>1. g[k - 1] = f[k - 1]
      OBVIOUS
    <3>2. CASE k = m
      BY <3>1, <3>2, SMTT(60)
    <3>3. CASE k # m
      <4>1. k \in 1 .. m - 1 /\ g[k] = f[k]
        BY <3>3
      <4> QED
        BY <2>3, <3>1, <4>1
    <3> QED
      BY <3>2, <3>3
  <2>8. g \in Rounds(S, s0, step, m)
    BY <2>5, <2>6, <2>7 DEF Rounds
  <2> QED
    BY <2>8
<1> QED
  BY <1>2, <1>3

LEMMA RoundsAgree ==
    ASSUME NEW S, NEW s0 \in S, NEW step \in [Nat \X S -> S],
           NEW n \in Nat, NEW m \in Nat, n <= m,
           NEW f \in Rounds(S, s0, step, n), NEW g \in Rounds(S, s0, step, m)
    PROVE  \A k \in 0 .. n : f[k] = g[k]
<1> DEFINE T == {k \in 0 .. n : f[k] # g[k]}
<1> SUFFICES ASSUME T # {} PROVE FALSE
  OBVIOUS
<1>1. PICK k \in T : \A j \in T : k <= j
  <2>1. T \in SUBSET Nat
    OBVIOUS
  <2> HIDE DEF T
  <2> QED
    BY <2>1, LeastNat
<1>2. k # 0
  BY DEF Rounds
<1>3. k - 1 \in 0 .. n /\ k - 1 \notin T
  BY <1>1, <1>2
<1>4. f[k - 1] = g[k - 1]
  BY <1>3
<1>5. f[k] = step[<<k, f[k - 1]>>] /\ g[k] = step[<<k, g[k - 1]>>]
  BY <1>2 DEF Rounds
<1> QED
  BY <1>4, <1>5

\* Hence the loop itself.
Starts(S, s0, step) == s0 \in S /\ step \in [Nat \X S -> S]
Loops(S, s0, step, f) ==
    /\ f \in [Nat -> S]
    /\ f[0] = s0
    /\ \A k \in Nat \ {0} : f[k] = step[<<k, f[k - 1]>>]

LEMMA LoopExists ==
    ASSUME NEW S, NEW s0, NEW step, Starts(S, s0, step)
    PROVE  \E f : Loops(S, s0, step, f)
<1>0. s0 \in S /\ step \in [Nat \X S -> S]
  BY DEF Starts
<1> DEFINE R(n) == CHOOSE f : f \in Rounds(S, s0, step, n)
           h == [n \in Nat |-> R(n)[n]]
<1>1. \A n \in Nat : R(n) \in Rounds(S, s0, step, n)
  BY <1>0, RoundsExist
<1> HIDE DEF R
<1>2. ASSUME NEW n \in Nat PROVE R(n)[n] \in S
  <2>1. R(n) \in [0 .. n -> S] /\ n \in 0 .. n
    BY <1>1 DEF Rounds
  <2> QED
    BY <2>1
<1>3. h \in [Nat -> S]
  BY <1>2
<1>4. h[0] = s0
  BY <1>1 DEF Rounds
<1>5. ASSUME NEW k \in Nat, k # 0 PROVE h[k] = step[<<k, h[k - 1]>>]
  <2>1. k - 1 \in Nat /\ k - 1 <= k /\ k \in 1 .. k
    BY <1>5
  <2>2. R(k)[k] = step[<<k, R(k)[k - 1]>>]
    BY <1>1, <2>1 DEF Rounds
  <2>3. R(k - 1)[k - 1] = R(k)[k - 1]
    <3>1. R(k) \in Rounds(S, s0, step, k) /\ R(k - 1) \in Rounds(S, s0, step, k - 1)
      BY <1>1, <2>1
    <3>2. k - 1 \in 0 .. k - 1
      BY <2>1
    <3>3. \A i \in 0 .. k - 1 : R(k - 1)[i] = R(k)[i]
      BY <1>0, <2>1, <3>1, RoundsAgree
    <3> QED
      BY <3>2, <3>3
  <2> QED
    BY <2>1, <2>2, <2>3
<1> HIDE DEF h
<1> QED
  BY <1>3, <1>4, <1>5 DEF Loops

-----------------------------------------------------------------------------
(* A round of the loop of readName. *)

\* The variables of the loop of readName.
Reading == [pos : Nat, labels : Seq(Seq(Octet)), jumps : Nat, end : Nat,
            state : {"reading", "read", "refused"}]

LEMMA AtType ==
    ASSUME NEW pos \in Nat, NEW labels \in Seq(Seq(Octet)), NEW jumps \in Nat,
           NEW end \in Nat, NEW state \in {"reading", "read", "refused"}
    PROVE  /\ At(pos, labels, jumps, end, state) \in Reading
           /\ At(pos, labels, jumps, end, state).pos = pos
           /\ At(pos, labels, jumps, end, state).labels = labels
           /\ At(pos, labels, jumps, end, state).jumps = jumps
           /\ At(pos, labels, jumps, end, state).end = end
           /\ At(pos, labels, jumps, end, state).state = state
  BY DEF At, Reading

LEMMA ReadingType ==
    ASSUME NEW r \in Reading
    PROVE  /\ r.pos \in Nat /\ r.labels \in Seq(Seq(Octet)) /\ r.jumps \in Nat
           /\ r.end \in Nat /\ r.state \in {"reading", "read", "refused"}
  BY DEF Reading

LEMMA RefusedReading ==
    ASSUME NEW r \in Reading
    PROVE  /\ [r EXCEPT !.state = "refused"] \in Reading
           /\ [r EXCEPT !.state = "refused"].state = "refused"
  BY DEF Reading

LEMMA OctetIsNat ==
    ASSUME NEW x \in Octet
    PROVE  x \in Nat /\ x <= 255
  BY DEF Octet

LEMMA OctetAt ==
    ASSUME NEW msg \in Seq(Octet), NEW i \in 1 .. Len(msg)
    PROVE  msg[i] \in Nat /\ msg[i] <= 255
<1>1. msg[i] \in Octet
  OBVIOUS
<1> QED
  BY <1>1, OctetIsNat

LEMMA SubSeqOctets ==
    ASSUME NEW msg \in Seq(Octet), NEW i \in Nat \ {0}, NEW j \in Nat, j <= Len(msg)
    PROVE  SubSeq(msg, i, j) \in Seq(Octet)
  OBVIOUS

\* The offset after the name field, if the field goes on for so many octets.
Field(r, size) == IF r.jumps = 0 THEN r.pos + size ELSE r.end

\* The three kinds of a round that goes on, ...
LEMMA RoundOfRoot ==
    ASSUME NEW msg \in Seq(Octet), NEW r \in Reading, r.state = "reading",
           r.pos < Len(msg), msg[r.pos + 1] = 0
    PROVE  readLabel(msg, r) = At(r.pos, r.labels, r.jumps, Field(r, 1), "read")
<1>1. ~(r.pos >= Len(msg))
  BY ReadingType
<1> QED
  BY <1>1 DEF readLabel, Field

LEMMA Counts == MaxJumps \in Nat /\ MaxLabel \in Nat
  BY CodecAssumption

LEMMA RoundOfPointer ==
    ASSUME NEW msg \in Seq(Octet), NEW r \in Reading, r.state = "reading",
           r.pos + 1 < Len(msg), msg[r.pos + 1] >= pointerMask, NEW p \in Nat,
           p = 256 * (msg[r.pos + 1] - pointerMask) + msg[r.pos + 2],
           p < Len(msg), r.jumps + 1 <= MaxJumps
    PROVE  readLabel(msg, r) = At(p, r.labels, r.jumps + 1, Field(r, 2), "reading")
<1>1. ~(r.pos >= Len(msg)) /\ ~(r.pos + 1 >= Len(msg))
  BY ReadingType, SMTT(60)
<1>2. ~(p >= Len(msg)) /\ ~(r.jumps + 1 > MaxJumps)
  BY Counts, ReadingType, SMTT(60)
<1>3. msg[r.pos + 1] # 0
  BY DEF pointerMask
<1> QED
  BY <1>1, <1>2, <1>3 DEF readLabel, Field

LEMMA RoundOfLabel ==
    ASSUME NEW msg \in Seq(Octet), NEW r \in Reading, r.state = "reading",
           NEW n \in 1 .. MaxLabel, r.pos + 1 + n <= Len(msg), msg[r.pos + 1] = n
    PROVE  readLabel(msg, r) =
              At(r.pos + 1 + n, Append(r.labels, SubSeq(msg, r.pos + 2, r.pos + 1 + n)),
                 r.jumps, r.end, "reading")
<1>1. n \in Nat /\ n # 0 /\ ~(n >= pointerMask) /\ ~(n > MaxLabel)
  BY CodecAssumption DEF pointerMask
<1>2. ~(r.pos >= Len(msg)) /\ ~(r.pos + 1 + n > Len(msg))
  BY <1>1, ReadingType
<1> QED
  BY <1>1, <1>2 DEF readLabel

\* ... and there is no other.
LEMMA RoundIsOneOf ==
    ASSUME NEW msg \in Seq(Octet), NEW r \in Reading
    PROVE  \/ r.state # "reading" /\ readLabel(msg, r) = r
           \/ r.state = "reading" /\ readLabel(msg, r) = [r EXCEPT !.state = "refused"]
           \/ /\ r.state = "reading" /\ r.pos < Len(msg)
              /\ readLabel(msg, r) = At(r.pos, r.labels, r.jumps, Field(r, 1), "read")
           \/ /\ r.state = "reading" /\ r.pos + 1 < Len(msg) /\ r.jumps + 1 <= MaxJumps
              /\ \E p \in Nat :
                    /\ p < Len(msg)
                    /\ readLabel(msg, r) =
                          At(p, r.labels, r.jumps + 1, Field(r, 2), "reading")
           \/ /\ r.state = "reading"
              /\ \E n \in 1 .. MaxLabel :
                    /\ r.pos + 1 + n <= Len(msg)
                    /\ readLabel(msg, r) =
                          At(r.pos + 1 + n,
                             Append(r.labels, SubSeq(msg, r.pos + 2, r.pos + 1 + n)),
                             r.jumps, r.end, "reading")
<1> DEFINE length == msg[r.pos + 1]
           pointer == 256 * (length - pointerMask) + msg[r.pos + 2]
<1>0. /\ r.pos \in Nat /\ r.jumps \in Nat /\ Len(msg) \in Nat /\ MaxJumps \in Nat
      /\ MaxLabel \in Nat
  BY CodecAssumption, ReadingType
<1>1. CASE r.state # "reading"
  BY <1>1 DEF readLabel
<1>2. CASE r.state = "reading" /\ r.pos >= Len(msg)
  BY <1>2 DEF readLabel
<1>3. CASE r.state = "reading" /\ r.pos < Len(msg) /\ length = 0
  BY <1>3, RoundOfRoot
<1>4. CASE r.state = "reading" /\ r.pos < Len(msg) /\ length >= pointerMask
  <2>1. length \in Nat /\ length # 0 /\ ~(r.pos >= Len(msg))
    BY <1>0, <1>4, OctetAt DEF pointerMask
  <2>2. CASE r.pos + 1 >= Len(msg)
    <3>1. readLabel(msg, r) = [r EXCEPT !.state = "refused"]
      BY <1>4, <2>1, <2>2 DEF readLabel
    <3> QED
      BY <1>4, <3>1
  <2>3. CASE r.pos + 1 < Len(msg)
    <3>1. msg[r.pos + 2] \in Nat
      BY <1>0, <2>3, OctetAt
    <3>2. pointer \in Nat
      <4> HIDE DEF length
      <4> QED
        BY <1>4, <2>1, <3>1 DEF pointerMask
    <3>3. CASE pointer >= Len(msg) \/ r.jumps + 1 > MaxJumps
      <4>0. ~(r.pos + 1 >= Len(msg))
        BY <1>0, <2>3
      <4>1. readLabel(msg, r) = [r EXCEPT !.state = "refused"]
        BY <1>4, <2>1, <4>0, <3>3 DEF readLabel
      <4> QED
        BY <1>4, <4>1
    <3>4. CASE pointer < Len(msg) /\ r.jumps + 1 <= MaxJumps
      <4>1. readLabel(msg, r) = At(pointer, r.labels, r.jumps + 1, Field(r, 2), "reading")
        BY <1>4, <2>3, <3>2, <3>4, RoundOfPointer
      <4> QED
        BY <1>4, <2>3, <3>2, <3>4, <4>1
    <3> QED
      BY <1>0, <3>2, <3>3, <3>4
  <2> QED
    BY <1>0, <2>2, <2>3
<1>5. CASE r.state = "reading" /\ r.pos < Len(msg) /\ length # 0 /\ ~(length >= pointerMask)
  <2>1. length \in Nat /\ ~(r.pos >= Len(msg))
    BY <1>0, <1>5, OctetAt
  <2>2. CASE length > MaxLabel \/ r.pos + 1 + length > Len(msg)
    <3>1. readLabel(msg, r) = [r EXCEPT !.state = "refused"]
      BY <1>5, <2>1, <2>2 DEF readLabel
    <3> QED
      BY <1>5, <3>1
  <2>3. CASE length <= MaxLabel /\ r.pos + 1 + length <= Len(msg)
    <3>1. length \in 1 .. MaxLabel
      BY <1>0, <1>5, <2>1, <2>3
    <3>2. readLabel(msg, r) =
             At(r.pos + 1 + length,
                Append(r.labels, SubSeq(msg, r.pos + 2, r.pos + 1 + length)),
                r.jumps, r.end, "reading")
      BY <1>5, <2>3, <3>1, RoundOfLabel
    <3> QED
      BY <1>5, <2>3, <3>1, <3>2
  <2> QED
    BY <1>0, <2>1, <2>2, <2>3
<1> QED
  BY <1>0, <1>1, <1>2, <1>3, <1>4, <1>5, SMTT(60)

LEMMA FieldType ==
    ASSUME NEW r \in Reading, NEW size \in Nat
    PROVE  Field(r, size) \in Nat
  BY ReadingType DEF Field

LEMMA Limits ==
    /\ MaxLabel \in Nat /\ MaxLabel >= 1 /\ MaxLabel <= 63
    /\ MaxPointer \in Nat /\ MaxPointer <= 16383 /\ MaxJumps \in Nat
  BY CodecAssumption

LEMMA ReadLabelType ==
    ASSUME NEW msg \in Seq(Octet), NEW r \in Reading
    PROVE  readLabel(msg, r) \in Reading
<1>0. /\ r.pos \in Nat /\ r.jumps \in Nat /\ r.jumps + 1 \in Nat /\ r.end \in Nat
      /\ r.labels \in Seq(Seq(Octet)) /\ Field(r, 1) \in Nat /\ Field(r, 2) \in Nat
  <2>1. Field(r, 1) \in Nat /\ Field(r, 2) \in Nat
    BY FieldType
  <2> QED
    BY <2>1, ReadingType
<1>1. CASE \/ readLabel(msg, r) = r
           \/ readLabel(msg, r) = [r EXCEPT !.state = "refused"]
  BY <1>1, RefusedReading
<1>2. CASE readLabel(msg, r) = At(r.pos, r.labels, r.jumps, Field(r, 1), "read")
  BY <1>0, <1>2 DEF At, Reading
<1>3. CASE \E p \in Nat :
             readLabel(msg, r) = At(p, r.labels, r.jumps + 1, Field(r, 2), "reading")
  BY <1>0, <1>3 DEF At, Reading
<1>4. CASE \E n \in 1 .. MaxLabel :
             /\ r.pos + 1 + n <= Len(msg)
             /\ readLabel(msg, r) =
                  At(r.pos + 1 + n, Append(r.labels, SubSeq(msg, r.pos + 2, r.pos + 1 + n)),
                     r.jumps, r.end, "reading")
  <2> PICK n \in 1 .. MaxLabel :
             /\ r.pos + 1 + n <= Len(msg)
             /\ readLabel(msg, r) =
                  At(r.pos + 1 + n, Append(r.labels, SubSeq(msg, r.pos + 2, r.pos + 1 + n)),
                     r.jumps, r.end, "reading")
    BY <1>4
  <2>1. n \in Nat /\ r.pos + 1 + n \in Nat /\ r.pos + 2 \in Nat \ {0}
    BY <1>0, CodecAssumption, SMTT(60)
  <2>2. SubSeq(msg, r.pos + 2, r.pos + 1 + n) \in Seq(Octet)
    BY <2>1, SubSeqOctets
  <2>3. Append(r.labels, SubSeq(msg, r.pos + 2, r.pos + 1 + n)) \in Seq(Seq(Octet))
    BY <1>0, <2>2
  <2> QED
    BY <1>0, <2>1, <2>3 DEF At, Reading
<1> QED
  BY <1>1, <1>2, <1>3, <1>4, RoundIsOneOf

\* What readRounds is.
LEMMA ReadRoundsDef ==
    ASSUME NEW msg \in Seq(Octet), NEW r \in Reading
    PROVE  /\ readRounds(msg, r) \in [Nat -> Reading]
           /\ readRounds(msg, r)[0] = r
           /\ \A k \in Nat : readRounds(msg, r)[k + 1] = readLabel(msg, readRounds(msg, r)[k])
<1> DEFINE step == [x \in Nat \X Reading |-> readLabel(msg, x[2])]
           after == readRounds(msg, r)
<1>2. step \in [Nat \X Reading -> Reading]
  BY ReadLabelType
<1>3. \A k \in Nat, x \in Reading : step[<<k, x>>] = readLabel(msg, x)
  OBVIOUS
<1> HIDE DEF step
<1>4. PICK f \in [Nat -> Reading] :
        f[0] = r /\ \A k \in Nat \ {0} : f[k] = step[<<k, f[k - 1]>>]
  <2>1. Starts(Reading, r, step)
    BY <1>2 DEF Starts
  <2>2. \E f : Loops(Reading, r, step, f)
    BY <2>1, LoopExists
  <2> QED
    BY <2>2 DEF Loops
<1>5. ASSUME NEW k \in Nat, k # 0 PROVE f[k] = readLabel(msg, f[k - 1])
  <2>1. f[k - 1] \in Reading
    BY <1>5
  <2> QED
    BY <1>3, <1>4, <1>5, <2>1
<1>6. f = [k \in Nat |-> IF k = 0 THEN r ELSE readLabel(msg, f[k - 1])]
  BY <1>4, <1>5
<1>7. after = [k \in Nat |-> IF k = 0 THEN r ELSE readLabel(msg, after[k - 1])]
  <2>1. after = CHOOSE g : g = [k \in Nat |-> IF k = 0 THEN r
                                              ELSE readLabel(msg, g[k - 1])]
    BY DEF readRounds
  <2> QED
    BY <1>6, <2>1
<1> HIDE DEF after
<1>8. after[0] = r
  BY <1>7
<1>9. \A k \in Nat : after[k + 1] = readLabel(msg, after[k])
  <2> TAKE k \in Nat
  <2>1. k + 1 \in Nat /\ k + 1 # 0 /\ k + 1 - 1 = k
    OBVIOUS
  <2> QED
    BY <1>7, <2>1
<1>10. \A k \in Nat : after[k] \in Reading
  <2> DEFINE T == {k \in Nat : after[k] \in Reading}
  <2>1. 0 \in T
    BY <1>8
  <2>2. \A k \in Nat : k \in T => k + 1 \in T
    <3> SUFFICES ASSUME NEW k \in Nat, after[k] \in Reading PROVE after[k + 1] \in Reading
      OBVIOUS
    <3> QED
      BY <1>9, ReadLabelType
  <2>3. \A k \in Nat : k \in T
    <3> HIDE DEF T
    <3> QED
      BY <2>1, <2>2, Induct
  <2> QED
    BY <2>3
<1>11. after \in [Nat -> Reading]
  BY <1>7, <1>10
<1> QED
  BY <1>8, <1>9, <1>11 DEF after

-----------------------------------------------------------------------------
(* The loop of readName ends, and within the message. *)

\* What is so of the variables of the loop that reads a name at offset.
Inside(msg, offset, r) ==
    /\ r \in Reading
    /\ r.labels \in Name
    /\ r.pos <= Len(msg) /\ r.jumps <= MaxJumps
    /\ r.state = "reading" /\ r.jumps = 0 => offset <= r.pos
    /\ r.state = "read" \/ r.jumps > 0 => offset < r.end /\ r.end <= Len(msg)

\* An upper bound of the rounds that are left.
Left(msg, r) == (MaxJumps - r.jumps) * (Len(msg) + 1) + (Len(msg) - r.pos)

LEMMA OneJumpLess ==
    ASSUME NEW J \in Nat, NEW j \in Nat, NEW n \in Nat, NEW p \in Nat, NEW q \in Nat,
           j + 1 <= J, p <= n, q <= n
    PROVE  (J - (j + 1)) * (n + 1) + (n - q) + 1 <= (J - j) * (n + 1) + (n - p)
<1>1. PICK d \in Nat : d = J - (j + 1)
  OBVIOUS
<1>2. J - j = d + 1
  BY <1>1
<1>3. (d + 1) * (n + 1) = d * (n + 1) + (n + 1)
  OBVIOUS
<1>4. PICK e \in Nat : e = d * (n + 1)
  OBVIOUS
<1>5. (J - (j + 1)) * (n + 1) = e /\ (J - j) * (n + 1) = e + (n + 1)
  BY <1>1, <1>2, <1>3, <1>4
<1> QED
  BY <1>5

LEMMA LabelRead ==
    ASSUME NEW msg \in Seq(Octet), NEW p \in Nat, NEW n \in 1 .. MaxLabel,
           p + 1 + n <= Len(msg)
    PROVE  /\ SubSeq(msg, p + 2, p + 1 + n) \in Label
           /\ Len(SubSeq(msg, p + 2, p + 1 + n)) = n
<1>1. n \in Nat /\ n >= 1
  BY CodecAssumption
<1>2. SubSeq(msg, p + 2, p + 1 + n) \in Seq(Octet)
  BY <1>1, SubSeqOctets
<1>3. Len(SubSeq(msg, p + 2, p + 1 + n)) = n
  BY <1>1
<1> QED
  BY <1>2, <1>3 DEF Label

LEMMA LabelsAreOctets ==
    ASSUME NEW s \in Name
    PROVE  s \in Seq(Seq(Octet))
<1>1. Label \subseteq Seq(Octet)
  BY DEF Label
<1> QED
  BY <1>1 DEF Name

LEMMA RoundStaysInside ==
    ASSUME NEW msg \in Seq(Octet), NEW offset \in Nat, NEW r, Inside(msg, offset, r)
    PROVE  /\ Inside(msg, offset, readLabel(msg, r))
           /\ r.state # "reading" => readLabel(msg, r).state # "reading"
           /\ readLabel(msg, r).state = "reading" =>
                 Left(msg, readLabel(msg, r)) + 1 <= Left(msg, r)
<1> PICK q : q = readLabel(msg, r)
  OBVIOUS
<1> SUFFICES /\ Inside(msg, offset, q)
             /\ r.state # "reading" => q.state # "reading"
             /\ q.state = "reading" => Left(msg, q) + 1 <= Left(msg, r)
  OBVIOUS
<1>0. /\ r \in Reading /\ r.pos \in Nat /\ r.jumps \in Nat /\ r.end \in Nat /\ r.labels \in Name
      /\ Len(msg) \in Nat /\ MaxJumps \in Nat /\ r.labels \in Seq(Seq(Octet))
      /\ Field(r, 1) \in Nat /\ Field(r, 2) \in Nat
  <2>1. r \in Reading /\ r.labels \in Name
    BY DEF Inside
  <2>2. r.pos \in Nat /\ r.jumps \in Nat /\ r.end \in Nat /\ r.labels \in Seq(Seq(Octet))
    BY <2>1, ReadingType
  <2>3. Field(r, 1) \in Nat /\ Field(r, 2) \in Nat
    BY <2>1, FieldType
  <2> QED
    BY <2>1, <2>2, <2>3, Counts
<1>1. CASE r.state # "reading" /\ q = r
  BY <1>1
<1>2. CASE r.state = "reading" /\ q = [r EXCEPT !.state = "refused"]
  <2>1. /\ q \in Reading /\ q.state = "refused" /\ q.pos = r.pos /\ q.labels = r.labels
        /\ q.jumps = r.jumps /\ q.end = r.end
    BY <1>0, <1>2 DEF Reading
  <2> QED
    BY <1>2, <2>1 DEF Inside
<1>3. CASE /\ r.state = "reading" /\ r.pos < Len(msg)
           /\ q = At(r.pos, r.labels, r.jumps, Field(r, 1), "read")
  <2>1. /\ q \in Reading /\ q.state = "read" /\ q.pos = r.pos /\ q.labels = r.labels
        /\ q.jumps = r.jumps /\ q.end = Field(r, 1)
    BY <1>0, <1>3 DEF At, Reading
  <2>2. offset < Field(r, 1) /\ Field(r, 1) <= Len(msg)
    BY <1>0, <1>3 DEF Field, Inside
  <2> QED
    BY <1>0, <1>3, <2>1, <2>2 DEF Inside
<1>4. CASE /\ r.state = "reading" /\ r.pos + 1 < Len(msg) /\ r.jumps + 1 <= MaxJumps
           /\ \E p \in Nat :
                /\ p < Len(msg)
                /\ q = At(p, r.labels, r.jumps + 1, Field(r, 2), "reading")
  <2> PICK p \in Nat : /\ p < Len(msg)
                       /\ q = At(p, r.labels, r.jumps + 1, Field(r, 2), "reading")
    BY <1>4
  <2>1. /\ q \in Reading /\ q.state = "reading" /\ q.pos = p /\ q.labels = r.labels
        /\ q.jumps = r.jumps + 1 /\ q.end = Field(r, 2)
    BY <1>0, <1>4 DEF At, Reading
  <2>2. offset < Field(r, 2) /\ Field(r, 2) <= Len(msg)
    BY <1>0, <1>4, SMTT(60) DEF Field, Inside
  <2>3. Inside(msg, offset, q)
    BY <1>0, <1>4, <2>1, <2>2, SMTT(60) DEF Inside
  <2>4. Left(msg, q) + 1 <= Left(msg, r)
    <3>1. r.pos <= Len(msg) /\ p <= Len(msg)
      BY <1>0, <1>4, SMTT(60)
    <3> QED
      BY <1>0, <1>4, <2>1, <3>1, OneJumpLess DEF Left
  <2> QED
    BY <1>4, <2>3, <2>4
<1>5. CASE /\ r.state = "reading"
           /\ \E n \in 1 .. MaxLabel :
                /\ r.pos + 1 + n <= Len(msg)
                /\ q = At(r.pos + 1 + n,
                          Append(r.labels, SubSeq(msg, r.pos + 2, r.pos + 1 + n)),
                          r.jumps, r.end, "reading")
  <2>1. PICK n \in 1 .. MaxLabel :
                /\ r.pos + 1 + n <= Len(msg)
                /\ q = At(r.pos + 1 + n,
                          Append(r.labels, SubSeq(msg, r.pos + 2, r.pos + 1 + n)),
                          r.jumps, r.end, "reading")
    BY <1>5
  <2>2. PICK p \in Nat : p = r.pos + 1 + n /\ r.pos < p /\ p <= Len(msg)
    BY <1>0, <2>1, Counts
  <2>3. PICK more \in Name : more = Append(r.labels, SubSeq(msg, r.pos + 2, r.pos + 1 + n))
    <3>1. SubSeq(msg, r.pos + 2, r.pos + 1 + n) \in Label
      BY <1>0, <2>1, LabelRead
    <3>2. Append(r.labels, SubSeq(msg, r.pos + 2, r.pos + 1 + n)) \in Name
      BY <1>0, <3>1 DEF Name
    <3> QED
      BY <3>2
  <2>4. q = At(p, more, r.jumps, r.end, "reading")
    BY <2>1, <2>2, <2>3
  <2>5. /\ q \in Reading /\ q.state = "reading" /\ q.pos = p /\ q.labels = more
        /\ q.jumps = r.jumps /\ q.end = r.end
    <3>1. more \in Seq(Seq(Octet))
      BY <2>3, LabelsAreOctets
    <3> QED
      BY <1>0, <2>4, <3>1 DEF At, Reading
  <2>6. Inside(msg, offset, q)
    <3>1. /\ r.state = "reading" /\ r.jumps <= MaxJumps
          /\ r.jumps = 0 => offset <= r.pos
          /\ r.jumps > 0 => offset < r.end /\ r.end <= Len(msg)
      BY <1>5 DEF Inside
    <3>2. r.jumps = 0 => offset <= p
      BY <1>0, <2>2, <3>1
    <3>3. q.state # "read"
      BY <2>5
    <3> QED
      BY <2>2, <2>5, <3>1, <3>2, <3>3 DEF Inside
  <2>7. Left(msg, q) + 1 <= Left(msg, r)
    <3>1. PICK e \in Int : e = (MaxJumps - r.jumps) * (Len(msg) + 1)
      BY <1>0
    <3>2. Left(msg, q) = e + (Len(msg) - p) /\ Left(msg, r) = e + (Len(msg) - r.pos)
      BY <2>5, <3>1 DEF Left
    <3> QED
      BY <1>0, <2>2, <3>2, SMTT(60)
  <2> QED
    BY <1>5, <2>6, <2>7
<1> QED
  BY <1>0, <1>1, <1>2, <1>3, <1>4, <1>5, RoundIsOneOf, SMTT(60)

LEMMA Distribute ==
    ASSUME NEW d \in Nat, NEW j \in Nat, NEW n \in Nat
    PROVE  (d + j + 1) * n = d * n + j * n + n
  OBVIOUS

\* Left is small at the start, and never negative.
LEMMA LeftBounds ==
    ASSUME NEW msg \in Seq(Octet), NEW offset \in Nat, NEW r, Inside(msg, offset, r)
    PROVE  Left(msg, r) \in Nat /\ Left(msg, r) < MostRounds(msg)
<1>0. /\ r.pos \in Nat /\ r.jumps \in Nat /\ r.jumps <= MaxJumps /\ r.pos <= Len(msg)
      /\ Len(msg) \in Nat /\ MaxJumps \in Nat
  BY Counts, ReadingType DEF Inside
<1>1. PICK d \in Nat : d = MaxJumps - r.jumps
  BY <1>0
<1>2. PICK n \in Nat : n = Len(msg) + 1
  BY <1>0
<1>3. d * n \in Nat /\ r.jumps * n \in Nat /\ MaxJumps * n \in Nat
  BY <1>0, <1>1, <1>2, SMTT(60)
<1>4. MaxJumps = d + r.jumps
  BY <1>0, <1>1
<1>5. (MaxJumps + 1) * n = d * n + r.jumps * n + n
  BY <1>0, <1>4, Distribute, SMTT(60)
<1>6. Left(msg, r) = d * n + (Len(msg) - r.pos) /\ MostRounds(msg) = (MaxJumps + 1) * n
  BY <1>1, <1>2 DEF Left, MostRounds
<1>7. PICK e \in Nat : e = d * n
  BY <1>3
<1>8. PICK f \in Nat : f = r.jumps * n
  BY <1>3
<1>9. Left(msg, r) = e + (Len(msg) - r.pos) /\ MostRounds(msg) = e + f + n
  BY <1>5, <1>6, <1>7, <1>8
<1> QED
  BY <1>0, <1>2, <1>9

\* Where the loop starts.
From(offset) == At(offset, <<>>, 0, 0, "reading")

LEMMA FromInside ==
    ASSUME NEW msg \in Seq(Octet), NEW offset \in Nat, offset <= Len(msg)
    PROVE  Inside(msg, offset, From(offset))
<1>1. /\ From(offset) \in Reading /\ From(offset).labels = <<>> /\ From(offset).pos = offset
      /\ From(offset).jumps = 0 /\ From(offset).state = "reading"
  BY DEF From, At, Reading
<1>2. <<>> \in Name
  BY DEF Name
<1>3. MaxJumps \in Nat
  BY CodecAssumption
<1> QED
  BY <1>1, <1>2, <1>3 DEF Inside

LEMMA RoundsStayInside ==
    ASSUME NEW msg \in Seq(Octet), NEW offset \in Nat, offset <= Len(msg), NEW k \in Nat
    PROVE  LET after == readRounds(msg, From(offset)) IN
           /\ Inside(msg, offset, after[k])
           /\ after[k].state = "reading" =>
                 k + Left(msg, after[k]) <= Left(msg, From(offset))
<1> PICK after : after = readRounds(msg, From(offset))
  OBVIOUS
<1> DEFINE Good(i) == /\ Inside(msg, offset, after[i])
                      /\ after[i].state = "reading" =>
                            i + Left(msg, after[i]) <= Left(msg, From(offset))
           T == {i \in Nat : Good(i)}
<1>1. Inside(msg, offset, From(offset)) /\ From(offset) \in Reading
  BY FromInside DEF Inside
<1>2. after[0] = From(offset) /\ \A i \in Nat : after[i + 1] = readLabel(msg, after[i])
  BY <1>1, ReadRoundsDef
<1>3. 0 \in T
  <2>1. Left(msg, From(offset)) \in Nat
    BY <1>1, LeftBounds
  <2>2. 0 + Left(msg, From(offset)) <= Left(msg, From(offset))
    BY <2>1
  <2> QED
    BY <1>1, <1>2, <2>2
<1>4. \A i \in Nat : i \in T => i + 1 \in T
  <2> SUFFICES ASSUME NEW i \in Nat, Good(i) PROVE Good(i + 1)
    OBVIOUS
  <2>1. PICK r : r = after[i]
    OBVIOUS
  <2>2. PICK q : q = after[i + 1]
    OBVIOUS
  <2>3. /\ Inside(msg, offset, r)
        /\ r.state = "reading" => i + Left(msg, r) <= Left(msg, From(offset))
    BY <2>1
  <2>4. q = readLabel(msg, r)
    BY <1>2, <2>1, <2>2
  <2>5. /\ Inside(msg, offset, q)
        /\ r.state # "reading" => q.state # "reading"
        /\ q.state = "reading" => Left(msg, q) + 1 <= Left(msg, r)
    BY <2>3, <2>4, RoundStaysInside
  <2>6. Left(msg, q) \in Nat /\ Left(msg, r) \in Nat /\ Left(msg, From(offset)) \in Nat
    BY <1>1, <2>3, <2>5, LeftBounds
  <2>7. q.state = "reading" => i + 1 + Left(msg, q) <= Left(msg, From(offset))
    BY <2>3, <2>5, <2>6
  <2> QED
    BY <2>2, <2>5, <2>7
<1>5. \A i \in Nat : i \in T
  <2> HIDE DEF T
  <2> QED
    BY <1>3, <1>4, Induct
<1> QED
  BY <1>5

\* The loop of readName ends whatever the packet is and wherever in it the name is
\* said to begin: the limit on jumps is the only thing that stops a pointer to
\* itself, and it does so within (MaxJumps + 1) passes over the message.
THEOREM ReadNameEnds ==
    ASSUME NEW msg \in Seq(Octet), NEW offset \in Nat
    PROVE  \E k \in 0 .. MostRounds(msg) :
              readRounds(msg, From(offset))[k].state # "reading"
<1>0. Len(msg) \in Nat /\ MaxJumps \in Nat
  BY CodecAssumption
<1>1. PICK most \in Nat : most = MostRounds(msg) /\ most >= 1
  <2>1. PICK e \in Nat : e = MaxJumps * (Len(msg) + 1)
    BY <1>0
  <2>2. MostRounds(msg) = e + (Len(msg) + 1)
    BY <1>0, <2>1 DEF MostRounds
  <2> QED
    BY <1>0, <2>2
<1>2. CASE offset <= Len(msg)
  <2> PICK r : r = readRounds(msg, From(offset))[most]
    OBVIOUS
  <2>1. /\ Inside(msg, offset, r)
        /\ r.state = "reading" => most + Left(msg, r) <= Left(msg, From(offset))
    BY <1>2, RoundsStayInside
  <2>2. Left(msg, r) \in Nat /\ Left(msg, From(offset)) \in Nat /\ Left(msg, From(offset)) < most
    BY <1>1, <1>2, <2>1, FromInside, LeftBounds
  <2>3. r.state # "reading"
    BY <2>1, <2>2
  <2> QED
    BY <1>1, <2>3
<1>3. CASE ~(offset <= Len(msg))
  <2>1. /\ From(offset) \in Reading /\ From(offset).pos = offset
        /\ From(offset).state = "reading"
    BY DEF From, At, Reading
  <2>2. PICK after : after = readRounds(msg, From(offset))
    OBVIOUS
  <2>3. after[0] = From(offset) /\ \A k \in Nat : after[k + 1] = readLabel(msg, after[k])
    BY <2>1, <2>2, ReadRoundsDef
  <2>4. readLabel(msg, From(offset)) = [From(offset) EXCEPT !.state = "refused"]
    BY <1>0, <1>3, <2>1 DEF readLabel
  <2>5. after[1].state = "refused"
    <3>1. after[1] = readLabel(msg, From(offset))
      <4>1. 0 \in Nat /\ 0 + 1 = 1
        OBVIOUS
      <4>2. after[0 + 1] = readLabel(msg, after[0])
        BY <2>3, <4>1, Zenon
      <4> QED
        BY <2>3, <4>1, <4>2, Zenon
    <3>2. [From(offset) EXCEPT !.state = "refused"].state = "refused"
      BY <2>1, RefusedReading
    <3> QED
      BY <2>4, <3>1, <3>2
  <2> QED
    BY <1>1, <2>2, <2>5
<1> QED
  BY <1>2, <1>3

\* A round that is not reading is the last.
LEMMA LastRound ==
    ASSUME NEW msg \in Seq(Octet), NEW r \in Reading, NEW k \in Nat,
           readRounds(msg, r)[k].state # "reading"
    PROVE  \A n \in Nat : readRounds(msg, r)[k + n] = readRounds(msg, r)[k]
<1> PICK after : after = readRounds(msg, r)
  OBVIOUS
<1> DEFINE T == {n \in Nat : after[k + n] = after[k]}
<1>1. after \in [Nat -> Reading] /\ \A n \in Nat : after[n + 1] = readLabel(msg, after[n])
  BY ReadRoundsDef
<1>2. 0 \in T
  OBVIOUS
<1>3. \A n \in Nat : n \in T => n + 1 \in T
  <2> SUFFICES ASSUME NEW n \in Nat, after[k + n] = after[k] PROVE after[k + (n + 1)] = after[k]
    OBVIOUS
  <2>1. k + (n + 1) = (k + n) + 1 /\ k + n \in Nat
    OBVIOUS
  <2>2. after[(k + n) + 1] = readLabel(msg, after[k])
    BY <1>1, <2>1
  <2>3. readLabel(msg, after[k]) = after[k]
    BY DEF readLabel
  <2> QED
    BY <2>1, <2>2, <2>3
<1>4. \A n \in Nat : n \in T
  <2> HIDE DEF T
  <2> QED
    BY <1>2, <1>3, Induct
<1> QED
  BY <1>4

\* So there is one result, whichever round readName looks at.
LEMMA OneResult ==
    ASSUME NEW msg \in Seq(Octet), NEW r \in Reading, NEW k \in Nat, NEW m \in Nat,
           readRounds(msg, r)[k].state # "reading", readRounds(msg, r)[m].state # "reading"
    PROVE  readRounds(msg, r)[k] = readRounds(msg, r)[m]
<1> PICK after : after = readRounds(msg, r)
  OBVIOUS
<1>1. CASE k <= m
  <2>1. PICK n \in Nat : m = k + n
    BY <1>1
  <2> QED
    BY <2>1, LastRound
<1>2. CASE m <= k
  <2>1. PICK n \in Nat : k = m + n
    BY <1>2
  <2> QED
    BY <2>1, LastRound
<1> QED
  BY <1>1, <1>2

LEMMA FromReading ==
    ASSUME NEW offset \in Nat
    PROVE  /\ From(offset) \in Reading /\ From(offset).pos = offset
           /\ From(offset).labels = <<>> /\ From(offset).jumps = 0
           /\ From(offset).state = "reading"
  BY DEF From, At, Reading

LEMMA ReadNameIs ==
    ASSUME NEW msg \in Seq(Octet), NEW offset \in Nat, NEW k \in Nat,
           NEW q, q = readRounds(msg, From(offset))[k], q.state # "reading"
    PROVE  readName(msg, offset) =
              IF q.state = "refused" THEN Refused
              ELSE [ok |-> TRUE, name |-> q.labels, next |-> q.end]
<1> PICK after : after = readRounds(msg, From(offset))
  OBVIOUS
<1> DEFINE m == CHOOSE i \in 0 .. MostRounds(msg) : after[i].state # "reading"
<1>1. m \in 0 .. MostRounds(msg) /\ after[m].state # "reading"
  BY ReadNameEnds
<1>2. m \in Nat
  BY <1>1
<1>3. after[m] = q
  <2> HIDE DEF m
  <2> QED
    BY <1>1, <1>2, FromReading, OneResult
<1>4. readName(msg, offset) =
         IF after[m].state = "refused" THEN Refused
         ELSE [ok |-> TRUE, name |-> after[m].labels, next |-> after[m].end]
  BY DEF readName, From, Ended
<1> HIDE DEF m
<1> QED
  BY <1>3, <1>4

\* What readName returns: labels that fit, and an offset after the name that is in
\* the message, for every packet.
THEOREM ReadNameInside ==
    ASSUME NEW msg \in Seq(Octet), NEW offset \in Nat
    PROVE  \/ readName(msg, offset) = Refused
           \/ \E name \in Name, next \in offset + 1 .. Len(msg) :
                 readName(msg, offset) = [ok |-> TRUE, name |-> name, next |-> next]
<1>1. PICK k \in Nat : readRounds(msg, From(offset))[k].state # "reading"
  <2>1. \E k \in 0 .. MostRounds(msg) : readRounds(msg, From(offset))[k].state # "reading"
    BY ReadNameEnds
  <2> QED
    BY <2>1
<1>2. PICK q : q = readRounds(msg, From(offset))[k]
  OBVIOUS
<1>3. readName(msg, offset) =
         IF q.state = "refused" THEN Refused
         ELSE [ok |-> TRUE, name |-> q.labels, next |-> q.end]
  BY <1>1, <1>2, ReadNameIs
<1>4. CASE offset <= Len(msg)
  <2>1. Inside(msg, offset, q) /\ q.state # "reading"
    BY <1>1, <1>2, <1>4, RoundsStayInside
  <2>2. q \in Reading /\ q.labels \in Name
    BY <2>1 DEF Inside
  <2>3. q.state \in {"read", "refused"} /\ q.end \in Nat
    BY <2>1, <2>2, ReadingType
  <2>4. q.state = "read" => q.end \in offset + 1 .. Len(msg)
    BY <2>1, <2>3 DEF Inside
  <2> QED
    BY <1>3, <2>2, <2>3, <2>4
<1>5. CASE ~(offset <= Len(msg))
  <2>1. PICK r \in Reading : r = From(offset) /\ r.pos = offset /\ r.state = "reading"
    BY FromReading
  <2>2. r.pos >= Len(msg)
    BY <1>5, <2>1
  <2>3. readLabel(msg, r) = [r EXCEPT !.state = "refused"]
    BY <2>1, <2>2 DEF readLabel
  <2>4. readLabel(msg, r).state = "refused"
    BY <2>3, RefusedReading
  <2>5. readRounds(msg, r)[1] = readLabel(msg, r)
    <3>1. /\ readRounds(msg, r)[0] = r
          /\ \A n \in Nat : readRounds(msg, r)[n + 1] = readLabel(msg, readRounds(msg, r)[n])
      BY ReadRoundsDef
    <3>2. 0 \in Nat /\ 0 + 1 = 1
      OBVIOUS
    <3>3. readRounds(msg, r)[0 + 1] = readLabel(msg, readRounds(msg, r)[0])
      BY <3>1, <3>2, Zenon
    <3> QED
      BY <3>1, <3>2, <3>3, Zenon
  <2>6. PICK p : p = readRounds(msg, r)[1]
    OBVIOUS
  <2>7. p.state = "refused"
    BY <2>4, <2>5, <2>6
  <2>8. readName(msg, offset) = Refused
    <3>1. 1 \in Nat /\ p = readRounds(msg, From(offset))[1] /\ p.state # "reading"
      BY <2>1, <2>6, <2>7
    <3> QED
      BY <2>7, <3>1, ReadNameIs
  <2> QED
    BY <2>8
<1> QED
  BY <1>4, <1>5

-----------------------------------------------------------------------------
(* Names that never end. *)

\* At an offset there is a pointer to itself.
SelfPointer(msg, p) ==
    /\ p + 1 < Len(msg) /\ msg[p + 1] >= pointerMask
    /\ p = 256 * (msg[p + 1] - pointerMask) + msg[p + 2]

\* The loop of readName is at offset p still, or has given up.
Stuck(r, p) == r.state = "refused" \/ (r.state = "reading" /\ r.pos = p)

LEMMA StaysStuck ==
    ASSUME NEW msg \in Seq(Octet), NEW p \in Nat, SelfPointer(msg, p), NEW r \in Reading,
           Stuck(r, p)
    PROVE  Stuck(readLabel(msg, r), p)
<1>1. CASE r.state = "refused"
  <2>1. readLabel(msg, r) = r
    BY <1>1 DEF readLabel
  <2> QED
    BY <1>1, <2>1 DEF Stuck
<1>2. CASE r.state = "reading" /\ r.pos = p
  <2>0. r.jumps \in Nat /\ MaxJumps \in Nat /\ Len(msg) \in Nat
    BY CodecAssumption, ReadingType
  <2>1. /\ p + 1 < Len(msg) /\ msg[p + 1] >= pointerMask /\ p < Len(msg)
        /\ p = 256 * (msg[p + 1] - pointerMask) + msg[p + 2]
    BY <2>0 DEF SelfPointer
  <2>2. CASE r.jumps + 1 <= MaxJumps
    <3>1. readLabel(msg, r) = At(p, r.labels, r.jumps + 1, Field(r, 2), "reading")
      BY <1>2, <2>1, <2>2, RoundOfPointer
    <3>2. readLabel(msg, r).state = "reading" /\ readLabel(msg, r).pos = p
      BY <3>1 DEF At
    <3> QED
      BY <3>2 DEF Stuck
  <2>3. CASE r.jumps + 1 > MaxJumps
    <3>1. PICK c \in Nat : c = msg[p + 1] /\ c # 0 /\ c >= pointerMask
      <4>1. p + 1 \in 1 .. Len(msg)
        BY <2>0, <2>1
      <4>2. msg[p + 1] \in Nat
        BY <4>1, OctetAt
      <4> QED
        BY <2>1, <4>2 DEF pointerMask
    <3>2. ~(p >= Len(msg)) /\ ~(p + 1 >= Len(msg))
      BY <2>0, <2>1
    <3>3. readLabel(msg, r) = [r EXCEPT !.state = "refused"]
      BY <1>2, <2>3, <3>1, <3>2 DEF readLabel
    <3> QED
      BY <3>3, RefusedReading DEF Stuck
  <2> QED
    BY <2>0, <2>2, <2>3
<1> QED
  BY <1>1, <1>2 DEF Stuck

\* A name that leads, over labels and other pointers or at once, to a pointer to
\* itself is refused: the jumps of readName are counted, whatever they lead to.
THEOREM LoopIsRefused ==
    ASSUME NEW msg \in Seq(Octet), NEW offset \in Nat, NEW k \in Nat, NEW p \in Nat,
           SelfPointer(msg, p), readRounds(msg, From(offset))[k].state = "reading",
           readRounds(msg, From(offset))[k].pos = p
    PROVE  readName(msg, offset) = Refused
<1>1. PICK f : f = readRounds(msg, From(offset))
  OBVIOUS
<1>2. From(offset) \in Reading
  BY FromReading
<1>3. f \in [Nat -> Reading] /\ \A n \in Nat : f[n + 1] = readLabel(msg, f[n])
  BY <1>1, <1>2, ReadRoundsDef
<1> DEFINE T == {n \in Nat : Stuck(f[k + n], p)}
<1>4. 0 \in T
  <2>1. Stuck(f[k], p) /\ k + 0 = k
    BY <1>1 DEF Stuck
  <2> QED
    BY <2>1
<1>5. \A n \in Nat : n \in T => n + 1 \in T
  <2> SUFFICES ASSUME NEW n \in Nat, Stuck(f[k + n], p) PROVE Stuck(f[k + (n + 1)], p)
    BY NextNat, Zenon
  <2>1. k + n \in Nat /\ k + (n + 1) = (k + n) + 1
    OBVIOUS
  <2>2. f[(k + n) + 1] = readLabel(msg, f[k + n]) /\ f[k + n] \in Reading
    BY <1>3, <2>1
  <2>3. Stuck(readLabel(msg, f[k + n]), p)
    BY <2>2, StaysStuck
  <2> QED
    BY <2>1, <2>2, <2>3
<1>6. \A n \in Nat : n \in T
  <2> HIDE DEF T
  <2> QED
    BY <1>4, <1>5, Induct
<1>7. PICK i \in Nat : f[i].state # "reading"
  <2>1. \E i \in 0 .. MostRounds(msg) : f[i].state # "reading"
    BY <1>1, ReadNameEnds
  <2> QED
    BY <2>1
<1>8. f[i + k] = f[i]
  BY <1>1, <1>2, <1>7, LastRound
<1>9. PICK j \in Nat : j = k + i /\ f[j].state # "reading"
  BY <1>7, <1>8
<1>10. f[j].state = "refused"
  BY <1>6, <1>9 DEF Stuck
<1>11. PICK q : q = f[j] /\ q.state = "refused"
  BY <1>10
<1> QED
  BY <1>1, <1>9, <1>11, ReadNameIs

-----------------------------------------------------------------------------
(* What is written is read. *)

\* Some number of rounds lead from r to q.
Leads(msg, r, q) == \E k \in Nat : readRounds(msg, r)[k] = q

LEMMA LeadsOn ==
    ASSUME NEW msg \in Seq(Octet), NEW r \in Reading, NEW q, Leads(msg, readLabel(msg, r), q)
    PROVE  Leads(msg, r, q)
<1>0. PICK r1 \in Reading : r1 = readLabel(msg, r)
  BY ReadLabelType
<1>1. PICK a : a = readRounds(msg, r)
  OBVIOUS
<1>2. PICK b : b = readRounds(msg, r1)
  OBVIOUS
<1>3. a[0] = r /\ \A k \in Nat : a[k + 1] = readLabel(msg, a[k])
  BY <1>1, ReadRoundsDef
<1>4. b[0] = r1 /\ \A k \in Nat : b[k + 1] = readLabel(msg, b[k])
  BY <1>2, ReadRoundsDef
<1> DEFINE T == {k \in Nat : a[k + 1] = b[k]}
<1>5. 0 \in T
  <2>1. 0 \in Nat
    OBVIOUS
  <2>2. a[0 + 1] = b[0]
    BY <1>0, <1>3, <1>4, <2>1, Zenon
  <2> QED
    BY <2>1, <2>2, Zenon
<1>6. \A k \in Nat : k \in T => k + 1 \in T
  <2> SUFFICES ASSUME NEW k \in Nat, a[k + 1] = b[k] PROVE a[(k + 1) + 1] = b[k + 1]
    OBVIOUS
  <2>1. k + 1 \in Nat
    OBVIOUS
  <2>2. a[(k + 1) + 1] = readLabel(msg, a[k + 1])
    BY <1>3, <2>1, Zenon
  <2>3. b[k + 1] = readLabel(msg, b[k])
    BY <1>4, Zenon
  <2> QED
    BY <2>2, <2>3, Zenon
<1>7. \A k \in Nat : k \in T
  <2> HIDE DEF T
  <2> QED
    BY <1>5, <1>6, Induct
<1>8. PICK k \in Nat : b[k] = q
  BY <1>0, <1>2 DEF Leads
<1>9. a[k + 1] = q /\ k + 1 \in Nat
  <2>1. k \in T
    BY <1>7
  <2>2. a[k + 1] = b[k]
    BY <2>1
  <2> QED
    BY <1>8, <2>2
<1> HIDE DEF T
<1> QED
  BY <1>1, <1>9 DEF Leads

LEMMA LeadsNow ==
    ASSUME NEW msg \in Seq(Octet), NEW r \in Reading
    PROVE  Leads(msg, r, r)
<1>1. readRounds(msg, r)[0] = r /\ 0 \in Nat
  BY ReadRoundsDef
<1> QED
  BY <1>1, Zenon DEF Leads

\* Whoever comes to offset p with J jumps to spare reads the labels of s; a name
\* that begins there ends before offset e.
ReadsAt(msg, p, s, J, e) ==
    \A r \in Reading :
        r.state = "reading" /\ r.pos = p /\ r.jumps + J <= MaxJumps =>
            \E q \in Reading :
                /\ Leads(msg, r, q) /\ q.state = "read"
                /\ q.labels = r.labels \o s
                /\ q.end = IF r.jumps = 0 THEN e ELSE r.end

LEMMA RootReads ==
    ASSUME NEW msg \in Seq(Octet), NEW p \in Nat, p < Len(msg), msg[p + 1] = 0
    PROVE  ReadsAt(msg, p, <<>>, 0, p + 1)
<1> SUFFICES ASSUME NEW r \in Reading, r.state = "reading", r.pos = p
             PROVE  \E q \in Reading :
                        /\ Leads(msg, r, q) /\ q.state = "read"
                        /\ q.labels = r.labels \o <<>>
                        /\ q.end = IF r.jumps = 0 THEN p + 1 ELSE r.end
  BY DEF ReadsAt
<1>0. /\ r.pos \in Nat /\ r.labels \in Seq(Seq(Octet)) /\ r.jumps \in Nat
      /\ Field(r, 1) \in Nat
  BY ReadingType, FieldType
<1>1. PICK q : q = readLabel(msg, r)
  OBVIOUS
<1>2. q = At(r.pos, r.labels, r.jumps, Field(r, 1), "read")
  BY <1>1, RoundOfRoot
<1>3. q \in Reading /\ q.state = "read" /\ q.labels = r.labels /\ q.end = Field(r, 1)
  BY <1>0, <1>2 DEF At, Reading
<1>4. Leads(msg, r, q)
  BY <1>1, <1>3, LeadsNow, LeadsOn
<1>5. r.labels \o <<>> = r.labels
  BY <1>0
<1>6. q.end = IF r.jumps = 0 THEN p + 1 ELSE r.end
  BY <1>3 DEF Field
<1> QED
  BY <1>3, <1>4, <1>5, <1>6

LEMMA PointerReads ==
    ASSUME NEW msg \in Seq(Octet), NEW p \in Nat, NEW t \in Nat, NEW s, NEW J \in Nat, NEW e,
           p + 1 < Len(msg), t < Len(msg), msg[p + 1] >= pointerMask,
           t = 256 * (msg[p + 1] - pointerMask) + msg[p + 2],
           ReadsAt(msg, t, s, J, e)
    PROVE  ReadsAt(msg, p, s, J + 1, p + 2)
<1> SUFFICES ASSUME NEW r \in Reading, r.state = "reading", r.pos = p,
                    r.jumps + (J + 1) <= MaxJumps
             PROVE  \E q \in Reading :
                        /\ Leads(msg, r, q) /\ q.state = "read"
                        /\ q.labels = r.labels \o s
                        /\ q.end = IF r.jumps = 0 THEN p + 2 ELSE r.end
  BY DEF ReadsAt
<1>0. /\ r.pos \in Nat /\ r.labels \in Seq(Seq(Octet)) /\ r.jumps \in Nat
      /\ Field(r, 2) \in Nat /\ MaxJumps \in Nat
  <2>1. Field(r, 2) \in Nat
    BY FieldType
  <2> QED
    BY <2>1, ReadingType, Limits
<1>1. PICK r1 : r1 = readLabel(msg, r)
  OBVIOUS
<1>2. r1 = At(t, r.labels, r.jumps + 1, Field(r, 2), "reading")
  <2>1. r.jumps + 1 <= MaxJumps
    BY <1>0, SMTT(60)
  <2> QED
    BY <1>1, <2>1, RoundOfPointer
<1>3. /\ r1 \in Reading /\ r1.pos = t /\ r1.labels = r.labels /\ r1.jumps = r.jumps + 1
      /\ r1.end = Field(r, 2) /\ r1.state = "reading"
  BY <1>0, <1>2, SMTT(60) DEF At, Reading
<1>4. r1.jumps + J <= MaxJumps /\ r1.jumps # 0
  BY <1>0, <1>3, SMTT(60)
<1>5. PICK q \in Reading :
         /\ Leads(msg, r1, q) /\ q.state = "read" /\ q.labels = r.labels \o s
         /\ q.end = Field(r, 2)
  <2>1. \E q \in Reading :
           /\ Leads(msg, r1, q) /\ q.state = "read" /\ q.labels = r1.labels \o s
           /\ q.end = IF r1.jumps = 0 THEN e ELSE r1.end
    BY <1>3, <1>4 DEF ReadsAt
  <2> QED
    BY <1>3, <1>4, <2>1, ZenonT(90)
<1>6. Leads(msg, r, q)
  BY <1>1, <1>5, LeadsOn
<1>7. q.end = IF r.jumps = 0 THEN p + 2 ELSE r.end
  BY <1>5 DEF Field
<1> QED
  BY <1>5, <1>6, <1>7

LEMMA AppendThen ==
    ASSUME NEW a \in Seq(Seq(Octet)), NEW x \in Seq(Octet), NEW b \in Seq(Seq(Octet))
    PROVE  Append(a, x) \o b = a \o (<<x>> \o b)
<1>1. PICK S : S = Seq(Octet)
  OBVIOUS
<1>2. a \in Seq(S) /\ x \in S /\ b \in Seq(S)
  BY <1>1
<1> QED
  BY <1>2

LEMMA LabelReads ==
    ASSUME NEW msg \in Seq(Octet), NEW p \in Nat, NEW l \in Label, NEW s \in Name,
           NEW J \in Nat, NEW e, p + 1 + Len(l) <= Len(msg), msg[p + 1] = Len(l),
           SubSeq(msg, p + 2, p + 1 + Len(l)) = l, ReadsAt(msg, p + 1 + Len(l), s, J, e)
    PROVE  ReadsAt(msg, p, <<l>> \o s, J, e)
<1> SUFFICES ASSUME NEW r \in Reading, r.state = "reading", r.pos = p,
                    r.jumps + J <= MaxJumps
             PROVE  \E q \in Reading :
                        /\ Leads(msg, r, q) /\ q.state = "read"
                        /\ q.labels = r.labels \o (<<l>> \o s)
                        /\ q.end = IF r.jumps = 0 THEN e ELSE r.end
  BY DEF ReadsAt
<1>0. /\ r.pos \in Nat /\ r.labels \in Seq(Seq(Octet)) /\ r.jumps \in Nat /\ r.end \in Nat
      /\ s \in Seq(Seq(Octet)) /\ l \in Seq(Octet)
  BY ReadingType, LabelsAreOctets DEF Label
<1>1. PICK n \in 1 .. MaxLabel : n = Len(l)
  BY DEF Label
<1>2. PICK t \in Nat : t = p + 1 + n
  BY <1>1, CodecAssumption
<1>3. PICK r1 : r1 = readLabel(msg, r)
  OBVIOUS
<1>4. PICK more \in Seq(Seq(Octet)) : more = Append(r.labels, l)
  <2>1. Append(r.labels, l) \in Seq(Seq(Octet))
    BY <1>0
  <2> QED
    BY <2>1
<1>5. r1 = At(t, more, r.jumps, r.end, "reading")
  <2>1. r1 = At(r.pos + 1 + n, Append(r.labels, SubSeq(msg, r.pos + 2, r.pos + 1 + n)),
                r.jumps, r.end, "reading")
    BY <1>1, <1>3, RoundOfLabel
  <2>2. SubSeq(msg, r.pos + 2, r.pos + 1 + n) = l
    BY <1>1
  <2> QED
    BY <1>2, <1>4, <2>1, <2>2
<1>6. /\ r1 \in Reading /\ r1.pos = t /\ r1.labels = more /\ r1.jumps = r.jumps
      /\ r1.end = r.end /\ r1.state = "reading"
  BY <1>0, <1>5 DEF At, Reading
<1>7. ReadsAt(msg, t, s, J, e)
  BY <1>1, <1>2
<1>8. PICK q \in Reading :
         /\ Leads(msg, r1, q) /\ q.state = "read" /\ q.labels = more \o s
         /\ q.end = IF r.jumps = 0 THEN e ELSE r.end
  BY <1>6, <1>7, ZenonT(90) DEF ReadsAt
<1>9. Leads(msg, r, q)
  BY <1>3, <1>8, LeadsOn
<1>10. more \o s = r.labels \o (<<l>> \o s)
  <2>1. Append(r.labels, l) \o s = r.labels \o (<<l>> \o s)
    BY <1>0, AppendThen
  <2> QED
    BY <1>4, <2>1
<1> QED
  BY <1>8, <1>9, <1>10

\* For a name that is read from its first octet on.
LEMMA ReadsAtReads ==
    ASSUME NEW msg \in Seq(Octet), NEW p \in Nat, NEW s \in Name, NEW J \in Nat, NEW e,
           J <= MaxJumps, ReadsAt(msg, p, s, J, e)
    PROVE  readName(msg, p) = [ok |-> TRUE, name |-> s, next |-> e]
<1>1. PICK r \in Reading : /\ r = From(p) /\ r.pos = p /\ r.labels = <<>> /\ r.jumps = 0
                           /\ r.state = "reading"
  BY FromReading
<1>2. r.jumps + J <= MaxJumps
  BY <1>1
<1>3. PICK q \in Reading :
         Leads(msg, r, q) /\ q.state = "read" /\ q.labels = <<>> \o s /\ q.end = e
  BY <1>1, <1>2, ZenonT(90) DEF ReadsAt
<1>4. q.labels = s
  BY <1>3 DEF Name
<1>5. PICK k \in Nat : q = readRounds(msg, From(p))[k]
  BY <1>1, <1>3 DEF Leads
<1>6. q.state # "reading" /\ q.state # "refused"
  BY <1>3
<1> QED
  BY <1>3, <1>4, <1>5, <1>6, ReadNameIs

-----------------------------------------------------------------------------
(* Writing. *)

Table == UNION {[D -> Nat] : D \in SUBSET Name}
Packer == [buf : Seq(Octet), comp : Table, ok : BOOLEAN]

LEMMA TableIs ==
    ASSUME NEW f \in Table
    PROVE  f \in [DOMAIN f -> Nat] /\ DOMAIN f \subseteq Name
<1>1. PICK D \in SUBSET Name : f \in [D -> Nat]
  BY DEF Table
<1>2. DOMAIN f = D
  BY <1>1
<1> QED
  BY <1>1, <1>2

LEMMA IsTable ==
    ASSUME NEW D \in SUBSET Name, NEW f \in [D -> Nat]
    PROVE  f \in Table
  BY DEF Table

LEMMA PackerType ==
    ASSUME NEW w \in Packer
    PROVE  w.buf \in Seq(Octet) /\ w.comp \in Table /\ w.ok \in BOOLEAN
  BY DEF Packer

LEMMA PutIs ==
    ASSUME NEW w \in Packer, NEW octets \in Seq(Octet)
    PROVE  /\ Put(w, octets) \in Packer
           /\ Put(w, octets).buf = w.buf \o octets
           /\ Put(w, octets).comp = w.comp
           /\ Put(w, octets).ok = w.ok
<1>1. w.buf \in Seq(Octet) /\ w.comp \in Table /\ w.ok \in BOOLEAN
  BY PackerType
<1>2. PICK b \in Seq(Octet) : b = w.buf \o octets
  <2>1. w.buf \o octets \in Seq(Octet)
    BY <1>1
  <2> QED
    BY <2>1
<1>3. Put(w, octets) = [w EXCEPT !.buf = b]
  BY <1>2 DEF Put
<1> QED
  BY <1>2, <1>3 DEF Packer

\* The table with one more suffix in it.
LEMMA TableAdd ==
    ASSUME NEW f \in Table, NEW s \in Name, NEW p \in Nat
    PROVE  /\ Recorded(f, s, p) \in Table
           /\ DOMAIN Recorded(f, s, p) = DOMAIN f \cup {s}
           /\ Recorded(f, s, p)[s] = p
           /\ \A t \in DOMAIN f \ {s} : Recorded(f, s, p)[t] = f[t]
<1>1. f \in [DOMAIN f -> Nat] /\ DOMAIN f \subseteq Name
  BY TableIs
<1>2. PICK D : D = DOMAIN f
  OBVIOUS
<1>3. PICK g : g = Recorded(f, s, p)
  OBVIOUS
<1>4. g = [x \in D \cup {s} |-> IF x = s THEN p ELSE f[x]]
  BY <1>2, <1>3 DEF Recorded
<1>5. g \in [D \cup {s} -> Nat] /\ D \cup {s} \in SUBSET Name
  BY <1>1, <1>2, <1>4
<1>6. g \in Table
  BY <1>5, IsTable
<1> QED
  BY <1>2, <1>3, <1>4, <1>6

LEMMA IsOctet ==
    ASSUME NEW x \in Nat, x <= 255
    PROVE  x \in Octet
  BY DEF Octet

LEMMA LabelType ==
    ASSUME NEW l \in Label
    PROVE  /\ l \in Seq(Octet) /\ Len(l) \in Nat /\ Len(l) \in 1 .. MaxLabel
           /\ Len(l) \in Octet /\ ~(Len(l) > MaxLabel)
<1>1. l \in Seq(Octet) /\ Len(l) \in 1 .. MaxLabel
  BY DEF Label
<1>2. PICK n \in Nat : n = Len(l)
  BY <1>1
<1>3. n <= MaxLabel /\ n <= 255
  BY <1>1, <1>2, Limits
<1>4. ~(n > MaxLabel)
  BY <1>3, Limits
<1> QED
  BY <1>1, <1>2, <1>3, <1>4, IsOctet

LEMMA LabelOctets ==
    ASSUME NEW l \in Label
    PROVE  /\ l \in Seq(Octet) /\ Len(l) \in Nat /\ Len(l) \in 1 .. MaxLabel
           /\ <<Len(l)>> \o l \in Seq(Octet)
           /\ Len(<<Len(l)>> \o l) = 1 + Len(l)
           /\ (<<Len(l)>> \o l)[1] = Len(l)
           /\ \A i \in 1 .. Len(l) : (<<Len(l)>> \o l)[1 + i] = l[i]
<1>1. l \in Seq(Octet) /\ Len(l) \in 1 .. MaxLabel
  BY LabelType
<1>2. Len(l) \in Octet /\ Len(l) \in Nat
  BY LabelType
<1>3. PICK n \in Octet : n = Len(l) /\ n \in Nat
  BY <1>2
<1>4. /\ <<n>> \o l \in Seq(Octet) /\ Len(<<n>> \o l) = 1 + n /\ (<<n>> \o l)[1] = n
      /\ \A i \in 1 .. n : (<<n>> \o l)[1 + i] = l[i]
  BY <1>1, <1>3
<1> QED
  BY <1>1, <1>3, <1>4

LEMMA WriteLabelIs ==
    ASSUME NEW w \in Packer, NEW s \in Name, s # <<>>
    PROVE  /\ writeLabel(w, s) \in Packer /\ Head(s) \in Label
           /\ writeLabel(w, s).buf = w.buf \o (<<Len(Head(s))>> \o Head(s))
           /\ writeLabel(w, s).ok = w.ok
           /\ writeLabel(w, s).comp = IF Len(w.buf) > MaxPointer THEN w.comp
                                      ELSE Recorded(w.comp, s, Len(w.buf))
<1>1. PICK l \in Label : l = Head(s)
  BY DEF Name
<1>2. PICK octets \in Seq(Octet) : octets = <<Len(l)>> \o l
  BY LabelOctets
<1>3. ~(Len(l) > MaxLabel)
  BY LabelType
<1>4. PICK v \in Packer : /\ v = Put(w, octets) /\ v.buf = w.buf \o octets
                          /\ v.comp = w.comp /\ v.ok = w.ok
  BY PutIs
<1>5. PICK c \in Table : c = IF Len(w.buf) > MaxPointer THEN w.comp
                             ELSE Recorded(w.comp, s, Len(w.buf))
  <2>1. w.comp \in Table /\ Len(w.buf) \in Nat
    BY PackerType
  <2>2. Recorded(w.comp, s, Len(w.buf)) \in Table
    BY <2>1, TableAdd
  <2> QED
    BY <2>1, <2>2
<1>6. writeLabel(w, s) = [v EXCEPT !.comp = c]
  <2>1. writeLabel(w, s) = [Put(w, octets) EXCEPT
             !.comp = IF Len(w.buf) > MaxPointer THEN @
                      ELSE Recorded(@, s, Len(w.buf))]
    BY <1>1, <1>2, <1>3 DEF writeLabel
  <2> QED
    BY <1>4, <1>5, <2>1
<1>7. [v EXCEPT !.comp = c] \in Packer /\ [v EXCEPT !.comp = c].buf = v.buf
      /\ [v EXCEPT !.comp = c].ok = v.ok /\ [v EXCEPT !.comp = c].comp = c
  BY DEF Packer
<1> QED
  BY <1>1, <1>2, <1>4, <1>5, <1>6, <1>7

LEMMA HeadThen ==
    ASSUME NEW S, NEW a \in Seq(S), NEW b \in Seq(S), Len(a) = Len(b) + 1,
           \A i \in 1 .. Len(b) : a[i + 1] = b[i]
    PROVE  a = <<Head(a)>> \o b
<1>1. PICK x \in S : x = Head(a) /\ x = a[1]
  OBVIOUS
<1>2. PICK c \in Seq(S) : c = <<x>> \o b
  <2>1. <<x>> \o b \in Seq(S)
    OBVIOUS
  <2> QED
    BY <2>1
<1>3. Len(c) = Len(b) + 1 /\ c[1] = x
  BY <1>2
<1>4. ASSUME NEW i \in 1 .. Len(a) PROVE a[i] = c[i]
  <2>1. CASE i = 1
    BY <1>1, <1>3, <2>1
  <2>2. CASE i # 1
    <3>1. PICK j \in 1 .. Len(b) : i = j + 1
      BY <2>2
    <3>2. c[j + 1] = b[j]
      BY <1>2
    <3> QED
      BY <3>1, <3>2
  <2> QED
    BY <2>1, <2>2
<1>5. a = c
  BY <1>3, <1>4
<1> QED
  BY <1>1, <1>2, <1>5

LEMMA SuffixIs ==
    ASSUME NEW name \in Name, NEW k \in 1 .. Len(name)
    PROVE  /\ Suffix(name, k) \in Name /\ Suffix(name, k) # <<>>
           /\ Len(Suffix(name, k)) = Len(name) - k + 1
           /\ Suffix(name, k + 1) \in Name
           /\ Suffix(name, k) = <<Head(Suffix(name, k))>> \o Suffix(name, k + 1)
<1>1. /\ Suffix(name, k) \in Seq(Label) /\ Suffix(name, k + 1) \in Seq(Label)
      /\ Len(Suffix(name, k)) = Len(name) - k + 1
      /\ Len(Suffix(name, k + 1)) = Len(name) - k
  BY DEF Suffix, Name
<1>2. Suffix(name, k) # <<>>
  BY <1>1
<1>3. /\ \A i \in 1 .. Len(name) - k + 1 : Suffix(name, k)[i] = name[k + i - 1]
      /\ \A i \in 1 .. Len(name) - k : Suffix(name, k + 1)[i] = name[k + 1 + i - 1]
  BY DEF Suffix, Name
<1>4. PICK a \in Seq(Label) : a = Suffix(name, k)
  BY <1>1
<1>5. PICK b \in Seq(Label) : b = Suffix(name, k + 1)
  BY <1>1
<1>6. Len(a) = Len(b) + 1
  BY <1>1, <1>4, <1>5 DEF Name
<1>7. ASSUME NEW i \in 1 .. Len(b) PROVE a[i + 1] = b[i]
  <2>1. i \in 1 .. Len(name) - k /\ i + 1 \in 1 .. Len(name) - k + 1
    BY <1>1, <1>5 DEF Name
  <2>2. a[i + 1] = name[k + (i + 1) - 1] /\ b[i] = name[k + 1 + i - 1]
    BY <1>3, <1>4, <1>5, <2>1
  <2>3. k + (i + 1) - 1 = k + 1 + i - 1
    BY <2>1
  <2> QED
    BY <2>2, <2>3
<1>8. a = <<Head(a)>> \o b
  BY <1>6, <1>7, HeadThen
<1> QED
  BY <1>1, <1>2, <1>4, <1>5, <1>8 DEF Name

LEMMA SuffixEnds ==
    ASSUME NEW name \in Name
    PROVE  Suffix(name, 1) = name /\ Suffix(name, Len(name) + 1) = <<>>
  BY DEF Suffix, Name

\* What writeRounds is.
LEMMA WriteRoundsDef ==
    ASSUME NEW w \in Packer, NEW name \in Name
    PROVE  /\ writeRounds(w, name)[0] = w
           /\ \A k \in 0 .. Len(name) : writeRounds(w, name)[k] \in Packer
           /\ \A k \in 1 .. Len(name) :
                 writeRounds(w, name)[k] =
                    writeLabel(writeRounds(w, name)[k - 1], Suffix(name, k))
<1> DEFINE label(k, v) == IF k \in 1 .. Len(name) THEN writeLabel(v, Suffix(name, k)) ELSE v
           step == [x \in Nat \X Packer |-> label(x[1], x[2])]
           after == writeRounds(w, name)
<1>0. Len(name) \in Nat
  BY DEF Name
<1>1. ASSUME NEW k \in Nat, NEW v \in Packer PROVE label(k, v) \in Packer
  <2>1. CASE k \in 1 .. Len(name)
    BY <2>1, SuffixIs, WriteLabelIs
  <2>2. CASE k \notin 1 .. Len(name)
    BY <2>2
  <2> QED
    BY <2>1, <2>2
<1>2. \A k \in 1 .. Len(name), v \in Packer : label(k, v) = writeLabel(v, Suffix(name, k))
  OBVIOUS
<1> HIDE DEF label
<1>3. step \in [Nat \X Packer -> Packer]
  BY <1>1
<1>4. \A k \in Nat, v \in Packer : step[<<k, v>>] = label(k, v)
  OBVIOUS
<1> HIDE DEF step
<1>5. PICK f \in [Nat -> Packer] :
        f[0] = w /\ \A k \in Nat \ {0} : f[k] = step[<<k, f[k - 1]>>]
  <2>1. Starts(Packer, w, step)
    BY <1>3 DEF Starts
  <2>2. \E f : Loops(Packer, w, step, f)
    BY <2>1, LoopExists
  <2> QED
    BY <2>2 DEF Loops
<1>6. PICK g : g = [k \in 0 .. Len(name) |-> f[k]]
  OBVIOUS
<1>7. ASSUME NEW k \in 0 .. Len(name), k # 0
      PROVE  g[k] = writeLabel(g[k - 1], Suffix(name, k))
  <2>1. k \in Nat \ {0} /\ k - 1 \in Nat /\ k \in 1 .. Len(name) /\ k - 1 \in 0 .. Len(name)
    BY <1>0, <1>7
  <2>2. f[k - 1] \in Packer /\ g[k - 1] = f[k - 1] /\ g[k] = f[k]
    BY <1>6, <2>1
  <2>3. f[k] = step[<<k, f[k - 1]>>]
    BY <1>5, <2>1
  <2>4. step[<<k, f[k - 1]>>] = label(k, f[k - 1])
    BY <1>4, <2>1, <2>2
  <2>5. label(k, f[k - 1]) = writeLabel(f[k - 1], Suffix(name, k))
    BY <1>2, <2>1, <2>2
  <2> QED
    BY <2>2, <2>3, <2>4, <2>5
<1>8. g = [k \in 0 .. Len(name) |->
              IF k = 0 THEN w ELSE writeLabel(g[k - 1], Suffix(name, k))]
  <2>1. g[0] = w
    BY <1>0, <1>5, <1>6
  <2> QED
    BY <1>6, <1>7, <2>1
<1>9. after = [k \in 0 .. Len(name) |->
                  IF k = 0 THEN w ELSE writeLabel(after[k - 1], Suffix(name, k))]
  <2>1. after = CHOOSE h : h = [k \in 0 .. Len(name) |->
                  IF k = 0 THEN w ELSE writeLabel(h[k - 1], Suffix(name, k))]
    BY DEF writeRounds
  <2> QED
    BY <1>8, <2>1
<1> HIDE DEF after
<1>10. after[0] = w
  BY <1>0, <1>9
<1>11. ASSUME NEW k \in 1 .. Len(name)
       PROVE  after[k] = writeLabel(after[k - 1], Suffix(name, k))
  <2>1. k \in 0 .. Len(name) /\ k # 0
    BY <1>0
  <2> QED
    BY <1>9, <2>1
<1>12. \A k \in Nat : k <= Len(name) => after[k] \in Packer
  <2> DEFINE T == {k \in Nat : k <= Len(name) => after[k] \in Packer}
  <2>1. 0 \in T
    BY <1>10
  <2>2. \A k \in Nat : k \in T => k + 1 \in T
    <3> SUFFICES ASSUME NEW k \in Nat, k <= Len(name) => after[k] \in Packer,
                        k + 1 <= Len(name)
                 PROVE  after[k + 1] \in Packer
      OBVIOUS
    <3>1. k + 1 \in 1 .. Len(name) /\ after[k] \in Packer /\ k + 1 - 1 = k
      BY <1>0
    <3>2. after[k + 1] = writeLabel(after[k], Suffix(name, k + 1))
      BY <1>11, <3>1
    <3>3. Suffix(name, k + 1) \in Name /\ Suffix(name, k + 1) # <<>>
      BY <3>1, SuffixIs
    <3> QED
      BY <3>1, <3>2, <3>3, WriteLabelIs
  <2>3. \A k \in Nat : k \in T
    <3> HIDE DEF T
    <3> QED
      BY <2>1, <2>2, Induct
  <2> QED
    BY <2>3
<1>13. \A k \in 0 .. Len(name) : after[k] \in Packer
  BY <1>0, <1>12
<1> QED
  BY <1>10, <1>11, <1>13 DEF after

LEMMA UnknownIs ==
    ASSUME NEW w, NEW name \in Name
    PROVE  /\ Unknown(w, name) \in 0 .. Len(name)
           /\ \A k \in 1 .. Unknown(w, name) : Suffix(name, k) \notin DOMAIN w.comp
           /\ Unknown(w, name) < Len(name) =>
                 Suffix(name, Unknown(w, name) + 1) \in DOMAIN w.comp
<1>0. Len(name) \in Nat
  BY DEF Name
<1> DEFINE T == {i \in 0 .. Len(name) :
                    i < Len(name) => Suffix(name, i + 1) \in DOMAIN w.comp}
<1>1. Len(name) \in T /\ T \in SUBSET Nat
  BY <1>0
<1>2. PICK n \in T : \A m \in T : n <= m
  <2> HIDE DEF T
  <2> QED
    BY <1>1, LeastNat
<1>3. ASSUME NEW k \in 1 .. n PROVE Suffix(name, k) \notin DOMAIN w.comp
  <2>1. PICK i \in Nat : k = i + 1 /\ i \in 0 .. Len(name) /\ i < n /\ i < Len(name)
    BY <1>0
  <2>2. i \notin T
    BY <1>2, <2>1
  <2> QED
    BY <2>1, <2>2
<1>4. n \in 0 .. Len(name) /\ (n < Len(name) => Suffix(name, n + 1) \in DOMAIN w.comp)
  OBVIOUS
<1> HIDE DEF T
<1> QED
  BY <1>3, <1>4 DEF Unknown

-----------------------------------------------------------------------------
(* A packet and the buffer it comes from. *)

\* The packet msg begins with buf, but for octets that are filled in later.
Agree(msg, buf, gaps) ==
    /\ Len(buf) <= Len(msg)
    /\ \A i \in 1 .. Len(buf) : i \notin gaps => msg[i] = buf[i]

LEMMA ConcatIs ==
    ASSUME NEW a \in Seq(Octet), NEW b \in Seq(Octet)
    PROVE  /\ a \o b \in Seq(Octet) /\ Len(a \o b) = Len(a) + Len(b)
           /\ \A i \in 1 .. Len(a) : (a \o b)[i] = a[i]
           /\ \A i \in 1 .. Len(b) : (a \o b)[Len(a) + i] = b[i]
  OBVIOUS

LEMMA ConcatAgain ==
    ASSUME NEW a \in Seq(Octet), NEW b \in Seq(Octet), NEW c \in Seq(Octet)
    PROVE  (a \o b) \o c = a \o (b \o c)
  OBVIOUS

LEMMA SubSeqIs ==
    ASSUME NEW msg \in Seq(Octet), NEW m \in Nat, NEW n \in Nat, m + n <= Len(msg)
    PROVE  /\ SubSeq(msg, m + 1, m + n) \in Seq(Octet)
           /\ Len(SubSeq(msg, m + 1, m + n)) = n
           /\ \A i \in 1 .. n : SubSeq(msg, m + 1, m + n)[i] = msg[m + i]
  OBVIOUS

LEMMA AgreePrefix ==
    ASSUME NEW msg \in Seq(Octet), NEW a \in Seq(Octet), NEW b \in Seq(Octet), NEW gaps,
           Agree(msg, a \o b, gaps)
    PROVE  Agree(msg, a, gaps)
<1>1. PICK c \in Seq(Octet) : /\ c = a \o b /\ Len(c) = Len(a) + Len(b)
                              /\ \A i \in 1 .. Len(a) : c[i] = a[i]
  BY ConcatIs
<1>2. Len(c) <= Len(msg) /\ \A i \in 1 .. Len(c) : i \notin gaps => msg[i] = c[i]
  BY <1>1 DEF Agree
<1>3. Len(a) <= Len(msg)
  BY <1>1, <1>2
<1>4. ASSUME NEW i \in 1 .. Len(a), i \notin gaps PROVE msg[i] = a[i]
  <2>1. i \in 1 .. Len(c)
    BY <1>1
  <2> QED
    BY <1>1, <1>2, <1>4, <2>1
<1> QED
  BY <1>3, <1>4 DEF Agree

LEMMA AgreeTail ==
    ASSUME NEW msg \in Seq(Octet), NEW a \in Seq(Octet), NEW b \in Seq(Octet), NEW gaps,
           \A i \in gaps : i \in Nat /\ i <= Len(a), Agree(msg, a \o b, gaps)
    PROVE  /\ Len(a) + Len(b) <= Len(msg)
           /\ \A i \in 1 .. Len(b) : msg[Len(a) + i] = b[i]
<1>1. PICK c \in Seq(Octet) : /\ c = a \o b /\ Len(c) = Len(a) + Len(b)
                              /\ \A i \in 1 .. Len(b) : c[Len(a) + i] = b[i]
  BY ConcatIs, ZenonT(90)
<1>2. Len(c) <= Len(msg) /\ \A i \in 1 .. Len(c) : i \notin gaps => msg[i] = c[i]
  BY <1>1 DEF Agree
<1>3. ASSUME NEW i \in 1 .. Len(b) PROVE msg[Len(a) + i] = b[i]
  <2>1. Len(a) + i \in 1 .. Len(c) /\ ~(Len(a) + i <= Len(a))
    BY <1>1
  <2>2. Len(a) + i \notin gaps
    BY <2>1
  <2> QED
    BY <1>1, <1>2, <2>1, <2>2
<1> QED
  BY <1>1, <1>2, <1>3

LEMMA LabelInPlace ==
    ASSUME NEW msg \in Seq(Octet), NEW a \in Seq(Octet), NEW l \in Label, NEW s \in Name,
           NEW J \in Nat, NEW e, NEW gaps,
           \A i \in gaps : i \in Nat /\ i <= Len(a),
           Agree(msg, a \o (<<Len(l)>> \o l), gaps),
           ReadsAt(msg, Len(a \o (<<Len(l)>> \o l)), s, J, e)
    PROVE  ReadsAt(msg, Len(a), <<l>> \o s, J, e)
<1>1. PICK b \in Seq(Octet) :
         /\ b = <<Len(l)>> \o l /\ Len(b) = 1 + Len(l) /\ b[1] = Len(l)
         /\ \A i \in 1 .. Len(l) : b[1 + i] = l[i]
  BY LabelOctets
<1>2. l \in Seq(Octet) /\ Len(l) \in Nat /\ Len(a) \in Nat
  BY LabelType
<1>3. /\ Len(a) + Len(b) <= Len(msg)
      /\ \A i \in 1 .. Len(b) : msg[Len(a) + i] = b[i]
  BY <1>1, AgreeTail
<1>4. Len(a \o b) = Len(a) + 1 + Len(l)
  BY <1>1, <1>2
<1>5. ReadsAt(msg, Len(a) + 1 + Len(l), s, J, e)
  BY <1>1, <1>4
<1>6. msg[Len(a) + 1] = Len(l) /\ Len(a) + 1 + Len(l) <= Len(msg)
  BY <1>1, <1>2, <1>3
<1>7. SubSeq(msg, Len(a) + 2, Len(a) + 1 + Len(l)) = l
  <2>1. PICK m \in Nat : m = Len(a) + 1 /\ m + Len(l) <= Len(msg)
    BY <1>2, <1>6
  <2>2. PICK c \in Seq(Octet) :
           /\ c = SubSeq(msg, m + 1, m + Len(l)) /\ Len(c) = Len(l)
           /\ \A i \in 1 .. Len(l) : c[i] = msg[m + i]
    <3>1. PICK n \in Nat : n = Len(l) /\ m + n <= Len(msg)
      BY <1>2, <2>1
    <3>2. /\ SubSeq(msg, m + 1, m + n) \in Seq(Octet)
          /\ Len(SubSeq(msg, m + 1, m + n)) = n
          /\ \A i \in 1 .. n : SubSeq(msg, m + 1, m + n)[i] = msg[m + i]
      BY <3>1, SubSeqIs
    <3> QED
      BY <3>1, <3>2, Zenon
  <2>3. ASSUME NEW i \in 1 .. Len(l) PROVE c[i] = l[i]
    <3>1. 1 + i \in 1 .. Len(b) /\ m + i = Len(a) + (1 + i)
      BY <1>1, <1>2, <2>1
    <3>2. msg[Len(a) + (1 + i)] = b[1 + i]
      BY <1>3, <3>1
    <3> QED
      BY <1>1, <2>2, <3>1, <3>2
  <2>4. c = l
    BY <1>2, <2>2, <2>3
  <2>5. m + 1 = Len(a) + 2 /\ m + Len(l) = Len(a) + 1 + Len(l)
    BY <1>2, <2>1
  <2> QED
    BY <2>2, <2>4, <2>5
<1> QED
  BY <1>2, <1>5, <1>6, <1>7, LabelReads

-----------------------------------------------------------------------------
(* writeName. *)

\* The octets after the labels.
NameEnd(w, name) ==
    LET offset == w.comp[Suffix(name, Unknown(w, name) + 1)]
    IN IF Unknown(w, name) = Len(name) THEN <<0>>
       ELSE <<pointerMask + offset \div 256, offset % 256>>

\* Every suffix of the table can be read where the table says, in each packet that
\* begins with the buffer.
Findable(w, gaps) ==
    \A s \in DOMAIN w.comp :
        /\ s # <<>> /\ w.comp[s] <= MaxPointer /\ w.comp[s] < Len(w.buf)
        /\ \A msg \in Seq(Octet) :
              Agree(msg, w.buf, gaps) => \E e : ReadsAt(msg, w.comp[s], s, Len(s) - 1, e)

LEMMA PointerOctets ==
    ASSUME NEW o \in Nat, o <= 16383
    PROVE  /\ pointerMask + o \div 256 \in Octet /\ o % 256 \in Octet
           /\ pointerMask + o \div 256 >= pointerMask
           /\ o = 256 * ((pointerMask + o \div 256) - pointerMask) + (o % 256)
<1>1. PICK h \in Nat : h = o \div 256 /\ h <= 63
  OBVIOUS
<1>2. PICK m \in Nat : m = o % 256 /\ m <= 255
  OBVIOUS
<1>3. o = 256 * h + m
  BY <1>1, <1>2
<1>4. PICK g \in Nat : g = pointerMask + h /\ g <= 255 /\ g >= pointerMask /\ g - pointerMask = h
  BY <1>1 DEF pointerMask
<1>5. g \in Octet /\ m \in Octet
  BY <1>2, <1>4, IsOctet
<1> QED
  BY <1>1, <1>2, <1>3, <1>4, <1>5

LEMMA Below ==
    ASSUME NEW m \in Nat, NEW n \in 0 .. m, n + 1 \in 1 .. m
    PROVE  m - n \in Nat \ {0}
  OBVIOUS

LEMMA ReadsAtMore ==
    ASSUME NEW msg \in Seq(Octet), NEW p \in Nat, NEW s, NEW J \in Nat, NEW K \in Nat, NEW e,
           J <= K, ReadsAt(msg, p, s, J, e)
    PROVE  ReadsAt(msg, p, s, K, e)
<1> SUFFICES ASSUME NEW r \in Reading, r.state = "reading", r.pos = p,
                    r.jumps + K <= MaxJumps
             PROVE  r.jumps + J <= MaxJumps
  BY DEF ReadsAt
<1>1. r.jumps \in Nat /\ MaxJumps \in Nat
  BY ReadingType, Limits
<1> QED
  BY <1>1

\* The buffer and the table after k labels.
Written(w, name, k) ==
    LET after == writeRounds(w, name) IN
    /\ after[k].ok = w.ok
    /\ \E more \in Seq(Octet) : after[k].buf = w.buf \o more
    /\ \A t \in DOMAIN after[k].comp :
          \/ t \in DOMAIN w.comp /\ after[k].comp[t] = w.comp[t]
          \/ \E i \in 1 .. k : /\ t = Suffix(name, i)
                               /\ after[k].comp[t] = Len(after[i - 1].buf)
                               /\ Len(after[i - 1].buf) <= MaxPointer

LEMMA OneLabelWritten ==
    ASSUME NEW w \in Packer, NEW name \in Name, NEW k \in Nat, k + 1 <= Len(name),
           Written(w, name, k)
    PROVE  Written(w, name, k + 1)
<1> PICK after : after = writeRounds(w, name)
  OBVIOUS
<1>0. Len(name) \in Nat /\ k + 1 \in 1 .. Len(name) /\ k \in 0 .. Len(name)
  BY DEF Name
<1>1. PICK u \in Packer : u = after[k]
  BY <1>0, WriteRoundsDef
<1>2. PICK s \in Name : s = Suffix(name, k + 1) /\ s # <<>>
  BY <1>0, SuffixIs
<1>3. PICK v \in Packer : v = after[k + 1]
  <2>1. k + 1 \in 0 .. Len(name)
    BY <1>0
  <2> QED
    BY <2>1, WriteRoundsDef
<1>4. v = writeLabel(u, s)
  <2>1. k + 1 - 1 = k
    OBVIOUS
  <2>2. after[k + 1] = writeLabel(after[k + 1 - 1], Suffix(name, k + 1))
    BY <1>0, WriteRoundsDef
  <2> QED
    BY <1>1, <1>2, <1>3, <2>1, <2>2
<1>5. PICK octets \in Seq(Octet) :
         /\ v.buf = u.buf \o octets /\ v.ok = u.ok
         /\ v.comp = IF Len(u.buf) > MaxPointer THEN u.comp
                     ELSE Recorded(u.comp, s, Len(u.buf))
  <2>1. Head(s) \in Label
    BY <1>2, WriteLabelIs
  <2>2. <<Len(Head(s))>> \o Head(s) \in Seq(Octet)
    BY <2>1, LabelOctets
  <2> QED
    BY <1>2, <1>4, <2>2, WriteLabelIs
<1>6. /\ u.ok = w.ok
      /\ \E more \in Seq(Octet) : u.buf = w.buf \o more
      /\ \A t \in DOMAIN u.comp :
          \/ t \in DOMAIN w.comp /\ u.comp[t] = w.comp[t]
          \/ \E i \in 1 .. k : /\ t = Suffix(name, i)
                               /\ u.comp[t] = Len(after[i - 1].buf)
                               /\ Len(after[i - 1].buf) <= MaxPointer
  BY <1>1 DEF Written
<1>7. \E more \in Seq(Octet) : v.buf = w.buf \o more
  <2>1. PICK m \in Seq(Octet) : u.buf = w.buf \o m
    BY <1>6
  <2>2. w.buf \in Seq(Octet)
    BY PackerType
  <2>3. (w.buf \o m) \o octets = w.buf \o (m \o octets)
    BY <2>2, ConcatAgain
  <2>4. m \o octets \in Seq(Octet)
    BY ConcatIs
  <2> QED
    BY <1>5, <2>1, <2>3, <2>4
<1>8. ASSUME NEW t \in DOMAIN v.comp
      PROVE  \/ t \in DOMAIN w.comp /\ v.comp[t] = w.comp[t]
             \/ \E i \in 1 .. k + 1 : /\ t = Suffix(name, i)
                                      /\ v.comp[t] = Len(after[i - 1].buf)
                                      /\ Len(after[i - 1].buf) <= MaxPointer
  <2>0. u.comp \in Table /\ Len(u.buf) \in Nat
    BY PackerType
  <2>1. CASE t \in DOMAIN u.comp /\ v.comp[t] = u.comp[t]
    <3>1. \A i \in 1 .. k : i \in 1 .. k + 1
      OBVIOUS
    <3> QED
      BY <1>6, <2>1, <3>1
  <2>2. CASE t = s /\ v.comp[t] = Len(u.buf) /\ ~(Len(u.buf) > MaxPointer)
    <3>1. k + 1 \in 1 .. k + 1 /\ k + 1 - 1 = k
      OBVIOUS
    <3>2. Len(u.buf) <= MaxPointer
      BY <2>0, <2>2, Limits
    <3>3. /\ t = Suffix(name, k + 1) /\ v.comp[t] = Len(after[k + 1 - 1].buf)
          /\ Len(after[k + 1 - 1].buf) <= MaxPointer
      BY <1>1, <1>2, <2>2, <3>1, <3>2
    <3> QED
      BY <3>1, <3>3
  <2>3. CASE Len(u.buf) > MaxPointer
    BY <1>5, <2>1, <2>3
  <2>4. CASE ~(Len(u.buf) > MaxPointer)
    <3>1. /\ v.comp = Recorded(u.comp, s, Len(u.buf))
      BY <1>5, <2>4
    <3>2. /\ DOMAIN v.comp = DOMAIN u.comp \cup {s} /\ v.comp[s] = Len(u.buf)
          /\ \A x \in DOMAIN u.comp \ {s} : v.comp[x] = u.comp[x]
      <4>1. PICK f \in Table : f = u.comp
        BY <2>0
      <4>2. PICK p \in Nat : p = Len(u.buf)
        BY <2>0
      <4>3. PICK g : g = v.comp
        OBVIOUS
      <4>4. g = Recorded(f, s, p)
        BY <3>1, <4>1, <4>2, <4>3
      <4>5. DOMAIN g = DOMAIN f \cup {s} /\ g[s] = p /\ \A x \in DOMAIN f \ {s} : g[x] = f[x]
        <5>1. /\ DOMAIN Recorded(f, s, p) = DOMAIN f \cup {s} /\ Recorded(f, s, p)[s] = p
              /\ \A x \in DOMAIN f \ {s} : Recorded(f, s, p)[x] = f[x]
          BY TableAdd, ZenonT(90)
        <5> QED
          BY <4>4, <5>1, Zenon
      <4> QED
        BY <4>1, <4>2, <4>3, <4>5
    <3>3. CASE t = s
      BY <2>2, <2>4, <3>2, <3>3
    <3>4. CASE t # s
      <4>1. t \in DOMAIN u.comp /\ v.comp[t] = u.comp[t]
        BY <3>2, <3>4
      <4> QED
        BY <2>1, <4>1
    <3> QED
      BY <3>3, <3>4
  <2> QED
    BY <2>3, <2>4
<1> QED
  BY <1>3, <1>5, <1>6, <1>7, <1>8 DEF Written

LEMMA LabelsWritten ==
    ASSUME NEW w \in Packer, NEW name \in Name, NEW k \in 0 .. Len(name)
    PROVE  Written(w, name, k)
<1>0. Len(name) \in Nat
  BY DEF Name
<1> DEFINE T == {i \in Nat : i <= Len(name) => Written(w, name, i)}
<1>1. 0 \in T
  <2>1. writeRounds(w, name)[0] = w
    BY WriteRoundsDef
  <2>2. w.buf = w.buf \o <<>> /\ <<>> \in Seq(Octet)
    BY PackerType
  <2>3. Written(w, name, 0)
    BY <2>1, <2>2 DEF Written
  <2> QED
    BY <2>3
<1>2. \A i \in Nat : i \in T => i + 1 \in T
  <2> SUFFICES ASSUME NEW i \in Nat, i <= Len(name) => Written(w, name, i),
                      i + 1 <= Len(name)
               PROVE  Written(w, name, i + 1)
    OBVIOUS
  <2>1. i <= Len(name)
    BY <1>0
  <2> QED
    BY <2>1, OneLabelWritten
<1>3. \A i \in Nat : i \in T
  <2> HIDE DEF T
  <2> QED
    BY <1>1, <1>2, Induct
<1>4. k \in Nat /\ k <= Len(name)
  BY <1>0
<1> QED
  BY <1>3, <1>4

\* The gaps are before the name.
Before(gaps, buf) == \A i \in gaps : i \in Nat /\ i <= Len(buf)

LEMMA WriteNameIs ==
    ASSUME NEW w \in Packer, NEW name \in Name, NEW gaps, Findable(w, gaps)
    PROVE  LET u == writeRounds(w, name)[Unknown(w, name)]
               v == writeName(w, name)
           IN /\ NameEnd(w, name) \in Seq(Octet) /\ Len(NameEnd(w, name)) \in Nat \ {0}
              /\ u \in Packer /\ v \in Packer
              /\ v.buf = u.buf \o NameEnd(w, name) /\ v.comp = u.comp /\ v.ok = u.ok
<1>1. PICK n \in 0 .. Len(name) :
         /\ n = Unknown(w, name)
         /\ n < Len(name) => Suffix(name, n + 1) \in DOMAIN w.comp
  BY UnknownIs
<1>2. PICK u \in Packer : u = writeRounds(w, name)[n]
  BY WriteRoundsDef
<1>3. NameEnd(w, name) \in Seq(Octet) /\ Len(NameEnd(w, name)) \in Nat \ {0}
  <2>1. CASE n = Len(name)
    <3>1. NameEnd(w, name) = <<0>>
      BY <1>1, <2>1 DEF NameEnd
    <3>2. 0 \in Octet
      BY IsOctet
    <3> QED
      BY <3>1, <3>2
  <2>2. CASE n # Len(name)
    <3>1. PICK s \in DOMAIN w.comp : s = Suffix(name, n + 1)
      BY <1>1, <2>2 DEF Name
    <3>2. PICK o \in Nat : o = w.comp[s] /\ o <= 16383
      <4>1. w.comp \in [DOMAIN w.comp -> Nat]
        BY PackerType, TableIs
      <4>2. w.comp[s] \in Nat
        BY <4>1
      <4>3. w.comp[s] <= MaxPointer
        BY DEF Findable
      <4> QED
        BY <4>2, <4>3, Limits
    <3>3. PICK x \in Octet : x = pointerMask + o \div 256
      BY <3>2, PointerOctets
    <3>4. PICK y \in Octet : y = o % 256
      BY <3>2, PointerOctets
    <3>5. NameEnd(w, name) = <<x, y>>
      BY <1>1, <2>2, <3>1, <3>2, <3>3, <3>4 DEF NameEnd
    <3> QED
      BY <3>5
  <2> QED
    BY <2>1, <2>2
<1>4. writeName(w, name) = Put(u, NameEnd(w, name))
  BY <1>1, <1>2 DEF writeName, NameEnd
<1>5. PICK b \in Seq(Octet) : b = NameEnd(w, name)
  BY <1>3
<1>6. /\ Put(u, b) \in Packer /\ Put(u, b).buf = u.buf \o b
      /\ Put(u, b).comp = u.comp /\ Put(u, b).ok = u.ok
  BY PutIs
<1> QED
  BY <1>1, <1>2, <1>3, <1>4, <1>5, <1>6

\* Where the labels end the rest of the name can be read.
LEMMA EndReads ==
    ASSUME NEW w \in Packer, NEW name \in Name, NEW gaps, Findable(w, gaps),
           Before(gaps, w.buf), NEW msg \in Seq(Octet),
           Agree(msg, writeName(w, name).buf, gaps)
    PROVE  LET n == Unknown(w, name)
               u == writeRounds(w, name)[n]
           IN /\ Agree(msg, u.buf, gaps)
              /\ ReadsAt(msg, Len(u.buf), Suffix(name, n + 1), Len(name) - n,
                         Len(writeName(w, name).buf))
<1>1. PICK n \in 0 .. Len(name) :
         /\ n = Unknown(w, name)
         /\ n < Len(name) => Suffix(name, n + 1) \in DOMAIN w.comp
  BY UnknownIs
<1>2. PICK u \in Packer : u = writeRounds(w, name)[n]
  BY WriteRoundsDef
<1>3. PICK v \in Packer : v = writeName(w, name)
  BY WriteNameIs
<1>4. PICK b \in Seq(Octet) : b = NameEnd(w, name) /\ v.buf = u.buf \o b
  BY <1>1, <1>2, <1>3, WriteNameIs, ZenonT(90)
<1>5. u.buf \in Seq(Octet) /\ w.buf \in Seq(Octet) /\ Len(u.buf) \in Nat /\ Len(w.buf) \in Nat
  BY PackerType
<1>6. Agree(msg, u.buf \o b, gaps)
  BY <1>3, <1>4
<1>7. Agree(msg, u.buf, gaps)
  BY <1>5, <1>6, AgreePrefix
<1>8. PICK more \in Seq(Octet) : u.buf = w.buf \o more
  BY <1>2, LabelsWritten DEF Written
<1>9. Agree(msg, w.buf, gaps)
  BY <1>5, <1>7, <1>8, AgreePrefix
<1>10. Len(w.buf) <= Len(u.buf)
  <2>1. Len(w.buf \o more) = Len(w.buf) + Len(more) /\ Len(more) \in Nat
    BY <1>5, ConcatIs
  <2> QED
    BY <1>5, <1>8, <2>1
<1>11. \A i \in gaps : i \in Nat /\ i <= Len(u.buf)
  BY <1>5, <1>10 DEF Before
<1>12. /\ Len(u.buf) + Len(b) <= Len(msg)
       /\ \A i \in 1 .. Len(b) : msg[Len(u.buf) + i] = b[i]
  BY <1>5, <1>6, <1>11, AgreeTail, ZenonT(90)
<1>13. PICK p \in Nat : p = Len(u.buf)
  BY <1>5
<1>14. Len(v.buf) = p + Len(b)
  BY <1>4, <1>5, <1>13, ConcatIs
<1>15. CASE n = Len(name)
  <2>1. b = <<0>>
    BY <1>1, <1>4, <1>15 DEF NameEnd
  <2>2. Len(b) = 1 /\ b[1] = 0
    BY <2>1
  <2>3. p < Len(msg) /\ msg[p + 1] = 0
    BY <1>12, <1>13, <2>2
  <2>4. ReadsAt(msg, p, <<>>, 0, p + 1)
    BY <2>3, RootReads
  <2>5. Suffix(name, n + 1) = <<>> /\ Len(name) - n = 0
    BY <1>15, SuffixEnds
  <2>6. ReadsAt(msg, p, Suffix(name, n + 1), Len(name) - n, Len(v.buf))
    BY <1>14, <2>2, <2>4, <2>5
  <2> QED
    BY <1>1, <1>2, <1>3, <1>7, <1>13, <2>6
<1>16. CASE n # Len(name)
  <2>0. Len(name) \in Nat /\ n + 1 \in 1 .. Len(name)
    BY <1>16 DEF Name
  <2>1. PICK s \in Name : s = Suffix(name, n + 1) /\ s \in DOMAIN w.comp
                          /\ s # <<>> /\ Len(s) = Len(name) - n
    <3>1. Suffix(name, n + 1) \in Name /\ Suffix(name, n + 1) # <<>>
          /\ Len(Suffix(name, n + 1)) = Len(name) - (n + 1) + 1
      BY <2>0, SuffixIs
    <3>2. Len(name) - (n + 1) + 1 = Len(name) - n
      BY <2>0
    <3> QED
      BY <1>1, <2>0, <3>1, <3>2
  <2>2. PICK o \in Nat : o = w.comp[s] /\ o <= 16383 /\ o < Len(w.buf)
    <3>1. w.comp \in [DOMAIN w.comp -> Nat]
      BY PackerType, TableIs
    <3>2. w.comp[s] \in Nat
      BY <2>1, <3>1
    <3>3. w.comp[s] <= MaxPointer /\ w.comp[s] < Len(w.buf)
      BY <2>1 DEF Findable
    <3> QED
      BY <3>2, <3>3, Limits
  <2>3. PICK e : ReadsAt(msg, o, s, Len(s) - 1, e)
    BY <1>9, <2>1, <2>2 DEF Findable
  <2>4. PICK x \in Octet : x = pointerMask + o \div 256
    BY <2>2, PointerOctets
  <2>5. PICK y \in Octet : y = o % 256
    BY <2>2, PointerOctets
  <2>6. x >= pointerMask /\ o = 256 * (x - pointerMask) + y
    <3>1. pointerMask + o \div 256 >= pointerMask
      BY <2>2, PointerOctets
    <3>2. o = 256 * ((pointerMask + o \div 256) - pointerMask) + (o % 256)
      BY <2>2, PointerOctets
    <3> QED
      BY <2>4, <2>5, <3>1, <3>2, Zenon
  <2>7. b = <<x, y>>
    BY <1>1, <1>4, <1>16, <2>1, <2>2, <2>4, <2>5 DEF NameEnd
  <2>8. Len(b) = 2 /\ b[1] = x /\ b[2] = y
    BY <2>7
  <2>9. p + 1 < Len(msg) /\ msg[p + 1] = x /\ msg[p + 2] = y
    BY <1>12, <1>13, <2>8
  <2>10. o < Len(msg)
    BY <1>5, <1>10, <1>13, <2>2, <2>9, SMTT(60)
  <2>11. PICK J \in Nat : J = Len(s) - 1 /\ J + 1 = Len(name) - n
    <3>1. Len(name) - n \in Nat \ {0}
      BY <2>0, Below
    <3>2. PICK L \in Nat \ {0} : L = Len(name) - n
      BY <3>1
    <3>3. L - 1 \in Nat /\ L - 1 + 1 = L
      OBVIOUS
    <3> QED
      BY <2>1, <3>2, <3>3
  <2>12. ReadsAt(msg, p, s, J + 1, p + 2)
    BY <2>3, <2>6, <2>9, <2>10, <2>11, PointerReads, SMTT(60)
  <2>13. ReadsAt(msg, p, Suffix(name, n + 1), Len(name) - n, Len(v.buf))
    BY <1>14, <2>1, <2>8, <2>11, <2>12
  <2> QED
    BY <1>1, <1>2, <1>3, <1>7, <1>13, <2>13
<1> QED
  BY <1>15, <1>16

\* And so, label by label backwards, can each suffix that was written.
LEMMA SuffixesRead ==
    ASSUME NEW w \in Packer, NEW name \in Name, NEW gaps, Findable(w, gaps),
           Before(gaps, w.buf), NEW msg \in Seq(Octet),
           Agree(msg, writeName(w, name).buf, gaps)
    PROVE  \A i \in 0 .. Unknown(w, name) :
              /\ Agree(msg, writeRounds(w, name)[i].buf, gaps)
              /\ ReadsAt(msg, Len(writeRounds(w, name)[i].buf), Suffix(name, i + 1),
                         Len(name) - Unknown(w, name), Len(writeName(w, name).buf))
<1>1. PICK n \in 0 .. Len(name) : n = Unknown(w, name)
  BY UnknownIs
<1>2. PICK after : after = writeRounds(w, name)
  OBVIOUS
<1>3. PICK e : e = Len(writeName(w, name).buf)
  OBVIOUS
<1>4. Len(name) \in Nat /\ n \in Nat /\ n <= Len(name)
  BY DEF Name
<1>5. PICK J \in Nat : J = Len(name) - n
  BY <1>4
<1> DEFINE Good(i) == /\ Agree(msg, after[i].buf, gaps)
                      /\ ReadsAt(msg, Len(after[i].buf), Suffix(name, i + 1), J, e)
           T == {d \in Nat : d <= n => Good(n - d)}
<1>6. 0 \in T
  <2>1. Good(n)
    BY <1>1, <1>2, <1>3, <1>5, EndReads
  <2>2. n - 0 = n
    BY <1>4
  <2> HIDE DEF Good
  <2> QED
    BY <2>1, <2>2
<1>7. \A d \in Nat : d \in T => d + 1 \in T
  <2> SUFFICES ASSUME NEW d \in Nat, d <= n => Good(n - d), d + 1 <= n
               PROVE  Good(n - (d + 1))
    <3> HIDE DEF Good
    <3> QED
      OBVIOUS
  <2>1. PICK i \in Nat : /\ i = n - (d + 1) /\ n - d = i + 1 /\ i + 1 \in 1 .. Len(name)
                         /\ i \in 0 .. Len(name) /\ i + 1 \in 0 .. Len(name) /\ d <= n
    BY <1>4
  <2>2. Good(i + 1)
    <3> HIDE DEF Good
    <3> QED
      BY <2>1
  <2>3. PICK u \in Packer : u = after[i]
    BY <1>2, <2>1, WriteRoundsDef
  <2>4. PICK v \in Packer : v = after[i + 1]
    BY <1>2, <2>1, WriteRoundsDef
  <2>5. PICK s \in Name : s = Suffix(name, i + 1) /\ s # <<>>
    BY <2>1, SuffixIs
  <2>6. v = writeLabel(u, s)
    <3>1. i + 1 - 1 = i
      OBVIOUS
    <3>2. after[i + 1] = writeLabel(after[i + 1 - 1], Suffix(name, i + 1))
      BY <1>2, <2>1, WriteRoundsDef, SMTT(60)
    <3> QED
      BY <2>3, <2>4, <2>5, <3>1, <3>2
  <2>7. PICK l \in Label : l = Head(s) /\ v.buf = u.buf \o (<<Len(l)>> \o l)
    BY <2>5, <2>6, WriteLabelIs, ZenonT(90)
  <2>8. PICK t \in Name : t = Suffix(name, i + 1 + 1) /\ s = <<l>> \o t
    BY <2>1, <2>5, <2>7, SuffixIs
  <2>9. u.buf \in Seq(Octet) /\ w.buf \in Seq(Octet) /\ Len(u.buf) \in Nat /\ Len(w.buf) \in Nat
    BY PackerType
  <2>10. Agree(msg, u.buf \o (<<Len(l)>> \o l), gaps)
         /\ ReadsAt(msg, Len(u.buf \o (<<Len(l)>> \o l)), t, J, e)
    BY <2>2, <2>4, <2>7, <2>8
  <2>11. Agree(msg, u.buf, gaps)
    <3>1. <<Len(l)>> \o l \in Seq(Octet)
      BY LabelOctets
    <3> QED
      BY <2>9, <2>10, <3>1, AgreePrefix
  <2>12. \A j \in gaps : j \in Nat /\ j <= Len(u.buf)
    <3>1. PICK more \in Seq(Octet) : u.buf = w.buf \o more
      <4>1. Written(w, name, i)
        BY <2>1, LabelsWritten
      <4> QED
        BY <1>2, <2>3, <4>1 DEF Written
    <3>2. Len(w.buf \o more) = Len(w.buf) + Len(more) /\ Len(more) \in Nat
      BY <2>9, ConcatIs
    <3>3. Len(w.buf) <= Len(u.buf)
      BY <2>9, <3>1, <3>2
    <3> QED
      BY <2>9, <3>3 DEF Before
  <2>13. ReadsAt(msg, Len(u.buf), <<l>> \o t, J, e)
    BY <2>9, <2>10, <2>12, LabelInPlace
  <2>14. Good(i)
    BY <2>3, <2>5, <2>8, <2>11, <2>13
  <2> HIDE DEF Good
  <2> QED
    BY <2>1, <2>14
<1>8. \A d \in Nat : d \in T
  <2> HIDE DEF T
  <2> QED
    BY <1>6, <1>7, Induct
<1>9. ASSUME NEW i \in 0 .. n PROVE Good(i)
  <2>1. PICK d \in Nat : d = n - i /\ d <= n /\ i = n - d
    BY <1>4
  <2> HIDE DEF Good
  <2> QED
    BY <1>8, <2>1
<1> QED
  BY <1>1, <1>2, <1>3, <1>5, <1>9

\* Writing a name keeps every suffix of the table, old and new, where it can be read,
\* and the name itself is read back: from where it was written, whatever suffix
\* of it was replaced by a pointer, in each packet that begins with the buffer, and
\* with the offset after it.  A name has at most as many labels as readName follows
\* pointers; the gaps are RDLENGTH fields.
THEOREM NameRoundTrip ==
    ASSUME NEW w \in Packer, NEW name \in Name, Len(name) <= MaxJumps, NEW gaps,
           Before(gaps, w.buf), Findable(w, gaps)
    PROVE  LET v == writeName(w, name) IN
           /\ v \in Packer /\ v.ok = w.ok /\ Findable(v, gaps)
           /\ \E more \in Seq(Octet) : v.buf = w.buf \o more
           /\ \A msg \in Seq(Octet) :
                 Agree(msg, v.buf, gaps) =>
                    readName(msg, Len(w.buf)) =
                       [ok |-> TRUE, name |-> name, next |-> Len(v.buf)]
<1>1. PICK n \in 0 .. Len(name) : n = Unknown(w, name)
  BY UnknownIs
<1>2. PICK after : after = writeRounds(w, name)
  OBVIOUS
<1>3. PICK u \in Packer : u = after[n]
  BY <1>2, WriteRoundsDef
<1>4. PICK v \in Packer : v = writeName(w, name)
  BY WriteNameIs
<1>5. PICK b \in Seq(Octet) : /\ v.buf = u.buf \o b /\ v.comp = u.comp /\ v.ok = u.ok
                              /\ Len(b) \in Nat \ {0}
  BY <1>1, <1>2, <1>3, <1>4, WriteNameIs, ZenonT(90)
<1>6. /\ u.ok = w.ok
      /\ \E more \in Seq(Octet) : u.buf = w.buf \o more
      /\ \A t \in DOMAIN u.comp :
          \/ t \in DOMAIN w.comp /\ u.comp[t] = w.comp[t]
          \/ \E i \in 1 .. n : /\ t = Suffix(name, i)
                               /\ u.comp[t] = Len(after[i - 1].buf)
                               /\ Len(after[i - 1].buf) <= MaxPointer
  <2>1. Written(w, name, n)
    BY LabelsWritten
  <2> QED
    BY <1>2, <1>3, <2>1 DEF Written
<1>7. /\ w.buf \in Seq(Octet) /\ u.buf \in Seq(Octet) /\ v.buf \in Seq(Octet)
      /\ Len(w.buf) \in Nat /\ Len(u.buf) \in Nat /\ Len(v.buf) \in Nat
  BY PackerType
<1>8. PICK more \in Seq(Octet) : v.buf = w.buf \o more /\ Len(more) \in Nat \ {0}
  <2>1. PICK m \in Seq(Octet) : u.buf = w.buf \o m
    BY <1>6
  <2>2. (w.buf \o m) \o b = w.buf \o (m \o b)
    BY <1>7, ConcatAgain, ZenonT(90)
  <2>3. m \o b \in Seq(Octet) /\ Len(m \o b) = Len(m) + Len(b) /\ Len(m) \in Nat
    BY ConcatIs
  <2>4. Len(m \o b) \in Nat \ {0}
    BY <1>5, <2>3
  <2> QED
    BY <1>5, <2>1, <2>2, <2>3, <2>4
<1>9. Len(name) \in Nat /\ n \in Nat /\ n <= Len(name)
  BY DEF Name
<1>10. PICK J \in Nat : J = Len(name) - n /\ J <= MaxJumps
  <2>1. Len(name) - n \in Nat /\ Len(name) - n <= MaxJumps
    BY <1>9, Limits
  <2> QED
    BY <2>1
<1>11. ASSUME NEW msg \in Seq(Octet), Agree(msg, v.buf, gaps), NEW i \in 0 .. n
       PROVE  ReadsAt(msg, Len(after[i].buf), Suffix(name, i + 1), J, Len(v.buf))
  BY <1>1, <1>2, <1>4, <1>10, <1>11, SuffixesRead
<1>12. ASSUME NEW msg \in Seq(Octet), Agree(msg, v.buf, gaps)
       PROVE  readName(msg, Len(w.buf)) = [ok |-> TRUE, name |-> name, next |-> Len(v.buf)]
  <2>1. 0 \in 0 .. n
    BY <1>9
  <2>2. ReadsAt(msg, Len(after[0].buf), Suffix(name, 0 + 1), J, Len(v.buf))
    BY <1>11, <1>12, <2>1
  <2>3. after[0] = w
    BY <1>2, WriteRoundsDef
  <2>4. Suffix(name, 0 + 1) = name
    <3>1. 0 + 1 = 1
      OBVIOUS
    <3> QED
      BY <3>1, SuffixEnds
  <2>5. ReadsAt(msg, Len(w.buf), name, J, Len(v.buf))
    BY <2>2, <2>3, <2>4
  <2> QED
    <3>1. PICK p \in Nat : p = Len(w.buf)
      BY <1>7
    <3>2. PICK e : e = Len(v.buf)
      OBVIOUS
    <3>3. J <= MaxJumps /\ ReadsAt(msg, p, name, J, e)
      BY <1>10, <2>5, <3>1, <3>2
    <3>4. readName(msg, p) = [ok |-> TRUE, name |-> name, next |-> e]
      BY <3>3, ReadsAtReads
    <3> QED
      BY <3>1, <3>2, <3>4
<1>13. ASSUME NEW t \in DOMAIN v.comp
       PROVE  /\ t # <<>> /\ v.comp[t] <= MaxPointer /\ v.comp[t] < Len(v.buf)
              /\ \A msg \in Seq(Octet) :
                    Agree(msg, v.buf, gaps) =>
                       \E e : ReadsAt(msg, v.comp[t], t, Len(t) - 1, e)
  <2>1. CASE t \in DOMAIN w.comp /\ v.comp[t] = w.comp[t]
    <3>1. /\ t # <<>> /\ w.comp[t] <= MaxPointer /\ w.comp[t] < Len(w.buf)
          /\ \A msg \in Seq(Octet) :
                Agree(msg, w.buf, gaps) =>
                   \E e : ReadsAt(msg, w.comp[t], t, Len(t) - 1, e)
      BY <2>1 DEF Findable
    <3>2. w.comp[t] \in Nat
      <4>1. w.comp \in [DOMAIN w.comp -> Nat]
        BY PackerType, TableIs
      <4> QED
        BY <2>1, <4>1
    <3>3. Len(v.buf) = Len(w.buf) + Len(more)
      BY <1>7, <1>8, ConcatIs
    <3>4. w.comp[t] < Len(v.buf)
      BY <1>7, <1>8, <3>1, <3>2, <3>3
    <3>5. ASSUME NEW msg \in Seq(Octet), Agree(msg, v.buf, gaps)
          PROVE  Agree(msg, w.buf, gaps)
      BY <1>7, <1>8, <3>5, AgreePrefix
    <3> QED
      BY <2>1, <3>1, <3>4, <3>5
  <2>2. CASE \E i \in 1 .. n : /\ t = Suffix(name, i)
                               /\ v.comp[t] = Len(after[i - 1].buf)
                               /\ Len(after[i - 1].buf) <= MaxPointer
    <3>1. PICK i \in 1 .. n : /\ t = Suffix(name, i)
                              /\ v.comp[t] = Len(after[i - 1].buf)
                              /\ Len(after[i - 1].buf) <= MaxPointer
      BY <2>2
    <3>2. PICK j \in Nat : j = i - 1 /\ i = j + 1 /\ j \in 0 .. n /\ j \in 0 .. Len(name)
                           /\ i \in 1 .. Len(name)
      BY <1>9
    <3>3. t # <<>> /\ Len(t) = Len(name) - i + 1
      BY <3>1, <3>2, SuffixIs
    <3>4. PICK p \in Nat : p = Len(after[j].buf)
      <4>1. after[j] \in Packer
        BY <1>2, <3>2, WriteRoundsDef
      <4> QED
        BY <4>1, PackerType
    <3>5. PICK K \in Nat : K = Len(t) - 1 /\ J <= K
      <4>0. PICK L \in Nat : L = Len(name) /\ n <= L
        BY <1>9
      <4>1. PICK K \in Nat : K = Len(name) - i /\ J <= K
        <5>1. L - i \in Nat /\ L - n <= L - i
          BY <1>9, <4>0
        <5> QED
          BY <1>10, <4>0, <5>1
      <4>2. Len(t) - 1 = K
        BY <1>9, <3>3, <4>1
      <4> QED
        BY <4>1, <4>2
    <3>6. ASSUME NEW msg \in Seq(Octet), Agree(msg, v.buf, gaps)
          PROVE  ReadsAt(msg, p, t, Len(t) - 1, Len(v.buf))
      <4>1. ReadsAt(msg, p, Suffix(name, j + 1), J, Len(v.buf))
        BY <1>11, <3>2, <3>4, <3>6
      <4>2. ReadsAt(msg, p, t, J, Len(v.buf))
        BY <3>1, <3>2, <4>1
      <4>3. ReadsAt(msg, p, t, K, Len(v.buf))
        BY <3>5, <4>2, ReadsAtMore
      <4> QED
        BY <3>5, <4>3
    <3>7. p < Len(v.buf)
      <4>1. Agree(v.buf, v.buf, gaps)
        BY <1>7 DEF Agree
      <4>2. i \in 0 .. n /\ i \in 0 .. Len(name)
        BY <1>9, <3>2
      <4>3. Agree(v.buf, after[i].buf, gaps)
        BY <1>1, <1>2, <1>4, <1>7, <4>1, <4>2, SuffixesRead
      <4>4. PICK x \in Packer : x = after[j]
        BY <1>2, <3>2, WriteRoundsDef
      <4>5. after[i] = writeLabel(x, Suffix(name, i))
        BY <1>2, <3>2, <4>4, WriteRoundsDef
      <4>6. PICK s \in Name : s = Suffix(name, i) /\ s # <<>>
        BY <3>2, SuffixIs
      <4>7. PICK l \in Label : after[i].buf = x.buf \o (<<Len(l)>> \o l)
        <5>1. Head(s) \in Label /\ writeLabel(x, s).buf = x.buf \o (<<Len(Head(s))>> \o Head(s))
          BY <4>6, WriteLabelIs
        <5> QED
          BY <4>5, <4>6, <5>1
      <4>8. PICK c \in Seq(Octet) : c = <<Len(l)>> \o l /\ Len(c) >= 1
        <5>1. PICK n0 \in Nat : n0 = Len(l)
          BY LabelType
        <5>2. PICK c \in Seq(Octet) : c = <<Len(l)>> \o l /\ Len(c) = 1 + Len(l)
          BY LabelOctets
        <5>3. Len(c) >= 1
          BY <5>1, <5>2
        <5> QED
          BY <5>2, <5>3
      <4>9. x.buf \in Seq(Octet) /\ Len(x.buf) \in Nat
        BY PackerType
      <4>10. Len(after[i].buf) = Len(x.buf) + Len(c)
        BY <4>7, <4>8, <4>9, ConcatIs
      <4>11. Len(after[i].buf) <= Len(v.buf)
        BY <4>3 DEF Agree
      <4> QED
        <5>1. PICK y \in Nat : y = Len(v.buf)
          BY <1>7
        <5>2. PICK z \in Nat : z = Len(c) /\ z >= 1
          BY <4>8
        <5>3. p + z <= y
          BY <3>4, <4>4, <4>10, <4>11, <5>1, <5>2
        <5>4. p < y
          BY <5>2, <5>3
        <5> QED
          BY <5>1, <5>4
    <3> QED
      BY <3>1, <3>2, <3>3, <3>4, <3>6, <3>7
  <2> QED
    BY <1>5, <1>6, <2>1, <2>2
<1>14. Findable(v, gaps)
  BY <1>13 DEF Findable
<1> QED
  BY <1>4, <1>5, <1>6, <1>8, <1>12, <1>14

-----------------------------------------------------------------------------
(* Octets in place, and the integers in them. *)

\* The octets b are in msg, after offset p.
Holds(msg, p, b) ==
    /\ p + Len(b) <= Len(msg)
    /\ \A i \in 1 .. Len(b) : msg[p + i] = b[i]

LEMMA HoldsParts ==
    ASSUME NEW msg \in Seq(Octet), NEW p \in Nat, NEW a \in Seq(Octet), NEW b \in Seq(Octet),
           Holds(msg, p, a \o b)
    PROVE  Holds(msg, p, a) /\ Holds(msg, p + Len(a), b)
<1>1. PICK c \in Seq(Octet) :
         /\ c = a \o b /\ Len(c) = Len(a) + Len(b)
         /\ \A i \in 1 .. Len(a) : c[i] = a[i]
         /\ \A i \in 1 .. Len(b) : c[Len(a) + i] = b[i]
  BY ConcatIs, ZenonT(90)
<1>2. p + Len(c) <= Len(msg) /\ \A i \in 1 .. Len(c) : msg[p + i] = c[i]
  BY <1>1 DEF Holds
<1>3. Len(a) \in Nat /\ Len(b) \in Nat /\ Len(msg) \in Nat
  OBVIOUS
<1>4. Holds(msg, p, a)
  <2>1. p + Len(a) <= Len(msg)
    BY <1>1, <1>2, <1>3
  <2>2. ASSUME NEW i \in 1 .. Len(a) PROVE msg[p + i] = a[i]
    <3>1. i \in 1 .. Len(c)
      BY <1>1, <1>3
    <3> QED
      BY <1>1, <1>2, <3>1
  <2> QED
    BY <2>1, <2>2 DEF Holds
<1>5. Holds(msg, p + Len(a), b)
  <2>1. (p + Len(a)) + Len(b) <= Len(msg)
    BY <1>1, <1>2, <1>3
  <2>2. ASSUME NEW i \in 1 .. Len(b) PROVE msg[(p + Len(a)) + i] = b[i]
    <3>1. Len(a) + i \in 1 .. Len(c) /\ (p + Len(a)) + i = p + (Len(a) + i)
      BY <1>1, <1>3
    <3> QED
      BY <1>1, <1>2, <3>1
  <2> QED
    BY <2>1, <2>2 DEF Holds
<1> QED
  BY <1>4, <1>5

LEMMA SameOctets ==
    ASSUME NEW a \in Seq(Octet), NEW b \in Seq(Octet), Len(a) = Len(b),
           \A i \in 1 .. Len(b) : a[i] = b[i]
    PROVE  a = b
  OBVIOUS

LEMMA HoldsSubSeq ==
    ASSUME NEW msg \in Seq(Octet), NEW p \in Nat, NEW b \in Seq(Octet), Holds(msg, p, b)
    PROVE  SubSeq(msg, p + 1, p + Len(b)) = b
<1>1. PICK n \in Nat : n = Len(b) /\ p + n <= Len(msg)
  BY DEF Holds
<1>2. \A i \in 1 .. n : msg[p + i] = b[i]
  BY <1>1 DEF Holds
<1>3. PICK c \in Seq(Octet) : /\ c = SubSeq(msg, p + 1, p + n) /\ Len(c) = n
                              /\ \A i \in 1 .. n : c[i] = msg[p + i]
  <2>1. /\ SubSeq(msg, p + 1, p + n) \in Seq(Octet)
        /\ Len(SubSeq(msg, p + 1, p + n)) = n
        /\ \A i \in 1 .. n : SubSeq(msg, p + 1, p + n)[i] = msg[p + i]
    BY <1>1, SubSeqIs
  <2> QED
    BY <2>1, Zenon
<1>4. Len(c) = Len(b) /\ \A i \in 1 .. Len(b) : c[i] = b[i]
  BY <1>1, <1>2, <1>3
<1>5. c = b
  BY <1>4, SameOctets
<1> QED
  BY <1>1, <1>3, <1>5

\* What was appended to the buffer is held by the packet.
LEMMA HoldsTail ==
    ASSUME NEW msg \in Seq(Octet), NEW a \in Seq(Octet), NEW b \in Seq(Octet), NEW gaps,
           Before(gaps, a), Agree(msg, a \o b, gaps)
    PROVE  Holds(msg, Len(a), b)
<1>1. /\ Len(a) + Len(b) <= Len(msg)
      /\ \A i \in 1 .. Len(b) : msg[Len(a) + i] = b[i]
  BY AgreeTail DEF Before
<1> QED
  BY <1>1 DEF Holds

LEMMA SplitNumber ==
    ASSUME NEW n \in Nat
    PROVE  /\ n \div 256 \in Nat /\ n % 256 \in Nat /\ n % 256 <= 255
           /\ n = 256 * (n \div 256) + (n % 256)
           /\ n < 65536 => n \div 256 <= 255
  OBVIOUS

LEMMA SmallRest ==
    ASSUME NEW n \in Nat, n <= 255
    PROVE  n % 256 = n
  OBVIOUS

LEMMA U16Is ==
    ASSUME NEW n \in Nat
    PROVE  /\ U16(n) \in Seq(Octet) /\ Len(U16(n)) = 2
           /\ n < 65536 => 256 * U16(n)[1] + U16(n)[2] = n
<1>1. PICK h \in Nat : h = n \div 256
  BY SplitNumber
<1>2. PICK l \in Nat : l = n % 256 /\ l <= 255
  BY SplitNumber
<1>3. PICK g \in Nat : g = h % 256 /\ g <= 255
  BY SplitNumber
<1>4. n = 256 * h + l /\ (n < 65536 => h <= 255)
  BY <1>1, <1>2, SplitNumber
<1>5. g \in Octet /\ l \in Octet
  BY <1>2, <1>3, IsOctet
<1>6. U16(n) = <<g, l>>
  BY <1>1, <1>2, <1>3 DEF U16
<1>7. n < 65536 => g = h
  BY <1>3, <1>4, SmallRest
<1>8. U16(n) \in Seq(Octet) /\ Len(U16(n)) = 2 /\ U16(n)[1] = g /\ U16(n)[2] = l
  BY <1>5, <1>6
<1> QED
  BY <1>4, <1>7, <1>8

LEMMA Uint16At ==
    ASSUME NEW msg \in Seq(Octet), NEW p \in Nat, NEW n \in Nat, n < 65536,
           Holds(msg, p, U16(n))
    PROVE  Uint16(msg, p) = n
<1>1. PICK b \in Seq(Octet) : b = U16(n) /\ Len(b) = 2 /\ 256 * b[1] + b[2] = n
  BY U16Is
<1>2. \A i \in 1 .. Len(b) : msg[p + i] = b[i]
  BY <1>1 DEF Holds
<1>3. msg[p + 1] = b[1] /\ msg[p + 2] = b[2]
  BY <1>1, <1>2
<1> QED
  BY <1>1, <1>3 DEF Uint16

LEMMA SplitWide ==
    ASSUME NEW n \in Nat
    PROVE  /\ n \div 65536 \in Nat
           /\ n % 65536 \in Nat /\ n % 65536 < 65536
           /\ n = 65536 * (n \div 65536) + (n % 65536)
  BY SMT

\* The integers of two and of four octets.
Wide16(n) == n \in Nat /\ n < 65536

LEMMA U32Parts ==
    ASSUME NEW n, Wide32(n)
    PROVE  \E h \in Nat, l \in Nat :
              Wide16(h) /\ Wide16(l) /\ U32(n) = U16(h) \o U16(l) /\ n = 65536 * h + l
<1>1. n \in Nat /\ n \div 65536 \in Nat /\ n \div 65536 < 65536
  BY SplitWide, SMT DEF Wide32
<1>2. n % 65536 \in Nat /\ n % 65536 < 65536 /\ n = 65536 * (n \div 65536) + (n % 65536)
  BY <1>1, SplitWide, SMT
<1>3. U32(n) = U16(n \div 65536) \o U16(n % 65536)
  BY DEF U32
<1>4. Wide16(n \div 65536) /\ Wide16(n % 65536)
  BY <1>1, <1>2, SMT DEF Wide16
<1>5. PICK h \in Nat : h = n \div 65536
  BY <1>1, SMT
<1>6. PICK l \in Nat : l = n % 65536
  BY <1>2, SMT
<1>7. Wide16(h) /\ Wide16(l) /\ U32(n) = U16(h) \o U16(l) /\ n = 65536 * h + l
  BY <1>2, <1>3, <1>4, <1>5, <1>6, SMT
<1> WITNESS h \in Nat, l \in Nat
<1> QED
  BY <1>7, SMT

LEMMA U16Parts ==
    ASSUME NEW n, Wide16(n)
    PROVE  /\ n \in Nat /\ U16(n) \in Seq(Octet) /\ Len(U16(n)) = 2
           /\ \A msg \in Seq(Octet), p \in Nat : Holds(msg, p, U16(n)) => Uint16(msg, p) = n
<1>1. n \in Nat /\ n < 65536
  BY SMT DEF Wide16
<1>2. U16(n) \in Seq(Octet) /\ Len(U16(n)) = 2
  BY <1>1, U16Is, SMT
<1>3. \A msg \in Seq(Octet), p \in Nat : Holds(msg, p, U16(n)) => Uint16(msg, p) = n
  BY <1>1, Uint16At, SMT
<1> QED
  BY <1>1, <1>2, <1>3

LEMMA U32Is ==
    ASSUME NEW n, Wide32(n)
    PROVE  /\ U32(n) \in Seq(Octet) /\ Len(U32(n)) = 4
           /\ \A msg \in Seq(Octet), p \in Nat :
                 Holds(msg, p, U32(n)) => 65536 * Uint16(msg, p) + Uint16(msg, p + 2) = n
<1>1. PICK h \in Nat, l \in Nat :
         Wide16(h) /\ Wide16(l) /\ U32(n) = U16(h) \o U16(l) /\ n = 65536 * h + l
  BY U32Parts, SMT
<1>2. PICK a \in Seq(Octet) : a = U16(h) /\ Len(a) = 2
  BY <1>1, U16Parts, SMT
<1>3. PICK b \in Seq(Octet) : b = U16(l) /\ Len(b) = 2
  BY <1>1, U16Parts, SMT
<1>4. U32(n) = a \o b
  BY <1>1, <1>2, <1>3, SMT
<1>5. a \o b \in Seq(Octet) /\ Len(a \o b) = 4
  <2>1. a \o b \in Seq(Octet) /\ Len(a \o b) = Len(a) + Len(b)
    BY ConcatIs, SMT
  <2> QED
    BY <1>2, <1>3, <2>1, SMT
<1>6. ASSUME NEW msg \in Seq(Octet), NEW p \in Nat, Holds(msg, p, a \o b)
      PROVE  65536 * Uint16(msg, p) + Uint16(msg, p + 2) = n
  <2>1. Holds(msg, p, a) /\ Holds(msg, p + Len(a), b)
    BY <1>6, HoldsParts, SMT
  <2>2. Uint16(msg, p) = h
    BY <1>1, <1>2, <2>1, U16Parts, SMT
  <2>3. Holds(msg, p + 2, b) /\ p + 2 \in Nat
    BY <1>2, <2>1, SMT
  <2>4. Uint16(msg, p + 2) = l
    BY <1>1, <1>3, <2>3, U16Parts, SMT
  <2> QED
    BY <1>1, <2>2, <2>4, SMT
<1> QED
  BY <1>4, <1>5, <1>6, SMT

LEMMA WriteStringsIs ==
    ASSUME NEW text \in Seq(Seq(Octet))
    PROVE  \E f : /\ f = [k \in 0 .. Len(text) |-> f[k]]
                  /\ f[0] = <<>>
                  /\ \A k \in 1 .. Len(text) : f[k] = f[k - 1] \o (<<Len(text[k])>> \o text[k])
                  /\ writeStrings(text) = f[Len(text)]
<1> PICK n \in Nat : n = Len(text)
  OBVIOUS
<1> DEFINE Step(k, x) == x \o (<<Len(text[k])>> \o text[k])
           Run(f, m) == f[0] = <<>> /\ \A k \in 1 .. m : f[k] = Step(k, f[k - 1])
           T == {m \in Nat : \E f : Run(f, m)}
<1>1. 0 \in T
  <2>1. Run([i \in {0} |-> <<>>], 0)
    OBVIOUS
  <2> QED
    BY <2>1
<1>2. \A m \in Nat : m \in T => m + 1 \in T
  <2> HIDE DEF Step, Run
  <2> SUFFICES ASSUME NEW m \in Nat, \E f : Run(f, m) PROVE \E g : Run(g, m + 1)
    OBVIOUS
  <2>0. PICK f : Run(f, m)
    OBVIOUS
  <2> USE DEF Run
  <2> DEFINE g == [i \in 0 .. m + 1 |-> IF i = m + 1 THEN Step(m + 1, f[m]) ELSE f[i]]
  <2>1. g[0] = <<>>
    BY <2>0
  <2>2. ASSUME NEW k \in 1 .. m + 1 PROVE g[k] = Step(k, g[k - 1])
    <3>1. g[k - 1] = f[k - 1]
      OBVIOUS
    <3>2. CASE k = m + 1
      BY <2>0, <3>1, <3>2
    <3>3. CASE k # m + 1
      <4>1. k \in 1 .. m /\ g[k] = f[k]
        BY <3>3
      <4> QED
        BY <2>0, <3>1, <4>1
    <3> QED
      BY <3>2, <3>3
  <2>3. Run(g, m + 1)
    BY <2>1, <2>2
  <2> QED
    BY <2>3
<1>3. PICK f : Run(f, n)
  <2>1. \A m \in Nat : m \in T
    <3> HIDE DEF T
    <3> QED
      BY <1>1, <1>2, Induct
  <2> QED
    BY <2>1
<1> HIDE DEF Step
<1>4. PICK g : g = [k \in 0 .. n |-> f[k]]
  OBVIOUS
<1>5. g = [k \in 0 .. n |-> IF k = 0 THEN <<>> ELSE Step(k, g[k - 1])]
  BY <1>3, <1>4
<1>6. PICK h : h = [k \in 0 .. n |-> IF k = 0 THEN <<>> ELSE Step(k, h[k - 1])]
               /\ writeStrings(text) = h[n]
  <2> DEFINE h == CHOOSE e : e = [k \in 0 .. n |-> IF k = 0 THEN <<>> ELSE Step(k, e[k - 1])]
  <2>1. h = [k \in 0 .. n |-> IF k = 0 THEN <<>> ELSE Step(k, h[k - 1])]
    BY <1>5
  <2>2. writeStrings(text) = h[n]
    BY DEF writeStrings, Step
  <2> HIDE DEF h
  <2> QED
    BY <2>1, <2>2
<1>7. h = [k \in 0 .. n |-> h[k]] /\ h[0] = <<>>
  BY <1>6
<1>8. ASSUME NEW k \in 1 .. n PROVE h[k] = h[k - 1] \o (<<Len(text[k])>> \o text[k])
  <2>1. k \in 0 .. n /\ k # 0
    OBVIOUS
  <2>2. h[k] = Step(k, h[k - 1])
    BY <1>6, <2>1
  <2> QED
    BY <2>2 DEF Step
<1> QED
  BY <1>6, <1>7, <1>8

LEMMA ReadStringsIs ==
    ASSUME NEW msg, NEW offset, NEW end \in Nat
    PROVE  \E f : /\ f = [k \in 0 .. end + 1 |-> f[k]]
                  /\ f[0] = Got(offset, <<>>, "reading")
                  /\ \A k \in 1 .. end + 1 : f[k] = readString(msg, end, f[k - 1])
                  /\ readStrings(msg, offset, end) = Ended(f, end + 1)
<1> PICK n \in Nat : n = end + 1
  OBVIOUS
<1> DEFINE Step(k, x) == readString(msg, end, x)
           Run(f, m) == f[0] = Got(offset, <<>>, "reading") /\ \A k \in 1 .. m : f[k] = Step(k, f[k - 1])
           T == {m \in Nat : \E f : Run(f, m)}
<1>1. 0 \in T
  <2>1. Run([i \in {0} |-> Got(offset, <<>>, "reading")], 0)
    OBVIOUS
  <2> QED
    BY <2>1
<1>2. \A m \in Nat : m \in T => m + 1 \in T
  <2> HIDE DEF Step, Run
  <2> SUFFICES ASSUME NEW m \in Nat, \E f : Run(f, m) PROVE \E g : Run(g, m + 1)
    OBVIOUS
  <2>0. PICK f : Run(f, m)
    OBVIOUS
  <2> USE DEF Run
  <2> DEFINE g == [i \in 0 .. m + 1 |-> IF i = m + 1 THEN Step(m + 1, f[m]) ELSE f[i]]
  <2>1. g[0] = Got(offset, <<>>, "reading")
    BY <2>0
  <2>2. ASSUME NEW k \in 1 .. m + 1 PROVE g[k] = Step(k, g[k - 1])
    <3>1. g[k - 1] = f[k - 1]
      OBVIOUS
    <3>2. CASE k = m + 1
      BY <2>0, <3>1, <3>2
    <3>3. CASE k # m + 1
      <4>1. k \in 1 .. m /\ g[k] = f[k]
        BY <3>3
      <4> QED
        BY <2>0, <3>1, <4>1
    <3> QED
      BY <3>2, <3>3
  <2>3. Run(g, m + 1)
    BY <2>1, <2>2
  <2> QED
    BY <2>3
<1>3. PICK f : Run(f, n)
  <2>1. \A m \in Nat : m \in T
    <3> HIDE DEF T
    <3> QED
      BY <1>1, <1>2, Induct
  <2> QED
    BY <2>1
<1> HIDE DEF Step
<1>4. PICK g : g = [k \in 0 .. n |-> f[k]]
  OBVIOUS
<1>5. g = [k \in 0 .. n |-> IF k = 0 THEN Got(offset, <<>>, "reading") ELSE Step(k, g[k - 1])]
  BY <1>3, <1>4
<1>6. PICK h : h = [k \in 0 .. n |-> IF k = 0 THEN Got(offset, <<>>, "reading") ELSE Step(k, h[k - 1])]
               /\ readStrings(msg, offset, end) = Ended(h, n)
  <2> DEFINE h == CHOOSE e : e = [k \in 0 .. n |-> IF k = 0 THEN Got(offset, <<>>, "reading") ELSE Step(k, e[k - 1])]
  <2>1. h = [k \in 0 .. n |-> IF k = 0 THEN Got(offset, <<>>, "reading") ELSE Step(k, h[k - 1])]
    BY <1>5
  <2>2. readStrings(msg, offset, end) = Ended(h, n)
    BY DEF readStrings, Step
  <2> HIDE DEF h
  <2> QED
    BY <2>1, <2>2
<1>7. h = [k \in 0 .. n |-> h[k]] /\ h[0] = Got(offset, <<>>, "reading")
  BY <1>6
<1>8. ASSUME NEW k \in 1 .. n PROVE h[k] = readString(msg, end, h[k - 1])
  <2>1. k \in 0 .. n /\ k # 0
    OBVIOUS
  <2>2. h[k] = Step(k, h[k - 1])
    BY <1>6, <2>1
  <2> QED
    BY <2>2 DEF Step
<1> QED
  BY <1>6, <1>7, <1>8

-----------------------------------------------------------------------------
(* The strings of a TXT record. *)

\* A loop that has ended keeps its result.
LEMMA Settles ==
    ASSUME NEW g, NEW n \in Nat,
           \A k \in 1 .. n : g[k - 1].state # "reading" => g[k] = g[k - 1],
           NEW i \in Nat, NEW j \in Nat, i <= j, j <= n, g[i].state # "reading"
    PROVE  g[j] = g[i]
<1> DEFINE T == {m \in Nat : i + m <= n => g[i + m] = g[i]}
<1>1. 0 \in T
  OBVIOUS
<1>2. \A m \in Nat : m \in T => m + 1 \in T
  <2> SUFFICES ASSUME NEW m \in Nat, i + m <= n => g[i + m] = g[i], i + (m + 1) <= n
               PROVE  g[i + (m + 1)] = g[i]
    OBVIOUS
  <2>1. g[i + m] = g[i]
    OBVIOUS
  <2>2. PICK k \in 1 .. n : k = i + (m + 1) /\ k - 1 = i + m
    OBVIOUS
  <2>3. g[k - 1].state # "reading"
    BY <2>1, <2>2
  <2>4. g[k] = g[k - 1]
    BY <2>3
  <2> QED
    BY <2>1, <2>2, <2>4
<1>3. \A m \in Nat : m \in T
  <2> HIDE DEF T
  <2> QED
    BY <1>1, <1>2, Induct
<1>4. PICK m \in Nat : j = i + m
  BY Difference, Zenon
<1>5. m \in T
  BY <1>3, Zenon
<1> QED
  BY <1>4, <1>5

LEMMA OneEnd ==
    ASSUME NEW g, NEW n \in Nat,
           \A k \in 1 .. n : g[k - 1].state # "reading" => g[k] = g[k - 1],
           NEW i \in 0 .. n, g[i].state # "reading"
    PROVE  Ended(g, n) = g[i]
<1>1. PICK j : j = CHOOSE k \in 0 .. n : g[k].state # "reading"
  OBVIOUS
<1>2. j \in 0 .. n /\ g[j].state # "reading" /\ Ended(g, n) = g[j]
  BY <1>1 DEF Ended
<1>3. CASE i <= j
  <2>1. i \in Nat /\ j \in Nat /\ j <= n
    BY <1>2
  <2>2. g[j] = g[i]
    BY <1>3, <2>1, Settles
  <2> QED
    BY <1>2, <2>2
<1>4. CASE j <= i
  <2>1. i \in Nat /\ j \in Nat /\ i <= n
    BY <1>2
  <2>2. g[i] = g[j]
    BY <1>2, <1>4, <2>1, Settles, SMTT(60)
  <2> QED
    BY <1>2, <2>2
<1> QED
  BY <1>2, <1>3, <1>4

LEMMA GotIs ==
    ASSUME NEW pos, NEW items, NEW state
    PROVE  /\ Got(pos, items, state).pos = pos
           /\ Got(pos, items, state).items = items
           /\ Got(pos, items, state).state = state
  BY DEF Got

LEMMA OneOctet ==
    ASSUME NEW x \in Octet
    PROVE  <<x>> \in Seq(Octet) /\ Len(<<x>>) = 1 /\ <<x>>[1] = x
  OBVIOUS

LEMMA StringOctets ==
    ASSUME NEW s \in Seq(Octet), Len(s) <= MaxString
    PROVE  /\ Len(s) \in Nat /\ <<Len(s)>> \in Seq(Octet) /\ Len(<<Len(s)>>) = 1
           /\ <<Len(s)>> \o s \in Seq(Octet) /\ Len(<<Len(s)>> \o s) = 1 + Len(s)
<1>1. PICK n \in Nat : n = Len(s)
  OBVIOUS
<1>2. n <= 255
  BY <1>1, CodecAssumption, SMTT(60)
<1>3. n \in Octet
  BY <1>2, IsOctet
<1>4. PICK a \in Seq(Octet) : a = <<n>> /\ Len(a) = 1
  BY <1>3, OneOctet
<1>5. a \o s \in Seq(Octet) /\ Len(a \o s) = Len(a) + Len(s)
  BY ConcatIs
<1> QED
  BY <1>1, <1>4, <1>5

\* A round reads the string that is there.
LEMMA StringRound ==
    ASSUME NEW msg \in Seq(Octet), NEW pos \in Nat, NEW end \in Nat, NEW items,
           NEW s \in Seq(Octet), Len(s) <= MaxString,
           Holds(msg, pos, <<Len(s)>> \o s), pos + 1 + Len(s) <= end
    PROVE  readString(msg, end, Got(pos, items, "reading")) =
              Got(pos + 1 + Len(s), Append(items, s), "reading")
<1>1. PICK n \in Nat : n = Len(s)
  OBVIOUS
<1>2. PICK a \in Seq(Octet) : a = <<n>> /\ Len(a) = 1 /\ a[1] = n
  BY <1>1, StringOctets
<1>3. Holds(msg, pos, a) /\ Holds(msg, pos + 1, s)
  BY <1>1, <1>2, HoldsParts
<1>4. msg[pos + 1] = n
  BY <1>2, <1>3 DEF Holds
<1>5. PICK q \in Nat : q = pos + 1
  OBVIOUS
<1>6. SubSeq(msg, q + 1, q + Len(s)) = s
  BY <1>3, <1>5, HoldsSubSeq
<1>7. SubSeq(msg, pos + 2, pos + 1 + n) = s
  <2>1. q + 1 = pos + 2 /\ q + Len(s) = pos + 1 + n
    BY <1>1, <1>5
  <2> QED
    BY <1>6, <2>1
<1>8. ~(pos >= end) /\ ~(pos + 1 + n > end)
  BY <1>1
<1>9. PICK r : /\ r = Got(pos, items, "reading") /\ r.pos = pos /\ r.items = items
               /\ r.state = "reading"
  BY GotIs
<1>10. readString(msg, end, r) = Got(pos + 1 + n, Append(items, s), "reading")
  BY <1>4, <1>7, <1>8, <1>9 DEF readString
<1> QED
  BY <1>1, <1>9, <1>10

LEMMA StringEnd ==
    ASSUME NEW msg, NEW end \in Nat, NEW items
    PROVE  readString(msg, end, Got(end, items, "reading")) = Got(end, items, "read")
<1>1. PICK r : /\ r = Got(end, items, "reading") /\ r.pos = end /\ r.items = items
               /\ r.state = "reading"
  BY GotIs
<1>2. readString(msg, end, r) = Got(end, items, "read")
  BY <1>1 DEF readString
<1> QED
  BY <1>1, <1>2

LEMMA TakeOneMore ==
    ASSUME NEW S, NEW s \in Seq(S), NEW k \in Nat, k + 1 <= Len(s)
    PROVE  Append(SubSeq(s, 1, k), s[k + 1]) = SubSeq(s, 1, k + 1)
  OBVIOUS

LEMMA TakeAll ==
    ASSUME NEW S, NEW s \in Seq(S)
    PROVE  SubSeq(s, 1, Len(s)) = s /\ SubSeq(s, 1, 0) = <<>>
  OBVIOUS

\* The strings that were written are read back, one in a round.
THEOREM TextRoundTrip ==
    ASSUME NEW text \in Seq(Seq(Octet)), \A i \in 1 .. Len(text) : Len(text[i]) <= MaxString
    PROVE  /\ writeStrings(text) \in Seq(Octet)
           /\ \A msg \in Seq(Octet), p \in Nat :
                 Holds(msg, p, writeStrings(text)) =>
                    readStrings(msg, p, p + Len(writeStrings(text))) =
                       Got(p + Len(writeStrings(text)), text, "read")
<1>1. PICK f : /\ f[0] = <<>>
               /\ \A k \in 1 .. Len(text) : f[k] = f[k - 1] \o (<<Len(text[k])>> \o text[k])
               /\ writeStrings(text) = f[Len(text)]
  BY WriteStringsIs
<1>2. PICK n \in Nat : n = Len(text)
  OBVIOUS
<1>3. ASSUME NEW k \in Nat, k + 1 <= n
      PROVE  /\ f[k + 1] = f[k] \o (<<Len(text[k + 1])>> \o text[k + 1])
             /\ text[k + 1] \in Seq(Octet) /\ Len(text[k + 1]) <= MaxString
             /\ Len(text[k + 1]) \in Nat
             /\ <<Len(text[k + 1])>> \o text[k + 1] \in Seq(Octet)
             /\ Len(<<Len(text[k + 1])>> \o text[k + 1]) = 1 + Len(text[k + 1])
  <2>1. PICK j \in 1 .. Len(text) : j = k + 1 /\ j - 1 = k
    BY <1>2, <1>3
  <2>2. f[j] = f[j - 1] \o (<<Len(text[j])>> \o text[j])
    BY <1>1
  <2>3. PICK s \in Seq(Octet) : s = text[j] /\ Len(s) <= MaxString
    OBVIOUS
  <2>4. /\ Len(s) \in Nat /\ <<Len(s)>> \o s \in Seq(Octet)
        /\ Len(<<Len(s)>> \o s) = 1 + Len(s)
    BY <2>3, StringOctets
  <2> QED
    BY <2>1, <2>2, <2>3, <2>4
<1>4. ASSUME NEW k \in Nat, k <= n
      PROVE  f[k] \in Seq(Octet) /\ Len(f[k]) \in Nat /\ k <= Len(f[k])
  <2> DEFINE T == {m \in Nat : m <= n => f[m] \in Seq(Octet) /\ m <= Len(f[m])}
  <2>1. 0 \in T
    <3>1. f[0] \in Seq(Octet) /\ Len(f[0]) = 0
      BY <1>1
    <3> QED
      BY <3>1
  <2>2. \A m \in Nat : m \in T => m + 1 \in T
    <3> SUFFICES ASSUME NEW m \in Nat, m + 1 <= n, m <= n => f[m] \in Seq(Octet) /\ m <= Len(f[m])
                 PROVE  f[m + 1] \in Seq(Octet) /\ m + 1 <= Len(f[m + 1])
      OBVIOUS
    <3>1. PICK a \in Seq(Octet) : a = f[m] /\ m <= Len(a)
      OBVIOUS
    <3>2. PICK b \in Seq(Octet) : f[m + 1] = a \o b /\ Len(b) >= 1
      <4>1. PICK s : /\ f[m + 1] = a \o (<<Len(s)>> \o s) /\ Len(s) \in Nat
                     /\ <<Len(s)>> \o s \in Seq(Octet)
                     /\ Len(<<Len(s)>> \o s) = 1 + Len(s)
        BY <1>3, <3>1
      <4>2. 1 + Len(s) >= 1
        BY <4>1
      <4> QED
        BY <4>1, <4>2
    <3>3. a \o b \in Seq(Octet) /\ Len(a \o b) = Len(a) + Len(b)
      BY ConcatIs
    <3> QED
      BY <3>1, <3>2, <3>3
  <2>3. \A m \in Nat : m \in T
    <3> HIDE DEF T
    <3> QED
      BY <2>1, <2>2, Induct
  <2>4. f[k] \in Seq(Octet) /\ k <= Len(f[k])
    BY <1>4, <2>3
  <2> QED
    BY <2>4
<1>5. ASSUME NEW msg \in Seq(Octet), NEW p \in Nat, Holds(msg, p, f[n])
      PROVE  readStrings(msg, p, p + Len(f[n])) = Got(p + Len(f[n]), text, "read")
  <2>1. PICK end \in Nat : end = p + Len(f[n])
    BY <1>4
  <2>2. PICK g : /\ g[0] = Got(p, <<>>, "reading")
                 /\ \A k \in 1 .. end + 1 : g[k] = readString(msg, end, g[k - 1])
                 /\ readStrings(msg, p, end) = Ended(g, end + 1)
    BY ReadStringsIs
  <2> DEFINE T == {k \in Nat : k <= n /\ Holds(msg, p, f[k]) /\ p + Len(f[k]) <= end =>
                      g[k] = Got(p + Len(f[k]), SubSeq(text, 1, k), "reading")}
  <2>3. 0 \in T
    <3>1. Len(f[0]) = 0 /\ p + 0 = p
      BY <1>1
    <3>2. SubSeq(text, 1, 0) = <<>>
      BY TakeAll
    <3> QED
      BY <2>2, <3>1, <3>2
  <2>4. \A k \in Nat : k \in T => k + 1 \in T
    <3> SUFFICES ASSUME NEW k \in Nat, k + 1 <= n, Holds(msg, p, f[k + 1]),
                        p + Len(f[k + 1]) <= end, k \in T
                 PROVE  g[k + 1] = Got(p + Len(f[k + 1]), SubSeq(text, 1, k + 1), "reading")
      OBVIOUS
    <3>1. PICK a \in Seq(Octet) : a = f[k] /\ Len(a) \in Nat /\ k <= Len(a)
      BY <1>4
    <3>2. PICK s \in Seq(Octet) : /\ s = text[k + 1] /\ Len(s) <= MaxString /\ Len(s) \in Nat
                                  /\ f[k + 1] = a \o (<<Len(s)>> \o s)
                                  /\ <<Len(s)>> \o s \in Seq(Octet)
                                  /\ Len(<<Len(s)>> \o s) = 1 + Len(s)
      BY <1>3, <3>1
    <3>3. PICK b \in Seq(Octet) : b = <<Len(s)>> \o s /\ Len(b) = 1 + Len(s)
      BY <3>2
    <3>4. Holds(msg, p, a) /\ Holds(msg, p + Len(a), b)
      <4>1. Holds(msg, p, a \o b)
        BY <3>2, <3>3
      <4> QED
        BY <4>1, HoldsParts
    <3>5. Len(f[k + 1]) = Len(a) + (1 + Len(s))
      <4>1. Len(a \o b) = Len(a) + Len(b)
        BY ConcatIs
      <4> QED
        BY <3>2, <3>3, <4>1
    <3>6. PICK pos \in Nat : pos = p + Len(a)
      BY <3>1
    <3>7. p + Len(f[k + 1]) = pos + 1 + Len(s) /\ pos + 1 + Len(s) <= end /\ pos <= end
      <4>1. PICK l \in Nat : l = Len(s)
        BY <3>2
      <4>2. PICK m \in Nat : m = Len(a)
        BY <3>1
      <4>3. Len(f[k + 1]) = m + (1 + l) /\ pos = p + m
        BY <3>5, <3>6, <4>1, <4>2
      <4>4. p + (m + (1 + l)) = pos + 1 + l /\ pos <= pos + 1 + l
        BY <4>3
      <4> QED
        BY <4>1, <4>3, <4>4
    <3>8. g[k] = Got(pos, SubSeq(text, 1, k), "reading")
      BY <3>1, <3>4, <3>6, <3>7
    <3>9. PICK j \in 1 .. end + 1 : j = k + 1 /\ j - 1 = k
      BY <3>1, <3>6, <3>7
    <3>10. g[k + 1] = readString(msg, end, g[k])
      BY <2>2, <3>9
    <3>11. readString(msg, end, Got(pos, SubSeq(text, 1, k), "reading")) =
              Got(pos + 1 + Len(s), Append(SubSeq(text, 1, k), s), "reading")
      <4>1. PICK items : items = SubSeq(text, 1, k)
        OBVIOUS
      <4>2. Holds(msg, pos, <<Len(s)>> \o s)
        BY <3>3, <3>4, <3>6
      <4>3. readString(msg, end, Got(pos, items, "reading")) =
              Got(pos + 1 + Len(s), Append(items, s), "reading")
        <5>1. Len(s) <= MaxString /\ pos + 1 + Len(s) <= end
          BY <3>2, <3>7
        <5> QED
          BY <4>2, <5>1, StringRound
      <4> QED
        BY <4>1, <4>3
    <3>12. Append(SubSeq(text, 1, k), s) = SubSeq(text, 1, k + 1)
      BY <1>2, <3>2, TakeOneMore
    <3> QED
      BY <3>7, <3>8, <3>10, <3>11, <3>12
  <2>5. n \in T
    <3>1. \A k \in Nat : k \in T
      <4> HIDE DEF T
      <4> QED
        BY <2>3, <2>4, Induct
    <3> QED
      BY <3>1
  <2>6. g[n] = Got(end, text, "reading")
    <3>1. SubSeq(text, 1, n) = text
      BY <1>2, TakeAll
    <3>2. n <= n /\ p + Len(f[n]) <= end
      BY <2>1
    <3>3. g[n] = Got(p + Len(f[n]), SubSeq(text, 1, n), "reading")
      BY <1>5, <2>5, <3>2
    <3> QED
      BY <2>1, <3>1, <3>3
  <2>7. PICK j \in 1 .. end + 1 : j = n + 1 /\ j - 1 = n
    <3>1. n <= Len(f[n]) /\ Len(f[n]) \in Nat
      BY <1>4
    <3> QED
      BY <2>1, <3>1
  <2>8. g[j] = Got(end, text, "read")
    BY <2>2, <2>6, <2>7, StringEnd
  <2>9. g[j].state # "reading"
    BY <2>8, GotIs
  <2>10. ASSUME NEW k \in 1 .. end + 1, g[k - 1].state # "reading" PROVE g[k] = g[k - 1]
    <3>1. g[k] = readString(msg, end, g[k - 1])
      BY <2>2
    <3> QED
      BY <2>10, <3>1 DEF readString
  <2>11. readStrings(msg, p, end) = g[j]
    <3>1. end + 1 \in Nat /\ j \in 0 .. end + 1
      OBVIOUS
    <3>2. Ended(g, end + 1) = g[j]
      BY <2>9, <2>10, <3>1, OneEnd
    <3> QED
      BY <2>2, <3>2
  <2> QED
    BY <2>1, <2>8, <2>11
<1>6. f[n] \in Seq(Octet)
  BY <1>4
<1> QED
  BY <1>1, <1>2, <1>5, <1>6

-----------------------------------------------------------------------------
(* Type bit maps. *)

LEMMA LargestIs ==
    ASSUME NEW S \in SUBSET Nat, S # {}, NEW n \in Nat, \A x \in S : x <= n
    PROVE  Largest(S) \in S /\ \A x \in S : x <= Largest(S)
<1> DEFINE T == {m \in Nat : \A x \in S : x <= m}
<1>1. PICK m \in T : \A k \in T : m <= k
  <2>1. T \in SUBSET Nat /\ T # {}
    OBVIOUS
  <2> HIDE DEF T
  <2> QED
    BY <2>1, LeastNat
<1>2. m \in Nat /\ \A x \in S : x <= m
  OBVIOUS
<1>3. m \in S
  <2> SUFFICES ASSUME m \notin S PROVE FALSE
    OBVIOUS
  <2>1. \A x \in S : x \in Nat /\ x < m
    BY <1>2
  <2>2. m # 0
    <3>1. PICK x \in S : x \in Nat /\ x < m
      BY <2>1
    <3> QED
      BY <1>2, <3>1
  <2>3. m - 1 \in Nat /\ \A x \in S : x <= m - 1
    <3> HIDE DEF T
    <3>1. \A x \in Nat : x < m => x <= m - 1
      BY <1>2
    <3> QED
      BY <1>2, <2>1, <2>2, <3>1
  <2>4. m - 1 \in T
    BY <2>3
  <2> QED
    BY <1>1, <1>2, <2>4
<1> QED
  BY <1>2, <1>3 DEF Largest

\* The mask of a bit tells whether its weight is in the sum.
LEMMA HighBits ==
    ASSUME NEW a \in {0, 128}, NEW b \in {0, 64}, NEW c \in {0, 32}, NEW d \in {0, 16},
           NEW r \in 0 .. 15
    PROVE  /\ ((a + b + c + d + r) \div 128) % 2 = 1 <=> a = 128
           /\ ((a + b + c + d + r) \div 64) % 2 = 1 <=> b = 64
           /\ ((a + b + c + d + r) \div 32) % 2 = 1 <=> c = 32
           /\ ((a + b + c + d + r) \div 16) % 2 = 1 <=> d = 16
  BY SMT

LEMMA LowBits ==
    ASSUME NEW k \in 0 .. 15, NEW a \in {0, 8}, NEW b \in {0, 4},
           NEW c \in {0, 2}, NEW d \in {0, 1}
    PROVE  /\ ((16 * k + a + b + c + d) \div 8) % 2 = 1 <=> a = 8
           /\ ((16 * k + a + b + c + d) \div 4) % 2 = 1 <=> b = 4
           /\ ((16 * k + a + b + c + d) \div 2) % 2 = 1 <=> c = 2
           /\ ((16 * k + a + b + c + d) \div 1) % 2 = 1 <=> d = 1
  BY SMT

LEMMA DecodeIs ==
    ASSUME NEW msg, NEW offset, NEW end \in Nat
    PROVE  \E f : /\ f = [k \in 0 .. end + 1 |-> f[k]]
                  /\ f[0] = Got(offset, {}, "reading")
                  /\ \A k \in 1 .. end + 1 : f[k] = readBlock(msg, end, f[k - 1])
                  /\ decodeTypeBitMaps(msg, offset, end) = Ended(f, end + 1)
<1> PICK n \in Nat : n = end + 1
  OBVIOUS
<1> DEFINE Step(k, x) == readBlock(msg, end, x)
           Run(f, m) == f[0] = Got(offset, {}, "reading") /\ \A k \in 1 .. m : f[k] = Step(k, f[k - 1])
           T == {m \in Nat : \E f : Run(f, m)}
<1>1. 0 \in T
  <2>1. Run([i \in {0} |-> Got(offset, {}, "reading")], 0)
    OBVIOUS
  <2> QED
    BY <2>1
<1>2. \A m \in Nat : m \in T => m + 1 \in T
  <2> HIDE DEF Step, Run
  <2> SUFFICES ASSUME NEW m \in Nat, \E f : Run(f, m) PROVE \E g : Run(g, m + 1)
    OBVIOUS
  <2>0. PICK f : Run(f, m)
    OBVIOUS
  <2> USE DEF Run
  <2> DEFINE g == [i \in 0 .. m + 1 |-> IF i = m + 1 THEN Step(m + 1, f[m]) ELSE f[i]]
  <2>1. g[0] = Got(offset, {}, "reading")
    BY <2>0
  <2>2. ASSUME NEW k \in 1 .. m + 1 PROVE g[k] = Step(k, g[k - 1])
    <3>1. g[k - 1] = f[k - 1]
      OBVIOUS
    <3>2. CASE k = m + 1
      BY <2>0, <3>1, <3>2
    <3>3. CASE k # m + 1
      <4>1. k \in 1 .. m /\ g[k] = f[k]
        BY <3>3
      <4> QED
        BY <2>0, <3>1, <4>1
    <3> QED
      BY <3>2, <3>3
  <2>3. Run(g, m + 1)
    BY <2>1, <2>2
  <2> QED
    BY <2>3
<1>3. PICK f : Run(f, n)
  <2>1. \A m \in Nat : m \in T
    <3> HIDE DEF T
    <3> QED
      BY <1>1, <1>2, Induct
  <2> QED
    BY <2>1
<1> HIDE DEF Step
<1>4. PICK g : g = [k \in 0 .. n |-> f[k]]
  OBVIOUS
<1>5. g = [k \in 0 .. n |-> IF k = 0 THEN Got(offset, {}, "reading") ELSE Step(k, g[k - 1])]
  BY <1>3, <1>4
<1>6. PICK h : h = [k \in 0 .. n |-> IF k = 0 THEN Got(offset, {}, "reading") ELSE Step(k, h[k - 1])]
               /\ decodeTypeBitMaps(msg, offset, end) = Ended(h, n)
  <2> DEFINE h == CHOOSE e : e = [k \in 0 .. n |-> IF k = 0 THEN Got(offset, {}, "reading") ELSE Step(k, e[k - 1])]
  <2>1. h = [k \in 0 .. n |-> IF k = 0 THEN Got(offset, {}, "reading") ELSE Step(k, h[k - 1])]
    BY <1>5
  <2>2. decodeTypeBitMaps(msg, offset, end) = Ended(h, n)
    BY DEF decodeTypeBitMaps, Step
  <2> HIDE DEF h
  <2> QED
    BY <2>1, <2>2
<1>7. h = [k \in 0 .. n |-> h[k]] /\ h[0] = Got(offset, {}, "reading")
  BY <1>6
<1>8. ASSUME NEW k \in 1 .. n PROVE h[k] = readBlock(msg, end, h[k - 1])
  <2>1. k \in 0 .. n /\ k # 0
    OBVIOUS
  <2>2. h[k] = Step(k, h[k - 1])
    BY <1>6, <2>1
  <2> QED
    BY <2>2 DEF Step
<1> QED
  BY <1>6, <1>7, <1>8

Bit(bits, b) == IF b \in bits THEN Mask[(b % 8) + 1] ELSE 0

LEMMA MaskIs ==
    /\ Mask[1] = 128 /\ Mask[2] = 64 /\ Mask[3] = 32 /\ Mask[4] = 16
    /\ Mask[5] = 8 /\ Mask[6] = 4 /\ Mask[7] = 2 /\ Mask[8] = 1
  BY DEF Mask

LEMMA BitAt ==
    ASSUME NEW bits, NEW i \in Nat, NEW j \in 0 .. 7
    PROVE  Bit(bits, 8 * i + j) = IF 8 * i + j \in bits THEN Mask[j + 1] ELSE 0
<1>1. (8 * i + j) % 8 = j
  BY SMT
<1> QED
  BY <1>1 DEF Bit

\* The octet with the bits from 8 * i on.
OctetOf(bits, i) ==
    Bit(bits, 8 * i) + Bit(bits, 8 * i + 1) + Bit(bits, 8 * i + 2) + Bit(bits, 8 * i + 3)
    + Bit(bits, 8 * i + 4) + Bit(bits, 8 * i + 5) + Bit(bits, 8 * i + 6) + Bit(bits, 8 * i + 7)

LEMMA OctetHasBits ==
    ASSUME NEW bits, NEW i \in Nat
    PROVE  /\ OctetOf(bits, i) \in Octet
           /\ \A j \in 0 .. 7 :
                 (OctetOf(bits, i) \div Mask[j + 1]) % 2 = 1 <=> 8 * i + j \in bits
<1> DEFINE x(j) == Bit(bits, 8 * i + j)
<1>0. Bit(bits, 8 * i) = x(0)
  <2>1. 8 * i = 8 * i + 0
    OBVIOUS
  <2> QED
    BY <2>1
<1>1. \A j \in 0 .. 7 : x(j) = IF 8 * i + j \in bits THEN Mask[j + 1] ELSE 0
  BY BitAt
<1>2. PICK a \in {0, 128} : a = x(0) /\ (a = 128 <=> 8 * i + 0 \in bits)
  <2>1. 0 \in 0 .. 7 /\ Mask[0 + 1] = 128
    BY MaskIs
  <2> QED
    BY <1>1, <2>1
<1>3. PICK b \in {0, 64} : b = x(1) /\ (b = 64 <=> 8 * i + 1 \in bits)
  <2>1. 1 \in 0 .. 7 /\ Mask[1 + 1] = 64
    BY MaskIs
  <2> QED
    BY <1>1, <2>1
<1>4. PICK c \in {0, 32} : c = x(2) /\ (c = 32 <=> 8 * i + 2 \in bits)
  <2>1. 2 \in 0 .. 7 /\ Mask[2 + 1] = 32
    BY MaskIs
  <2> QED
    BY <1>1, <2>1
<1>5. PICK d \in {0, 16} : d = x(3) /\ (d = 16 <=> 8 * i + 3 \in bits)
  <2>1. 3 \in 0 .. 7 /\ Mask[3 + 1] = 16
    BY MaskIs
  <2> QED
    BY <1>1, <2>1
<1>6. PICK e \in {0, 8} : e = x(4) /\ (e = 8 <=> 8 * i + 4 \in bits)
  <2>1. 4 \in 0 .. 7 /\ Mask[4 + 1] = 8
    BY MaskIs
  <2> QED
    BY <1>1, <2>1
<1>7. PICK f \in {0, 4} : f = x(5) /\ (f = 4 <=> 8 * i + 5 \in bits)
  <2>1. 5 \in 0 .. 7 /\ Mask[5 + 1] = 4
    BY MaskIs
  <2> QED
    BY <1>1, <2>1
<1>8. PICK g \in {0, 2} : g = x(6) /\ (g = 2 <=> 8 * i + 6 \in bits)
  <2>1. 6 \in 0 .. 7 /\ Mask[6 + 1] = 2
    BY MaskIs
  <2> QED
    BY <1>1, <2>1
<1>9. PICK h \in {0, 1} : h = x(7) /\ (h = 1 <=> 8 * i + 7 \in bits)
  <2>1. 7 \in 0 .. 7 /\ Mask[7 + 1] = 1
    BY MaskIs
  <2> QED
    BY <1>1, <2>1
<1>10. OctetOf(bits, i) = a + b + c + d + e + f + g + h
  BY <1>0, <1>2, <1>3, <1>4, <1>5, <1>6, <1>7, <1>8, <1>9 DEF OctetOf
<1> HIDE DEF x
<1>11. PICK s \in Nat : s = OctetOf(bits, i) /\ s <= 255 /\ s = a + b + c + d + e + f + g + h
  BY <1>10
<1>12. s \in Octet
  BY <1>11, IsOctet
<1>13. /\ (s \div 128) % 2 = 1 <=> a = 128
       /\ (s \div 64) % 2 = 1 <=> b = 64
       /\ (s \div 32) % 2 = 1 <=> c = 32
       /\ (s \div 16) % 2 = 1 <=> d = 16
  <2>1. PICK r \in 0 .. 15 : r = e + f + g + h
    OBVIOUS
  <2>2. s = a + b + c + d + r
    BY <1>11, <2>1
  <2> QED
    BY <2>2, HighBits
<1>14. /\ (s \div 8) % 2 = 1 <=> e = 8
       /\ (s \div 4) % 2 = 1 <=> f = 4
       /\ (s \div 2) % 2 = 1 <=> g = 2
       /\ (s \div 1) % 2 = 1 <=> h = 1
  <2>1. PICK k \in 0 .. 15 : a + b + c + d = 16 * k
    <3>1. PICK a8 \in {0, 8} : a = 16 * a8
      OBVIOUS
    <3>2. PICK b4 \in {0, 4} : b = 16 * b4
      OBVIOUS
    <3>3. PICK c2 \in {0, 2} : c = 16 * c2
      OBVIOUS
    <3>4. PICK d1 \in {0, 1} : d = 16 * d1
      OBVIOUS
    <3>5. a8 + b4 + c2 + d1 \in 0 .. 15 /\ a + b + c + d = 16 * (a8 + b4 + c2 + d1)
      BY <3>1, <3>2, <3>3, <3>4
    <3> QED
      BY <3>5
  <2>2. s = 16 * k + e + f + g + h
    BY <1>11, <2>1
  <2> QED
    BY <2>2, LowBits
<1>15. ASSUME NEW j \in 0 .. 7
       PROVE  (s \div Mask[j + 1]) % 2 = 1 <=> 8 * i + j \in bits
  <2>1. CASE j = 0
    BY <1>2, <1>13, <2>1, MaskIs
  <2>2. CASE j = 1
    BY <1>3, <1>13, <2>2, MaskIs
  <2>3. CASE j = 2
    BY <1>4, <1>13, <2>3, MaskIs
  <2>4. CASE j = 3
    BY <1>5, <1>13, <2>4, MaskIs
  <2>5. CASE j = 4
    BY <1>6, <1>14, <2>5, MaskIs
  <2>6. CASE j = 5
    BY <1>7, <1>14, <2>6, MaskIs
  <2>7. CASE j = 6
    BY <1>8, <1>14, <2>7, MaskIs
  <2>8. CASE j = 7
    BY <1>9, <1>14, <2>8, MaskIs
  <2> QED
    BY <2>1, <2>2, <2>3, <2>4, <2>5, <2>6, <2>7, <2>8
<1> QED
  BY <1>11, <1>12, <1>15

LEMMA OctetSet ==
    ASSUME NEW bits \in SUBSET Octet
    PROVE  bits \in SUBSET (0 .. 255)
  BY DEF Octet

LEMMA BitMapIs ==
    ASSUME NEW bits \in SUBSET Octet, bits # {}
    PROVE  /\ BitMap(bits) \in Seq(Octet) /\ Len(BitMap(bits)) \in 1 .. 32
           /\ \A b \in bits : b \in 0 .. 8 * Len(BitMap(bits)) - 1
           /\ \A b \in 0 .. 8 * Len(BitMap(bits)) - 1 :
                 (BitMap(bits)[(b \div 8) + 1] \div Mask[(b % 8) + 1]) % 2 = 1 <=> b \in bits
<1>1. PICK m \in 0 .. 255 : m = Largest(bits) /\ \A x \in bits : x <= m
  <2>1. bits \in SUBSET Nat /\ \A x \in bits : x <= 255
    BY OctetSet
  <2>2. Largest(bits) \in bits /\ \A x \in bits : x <= Largest(bits)
    BY <2>1, LargestIs, ZenonT(90)
  <2>3. Largest(bits) \in 0 .. 255
    BY <2>2, OctetSet
  <2> QED
    BY <2>2, <2>3
<1>2. PICK n \in 1 .. 32 : n = (m \div 8) + 1 /\ m <= 8 * n - 1
  BY SMT
<1>3. BitMap(bits) = [i \in 1 .. n |-> OctetOf(bits, i - 1)]
  BY <1>1, <1>2 DEF BitMap, OctetOf, Bit
<1>4. PICK map : map = BitMap(bits)
  OBVIOUS
<1>5. \A i \in 1 .. n : i - 1 \in Nat /\ OctetOf(bits, i - 1) \in Octet
  BY OctetHasBits
<1>6. map \in Seq(Octet) /\ Len(map) = n /\ \A i \in 1 .. n : map[i] = OctetOf(bits, i - 1)
  BY <1>3, <1>4, <1>5
<1>7. ASSUME NEW b \in bits PROVE b \in 0 .. 8 * n - 1
  <2>1. b \in Nat /\ b <= m
    BY <1>1, OctetSet
  <2> QED
    BY <1>2, <2>1
<1>8. ASSUME NEW b \in 0 .. 8 * n - 1
      PROVE  (map[(b \div 8) + 1] \div Mask[(b % 8) + 1]) % 2 = 1 <=> b \in bits
  <2>1. PICK i \in Nat : i = b \div 8 /\ i + 1 \in 1 .. n
    BY SMT
  <2>2. PICK j \in 0 .. 7 : j = b % 8 /\ b = 8 * i + j
    BY <2>1, SMT
  <2>3. map[i + 1] = OctetOf(bits, i)
    <3>1. i + 1 - 1 = i
      OBVIOUS
    <3> QED
      BY <1>6, <2>1, <3>1
  <2>4. (OctetOf(bits, i) \div Mask[j + 1]) % 2 = 1 <=> 8 * i + j \in bits
    BY OctetHasBits
  <2> QED
    BY <2>1, <2>2, <2>3, <2>4
<1> QED
  BY <1>4, <1>6, <1>7, <1>8

LEMMA TwoOctets ==
    ASSUME NEW x \in Octet, NEW y \in Octet
    PROVE  /\ <<x, y>> \in Seq(Octet) /\ Len(<<x, y>>) = 2
           /\ <<x, y>>[1] = x /\ <<x, y>>[2] = y
  OBVIOUS

\* The types that are known, and those of a window.
WithTypes(items, win, bits) == items \cup {256 * win + b : b \in bits}

\* The block of these types is in the record.
HoldsBlock(msg, pos, end, win, bits, map) ==
    /\ bits \in SUBSET Octet /\ bits # {} /\ map = BitMap(bits)
    /\ Holds(msg, pos, <<win, Len(map)>> \o map) /\ pos + 2 + Len(map) <= end

\* A round reads the block that is there.
LEMMA BlockRound ==
    ASSUME NEW msg \in Seq(Octet), NEW pos \in Nat, NEW end \in Nat, NEW items,
           NEW win \in Octet, NEW bits, NEW map, HoldsBlock(msg, pos, end, win, bits, map)
    PROVE  readBlock(msg, end, Got(pos, items, "reading")) =
              Got(pos + 2 + Len(map), WithTypes(items, win, bits), "reading")
<1>0. /\ bits \in SUBSET Octet /\ bits # {} /\ map = BitMap(bits)
      /\ Holds(msg, pos, <<win, Len(map)>> \o map) /\ pos + 2 + Len(map) <= end
  BY DEF HoldsBlock
<1>1. /\ map \in Seq(Octet) /\ Len(map) \in 1 .. 32
      /\ \A b \in bits : b \in 0 .. 8 * Len(map) - 1
      /\ \A b \in 0 .. 8 * Len(map) - 1 :
            (map[(b \div 8) + 1] \div Mask[(b % 8) + 1]) % 2 = 1 <=> b \in bits
  BY <1>0, BitMapIs
<1>2. PICK n \in 1 .. 32 : n = Len(map)
  BY <1>1
<1>3. n \in Octet
  BY IsOctet
<1>4. PICK a \in Seq(Octet) : a = <<win, n>> /\ Len(a) = 2 /\ a[1] = win /\ a[2] = n
  BY <1>3, TwoOctets, ZenonT(90)
<1>5. Holds(msg, pos, a) /\ Holds(msg, pos + 2, map)
  <2>1. Holds(msg, pos, a \o map)
    BY <1>0, <1>2, <1>4
  <2>2. Holds(msg, pos, a) /\ Holds(msg, pos + Len(a), map)
    BY <1>1, <2>1, HoldsParts
  <2> QED
    BY <1>4, <2>2
<1>6. msg[pos + 1] = win /\ msg[pos + 2] = n
  BY <1>4, <1>5 DEF Holds
<1>7. \A i \in 1 .. n : msg[(pos + 2) + i] = map[i]
  BY <1>2, <1>5 DEF Holds
<1>8. ASSUME NEW b \in 0 .. 8 * n - 1
      PROVE  (msg[pos + 3 + b \div 8] \div Mask[(b % 8) + 1]) % 2 = 1 <=> b \in bits
  <2>1. PICK i \in Nat : i = b \div 8 /\ i + 1 \in 1 .. n
    BY SMT
  <2>2. pos + 3 + i = (pos + 2) + (i + 1)
    OBVIOUS
  <2>3. msg[pos + 3 + i] = map[i + 1]
    BY <1>7, <2>1, <2>2
  <2> QED
    BY <1>1, <1>2, <2>1, <2>3
<1>9. {b \in 0 .. 8 * n - 1 : (msg[pos + 3 + b \div 8] \div Mask[(b % 8) + 1]) % 2 = 1} = bits
  BY <1>1, <1>2, <1>8
<1>10. ~(pos >= end) /\ ~(pos + 2 > end) /\ ~(pos + 2 + n > end)
  BY <1>0, <1>2
<1>11. PICK r : /\ r = Got(pos, items, "reading") /\ r.pos = pos /\ r.items = items
                /\ r.state = "reading"
  BY GotIs
<1>12. readBlock(msg, end, r) =
          Got(pos + 2 + n, WithTypes(items, win, bits), "reading")
  BY <1>6, <1>9, <1>10, <1>11, ZenonT(90) DEF readBlock, WithTypes
<1> QED
  BY <1>2, <1>11, <1>12

LEMMA BlockEnd ==
    ASSUME NEW msg, NEW end \in Nat, NEW items
    PROVE  readBlock(msg, end, Got(end, items, "reading")) = Got(end, items, "read")
<1>1. PICK r : /\ r = Got(end, items, "reading") /\ r.pos = end /\ r.items = items
               /\ r.state = "reading"
  BY GotIs
<1>2. readBlock(msg, end, r) = Got(end, items, "read")
  BY <1>1 DEF readBlock
<1> QED
  BY <1>1, <1>2

-----------------------------------------------------------------------------
(* The blocks of the windows. *)

\* The windows of the types that come before window k.
Windows(types, k) == {t \div 256 : t \in types} \cap (0 .. k - 1)

LEMMA WindowsGrow ==
    ASSUME NEW types, NEW k \in Nat
    PROVE  /\ Windows(types, 0) = {}
           /\ Windows(types, k) \in SUBSET Nat
           /\ k \notin {t \div 256 : t \in types} => Windows(types, k + 1) = Windows(types, k)
           /\ k \in {t \div 256 : t \in types} =>
                 Windows(types, k + 1) # {} /\ Largest(Windows(types, k + 1)) = k
<1> PICK W : W = {t \div 256 : t \in types}
  OBVIOUS
<1>1. \A m \in Nat : Windows(types, m) = W \cap (0 .. m - 1)
  BY DEF Windows
<1>2. Windows(types, 0) = {} /\ Windows(types, k) \in SUBSET Nat
  BY <1>1
<1>3. k \notin W => Windows(types, k + 1) = Windows(types, k)
  <2>1. 0 .. k + 1 - 1 = (0 .. k - 1) \cup {k}
    OBVIOUS
  <2> QED
    BY <1>1, <2>1
<1>4. k \in W => Windows(types, k + 1) # {} /\ Largest(Windows(types, k + 1)) = k
  <2> SUFFICES ASSUME k \in W
               PROVE  Windows(types, k + 1) # {} /\ Largest(Windows(types, k + 1)) = k
    OBVIOUS
  <2>1. PICK V : V = Windows(types, k + 1)
    OBVIOUS
  <2>2. k \in V /\ V \in SUBSET Nat /\ \A x \in V : x <= k
    BY <1>1, <2>1
  <2>3. Largest(V) \in V /\ \A x \in V : x <= Largest(V)
    BY <2>2, LargestIs
  <2>4. Largest(V) \in Nat /\ Largest(V) <= k /\ k <= Largest(V)
    BY <2>2, <2>3
  <2>5. Largest(V) = k
    BY <2>4
  <2> QED
    BY <2>1, <2>2, <2>5
<1> QED
  BY <1>2, <1>3, <1>4

\* The loop as the code has it, window by window.
WithWindow(types, k, octets) ==
    IF k \in {t \div 256 : t \in types} THEN octets \o Block(types, k) ELSE octets

LEMMA WindowLoopExists ==
    ASSUME NEW types
    PROVE  \E f : f[0] = <<>> /\ \A k \in 0 .. 254 : f[k + 1] = WithWindow(types, k, f[k])
<1> DEFINE Run(f, m) == f[0] = <<>> /\ \A k \in Nat : k < m => f[k + 1] = WithWindow(types, k, f[k])
           T == {m \in Nat : \E f : Run(f, m)}
<1>1. 0 \in T
  <2>1. Run([i \in {0} |-> <<>>], 0)
    OBVIOUS
  <2> QED
    BY <2>1
<1>2. \A m \in Nat : m \in T => m + 1 \in T
  <2> HIDE DEF Run
  <2> SUFFICES ASSUME NEW m \in Nat, \E f : Run(f, m) PROVE \E g : Run(g, m + 1)
    OBVIOUS
  <2> USE DEF Run
  <2>0. PICK f : Run(f, m)
    OBVIOUS
  <2> DEFINE g == [i \in 0 .. m + 1 |-> IF i = m + 1 THEN WithWindow(types, m, f[m]) ELSE f[i]]
  <2>1. g[0] = <<>>
    BY <2>0
  <2>2. ASSUME NEW k \in Nat, k < m + 1 PROVE g[k + 1] = WithWindow(types, k, g[k])
    <3>1. g[k] = f[k]
      BY <2>2
    <3>2. CASE k = m
      BY <3>1, <3>2
    <3>3. CASE k # m
      <4>1. k < m /\ g[k + 1] = f[k + 1]
        BY <2>2, <3>3
      <4> QED
        BY <2>0, <3>1, <4>1
    <3> QED
      BY <3>2, <3>3
  <2>3. Run(g, m + 1)
    <3> HIDE DEF g
    <3> QED
      BY <2>1, <2>2
  <2> QED
    BY <2>3
<1>3. PICK f : Run(f, 255)
  <2>1. \A m \in Nat : m \in T
    <3> HIDE DEF T
    <3> QED
      BY <1>1, <1>2, Induct
  <2>2. 255 \in T
    <3> HIDE DEF T
    <3> QED
      BY <2>1, SMT
  <2> HIDE DEF Run
  <2> QED
    BY <2>2
<1>4. \A k \in 0 .. 254 : k \in Nat /\ k < 255
  BY SMT
<1> QED
  BY <1>3, <1>4

\* The octets up to window k, from those up to the last window before.
Skipping(types, f, k) ==
    IF Windows(types, k) = {} THEN <<>>
    ELSE f[Largest(Windows(types, k))] \o Block(types, Largest(Windows(types, k)))

LEMMA BelowTheLast ==
    ASSUME NEW k \in Nat, k + 1 <= 255
    PROVE  k <= 255 /\ k \in 0 .. 254
  BY SMT

LEMMA IntoTheLast ==
    ASSUME NEW k \in 0 .. 254
    PROVE  k \in 0 .. 255 /\ k + 1 \in 0 .. 255
  BY SMT

LEMMA UpToTheLast ==
    ASSUME NEW k \in 0 .. 255
    PROVE  k \in Nat /\ k <= 255
  BY SMT

LEMMA SkippingIsLooping ==
    ASSUME NEW types, NEW f, f[0] = <<>>,
           \A k \in 0 .. 254 : f[k + 1] = WithWindow(types, k, f[k])
    PROVE  \A k \in 0 .. 255 : f[k] = Skipping(types, f, k)
<1> DEFINE P(k) == k <= 255 => f[k] = Skipping(types, f, k)
           T == {k \in Nat : P(k)}
<1>1. 0 \in T
  <2>1. Windows(types, 0) = {}
    BY WindowsGrow
  <2>2. P(0)
    BY <2>1 DEF Skipping
  <2> QED
    BY <2>2
<1>2. \A k \in Nat : k \in T => k + 1 \in T
  <2> HIDE DEF P
  <2> SUFFICES ASSUME NEW k \in Nat, P(k) PROVE P(k + 1)
    BY NextNat, Zenon
  <2> USE DEF P
  <2> SUFFICES ASSUME k + 1 <= 255 PROVE f[k + 1] = Skipping(types, f, k + 1)
    OBVIOUS
  <2>0. k <= 255 /\ k \in 0 .. 254
    BY BelowTheLast, Zenon
  <2>1. k \in 0 .. 254 /\ f[k] = Skipping(types, f, k)
    BY <2>0
  <2>2. f[k + 1] = WithWindow(types, k, f[k])
    BY <2>1
  <2>3. CASE k \in {t \div 256 : t \in types}
    <3>1. Windows(types, k + 1) # {} /\ Largest(Windows(types, k + 1)) = k
      BY <2>3, WindowsGrow
    <3> QED
      BY <2>2, <2>3, <3>1 DEF WithWindow, Skipping
  <2>4. CASE k \notin {t \div 256 : t \in types}
    <3>1. Windows(types, k + 1) = Windows(types, k)
      BY <2>4, WindowsGrow
    <3> QED
      BY <2>1, <2>2, <2>4, <3>1 DEF WithWindow, Skipping
  <2> QED
    BY <2>3, <2>4
<1>3. \A k \in Nat : k \in T
  <2> HIDE DEF T
  <2> QED
    BY <1>1, <1>2, Induct
<1> SUFFICES ASSUME NEW k \in 0 .. 255 PROVE f[k] = Skipping(types, f, k)
  OBVIOUS
<1>4. k \in Nat /\ k <= 255
  BY UpToTheLast, Zenon
<1> QED
  BY <1>3, <1>4

LEMMA EncodeIs ==
    ASSUME NEW types
    PROVE  \E f : /\ f[0] = <<>>
                  /\ \A k \in 0 .. 254 : f[k + 1] = WithWindow(types, k, f[k])
                  /\ encodeTypeBitMaps(types) = f[255]
<1>1. PICK e : e[0] = <<>> /\ \A k \in 0 .. 254 : e[k + 1] = WithWindow(types, k, e[k])
  BY WindowLoopExists
<1>2. PICK g : g = [k \in 0 .. 255 |-> e[k]]
  OBVIOUS
<1>3. g[0] = <<>> /\ \A k \in 0 .. 254 : g[k + 1] = WithWindow(types, k, g[k])
  <2>1. \A k \in 0 .. 255 : g[k] = e[k]
    BY <1>2, Zenon
  <2>2. 0 \in 0 .. 255
    BY SMT
  <2>3. g[0] = <<>>
    BY <1>1, <2>1, <2>2, Zenon
  <2>4. ASSUME NEW k \in 0 .. 254 PROVE g[k + 1] = WithWindow(types, k, g[k])
    <3>1. k \in 0 .. 255 /\ k + 1 \in 0 .. 255
      BY IntoTheLast, Zenon
    <3>2. g[k] = e[k] /\ g[k + 1] = e[k + 1]
      BY <2>1, <3>1, Zenon
    <3> QED
      BY <1>1, <3>2, Zenon
  <2> QED
    BY <2>3, <2>4, Zenon
<1>4. g = [k \in 0 .. 255 |-> Skipping(types, g, k)]
  <2>1. \A k \in 0 .. 255 : g[k] = Skipping(types, g, k)
    BY <1>3, SkippingIsLooping
  <2> QED
    BY <1>2, <2>1, ZenonT(90)
<1> DEFINE h == CHOOSE d : d = [k \in 0 .. 255 |-> Skipping(types, d, k)]
<1>5. h = [k \in 0 .. 255 |-> Skipping(types, h, k)]
  BY <1>4
<1>6. encodeTypeBitMaps(types) = h[255]
  BY DEF encodeTypeBitMaps, Skipping, Windows
<1>7. PICK f : f = h
  OBVIOUS
<1> HIDE DEF h
<1>8. \A k \in 0 .. 255 : f[k] = Skipping(types, f, k)
  BY <1>5, <1>7
<1>9. f[0] = <<>>
  <2>1. 0 \in Nat /\ 0 \in 0 .. 255
    BY SMT
  <2>2. Windows(types, 0) = {}
    BY <2>1, WindowsGrow
  <2> QED
    BY <1>8, <2>1, <2>2 DEF Skipping
<1>10. ASSUME NEW k \in 0 .. 254 PROVE f[k + 1] = WithWindow(types, k, f[k])
  <2>1. k \in Nat /\ k \in 0 .. 255 /\ k + 1 \in 0 .. 255
    OBVIOUS
  <2>2. f[k] = Skipping(types, f, k) /\ f[k + 1] = Skipping(types, f, k + 1)
    BY <1>8, <2>1
  <2>3. CASE k \in {t \div 256 : t \in types}
    <3>1. Windows(types, k + 1) # {} /\ Largest(Windows(types, k + 1)) = k
      BY <2>1, <2>3, WindowsGrow, ZenonT(90)
    <3> QED
      BY <2>2, <2>3, <3>1 DEF WithWindow, Skipping
  <2>4. CASE k \notin {t \div 256 : t \in types}
    <3>1. Windows(types, k + 1) = Windows(types, k)
      BY <2>1, <2>4, WindowsGrow
    <3> QED
      BY <2>2, <2>4, <3>1 DEF WithWindow, Skipping
  <2> QED
    BY <2>3, <2>4
<1> QED
  BY <1>6, <1>7, <1>9, <1>10

-----------------------------------------------------------------------------
(* The types of a record. *)

\* The types of the windows before window k.
Told(types, k) == {t \in types : t \div 256 < k}

LEMMA DivideTypes ==
    ASSUME NEW t \in Nat, NEW k \in Nat
    PROVE  /\ t \div 256 \in Nat /\ t % 256 \in 0 .. 255
           /\ t = 256 * (t \div 256) + (t % 256)
           /\ t \div 256 < k + 1 <=> (t \div 256 < k \/ t \div 256 = k)
           /\ ~(t \div 256 < 0)
  BY SMT

LEMMA LastWindow ==
    ASSUME NEW t \in Nat
    PROVE  t \div 256 < 255 <=> t < 65280
  BY SMT

LEMMA ToldGrows ==
    ASSUME NEW types \in SUBSET Nat, NEW k \in Nat
    PROVE  /\ Told(types, 0) = {}
           /\ k \notin {t \div 256 : t \in types} => Told(types, k + 1) = Told(types, k)
           /\ k \in {t \div 256 : t \in types} =>
                 /\ InWindow(types, k) \in SUBSET Octet /\ InWindow(types, k) # {}
                 /\ Told(types, k + 1) =
                       WithTypes(Told(types, k), k, InWindow(types, k))
<1>1. \A t \in types : /\ t \in Nat /\ t \div 256 \in Nat /\ t % 256 \in 0 .. 255
                       /\ t = 256 * (t \div 256) + (t % 256)
                       /\ t \div 256 < k + 1 <=> (t \div 256 < k \/ t \div 256 = k)
                       /\ ~(t \div 256 < 0)
  BY DivideTypes
<1>2. Told(types, 0) = {}
  <2>1. \A t \in types : ~(t \div 256 < 0)
    BY <1>1, ZenonT(90)
  <2> QED
    BY <2>1, Zenon DEF Told
<1> PICK S : S = {t \in types : t \div 256 = k}
  OBVIOUS
<1>3. Told(types, k + 1) = Told(types, k) \cup S
  BY <1>1, ZenonT(90) DEF Told
<1>4. InWindow(types, k) = {t % 256 : t \in S}
  BY DEF InWindow
<1>5. InWindow(types, k) \in SUBSET Octet
  BY <1>1, <1>4 DEF Octet
<1>6. {256 * k + b : b \in InWindow(types, k)} = S
  <2>1. \A t \in S : t \in types /\ t = 256 * k + (t % 256)
    BY <1>1
  <2> PICK M : M = {256 * k + b : b \in InWindow(types, k)}
    OBVIOUS
  <2>2. ASSUME NEW t \in S PROVE t \in M
    <3>1. PICK b : b = t % 256 /\ b \in InWindow(types, k)
      BY <1>4
    <3>2. t = 256 * k + b
      BY <2>1, <3>1
    <3> QED
      BY <3>1, <3>2
  <2>3. ASSUME NEW b \in InWindow(types, k) PROVE 256 * k + b \in S
    <3>1. PICK t \in S : b = t % 256
      BY <1>4
    <3> QED
      BY <2>1, <3>1
  <2>4. M \subseteq S
    BY <2>3
  <2> QED
    BY <2>2, <2>4
<1>7. k \notin {t \div 256 : t \in types} => S = {}
  OBVIOUS
<1>8. k \in {t \div 256 : t \in types} => InWindow(types, k) # {}
  BY <1>4
<1> QED
  BY <1>2, <1>3, <1>5, <1>6, <1>7, <1>8 DEF WithTypes

LEMMA BlockIs ==
    ASSUME NEW types, NEW k \in Octet,
           InWindow(types, k) \in SUBSET Octet, InWindow(types, k) # {}
    PROVE  \E map \in Seq(Octet) :
              /\ map = BitMap(InWindow(types, k)) /\ Len(map) \in 1 .. 32
              /\ Block(types, k) = <<k, Len(map)>> \o map
              /\ Block(types, k) \in Seq(Octet) /\ Len(Block(types, k)) = 2 + Len(map)
<1>1. PICK map \in Seq(Octet) : map = BitMap(InWindow(types, k)) /\ Len(map) \in 1 .. 32
  BY BitMapIs
<1>2. PICK n \in 1 .. 32 : n = Len(map)
  BY <1>1
<1>3. n \in Octet
  BY IsOctet
<1>4. PICK a \in Seq(Octet) : a = <<k, n>> /\ Len(a) = 2
  <2>1. <<k, n>> \in Seq(Octet) /\ Len(<<k, n>>) = 2
    BY <1>3, TwoOctets, Zenon
  <2> QED
    BY <2>1, Zenon
<1>5. a \o map \in Seq(Octet) /\ Len(a \o map) = 2 + Len(map)
  BY <1>4, ConcatIs
<1>6. Block(types, k) = a \o map
  BY <1>1, <1>2, <1>4 DEF Block
<1> QED
  BY <1>1, <1>2, <1>4, <1>5, <1>6

\* The loop of decodeTypeBitMaps has read the octets a, which are those before window k.
Decoded(g, p, a, types, k) ==
    \E j \in Nat : j <= Len(a) /\ g[j] = Got(p + Len(a), Told(types, k), "reading")

DecodeLoop(msg, p, end, g) ==
    /\ g[0] = Got(p, {}, "reading")
    /\ \A i \in 1 .. end + 1 : g[i] = readBlock(msg, end, g[i - 1])

LEMMA OneWindow ==
    ASSUME NEW msg \in Seq(Octet), NEW p \in Nat, NEW end \in Nat, NEW g, DecodeLoop(msg, p, end, g),
           NEW types \in SUBSET Nat, NEW k \in Octet, NEW a \in Seq(Octet), NEW b,
           b = WithWindow(types, k, a)
    PROVE  /\ b \in Seq(Octet)
           /\ Holds(msg, p, b) /\ p + Len(b) <= end =>
                 /\ Holds(msg, p, a) /\ p + Len(a) <= end
                 /\ Decoded(g, p, a, types, k) => Decoded(g, p, b, types, k + 1)
<1>0. k \in Nat /\ k + 1 \in Nat
  BY OctetIsNat
<1>1. CASE k \notin {t \div 256 : t \in types}
  <2>1. b = a
    BY <1>1 DEF WithWindow
  <2>2. Told(types, k + 1) = Told(types, k)
    BY <1>0, <1>1, ToldGrows
  <2> QED
    BY <2>1, <2>2 DEF Decoded
<1>2. CASE k \in {t \div 256 : t \in types}
  <2>1. /\ InWindow(types, k) \in SUBSET Octet /\ InWindow(types, k) # {}
        /\ Told(types, k + 1) = WithTypes(Told(types, k), k, InWindow(types, k))
    BY <1>0, <1>2, ToldGrows
  <2>2. PICK map \in Seq(Octet) :
           /\ map = BitMap(InWindow(types, k)) /\ Len(map) \in 1 .. 32
           /\ Block(types, k) = <<k, Len(map)>> \o map
           /\ Block(types, k) \in Seq(Octet) /\ Len(Block(types, k)) = 2 + Len(map)
    BY <2>1, BlockIs
  <2>3. PICK c \in Seq(Octet) : c = Block(types, k) /\ Len(c) = 2 + Len(map)
    BY <2>2
  <2>4. b = a \o c
    BY <1>2, <2>3 DEF WithWindow
  <2>5. b \in Seq(Octet) /\ Len(b) = Len(a) + Len(c)
    BY <2>4, ConcatIs
  <2>6. PICK l \in Nat, n \in 1 .. 32 : l = Len(a) /\ n = Len(map)
    BY <2>2
  <2>7. ASSUME Holds(msg, p, b), p + Len(b) <= end
        PROVE  /\ Holds(msg, p, a) /\ p + Len(a) <= end
               /\ Decoded(g, p, a, types, k) => Decoded(g, p, b, types, k + 1)
    <3>1. Holds(msg, p, a) /\ Holds(msg, p + Len(a), c)
      BY <2>4, <2>7, HoldsParts
    <3>2. Len(b) = l + (2 + n) /\ p + (l + (2 + n)) <= end
      BY <2>3, <2>5, <2>6, <2>7
    <3>3. p + l <= end /\ p + l + 2 + n <= end /\ p + (l + (2 + n)) = p + l + 2 + n
      BY <3>2
    <3>4. ASSUME Decoded(g, p, a, types, k) PROVE Decoded(g, p, b, types, k + 1)
      <4>1. PICK j \in Nat : j <= l /\ g[j] = Got(p + l, Told(types, k), "reading")
        BY <2>6, <3>4 DEF Decoded
      <4>2. j + 1 \in 1 .. end + 1 /\ (j + 1) - 1 = j /\ j + 1 <= l + (2 + n)
        BY <3>3, <4>1
      <4>3. g[j + 1] = readBlock(msg, end, g[j])
        BY <4>2 DEF DecodeLoop
      <4>4. PICK q \in Nat : q = p + l
        OBVIOUS
      <4>5. Holds(msg, q, <<k, Len(map)>> \o map) /\ q + 2 + Len(map) <= end
        BY <2>2, <2>3, <2>6, <3>1, <3>3, <4>4
      <4>6. PICK items, bits : items = Told(types, k) /\ bits = InWindow(types, k)
        OBVIOUS
      <4>7. bits \in SUBSET Octet /\ bits # {} /\ map = BitMap(bits)
        BY <2>1, <2>2, <4>6
      <4>8. readBlock(msg, end, Got(q, items, "reading")) =
               Got(q + 2 + Len(map), WithTypes(items, k, bits), "reading")
        <5>1. HoldsBlock(msg, q, end, k, bits, map)
          BY <4>5, <4>7 DEF HoldsBlock
        <5> QED
          BY <5>1, BlockRound
      <4>9. WithTypes(items, k, bits) = Told(types, k + 1)
        BY <2>1, <4>6
      <4>10. g[j + 1] = Got(p + Len(b), Told(types, k + 1), "reading")
        <5>1. q + 2 + Len(map) = p + Len(b)
          BY <2>6, <3>2, <3>3, <4>4
        <5> QED
          BY <4>1, <4>3, <4>4, <4>6, <4>8, <4>9, <5>1
      <4>11. j + 1 \in Nat /\ j + 1 <= Len(b)
        BY <3>2, <4>2
      <4> QED
        BY <4>10, <4>11 DEF Decoded
    <3> QED
      BY <2>6, <3>1, <3>3, <3>4
  <2> QED
    BY <2>5, <2>7
<1> QED
  BY <1>1, <1>2

LEMMA BelowOctet ==
    ASSUME NEW k \in Nat, k + 1 <= 255
    PROVE  k \in Octet /\ k <= 255 /\ k \in 0 .. 254
<1>1. k <= 255 /\ k \in 0 .. 254
  BY BelowTheLast
<1>2. k \in Octet
  BY <1>1 DEF Octet
<1> QED
  BY <1>1, <1>2

\* The state of writer f and reader g before window k, if the packet has the octets.
SoFar(msg, p, end, f, g, types, k) ==
    /\ f[k] \in Seq(Octet)
    /\ Holds(msg, p, f[k]) /\ p + Len(f[k]) <= end => Decoded(g, p, f[k], types, k)

EncodeLoop(types, f) ==
    f[0] = <<>> /\ \A k \in 0 .. 254 : f[k + 1] = WithWindow(types, k, f[k])

LEMMA NoOctets == <<>> \in Seq(Octet) /\ Len(<<>>) = 0 /\ 0 <= Len(<<>>)
  OBVIOUS

LEMMA WindowByWindow ==
    ASSUME NEW msg \in Seq(Octet), NEW p \in Nat, NEW end \in Nat, NEW f, NEW g,
           NEW types \in SUBSET Nat, EncodeLoop(types, f), DecodeLoop(msg, p, end, g)
    PROVE  SoFar(msg, p, end, f, g, types, 255)
<1> DEFINE P(k) == k <= 255 => SoFar(msg, p, end, f, g, types, k)
           T == {k \in Nat : P(k)}
<1>1. 0 \in T
  <2>1. PICK a \in Seq(Octet) : a = f[0] /\ Len(a) = 0 /\ 0 <= Len(a)
    BY NoOctets DEF EncodeLoop
  <2>2. Told(types, 0) = {} /\ p + 0 = p /\ g[0] = Got(p, {}, "reading")
    BY ToldGrows DEF DecodeLoop
  <2>3. 0 \in Nat /\ 0 <= Len(a) /\ g[0] = Got(p + Len(a), Told(types, 0), "reading")
    BY <2>1, <2>2
  <2>4. Decoded(g, p, f[0], types, 0)
    BY <2>1, <2>3 DEF Decoded
  <2>5. SoFar(msg, p, end, f, g, types, 0)
    BY <2>1, <2>4 DEF SoFar
  <2> QED
    BY <2>5
<1>2. \A k \in Nat : k \in T => k + 1 \in T
  <2> HIDE DEF P
  <2> SUFFICES ASSUME NEW k \in Nat, P(k) PROVE P(k + 1)
    BY NextNat, Zenon
  <2> USE DEF P
  <2> SUFFICES ASSUME k + 1 <= 255 PROVE SoFar(msg, p, end, f, g, types, k + 1)
    OBVIOUS
  <2>1. k \in Octet /\ k <= 255 /\ k \in 0 .. 254
    BY BelowOctet
  <2>2. SoFar(msg, p, end, f, g, types, k)
    BY <2>1
  <2>3. PICK a \in Seq(Octet) : a = f[k]
    BY <2>2 DEF SoFar
  <2>4. PICK b : b = f[k + 1] /\ b = WithWindow(types, k, a)
    BY <2>1, <2>3 DEF EncodeLoop
  <2>5. /\ b \in Seq(Octet)
        /\ Holds(msg, p, b) /\ p + Len(b) <= end =>
              /\ Holds(msg, p, a) /\ p + Len(a) <= end
              /\ Decoded(g, p, a, types, k) => Decoded(g, p, b, types, k + 1)
    BY <2>1, <2>4, OneWindow
  <2> QED
    BY <2>2, <2>3, <2>4, <2>5 DEF SoFar
<1>3. \A k \in Nat : k \in T
  <2> HIDE DEF T
  <2> QED
    BY <1>1, <1>2, Induct
<1>4. 255 \in Nat /\ 255 <= 255
  BY SMT
<1>5. P(255)
  <2> HIDE DEF P
  <2> QED
    BY <1>3, <1>4
<1> QED
  BY <1>4, <1>5

\* The types that the encoding tells.
Tellable(types) == {t \in types : t < 65280}

LEMMA AllTold ==
    ASSUME NEW types \in SUBSET Nat
    PROVE  Told(types, 255) = Tellable(types)
<1>1. ASSUME NEW t \in types PROVE t \in Told(types, 255) <=> t \in Tellable(types)
  <2>1. t \div 256 < 255 <=> t < 65280
    BY LastWindow
  <2> QED
    BY <2>1, SMT DEF Told, Tellable
<1>2. Told(types, 255) \subseteq types /\ Tellable(types) \subseteq types
  BY DEF Told, Tellable
<1> QED
  BY <1>1, <1>2

\* The types that were encoded are decoded, but for those of window 255.
THEOREM TypesRoundTrip ==
    ASSUME NEW types \in SUBSET Nat
    PROVE  /\ encodeTypeBitMaps(types) \in Seq(Octet)
           /\ \A msg \in Seq(Octet), p \in Nat :
                 Holds(msg, p, encodeTypeBitMaps(types)) =>
                    decodeTypeBitMaps(msg, p, p + Len(encodeTypeBitMaps(types))) =
                       Got(p + Len(encodeTypeBitMaps(types)), Tellable(types), "read")
<1>1. PICK f : EncodeLoop(types, f) /\ encodeTypeBitMaps(types) = f[255]
  BY EncodeIs, SMTT(60) DEF EncodeLoop
<1>2. ASSUME NEW msg \in Seq(Octet), NEW p \in Nat, NEW end \in Nat
      PROVE  \E g : /\ DecodeLoop(msg, p, end, g)
                    /\ decodeTypeBitMaps(msg, p, end) = Ended(g, end + 1)
                    /\ SoFar(msg, p, end, f, g, types, 255)
  <2>1. PICK g : DecodeLoop(msg, p, end, g) /\ decodeTypeBitMaps(msg, p, end) = Ended(g, end + 1)
    BY DecodeIs DEF DecodeLoop
  <2>2. SoFar(msg, p, end, f, g, types, 255)
    BY <1>1, <2>1, WindowByWindow
  <2> QED
    BY <2>1, <2>2
<1>3. PICK b \in Seq(Octet) : b = f[255] /\ encodeTypeBitMaps(types) = b
  <2>1. PICK msg \in Seq(Octet), p \in Nat : msg = <<>> /\ p = 0
    BY NoOctets
  <2>2. \E g : SoFar(msg, p, p, f, g, types, 255)
    BY <1>2
  <2>3. f[255] \in Seq(Octet)
    BY <2>2 DEF SoFar
  <2> QED
    BY <1>1, <2>3
<1>4. Told(types, 255) = Tellable(types)
  BY AllTold
<1>5. ASSUME NEW msg \in Seq(Octet), NEW p \in Nat, Holds(msg, p, b)
      PROVE  decodeTypeBitMaps(msg, p, p + Len(b)) = Got(p + Len(b), Told(types, 255), "read")
  <2>1. PICK end \in Nat : end = p + Len(b)
    OBVIOUS
  <2>2. PICK g : /\ DecodeLoop(msg, p, end, g)
                 /\ decodeTypeBitMaps(msg, p, end) = Ended(g, end + 1)
                 /\ SoFar(msg, p, end, f, g, types, 255)
    BY <1>2
  <2>3. p + Len(b) <= end
    BY <2>1
  <2>4. Decoded(g, p, b, types, 255)
    BY <1>3, <1>5, <2>2, <2>3 DEF SoFar
  <2>5. PICK items : items = Told(types, 255)
    OBVIOUS
  <2>6. PICK n \in Nat : n <= Len(b) /\ g[n] = Got(end, items, "reading")
    BY <2>1, <2>4, <2>5 DEF Decoded
  <2>7. PICK j \in 1 .. end + 1 : j = n + 1 /\ j - 1 = n
    BY <2>1, <2>6
  <2>8. g[j] = Got(end, items, "read")
    <3>1. g[j] = readBlock(msg, end, Got(end, items, "reading"))
      BY <2>2, <2>6, <2>7 DEF DecodeLoop
    <3> QED
      BY <3>1, BlockEnd
  <2>9. g[j].state # "reading"
    BY <2>8, GotIs
  <2>10. ASSUME NEW k \in 1 .. end + 1, g[k - 1].state # "reading" PROVE g[k] = g[k - 1]
    <3>1. g[k] = readBlock(msg, end, g[k - 1])
      BY <2>2 DEF DecodeLoop
    <3> QED
      BY <2>10, <3>1 DEF readBlock
  <2>11. decodeTypeBitMaps(msg, p, end) = g[j]
    <3>1. end + 1 \in Nat /\ j \in 0 .. end + 1
      OBVIOUS
    <3>2. Ended(g, end + 1) = g[j]
      BY <2>9, <2>10, <3>1, OneEnd
    <3> QED
      BY <2>2, <3>2
  <2> QED
    BY <2>1, <2>5, <2>8, <2>11
<1> QED
  BY <1>3, <1>4, <1>5

-----------------------------------------------------------------------------
(* Packers: what keeps the suffixes of the table where they can be read. *)

\* A packer with more octets, or with gaps filled, that knows the same suffixes.
LEMMA StillFindable ==
    ASSUME NEW w \in Packer, NEW v \in Packer, NEW gs, NEW hs, Findable(w, gs),
           v.comp = w.comp, Len(w.buf) <= Len(v.buf),
           \A msg \in Seq(Octet) : Agree(msg, v.buf, hs) => Agree(msg, w.buf, gs)
    PROVE  Findable(v, hs)
<1> SUFFICES ASSUME NEW s \in DOMAIN v.comp
             PROVE  /\ s # <<>> /\ v.comp[s] <= MaxPointer /\ v.comp[s] < Len(v.buf)
                    /\ \A msg \in Seq(Octet) :
                          Agree(msg, v.buf, hs) => \E e : ReadsAt(msg, v.comp[s], s, Len(s) - 1, e)
  BY DEF Findable
<1>1. /\ s # <<>> /\ w.comp[s] <= MaxPointer /\ w.comp[s] < Len(w.buf)
      /\ \A msg \in Seq(Octet) :
            Agree(msg, w.buf, gs) => \E e : ReadsAt(msg, w.comp[s], s, Len(s) - 1, e)
  BY DEF Findable
<1>2. w.comp[s] \in Nat
  <2>1. w.comp \in [DOMAIN w.comp -> Nat]
    BY PackerType, TableIs
  <2> QED
    BY <2>1
<1>3. Len(w.buf) \in Nat /\ Len(v.buf) \in Nat
  BY PackerType
<1>4. w.comp[s] < Len(v.buf)
  BY <1>1, <1>2, <1>3
<1> QED
  BY <1>1, <1>4

LEMMA BufferIs ==
    ASSUME NEW w \in Packer
    PROVE  w.buf \in Seq(Octet) /\ Len(w.buf) \in Nat
<1>1. w.buf \in Seq(Octet)
  BY PackerType
<1> QED
  BY <1>1

\* Octets are appended.
LEMMA PutFindable ==
    ASSUME NEW w \in Packer, NEW gaps, Findable(w, gaps), NEW b \in Seq(Octet)
    PROVE  Findable(Put(w, b), gaps)
<1>1. PICK v \in Packer : v = Put(w, b) /\ v.buf = w.buf \o b /\ v.comp = w.comp
  BY PutIs
<1>2. w.buf \in Seq(Octet) /\ Len(w.buf) \in Nat /\ Len(b) \in Nat
  BY BufferIs
<1>3. Len(v.buf) = Len(w.buf) + Len(b)
  BY <1>1, <1>2, ConcatIs
<1>4. Len(w.buf) <= Len(v.buf)
  BY <1>2, <1>3
<1>5. ASSUME NEW msg \in Seq(Octet), Agree(msg, v.buf, gaps) PROVE Agree(msg, w.buf, gaps)
  BY <1>1, <1>2, <1>5, AgreePrefix
<1>6. Findable(v, gaps)
  BY <1>1, <1>4, <1>5, StillFindable
<1> QED
  BY <1>1, <1>6

\* The gaps are after a.
After(gaps, a) == \A i \in gaps : i \in Nat /\ i > Len(a)

LEMMA AgreeBeforeGaps ==
    ASSUME NEW msg \in Seq(Octet), NEW a \in Seq(Octet), NEW b \in Seq(Octet), NEW gaps,
           After(gaps, a), Agree(msg, a \o b, gaps)
    PROVE  Agree(msg, a, {})
<1>1. Agree(msg, a, gaps)
  BY AgreePrefix
<1>2. ASSUME NEW i \in 1 .. Len(a) PROVE i \notin gaps
  BY DEF After
<1> QED
  BY <1>1, <1>2 DEF Agree

\* Octets are appended, among them gaps.
LEMMA GapsFindable ==
    ASSUME NEW w \in Packer, Findable(w, {}), NEW b \in Seq(Octet), NEW gaps, After(gaps, w.buf)
    PROVE  Findable(Put(w, b), gaps)
<1>1. PICK v \in Packer : v = Put(w, b) /\ v.buf = w.buf \o b /\ v.comp = w.comp
  BY PutIs
<1>2. w.buf \in Seq(Octet) /\ Len(w.buf) \in Nat /\ Len(b) \in Nat
  BY BufferIs
<1>3. Len(v.buf) = Len(w.buf) + Len(b)
  BY <1>1, <1>2, ConcatIs
<1>4. Len(w.buf) <= Len(v.buf)
  BY <1>2, <1>3
<1>5. ASSUME NEW msg \in Seq(Octet), Agree(msg, v.buf, gaps) PROVE Agree(msg, w.buf, {})
  BY <1>1, <1>2, <1>5, AgreeBeforeGaps
<1>6. Findable(v, gaps)
  BY <1>1, <1>4, <1>5, StillFindable
<1> QED
  BY <1>1, <1>6

LEMMA FailIs ==
    ASSUME NEW w \in Packer
    PROVE  ~Fail(w).ok
  BY DEF Packer, Fail

-----------------------------------------------------------------------------
(* RDLENGTH is filled in. *)

\* The buffer with the two octets before offset i replaced.
Patched(b, i, x, y) == [[b EXCEPT ![i - 1] = x] EXCEPT ![i] = y]

Changed(b, j, x) == [b EXCEPT ![j] = x]

LEMMA ChangedIs ==
    ASSUME NEW b \in Seq(Octet), NEW j \in 1 .. Len(b), NEW x \in Octet
    PROVE  \E c \in Seq(Octet) : /\ c = Changed(b, j, x) /\ Len(c) = Len(b) /\ c[j] = x
                                 /\ \A k \in 1 .. Len(b) : k # j => c[k] = b[k]
<1>1. DOMAIN b = 1 .. Len(b) /\ Len(b) \in Nat
  OBVIOUS
<1>2. PICK c : c = [b EXCEPT ![j] = x]
  OBVIOUS
<1>3. c \in [1 .. Len(b) -> Octet]
  BY <1>1, <1>2
<1>4. c \in Seq(Octet) /\ Len(c) = Len(b)
  BY <1>1, <1>3
<1>5. c[j] = x /\ \A k \in 1 .. Len(b) : k # j => c[k] = b[k]
  BY <1>1, <1>2
<1> QED
  BY <1>2, <1>4, <1>5 DEF Changed

OnlyTwo(b, c, i, x, y) ==
    /\ Len(c) = Len(b) /\ c[i - 1] = x /\ c[i] = y
    /\ \A k \in 1 .. Len(b) : k \notin {i - 1, i} => c[k] = b[k]

LEMMA PatchedIs ==
    ASSUME NEW b \in Seq(Octet), NEW i \in Nat, 2 <= i, i <= Len(b), NEW x \in Octet, NEW y \in Octet
    PROVE  Patched(b, i, x, y) \in Seq(Octet) /\ OnlyTwo(b, Patched(b, i, x, y), i, x, y)
<1>1. PICK j \in 1 .. Len(b) : j = i - 1 /\ j # i
  OBVIOUS
<1>2. PICK c \in Seq(Octet) : /\ c = Changed(b, j, x) /\ Len(c) = Len(b) /\ c[j] = x
                              /\ \A k \in 1 .. Len(b) : k # j => c[k] = b[k]
  BY ChangedIs
<1>3. i \in 1 .. Len(c)
  BY <1>2
<1>4. PICK d \in Seq(Octet) : /\ d = Changed(c, i, y) /\ Len(d) = Len(c) /\ d[i] = y
                              /\ \A k \in 1 .. Len(c) : k # i => d[k] = c[k]
  BY <1>3, ChangedIs
<1>5. d = Patched(b, i, x, y)
  BY <1>1, <1>2, <1>4 DEF Patched, Changed
<1>6. d[j] = x
  BY <1>1, <1>2, <1>4
<1>7. ASSUME NEW k \in 1 .. Len(b), k \notin {i - 1, i} PROVE d[k] = b[k]
  <2>1. k # j /\ k # i
    BY <1>1, <1>7
  <2> QED
    BY <1>2, <1>4, <2>1
<1>8. OnlyTwo(b, d, i, x, y)
  BY <1>1, <1>2, <1>4, <1>6, <1>7 DEF OnlyTwo
<1> QED
  BY <1>5, <1>8

\* The packer with them.
Filled(w, i, x, y) == [w EXCEPT !.buf[i - 1] = x, !.buf[i] = y]

LEMMA FilledIs ==
    ASSUME NEW w \in Packer, NEW i \in Nat, 2 <= i, i <= Len(w.buf), NEW x \in Octet, NEW y \in Octet
    PROVE  /\ Filled(w, i, x, y) \in Packer
           /\ Filled(w, i, x, y).buf = Patched(w.buf, i, x, y)
           /\ Filled(w, i, x, y).comp = w.comp
           /\ Filled(w, i, x, y).ok = w.ok
<1>1. Filled(w, i, x, y) = [[w EXCEPT !.buf[i - 1] = x] EXCEPT !.buf[i] = y]
  BY Zenon DEF Filled
<1>2. PICK u : u = [w EXCEPT !.buf[i - 1] = x]
  OBVIOUS
<1>3. PICK c : c = [w.buf EXCEPT ![i - 1] = x]
  OBVIOUS
<1>4. u = [w EXCEPT !.buf = c]
  BY <1>2, <1>3
<1>5. u.buf = c /\ u.comp = w.comp /\ u.ok = w.ok /\ [u EXCEPT !.buf = w.buf] = w
  BY <1>4 DEF Packer
<1>6. PICK d : d = Patched(w.buf, i, x, y) /\ d = [c EXCEPT ![i] = y]
  BY <1>3 DEF Patched
<1>7. [u EXCEPT !.buf[i] = y] = [u EXCEPT !.buf = d]
  BY <1>5, <1>6
<1>8. [u EXCEPT !.buf = d] = [w EXCEPT !.buf = d]
  BY <1>4
<1>9. d \in Seq(Octet)
  <2>1. PICK b \in Seq(Octet) : b = w.buf
    BY BufferIs
  <2>2. i <= Len(b)
    BY <2>1
  <2>3. Patched(b, i, x, y) \in Seq(Octet)
    BY <2>2, PatchedIs
  <2> QED
    BY <1>6, <2>1, <2>3
<1>10. PICK v : v = [w EXCEPT !.buf = d]
  OBVIOUS
<1>11. v \in Packer /\ v.buf = d /\ v.comp = w.comp /\ v.ok = w.ok
  BY <1>9, <1>10 DEF Packer
<1> QED
  BY <1>1, <1>2, <1>6, <1>7, <1>8, <1>10, <1>11

LengthAt(i) == {i - 1, i}

LEMMA FilledFindable ==
    ASSUME NEW w \in Packer, NEW i \in Nat, 2 <= i, i <= Len(w.buf), NEW x \in Octet, NEW y \in Octet,
           Findable(w, LengthAt(i))
    PROVE  \E v \in Packer :
              /\ v = Filled(w, i, x, y) /\ v.ok = w.ok /\ Len(v.buf) = Len(w.buf) /\ Findable(v, {})
              /\ \A msg \in Seq(Octet) :
                    Agree(msg, v.buf, {}) =>
                       Agree(msg, w.buf, LengthAt(i)) /\ msg[i - 1] = x /\ msg[i] = y
<1>1. PICK v \in Packer : /\ v = Filled(w, i, x, y) /\ v.buf = Patched(w.buf, i, x, y)
                          /\ v.comp = w.comp /\ v.ok = w.ok
  BY FilledIs
<1>2. PICK b \in Seq(Octet) : b = w.buf
  BY BufferIs
<1>3. PICK c \in Seq(Octet) : /\ c = v.buf /\ Len(c) = Len(b) /\ c[i - 1] = x /\ c[i] = y
                              /\ \A k \in 1 .. Len(b) : k \notin {i - 1, i} => c[k] = b[k]
  <2>1. i <= Len(b)
    BY <1>2
  <2>2. PICK c \in Seq(Octet) : c = Patched(b, i, x, y) /\ OnlyTwo(b, c, i, x, y)
    BY <2>1, PatchedIs
  <2> QED
    BY <1>1, <1>2, <2>2 DEF OnlyTwo
<1>4. i - 1 \in 1 .. Len(c) /\ i \in 1 .. Len(c)
  BY <1>2, <1>3
<1>5. ASSUME NEW msg \in Seq(Octet), Agree(msg, c, {})
      PROVE  Agree(msg, b, LengthAt(i)) /\ msg[i - 1] = x /\ msg[i] = y
  <2>1. Len(c) <= Len(msg) /\ \A k \in 1 .. Len(c) : msg[k] = c[k]
    BY <1>5 DEF Agree
  <2> QED
    BY <1>3, <1>4, <2>1 DEF Agree, LengthAt
<1>6. Len(w.buf) <= Len(v.buf)
  BY <1>2, <1>3
<1>7. Findable(v, {})
  BY <1>1, <1>2, <1>3, <1>5, <1>6, StillFindable
<1> QED
  BY <1>1, <1>2, <1>3, <1>5, <1>7

=============================================================================
