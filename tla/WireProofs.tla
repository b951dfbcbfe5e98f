----------------------------- MODULE WireProofs -----------------------------
(***************************************************************************)
(* From Pack of one server to handlePacket of another, for every set of    *)
(* messages of the code's types.  What Pack wrote, UnpackMessage reads     *)
(* back (MessageRoundTrip); of what is cut off, it reads nothing           *)
(* (CutOffIsRefused); hence what a server acts upon is what was sent.      *)
(*                                                                         *)
(* Writing: each part, from RDATA to a section, leaves the buffer with     *)
(* more octets and the suffixes of its table where they can be read, and   *)
(* the part is read back in every message that agrees with the buffer      *)
(* outside the length fields that are filled in later.                     *)
(*                                                                         *)
(* Cutting off: of a message and of a beginning of it, every reading step  *)
(* reads the same, or refuses the beginning; as the last section of the    *)
(* whole ends where the message ends, it cannot be read from less.         *)
(***************************************************************************)
EXTENDS Wire, TransportProofs, CodecProofs, TLAPS

-----------------------------------------------------------------------------
(* Records that a server may pack. *)

\* A record by its fields.
Rec(name, type, class, ttl, flush, ip, target, srv, text, next, types, raw) ==
    [name |-> name, type |-> type, class |-> class, ttl |-> ttl, flush |-> flush,
     ip |-> ip, target |-> target, srv |-> srv, text |-> text,
     next |-> next, types |-> types, raw |-> raw]

\* The fields that come before RDATA.
Headed(rr) == Rec(rr.name, rr.type, rr.class, rr.ttl, rr.flush,
                  <<>>, <<>>, <<0, 0, 0>>, <<>>, <<>>, {}, <<>>)

LEMMA FitsIs ==
    ASSUME NEW rr, Fits(rr)
    PROVE  /\ rr = Rec(rr.name, rr.type, rr.class, rr.ttl, rr.flush, rr.ip, rr.target,
                       rr.srv, rr.text, rr.next, rr.types, rr.raw)
           /\ rr.name \in FitName /\ rr.type \in Number16 /\ rr.class \in Number15
           /\ Wide32(rr.ttl) /\ rr.flush \in BOOLEAN /\ rr.ip \in Seq(Octet)
           /\ rr.target \in FitName /\ rr.srv \in [1 .. 3 -> Number16]
           /\ rr.text \in Seq(Seq(Octet)) /\ rr.next \in FitName
           /\ rr.types \in SUBSET Nat /\ rr.raw \in Seq(Octet)
<1>1. rr \in Fields /\ Wide32(rr.ttl)
  BY DEF Fits
<1>2. rr.flush \in BOOLEAN
  BY <1>1, Zenon DEF Fields
<1>3. rr = Rec(rr.name, rr.type, rr.class, rr.ttl, rr.flush, rr.ip, rr.target,
               rr.srv, rr.text, rr.next, rr.types, rr.raw)
  BY <1>1 DEF Rec, Fields
<1>4. rr.name \in FitName /\ rr.type \in Number16 /\ rr.class \in Number15 /\ rr.ip \in Seq(Octet)
  BY <1>1 DEF Fields
<1>5. /\ rr.target \in FitName /\ rr.srv \in [1 .. 3 -> Number16]
      /\ rr.text \in Seq(Seq(Octet)) /\ rr.next \in FitName
      /\ rr.types \in SUBSET Nat /\ rr.raw \in Seq(Octet)
  BY <1>1 DEF Fields
<1> QED
  BY <1>1, <1>2, <1>3, <1>4, <1>5

LEMMA RecFields ==
    ASSUME NEW n, NEW t, NEW c, NEW l, NEW f, NEW i, NEW g, NEW s, NEW x, NEW e, NEW y, NEW w,
           NEW rr, rr = Rec(n, t, c, l, f, i, g, s, x, e, y, w)
    PROVE  /\ rr.name = n /\ rr.type = t /\ rr.class = c /\ rr.ttl = l /\ rr.flush = f
           /\ rr.ip = i /\ rr.target = g /\ rr.srv = s /\ rr.text = x /\ rr.next = e
           /\ rr.types = y /\ rr.raw = w
  BY DEF Rec

ReceivedIp(rr) == CASE rr.type = TypeA -> To4(rr.ip)
                    [] rr.type = TypeAAAA -> To16(rr.ip)
                    [] OTHER -> rr.ip
ReceivedText(rr) == IF rr.type = TypeTXT /\ rr.text = <<>> THEN << <<>> >> ELSE rr.text

LEMMA ReceivedIs ==
    ASSUME NEW rr, Fits(rr)
    PROVE  Received(rr) =
              Rec(rr.name, rr.type, rr.class, rr.ttl, rr.flush, ReceivedIp(rr), rr.target,
                  rr.srv, ReceivedText(rr), rr.next, Tellable(rr.types), rr.raw)
<1>1. rr = Rec(rr.name, rr.type, rr.class, rr.ttl, rr.flush, rr.ip, rr.target,
               rr.srv, rr.text, rr.next, rr.types, rr.raw)
  BY FitsIs
<1>2. PICK a, b, d : a = ReceivedIp(rr) /\ b = ReceivedText(rr) /\ d = Tellable(rr.types)
  OBVIOUS
<1>3. Received(rr) = [rr EXCEPT !.ip = a, !.text = b, !.types = d]
  BY <1>2 DEF Received, ReceivedIp, ReceivedText, Tellable
<1>4. [rr EXCEPT !.ip = a, !.text = b, !.types = d] =
         [[[rr EXCEPT !.ip = a] EXCEPT !.text = b] EXCEPT !.types = d]
  BY Zenon
<1>5. PICK n, t, c, l, f : n = rr.name /\ t = rr.type /\ c = rr.class /\ l = rr.ttl /\ f = rr.flush
  OBVIOUS
<1>6. PICK i, g, s, x : i = rr.ip /\ g = rr.target /\ s = rr.srv /\ x = rr.text
  OBVIOUS
<1>7. PICK e, y, w : e = rr.next /\ y = rr.types /\ w = rr.raw
  OBVIOUS
<1>8. rr = Rec(n, t, c, l, f, i, g, s, x, e, y, w)
  BY <1>1, <1>5, <1>6, <1>7
<1>9. PICK r1 : r1 = [rr EXCEPT !.ip = a] /\ r1 = Rec(n, t, c, l, f, a, g, s, x, e, y, w)
  <2>1. [Rec(n, t, c, l, f, i, g, s, x, e, y, w) EXCEPT !.ip = a] =
           Rec(n, t, c, l, f, a, g, s, x, e, y, w)
    BY DEF Rec
  <2> QED
    BY <1>8, <2>1, Zenon
<1>10. PICK r2 : r2 = [r1 EXCEPT !.text = b] /\ r2 = Rec(n, t, c, l, f, a, g, s, b, e, y, w)
  <2>1. [Rec(n, t, c, l, f, a, g, s, x, e, y, w) EXCEPT !.text = b] =
           Rec(n, t, c, l, f, a, g, s, b, e, y, w)
    BY DEF Rec
  <2> QED
    BY <1>9, <2>1, Zenon
<1>11. [r2 EXCEPT !.types = d] = Rec(n, t, c, l, f, a, g, s, b, e, d, w)
  <2>1. [Rec(n, t, c, l, f, a, g, s, b, e, y, w) EXCEPT !.types = d] =
           Rec(n, t, c, l, f, a, g, s, b, e, d, w)
    BY DEF Rec
  <2> QED
    BY <1>10, <2>1, Zenon
<1>12. Received(rr) = Rec(n, t, c, l, f, a, g, s, b, e, d, w)
  BY <1>3, <1>4, <1>9, <1>10, <1>11
<1> QED
  BY <1>2, <1>5, <1>6, <1>7, <1>12

\* The types are different.
LEMMA OneType ==
    ASSUME NEW t
    PROVE  /\ t = TypeA => t \notin NameTypes \cup {TypeAAAA, TypeSRV, TypeTXT, TypeNSEC}
           /\ t = TypeAAAA => t \notin NameTypes \cup {TypeA, TypeSRV, TypeTXT, TypeNSEC}
           /\ t \in NameTypes => t \notin {TypeA, TypeAAAA, TypeSRV, TypeTXT, TypeNSEC}
           /\ t = TypeSRV => t \notin NameTypes \cup {TypeA, TypeAAAA, TypeTXT, TypeNSEC}
           /\ t = TypeTXT => t \notin NameTypes \cup {TypeA, TypeAAAA, TypeSRV, TypeNSEC}
           /\ t = TypeNSEC => t \notin NameTypes \cup {TypeA, TypeAAAA, TypeSRV, TypeTXT}
  BY DEF NameTypes, TypeA, TypeAAAA, TypePTR, TypeSRV, TypeTXT, TypeNSEC

\* RDATA of each type is read into the fields of the type.
UnpackedAs(rec, rr, msg, offset, rdlen) ==
    unpackRDATA(rr, msg, offset, rdlen) = [ok |-> TRUE, rr |-> rec]

LEMMA UnpackAddress ==
    ASSUME NEW rr, NEW msg, NEW offset, NEW rdlen, ~(offset + rdlen > Len(msg)),
           \/ rr.type = TypeA /\ rdlen = 4
           \/ rr.type = TypeAAAA /\ rdlen = 16
    PROVE  UnpackedAs([rr EXCEPT !.ip = SubSeq(msg, offset + 1, offset + rdlen)],
                      rr, msg, offset, rdlen)
<1>1. CASE rr.type = TypeA /\ rdlen = 4
  BY <1>1, OneType DEF UnpackedAs, unpackRDATA
<1>2. CASE rr.type = TypeAAAA /\ rdlen = 16
  BY <1>2, OneType DEF UnpackedAs, unpackRDATA
<1> QED
  BY <1>1, <1>2

LEMMA UnpackTarget ==
    ASSUME NEW rr, NEW msg, NEW offset, NEW rdlen, ~(offset + rdlen > Len(msg)),
           rr.type \in NameTypes, NEW name, NEW next,
           readName(msg, offset) = [ok |-> TRUE, name |-> name, next |-> next]
    PROVE  UnpackedAs([rr EXCEPT !.target = name], rr, msg, offset, rdlen)
<1>2. PICK r : r = readName(msg, offset) /\ r.ok /\ r.name = name
  OBVIOUS
<1> QED
  BY <1>2, OneType DEF UnpackedAs, unpackRDATA

SrvAt(msg, pos) == [i \in 1 .. 3 |-> Uint16(msg, pos + 2 * (i - 1))]

LEMMA UnpackService ==
    ASSUME NEW rr, NEW msg, NEW offset, NEW rdlen, ~(offset + rdlen > Len(msg)),
           rr.type = TypeSRV, ~(rdlen < 7), NEW name, NEW next,
           readName(msg, offset + 6) = [ok |-> TRUE, name |-> name, next |-> next]
    PROVE  UnpackedAs([rr EXCEPT !.target = name, !.srv = SrvAt(msg, offset)],
                      rr, msg, offset, rdlen)
<1>2. PICK r : r = readName(msg, offset + 6) /\ r.ok /\ r.name = name
  OBVIOUS
<1> QED
  BY <1>2, OneType DEF UnpackedAs, unpackRDATA, SrvAt

LEMMA UnpackText ==
    ASSUME NEW rr, NEW msg, NEW offset, NEW rdlen, ~(offset + rdlen > Len(msg)),
           rr.type = TypeTXT, NEW text, NEW pos,
           readStrings(msg, offset, offset + rdlen) = Got(pos, text, "read")
    PROVE  UnpackedAs([rr EXCEPT !.text = text], rr, msg, offset, rdlen)
<1>2. PICK r : r = readStrings(msg, offset, offset + rdlen) /\ r.state = "read" /\ r.items = text
  BY GotIs
<1> QED
  BY <1>2, OneType DEF UnpackedAs, unpackRDATA

LEMMA UnpackDenial ==
    ASSUME NEW rr, NEW msg, NEW offset, NEW rdlen, ~(offset + rdlen > Len(msg)),
           rr.type = TypeNSEC, NEW name, NEW next, NEW types, NEW pos,
           readName(msg, offset) = [ok |-> TRUE, name |-> name, next |-> next],
           decodeTypeBitMaps(msg, next, offset + rdlen) = Got(pos, types, "read")
    PROVE  UnpackedAs([rr EXCEPT !.next = name, !.types = types], rr, msg, offset, rdlen)
<1>2. PICK r : r = readName(msg, offset) /\ r.ok /\ r.name = name /\ r.next = next
  OBVIOUS
<1>3. PICK q : q = decodeTypeBitMaps(msg, next, offset + rdlen) /\ q.state = "read" /\ q.items = types
  BY GotIs
<1> QED
  BY <1>2, <1>3, OneType DEF UnpackedAs, unpackRDATA

LEMMA UnpackRaw ==
    ASSUME NEW rr, NEW msg, NEW offset, NEW rdlen, ~(offset + rdlen > Len(msg)),
           rr.type \notin Known
    PROVE  UnpackedAs([rr EXCEPT !.raw = SubSeq(msg, offset + 1, offset + rdlen)],
                      rr, msg, offset, rdlen)
<1>1. /\ rr.type # TypeA /\ rr.type # TypeAAAA /\ rr.type \notin NameTypes
      /\ rr.type # TypeSRV /\ rr.type # TypeTXT /\ rr.type # TypeNSEC
  BY DEF Known
<1> QED
  BY <1>1 DEF UnpackedAs, unpackRDATA

-----------------------------------------------------------------------------
(* RDATA. *)

\* Octets are appended: then they are in the packet, at the end of the buffer.
LEMMA PutPart ==
    ASSUME NEW h \in Packer, NEW gaps, Before(gaps, h.buf), Findable(h, gaps),
           NEW b \in Seq(Octet)
    PROVE  \E v \in Packer :
              /\ v = Put(h, b) /\ v.ok = h.ok /\ v.buf = h.buf \o b
              /\ Findable(v, gaps) /\ Before(gaps, v.buf)
              /\ Len(v.buf) \in Nat /\ Len(v.buf) = Len(h.buf) + Len(b)
              /\ Len(v.buf) - Len(h.buf) = Len(b)
              /\ \A msg \in Seq(Octet) :
                    Agree(msg, v.buf, gaps) => Agree(msg, h.buf, gaps) /\ Holds(msg, Len(h.buf), b)
<1>1. PICK v \in Packer : v = Put(h, b) /\ v.buf = h.buf \o b /\ v.ok = h.ok
  BY PutIs
<1>2. PICK a \in Seq(Octet) : a = h.buf /\ Len(a) \in Nat
  BY BufferIs
<1>3. Len(v.buf) = Len(a) + Len(b) /\ Len(b) \in Nat
  BY <1>1, <1>2, ConcatIs
<1>4. Findable(v, gaps)
  BY <1>1, PutFindable
<1>5. Before(gaps, v.buf)
  BY <1>2, <1>3 DEF Before
<1>6. ASSUME NEW msg \in Seq(Octet), Agree(msg, v.buf, gaps)
      PROVE  Agree(msg, a, gaps) /\ Holds(msg, Len(a), b)
  <2>1. Agree(msg, a \o b, gaps) /\ Before(gaps, a)
    BY <1>1, <1>2, <1>6
  <2> QED
    BY <2>1, AgreePrefix, HoldsTail
<1>7. Len(v.buf) \in Nat /\ Len(v.buf) - Len(a) = Len(b)
  BY <1>2, <1>3
<1> QED
  BY <1>1, <1>2, <1>3, <1>4, <1>5, <1>6, <1>7

\* A name is written.
NameWritten(h, v, gaps, name) ==
    /\ v \in Packer /\ v.ok = h.ok
    /\ Findable(v, gaps) /\ Before(gaps, v.buf)
    /\ \E more \in Seq(Octet) : v.buf = h.buf \o more /\ Len(more) \in Nat \ {0}
    /\ \A msg \in Seq(Octet) :
          Agree(msg, v.buf, gaps) =>
             /\ Agree(msg, h.buf, gaps)
             /\ readName(msg, Len(h.buf)) = [ok |-> TRUE, name |-> name, next |-> Len(v.buf)]

LEMMA NamePart ==
    ASSUME NEW h \in Packer, NEW gaps, Before(gaps, h.buf), Findable(h, gaps),
           NEW name \in FitName
    PROVE  NameWritten(h, writeName(h, name), gaps, name)
<1>1. name \in Name /\ Len(name) <= MaxJumps
  BY DEF FitName
<1>2. PICK v \in Packer :
         /\ v = writeName(h, name) /\ v.ok = h.ok /\ Findable(v, gaps)
         /\ \E more \in Seq(Octet) : v.buf = h.buf \o more
         /\ \A msg \in Seq(Octet) :
               Agree(msg, v.buf, gaps) =>
                  readName(msg, Len(h.buf)) = [ok |-> TRUE, name |-> name, next |-> Len(v.buf)]
  BY <1>1, NameRoundTrip
<1>3. PICK a \in Seq(Octet) : a = h.buf /\ Len(a) \in Nat
  BY BufferIs
<1>4. PICK more \in Seq(Octet) : v.buf = a \o more
  BY <1>2, <1>3
<1>5. Len(v.buf) = Len(a) + Len(more) /\ Len(more) \in Nat /\ v.buf \in Seq(Octet)
  BY <1>4, ConcatIs
<1>6. Before(gaps, v.buf)
  BY <1>3, <1>5 DEF Before
<1>7. Len(more) \in Nat \ {0}
  <2>1. Agree(v.buf, v.buf, gaps)
    BY <1>5 DEF Agree
  <2>2. PICK p \in Nat, e \in Nat : p = Len(a) /\ e = Len(v.buf)
    BY <1>3, <1>5
  <2>3. readName(v.buf, p) = [ok |-> TRUE, name |-> name, next |-> e]
    BY <1>2, <1>3, <1>5, <2>1, <2>2
  <2>4. PICK r : r = readName(v.buf, p) /\ r.ok /\ r.next = e
    BY <2>3
  <2>5. \/ r = Refused
        \/ \E s \in Name, next \in p + 1 .. Len(v.buf) : r = [ok |-> TRUE, name |-> s, next |-> next]
    BY <1>5, <2>4, ReadNameInside
  <2>6. r # Refused
    BY <2>4 DEF Refused
  <2>7. e \in p + 1 .. Len(v.buf)
    <3>1. PICK s \in Name, next \in p + 1 .. Len(v.buf) : r = [ok |-> TRUE, name |-> s, next |-> next]
      BY <2>5, <2>6
    <3>2. r.next = next
      BY <3>1
    <3> QED
      BY <2>4, <3>2
  <2> QED
    BY <1>3, <1>5, <2>2, <2>7
<1>8. ASSUME NEW msg \in Seq(Octet), Agree(msg, v.buf, gaps) PROVE Agree(msg, a, gaps)
  BY <1>4, <1>8, AgreePrefix
<1> QED
  BY <1>2, <1>3, <1>4, <1>6, <1>7, <1>8 DEF NameWritten

\* RDATA has been written by h, up to full, and is read as it is to be received.
RDataBack(h, full, gaps, rr) ==
    /\ full \in Packer /\ Findable(full, gaps)
    /\ \E more \in Seq(Octet) : full.buf = h.buf \o more
    /\ \A msg \in Seq(Octet) :
          Agree(msg, full.buf, gaps) =>
             UnpackedAs(Received(rr), Headed(rr), msg, Len(h.buf), Len(full.buf) - Len(h.buf))

LEMMA PlainBack ==
    ASSUME NEW h \in Packer, NEW gaps, Before(gaps, h.buf), Findable(h, gaps),
           NEW b \in Seq(Octet), NEW rr,
           \A msg \in Seq(Octet), p \in Nat :
              Holds(msg, p, b) => UnpackedAs(Received(rr), Headed(rr), msg, p, Len(b))
    PROVE  RDataBack(h, Put(h, b), gaps, rr)
<1>1. PICK v \in Packer :
         /\ v = Put(h, b) /\ v.buf = h.buf \o b /\ Findable(v, gaps)
         /\ Len(v.buf) - Len(h.buf) = Len(b)
         /\ \A msg \in Seq(Octet) : Agree(msg, v.buf, gaps) => Holds(msg, Len(h.buf), b)
  BY PutPart
<1>2. PICK p \in Nat : p = Len(h.buf)
  BY BufferIs
<1>3. ASSUME NEW msg \in Seq(Octet), Agree(msg, v.buf, gaps)
      PROVE  UnpackedAs(Received(rr), Headed(rr), msg, Len(h.buf), Len(v.buf) - Len(h.buf))
  <2>1. Holds(msg, p, b)
    BY <1>1, <1>2, <1>3
  <2>2. UnpackedAs(Received(rr), Headed(rr), msg, p, Len(b))
    BY <2>1
  <2> QED
    BY <1>1, <1>2, <2>2
<1> QED
  BY <1>1, <1>3 DEF RDataBack

LEMMA HeadedWith ==
    ASSUME NEW rr, NEW v, NEW u
    PROVE  /\ Headed(rr).type = rr.type
           /\ [Headed(rr) EXCEPT !.ip = v] =
                 Rec(rr.name, rr.type, rr.class, rr.ttl, rr.flush,
                     v, <<>>, <<0, 0, 0>>, <<>>, <<>>, {}, <<>>)
           /\ [Headed(rr) EXCEPT !.target = v] =
                 Rec(rr.name, rr.type, rr.class, rr.ttl, rr.flush,
                     <<>>, v, <<0, 0, 0>>, <<>>, <<>>, {}, <<>>)
           /\ [Headed(rr) EXCEPT !.text = v] =
                 Rec(rr.name, rr.type, rr.class, rr.ttl, rr.flush,
                     <<>>, <<>>, <<0, 0, 0>>, v, <<>>, {}, <<>>)
           /\ [Headed(rr) EXCEPT !.next = v, !.types = u] =
                 Rec(rr.name, rr.type, rr.class, rr.ttl, rr.flush,
                     <<>>, <<>>, <<0, 0, 0>>, <<>>, v, u, <<>>)
           /\ [Headed(rr) EXCEPT !.raw = v] =
                 Rec(rr.name, rr.type, rr.class, rr.ttl, rr.flush,
                     <<>>, <<>>, <<0, 0, 0>>, <<>>, <<>>, {}, v)
<1>a. PICK n, t, c, l, f : n = rr.name /\ t = rr.type /\ c = rr.class /\ l = rr.ttl /\ f = rr.flush
  OBVIOUS
<1>b. PICK z, o, y : z = <<0, 0, 0>> /\ o = <<>> /\ y = {}
  OBVIOUS
<1>1. Headed(rr) = Rec(n, t, c, l, f, o, o, z, o, o, y, o)
  BY <1>a, <1>b DEF Headed
<1>c. PICK r : r = Headed(rr)
  OBVIOUS
<1>2. r.type = t
  BY <1>1, <1>c DEF Rec
<1>3. [r EXCEPT !.ip = v] = Rec(n, t, c, l, f, v, o, z, o, o, y, o)
  <2>1. [Rec(n, t, c, l, f, o, o, z, o, o, y, o) EXCEPT !.ip = v] =
           Rec(n, t, c, l, f, v, o, z, o, o, y, o)
    BY DEF Rec
  <2> QED
    BY <1>1, <1>c, <2>1, Zenon
<1>4. [r EXCEPT !.target = v] = Rec(n, t, c, l, f, o, v, z, o, o, y, o)
  <2>1. [Rec(n, t, c, l, f, o, o, z, o, o, y, o) EXCEPT !.target = v] =
           Rec(n, t, c, l, f, o, v, z, o, o, y, o)
    BY DEF Rec
  <2> QED
    BY <1>1, <1>c, <2>1, Zenon
<1>6. [r EXCEPT !.text = v] = Rec(n, t, c, l, f, o, o, z, v, o, y, o)
  <2>1. [Rec(n, t, c, l, f, o, o, z, o, o, y, o) EXCEPT !.text = v] =
           Rec(n, t, c, l, f, o, o, z, v, o, y, o)
    BY DEF Rec
  <2> QED
    BY <1>1, <1>c, <2>1, Zenon
<1>7. [r EXCEPT !.next = v, !.types = u] = Rec(n, t, c, l, f, o, o, z, o, v, u, o)
  <2>1. [r EXCEPT !.next = v, !.types = u] = [[r EXCEPT !.next = v] EXCEPT !.types = u]
    BY Zenon
  <2>2. [Rec(n, t, c, l, f, o, o, z, o, o, y, o) EXCEPT !.next = v] =
           Rec(n, t, c, l, f, o, o, z, o, v, y, o)
    BY DEF Rec
  <2>3. [Rec(n, t, c, l, f, o, o, z, o, v, y, o) EXCEPT !.types = u] =
           Rec(n, t, c, l, f, o, o, z, o, v, u, o)
    BY DEF Rec
  <2> QED
    BY <1>1, <1>c, <2>1, <2>2, <2>3, Zenon
<1>8. [r EXCEPT !.raw = v] = Rec(n, t, c, l, f, o, o, z, o, o, y, v)
  <2>1. [Rec(n, t, c, l, f, o, o, z, o, o, y, o) EXCEPT !.raw = v] =
           Rec(n, t, c, l, f, o, o, z, o, o, y, v)
    BY DEF Rec
  <2> QED
    BY <1>1, <1>c, <2>1, Zenon
<1> QED
  BY <1>a, <1>b, <1>c, <1>2, <1>3, <1>4, <1>6, <1>7, <1>8, Zenon

LEMMA HeadedService ==
    \A rr, v, u : [Headed(rr) EXCEPT !.target = v, !.srv = u] =
                     Rec(rr.name, rr.type, rr.class, rr.ttl, rr.flush,
                         <<>>, v, u, <<>>, <<>>, {}, <<>>)
<1> SUFFICES ASSUME NEW rr, NEW v, NEW u
             PROVE  [Headed(rr) EXCEPT !.target = v, !.srv = u] =
                       Rec(rr.name, rr.type, rr.class, rr.ttl, rr.flush,
                           <<>>, v, u, <<>>, <<>>, {}, <<>>)
  OBVIOUS
<1>a. PICK n, t, c, l, f : n = rr.name /\ t = rr.type /\ c = rr.class /\ l = rr.ttl /\ f = rr.flush
  OBVIOUS
<1>b. PICK z, o, y : z = <<0, 0, 0>> /\ o = <<>> /\ y = {}
  OBVIOUS
<1>1. Headed(rr) = Rec(n, t, c, l, f, o, o, z, o, o, y, o)
  BY <1>a, <1>b DEF Headed
<1>c. PICK r : r = Headed(rr)
  OBVIOUS
<1>2. [r EXCEPT !.target = v, !.srv = u] = [[r EXCEPT !.target = v] EXCEPT !.srv = u]
  BY Zenon
<1>3. [Rec(n, t, c, l, f, o, o, z, o, o, y, o) EXCEPT !.target = v] =
         Rec(n, t, c, l, f, o, v, z, o, o, y, o)
  BY DEF Rec
<1>4. [Rec(n, t, c, l, f, o, v, z, o, o, y, o) EXCEPT !.srv = u] =
         Rec(n, t, c, l, f, o, v, u, o, o, y, o)
  BY DEF Rec
<1>5. [r EXCEPT !.target = v, !.srv = u] = Rec(n, t, c, l, f, o, v, u, o, o, y, o)
  BY <1>1, <1>c, <1>2, <1>3, <1>4, Zenon
<1> QED
  BY <1>a, <1>b, <1>c, <1>5, Zenon

\* A record that can be packed, and where its RDATA goes.
Ready(h, gaps, rr) ==
    /\ h \in Packer /\ h.ok /\ Before(gaps, h.buf) /\ Findable(h, gaps)
    /\ Fits(rr) /\ packRDATA(h, rr) # Fail(h)

LEMMA OctetsTo ==
    ASSUME NEW n \in Nat, NEW f \in [1 .. n -> Octet]
    PROVE  f \in Seq(Octet) /\ Len(f) = n
  OBVIOUS

LEMMA AddressOctets ==
    ASSUME NEW ip \in Seq(Octet)
    PROVE  To4(ip) \in Seq(Octet) /\ To16(ip) \in Seq(Octet)
<1>1. Len(ip) = 16 => SubSeq(ip, 13, 16) \in Seq(Octet)
  <2>1. PICK i \in Nat \ {0}, j \in Nat : i = 13 /\ j = 16
    OBVIOUS
  <2>2. j <= Len(ip) => SubSeq(ip, i, j) \in Seq(Octet)
    BY SubSeqOctets
  <2> QED
    BY <2>1, <2>2
<1>2. Mapped \in Seq(Octet)
  <2>1. 0 \in Octet /\ 255 \in Octet
    BY SMT DEF Octet
  <2>2. PICK n \in Nat : n = 12
    OBVIOUS
  <2>3. Mapped \in [1 .. n -> Octet]
    BY <2>1, <2>2, SMT DEF Mapped
  <2> QED
    BY <2>3, OctetsTo
<1>3. Mapped \o ip \in Seq(Octet)
  BY <1>2, ConcatIs
<1> QED
  BY <1>1, <1>3 DEF To4, To16

LEMMA AddressBack ==
    ASSUME NEW h, NEW gaps, NEW rr, Ready(h, gaps, rr), rr.type \in {TypeA, TypeAAAA}
    PROVE  RDataBack(h, packRDATA(h, rr), gaps, rr)
<1>1. /\ h \in Packer /\ h.ok /\ Before(gaps, h.buf) /\ Findable(h, gaps)
      /\ Fits(rr) /\ packRDATA(h, rr) # Fail(h)
  BY DEF Ready
<1>2. PICK b \in Seq(Octet) :
         /\ b = ReceivedIp(rr) /\ packRDATA(h, rr) = Put(h, b)
         /\ \/ rr.type = TypeA /\ Len(b) = 4
            \/ rr.type = TypeAAAA /\ Len(b) = 16
  <2>1. To4(rr.ip) \in Seq(Octet) /\ To16(rr.ip) \in Seq(Octet)
    BY <1>1, FitsIs, AddressOctets
  <2>3. CASE rr.type = TypeA
    <3>1. packRDATA(h, rr) = IF Len(To4(rr.ip)) = 4 THEN Put(h, To4(rr.ip)) ELSE Fail(h)
      BY <2>3, OneType DEF packRDATA
    <3>2. ReceivedIp(rr) = To4(rr.ip)
      BY <2>3, OneType DEF ReceivedIp
    <3>3. Len(To4(rr.ip)) = 4
      BY <1>1, <3>1
    <3> QED
      BY <2>1, <2>3, <3>1, <3>2, <3>3
  <2>4. CASE rr.type = TypeAAAA
    <3>1. packRDATA(h, rr) = IF Len(To16(rr.ip)) = 16 THEN Put(h, To16(rr.ip)) ELSE Fail(h)
      BY <2>4, OneType DEF packRDATA
    <3>2. ReceivedIp(rr) = To16(rr.ip)
      BY <2>4, OneType DEF ReceivedIp
    <3>3. Len(To16(rr.ip)) = 16
      BY <1>1, <3>1
    <3> QED
      BY <2>1, <2>4, <3>1, <3>2, <3>3
  <2> QED
    BY <2>3, <2>4
<1>3. Received(rr) = [Headed(rr) EXCEPT !.ip = b]
  <2>1. rr.type \notin NameTypes \cup {TypeSRV, TypeTXT, TypeNSEC}
    BY OneType
  <2>2. /\ rr.target = <<>> /\ rr.srv = <<0, 0, 0>> /\ rr.text = <<>> /\ rr.next = <<>>
        /\ rr.types = {} /\ rr.raw = <<>>
    BY <1>1, <2>1 DEF Fits, Known
  <2>3. ReceivedText(rr) = <<>> /\ Tellable(rr.types) = {}
    BY <2>1, <2>2 DEF ReceivedText, Tellable
  <2>4. Received(rr) = Rec(rr.name, rr.type, rr.class, rr.ttl, rr.flush, b, <<>>, <<0, 0, 0>>, <<>>, <<>>, {}, <<>>)
    BY <1>1, <1>2, <2>1, <2>2, <2>3, ReceivedIs
  <2>5. [Headed(rr) EXCEPT !.ip = b] =
           Rec(rr.name, rr.type, rr.class, rr.ttl, rr.flush, b, <<>>, <<0, 0, 0>>, <<>>, <<>>, {}, <<>>)
    BY HeadedWith
  <2> QED
    BY <2>4, <2>5
<1>4. ASSUME NEW msg \in Seq(Octet), NEW p \in Nat, Holds(msg, p, b)
      PROVE  UnpackedAs(Received(rr), Headed(rr), msg, p, Len(b))
  <2>1. SubSeq(msg, p + 1, p + Len(b)) = b
    BY <1>4, HoldsSubSeq
  <2>2. ~(p + Len(b) > Len(msg))
    BY <1>4 DEF Holds
  <2>3. PICK r : r = Headed(rr) /\ r.type = rr.type
    BY HeadedWith
  <2>4. UnpackedAs([r EXCEPT !.ip = SubSeq(msg, p + 1, p + Len(b))], r, msg, p, Len(b))
    BY <1>2, <2>2, <2>3, UnpackAddress
  <2> QED
    BY <1>3, <2>1, <2>3, <2>4
<1> QED
  BY <1>1, <1>2, <1>4, PlainBack

LEMMA RawBack ==
    ASSUME NEW h, NEW gaps, NEW rr, Ready(h, gaps, rr), rr.type \notin Known
    PROVE  RDataBack(h, packRDATA(h, rr), gaps, rr)
<1>1. /\ h \in Packer /\ h.ok /\ Before(gaps, h.buf) /\ Findable(h, gaps)
      /\ Fits(rr) /\ packRDATA(h, rr) # Fail(h)
  BY DEF Ready
<1>2. PICK b \in Seq(Octet) : b = rr.raw /\ packRDATA(h, rr) = Put(h, b)
  <2>1. rr.raw \in Seq(Octet)
    BY <1>1, FitsIs
  <2>2. packRDATA(h, rr) = Put(h, rr.raw)
    BY DEF packRDATA, Known
  <2> QED
    BY <2>1, <2>2
<1>3. Received(rr) = [Headed(rr) EXCEPT !.raw = b]
  <2>1. /\ rr.ip = <<>> /\ rr.target = <<>> /\ rr.srv = <<0, 0, 0>> /\ rr.text = <<>>
        /\ rr.next = <<>> /\ rr.types = {}
    BY <1>1 DEF Fits, Known
  <2>2. ReceivedIp(rr) = <<>> /\ ReceivedText(rr) = <<>> /\ Tellable(rr.types) = {}
    BY <2>1 DEF ReceivedIp, ReceivedText, Tellable, Known
  <2>4. Received(rr) = Rec(rr.name, rr.type, rr.class, rr.ttl, rr.flush, <<>>, <<>>, <<0, 0, 0>>, <<>>, <<>>, {}, b)
    BY <1>1, <1>2, <2>1, <2>2, ReceivedIs
  <2>5. [Headed(rr) EXCEPT !.raw = b] =
           Rec(rr.name, rr.type, rr.class, rr.ttl, rr.flush, <<>>, <<>>, <<0, 0, 0>>, <<>>, <<>>, {}, b)
    BY HeadedWith
  <2> QED
    BY <2>4, <2>5
<1>4. ASSUME NEW msg \in Seq(Octet), NEW p \in Nat, Holds(msg, p, b)
      PROVE  UnpackedAs(Received(rr), Headed(rr), msg, p, Len(b))
  <2>1. SubSeq(msg, p + 1, p + Len(b)) = b
    BY <1>4, HoldsSubSeq
  <2>2. ~(p + Len(b) > Len(msg))
    BY <1>4 DEF Holds
  <2>3. PICK r : r = Headed(rr) /\ r.type = rr.type
    BY HeadedWith
  <2>4. UnpackedAs([r EXCEPT !.raw = SubSeq(msg, p + 1, p + Len(b))], r, msg, p, Len(b))
    BY <2>2, <2>3, UnpackRaw
  <2> QED
    BY <1>3, <2>1, <2>3, <2>4
<1> QED
  BY <1>1, <1>2, <1>4, PlainBack

LEMMA TextBack ==
    ASSUME NEW h, NEW gaps, NEW rr, Ready(h, gaps, rr), rr.type = TypeTXT
    PROVE  RDataBack(h, packRDATA(h, rr), gaps, rr)
<1>1. /\ h \in Packer /\ h.ok /\ Before(gaps, h.buf) /\ Findable(h, gaps)
      /\ Fits(rr) /\ packRDATA(h, rr) # Fail(h)
  BY DEF Ready
<1>2. rr.text \in Seq(Seq(Octet))
  BY <1>1, FitsIs
<1>3. PICK text \in Seq(Seq(Octet)) :
         /\ text = ReceivedText(rr) /\ \A i \in 1 .. Len(text) : Len(text[i]) <= MaxString
         /\ packRDATA(h, rr) = Put(h, writeStrings(text))
  <2>1. packRDATA(h, rr) =
           CASE rr.text = <<>> -> Put(h, <<0>>)
             [] \E i \in DOMAIN rr.text : Len(rr.text[i]) > MaxString -> Fail(h)
             [] OTHER -> Put(h, writeStrings(rr.text))
    BY OneType DEF packRDATA
  <2>2. CASE rr.text = <<>>
    <3>1. DOMAIN rr.text = {}
      BY <2>2
    <3>2. packRDATA(h, rr) = Put(h, <<0>>)
      BY <2>1, <2>2, <3>1
    <3>3. PICK one : one = << <<>> >>
      OBVIOUS
    <3>4. one \in Seq(Seq(Octet)) /\ Len(one) = 1 /\ one[1] = <<>> /\ Len(one[1]) = 0
      BY <3>3
    <3>5. writeStrings(one) = <<0>>
      <4>1. PICK f : /\ f[0] = <<>>
                     /\ \A k \in 1 .. Len(one) : f[k] = f[k - 1] \o (<<Len(one[k])>> \o one[k])
                     /\ writeStrings(one) = f[Len(one)]
        BY <3>4, WriteStringsIs
      <4>2. 1 \in 1 .. Len(one) /\ 1 - 1 = 0
        BY <3>4
      <4>3. f[1] = <<>> \o (<<0>> \o <<>>)
        BY <3>4, <4>1, <4>2
      <4>4. <<>> \o (<<0>> \o <<>>) = <<0>>
        OBVIOUS
      <4> QED
        BY <3>4, <4>1, <4>3, <4>4
    <3>6. ReceivedText(rr) = one
      BY <2>2, <3>3 DEF ReceivedText
    <3>7. \A i \in 1 .. Len(one) : Len(one[i]) <= MaxString
      <4>1. 0 <= MaxString
        BY CodecAssumption
      <4>2. \A i \in 1 .. Len(one) : i = 1
        BY <3>4
      <4> QED
        BY <3>4, <4>1, <4>2
    <3> QED
      BY <3>2, <3>4, <3>5, <3>6, <3>7
  <2>3. CASE rr.text # <<>>
    <3>2. ~\E i \in DOMAIN rr.text : Len(rr.text[i]) > MaxString
      BY <1>1, <2>1, <2>3
    <3>3. packRDATA(h, rr) = Put(h, writeStrings(rr.text))
      BY <2>1, <2>3, <3>2
    <3>4. ReceivedText(rr) = rr.text
      BY <2>3 DEF ReceivedText
    <3>5. ASSUME NEW i \in 1 .. Len(rr.text) PROVE Len(rr.text[i]) <= MaxString
      <4>1. i \in DOMAIN rr.text /\ rr.text[i] \in Seq(Octet)
        BY <1>2
      <4>2. Len(rr.text[i]) \in Nat /\ MaxString \in Nat
        BY <4>1, CodecAssumption
      <4>3. ~(Len(rr.text[i]) > MaxString)
        BY <3>2, <4>1
      <4> QED
        BY <4>2, <4>3
    <3> QED
      BY <1>2, <3>3, <3>4, <3>5
  <2> QED
    BY <2>2, <2>3
<1>4. PICK b \in Seq(Octet) :
         /\ b = writeStrings(text)
         /\ \A msg \in Seq(Octet), p \in Nat :
               Holds(msg, p, b) => readStrings(msg, p, p + Len(b)) = Got(p + Len(b), text, "read")
  BY <1>3, TextRoundTrip
<1>5. Received(rr) = [Headed(rr) EXCEPT !.text = text]
  <2>1. rr.type \notin NameTypes \cup {TypeA, TypeAAAA, TypeSRV, TypeNSEC}
    BY OneType
  <2>2. /\ rr.ip = <<>> /\ rr.target = <<>> /\ rr.srv = <<0, 0, 0>> /\ rr.next = <<>>
        /\ rr.types = {} /\ rr.raw = <<>>
    BY <1>1, <2>1 DEF Fits, Known
  <2>3. ReceivedIp(rr) = <<>> /\ Tellable(rr.types) = {}
    BY <2>1, <2>2 DEF ReceivedIp, Tellable
  <2>4. Received(rr) = Rec(rr.name, rr.type, rr.class, rr.ttl, rr.flush,
                           <<>>, <<>>, <<0, 0, 0>>, text, <<>>, {}, <<>>)
    BY <1>1, <1>3, <2>2, <2>3, ReceivedIs
  <2>5. [Headed(rr) EXCEPT !.text = text] =
           Rec(rr.name, rr.type, rr.class, rr.ttl, rr.flush,
               <<>>, <<>>, <<0, 0, 0>>, text, <<>>, {}, <<>>)
    BY HeadedWith
  <2> QED
    BY <2>4, <2>5
<1>6. ASSUME NEW msg \in Seq(Octet), NEW p \in Nat, Holds(msg, p, b)
      PROVE  UnpackedAs(Received(rr), Headed(rr), msg, p, Len(b))
  <2>1. readStrings(msg, p, p + Len(b)) = Got(p + Len(b), text, "read")
    BY <1>4, <1>6
  <2>2. ~(p + Len(b) > Len(msg))
    BY <1>6 DEF Holds
  <2>3. PICK r : r = Headed(rr) /\ r.type = rr.type
    BY HeadedWith
  <2>4. UnpackedAs([r EXCEPT !.text = text], r, msg, p, Len(b))
    BY <2>1, <2>2, <2>3, UnpackText
  <2> QED
    BY <1>5, <2>3, <2>4
<1> QED
  BY <1>1, <1>3, <1>4, <1>6, PlainBack

\* RDATA that is a name, in the four types that have one.
LEMMA TargetBack ==
    ASSUME NEW h, NEW gaps, NEW rr, Ready(h, gaps, rr), rr.type \in NameTypes
    PROVE  RDataBack(h, packRDATA(h, rr), gaps, rr)
<1>1. /\ h \in Packer /\ h.ok /\ Before(gaps, h.buf) /\ Findable(h, gaps)
      /\ Fits(rr) /\ packRDATA(h, rr) # Fail(h)
  BY DEF Ready
<1>2. PICK name \in FitName : name = rr.target /\ packRDATA(h, rr) = writeName(h, name)
  <2>1. rr.target \in FitName
    BY <1>1, FitsIs
  <2>2. packRDATA(h, rr) = writeName(h, rr.target)
    BY OneType DEF packRDATA
  <2> QED
    BY <2>1, <2>2
<1>3. PICK v \in Packer :
         /\ v = writeName(h, name) /\ Findable(v, gaps)
         /\ \E more \in Seq(Octet) : v.buf = h.buf \o more
         /\ \A msg \in Seq(Octet) :
               Agree(msg, v.buf, gaps) =>
                  readName(msg, Len(h.buf)) = [ok |-> TRUE, name |-> name, next |-> Len(v.buf)]
  <2>1. NameWritten(h, writeName(h, name), gaps, name)
    BY <1>1, NamePart
  <2> QED
    BY <2>1 DEF NameWritten
<1>4. Received(rr) = [Headed(rr) EXCEPT !.target = name]
  <2>1. rr.type \notin {TypeA, TypeAAAA, TypeSRV, TypeTXT, TypeNSEC}
    BY OneType
  <2>2. /\ rr.ip = <<>> /\ rr.srv = <<0, 0, 0>> /\ rr.text = <<>> /\ rr.next = <<>>
        /\ rr.types = {} /\ rr.raw = <<>>
    BY <1>1, <2>1 DEF Fits, Known
  <2>3. ReceivedIp(rr) = <<>> /\ ReceivedText(rr) = <<>> /\ Tellable(rr.types) = {}
    BY <2>1, <2>2 DEF ReceivedIp, ReceivedText, Tellable
  <2>4. Received(rr) = Rec(rr.name, rr.type, rr.class, rr.ttl, rr.flush,
                           <<>>, name, <<0, 0, 0>>, <<>>, <<>>, {}, <<>>)
    BY <1>1, <1>2, <2>2, <2>3, ReceivedIs
  <2>5. [Headed(rr) EXCEPT !.target = name] =
           Rec(rr.name, rr.type, rr.class, rr.ttl, rr.flush,
               <<>>, name, <<0, 0, 0>>, <<>>, <<>>, {}, <<>>)
    BY HeadedWith
  <2> QED
    BY <2>4, <2>5
<1>5. ASSUME NEW msg \in Seq(Octet), Agree(msg, v.buf, gaps)
      PROVE  UnpackedAs(Received(rr), Headed(rr), msg, Len(h.buf), Len(v.buf) - Len(h.buf))
  <2>1. PICK p \in Nat, n \in Nat : p = Len(h.buf) /\ n = Len(v.buf)
    BY <1>1, BufferIs
  <2>2. readName(msg, p) = [ok |-> TRUE, name |-> name, next |-> n]
    BY <1>3, <1>5, <2>1
  <2>3. ~(p + (n - p) > Len(msg))
    BY <1>5, <2>1 DEF Agree
  <2>4. PICK r : r = Headed(rr) /\ r.type = rr.type
    BY HeadedWith
  <2>5. PICK d : d = n - p
    OBVIOUS
  <2>6. UnpackedAs([r EXCEPT !.target = name], r, msg, p, d)
    <3>1. ~(p + d > Len(msg)) /\ r.type \in NameTypes
      BY <2>3, <2>4, <2>5, SMTT(60)
    <3> QED
      BY <2>2, <3>1, UnpackTarget
  <2> QED
    BY <1>4, <2>1, <2>4, <2>5, <2>6
<1> QED
  BY <1>2, <1>3, <1>5 DEF RDataBack

LEMMA UpTo ==
    ASSUME NEW m \in Nat, NEW n \in 0 .. m
    PROVE  n \in Nat /\ n <= m
  OBVIOUS

LEMMA UpToBelow == \A m \in Nat, n \in Nat : n <= m => n < m + 1
  OBVIOUS

LEMMA IsWide16 ==
    ASSUME NEW n \in Number16
    PROVE  Wide16(n)
<1>1. 65535 \in Nat /\ 65535 + 1 = 65536
  BY SMT
<1>2. n \in Nat /\ n <= 65535
  BY <1>1, UpTo DEF Number16
<1>3. n < 65535 + 1
  BY <1>1, <1>2, UpToBelow, SMTT(60)
<1> QED
  BY <1>1, <1>2, <1>3 DEF Wide16

LEMMA ThreeNumbers ==
    ASSUME NEW s \in [1 .. 3 -> Number16]
    PROVE  \E b \in Seq(Octet) :
              /\ b = U16(s[1]) \o U16(s[2]) \o U16(s[3]) /\ Len(b) = 6
              /\ \A msg \in Seq(Octet), p \in Nat :
                    Holds(msg, p, b) => SrvAt(msg, p) = s
<1>1. s[1] \in Number16 /\ s[2] \in Number16 /\ s[3] \in Number16
  BY SMT
<1>2. PICK x \in Number16, y \in Number16, z \in Number16 : x = s[1] /\ y = s[2] /\ z = s[3]
  BY <1>1
<1>3. PICK a \in Seq(Octet) :
         /\ a = U16(x) /\ Len(a) = 2
         /\ \A msg \in Seq(Octet), p \in Nat : Holds(msg, p, a) => Uint16(msg, p) = x
  BY IsWide16, U16Parts
<1>4. PICK b \in Seq(Octet) :
         /\ b = U16(y) /\ Len(b) = 2
         /\ \A msg \in Seq(Octet), p \in Nat : Holds(msg, p, b) => Uint16(msg, p) = y
  BY IsWide16, U16Parts
<1>5. PICK c \in Seq(Octet) :
         /\ c = U16(z) /\ Len(c) = 2
         /\ \A msg \in Seq(Octet), p \in Nat : Holds(msg, p, c) => Uint16(msg, p) = z
  BY IsWide16, U16Parts
<1>6. PICK d \in Seq(Octet) : d = a \o b /\ Len(d) = 4
  <2>1. a \o b \in Seq(Octet) /\ Len(a \o b) = Len(a) + Len(b)
    BY ConcatIs
  <2>2. Len(a) = 2 /\ Len(b) = 2 /\ 2 + 2 = 4
    BY <1>3, <1>4
  <2> QED
    BY <2>1, <2>2, Zenon
<1>7. PICK e \in Seq(Octet) : e = d \o c /\ Len(e) = 6
  <2>1. d \o c \in Seq(Octet) /\ Len(d \o c) = Len(d) + Len(c)
    BY ConcatIs
  <2>2. Len(d) = 4 /\ Len(c) = 2 /\ 4 + 2 = 6
    BY <1>5, <1>6
  <2> QED
    BY <2>1, <2>2, Zenon
<1>8. e = U16(s[1]) \o U16(s[2]) \o U16(s[3])
  BY <1>2, <1>3, <1>4, <1>5, <1>6, <1>7
<1>9. ASSUME NEW msg \in Seq(Octet), NEW p \in Nat, Holds(msg, p, e)
      PROVE  SrvAt(msg, p) = s
  <2>1. Holds(msg, p, d) /\ Holds(msg, p + Len(d), c)
    BY <1>7, <1>9, HoldsParts
  <2>2. Holds(msg, p, a) /\ Holds(msg, p + Len(a), b)
    BY <1>6, <2>1, HoldsParts
  <2>3. p + 2 \in Nat /\ p + 4 \in Nat
    OBVIOUS
  <2>4. Uint16(msg, p) = x /\ Uint16(msg, p + 2) = y /\ Uint16(msg, p + 4) = z
    <3>1. Holds(msg, p + 2, b) /\ Holds(msg, p + 4, c)
      BY <1>3, <1>6, <2>1, <2>2
    <3> QED
      BY <1>3, <1>4, <1>5, <2>2, <2>3, <3>1
  <2>5. /\ p + 2 * (1 - 1) = p /\ p + 2 * (2 - 1) = p + 2 /\ p + 2 * (3 - 1) = p + 4
        /\ 1 .. 3 = {1, 2, 3}
    BY SMT
  <2>6. ASSUME NEW i \in 1 .. 3 PROVE Uint16(msg, p + 2 * (i - 1)) = s[i]
    <3>1. i = 1 \/ i = 2 \/ i = 3
      BY SMT
    <3>2. CASE i = 1
      BY <1>2, <2>4, <2>5, <3>2
    <3>3. CASE i = 2
      BY <1>2, <2>4, <2>5, <3>3
    <3>4. CASE i = 3
      BY <1>2, <2>4, <2>5, <3>4
    <3> QED
      BY <3>1, <3>2, <3>3, <3>4
  <2>7. s = [i \in 1 .. 3 |-> s[i]]
    OBVIOUS
  <2> QED
    BY <2>6, <2>7 DEF SrvAt
<1> QED
  BY <1>7, <1>8, <1>9

LEMMA Distance ==
    ASSUME NEW p \in Nat, NEW n \in Nat, NEW l \in Nat, n >= p + 7, n <= l, NEW d, d = n - p
    PROVE  ~(p + d > l) /\ ~(d < 7)
  OBVIOUS

LEMMA ServiceBack ==
    ASSUME NEW h, NEW gaps, NEW rr, Ready(h, gaps, rr), rr.type = TypeSRV
    PROVE  RDataBack(h, packRDATA(h, rr), gaps, rr)
<1>1. /\ h \in Packer /\ h.ok /\ Before(gaps, h.buf) /\ Findable(h, gaps)
      /\ Fits(rr) /\ packRDATA(h, rr) # Fail(h)
  BY DEF Ready
<1>2. PICK name \in FitName, s \in [1 .. 3 -> Number16] : name = rr.target /\ s = rr.srv
  BY <1>1, FitsIs
<1>3. PICK b \in Seq(Octet) :
         /\ b = U16(s[1]) \o U16(s[2]) \o U16(s[3]) /\ Len(b) = 6
         /\ \A msg \in Seq(Octet), p \in Nat :
               Holds(msg, p, b) => SrvAt(msg, p) = s
  BY ThreeNumbers
<1>4. packRDATA(h, rr) = writeName(Put(h, b), name)
  BY <1>2, <1>3, OneType DEF packRDATA
<1>5. PICK u \in Packer :
         /\ u = Put(h, b) /\ u.buf = h.buf \o b
         /\ Findable(u, gaps) /\ Before(gaps, u.buf)
         /\ Len(u.buf) = Len(h.buf) + Len(b)
         /\ \A msg \in Seq(Octet) :
               Agree(msg, u.buf, gaps) => Agree(msg, h.buf, gaps) /\ Holds(msg, Len(h.buf), b)
  BY <1>1, PutPart
<1>6. PICK v : v = packRDATA(h, rr)
  OBVIOUS
<1>7. NameWritten(u, v, gaps, name)
  BY <1>4, <1>5, <1>6, NamePart
<1>8. /\ v \in Packer /\ Findable(v, gaps)
      /\ \A msg \in Seq(Octet) :
            Agree(msg, v.buf, gaps) =>
               /\ Agree(msg, u.buf, gaps)
               /\ readName(msg, Len(u.buf)) = [ok |-> TRUE, name |-> name, next |-> Len(v.buf)]
  BY <1>7 DEF NameWritten
<1>9. PICK more \in Seq(Octet) : v.buf = u.buf \o more /\ Len(more) \in Nat \ {0}
  BY <1>7 DEF NameWritten
<1>10. PICK a \in Seq(Octet) : a = h.buf /\ Len(a) \in Nat
  BY <1>1, BufferIs
<1>11. v.buf = a \o (b \o more) /\ b \o more \in Seq(Octet)
  <2>1. b \o more \in Seq(Octet) /\ (a \o b) \o more = a \o (b \o more)
    BY ConcatAgain, ConcatIs
  <2>2. v.buf = (a \o b) \o more
    BY <1>5, <1>9, <1>10, Zenon
  <2> QED
    BY <2>1, <2>2, Zenon
<1>12. PICK n \in Nat : n = Len(v.buf) /\ n >= Len(a) + 7
  <2>1. PICK m \in Nat \ {0} : m = Len(more)
    BY <1>9
  <2>2. Len(v.buf) = Len(u.buf) + m /\ Len(u.buf) = Len(a) + 6
    <3>1. PICK c \in Seq(Octet) : c = u.buf
      BY <1>5, BufferIs
    <3>2. Len(c \o more) = Len(c) + Len(more)
      BY ConcatIs
    <3>3. Len(v.buf) = Len(u.buf) + m
      BY <1>9, <2>1, <3>1, <3>2, Zenon
    <3> QED
      BY <1>3, <1>5, <1>10, <3>3
  <2> QED
    BY <1>10, <2>1, <2>2
<1>13. Received(rr) = [Headed(rr) EXCEPT !.target = name, !.srv = s]
  <2>1. rr.type \notin NameTypes \cup {TypeA, TypeAAAA, TypeTXT, TypeNSEC}
    BY OneType
  <2>2. /\ rr.ip = <<>> /\ rr.text = <<>> /\ rr.next = <<>>
        /\ rr.types = {} /\ rr.raw = <<>>
    BY <1>1, <2>1 DEF Fits, Known
  <2>3. ReceivedIp(rr) = <<>> /\ ReceivedText(rr) = <<>> /\ Tellable(rr.types) = {}
    BY <2>1, <2>2 DEF ReceivedIp, ReceivedText, Tellable
  <2>4. Received(rr) = Rec(rr.name, rr.type, rr.class, rr.ttl, rr.flush,
                           <<>>, name, s, <<>>, <<>>, {}, <<>>)
    BY <1>1, <1>2, <2>2, <2>3, ReceivedIs
  <2>5. [Headed(rr) EXCEPT !.target = name, !.srv = s] =
           Rec(rr.name, rr.type, rr.class, rr.ttl, rr.flush,
               <<>>, name, s, <<>>, <<>>, {}, <<>>)
    BY HeadedService, Zenon
  <2> QED
    BY <2>4, <2>5
<1>14. ASSUME NEW msg \in Seq(Octet), Agree(msg, v.buf, gaps)
       PROVE  UnpackedAs(Received(rr), Headed(rr), msg, Len(h.buf), Len(v.buf) - Len(h.buf))
  <2>1. PICK p \in Nat : p = Len(h.buf) /\ n >= p + 7 /\ p + 6 = Len(u.buf)
    BY <1>3, <1>5, <1>10, <1>12
  <2>2. readName(msg, p + 6) = [ok |-> TRUE, name |-> name, next |-> n]
    BY <1>8, <1>12, <1>14, <2>1
  <2>3. Holds(msg, p, b)
    BY <1>5, <1>8, <1>14, <2>1
  <2>4. SrvAt(msg, p) = s
    BY <1>3, <2>3
  <2>5. PICK d : d = n - p /\ ~(p + d > Len(msg)) /\ ~(d < 7)
    <3>1. n <= Len(msg)
      BY <1>12, <1>14 DEF Agree
    <3>2. PICK l \in Nat : l = Len(msg)
      OBVIOUS
    <3>3. PICK d : d = n - p
      OBVIOUS
    <3>4. n \in Nat /\ n >= p + 7 /\ n <= l
      BY <1>12, <2>1, <3>1, <3>2
    <3>5. ~(p + d > l) /\ ~(d < 7)
      BY <3>3, <3>4, Distance
    <3> QED
      BY <3>2, <3>3, <3>5
  <2>6. PICK r : r = Headed(rr) /\ r.type = rr.type
    BY HeadedWith
  <2>7. UnpackedAs([r EXCEPT !.target = name, !.srv = SrvAt(msg, p)], r, msg, p, d)
    BY <2>2, <2>5, <2>6, UnpackService
  <2>8. UnpackedAs([r EXCEPT !.target = name, !.srv = s], r, msg, p, d)
    BY <2>4, <2>7
  <2> QED
    BY <1>12, <1>13, <2>1, <2>5, <2>6, <2>8
<1> QED
  BY <1>6, <1>8, <1>10, <1>11, <1>14 DEF RDataBack

LEMMA DenialBack ==
    ASSUME NEW h, NEW gaps, NEW rr, Ready(h, gaps, rr), rr.type = TypeNSEC
    PROVE  RDataBack(h, packRDATA(h, rr), gaps, rr)
<1>1. /\ h \in Packer /\ h.ok /\ Before(gaps, h.buf) /\ Findable(h, gaps)
      /\ Fits(rr) /\ packRDATA(h, rr) # Fail(h)
  BY DEF Ready
<1>2. PICK name \in FitName, types \in SUBSET Nat : name = rr.next /\ types = rr.types
  BY <1>1, FitsIs
<1>3. PICK b \in Seq(Octet) :
         /\ b = encodeTypeBitMaps(types)
         /\ \A msg \in Seq(Octet), p \in Nat :
               Holds(msg, p, b) =>
                  decodeTypeBitMaps(msg, p, p + Len(b)) = Got(p + Len(b), Tellable(types), "read")
  BY TypesRoundTrip
<1>4. packRDATA(h, rr) = Put(writeName(h, name), b)
  BY <1>2, <1>3, OneType DEF packRDATA
<1>5. PICK u : u = writeName(h, name)
  OBVIOUS
<1>6. NameWritten(h, u, gaps, name)
  BY <1>1, <1>5, NamePart
<1>7. /\ u \in Packer /\ Findable(u, gaps) /\ Before(gaps, u.buf)
      /\ \A msg \in Seq(Octet) :
            Agree(msg, u.buf, gaps) =>
               readName(msg, Len(h.buf)) = [ok |-> TRUE, name |-> name, next |-> Len(u.buf)]
  BY <1>6 DEF NameWritten
<1>8. PICK more \in Seq(Octet) : u.buf = h.buf \o more
  BY <1>6 DEF NameWritten
<1>9. PICK v \in Packer :
         /\ v = Put(u, b) /\ v.buf = u.buf \o b /\ Findable(v, gaps)
         /\ Len(v.buf) \in Nat /\ Len(v.buf) = Len(u.buf) + Len(b)
         /\ \A msg \in Seq(Octet) :
               Agree(msg, v.buf, gaps) => Agree(msg, u.buf, gaps) /\ Holds(msg, Len(u.buf), b)
  BY <1>7, PutPart
<1>10. PICK a \in Seq(Octet) : a = h.buf /\ Len(a) \in Nat
  BY <1>1, BufferIs
<1>11. v.buf = a \o (more \o b) /\ more \o b \in Seq(Octet)
  <2>1. more \o b \in Seq(Octet) /\ (a \o more) \o b = a \o (more \o b)
    BY ConcatAgain, ConcatIs
  <2>2. v.buf = (a \o more) \o b
    BY <1>8, <1>9, <1>10, Zenon
  <2> QED
    BY <2>1, <2>2, Zenon
<1>12. PICK told : told = Tellable(types)
  OBVIOUS
<1>13. Received(rr) = [Headed(rr) EXCEPT !.next = name, !.types = told]
  <2>1. rr.type \notin NameTypes \cup {TypeA, TypeAAAA, TypeSRV, TypeTXT}
    BY OneType
  <2>2. /\ rr.ip = <<>> /\ rr.target = <<>> /\ rr.srv = <<0, 0, 0>> /\ rr.text = <<>>
        /\ rr.raw = <<>>
    BY <1>1, <2>1 DEF Fits, Known
  <2>3. ReceivedIp(rr) = <<>> /\ ReceivedText(rr) = <<>>
    BY <2>1, <2>2 DEF ReceivedIp, ReceivedText
  <2>4. Received(rr) = Rec(rr.name, rr.type, rr.class, rr.ttl, rr.flush,
                           <<>>, <<>>, <<0, 0, 0>>, <<>>, name, told, <<>>)
    BY <1>1, <1>2, <1>12, <2>2, <2>3, ReceivedIs
  <2>5. [Headed(rr) EXCEPT !.next = name, !.types = told] =
           Rec(rr.name, rr.type, rr.class, rr.ttl, rr.flush,
               <<>>, <<>>, <<0, 0, 0>>, <<>>, name, told, <<>>)
    BY HeadedWith
  <2> QED
    BY <2>4, <2>5
<1>14. ASSUME NEW msg \in Seq(Octet), Agree(msg, v.buf, gaps)
       PROVE  UnpackedAs(Received(rr), Headed(rr), msg, Len(h.buf), Len(v.buf) - Len(h.buf))
  <2>1. PICK p \in Nat, m \in Nat, n \in Nat : p = Len(h.buf) /\ m = Len(u.buf) /\ n = Len(v.buf)
    BY <1>1, <1>7, <1>9, BufferIs
  <2>2. readName(msg, p) = [ok |-> TRUE, name |-> name, next |-> m]
    BY <1>7, <1>9, <1>14, <2>1
  <2>3. Holds(msg, m, b) /\ n = m + Len(b)
    BY <1>9, <1>14, <2>1
  <2>4. decodeTypeBitMaps(msg, m, n) = Got(n, told, "read")
    BY <1>3, <1>12, <2>3
  <2>5. PICK d : d = n - p /\ ~(p + d > Len(msg)) /\ p + d = n
    <3>1. n <= Len(msg)
      BY <1>14, <2>1 DEF Agree
    <3>2. Len(msg) \in Nat
      OBVIOUS
    <3> QED
      BY <3>1, <3>2
  <2>6. PICK r : r = Headed(rr) /\ r.type = rr.type
    BY HeadedWith
  <2>7. UnpackedAs([r EXCEPT !.next = name, !.types = told], r, msg, p, d)
    <3>1. decodeTypeBitMaps(msg, m, p + d) = Got(n, told, "read")
      BY <2>4, <2>5
    <3> QED
      BY <2>2, <2>5, <2>6, <3>1, UnpackDenial
  <2> QED
    BY <1>13, <2>1, <2>5, <2>6, <2>7
<1> QED
  BY <1>4, <1>5, <1>7, <1>9, <1>10, <1>11, <1>14 DEF RDataBack

\* RDATA of every type, as packRDATA writes it, is read back by unpackRDATA.
LEMMA RDataRoundTrip ==
    ASSUME NEW h, NEW gaps, NEW rr, Ready(h, gaps, rr)
    PROVE  RDataBack(h, packRDATA(h, rr), gaps, rr)
<1>1. CASE rr.type \in {TypeA, TypeAAAA}
  BY <1>1, AddressBack
<1>2. CASE rr.type \in NameTypes
  BY <1>2, TargetBack
<1>3. CASE rr.type \notin Known
  BY <1>3, RawBack
<1> QED
  BY <1>1, <1>2, <1>3, TextBack, ServiceBack, DenialBack DEF Known

-----------------------------------------------------------------------------
(* The fields before RDATA. *)

Class(rr) == rr.class + IF rr.flush THEN cacheFlushBit ELSE 0

LEMMA ClassNumbers ==
    ASSUME NEW c \in Number15
    PROVE  /\ Wide16(c + cacheFlushBit) /\ (c + cacheFlushBit) % cacheFlushBit = c
           /\ c + cacheFlushBit \in Nat /\ c + cacheFlushBit >= cacheFlushBit
           /\ Wide16(c + 0) /\ (c + 0) % cacheFlushBit = c
           /\ c + 0 \in Nat /\ ~(c + 0 >= cacheFlushBit)
  BY SMTT(60) DEF Number15, Wide16, cacheFlushBit

HasFlush(n) == n >= cacheFlushBit

LEMMA FlushBit ==
    ASSUME NEW d \in Nat
    PROVE  /\ d >= cacheFlushBit => HasFlush(d) = TRUE
           /\ ~(d >= cacheFlushBit) => HasFlush(d) = FALSE
  BY SMT DEF HasFlush, cacheFlushBit

LEMMA ClassIs ==
    ASSUME NEW rr, Fits(rr)
    PROVE  /\ Wide16(Class(rr)) /\ Class(rr) % cacheFlushBit = rr.class
           /\ HasFlush(Class(rr)) = rr.flush
<1>1. PICK c \in Number15 : c = rr.class
  BY FitsIs
<1>2. PICK f \in BOOLEAN : f = rr.flush
  BY FitsIs
<1>3. PICK d : d = Class(rr)
  OBVIOUS
<1>4. CASE f = TRUE
  <2>1. d = c + cacheFlushBit
    BY <1>1, <1>2, <1>3, <1>4, Zenon DEF Class
  <2>2. Wide16(d) /\ d % cacheFlushBit = c /\ d \in Nat /\ d >= cacheFlushBit
    BY <1>1, <2>1, ClassNumbers, Zenon
  <2>3. HasFlush(d) = TRUE
    BY <2>2, FlushBit, Zenon
  <2> QED
    BY <1>1, <1>2, <1>3, <1>4, <2>2, <2>3, Zenon
<1>5. CASE f = FALSE
  <2>1. d = c + 0
    BY <1>1, <1>2, <1>3, <1>5, Zenon DEF Class
  <2>2. Wide16(d) /\ d % cacheFlushBit = c /\ d \in Nat /\ ~(d >= cacheFlushBit)
    BY <1>1, <2>1, ClassNumbers, Zenon
  <2>3. HasFlush(d) = FALSE
    BY <2>2, FlushBit, Zenon
  <2> QED
    BY <1>1, <1>2, <1>3, <1>5, <2>2, <2>3, Zenon
<1> QED
  BY <1>2, <1>4, <1>5

\* The fields of the record at pos, as readRR finds them.
FixedRR(name, type, class, flush, ttl) ==
    [ZeroRR EXCEPT !.name = name, !.type = type, !.class = class, !.flush = flush, !.ttl = ttl]
FixedAt(msg, name, pos) ==
    FixedRR(name, Uint16(msg, pos), Uint16(msg, pos + 2) % cacheFlushBit,
            HasFlush(Uint16(msg, pos + 2)),
            65536 * Uint16(msg, pos + 4) + Uint16(msg, pos + 6))

LEMMA FixedIs ==
    ASSUME NEW name, NEW type, NEW class, NEW flush, NEW ttl
    PROVE  FixedRR(name, type, class, flush, ttl) =
              Rec(name, type, class, ttl, flush, <<>>, <<>>, <<0, 0, 0>>, <<>>, <<>>, {}, <<>>)
<1>1. PICK q, z, o, y, no : q = 0 /\ z = <<0, 0, 0>> /\ o = <<>> /\ y = {} /\ no = FALSE
  OBVIOUS
<1>2. ZeroRR = Rec(o, q, q, q, no, o, o, z, o, o, y, o)
  BY <1>1 DEF ZeroRR, Rec
<1>3. FixedRR(name, type, class, flush, ttl) =
         [[[[[ZeroRR EXCEPT !.name = name] EXCEPT !.type = type] EXCEPT !.class = class]
              EXCEPT !.flush = flush] EXCEPT !.ttl = ttl]
  BY Zenon DEF FixedRR
<1>4. PICK r1 : /\ r1 = [Rec(o, q, q, q, no, o, o, z, o, o, y, o) EXCEPT !.name = name]
                /\ r1 = Rec(name, q, q, q, no, o, o, z, o, o, y, o)
  <2>1. [Rec(o, q, q, q, no, o, o, z, o, o, y, o) EXCEPT !.name = name] =
           Rec(name, q, q, q, no, o, o, z, o, o, y, o)
    BY DEF Rec
  <2> QED
    BY <2>1
<1>5. PICK r2 : /\ r2 = [Rec(name, q, q, q, no, o, o, z, o, o, y, o) EXCEPT !.type = type]
                /\ r2 = Rec(name, type, q, q, no, o, o, z, o, o, y, o)
  <2>1. [Rec(name, q, q, q, no, o, o, z, o, o, y, o) EXCEPT !.type = type] =
           Rec(name, type, q, q, no, o, o, z, o, o, y, o)
    BY DEF Rec
  <2> QED
    BY <2>1
<1>6. PICK r3 : /\ r3 = [Rec(name, type, q, q, no, o, o, z, o, o, y, o) EXCEPT !.class = class]
                /\ r3 = Rec(name, type, class, q, no, o, o, z, o, o, y, o)
  <2>1. [Rec(name, type, q, q, no, o, o, z, o, o, y, o) EXCEPT !.class = class] =
           Rec(name, type, class, q, no, o, o, z, o, o, y, o)
    BY DEF Rec
  <2> QED
    BY <2>1
<1>7. PICK r4 : /\ r4 = [Rec(name, type, class, q, no, o, o, z, o, o, y, o) EXCEPT !.flush = flush]
                /\ r4 = Rec(name, type, class, q, flush, o, o, z, o, o, y, o)
  <2>1. [Rec(name, type, class, q, no, o, o, z, o, o, y, o) EXCEPT !.flush = flush] =
           Rec(name, type, class, q, flush, o, o, z, o, o, y, o)
    BY DEF Rec
  <2> QED
    BY <2>1
<1>8. PICK r5 : /\ r5 = [Rec(name, type, class, q, flush, o, o, z, o, o, y, o) EXCEPT !.ttl = ttl]
                /\ r5 = Rec(name, type, class, ttl, flush, o, o, z, o, o, y, o)
  <2>1. [Rec(name, type, class, q, flush, o, o, z, o, o, y, o) EXCEPT !.ttl = ttl] =
           Rec(name, type, class, ttl, flush, o, o, z, o, o, y, o)
    BY DEF Rec
  <2> QED
    BY <2>1
<1>9. r1 = [ZeroRR EXCEPT !.name = name]
  BY <1>2, <1>4, Zenon
<1>10. r2 = [r1 EXCEPT !.type = type]
  BY <1>4, <1>5, Zenon
<1>11. r3 = [r2 EXCEPT !.class = class]
  BY <1>5, <1>6, Zenon
<1>12. r4 = [r3 EXCEPT !.flush = flush]
  BY <1>6, <1>7, Zenon
<1>13. r5 = [r4 EXCEPT !.ttl = ttl]
  BY <1>7, <1>8, Zenon
<1>14. r5 = FixedRR(name, type, class, flush, ttl)
  BY <1>3, <1>9, <1>10, <1>11, <1>12, <1>13, Zenon
<1>15. r5 = Rec(name, type, class, ttl, flush, o, o, z, o, o, y, o)
  BY <1>8
<1> QED
  BY <1>1, <1>14, <1>15, Zenon

\* The octets of the fields between the name and RDLENGTH.
FixedOctets(rr) == U16(rr.type) \o U16(Class(rr)) \o U32(rr.ttl)

LEMMA FixedBack ==
    ASSUME NEW rr, Fits(rr)
    PROVE  \E b \in Seq(Octet) :
              /\ b = FixedOctets(rr) /\ Len(b) = 8
              /\ \A msg \in Seq(Octet), p \in Nat :
                    Holds(msg, p, b) => FixedAt(msg, rr.name, p) = Headed(rr)
<1>1. PICK t, c, l : t = rr.type /\ c = Class(rr) /\ l = rr.ttl
  OBVIOUS
<1>2. Wide16(t) /\ Wide16(c) /\ Wide32(l)
  BY <1>1, FitsIs, ClassIs, IsWide16
<1>3. PICK x \in Seq(Octet) :
         /\ x = U16(t) /\ Len(x) = 2
         /\ \A msg \in Seq(Octet), p \in Nat : Holds(msg, p, x) => Uint16(msg, p) = t
  BY <1>2, U16Parts
<1>4. PICK y \in Seq(Octet) :
         /\ y = U16(c) /\ Len(y) = 2
         /\ \A msg \in Seq(Octet), p \in Nat : Holds(msg, p, y) => Uint16(msg, p) = c
  BY <1>2, U16Parts
<1>5. PICK z \in Seq(Octet) :
         /\ z = U32(l) /\ Len(z) = 4
         /\ \A msg \in Seq(Octet), p \in Nat :
               Holds(msg, p, z) => 65536 * Uint16(msg, p) + Uint16(msg, p + 2) = l
  BY <1>2, U32Is
<1>6. PICK d \in Seq(Octet) : d = x \o y /\ Len(d) = 4
  <2>1. x \o y \in Seq(Octet) /\ Len(x \o y) = Len(x) + Len(y)
    BY ConcatIs
  <2>2. Len(x) = 2 /\ Len(y) = 2 /\ 2 + 2 = 4
    BY <1>3, <1>4
  <2> QED
    BY <2>1, <2>2, Zenon
<1>7. PICK e \in Seq(Octet) : e = d \o z /\ Len(e) = 8
  <2>1. d \o z \in Seq(Octet) /\ Len(d \o z) = Len(d) + Len(z)
    BY ConcatIs
  <2>2. Len(d) = 4 /\ Len(z) = 4 /\ 4 + 4 = 8
    BY <1>5, <1>6
  <2> QED
    BY <2>1, <2>2, Zenon
<1>8. e = FixedOctets(rr)
  <2>1. x = U16(rr.type) /\ y = U16(Class(rr)) /\ z = U32(rr.ttl) /\ e = (x \o y) \o z
    BY <1>1, <1>3, <1>4, <1>5, <1>6, <1>7
  <2> QED
    BY <2>1 DEF FixedOctets
<1>9. ASSUME NEW msg \in Seq(Octet), NEW p \in Nat, Holds(msg, p, e)
      PROVE  FixedAt(msg, rr.name, p) = Headed(rr)
  <2>1. Holds(msg, p, d) /\ Holds(msg, p + Len(d), z)
    BY <1>7, <1>9, HoldsParts
  <2>2. Holds(msg, p, x) /\ Holds(msg, p + Len(x), y)
    BY <1>6, <2>1, HoldsParts
  <2>3. p + 2 \in Nat /\ p + 4 \in Nat /\ (p + 4) + 2 = p + 6
    OBVIOUS
  <2>4. Holds(msg, p + 2, y) /\ Holds(msg, p + 4, z)
    BY <1>3, <1>6, <2>1, <2>2
  <2>5. Uint16(msg, p) = t /\ Uint16(msg, p + 2) = c
    BY <1>3, <1>4, <2>2, <2>3, <2>4
  <2>6. 65536 * Uint16(msg, p + 4) + Uint16(msg, p + 6) = l
    <3>1. 65536 * Uint16(msg, p + 4) + Uint16(msg, (p + 4) + 2) = l
      BY <1>5, <2>3, <2>4
    <3> QED
      BY <2>3, <3>1
  <2>7. c % cacheFlushBit = rr.class /\ HasFlush(c) = rr.flush
    BY <1>1, ClassIs
  <2>8. FixedAt(msg, rr.name, p) =
           FixedRR(rr.name, t, rr.class, rr.flush, l)
    BY <2>5, <2>6, <2>7 DEF FixedAt
  <2>9. FixedAt(msg, rr.name, p) = Rec(rr.name, t, rr.class, l, rr.flush,
                                       <<>>, <<>>, <<0, 0, 0>>, <<>>, <<>>, {}, <<>>)
    BY <2>8, FixedIs
  <2> QED
    BY <1>1, <2>9 DEF Headed
<1> QED
  BY <1>7, <1>8, <1>9

-----------------------------------------------------------------------------
(* A record. *)

\* More has been packed: octets, and nothing of what was packed before is lost.
Grown(w, u) ==
    /\ u \in Packer /\ u.ok /\ Findable(u, {})
    /\ Len(w.buf) + 1 <= Len(u.buf)
    /\ \A msg \in Seq(Octet) : Agree(msg, u.buf, {}) => Agree(msg, w.buf, {})

\* A name and a record are read at offset.
NameAt(msg, offset, name, next) ==
    readName(msg, offset) = [ok |-> TRUE, name |-> name, next |-> next]
RecordAt(msg, offset, rr, next) ==
    readRR(msg, offset) = [ok |-> TRUE, item |-> rr, next |-> next]

\* Where a packet begins with what u has, the record that was packed after w is read,
\* as long as RDLENGTH can hold the length.
Short(buf) == Len(buf) < 65536
RecordAfter(w, u, rr) ==
    \A msg \in Seq(Octet) :
        Agree(msg, u.buf, {}) /\ Short(u.buf) =>
           RecordAt(msg, Len(w.buf), Received(rr), Len(u.buf))

\* The record up to RDATA.
HeadOf(w, rr) == Put(writeName(w, rr.name), FixedOctets(rr) \o <<0, 0>>)

LEMMA ZeroOctets == <<0, 0>> \in Seq(Octet) /\ Len(<<0, 0>>) = 2
<1>1. 0 \in Octet
  BY SMT DEF Octet
<1> QED
  BY <1>1

LEMMA TenOctets ==
    ASSUME NEW rr, Fits(rr)
    PROVE  \E b \in Seq(Octet), c \in Seq(Octet), z \in Seq(Octet) :
              /\ b = c \o z /\ c = FixedOctets(rr) /\ z = <<0, 0>>
              /\ Len(b) = 10 /\ Len(c) = 8
<1>1. PICK c \in Seq(Octet) : c = FixedOctets(rr) /\ Len(c) = 8
  BY FixedBack
<1>2. PICK z \in Seq(Octet) : z = <<0, 0>> /\ Len(z) = 2
  BY ZeroOctets
<1>3. c \o z \in Seq(Octet) /\ Len(c \o z) = Len(c) + Len(z)
  BY ConcatIs
<1>4. Len(c) = 8 /\ Len(z) = 2 /\ 8 + 2 = 10
  BY <1>1, <1>2
<1>5. Len(c \o z) = 10
  BY <1>3, <1>4, Zenon
<1> QED
  BY <1>1, <1>2, <1>3, <1>5

\* The name ends at n and the record so far at s.
HeadWritten(w, h, rr, n, s) ==
    /\ h = HeadOf(w, rr) /\ h.ok
    /\ s = Len(h.buf) /\ s = n + 10 /\ Len(w.buf) + 1 <= n
    /\ Findable(h, LengthAt(s)) /\ Before(LengthAt(s), h.buf)
    /\ \A msg \in Seq(Octet) :
          Agree(msg, h.buf, LengthAt(s)) =>
             /\ Agree(msg, w.buf, {})
             /\ readName(msg, Len(w.buf)) = [ok |-> TRUE, name |-> rr.name, next |-> n]
             /\ FixedAt(msg, rr.name, n) = Headed(rr)

LEMMA HeadIs ==
    ASSUME NEW w \in Packer, w.ok, Findable(w, {}), NEW rr, Fits(rr)
    PROVE  \E h \in Packer, n \in Nat, s \in Nat : HeadWritten(w, h, rr, n, s)
<1>1. PICK v : v = writeName(w, rr.name)
  OBVIOUS
<1>2. PICK name \in FitName : name = rr.name
  BY FitsIs
<1>3. NameWritten(w, v, {}, name)
  <2>1. Before({}, w.buf)
    BY DEF Before
  <2> QED
    BY <1>1, <1>2, <2>1, NamePart
<1>4. /\ v \in Packer /\ v.ok = w.ok /\ Findable(v, {})
      /\ \A msg \in Seq(Octet) :
            Agree(msg, v.buf, {}) =>
               /\ Agree(msg, w.buf, {})
               /\ readName(msg, Len(w.buf)) = [ok |-> TRUE, name |-> name, next |-> Len(v.buf)]
  BY <1>3 DEF NameWritten
<1>5. PICK n \in Nat, a \in Seq(Octet) : a = v.buf /\ n = Len(a) /\ Len(w.buf) + 1 <= n
  <2>1. PICK more \in Seq(Octet), x \in Seq(Octet) :
           x = w.buf /\ v.buf = x \o more /\ Len(more) \in Nat \ {0}
    BY <1>3, BufferIs DEF NameWritten
  <2>2. x \o more \in Seq(Octet) /\ Len(x \o more) = Len(x) + Len(more) /\ Len(x) \in Nat
    BY ConcatIs
  <2>3. PICK m \in Nat \ {0}, l \in Nat, y \in Seq(Octet) : m = Len(more) /\ l = Len(x) /\ y = v.buf
    BY <2>1, <2>2
  <2>4. Len(y) = l + m
    BY <2>1, <2>2, <2>3, Zenon
  <2>5. Len(y) \in Nat /\ l + 1 <= Len(y)
    BY <2>4
  <2> QED
    BY <2>1, <2>3, <2>5
<1>6. PICK b \in Seq(Octet), c \in Seq(Octet), z \in Seq(Octet) :
         b = c \o z /\ c = FixedOctets(rr) /\ z = <<0, 0>> /\ Len(b) = 10 /\ Len(c) = 8
  BY TenOctets
<1>7. PICK h \in Packer : h = Put(v, b) /\ h.buf = a \o b /\ h.ok = v.ok
  BY <1>4, <1>5, PutIs
<1>8. h = HeadOf(w, rr)
  BY <1>1, <1>6, <1>7 DEF HeadOf
<1>9. PICK s \in Nat : s = Len(h.buf) /\ s = n + 10
  <2>1. Len(a \o b) = Len(a) + Len(b)
    BY ConcatIs
  <2>2. Len(h.buf) = n + 10
    BY <1>5, <1>6, <1>7, <2>1
  <2> QED
    BY <2>2
<1>10. Before(LengthAt(s), h.buf) /\ After(LengthAt(s), a)
  BY <1>5, <1>9 DEF Before, After, LengthAt
<1>11. Findable(h, LengthAt(s))
  BY <1>4, <1>5, <1>7, <1>10, GapsFindable
<1>12. ASSUME NEW msg \in Seq(Octet), Agree(msg, h.buf, LengthAt(s))
       PROVE  Agree(msg, a, {}) /\ FixedAt(msg, rr.name, n) = Headed(rr)
  <2>1. Agree(msg, a, {})
    BY <1>7, <1>10, <1>12, AgreeBeforeGaps
  <2>2. PICK d \in Seq(Octet) : d = a \o c /\ Len(d) = n + 8
    <3>1. a \o c \in Seq(Octet) /\ Len(a \o c) = Len(a) + Len(c)
      BY ConcatIs
    <3> QED
      BY <1>5, <1>6, <3>1
  <2>3. h.buf = d \o z
    <3>1. (a \o c) \o z = a \o (c \o z)
      BY ConcatAgain, SMTT(60)
    <3> QED
      BY <1>6, <1>7, <2>2, <3>1, Zenon
  <2>4. After(LengthAt(s), d)
    BY <1>9, <2>2 DEF After, LengthAt
  <2>5. Agree(msg, d, {})
    BY <1>12, <2>3, <2>4, AgreeBeforeGaps
  <2>6. Before({}, a)
    BY DEF Before
  <2>7. Holds(msg, n, c)
    BY <1>5, <2>2, <2>5, <2>6, HoldsTail
  <2>8. FixedAt(msg, rr.name, n) = Headed(rr)
    BY <1>6, <2>7, FixedBack
  <2> QED
    BY <2>1, <2>8
<1>13. ASSUME NEW msg \in Seq(Octet), Agree(msg, h.buf, LengthAt(s))
       PROVE  /\ Agree(msg, w.buf, {})
              /\ readName(msg, Len(w.buf)) = [ok |-> TRUE, name |-> rr.name, next |-> n]
              /\ FixedAt(msg, rr.name, n) = Headed(rr)
  <2>1. Agree(msg, v.buf, {}) /\ n = Len(v.buf)
    BY <1>5, <1>12, <1>13
  <2>2. /\ Agree(msg, w.buf, {})
        /\ readName(msg, Len(w.buf)) = [ok |-> TRUE, name |-> name, next |-> Len(v.buf)]
    BY <1>4, <2>1
  <2> QED
    BY <1>2, <1>12, <1>13, <2>1, <2>2
<1>14. h.ok
  BY <1>4, <1>7
<1>15. HeadWritten(w, h, rr, n, s)
  BY <1>5, <1>8, <1>9, <1>10, <1>11, <1>13, <1>14 DEF HeadWritten
<1> QED
  BY <1>15

\* RDATA is complete and the length of what comes after s is filled in.
Completed(full, s) == Filled(full, s, U16(Len(full.buf) - s)[1], U16(Len(full.buf) - s)[2])

LEMMA PackRRIs ==
    \A w, rr : w.ok => packRR(w, rr) = Completed(packRDATA(HeadOf(w, rr), rr), Len(HeadOf(w, rr).buf))
  BY ZenonT(90) DEF packRR, HeadOf, FixedOctets, Class, Filled, Completed

LEMMA LengthOctets ==
    ASSUME NEW n \in Nat
    PROVE  \E x \in Octet, y \in Octet :
              x = U16(n)[1] /\ y = U16(n)[2] /\ (n < 65536 => 256 * x + y = n)
<1>1. PICK l \in Seq(Octet) : l = U16(n) /\ Len(l) = 2 /\ (n < 65536 => 256 * l[1] + l[2] = n)
  BY U16Is
<1>2. l[1] \in Octet /\ l[2] \in Octet
  <2>1. 1 \in 1 .. Len(l) /\ 2 \in 1 .. Len(l)
    BY <1>1
  <2>2. \A i \in 1 .. Len(l) : l[i] \in Octet
    OBVIOUS
  <2> QED
    BY <2>1, <2>2, Zenon
<1> QED
  BY <1>1, <1>2

LEMMA FailedIs ==
    ASSUME NEW w \in Packer
    PROVE  \E v \in Packer : v = Fail(w) /\ v.buf = w.buf /\ ~v.ok
<1>1. PICK b \in Seq(Octet), c \in Table, o \in BOOLEAN : w = [buf |-> b, comp |-> c, ok |-> o]
  BY DEF Packer
<1>a. PICK no : no = FALSE
  OBVIOUS
<1>2. PICK v : v = [buf |-> b, comp |-> c, ok |-> no]
  OBVIOUS
<1>3. [[buf |-> b, comp |-> c, ok |-> o] EXCEPT !.ok = no] = [buf |-> b, comp |-> c, ok |-> no]
  OBVIOUS
<1>4. v = Fail(w)
  BY <1>1, <1>a, <1>2, <1>3, Zenon DEF Fail
<1>5. v \in Packer
  BY <1>a, <1>2 DEF Packer
<1>6. v.buf = b /\ v.ok = FALSE /\ w.buf = b
  BY <1>1, <1>a, <1>2
<1> QED
  BY <1>4, <1>5, <1>6

\* A record whose RDATA cannot be packed.
LEMMA FailedRecord ==
    ASSUME NEW w \in Packer, w.ok, Findable(w, {}), NEW rr, Fits(rr),
           packRDATA(HeadOf(w, rr), rr) = Fail(HeadOf(w, rr))
    PROVE  ~packRR(w, rr).ok
<1>1. PICK h \in Packer, s \in Nat : h = HeadOf(w, rr) /\ s = Len(h.buf) /\ 2 <= s
  <2>1. PICK h \in Packer, n \in Nat, s \in Nat : HeadWritten(w, h, rr, n, s)
    BY HeadIs
  <2>2. h = HeadOf(w, rr) /\ s = Len(h.buf) /\ s = n + 10
    BY <2>1 DEF HeadWritten
  <2>3. 2 <= s
    BY <2>2
  <2> QED
    BY <2>2, <2>3
<1>2. PICK full \in Packer : full = Fail(h) /\ full.buf = h.buf /\ ~full.ok
  BY FailedIs
<1>3. PICK x \in Octet, y \in Octet : x = U16(s - s)[1] /\ y = U16(s - s)[2]
  <2>1. s - s \in Nat
    OBVIOUS
  <2> QED
    BY <2>1, LengthOctets
<1>4. packRR(w, rr) = Filled(full, s, x, y)
  <2>1. packRR(w, rr) = Completed(full, s)
    BY <1>1, <1>2, PackRRIs, Zenon
  <2>2. Len(full.buf) = s
    BY <1>1, <1>2
  <2> QED
    BY <1>3, <2>1, <2>2, Zenon DEF Completed
<1>5. Filled(full, s, x, y).ok = full.ok
  <2>1. s <= Len(full.buf)
    BY <1>1, <1>2
  <2> QED
    BY <1>1, <2>1, FilledIs
<1> QED
  BY <1>2, <1>4, <1>5

LEMMA ReadRRIs ==
    ASSUME NEW msg, NEW offset, NEW name, NEW n, NEW e, NEW rec, NEW got, NEW l,
           NameAt(msg, offset, name, n),
           ~(n + 10 > Len(msg)), FixedAt(msg, name, n) = rec,
           Uint16(msg, n + 8) = l, UnpackedAs(got, rec, msg, n + 10, l), e = n + 10 + l
    PROVE  RecordAt(msg, offset, got, e)
<1>1. PICK r : r = readName(msg, offset) /\ r.ok /\ r.name = name /\ r.next = n
  BY DEF NameAt
<1>2. PICK u : u = unpackRDATA(rec, msg, n + 10, l) /\ u.ok /\ u.rr = got
  BY DEF UnpackedAs
<1>3. readRR(msg, offset) =
         LET rdata == unpackRDATA(FixedAt(msg, name, n), msg, n + 10, Uint16(msg, n + 8))
         IN IF ~rdata.ok THEN Refused
            ELSE [ok |-> TRUE, item |-> rdata.rr, next |-> n + 10 + Uint16(msg, n + 8)]
  BY <1>1 DEF readRR, FixedAt, FixedRR, HasFlush
<1> QED
  BY <1>2, <1>3 DEF RecordAt

LEMMA RecordBack ==
    ASSUME NEW w \in Packer, w.ok, Findable(w, {}), NEW rr, Fits(rr), packRR(w, rr).ok
    PROVE  Grown(w, packRR(w, rr)) /\ RecordAfter(w, packRR(w, rr), rr)
<1>0. PICK h \in Packer, n \in Nat, s \in Nat : HeadWritten(w, h, rr, n, s)
  BY HeadIs
<1>1. /\ h = HeadOf(w, rr) /\ h.ok
      /\ s = Len(h.buf) /\ s = n + 10 /\ Len(w.buf) + 1 <= n
      /\ Findable(h, LengthAt(s)) /\ Before(LengthAt(s), h.buf)
  BY <1>0 DEF HeadWritten
<1>a. ASSUME NEW msg \in Seq(Octet), Agree(msg, h.buf, LengthAt(s))
      PROVE  /\ Agree(msg, w.buf, {})
             /\ readName(msg, Len(w.buf)) = [ok |-> TRUE, name |-> rr.name, next |-> n]
             /\ FixedAt(msg, rr.name, n) = Headed(rr)
  BY <1>0, <1>a DEF HeadWritten
<1>2. PICK full : full = packRDATA(h, rr)
  OBVIOUS
<1>3. RDataBack(h, full, LengthAt(s), rr)
  <2>1. packRDATA(h, rr) # Fail(h)
    BY <1>1, FailedRecord
  <2>2. Ready(h, LengthAt(s), rr)
    BY <1>1, <2>1 DEF Ready
  <2> QED
    BY <1>2, <2>2, RDataRoundTrip
<1>4. /\ full \in Packer /\ Findable(full, LengthAt(s))
      /\ \A msg \in Seq(Octet) :
            Agree(msg, full.buf, LengthAt(s)) =>
               UnpackedAs(Received(rr), Headed(rr), msg, Len(h.buf), Len(full.buf) - Len(h.buf))
  BY <1>3 DEF RDataBack
<1>5. PICK a \in Seq(Octet), more \in Seq(Octet), e \in Seq(Octet) :
         a = h.buf /\ e = full.buf /\ e = a \o more
  <2>1. PICK more \in Seq(Octet) : full.buf = h.buf \o more
    BY <1>3 DEF RDataBack
  <2> QED
    BY <1>1, <1>4, <2>1, BufferIs
<1>6. PICK m \in Nat, j \in Nat : m = Len(more) /\ j = Len(e) /\ j = s + m /\ s = n + 10
  <2>1. Len(a \o more) = Len(a) + Len(more) /\ Len(more) \in Nat
    BY ConcatIs
  <2>2. Len(e) = s + Len(more)
    BY <1>1, <1>5, <2>1
  <2> QED
    BY <1>0, <1>1, <2>1, <2>2
<1>7. j - s = m /\ n + 10 + m = j /\ (n + 8) + 1 = s - 1 /\ (n + 8) + 2 = s /\ 2 <= s /\ s <= j
  BY <1>0, <1>6
<1>8. PICK x \in Octet, y \in Octet :
         x = U16(m)[1] /\ y = U16(m)[2] /\ (m < 65536 => 256 * x + y = m)
  BY <1>6, LengthOctets
<1>9. PICK u : u = packRR(w, rr)
  OBVIOUS
<1>10. u = Filled(full, s, x, y)
  <2>1. h = HeadOf(w, rr) /\ s = Len(h.buf)
    BY <1>1
  <2>2. u = Completed(full, s)
    BY <1>2, <1>9, <2>1, PackRRIs, Zenon
  <2>3. Len(full.buf) - s = m
    BY <1>5, <1>6, <1>7
  <2> QED
    <3>1. x = U16(m)[1] /\ y = U16(m)[2]
      BY <1>8
    <3> QED
      BY <2>2, <2>3, <3>1, Zenon DEF Completed
<1>11. 2 <= s /\ s <= Len(full.buf) /\ full \in Packer /\ Findable(full, LengthAt(s))
  BY <1>4, <1>5, <1>6, <1>7
<1>b. \E f \in Packer :
         /\ f = Filled(full, s, x, y) /\ f.ok = full.ok /\ Len(f.buf) = Len(full.buf) /\ Findable(f, {})
         /\ \A msg \in Seq(Octet) :
               Agree(msg, f.buf, {}) =>
                  Agree(msg, full.buf, LengthAt(s)) /\ msg[s - 1] = x /\ msg[s] = y
  BY <1>0, <1>8, <1>11, FilledFindable, SMTT(60)
<1>12. u \in Packer /\ u.ok = full.ok /\ Len(u.buf) = j /\ Findable(u, {})
  BY <1>5, <1>6, <1>10, <1>b
<1>13. ASSUME NEW msg \in Seq(Octet), Agree(msg, u.buf, {})
       PROVE  Agree(msg, full.buf, LengthAt(s)) /\ msg[s - 1] = x /\ msg[s] = y
  BY <1>10, <1>b, <1>13
<1>14. ASSUME NEW msg \in Seq(Octet), Agree(msg, u.buf, {}) PROVE Agree(msg, h.buf, LengthAt(s))
  <2>1. Agree(msg, a \o more, LengthAt(s))
    BY <1>5, <1>13, <1>14
  <2> QED
    BY <1>5, <2>1, AgreePrefix
<1>15. Grown(w, u)
  <2>1. u.ok
    BY <1>9
  <2>2. Len(w.buf) + 1 <= Len(u.buf)
    <3>1. PICK i \in Nat : i = Len(w.buf)
      BY BufferIs
    <3>2. i + 1 <= n
      BY <1>1, <3>1
    <3> QED
      BY <1>0, <1>6, <1>12, <3>1, <3>2
  <2>3. ASSUME NEW msg \in Seq(Octet), Agree(msg, u.buf, {}) PROVE Agree(msg, w.buf, {})
    BY <1>a, <1>14, <2>3
  <2> QED
    BY <1>12, <2>1, <2>2, <2>3 DEF Grown
<1>16. ASSUME NEW msg \in Seq(Octet), Agree(msg, u.buf, {}), Short(u.buf)
       PROVE  RecordAt(msg, Len(w.buf), Received(rr), Len(u.buf))
  <2>1. Agree(msg, h.buf, LengthAt(s))
    BY <1>14, <1>16
  <2>2. /\ readName(msg, Len(w.buf)) = [ok |-> TRUE, name |-> rr.name, next |-> n]
        /\ FixedAt(msg, rr.name, n) = Headed(rr)
    BY <1>a, <2>1
  <2>3. ~(n + 10 > Len(msg))
    <3>1. PICK l \in Nat : l = Len(msg)
      OBVIOUS
    <3>2. j <= l
      BY <1>12, <1>16, <3>1 DEF Agree
    <3> QED
      BY <1>6, <3>1, <3>2
  <2>4. Uint16(msg, n + 8) = m
    <3>1. msg[s - 1] = x /\ msg[s] = y
      BY <1>13, <1>16
    <3>2. m < 65536
      BY <1>0, <1>6, <1>12, <1>16 DEF Short
    <3>3. Uint16(msg, n + 8) = 256 * x + y
      BY <1>7, <3>1 DEF Uint16
    <3> QED
      BY <1>8, <3>2, <3>3
  <2>5. UnpackedAs(Received(rr), Headed(rr), msg, n + 10, m)
    <3>1. Agree(msg, full.buf, LengthAt(s))
      BY <1>13, <1>16
    <3>2. UnpackedAs(Received(rr), Headed(rr), msg, Len(h.buf), Len(full.buf) - Len(h.buf))
      BY <1>4, <3>1
    <3>3. Len(h.buf) = n + 10 /\ Len(full.buf) - Len(h.buf) = m
      BY <1>1, <1>5, <1>6, <1>7
    <3> QED
      BY <3>2, <3>3
  <2>6. Len(u.buf) = n + 10 + m
    BY <1>7, <1>12
  <2>7. NameAt(msg, Len(w.buf), rr.name, n)
    BY <2>2 DEF NameAt
  <2> QED
    BY <2>2, <2>3, <2>4, <2>5, <2>6, <2>7, ReadRRIs
<1>17. RecordAfter(w, u, rr)
  BY <1>16 DEF RecordAfter
<1> QED
  BY <1>9, <1>15, <1>17, Zenon

-----------------------------------------------------------------------------
(* A question. *)

QuestionAt(msg, offset, q, next) ==
    readQuestion(msg, offset) = [ok |-> TRUE, next |-> next, item |-> q]

QuestionAfter(w, u, q) ==
    \A msg \in Seq(Octet) :
        Agree(msg, u.buf, {}) => QuestionAt(msg, Len(w.buf), q, Len(u.buf))

LEMMA ReadQuestionIs ==
    ASSUME NEW msg, NEW offset, NEW name, NEW n, NEW e, NEW t, NEW c, NEW q,
           NameAt(msg, offset, name, n), ~(n + 4 > Len(msg)),
           Uint16(msg, n) = t, Uint16(msg, n + 2) = c, e = n + 4,
           q = [name |-> name, type |-> t, class |-> c]
    PROVE  QuestionAt(msg, offset, q, e)
<1>1. PICK r : r = readName(msg, offset) /\ r.ok /\ r.name = name /\ r.next = n
  BY DEF NameAt
<1> QED
  BY <1>1 DEF readQuestion, QuestionAt

LEMMA TwoNumbers ==
    ASSUME NEW t \in Number16, NEW c \in Number16
    PROVE  \E b \in Seq(Octet) :
              /\ b = U16(t) \o U16(c) /\ Len(b) = 4
              /\ \A msg \in Seq(Octet), p \in Nat :
                    Holds(msg, p, b) => Uint16(msg, p) = t /\ Uint16(msg, p + 2) = c
<1>1. PICK x \in Seq(Octet) :
         /\ x = U16(t) /\ Len(x) = 2
         /\ \A msg \in Seq(Octet), p \in Nat : Holds(msg, p, x) => Uint16(msg, p) = t
  BY IsWide16, U16Parts
<1>2. PICK y \in Seq(Octet) :
         /\ y = U16(c) /\ Len(y) = 2
         /\ \A msg \in Seq(Octet), p \in Nat : Holds(msg, p, y) => Uint16(msg, p) = c
  BY IsWide16, U16Parts
<1>3. PICK b \in Seq(Octet) : b = x \o y /\ Len(b) = 4
  <2>1. x \o y \in Seq(Octet) /\ Len(x \o y) = Len(x) + Len(y)
    BY ConcatIs
  <2>2. Len(x) = 2 /\ Len(y) = 2 /\ 2 + 2 = 4
    BY <1>1, <1>2
  <2> QED
    BY <2>1, <2>2, Zenon
<1>4. ASSUME NEW msg \in Seq(Octet), NEW p \in Nat, Holds(msg, p, b)
      PROVE  Uint16(msg, p) = t /\ Uint16(msg, p + 2) = c
  <2>1. Holds(msg, p, x) /\ Holds(msg, p + Len(x), y)
    BY <1>3, <1>4, HoldsParts
  <2>2. Holds(msg, p + 2, y) /\ p + 2 \in Nat
    BY <1>1, <2>1
  <2> QED
    BY <1>1, <1>2, <2>1, <2>2
<1> QED
  BY <1>1, <1>2, <1>3, <1>4

LEMMA QuestionBack ==
    ASSUME NEW w \in Packer, w.ok, Findable(w, {}), NEW q \in FitQuestion
    PROVE  Grown(w, packQuestion(w, q)) /\ QuestionAfter(w, packQuestion(w, q), q)
<1>1. PICK name \in FitName, t \in Number16, c \in Number16 :
         q = [name |-> name, type |-> t, class |-> c]
  BY DEF FitQuestion
<1>2. q.name = name /\ q.type = t /\ q.class = c
  BY <1>1
<1>3. PICK v : v = writeName(w, name)
  OBVIOUS
<1>4. NameWritten(w, v, {}, name)
  <2>1. Before({}, w.buf)
    BY DEF Before
  <2> QED
    BY <1>1, <1>3, <2>1, NamePart
<1>5. v \in Packer /\ v.ok = w.ok /\ Findable(v, {}) /\ Before({}, v.buf)
  BY <1>4 DEF NameWritten
<1>6. ASSUME NEW msg \in Seq(Octet), Agree(msg, v.buf, {})
      PROVE  Agree(msg, w.buf, {}) /\ NameAt(msg, Len(w.buf), name, Len(v.buf))
  BY <1>4, <1>6 DEF NameWritten, NameAt
<1>7. PICK i \in Nat, n \in Nat : i = Len(w.buf) /\ n = Len(v.buf) /\ i + 1 <= n
  <2>1. PICK more \in Seq(Octet), x \in Seq(Octet) :
           x = w.buf /\ v.buf = x \o more /\ Len(more) \in Nat \ {0}
    BY <1>4, BufferIs DEF NameWritten
  <2>2. x \o more \in Seq(Octet) /\ Len(x \o more) = Len(x) + Len(more) /\ Len(x) \in Nat
    BY ConcatIs
  <2>3. PICK m \in Nat \ {0}, l \in Nat, y \in Seq(Octet) : m = Len(more) /\ l = Len(x) /\ y = v.buf
    BY <2>1, <2>2
  <2>4. Len(y) = l + m
    BY <2>1, <2>2, <2>3, Zenon
  <2>5. Len(y) \in Nat /\ l + 1 <= Len(y)
    BY <2>4
  <2> QED
    BY <2>1, <2>3, <2>5
<1>8. PICK b \in Seq(Octet) :
         /\ b = U16(t) \o U16(c) /\ Len(b) = 4
         /\ \A msg \in Seq(Octet), p \in Nat :
               Holds(msg, p, b) => Uint16(msg, p) = t /\ Uint16(msg, p + 2) = c
  BY <1>1, TwoNumbers
<1>9. PICK u \in Packer :
         /\ u = Put(v, b) /\ u.ok = v.ok /\ Findable(u, {})
         /\ Len(u.buf) = Len(v.buf) + Len(b)
         /\ \A msg \in Seq(Octet) :
               Agree(msg, u.buf, {}) => Agree(msg, v.buf, {}) /\ Holds(msg, Len(v.buf), b)
  BY <1>5, PutPart
<1>10. u = packQuestion(w, q)
  BY <1>2, <1>3, <1>8, <1>9, Zenon DEF packQuestion
<1>11. Len(u.buf) = n + 4
  BY <1>7, <1>8, <1>9
<1>12. Grown(w, u)
  <2>1. u.ok
    BY <1>5, <1>9
  <2>2. Len(w.buf) + 1 <= Len(u.buf)
    BY <1>7, <1>11
  <2>3. ASSUME NEW msg \in Seq(Octet), Agree(msg, u.buf, {}) PROVE Agree(msg, w.buf, {})
    BY <1>6, <1>9, <2>3
  <2> QED
    BY <1>9, <2>1, <2>2, <2>3 DEF Grown
<1>13. ASSUME NEW msg \in Seq(Octet), Agree(msg, u.buf, {})
       PROVE  QuestionAt(msg, Len(w.buf), q, Len(u.buf))
  <2>1. Agree(msg, v.buf, {}) /\ Holds(msg, n, b)
    BY <1>7, <1>9, <1>13
  <2>2. NameAt(msg, Len(w.buf), name, n)
    BY <1>6, <1>7, <2>1
  <2>3. Uint16(msg, n) = t /\ Uint16(msg, n + 2) = c
    BY <1>7, <1>8, <2>1
  <2>4. ~(n + 4 > Len(msg))
    <3>1. PICK l \in Nat : l = Len(msg)
      OBVIOUS
    <3>2. n + 4 <= l
      BY <1>11, <1>13, <3>1 DEF Agree
    <3> QED
      BY <1>7, <3>1, <3>2
  <2>5. q = [name |-> name, type |-> t, class |-> c]
    BY <1>1
  <2> QED
    BY <1>11, <2>2, <2>3, <2>4, <2>5, ReadQuestionIs
<1>14. QuestionAfter(w, u, q)
  BY <1>13 DEF QuestionAfter
<1> QED
  BY <1>10, <1>12, <1>14, Zenon

-----------------------------------------------------------------------------
(* Sections. *)

\* One item of section number sec, the first being the questions.
PackOne(sec, w, item) == IF sec = 1 THEN packQuestion(w, item) ELSE packRR(w, item)
ReadOne(sec, msg, offset) == IF sec = 1 THEN readQuestion(msg, offset) ELSE readRR(msg, offset)
FitItem(sec, item) == IF sec = 1 THEN item \in FitQuestion ELSE Fits(item)
Back(sec, item) == IF sec = 1 THEN item ELSE Received(item)

\* A section that was read up to next.
SoMany(next, items) == [ok |-> TRUE, next |-> next, items |-> items]

LEMMA PackSectionIs ==
    ASSUME NEW sec, NEW w, NEW items, Len(items) \in Nat
    PROVE  \E f : /\ f = [k \in 0 .. Len(items) |-> f[k]]
                  /\ f[0] = w
                  /\ \A k \in 1 .. Len(items) : f[k] = PackOne(sec, f[k - 1], items[k])
                  /\ packSection(sec, w, items) = f[Len(items)]
<1> PICK n \in Nat : n = Len(items)
  OBVIOUS
<1> DEFINE Step(k, x) == PackOne(sec, x, items[k])
           Run(f, m) == f[0] = w /\ \A k \in 1 .. m : f[k] = Step(k, f[k - 1])
           T == {m \in Nat : \E f : Run(f, m)}
<1>1. 0 \in T
  <2>1. Run([i \in {0} |-> w], 0)
    OBVIOUS
  <2> QED
    BY <2>1
<1>2. \A m \in Nat : m \in T => m + 1 \in T
  <2> HIDE DEF Step, Run
  <2> SUFFICES ASSUME NEW m \in Nat, \E f : Run(f, m) PROVE \E g : Run(g, m + 1)
    OBVIOUS
  <2>0. PICK f : Run(f, m)
    OBVIOUS
  <2> USE DEF Run
  <2> DEFINE g == [i \in 0 .. m + 1 |-> IF i = m + 1 THEN Step(m + 1, f[m]) ELSE f[i]]
  <2>1. g[0] = w
    BY <2>0
  <2>2. ASSUME NEW k \in 1 .. m + 1 PROVE g[k] = Step(k, g[k - 1])
    <3>1. g[k - 1] = f[k - 1]
      OBVIOUS
    <3>2. CASE k = m + 1
      BY <2>0, <3>1, <3>2
    <3>3. CASE k # m + 1
      <4>1. k \in 1 .. m /\ g[k] = f[k]
        BY <3>3
      <4> QED
        BY <2>0, <3>1, <4>1
    <3> QED
      BY <3>2, <3>3
  <2>3. Run(g, m + 1)
    BY <2>1, <2>2
  <2> QED
    BY <2>3
<1>3. PICK f : Run(f, n)
  <2>1. \A m \in Nat : m \in T
    <3> HIDE DEF T
    <3> QED
      BY <1>1, <1>2, Induct
  <2> QED
    BY <2>1
<1> HIDE DEF Step
<1>4. PICK g : g = [k \in 0 .. n |-> f[k]]
  OBVIOUS
<1>5. g = [k \in 0 .. n |-> IF k = 0 THEN w ELSE Step(k, g[k - 1])]
  BY <1>3, <1>4
<1>6. PICK h : h = [k \in 0 .. n |-> IF k = 0 THEN w ELSE Step(k, h[k - 1])]
               /\ packSection(sec, w, items) = h[n]
  <2> DEFINE h == CHOOSE e : e = [k \in 0 .. n |-> IF k = 0 THEN w ELSE Step(k, e[k - 1])]
  <2>1. h = [k \in 0 .. n |-> IF k = 0 THEN w ELSE Step(k, h[k - 1])]
    BY <1>5
  <2>2. packSection(sec, w, items) = h[n]
    BY DEF packSection, PackOne, Step
  <2> HIDE DEF h
  <2> QED
    BY <2>1, <2>2
<1>7. h = [k \in 0 .. n |-> h[k]] /\ h[0] = w
  BY <1>6
<1>8. ASSUME NEW k \in 1 .. n PROVE h[k] = PackOne(sec, h[k - 1], items[k])
  <2>1. k \in 0 .. n /\ k # 0
    OBVIOUS
  <2>2. h[k] = Step(k, h[k - 1])
    BY <1>6, <2>1
  <2> QED
    BY <2>2 DEF Step
<1> QED
  BY <1>6, <1>7, <1>8

LEMMA SectionIs ==
    ASSUME NEW sec, NEW msg, NEW offset, NEW count \in Nat
    PROVE  \E f : /\ f = [k \in 0 .. count |-> f[k]]
                  /\ f[0] = SoMany(offset, <<>>)
                  /\ \A k \in 1 .. count : f[k] = readItem(sec, msg, f[k - 1])
                  /\ section(sec, msg, offset, count) = f[count]
<1> PICK n \in Nat : n = count
  OBVIOUS
<1> DEFINE Step(k, x) == readItem(sec, msg, x)
           Run(f, m) == f[0] = SoMany(offset, <<>>) /\ \A k \in 1 .. m : f[k] = Step(k, f[k - 1])
           T == {m \in Nat : \E f : Run(f, m)}
<1>1. 0 \in T
  <2>1. Run([i \in {0} |-> SoMany(offset, <<>>)], 0)
    OBVIOUS
  <2> QED
    BY <2>1
<1>2. \A m \in Nat : m \in T => m + 1 \in T
  <2> HIDE DEF Step, Run
  <2> SUFFICES ASSUME NEW m \in Nat, \E f : Run(f, m) PROVE \E g : Run(g, m + 1)
    OBVIOUS
  <2>0. PICK f : Run(f, m)
    OBVIOUS
  <2> USE DEF Run
  <2> DEFINE g == [i \in 0 .. m + 1 |-> IF i = m + 1 THEN Step(m + 1, f[m]) ELSE f[i]]
  <2>1. g[0] = SoMany(offset, <<>>)
    BY <2>0
  <2>2. ASSUME NEW k \in 1 .. m + 1 PROVE g[k] = Step(k, g[k - 1])
    <3>1. g[k - 1] = f[k - 1]
      OBVIOUS
    <3>2. CASE k = m + 1
      BY <2>0, <3>1, <3>2
    <3>3. CASE k # m + 1
      <4>1. k \in 1 .. m /\ g[k] = f[k]
        BY <3>3
      <4> QED
        BY <2>0, <3>1, <4>1
    <3> QED
      BY <3>2, <3>3
  <2>3. Run(g, m + 1)
    BY <2>1, <2>2
  <2> QED
    BY <2>3
<1>3. PICK f : Run(f, n)
  <2>1. \A m \in Nat : m \in T
    <3> HIDE DEF T
    <3> QED
      BY <1>1, <1>2, Induct
  <2> QED
    BY <2>1
<1> HIDE DEF Step
<1>4. PICK g : g = [k \in 0 .. n |-> f[k]]
  OBVIOUS
<1>5. g = [k \in 0 .. n |-> IF k = 0 THEN SoMany(offset, <<>>) ELSE Step(k, g[k - 1])]
  BY <1>3, <1>4
<1>6. PICK h : h = [k \in 0 .. n |-> IF k = 0 THEN SoMany(offset, <<>>) ELSE Step(k, h[k - 1])]
               /\ section(sec, msg, offset, count) = h[n]
  <2> DEFINE h == CHOOSE e : e = [k \in 0 .. n |-> IF k = 0 THEN SoMany(offset, <<>>) ELSE Step(k, e[k - 1])]
  <2>1. h = [k \in 0 .. n |-> IF k = 0 THEN SoMany(offset, <<>>) ELSE Step(k, h[k - 1])]
    BY <1>5
  <2>2. section(sec, msg, offset, count) = h[n]
    BY DEF section, SoMany, Step
  <2> HIDE DEF h
  <2> QED
    BY <2>1, <2>2
<1>7. h = [k \in 0 .. n |-> h[k]] /\ h[0] = SoMany(offset, <<>>)
  BY <1>6
<1>8. ASSUME NEW k \in 1 .. n PROVE h[k] = readItem(sec, msg, h[k - 1])
  <2>1. k \in 0 .. n /\ k # 0
    OBVIOUS
  <2>2. h[k] = Step(k, h[k - 1])
    BY <1>6, <2>1
  <2> QED
    BY <2>2 DEF Step
<1> QED
  BY <1>6, <1>7, <1>8

ItemAt(sec, msg, offset, item, next) ==
    LET one == ReadOne(sec, msg, offset)
    IN one.ok /\ one.next = next /\ one.item = item

ItemAfter(sec, w, u, item) ==
    \A msg \in Seq(Octet) :
        Agree(msg, u.buf, {}) /\ Short(u.buf) =>
           ItemAt(sec, msg, Len(w.buf), Back(sec, item), Len(u.buf))

LEMMA NothingAfterFailure ==
    ASSUME NEW sec, NEW w, ~w.ok, NEW item
    PROVE  PackOne(sec, w, item) = w
  BY Zenon DEF PackOne, packQuestion, packRR

LEMMA ItemBack ==
    ASSUME NEW sec, NEW w \in Packer, w.ok, Findable(w, {}), NEW item, FitItem(sec, item),
           PackOne(sec, w, item).ok
    PROVE  Grown(w, PackOne(sec, w, item)) /\ ItemAfter(sec, w, PackOne(sec, w, item), item)
<1>1. CASE sec = 1
  <2>1. PICK u : u = packQuestion(w, item) /\ u = PackOne(sec, w, item)
    BY <1>1 DEF PackOne
  <2>2. Grown(w, u) /\ QuestionAfter(w, u, item)
    BY <1>1, <2>1, QuestionBack DEF FitItem
  <2>3. ASSUME NEW msg \in Seq(Octet), Agree(msg, u.buf, {})
        PROVE  ItemAt(sec, msg, Len(w.buf), Back(sec, item), Len(u.buf))
    <3>1. QuestionAt(msg, Len(w.buf), item, Len(u.buf))
      BY <2>2, <2>3 DEF QuestionAfter
    <3> QED
      BY <1>1, <3>1 DEF QuestionAt, ItemAt, ReadOne, Back
  <2>4. ItemAfter(sec, w, u, item)
    BY <2>3 DEF ItemAfter
  <2> QED
    BY <2>1, <2>2, <2>4, Zenon
<1>2. CASE sec # 1
  <2>1. PICK u : u = packRR(w, item) /\ u = PackOne(sec, w, item)
    BY <1>2 DEF PackOne
  <2>2. Grown(w, u) /\ RecordAfter(w, u, item)
    <3>1. Fits(item) /\ packRR(w, item).ok
      BY <1>2, <2>1 DEF FitItem
    <3> QED
      BY <2>1, <3>1, RecordBack
  <2>3. ASSUME NEW msg \in Seq(Octet), Agree(msg, u.buf, {}), Short(u.buf)
        PROVE  ItemAt(sec, msg, Len(w.buf), Back(sec, item), Len(u.buf))
    <3>1. RecordAt(msg, Len(w.buf), Received(item), Len(u.buf))
      BY <2>2, <2>3 DEF RecordAfter
    <3> QED
      BY <1>2, <3>1 DEF RecordAt, ItemAt, ReadOne, Back
  <2>4. ItemAfter(sec, w, u, item)
    BY <2>3 DEF ItemAfter
  <2> QED
    BY <2>1, <2>2, <2>4, Zenon
<1> QED
  BY <1>1, <1>2

LEMMA ReadItemIs ==
    ASSUME NEW sec, NEW msg, NEW p, NEW items, NEW item, NEW next,
           ItemAt(sec, msg, p, item, next)
    PROVE  readItem(sec, msg, SoMany(p, items)) = SoMany(next, Append(items, item))
<1>1. PICK one : one = ReadOne(sec, msg, p) /\ one.ok /\ one.next = next /\ one.item = item
  BY DEF ItemAt
<1>a. PICK s : s = SoMany(p, items)
  OBVIOUS
<1>2. s = SoMany(p, items) /\ s.ok /\ s.next = p /\ s.items = items
  BY <1>a DEF SoMany
<1>3. readItem(sec, msg, s) = [ok |-> TRUE, next |-> one.next, items |-> Append(s.items, one.item)]
  BY <1>1, <1>2 DEF readItem, ReadOne
<1> QED
  BY <1>1, <1>2, <1>3 DEF SoMany

\* The items as the receiver is to have them.
AllBack(sec, items) == [i \in DOMAIN items |-> Back(sec, items[i])]

LEMMA AllBackIs ==
    ASSUME NEW sec, NEW S, NEW items \in Seq(S)
    PROVE  /\ AllBack(sec, items) \in Seq({Back(sec, x) : x \in S})
           /\ Len(AllBack(sec, items)) = Len(items)
           /\ \A i \in 1 .. Len(items) : AllBack(sec, items)[i] = Back(sec, items[i])
<1>1. DOMAIN items = 1 .. Len(items) /\ Len(items) \in Nat /\ \A i \in 1 .. Len(items) : items[i] \in S
  OBVIOUS
<1>2. AllBack(sec, items) = [i \in 1 .. Len(items) |-> Back(sec, items[i])]
  BY <1>1 DEF AllBack
<1> QED
  BY <1>1, <1>2

\* The loop of readRRs over the first k items.
SectionLoop(sec, msg, offset, g, k) ==
    /\ g[0] = SoMany(offset, <<>>)
    /\ \A j \in 1 .. k : g[j] = readItem(sec, msg, g[j - 1])

\* The first k items were packed after w, up to u, and are read back.
SectionAfter(sec, w, u, items, k) ==
    \A msg \in Seq(Octet) : \A g :
        Agree(msg, u.buf, {}) /\ Short(u.buf) /\ SectionLoop(sec, msg, Len(w.buf), g, k) =>
           g[k] = SoMany(Len(u.buf), SubSeq(AllBack(sec, items), 1, k))

Packed(sec, w, u, items, k) ==
    /\ u \in Packer /\ u.ok /\ Findable(u, {}) /\ Len(w.buf) + k <= Len(u.buf)
    /\ \A msg \in Seq(Octet) : Agree(msg, u.buf, {}) => Agree(msg, w.buf, {})
    /\ SectionAfter(sec, w, u, items, k)

LEMMA NoneYet ==
    ASSUME NEW sec, NEW w \in Packer, w.ok, Findable(w, {}), NEW S, NEW items \in Seq(S)
    PROVE  Packed(sec, w, w, items, 0)
<1>1. Len(w.buf) + 0 <= Len(w.buf)
  BY BufferIs
<1>2. SubSeq(AllBack(sec, items), 1, 0) = <<>>
  BY AllBackIs, TakeAll
<1>3. ASSUME NEW msg \in Seq(Octet), NEW g, SectionLoop(sec, msg, Len(w.buf), g, 0)
      PROVE  g[0] = SoMany(Len(w.buf), SubSeq(AllBack(sec, items), 1, 0))
  BY <1>2, <1>3 DEF SectionLoop
<1>4. SectionAfter(sec, w, w, items, 0)
  BY <1>3 DEF SectionAfter
<1> QED
  BY <1>1, <1>4 DEF Packed

LEMMA OneMore ==
    ASSUME NEW sec, NEW w \in Packer, NEW S, NEW items \in Seq(S), NEW k \in Nat, k + 1 <= Len(items),
           NEW v, Packed(sec, w, v, items, k), FitItem(sec, items[k + 1]),
           PackOne(sec, v, items[k + 1]).ok
    PROVE  Packed(sec, w, PackOne(sec, v, items[k + 1]), items, k + 1)
<1>1. PICK u, item : u = PackOne(sec, v, item) /\ item = items[k + 1]
  OBVIOUS
<1>2. v \in Packer /\ v.ok /\ Findable(v, {}) /\ Len(w.buf) + k <= Len(v.buf)
  BY DEF Packed
<1>3. Grown(v, u) /\ ItemAfter(sec, v, u, item)
  BY <1>1, <1>2, ItemBack
<1>4. /\ u \in Packer /\ u.ok /\ Findable(u, {}) /\ Len(v.buf) + 1 <= Len(u.buf)
      /\ \A msg \in Seq(Octet) : Agree(msg, u.buf, {}) => Agree(msg, v.buf, {})
  BY <1>3 DEF Grown
<1>5. PICK l \in Nat, m \in Nat, n \in Nat : l = Len(w.buf) /\ m = Len(v.buf) /\ n = Len(u.buf)
  BY <1>2, <1>4, BufferIs
<1>6. l + (k + 1) <= n /\ m <= n
  <2>1. l + k <= m /\ m + 1 <= n
    BY <1>2, <1>4, <1>5
  <2>2. l \in Nat /\ m \in Nat /\ n \in Nat
    BY <1>5
  <2> QED
    BY <2>1, <2>2
<1>7. ASSUME NEW msg \in Seq(Octet), Agree(msg, u.buf, {}) PROVE Agree(msg, w.buf, {})
  BY <1>4, <1>7 DEF Packed
<1>8. ASSUME NEW msg \in Seq(Octet), NEW g, Agree(msg, u.buf, {}), Short(u.buf),
             SectionLoop(sec, msg, Len(w.buf), g, k + 1)
      PROVE  g[k + 1] = SoMany(Len(u.buf), SubSeq(AllBack(sec, items), 1, k + 1))
  <2>1. SectionLoop(sec, msg, Len(w.buf), g, k) /\ g[k + 1] = readItem(sec, msg, g[k])
    <3>1. 1 .. k \subseteq 1 .. k + 1 /\ k + 1 \in 1 .. k + 1 /\ (k + 1) - 1 = k
      OBVIOUS
    <3> QED
      BY <1>8, <3>1 DEF SectionLoop
  <2>2. Agree(msg, v.buf, {}) /\ Short(v.buf)
    BY <1>4, <1>5, <1>6, <1>8 DEF Short
  <2>3. g[k] = SoMany(Len(v.buf), SubSeq(AllBack(sec, items), 1, k))
    BY <2>1, <2>2 DEF Packed, SectionAfter
  <2>4. ItemAt(sec, msg, Len(v.buf), Back(sec, item), Len(u.buf))
    BY <1>3, <1>8 DEF ItemAfter
  <2>5. PICK T, all : all \in Seq(T) /\ all = AllBack(sec, items) /\ Len(all) = Len(items)
                                 /\ all[k + 1] = Back(sec, item)
    <3>1. k + 1 \in 1 .. Len(items)
      OBVIOUS
    <3>2. AllBack(sec, items)[k + 1] = Back(sec, item)
      BY <1>1, <3>1, AllBackIs
    <3>3. AllBack(sec, items) \in Seq({Back(sec, x) : x \in S}) /\ Len(AllBack(sec, items)) = Len(items)
      BY AllBackIs
    <3> QED
      BY <3>2, <3>3, Zenon
  <2>6. Append(SubSeq(all, 1, k), all[k + 1]) = SubSeq(all, 1, k + 1)
    BY <2>5, TakeOneMore
  <2>7. readItem(sec, msg, SoMany(Len(v.buf), SubSeq(all, 1, k))) =
           SoMany(Len(u.buf), Append(SubSeq(all, 1, k), Back(sec, item)))
    BY <2>4, ReadItemIs
  <2> QED
    BY <2>1, <2>3, <2>5, <2>6, <2>7, Zenon
<1>9. SectionAfter(sec, w, u, items, k + 1)
  BY <1>8 DEF SectionAfter
<1>10. Packed(sec, w, u, items, k + 1)
  BY <1>4, <1>5, <1>6, <1>7, <1>9 DEF Packed
<1> QED
  BY <1>1, <1>10, Zenon

LEMMA SectionRoundTrip ==
    ASSUME NEW sec, NEW w \in Packer, Findable(w, {}), NEW S, NEW items \in Seq(S),
           \A i \in 1 .. Len(items) : FitItem(sec, items[i]),
           packSection(sec, w, items).ok
    PROVE  w.ok /\ Packed(sec, w, packSection(sec, w, items), items, Len(items))
<1>1. PICK n \in Nat : n = Len(items)
  OBVIOUS
<1>2. PICK f : /\ f[0] = w
               /\ \A k \in 1 .. n : f[k] = PackOne(sec, f[k - 1], items[k])
               /\ packSection(sec, w, items) = f[n]
  BY <1>1, PackSectionIs
<1>3. ASSUME NEW k \in Nat, k + 1 <= n
      PROVE  f[k + 1] = PackOne(sec, f[k], items[k + 1]) /\ FitItem(sec, items[k + 1])
  <2>1. k + 1 \in 1 .. n /\ (k + 1) - 1 = k
    BY <1>3
  <2> QED
    BY <1>1, <1>2, <2>1
<1>a. f[0] = w /\ packSection(sec, w, items) = f[n]
  BY <1>2
<1> DEFINE P(k) == k <= n /\ f[k].ok => w.ok /\ Packed(sec, w, f[k], items, k)
           T == {k \in Nat : P(k)}
<1>4. P(0)
  <2>1. CASE w.ok
    BY <1>a, <2>1, NoneYet, Zenon
  <2>2. CASE ~w.ok
    BY <1>a, <2>2
  <2> QED
    BY <2>1, <2>2
<1>5. ASSUME NEW k \in Nat, P(k) PROVE P(k + 1)
  <2> SUFFICES ASSUME k + 1 <= n, f[k + 1].ok PROVE w.ok /\ Packed(sec, w, f[k + 1], items, k + 1)
    OBVIOUS
  <2>1. f[k + 1] = PackOne(sec, f[k], items[k + 1]) /\ FitItem(sec, items[k + 1])
    BY <1>3
  <2>2. PICK v : v = f[k]
    OBVIOUS
  <2>3. v.ok
    BY <2>1, <2>2, NothingAfterFailure
  <2>4. k <= n
    OBVIOUS
  <2>5. w.ok /\ Packed(sec, w, v, items, k)
    BY <1>5, <2>2, <2>3, <2>4
  <2>6. k + 1 <= Len(items)
    BY <1>1
  <2>7. Packed(sec, w, PackOne(sec, v, items[k + 1]), items, k + 1)
    BY <2>1, <2>2, <2>5, <2>6, OneMore
  <2> QED
    BY <2>1, <2>2, <2>5, <2>7
<1>6. \A k \in Nat : k \in T
  <2> HIDE DEF P
  <2>1. 0 \in T
    BY <1>4
  <2>2. \A k \in Nat : k \in T => k + 1 \in T
    BY <1>5
  <2> HIDE DEF T
  <2> QED
    BY <2>1, <2>2, Induct
<1>7. P(n)
  <2> HIDE DEF P
  <2> QED
    BY <1>6
<1> QED
  BY <1>1, <1>a, <1>7

\* What is read of a whole section.
LEMMA SectionRead ==
    ASSUME NEW sec, NEW w, NEW u, NEW S, NEW items \in Seq(S),
           Packed(sec, w, u, items, Len(items)), NEW msg \in Seq(Octet),
           Agree(msg, u.buf, {}), Short(u.buf)
    PROVE  section(sec, msg, Len(w.buf), Len(items)) = SoMany(Len(u.buf), AllBack(sec, items))
<1>1. PICK n \in Nat : n = Len(items)
  OBVIOUS
<1>2. PICK g : /\ g[0] = SoMany(Len(w.buf), <<>>)
               /\ \A k \in 1 .. n : g[k] = readItem(sec, msg, g[k - 1])
               /\ section(sec, msg, Len(w.buf), n) = g[n]
  BY <1>1, SectionIs
<1>3. SectionLoop(sec, msg, Len(w.buf), g, n)
  BY <1>2 DEF SectionLoop
<1>4. g[n] = SoMany(Len(u.buf), SubSeq(AllBack(sec, items), 1, n))
  BY <1>1, <1>3 DEF Packed, SectionAfter
<1>5. SubSeq(AllBack(sec, items), 1, n) = AllBack(sec, items)
  <2>1. PICK T, all : all \in Seq(T) /\ all = AllBack(sec, items) /\ Len(all) = Len(items)
    <3>1. /\ AllBack(sec, items) \in Seq({Back(sec, x) : x \in S})
          /\ Len(AllBack(sec, items)) = Len(items)
      BY AllBackIs
    <3> QED
      BY <3>1, Zenon
  <2> QED
    BY <1>1, <2>1, TakeAll
<1>6. section(sec, msg, Len(w.buf), n) = g[n]
  BY <1>2
<1> QED
  BY <1>1, <1>4, <1>5, <1>6, Zenon

-----------------------------------------------------------------------------
(* Messages. *)

\* A message by its fields.
Msg6(id, flags, qd, an, ns, ar) ==
    [id |-> id, flags |-> flags, questions |-> qd, answers |-> an, authorities |-> ns,
     additionals |-> ar]

LEMMA TwoOctetsMore ==
    ASSUME NEW a \in Seq(Octet), NEW n \in Nat
    PROVE  \E b \in Seq(Octet) :
              /\ b = a \o U16(n) /\ Len(b) = Len(a) + 2
              /\ \A msg \in Seq(Octet), p \in Nat :
                    Holds(msg, p, b) => Holds(msg, p, a) /\ Holds(msg, p + Len(a), U16(n))
<1>1. PICK u \in Seq(Octet) : u = U16(n) /\ Len(u) = 2
  BY U16Is
<1>2. PICK b \in Seq(Octet) : b = a \o u /\ Len(b) = Len(a) + Len(u)
  BY ConcatIs
<1>3. ASSUME NEW msg \in Seq(Octet), NEW p \in Nat, Holds(msg, p, b)
      PROVE  Holds(msg, p, a) /\ Holds(msg, p + Len(a), u)
  BY <1>2, <1>3, HoldsParts
<1> QED
  BY <1>1, <1>2, <1>3

\* The octets of a header, and where its numbers are.
Header(a, b, c, d, e, f) == U16(a) \o U16(b) \o (U16(c) \o U16(d) \o U16(e) \o U16(f))

HeaderAt(msg, a, b, c, d, e, f) ==
    /\ Holds(msg, 0, U16(a)) /\ Holds(msg, 2, U16(b)) /\ Holds(msg, 4, U16(c))
    /\ Holds(msg, 6, U16(d)) /\ Holds(msg, 8, U16(e)) /\ Holds(msg, 10, U16(f))

LEMMA HeaderIs ==
    ASSUME NEW a \in Nat, NEW b \in Nat, NEW c \in Nat, NEW d \in Nat, NEW e \in Nat, NEW f \in Nat
    PROVE  \E h \in Seq(Octet) :
              /\ h = Header(a, b, c, d, e, f) /\ Len(h) = 12
              /\ \A msg \in Seq(Octet) : Holds(msg, 0, h) => HeaderAt(msg, a, b, c, d, e, f)
<1>1. PICK u \in Seq(Octet), v \in Seq(Octet) : u = U16(a) /\ Len(u) = 2 /\ v = U16(c) /\ Len(v) = 2
  BY U16Is
<1>2. PICK x \in Seq(Octet) :
         /\ x = u \o U16(b) /\ Len(x) = Len(u) + 2
         /\ \A msg \in Seq(Octet), p \in Nat :
               Holds(msg, p, x) => Holds(msg, p, u) /\ Holds(msg, p + Len(u), U16(b))
  BY TwoOctetsMore
<1>3. PICK y \in Seq(Octet) :
         /\ y = v \o U16(d) /\ Len(y) = Len(v) + 2
         /\ \A msg \in Seq(Octet), p \in Nat :
               Holds(msg, p, y) => Holds(msg, p, v) /\ Holds(msg, p + Len(v), U16(d))
  BY TwoOctetsMore
<1>4. PICK z \in Seq(Octet) :
         /\ z = y \o U16(e) /\ Len(z) = Len(y) + 2
         /\ \A msg \in Seq(Octet), p \in Nat :
               Holds(msg, p, z) => Holds(msg, p, y) /\ Holds(msg, p + Len(y), U16(e))
  BY TwoOctetsMore
<1>5. PICK t \in Seq(Octet) :
         /\ t = z \o U16(f) /\ Len(t) = Len(z) + 2
         /\ \A msg \in Seq(Octet), p \in Nat :
               Holds(msg, p, t) => Holds(msg, p, z) /\ Holds(msg, p + Len(z), U16(f))
  BY TwoOctetsMore
<1>6. PICK h \in Seq(Octet) : h = x \o t /\ Len(h) = Len(x) + Len(t)
  BY ConcatIs
<1>7. Len(x) = 4 /\ Len(y) = 4 /\ Len(z) = 6 /\ Len(t) = 8
  BY <1>1, <1>2, <1>3, <1>4, <1>5
<1>8. h = Header(a, b, c, d, e, f)
  <2>1. h = (u \o U16(b)) \o (((v \o U16(d)) \o U16(e)) \o U16(f))
    BY <1>2, <1>3, <1>4, <1>5, <1>6, Zenon
  <2> QED
    BY <1>1, <2>1 DEF Header
<1>9. ASSUME NEW msg \in Seq(Octet), Holds(msg, 0, h) PROVE HeaderAt(msg, a, b, c, d, e, f)
  <2>0. 0 \in Nat /\ 4 \in Nat /\ 0 + 2 = 2 /\ 0 + 4 = 4 /\ 4 + 2 = 6 /\ 4 + 4 = 8 /\ 4 + 6 = 10
    OBVIOUS
  <2>1. Holds(msg, 0, x) /\ Holds(msg, 4, t)
    <3>1. Holds(msg, 0, x) /\ Holds(msg, 0 + Len(x), t)
      BY <1>6, <1>9, <2>0, HoldsParts
    <3> QED
      BY <1>7, <2>0, <3>1
  <2>2. Holds(msg, 0, u) /\ Holds(msg, 2, U16(b))
    <3>1. Holds(msg, 0, u) /\ Holds(msg, 0 + Len(u), U16(b))
      BY <1>2, <2>0, <2>1
    <3> QED
      BY <1>1, <2>0, <3>1
  <2>3. Holds(msg, 4, z) /\ Holds(msg, 10, U16(f))
    <3>1. Holds(msg, 4, z) /\ Holds(msg, 4 + Len(z), U16(f))
      BY <1>5, <2>0, <2>1
    <3> QED
      BY <1>7, <2>0, <3>1
  <2>4. Holds(msg, 4, y) /\ Holds(msg, 8, U16(e))
    <3>1. Holds(msg, 4, y) /\ Holds(msg, 4 + Len(y), U16(e))
      BY <1>4, <2>0, <2>3
    <3> QED
      BY <1>7, <2>0, <3>1
  <2>5. Holds(msg, 4, v) /\ Holds(msg, 6, U16(d))
    <3>1. Holds(msg, 4, v) /\ Holds(msg, 4 + Len(v), U16(d))
      BY <1>3, <2>0, <2>4
    <3> QED
      BY <1>1, <2>0, <3>1
  <2> QED
    BY <1>1, <2>2, <2>3, <2>4, <2>5 DEF HeaderAt
<1>10. Len(h) = 12
  BY <1>6, <1>7
<1> QED
  BY <1>8, <1>9, <1>10

\* After a failure nothing more is packed.
LEMMA SectionFails ==
    ASSUME NEW sec, NEW w, ~w.ok, NEW S, NEW items \in Seq(S)
    PROVE  packSection(sec, w, items) = w
<1>1. PICK n \in Nat : n = Len(items)
  OBVIOUS
<1>2. PICK f : /\ f[0] = w
               /\ \A k \in 1 .. n : f[k] = PackOne(sec, f[k - 1], items[k])
               /\ packSection(sec, w, items) = f[n]
  BY <1>1, PackSectionIs
<1> DEFINE T == {k \in Nat : k <= n => f[k] = w}
<1>3. 0 \in T
  BY <1>2
<1>4. \A k \in Nat : k \in T => k + 1 \in T
  <2> SUFFICES ASSUME NEW k \in Nat, k <= n => f[k] = w, k + 1 <= n PROVE f[k + 1] = w
    OBVIOUS
  <2>1. k + 1 \in 1 .. n /\ (k + 1) - 1 = k /\ k <= n
    OBVIOUS
  <2>2. f[k + 1] = PackOne(sec, w, items[k + 1])
    BY <1>2, <2>1
  <2> QED
    BY <2>2, NothingAfterFailure
<1>5. \A k \in Nat : k \in T
  <2> HIDE DEF T
  <2> QED
    BY <1>3, <1>4, Induct
<1>6. f[n] = w
  BY <1>5
<1> QED
  BY <1>2, <1>6

\* The packer after the header and after each of the sections.
Starting(m) == [buf |-> Header(m.id, m.flags, Len(m.questions), Len(m.answers),
                               Len(m.authorities), Len(m.additionals)),
                comp |-> <<>>, ok |-> TRUE]
AfterQd(m) == packSection(1, Starting(m), m.questions)
AfterAn(m) == packSection(2, AfterQd(m), m.answers)
AfterNs(m) == packSection(3, AfterAn(m), m.authorities)
AfterAr(m) == packSection(4, AfterNs(m), m.additionals)

LEMMA PackIs ==
    ASSUME NEW m
    PROVE  Pack(m) = [ok |-> AfterAr(m).ok /\ Len(AfterAr(m).buf) <= MaxMessage,
                      data |-> AfterAr(m).buf]
  BY Zenon DEF Pack, AfterAr, AfterNs, AfterAn, AfterQd, Starting, Header

LEMMA FitMessageIs ==
    ASSUME NEW m \in FitMessage
    PROVE  /\ m = Msg6(m.id, m.flags, m.questions, m.answers, m.authorities, m.additionals)
           /\ m.id \in Number16 /\ m.flags \in Number16 /\ m.questions \in Seq(FitQuestion)
           /\ m.answers \in Seq(FitRR) /\ m.authorities \in Seq(FitRR)
           /\ m.additionals \in Seq(FitRR)
  BY DEF FitMessage, Msg6

LEMMA StartingIs ==
    ASSUME NEW m \in FitMessage
    PROVE  /\ Starting(m) \in Packer /\ Starting(m).ok /\ Findable(Starting(m), {})
           /\ Len(Starting(m).buf) = 12
           /\ \A msg \in Seq(Octet) :
                 Agree(msg, Starting(m).buf, {}) =>
                    HeaderAt(msg, m.id, m.flags, Len(m.questions), Len(m.answers),
                             Len(m.authorities), Len(m.additionals))
<1>1. PICK a, b, c, d, e, f :
         /\ a = m.id /\ b = m.flags /\ c = Len(m.questions) /\ d = Len(m.answers)
         /\ e = Len(m.authorities) /\ f = Len(m.additionals)
  OBVIOUS
<1>2. a \in Nat /\ b \in Nat
  BY <1>1, FitMessageIs, IsWide16 DEF Wide16
<1>3. c \in Nat /\ d \in Nat /\ e \in Nat /\ f \in Nat
  BY <1>1, FitMessageIs
<1>4. PICK h \in Seq(Octet) :
         /\ h = Header(a, b, c, d, e, f) /\ Len(h) = 12
         /\ \A msg \in Seq(Octet) : Holds(msg, 0, h) => HeaderAt(msg, a, b, c, d, e, f)
  BY <1>2, <1>3, HeaderIs
<1>5. PICK w : w = Starting(m)
  OBVIOUS
<1>6. w = [buf |-> h, comp |-> <<>>, ok |-> TRUE]
  BY <1>1, <1>4, <1>5 DEF Starting
<1>7. w.buf = h /\ w.comp = <<>> /\ w.ok
  BY <1>6
<1>8. w \in Packer
  <2>1. <<>> \in Table
    <3>1. {} \in SUBSET Name /\ <<>> \in [{} -> Nat]
      OBVIOUS
    <3> QED
      BY <3>1 DEF Table
  <2> QED
    BY <1>6, <2>1 DEF Packer
<1>9. Findable(w, {})
  <2>1. DOMAIN w.comp = {}
    BY <1>7
  <2> QED
    BY <2>1 DEF Findable
<1>10. ASSUME NEW msg \in Seq(Octet), Agree(msg, h, {}) PROVE Holds(msg, 0, h)
  <2>1. Len(h) <= Len(msg) /\ \A i \in 1 .. Len(h) : msg[i] = h[i]
    BY <1>10 DEF Agree
  <2>2. 0 + Len(h) = Len(h) /\ \A i \in 1 .. Len(h) : 0 + i = i
    BY <1>4
  <2> QED
    BY <2>1, <2>2 DEF Holds
<1> QED
  BY <1>1, <1>4, <1>5, <1>7, <1>8, <1>9, <1>10

\* The sections follow one another.
Chained(m) ==
    /\ Packed(1, Starting(m), AfterQd(m), m.questions, Len(m.questions))
    /\ Packed(2, AfterQd(m), AfterAn(m), m.answers, Len(m.answers))
    /\ Packed(3, AfterAn(m), AfterNs(m), m.authorities, Len(m.authorities))
    /\ Packed(4, AfterNs(m), AfterAr(m), m.additionals, Len(m.additionals))

LEMMA RecordsFit ==
    ASSUME NEW sec \in {2, 3, 4}, NEW rrs \in Seq(FitRR)
    PROVE  \A i \in 1 .. Len(rrs) : FitItem(sec, rrs[i])
<1>1. sec # 1
  OBVIOUS
<1>2. ASSUME NEW i \in 1 .. Len(rrs) PROVE rrs[i] \in FitRR
  OBVIOUS
<1> QED
  BY <1>1, <1>2 DEF FitItem, FitRR

LEMMA QuestionsFit ==
    ASSUME NEW qs \in Seq(FitQuestion)
    PROVE  \A i \in 1 .. Len(qs) : FitItem(1, qs[i])
<1>1. ASSUME NEW i \in 1 .. Len(qs) PROVE qs[i] \in FitQuestion
  OBVIOUS
<1> QED
  BY <1>1 DEF FitItem

LEMMA MessageChained ==
    ASSUME NEW m \in FitMessage, AfterAr(m).ok
    PROVE  Chained(m)
<1>1. /\ m.questions \in Seq(FitQuestion) /\ m.answers \in Seq(FitRR)
      /\ m.authorities \in Seq(FitRR) /\ m.additionals \in Seq(FitRR)
  BY FitMessageIs
<1>2. PICK s, q, a, n, r :
         /\ s = Starting(m) /\ q = AfterQd(m) /\ a = AfterAn(m) /\ n = AfterNs(m)
         /\ r = AfterAr(m)
  OBVIOUS
<1>3. /\ q = packSection(1, s, m.questions) /\ a = packSection(2, q, m.answers)
      /\ n = packSection(3, a, m.authorities) /\ r = packSection(4, n, m.additionals)
  BY <1>2 DEF AfterQd, AfterAn, AfterNs, AfterAr
<1>4. s \in Packer /\ Findable(s, {})
  BY <1>2, StartingIs
<1>5. r.ok
  BY <1>2
<1>6. n.ok
  BY <1>1, <1>3, <1>5, SectionFails
<1>7. a.ok
  BY <1>1, <1>3, <1>6, SectionFails
<1>8. q.ok
  BY <1>1, <1>3, <1>7, SectionFails
<1>9. Packed(1, s, q, m.questions, Len(m.questions))
  BY <1>1, <1>3, <1>4, <1>8, QuestionsFit, SectionRoundTrip
<1>10. q \in Packer /\ Findable(q, {})
  BY <1>9 DEF Packed
<1>11. Packed(2, q, a, m.answers, Len(m.answers))
  BY <1>1, <1>3, <1>7, <1>10, RecordsFit, SectionRoundTrip
<1>12. a \in Packer /\ Findable(a, {})
  BY <1>11 DEF Packed
<1>13. Packed(3, a, n, m.authorities, Len(m.authorities))
  BY <1>1, <1>3, <1>6, <1>12, RecordsFit, SectionRoundTrip
<1>14. n \in Packer /\ Findable(n, {})
  BY <1>13 DEF Packed
<1>15. Packed(4, n, r, m.additionals, Len(m.additionals))
  BY <1>1, <1>3, <1>5, <1>14, RecordsFit, SectionRoundTrip
<1> QED
  BY <1>2, <1>9, <1>11, <1>13, <1>15 DEF Chained

LEMMA PackedSize ==
    ASSUME NEW sec, NEW w \in Packer, NEW u, NEW items, NEW k \in Nat, Packed(sec, w, u, items, k)
    PROVE  /\ u \in Packer /\ Len(u.buf) \in Nat /\ Len(w.buf) \in Nat
           /\ Len(w.buf) + k <= Len(u.buf)
           /\ \A msg \in Seq(Octet) : Agree(msg, u.buf, {}) => Agree(msg, w.buf, {})
<1>1. /\ u \in Packer /\ Len(w.buf) + k <= Len(u.buf)
      /\ \A msg \in Seq(Octet) : Agree(msg, u.buf, {}) => Agree(msg, w.buf, {})
  BY DEF Packed
<1> QED
  BY <1>1, BufferIs

LEMMA AddedUp ==
    ASSUME NEW a \in Nat, NEW b \in Nat, NEW c \in Nat, NEW d \in Nat, NEW e \in Nat, e <= 9000,
           NEW h \in Nat, NEW i \in Nat, NEW j \in Nat, NEW k \in Nat,
           a + h <= b, b + i <= c, c + j <= d, d + k <= e
    PROVE  /\ a <= e /\ b < 65536 /\ c < 65536 /\ d < 65536 /\ e < 65536
           /\ h < 65536 /\ i < 65536 /\ j < 65536 /\ k < 65536
  BY SMT

\* Every number of the header fits into 16 bits, and every offset.
SizesOf(m) ==
    /\ Short(AfterQd(m).buf) /\ Short(AfterAn(m).buf) /\ Short(AfterNs(m).buf)
    /\ Short(AfterAr(m).buf)
    /\ Wide16(m.id) /\ Wide16(m.flags) /\ Wide16(Len(m.questions)) /\ Wide16(Len(m.answers))
    /\ Wide16(Len(m.authorities)) /\ Wide16(Len(m.additionals))

AgreesWith(msg, m) ==
    /\ Agree(msg, Starting(m).buf, {}) /\ Agree(msg, AfterQd(m).buf, {})
    /\ Agree(msg, AfterAn(m).buf, {}) /\ Agree(msg, AfterNs(m).buf, {})
    /\ Agree(msg, AfterAr(m).buf, {})

LEMMA MessagePacked ==
    ASSUME NEW m \in FitMessage, Pack(m).ok
    PROVE  /\ Pack(m).data = AfterAr(m).buf /\ Pack(m).data \in Seq(Octet)
           /\ Len(Pack(m).data) \in Nat /\ 12 <= Len(Pack(m).data)
           /\ Chained(m) /\ SizesOf(m) /\ AgreesWith(Pack(m).data, m)
<1>1. PICK p, ok : p = Pack(m) /\ ok = (AfterAr(m).ok /\ Len(AfterAr(m).buf) <= MaxMessage)
  OBVIOUS
<1>2. p = [ok |-> ok, data |-> AfterAr(m).buf]
  BY <1>1, PackIs, Zenon
<1>3. p.ok = ok /\ p.data = AfterAr(m).buf
  BY <1>2
<1>4. AfterAr(m).ok /\ Len(AfterAr(m).buf) <= MaxMessage
  BY <1>1, <1>3, Zenon
<1>5. Chained(m)
  BY <1>4, MessageChained
<1>6. PICK s, q, a, n, r :
         /\ s = Starting(m) /\ q = AfterQd(m) /\ a = AfterAn(m) /\ n = AfterNs(m)
         /\ r = AfterAr(m)
  OBVIOUS
<1>7. PICK h, i, j, k : /\ h = Len(m.questions) /\ i = Len(m.answers)
                        /\ j = Len(m.authorities) /\ k = Len(m.additionals)
  OBVIOUS
<1>8. h \in Nat /\ i \in Nat /\ j \in Nat /\ k \in Nat
  BY <1>7, FitMessageIs
<1>9. /\ Packed(1, s, q, m.questions, h) /\ Packed(2, q, a, m.answers, i)
      /\ Packed(3, a, n, m.authorities, j) /\ Packed(4, n, r, m.additionals, k)
  BY <1>5, <1>6, <1>7 DEF Chained
<1>10. s \in Packer /\ Len(s.buf) = 12
  BY <1>6, StartingIs
<1>11. /\ q \in Packer /\ Len(q.buf) \in Nat /\ Len(s.buf) \in Nat /\ Len(s.buf) + h <= Len(q.buf)
       /\ \A msg \in Seq(Octet) : Agree(msg, q.buf, {}) => Agree(msg, s.buf, {})
  BY <1>8, <1>9, <1>10, PackedSize
<1>12. /\ a \in Packer /\ Len(a.buf) \in Nat /\ Len(q.buf) + i <= Len(a.buf)
       /\ \A msg \in Seq(Octet) : Agree(msg, a.buf, {}) => Agree(msg, q.buf, {})
  BY <1>8, <1>9, <1>11, PackedSize
<1>13. /\ n \in Packer /\ Len(n.buf) \in Nat /\ Len(a.buf) + j <= Len(n.buf)
       /\ \A msg \in Seq(Octet) : Agree(msg, n.buf, {}) => Agree(msg, a.buf, {})
  BY <1>8, <1>9, <1>12, PackedSize
<1>14. /\ r \in Packer /\ Len(r.buf) \in Nat /\ Len(n.buf) + k <= Len(r.buf)
       /\ \A msg \in Seq(Octet) : Agree(msg, r.buf, {}) => Agree(msg, n.buf, {})
  BY <1>8, <1>9, <1>13, PackedSize
<1>15. Len(r.buf) <= 9000
  <2>1. PICK x \in Nat : x = MaxMessage
    BY CodecAssumption, SMTT(60)
  <2>2. PICK y \in Nat : y = Len(r.buf)
    BY <1>14
  <2>3. y <= x
    BY <1>4, <1>6, <2>1, <2>2, Zenon
  <2>4. x <= 9000
    BY <2>1, CodecAssumption
  <2> QED
    BY <2>2, <2>3, <2>4
<1>16. PICK ls, lq, la, ln, lr :
          /\ ls = Len(s.buf) /\ lq = Len(q.buf) /\ la = Len(a.buf) /\ ln = Len(n.buf)
          /\ lr = Len(r.buf)
  OBVIOUS
<1>17. /\ ls \in Nat /\ lq \in Nat /\ la \in Nat /\ ln \in Nat /\ lr \in Nat /\ lr <= 9000
       /\ ls + h <= lq /\ lq + i <= la /\ la + j <= ln /\ ln + k <= lr
  BY <1>11, <1>12, <1>13, <1>14, <1>15, <1>16
<1>18. /\ ls <= lr /\ lq < 65536 /\ la < 65536 /\ ln < 65536 /\ lr < 65536
       /\ h < 65536 /\ i < 65536 /\ j < 65536 /\ k < 65536
  BY <1>8, <1>17, AddedUp
<1>19. SizesOf(m)
  <2>1. Short(q.buf) /\ Short(a.buf) /\ Short(n.buf) /\ Short(r.buf)
    BY <1>16, <1>18 DEF Short
  <2>2. Wide16(h) /\ Wide16(i) /\ Wide16(j) /\ Wide16(k)
    BY <1>8, <1>18 DEF Wide16
  <2>3. Wide16(m.id) /\ Wide16(m.flags)
    BY FitMessageIs, IsWide16
  <2> QED
    BY <1>6, <1>7, <2>1, <2>2, <2>3 DEF SizesOf
<1>20. PICK data \in Seq(Octet) : data = r.buf
  BY <1>14, BufferIs
<1>21. Agree(data, data, {})
  BY DEF Agree
<1>22. AgreesWith(data, m)
  <2>1. Agree(data, r.buf, {})
    BY <1>20, <1>21
  <2>2. Agree(data, n.buf, {})
    BY <1>14, <2>1
  <2>3. Agree(data, a.buf, {})
    BY <1>13, <2>2
  <2>4. Agree(data, q.buf, {})
    BY <1>12, <2>3
  <2>5. Agree(data, s.buf, {})
    BY <1>11, <2>4
  <2> QED
    BY <1>6, <2>1, <2>2, <2>3, <2>4, <2>5 DEF AgreesWith
<1>23. 12 <= Len(data) /\ Len(data) \in Nat
  BY <1>10, <1>14, <1>16, <1>18, <1>20
<1>24. data = Pack(m).data
  BY <1>1, <1>3, <1>6, <1>20
<1> QED
  BY <1>1, <1>3, <1>5, <1>19, <1>20, <1>22, <1>23, <1>24

\* The sections of a packet, each read from where the one before it ended.
QdOf(msg) == section(1, msg, 12, Uint16(msg, 4))
After2(msg, before) == IF ~before.ok THEN Refused ELSE section(2, msg, before.next, Uint16(msg, 6))
After3(msg, before) == IF ~before.ok THEN Refused ELSE section(3, msg, before.next, Uint16(msg, 8))
After4(msg, before) == IF ~before.ok THEN Refused ELSE section(4, msg, before.next, Uint16(msg, 10))

LEMMA UnpackIs ==
    ASSUME NEW msg, NEW qd, qd = QdOf(msg), NEW an, an = After2(msg, qd), NEW ns, ns = After3(msg, an),
           NEW ar, ar = After4(msg, ns)
    PROVE  UnpackMessage(msg) =
              IF Len(msg) < 12 THEN Refused
              ELSE IF ~ar.ok THEN Refused
              ELSE [ok |-> TRUE, msg |-> Msg6(Uint16(msg, 0), Uint16(msg, 2),
                                              qd.items, an.items, ns.items, ar.items)]
<1>1. 2 + 2 * 2 = 6 /\ 2 + 2 * 3 = 8 /\ 2 + 2 * 4 = 10
  BY SMT
<1> QED
  BY <1>1, ZenonT(90) DEF UnpackMessage, QdOf, After2, After3, After4, Msg6

LEMMA SoManyIs ==
    ASSUME NEW next, NEW items, NEW s, s = SoMany(next, items)
    PROVE  s.ok /\ s.next = next /\ s.items = items
  BY DEF SoMany

LEMMA ReceivedMessageIs ==
    ASSUME NEW m \in FitMessage
    PROVE  ReceivedMessage(m) =
              Msg6(m.id, m.flags, AllBack(1, m.questions), AllBack(2, m.answers),
                   AllBack(3, m.authorities), AllBack(4, m.additionals))
<1>1. PICK i, f, q, a, n, r : m = Msg6(i, f, q, a, n, r)
  BY FitMessageIs
<1>2. m.id = i /\ m.flags = f /\ m.questions = q /\ m.answers = a /\ m.authorities = n
      /\ m.additionals = r
  BY <1>1 DEF Msg6
<1>3. PICK x, y, z : x = AllBack(2, a) /\ y = AllBack(3, n) /\ z = AllBack(4, r)
  OBVIOUS
<1>4. AllBack(1, q) = q
  <2>1. q \in Seq(FitQuestion)
    BY <1>2, FitMessageIs
  <2>2. AllBack(1, q) = [j \in DOMAIN q |-> q[j]]
    BY DEF AllBack, Back
  <2> QED
    BY <2>1, <2>2
<1>5. ReceivedMessage(m) = [m EXCEPT !.answers = x, !.authorities = y, !.additionals = z]
  <2>1. /\ x = [j \in DOMAIN m.answers |-> Received(m.answers[j])]
        /\ y = [j \in DOMAIN m.authorities |-> Received(m.authorities[j])]
        /\ z = [j \in DOMAIN m.additionals |-> Received(m.additionals[j])]
    BY <1>2, <1>3 DEF AllBack, Back
  <2> QED
    BY <2>1, Zenon DEF ReceivedMessage
<1>6. [m EXCEPT !.answers = x, !.authorities = y, !.additionals = z] =
         [[[m EXCEPT !.answers = x] EXCEPT !.authorities = y] EXCEPT !.additionals = z]
  BY Zenon
<1>7. [Msg6(i, f, q, a, n, r) EXCEPT !.answers = x] = Msg6(i, f, q, x, n, r)
  BY DEF Msg6
<1>8. [Msg6(i, f, q, x, n, r) EXCEPT !.authorities = y] = Msg6(i, f, q, x, y, r)
  BY DEF Msg6
<1>9. [Msg6(i, f, q, x, y, r) EXCEPT !.additionals = z] = Msg6(i, f, q, x, y, z)
  BY DEF Msg6
<1>10. ReceivedMessage(m) = Msg6(i, f, q, x, y, z)
  BY <1>1, <1>5, <1>6, <1>7, <1>8, <1>9, Zenon
<1> QED
  BY <1>2, <1>3, <1>4, <1>10, Zenon

\* Every section of what was packed is read, to the end of it.
SectionsOf(msg, m) ==
    /\ section(1, msg, 12, Len(m.questions)) = SoMany(Len(AfterQd(m).buf), AllBack(1, m.questions))
    /\ section(2, msg, Len(AfterQd(m).buf), Len(m.answers)) =
          SoMany(Len(AfterAn(m).buf), AllBack(2, m.answers))
    /\ section(3, msg, Len(AfterAn(m).buf), Len(m.authorities)) =
          SoMany(Len(AfterNs(m).buf), AllBack(3, m.authorities))
    /\ section(4, msg, Len(AfterNs(m).buf), Len(m.additionals)) =
          SoMany(Len(AfterAr(m).buf), AllBack(4, m.additionals))

NumbersOf(msg, m) ==
    /\ Uint16(msg, 0) = m.id /\ Uint16(msg, 2) = m.flags
    /\ Uint16(msg, 4) = Len(m.questions) /\ Uint16(msg, 6) = Len(m.answers)
    /\ Uint16(msg, 8) = Len(m.authorities) /\ Uint16(msg, 10) = Len(m.additionals)

LEMMA MessageRead ==
    ASSUME NEW m \in FitMessage, Chained(m), SizesOf(m), NEW msg \in Seq(Octet), AgreesWith(msg, m)
    PROVE  NumbersOf(msg, m) /\ SectionsOf(msg, m)
<1>1. /\ m.questions \in Seq(FitQuestion) /\ m.answers \in Seq(FitRR)
      /\ m.authorities \in Seq(FitRR) /\ m.additionals \in Seq(FitRR)
  BY FitMessageIs
<1>2. HeaderAt(msg, m.id, m.flags, Len(m.questions), Len(m.answers), Len(m.authorities),
               Len(m.additionals))
  BY StartingIs DEF AgreesWith
<1>3. NumbersOf(msg, m)
  <2>1. PICK a, b, c, d, e, f :
           /\ a = m.id /\ b = m.flags /\ c = Len(m.questions) /\ d = Len(m.answers)
           /\ e = Len(m.authorities) /\ f = Len(m.additionals)
    OBVIOUS
  <2>2. Wide16(a) /\ Wide16(b) /\ Wide16(c) /\ Wide16(d) /\ Wide16(e) /\ Wide16(f)
    BY <2>1 DEF SizesOf
  <2>3. HeaderAt(msg, a, b, c, d, e, f)
    BY <1>2, <2>1
  <2>4. 0 \in Nat /\ 2 \in Nat /\ 4 \in Nat /\ 6 \in Nat /\ 8 \in Nat /\ 10 \in Nat
    OBVIOUS
  <2>5. Uint16(msg, 0) = a /\ Uint16(msg, 2) = b /\ Uint16(msg, 4) = c
    BY <2>2, <2>3, <2>4, U16Parts DEF HeaderAt
  <2>6. Uint16(msg, 6) = d /\ Uint16(msg, 8) = e /\ Uint16(msg, 10) = f
    BY <2>2, <2>3, <2>4, U16Parts DEF HeaderAt
  <2> QED
    BY <2>1, <2>5, <2>6 DEF NumbersOf
<1>4. Len(Starting(m).buf) = 12
  BY StartingIs
<1>5. section(1, msg, 12, Len(m.questions)) = SoMany(Len(AfterQd(m).buf), AllBack(1, m.questions))
  <2>1. Packed(1, Starting(m), AfterQd(m), m.questions, Len(m.questions))
    BY DEF Chained
  <2>2. Agree(msg, AfterQd(m).buf, {}) /\ Short(AfterQd(m).buf)
    BY DEF SizesOf, AgreesWith
  <2> QED
    BY <1>1, <1>4, <2>1, <2>2, SectionRead
<1>6. section(2, msg, Len(AfterQd(m).buf), Len(m.answers)) =
         SoMany(Len(AfterAn(m).buf), AllBack(2, m.answers))
  <2>1. Packed(2, AfterQd(m), AfterAn(m), m.answers, Len(m.answers))
    BY DEF Chained
  <2>2. Agree(msg, AfterAn(m).buf, {}) /\ Short(AfterAn(m).buf)
    BY DEF SizesOf, AgreesWith
  <2> QED
    BY <1>1, <2>1, <2>2, SectionRead
<1>7. section(3, msg, Len(AfterAn(m).buf), Len(m.authorities)) =
         SoMany(Len(AfterNs(m).buf), AllBack(3, m.authorities))
  <2>1. Packed(3, AfterAn(m), AfterNs(m), m.authorities, Len(m.authorities))
    BY DEF Chained
  <2>2. Agree(msg, AfterNs(m).buf, {}) /\ Short(AfterNs(m).buf)
    BY DEF SizesOf, AgreesWith
  <2> QED
    BY <1>1, <2>1, <2>2, SectionRead
<1>8. section(4, msg, Len(AfterNs(m).buf), Len(m.additionals)) =
         SoMany(Len(AfterAr(m).buf), AllBack(4, m.additionals))
  <2>1. Packed(4, AfterNs(m), AfterAr(m), m.additionals, Len(m.additionals))
    BY DEF Chained
  <2>2. Agree(msg, AfterAr(m).buf, {}) /\ Short(AfterAr(m).buf)
    BY DEF SizesOf, AgreesWith
  <2> QED
    BY <1>1, <2>1, <2>2, SectionRead
<1> QED
  BY <1>3, <1>5, <1>6, <1>7, <1>8 DEF SectionsOf

\* The four sections of the packet that was made of a message.
LEMMA PackedSections ==
    ASSUME NEW m \in FitMessage, Pack(m).ok, NEW data, data = Pack(m).data,
           NEW qd, qd = QdOf(data), NEW an, an = After2(data, qd), NEW ns, ns = After3(data, an),
           NEW ar, ar = After4(data, ns)
    PROVE  /\ qd.items = AllBack(1, m.questions) /\ an.items = AllBack(2, m.answers)
           /\ ns.items = AllBack(3, m.authorities) /\ ar.items = AllBack(4, m.additionals)
           /\ ar.ok /\ ar.next = Len(data)
<1>1. data \in Seq(Octet) /\ data = AfterAr(m).buf
  BY MessagePacked
<1>2. Chained(m) /\ SizesOf(m) /\ AgreesWith(data, m)
  BY MessagePacked
<1>3. NumbersOf(data, m) /\ SectionsOf(data, m)
  BY <1>1, <1>2, MessageRead
<1>4. qd = SoMany(Len(AfterQd(m).buf), AllBack(1, m.questions))
  BY <1>3, Zenon DEF QdOf, NumbersOf, SectionsOf
<1>5. qd.ok /\ qd.next = Len(AfterQd(m).buf) /\ qd.items = AllBack(1, m.questions)
  BY <1>4, SoManyIs
<1>6. an = SoMany(Len(AfterAn(m).buf), AllBack(2, m.answers))
  BY <1>3, <1>5, Zenon DEF After2, NumbersOf, SectionsOf
<1>7. an.ok /\ an.next = Len(AfterAn(m).buf) /\ an.items = AllBack(2, m.answers)
  BY <1>6, SoManyIs
<1>8. ns = SoMany(Len(AfterNs(m).buf), AllBack(3, m.authorities))
  BY <1>3, <1>7, Zenon DEF After3, NumbersOf, SectionsOf
<1>9. ns.ok /\ ns.next = Len(AfterNs(m).buf) /\ ns.items = AllBack(3, m.authorities)
  BY <1>8, SoManyIs
<1>10. ar = SoMany(Len(AfterAr(m).buf), AllBack(4, m.additionals))
  BY <1>3, <1>9, Zenon DEF After4, NumbersOf, SectionsOf
<1>11. ar.ok /\ ar.next = Len(AfterAr(m).buf) /\ ar.items = AllBack(4, m.additionals)
  BY <1>10, SoManyIs
<1> QED
  BY <1>1, <1>5, <1>7, <1>9, <1>11

\* A message that can be represented and that Pack accepts is what UnpackMessage makes
\* of its octets, with the addresses, texts and types as the wire has them.
THEOREM MessageRoundTrip ==
    ASSUME NEW m \in FitMessage, Pack(m).ok
    PROVE  /\ Pack(m).data \in Seq(Octet)
           /\ UnpackMessage(Pack(m).data) = [ok |-> TRUE, msg |-> ReceivedMessage(m)]
<1>1. PICK data \in Seq(Octet) : data = Pack(m).data
  BY MessagePacked
<1>2. Len(data) \in Nat /\ 12 <= Len(data) /\ Chained(m) /\ SizesOf(m) /\ AgreesWith(data, m)
  BY <1>1, MessagePacked
<1>3. NumbersOf(data, m)
  BY <1>2, MessageRead
<1>4. PICK qd, an, ns, ar : /\ qd = QdOf(data) /\ an = After2(data, qd) /\ ns = After3(data, an)
                            /\ ar = After4(data, ns)
  OBVIOUS
<1>5. /\ qd.items = AllBack(1, m.questions) /\ an.items = AllBack(2, m.answers)
      /\ ns.items = AllBack(3, m.authorities) /\ ar.items = AllBack(4, m.additionals) /\ ar.ok
  BY <1>1, <1>4, PackedSections
<1>6. ~(Len(data) < 12)
  BY <1>2
<1>7. UnpackMessage(data) =
         [ok |-> TRUE, msg |-> Msg6(Uint16(data, 0), Uint16(data, 2),
                                    qd.items, an.items, ns.items, ar.items)]
  <2>1. UnpackMessage(data) =
           IF Len(data) < 12 THEN Refused
           ELSE IF ~ar.ok THEN Refused
           ELSE [ok |-> TRUE, msg |-> Msg6(Uint16(data, 0), Uint16(data, 2),
                                           qd.items, an.items, ns.items, ar.items)]
    BY <1>4, UnpackIs
  <2> QED
    BY <1>5, <1>6, <2>1, Zenon
<1>8. Msg6(Uint16(data, 0), Uint16(data, 2), qd.items, an.items, ns.items, ar.items) =
         ReceivedMessage(m)
  BY <1>3, <1>5, ReceivedMessageIs, Zenon DEF NumbersOf
<1> QED
  BY <1>1, <1>7, <1>8, Zenon

-----------------------------------------------------------------------------
(* A packet that is cut off. *)

\* The packet cut is msg up to an octet of it.
Begins(cut, msg) ==
    /\ cut \in Seq(Octet) /\ msg \in Seq(Octet) /\ Len(cut) <= Len(msg)
    /\ \A i \in 1 .. Len(cut) : cut[i] = msg[i]

LEMMA BeginsIs ==
    ASSUME NEW cut, NEW msg, Begins(cut, msg)
    PROVE  /\ cut \in Seq(Octet) /\ msg \in Seq(Octet) /\ Len(cut) \in Nat /\ Len(msg) \in Nat
           /\ Len(cut) <= Len(msg) /\ \A i \in 1 .. Len(cut) : cut[i] = msg[i]
  BY DEF Begins

LEMMA SameOctet ==
    ASSUME NEW cut, NEW msg, Begins(cut, msg), NEW p \in Nat, p < Len(cut)
    PROVE  cut[p + 1] = msg[p + 1] /\ cut[p + 1] \in Nat /\ cut[p + 1] <= 255
<1>1. p + 1 \in 1 .. Len(cut)
  BY BeginsIs
<1> QED
  BY <1>1, BeginsIs, OctetAt

\* So many octets after an offset.
Octets(msg, offset, l) == SubSeq(msg, offset + 1, offset + l)

LEMMA SamePart ==
    ASSUME NEW cut, NEW msg, Begins(cut, msg), NEW p \in Nat, NEW n \in Nat, p + n <= Len(cut)
    PROVE  Octets(cut, p, n) = Octets(msg, p, n)
<1>1. /\ cut \in Seq(Octet) /\ msg \in Seq(Octet) /\ Len(cut) \in Nat /\ Len(msg) \in Nat
      /\ Len(cut) <= Len(msg)
  BY BeginsIs
<1>2. PICK a \in Seq(Octet) : /\ a = SubSeq(cut, p + 1, p + n) /\ Len(a) = n
                              /\ \A i \in 1 .. n : a[i] = cut[p + i]
  BY <1>1, SubSeqIs, ZenonT(90)
<1>3. p + n <= Len(msg)
  BY <1>1
<1>4. PICK b \in Seq(Octet) : /\ b = SubSeq(msg, p + 1, p + n) /\ Len(b) = n
                              /\ \A i \in 1 .. n : b[i] = msg[p + i]
  BY <1>1, <1>3, SubSeqIs, ZenonT(90)
<1>5. ASSUME NEW i \in 1 .. Len(b) PROVE a[i] = b[i]
  <2>1. p + i \in 1 .. Len(cut) /\ i \in 1 .. n
    BY <1>1, <1>4
  <2>2. cut[p + i] = msg[p + i]
    BY <2>1, BeginsIs
  <2> QED
    BY <1>2, <1>4, <2>1, <2>2
<1>6. a = b
  BY <1>2, <1>4, <1>5, SameOctets
<1> QED
  BY <1>2, <1>4, <1>6 DEF Octets

LEMMA SameUint16 ==
    ASSUME NEW cut, NEW msg, Begins(cut, msg), NEW p \in Nat, p + 2 <= Len(cut)
    PROVE  Uint16(cut, p) = Uint16(msg, p) /\ Uint16(cut, p) \in Nat
<1>1. Len(cut) \in Nat
  BY BeginsIs
<1>2. PICK q \in Nat : q = p + 1 /\ q < Len(cut) /\ p < Len(cut) /\ q + 1 = p + 2
  BY <1>1
<1>3. cut[p + 1] = msg[p + 1] /\ cut[p + 1] \in Nat
  BY <1>2, SameOctet
<1>4. cut[q + 1] = msg[q + 1] /\ cut[q + 1] \in Nat
  BY <1>2, SameOctet
<1>5. cut[p + 2] = msg[p + 2] /\ cut[p + 2] \in Nat
  BY <1>2, <1>4
<1> QED
  BY <1>3, <1>5 DEF Uint16

\* A round of readName is refused or does the same as in the whole packet.
LEMMA SameRound ==
    ASSUME NEW cut, NEW msg, Begins(cut, msg), NEW r \in Reading
    PROVE  readLabel(cut, r).state = "refused" \/ readLabel(cut, r) = readLabel(msg, r)
<1> PICK p, c, s : p = r.pos /\ c = cut[r.pos + 1] /\ s = [r EXCEPT !.state = "refused"]
  OBVIOUS
<1>0. /\ p \in Nat /\ r.jumps \in Nat /\ MaxJumps \in Nat /\ MaxLabel \in Nat
      /\ cut \in Seq(Octet) /\ msg \in Seq(Octet) /\ Len(cut) \in Nat /\ Len(msg) \in Nat
      /\ Len(cut) <= Len(msg) /\ s.state = "refused"
  <2>1. s.state = "refused"
    BY RefusedReading
  <2>2. p \in Nat /\ r.jumps \in Nat
    BY ReadingType
  <2>3. MaxJumps \in Nat /\ MaxLabel \in Nat
    BY CodecAssumption, SMTT(60)
  <2> QED
    BY <2>1, <2>2, <2>3, BeginsIs
<1>1. CASE r.state # "reading"
  BY <1>1 DEF readLabel
<1>2. CASE r.state = "reading" /\ p >= Len(cut)
  <2>1. readLabel(cut, r) = s
    BY <1>2 DEF readLabel
  <2> QED
    BY <1>0, <2>1
<1>3. CASE r.state = "reading" /\ p < Len(cut)
  <2>1. c = msg[p + 1] /\ c \in Nat /\ c <= 255 /\ p < Len(msg) /\ ~(p >= Len(cut))
    BY <1>0, <1>3, SameOctet
  <2>2. CASE c = 0
    <3>1. readLabel(cut, r) = At(r.pos, r.labels, r.jumps, Field(r, 1), "read")
      BY <1>0, <1>3, <2>2, RoundOfRoot
    <3>2. readLabel(msg, r) = At(r.pos, r.labels, r.jumps, Field(r, 1), "read")
      BY <1>0, <1>3, <2>1, <2>2, RoundOfRoot
    <3> QED
      BY <3>1, <3>2
  <2>3. CASE c >= pointerMask /\ p + 1 >= Len(cut)
    <3>1. c # 0
      BY <2>3 DEF pointerMask
    <3>2. readLabel(cut, r) = s
      BY <1>3, <2>1, <2>3, <3>1 DEF readLabel
    <3> QED
      BY <1>0, <3>2
  <2>4. CASE c >= pointerMask /\ p + 1 < Len(cut)
    <3>1. c # 0 /\ ~(p + 1 >= Len(cut)) /\ p + 1 < Len(msg)
      BY <1>0, <2>4 DEF pointerMask
    <3>2. PICK d \in Nat : d = cut[p + 2] /\ d = msg[p + 2]
      <4>1. PICK q \in Nat : q = p + 1 /\ q + 1 = p + 2 /\ q < Len(cut)
        BY <1>0, <2>4
      <4>2. cut[q + 1] = msg[q + 1] /\ cut[q + 1] \in Nat
        BY <4>1, SameOctet
      <4> QED
        BY <4>1, <4>2
    <3>3. PICK x \in Nat : x = 256 * (c - pointerMask) + d
      BY <2>1, <2>4, <3>2, SMTT(60) DEF pointerMask
    <3>4. CASE x >= Len(cut) \/ r.jumps + 1 > MaxJumps
      <4>1. readLabel(cut, r) = s
        BY <1>3, <2>1, <2>4, <3>1, <3>2, <3>3, <3>4 DEF readLabel
      <4> QED
        BY <1>0, <4>1
    <3>5. CASE x < Len(cut) /\ r.jumps + 1 <= MaxJumps
      <4>1. readLabel(cut, r) = At(x, r.labels, r.jumps + 1, Field(r, 2), "reading")
        <5>1. /\ r.pos + 1 < Len(cut) /\ cut[r.pos + 1] >= pointerMask
              /\ x = 256 * (cut[r.pos + 1] - pointerMask) + cut[r.pos + 2]
          BY <2>4, <3>2, <3>3
        <5> QED
          BY <1>0, <1>3, <3>3, <3>5, <5>1, RoundOfPointer
      <4>2. x < Len(msg) /\ msg[p + 1] >= pointerMask
            /\ x = 256 * (msg[p + 1] - pointerMask) + msg[p + 2]
        BY <1>0, <2>1, <2>4, <3>2, <3>3, <3>5
      <4>3. readLabel(msg, r) = At(x, r.labels, r.jumps + 1, Field(r, 2), "reading")
        BY <1>0, <1>3, <3>1, <3>5, <4>2, RoundOfPointer, SMTT(60)
      <4> QED
        BY <4>1, <4>3
    <3> QED
      BY <1>0, <3>3, <3>4, <3>5, SMTT(60)
  <2>5. CASE c # 0 /\ ~(c >= pointerMask) /\ (c > MaxLabel \/ p + 1 + c > Len(cut))
    <3>1. readLabel(cut, r) = s
      BY <1>3, <2>1, <2>5 DEF readLabel
    <3> QED
      BY <1>0, <3>1
  <2>6. CASE c # 0 /\ ~(c >= pointerMask) /\ c <= MaxLabel /\ p + 1 + c <= Len(cut)
    <3>1. c \in 1 .. MaxLabel /\ p + 1 + c <= Len(msg)
      BY <1>0, <2>1, <2>6, SMTT(60)
    <3>2. readLabel(cut, r) =
             At(r.pos + 1 + c, Append(r.labels, SubSeq(cut, r.pos + 2, r.pos + 1 + c)),
                r.jumps, r.end, "reading")
      BY <1>0, <1>3, <2>6, <3>1, RoundOfLabel
    <3>3. readLabel(msg, r) =
             At(r.pos + 1 + c, Append(r.labels, SubSeq(msg, r.pos + 2, r.pos + 1 + c)),
                r.jumps, r.end, "reading")
      BY <1>0, <1>3, <2>1, <3>1, RoundOfLabel
    <3>4. SubSeq(cut, p + 2, p + 1 + c) = SubSeq(msg, p + 2, p + 1 + c)
      <4>1. PICK q \in Nat : /\ q = p + 1 /\ q + 1 = p + 2 /\ q + c = p + 1 + c
                             /\ q + c <= Len(cut)
        BY <1>0, <2>1, <2>6, SMTT(60)
      <4>2. Octets(cut, q, c) = Octets(msg, q, c)
        <5>1. c \in Nat /\ q \in Nat /\ q + c <= Len(cut)
          BY <2>1, <4>1
        <5> QED
          BY <5>1, SamePart
      <4> QED
        BY <4>1, <4>2 DEF Octets
    <3> QED
      BY <3>2, <3>3, <3>4
  <2> QED
    BY <1>0, <2>1, <2>2, <2>3, <2>4, <2>5, <2>6, SMTT(60)
<1> QED
  BY <1>0, <1>1, <1>2, <1>3

LEMMA SameName ==
    ASSUME NEW cut, NEW msg, Begins(cut, msg), NEW offset \in Nat
    PROVE  readName(cut, offset) = Refused \/ readName(cut, offset) = readName(msg, offset)
<1>1. cut \in Seq(Octet) /\ msg \in Seq(Octet) /\ From(offset) \in Reading
  BY BeginsIs, FromReading
<1>2. PICK f, g : f = readRounds(cut, From(offset)) /\ g = readRounds(msg, From(offset))
  OBVIOUS
<1>3. /\ f \in [Nat -> Reading] /\ f[0] = From(offset)
      /\ \A k \in Nat : f[k + 1] = readLabel(cut, f[k])
  BY <1>1, <1>2, ReadRoundsDef
<1>4. g[0] = From(offset) /\ \A k \in Nat : g[k + 1] = readLabel(msg, g[k])
  BY <1>1, <1>2, ReadRoundsDef
<1> DEFINE T == {k \in Nat : f[k].state = "refused" \/ f[k] = g[k]}
<1>5. 0 \in T
  BY <1>3, <1>4
<1>6. \A k \in Nat : k \in T => k + 1 \in T
  <2> SUFFICES ASSUME NEW k \in Nat, f[k].state = "refused" \/ f[k] = g[k]
               PROVE  f[k + 1].state = "refused" \/ f[k + 1] = g[k + 1]
    OBVIOUS
  <2>1. CASE f[k].state = "refused"
    <3>1. readLabel(cut, f[k]) = f[k]
      BY <2>1 DEF readLabel
    <3> QED
      BY <1>3, <2>1, <3>1
  <2>2. CASE f[k] = g[k]
    <3>1. readLabel(cut, f[k]).state = "refused" \/ readLabel(cut, f[k]) = readLabel(msg, f[k])
      BY <1>3, SameRound
    <3> QED
      BY <1>3, <1>4, <2>2, <3>1
  <2> QED
    BY <2>1, <2>2
<1>7. \A k \in Nat : k \in T
  <2> HIDE DEF T
  <2> QED
    BY <1>5, <1>6, Induct
<1>8. PICK k \in Nat : f[k].state # "reading"
  <2>1. \E k \in 0 .. MostRounds(cut) : f[k].state # "reading"
    BY <1>1, <1>2, ReadNameEnds
  <2> QED
    BY <2>1
<1>9. PICK q : q = f[k]
  OBVIOUS
<1>10. readName(cut, offset) = IF q.state = "refused" THEN Refused
                               ELSE [ok |-> TRUE, name |-> q.labels, next |-> q.end]
  BY <1>1, <1>2, <1>8, <1>9, ReadNameIs
<1>11. CASE q.state = "refused"
  BY <1>10, <1>11
<1>12. CASE q.state # "refused"
  <2>1. q = g[k]
    BY <1>7, <1>9, <1>12
  <2>2. readName(msg, offset) = IF q.state = "refused" THEN Refused
                                ELSE [ok |-> TRUE, name |-> q.labels, next |-> q.end]
    BY <1>1, <1>2, <1>8, <1>9, <2>1, ReadNameIs
  <2> QED
    BY <1>10, <2>2
<1> QED
  BY <1>11, <1>12

LEMMA SameString ==
    ASSUME NEW cut, NEW msg, Begins(cut, msg), NEW end \in Nat, end <= Len(cut),
           NEW r, r.pos \in Nat
    PROVE  /\ readString(cut, end, r) = readString(msg, end, r)
           /\ readString(cut, end, r).pos \in Nat
<1>1. PICK p \in Nat : p = r.pos
  OBVIOUS
<1>2. Len(cut) \in Nat
  BY BeginsIs
<1>3. CASE r.state # "reading"
  <2>1. readString(cut, end, r) = r /\ readString(msg, end, r) = r
    BY <1>3 DEF readString
  <2> QED
    BY <2>1
<1>4. CASE r.state = "reading" /\ p >= end
  <2>1. /\ readString(cut, end, r) = Got(p, r.items, "read")
        /\ readString(msg, end, r) = Got(p, r.items, "read")
    BY <1>1, <1>4 DEF readString
  <2> QED
    BY <2>1, GotIs
<1>5. CASE r.state = "reading" /\ p < end
  <2>1. ~(p >= end) /\ p < Len(cut)
    BY <1>2, <1>5
  <2>2. PICK c \in Nat : c = cut[p + 1] /\ c = msg[p + 1]
    BY <2>1, SameOctet
  <2>3. CASE p + 1 + c > end
    <3>1. /\ readString(cut, end, r) = Got(p, r.items, "refused")
          /\ readString(msg, end, r) = Got(p, r.items, "refused")
      BY <1>1, <1>5, <2>1, <2>2, <2>3 DEF readString
    <3> QED
      BY <3>1, GotIs
  <2>4. CASE ~(p + 1 + c > end)
    <3>1. SubSeq(cut, p + 2, p + 1 + c) = SubSeq(msg, p + 2, p + 1 + c)
      <4>1. PICK q \in Nat : /\ q = p + 1 /\ q + 1 = p + 2 /\ q + c = p + 1 + c
                             /\ q + c <= Len(cut)
        BY <1>2, <2>4
      <4>2. Octets(cut, q, c) = Octets(msg, q, c)
        <5>1. c \in Nat /\ q \in Nat /\ q + c <= Len(cut)
          BY <2>2, <4>1
        <5> QED
          BY <5>1, SamePart
      <4> QED
        BY <4>1, <4>2 DEF Octets
    <3>2. PICK s : s = SubSeq(cut, p + 2, p + 1 + c)
      OBVIOUS
    <3>3. readString(cut, end, r) = Got(p + 1 + c, Append(r.items, s), "reading")
      BY <1>1, <1>5, <2>1, <2>2, <2>4, <3>2 DEF readString
    <3>4. readString(msg, end, r) = Got(p + 1 + c, Append(r.items, s), "reading")
      BY <1>1, <1>5, <2>1, <2>2, <2>4, <3>1, <3>2 DEF readString
    <3> QED
      BY <3>3, <3>4, GotIs
  <2> QED
    BY <2>3, <2>4
<1> QED
  BY <1>3, <1>4, <1>5

LEMMA SameText ==
    ASSUME NEW cut, NEW msg, Begins(cut, msg), NEW offset \in Nat, NEW end \in Nat,
           end <= Len(cut)
    PROVE  readStrings(cut, offset, end) = readStrings(msg, offset, end)
<1>1. PICK f : /\ f = [k \in 0 .. end + 1 |-> f[k]]
               /\ f[0] = Got(offset, <<>>, "reading")
               /\ \A k \in 1 .. end + 1 : f[k] = readString(cut, end, f[k - 1])
               /\ readStrings(cut, offset, end) = Ended(f, end + 1)
  BY ReadStringsIs
<1>2. PICK g : /\ g = [k \in 0 .. end + 1 |-> g[k]]
               /\ g[0] = Got(offset, <<>>, "reading")
               /\ \A k \in 1 .. end + 1 : g[k] = readString(msg, end, g[k - 1])
               /\ readStrings(msg, offset, end) = Ended(g, end + 1)
  BY ReadStringsIs
<1> DEFINE T == {k \in Nat : k <= end + 1 => f[k] = g[k] /\ f[k].pos \in Nat}
<1>3. 0 \in T
  BY <1>1, <1>2, GotIs
<1>4. \A k \in Nat : k \in T => k + 1 \in T
  <2> SUFFICES ASSUME NEW k \in Nat, k \in T, k + 1 <= end + 1
               PROVE  f[k + 1] = g[k + 1] /\ f[k + 1].pos \in Nat
    OBVIOUS
  <2>1. PICK r : r = f[k] /\ r = g[k] /\ r.pos \in Nat
    OBVIOUS
  <2>2. PICK j \in 1 .. end + 1 : j = k + 1 /\ j - 1 = k
    OBVIOUS
  <2>3. f[k + 1] = readString(cut, end, r) /\ g[k + 1] = readString(msg, end, r)
    BY <1>1, <1>2, <2>1, <2>2
  <2> QED
    BY <2>1, <2>3, SameString
<1>5. \A k \in Nat : k \in T
  <2> HIDE DEF T
  <2> QED
    BY <1>3, <1>4, Induct
<1>6. \A k \in 0 .. end + 1 : f[k] = g[k]
  BY <1>5
<1>7. f = g
  BY <1>1, <1>2, <1>6
<1> QED
  BY <1>1, <1>2, <1>7

\* The types of the block at an offset.
TypesAt(msg, pos, size) ==
    {256 * msg[pos + 1] + b :
        b \in {b \in 0 .. 8 * size - 1 : (msg[pos + 3 + b \div 8] \div Mask[(b % 8) + 1]) % 2 = 1}}

LEMMA SameTypes ==
    ASSUME NEW cut, NEW msg, Begins(cut, msg), NEW p \in Nat, NEW size \in Nat,
           p + 2 + size <= Len(cut)
    PROVE  TypesAt(cut, p, size) = TypesAt(msg, p, size)
<1>1. Len(cut) \in Nat
  BY BeginsIs
<1>2. PICK w : w = cut[p + 1] /\ w = msg[p + 1]
  <2>1. p < Len(cut)
    BY <1>1
  <2> QED
    BY <2>1, SameOctet
<1>3. ASSUME NEW b \in 0 .. 8 * size - 1
      PROVE  cut[p + 3 + b \div 8] = msg[p + 3 + b \div 8]
  <2>1. PICK i \in Nat : i = b \div 8 /\ i + 1 <= size
    BY SMT
  <2>2. PICK q \in Nat : q = p + 2 + i /\ q + 1 = p + 3 + i /\ q < Len(cut)
    BY <1>1, <2>1
  <2>3. cut[q + 1] = msg[q + 1]
    BY <2>2, SameOctet
  <2> QED
    BY <2>1, <2>2, <2>3
<1> DEFINE Bits(m) == {b \in 0 .. 8 * size - 1 :
                          (m[p + 3 + b \div 8] \div Mask[(b % 8) + 1]) % 2 = 1}
<1>4. Bits(cut) = Bits(msg)
  BY <1>3, Zenon
<1>5. /\ TypesAt(cut, p, size) = {256 * w + b : b \in Bits(cut)}
      /\ TypesAt(msg, p, size) = {256 * w + b : b \in Bits(msg)}
  BY <1>2, ZenonT(90) DEF TypesAt
<1> HIDE DEF Bits
<1> QED
  BY <1>4, <1>5

LEMMA SameBlock ==
    ASSUME NEW cut, NEW msg, Begins(cut, msg), NEW end \in Nat, end <= Len(cut),
           NEW r, r.pos \in Nat
    PROVE  /\ readBlock(cut, end, r) = readBlock(msg, end, r)
           /\ readBlock(cut, end, r).pos \in Nat
<1>1. PICK p \in Nat : p = r.pos
  OBVIOUS
<1>2. Len(cut) \in Nat
  BY BeginsIs
<1>3. CASE r.state # "reading"
  <2>1. readBlock(cut, end, r) = r /\ readBlock(msg, end, r) = r
    BY <1>3 DEF readBlock
  <2> QED
    BY <2>1
<1>4. CASE r.state = "reading" /\ p >= end
  <2>1. /\ readBlock(cut, end, r) = Got(p, r.items, "read")
        /\ readBlock(msg, end, r) = Got(p, r.items, "read")
    BY <1>1, <1>4 DEF readBlock
  <2> QED
    BY <2>1, GotIs
<1>5. CASE r.state = "reading" /\ ~(p >= end) /\ p + 2 > end
  <2>1. /\ readBlock(cut, end, r) = Got(p, r.items, "refused")
        /\ readBlock(msg, end, r) = Got(p, r.items, "refused")
    BY <1>1, <1>5 DEF readBlock
  <2> QED
    BY <2>1, GotIs
<1>6. CASE r.state = "reading" /\ ~(p >= end) /\ ~(p + 2 > end)
  <2>1. PICK q \in Nat : q = p + 1 /\ q + 1 = p + 2 /\ q < Len(cut)
    BY <1>2, <1>6
  <2>2. PICK c \in Nat : c = cut[p + 2] /\ c = msg[p + 2]
    BY <2>1, SameOctet
  <2>3. CASE p + 2 + c > end
    <3>1. /\ readBlock(cut, end, r) = Got(p, r.items, "refused")
          /\ readBlock(msg, end, r) = Got(p, r.items, "refused")
      BY <1>1, <1>6, <2>2, <2>3 DEF readBlock
    <3> QED
      BY <3>1, GotIs
  <2>4. CASE ~(p + 2 + c > end)
    <3>1. p + 2 + c <= Len(cut)
      BY <1>2, <2>4
    <3>2. PICK y : y = TypesAt(cut, p, c) /\ y = TypesAt(msg, p, c)
      BY <3>1, SameTypes
    <3>3. readBlock(cut, end, r) = Got(p + 2 + c, r.items \cup y, "reading")
      BY <1>1, <1>6, <2>2, <2>4, <3>2 DEF readBlock, TypesAt
    <3>4. readBlock(msg, end, r) = Got(p + 2 + c, r.items \cup y, "reading")
      <4>1. c = msg[p + 2] /\ y = TypesAt(msg, p, c)
        BY <2>2, <3>2
      <4> QED
        BY <1>1, <1>6, <2>4, <4>1 DEF readBlock, TypesAt
    <3> QED
      BY <3>3, <3>4, GotIs
  <2> QED
    BY <2>3, <2>4
<1> QED
  BY <1>3, <1>4, <1>5, <1>6

LEMMA SameMaps ==
    ASSUME NEW cut, NEW msg, Begins(cut, msg), NEW offset \in Nat, NEW end \in Nat,
           end <= Len(cut)
    PROVE  decodeTypeBitMaps(cut, offset, end) = decodeTypeBitMaps(msg, offset, end)
<1>1. PICK f : /\ f = [k \in 0 .. end + 1 |-> f[k]]
               /\ f[0] = Got(offset, {}, "reading")
               /\ \A k \in 1 .. end + 1 : f[k] = readBlock(cut, end, f[k - 1])
               /\ decodeTypeBitMaps(cut, offset, end) = Ended(f, end + 1)
  BY DecodeIs
<1>2. PICK g : /\ g = [k \in 0 .. end + 1 |-> g[k]]
               /\ g[0] = Got(offset, {}, "reading")
               /\ \A k \in 1 .. end + 1 : g[k] = readBlock(msg, end, g[k - 1])
               /\ decodeTypeBitMaps(msg, offset, end) = Ended(g, end + 1)
  BY DecodeIs
<1> DEFINE T == {k \in Nat : k <= end + 1 => f[k] = g[k] /\ f[k].pos \in Nat}
<1>3. 0 \in T
  BY <1>1, <1>2, GotIs
<1>4. \A k \in Nat : k \in T => k + 1 \in T
  <2> SUFFICES ASSUME NEW k \in Nat, k \in T, k + 1 <= end + 1
               PROVE  f[k + 1] = g[k + 1] /\ f[k + 1].pos \in Nat
    OBVIOUS
  <2>1. PICK r : r = f[k] /\ r = g[k] /\ r.pos \in Nat
    OBVIOUS
  <2>2. PICK j \in 1 .. end + 1 : j = k + 1 /\ j - 1 = k
    OBVIOUS
  <2>3. f[k + 1] = readBlock(cut, end, r) /\ g[k + 1] = readBlock(msg, end, r)
    BY <1>1, <1>2, <2>1, <2>2
  <2> QED
    BY <2>1, <2>3, SameBlock
<1>5. \A k \in Nat : k \in T
  <2> HIDE DEF T
  <2> QED
    BY <1>3, <1>4, Induct
<1>6. \A k \in 0 .. end + 1 : f[k] = g[k]
  BY <1>5
<1>7. f = g
  BY <1>1, <1>2, <1>6
<1> QED
  BY <1>1, <1>2, <1>7

LEMMA RefusedIs ==
    ASSUME NEW x, x = Refused
    PROVE  ~x.ok
  BY DEF Refused

LEMMA NameReadIs ==
    ASSUME NEW msg \in Seq(Octet), NEW offset \in Nat, NEW r, r = readName(msg, offset), r.ok
    PROVE  /\ r.next \in Nat /\ offset + 1 <= r.next /\ r.next <= Len(msg)
           /\ NameAt(msg, offset, r.name, r.next)
<1>1. r # Refused
  BY RefusedIs
<1>2. PICK name \in Name, next \in offset + 1 .. Len(msg) :
         r = [ok |-> TRUE, name |-> name, next |-> next]
  BY <1>1, ReadNameInside
<1>3. r.name = name /\ r.next = next
  BY <1>2
<1>4. NameAt(msg, offset, r.name, r.next)
  BY <1>2, <1>3 DEF NameAt
<1> QED
  BY <1>2, <1>3, <1>4

\* RDATA that is inside the packet, type by type.
Done(rec) == [ok |-> TRUE, rr |-> rec]
Address(rr, o, good) == IF good THEN Done([rr EXCEPT !.ip = o]) ELSE Refused
Target(rr, r) == IF r.ok THEN Done([rr EXCEPT !.target = r.name]) ELSE Refused
Service(rr, r, s) ==
    IF ~r.ok THEN Refused ELSE Done([rr EXCEPT !.target = r.name, !.srv = s])
Texts(rr, r) == IF r.state = "refused" THEN Refused ELSE Done([rr EXCEPT !.text = r.items])
Denial(rr, r, q) ==
    IF ~r.ok THEN Refused
    ELSE IF q.state = "refused" THEN Refused
    ELSE Done([rr EXCEPT !.next = r.name, !.types = q.items])
Raw(rr, o) == Done([rr EXCEPT !.raw = o])

\* The record fits into the packet.
Room(msg, offset, l) == ~(offset + l > Len(msg))

LEMMA RDataIs ==
    ASSUME NEW rr, NEW msg, NEW offset, NEW l, Room(msg, offset, l), NEW u,
           u = unpackRDATA(rr, msg, offset, l)
    PROVE  /\ rr.type = TypeA => u = Address(rr, Octets(msg, offset, l), l = 4)
           /\ rr.type = TypeAAAA => u = Address(rr, Octets(msg, offset, l), l = 16)
           /\ rr.type \in NameTypes => u = Target(rr, readName(msg, offset))
           /\ rr.type = TypeSRV =>
                 u = IF l < 7 THEN Refused
                     ELSE Service(rr, readName(msg, offset + 6), SrvAt(msg, offset))
           /\ rr.type = TypeTXT => u = Texts(rr, readStrings(msg, offset, offset + l))
           /\ rr.type = TypeNSEC =>
                 u = Denial(rr, readName(msg, offset),
                            decodeTypeBitMaps(msg, readName(msg, offset).next, offset + l))
           /\ rr.type \notin Known => u = Raw(rr, Octets(msg, offset, l))
<1>0. ~(offset + l > Len(msg))
  BY DEF Room
<1>1. CASE rr.type = TypeA
  <2>1. u = Address(rr, Octets(msg, offset, l), l = 4)
    BY <1>0, <1>1, OneType DEF unpackRDATA, Address, Done, Octets
  <2> QED
    BY <1>1, <2>1, OneType DEF Known
<1>2. CASE rr.type = TypeAAAA
  <2>1. u = Address(rr, Octets(msg, offset, l), l = 16)
    BY <1>0, <1>2, OneType DEF unpackRDATA, Address, Done, Octets
  <2> QED
    BY <1>2, <2>1, OneType DEF Known
<1>3. CASE rr.type \in NameTypes
  <2>1. u = Target(rr, readName(msg, offset))
    BY <1>0, <1>3, OneType DEF unpackRDATA, Target, Done
  <2> QED
    BY <1>3, <2>1, OneType DEF Known
<1>4. CASE rr.type = TypeSRV
  <2>1. u = IF l < 7 THEN Refused
            ELSE Service(rr, readName(msg, offset + 6), SrvAt(msg, offset))
    BY <1>0, <1>4, OneType DEF unpackRDATA, Service, SrvAt, Done
  <2> QED
    BY <1>4, <2>1, OneType DEF Known
<1>5. CASE rr.type = TypeTXT
  <2>1. u = Texts(rr, readStrings(msg, offset, offset + l))
    BY <1>0, <1>5, OneType DEF unpackRDATA, Texts, Done
  <2> QED
    BY <1>5, <2>1, OneType DEF Known
<1>6. CASE rr.type = TypeNSEC
  <2>1. u = Denial(rr, readName(msg, offset),
                   decodeTypeBitMaps(msg, readName(msg, offset).next, offset + l))
    BY <1>0, <1>6, OneType DEF unpackRDATA, Denial, Done
  <2> QED
    BY <1>6, <2>1, OneType DEF Known
<1>7. CASE rr.type \notin Known
  <2>1. /\ rr.type # TypeA /\ rr.type # TypeAAAA /\ rr.type \notin NameTypes
        /\ rr.type # TypeSRV /\ rr.type # TypeTXT /\ rr.type # TypeNSEC
    BY <1>7 DEF Known
  <2>2. u = Raw(rr, Octets(msg, offset, l))
    BY <1>0, <2>1 DEF unpackRDATA, Raw, Done, Octets
  <2> QED
    BY <1>7, <2>1, <2>2
<1> QED
  BY <1>1, <1>2, <1>3, <1>4, <1>5, <1>6, <1>7 DEF Known

\* RDATA is refused or is the same as in the whole packet.
LEMMA SameRData ==
    ASSUME NEW cut, NEW msg, Begins(cut, msg), NEW rr, NEW offset \in Nat, NEW l \in Nat
    PROVE  \/ unpackRDATA(rr, cut, offset, l) = Refused
           \/ /\ unpackRDATA(rr, cut, offset, l) = unpackRDATA(rr, msg, offset, l)
              /\ offset + l <= Len(cut)
<1>0. cut \in Seq(Octet) /\ Len(cut) \in Nat /\ Len(msg) \in Nat /\ Len(cut) <= Len(msg)
  BY BeginsIs
<1>1. CASE offset + l > Len(cut)
  BY <1>1 DEF unpackRDATA
<1>2. CASE ~(offset + l > Len(cut))
  <2>1. ~(offset + l > Len(msg)) /\ offset + l <= Len(cut)
    BY <1>0, <1>2
  <2>2. PICK a, b : a = unpackRDATA(rr, cut, offset, l) /\ b = unpackRDATA(rr, msg, offset, l)
    OBVIOUS
  <2> SUFFICES a = Refused \/ a = b
    BY <2>1, <2>2
  <2>3. Octets(cut, offset, l) = Octets(msg, offset, l)
    BY <2>1, SamePart
  <2>a. Room(cut, offset, l) /\ Room(msg, offset, l)
    BY <1>2, <2>1 DEF Room
  <2>4. CASE rr.type = TypeA
    <3>1. a = Address(rr, Octets(cut, offset, l), l = 4)
      BY <2>2, <2>4, <2>a, RDataIs
    <3>2. b = Address(rr, Octets(msg, offset, l), l = 4)
      BY <2>2, <2>4, <2>a, RDataIs
    <3> QED
      BY <2>3, <3>1, <3>2, Zenon
  <2>5. CASE rr.type = TypeAAAA
    <3>1. a = Address(rr, Octets(cut, offset, l), l = 16)
      BY <2>2, <2>5, <2>a, RDataIs
    <3>2. b = Address(rr, Octets(msg, offset, l), l = 16)
      BY <2>2, <2>5, <2>a, RDataIs
    <3> QED
      BY <2>3, <3>1, <3>2, Zenon
  <2>6. CASE rr.type \in NameTypes
    <3>1. PICK r, q : r = readName(cut, offset) /\ q = readName(msg, offset)
      OBVIOUS
    <3>2. r = Refused \/ r = q
      BY <3>1, SameName
    <3>3. a = Target(rr, r) /\ b = Target(rr, q)
      BY <2>2, <2>6, <2>a, <3>1, RDataIs, Zenon
    <3> QED
      BY <3>2, <3>3, RefusedIs, Zenon DEF Target
  <2>7. CASE rr.type = TypeSRV
    <3>1. PICK r, q, s, t : /\ r = readName(cut, offset + 6) /\ q = readName(msg, offset + 6)
                            /\ s = SrvAt(cut, offset) /\ t = SrvAt(msg, offset)
      OBVIOUS
    <3>2. /\ a = IF l < 7 THEN Refused ELSE Service(rr, r, s)
          /\ b = IF l < 7 THEN Refused ELSE Service(rr, q, t)
      BY <2>2, <2>7, <2>a, <3>1, RDataIs, Zenon
    <3>3. CASE l < 7
      BY <3>2, <3>3, Zenon
    <3>4. CASE ~(l < 7)
      <4>1. r = Refused \/ r = q
        <5>1. offset + 6 \in Nat
          OBVIOUS
        <5> QED
          BY <3>1, <5>1, SameName
      <4>2. s = t
        <5>1. ASSUME NEW i \in 1 .. 3
              PROVE  Uint16(cut, offset + 2 * (i - 1)) = Uint16(msg, offset + 2 * (i - 1))
          <6>1. PICK p \in Nat : p = offset + 2 * (i - 1) /\ p + 2 <= Len(cut)
            BY <1>0, <2>1, <3>4
          <6> QED
            BY <6>1, SameUint16
        <5> QED
          BY <3>1, <5>1, Zenon DEF SrvAt
      <4> QED
        BY <3>2, <3>4, <4>1, <4>2, RefusedIs, Zenon DEF Service
    <3> QED
      BY <3>3, <3>4
  <2>8. CASE rr.type = TypeTXT
    <3>1. readStrings(cut, offset, offset + l) = readStrings(msg, offset, offset + l)
      <4>1. offset + l \in Nat
        OBVIOUS
      <4> QED
        BY <2>1, <4>1, SameText
    <3> QED
      <4>1. a = Texts(rr, readStrings(cut, offset, offset + l))
        BY <2>2, <2>8, <2>a, RDataIs
      <4>2. b = Texts(rr, readStrings(msg, offset, offset + l))
        BY <2>2, <2>8, <2>a, RDataIs
      <4> QED
        BY <3>1, <4>1, <4>2, Zenon
  <2>9. CASE rr.type = TypeNSEC
    <3>1. PICK r, q : r = readName(cut, offset) /\ q = readName(msg, offset)
      OBVIOUS
    <3>2. r = Refused \/ r = q
      BY <3>1, SameName
    <3>3. PICK x, y : /\ x = decodeTypeBitMaps(cut, r.next, offset + l)
                      /\ y = decodeTypeBitMaps(msg, q.next, offset + l)
      OBVIOUS
    <3>4. a = Denial(rr, r, x) /\ b = Denial(rr, q, y)
      BY <2>2, <2>9, <2>a, <3>1, <3>3, RDataIs, ZenonT(90)
    <3>5. CASE ~r.ok
      BY <3>4, <3>5, Zenon DEF Denial
    <3>6. CASE r.ok
      <4>1. r = q
        BY <3>2, <3>6, RefusedIs
      <4>2. r.next \in Nat
        BY <1>0, <3>1, <3>6, NameReadIs
      <4>3. x = y
        <5>1. offset + l \in Nat
          OBVIOUS
        <5> QED
          BY <2>1, <3>3, <4>1, <4>2, <5>1, SameMaps
      <4> QED
        BY <3>4, <4>1, <4>3, Zenon
    <3> QED
      BY <3>5, <3>6
  <2>10. CASE rr.type \notin Known
    <3>1. a = Raw(rr, Octets(cut, offset, l))
      BY <2>2, <2>10, <2>a, RDataIs
    <3>2. b = Raw(rr, Octets(msg, offset, l))
      BY <2>2, <2>10, <2>a, RDataIs
    <3> QED
      BY <2>3, <3>1, <3>2, Zenon
  <2> QED
    BY <2>4, <2>5, <2>6, <2>7, <2>8, <2>9, <2>10 DEF Known
<1> QED
  BY <1>1, <1>2

\* A record, from its name on.
WholeRR(rdata, next) ==
    IF ~rdata.ok THEN Refused ELSE [ok |-> TRUE, item |-> rdata.rr, next |-> next]
AfterName(msg, r) ==
    WholeRR(unpackRDATA(FixedAt(msg, r.name, r.next), msg, r.next + 10, Uint16(msg, r.next + 8)),
            r.next + 10 + Uint16(msg, r.next + 8))

LEMMA RecordIs ==
    ASSUME NEW msg, NEW offset
    PROVE  readRR(msg, offset) =
              IF ~readName(msg, offset).ok THEN Refused
              ELSE IF readName(msg, offset).next + 10 > Len(msg) THEN Refused
              ELSE AfterName(msg, readName(msg, offset))
  BY DEF readRR, AfterName, WholeRR, FixedAt, FixedRR, HasFlush

LEMMA SameFixed ==
    ASSUME NEW cut, NEW msg, Begins(cut, msg), NEW name, NEW n \in Nat, n + 10 <= Len(cut)
    PROVE  /\ FixedAt(cut, name, n) = FixedAt(msg, name, n)
           /\ Uint16(cut, n + 8) = Uint16(msg, n + 8) /\ Uint16(cut, n + 8) \in Nat
<1>0. Len(cut) \in Nat
  BY BeginsIs
<1>1. PICK a \in Nat, b \in Nat, c \in Nat, d \in Nat :
         /\ a = n + 2 /\ b = n + 4 /\ c = n + 6 /\ d = n + 8 /\ n + 2 <= Len(cut)
         /\ a + 2 <= Len(cut) /\ b + 2 <= Len(cut) /\ c + 2 <= Len(cut) /\ d + 2 <= Len(cut)
  BY <1>0
<1>2. Uint16(cut, n) = Uint16(msg, n)
  BY <1>1, SameUint16
<1>3. Uint16(cut, a) = Uint16(msg, a)
  BY <1>1, SameUint16
<1>4. Uint16(cut, b) = Uint16(msg, b)
  BY <1>1, SameUint16
<1>5. Uint16(cut, c) = Uint16(msg, c)
  BY <1>1, SameUint16
<1>6. Uint16(cut, d) = Uint16(msg, d) /\ Uint16(cut, d) \in Nat
  BY <1>1, SameUint16
<1>7. FixedAt(cut, name, n) = FixedAt(msg, name, n)
  BY <1>1, <1>2, <1>3, <1>4, <1>5 DEF FixedAt
<1> QED
  BY <1>1, <1>6, <1>7

\* What was read of an item is refused or is the same as in the whole packet, and
\* ends before the cut.
SameUpTo(x, y, n) == x = Refused \/ (x = y /\ x.ok /\ x.next \in Nat /\ x.next <= n)

LEMMA SameRecord ==
    ASSUME NEW cut, NEW msg, Begins(cut, msg), NEW offset \in Nat
    PROVE  SameUpTo(readRR(cut, offset), readRR(msg, offset), Len(cut))
<1>0. /\ cut \in Seq(Octet) /\ msg \in Seq(Octet) /\ Len(cut) \in Nat /\ Len(msg) \in Nat
      /\ Len(cut) <= Len(msg)
  BY BeginsIs
<1>1. PICK r : r = readName(cut, offset)
  OBVIOUS
<1>2. readRR(cut, offset) =
         IF ~r.ok THEN Refused
         ELSE IF r.next + 10 > Len(cut) THEN Refused
         ELSE AfterName(cut, r)
  BY <1>1, RecordIs
<1>3. CASE ~r.ok
  BY <1>2, <1>3 DEF SameUpTo
<1>4. CASE r.ok /\ r.next + 10 > Len(cut)
  BY <1>2, <1>4 DEF SameUpTo
<1>5. CASE r.ok /\ ~(r.next + 10 > Len(cut))
  <2>1. r = readName(msg, offset)
    <3>1. r = Refused \/ r = readName(msg, offset)
      BY <1>1, SameName
    <3> QED
      BY <1>5, <3>1, RefusedIs
  <2>2. PICK n \in Nat : n = r.next
    BY <1>0, <1>1, <1>5, NameReadIs
  <2>3. n + 10 <= Len(cut) /\ ~(n + 10 > Len(msg))
    BY <1>0, <1>5, <2>2
  <2>b. /\ FixedAt(cut, r.name, n) = FixedAt(msg, r.name, n)
        /\ Uint16(cut, n + 8) = Uint16(msg, n + 8) /\ Uint16(cut, n + 8) \in Nat
    <3>1. PICK name : name = r.name
      OBVIOUS
    <3>2. n \in Nat /\ n + 10 <= Len(cut)
      BY <2>2, <2>3
    <3>3. /\ FixedAt(cut, name, n) = FixedAt(msg, name, n)
          /\ Uint16(cut, n + 8) = Uint16(msg, n + 8) /\ Uint16(cut, n + 8) \in Nat
      BY <3>2, SameFixed
    <3> QED
      BY <3>1, <3>3
  <2>a. PICK fixed : fixed = FixedAt(cut, r.name, n) /\ fixed = FixedAt(msg, r.name, n)
    BY <2>b
  <2>4. PICK l \in Nat : l = Uint16(cut, n + 8) /\ l = Uint16(msg, n + 8)
    BY <2>b, Zenon
  <2>5. PICK a, b : a = unpackRDATA(fixed, cut, n + 10, l) /\ b = unpackRDATA(fixed, msg, n + 10, l)
    OBVIOUS
  <2>6. a = Refused \/ (a = b /\ n + 10 + l <= Len(cut))
    <3>1. PICK o \in Nat : o = n + 10
      BY <2>2
    <3>2. \/ unpackRDATA(fixed, cut, o, l) = Refused
          \/ unpackRDATA(fixed, cut, o, l) = unpackRDATA(fixed, msg, o, l) /\ o + l <= Len(cut)
      BY <2>4, <3>1, SameRData
    <3> QED
      BY <2>5, <3>1, <3>2
  <2>7. readRR(cut, offset) = WholeRR(a, n + 10 + l)
    <3>1. readRR(cut, offset) = AfterName(cut, r)
      BY <1>2, <1>5, Zenon
    <3>2. AfterName(cut, r) = WholeRR(a, n + 10 + l)
      BY <2>2, <2>a, <2>4, <2>5, Zenon DEF AfterName
    <3> QED
      BY <3>1, <3>2
  <2>8. readRR(msg, offset) = WholeRR(b, n + 10 + l)
    <3>1. readRR(msg, offset) = AfterName(msg, r)
      BY <1>5, <2>1, <2>2, <2>3, RecordIs
    <3>2. AfterName(msg, r) = WholeRR(b, n + 10 + l)
      BY <2>2, <2>a, <2>4, <2>5, Zenon DEF AfterName
    <3> QED
      BY <3>1, <3>2
  <2>9. CASE ~a.ok
    BY <2>7, <2>9 DEF WholeRR, SameUpTo
  <2>10. CASE a.ok
    <3>1. a = b /\ n + 10 + l <= Len(cut)
      BY <2>6, <2>10, RefusedIs
    <3>2. n + 10 + l \in Nat
      BY <2>2, <2>4
    <3>3. PICK e \in Nat : e = n + 10 + l /\ e <= Len(cut)
      BY <3>1, <3>2
    <3>4. readRR(cut, offset) = [ok |-> TRUE, item |-> a.rr, next |-> e]
      BY <2>7, <2>10, <3>3 DEF WholeRR
    <3>5. readRR(cut, offset).ok /\ readRR(cut, offset).next = e
      BY <3>4
    <3> QED
      BY <2>7, <2>8, <3>1, <3>3, <3>5 DEF SameUpTo
  <2> QED
    BY <2>9, <2>10
<1> QED
  BY <1>3, <1>4, <1>5

QuestionOf(msg, r) ==
    [ok |-> TRUE, next |-> r.next + 4,
     item |-> [name |-> r.name, type |-> Uint16(msg, r.next), class |-> Uint16(msg, r.next + 2)]]

LEMMA QuestionIs ==
    ASSUME NEW msg, NEW offset
    PROVE  readQuestion(msg, offset) =
              IF ~readName(msg, offset).ok THEN Refused
              ELSE IF readName(msg, offset).next + 4 > Len(msg) THEN Refused
              ELSE QuestionOf(msg, readName(msg, offset))
  BY DEF readQuestion, QuestionOf

LEMMA SameQuestion ==
    ASSUME NEW cut, NEW msg, Begins(cut, msg), NEW offset \in Nat
    PROVE  SameUpTo(readQuestion(cut, offset), readQuestion(msg, offset), Len(cut))
<1>0. /\ cut \in Seq(Octet) /\ msg \in Seq(Octet) /\ Len(cut) \in Nat /\ Len(msg) \in Nat
      /\ Len(cut) <= Len(msg)
  BY BeginsIs
<1>1. PICK r : r = readName(cut, offset)
  OBVIOUS
<1>2. readQuestion(cut, offset) =
         IF ~r.ok THEN Refused
         ELSE IF r.next + 4 > Len(cut) THEN Refused
         ELSE QuestionOf(cut, r)
  BY <1>1, QuestionIs
<1>3. CASE ~r.ok
  BY <1>2, <1>3 DEF SameUpTo
<1>4. CASE r.ok /\ r.next + 4 > Len(cut)
  BY <1>2, <1>4 DEF SameUpTo
<1>5. CASE r.ok /\ ~(r.next + 4 > Len(cut))
  <2>1. r = readName(msg, offset)
    <3>1. r = Refused \/ r = readName(msg, offset)
      BY <1>1, SameName
    <3> QED
      BY <1>5, <3>1, RefusedIs
  <2>2. PICK n \in Nat : n = r.next
    BY <1>0, <1>1, <1>5, NameReadIs
  <2>3. n + 4 <= Len(cut) /\ ~(n + 4 > Len(msg))
    BY <1>0, <1>5, <2>2
  <2>4. PICK m \in Nat : m = n + 2 /\ m + 2 <= Len(cut) /\ n + 2 <= Len(cut)
    BY <1>0, <2>2, <2>3
  <2>5. Uint16(cut, n) = Uint16(msg, n)
    BY <2>2, <2>4, SameUint16
  <2>6. Uint16(cut, m) = Uint16(msg, m)
    BY <2>4, SameUint16
  <2>7. PICK q : q = QuestionOf(cut, r) /\ q = QuestionOf(msg, r)
    BY <2>2, <2>4, <2>5, <2>6 DEF QuestionOf
  <2>8. q.ok /\ q.next = n + 4
    BY <2>2, <2>7 DEF QuestionOf
  <2>9. readQuestion(cut, offset) = q
    BY <1>2, <1>5, <2>7, Zenon
  <2>10. readQuestion(msg, offset) = q
    BY <1>5, <2>1, <2>2, <2>3, <2>7, QuestionIs
  <2>11. n + 4 \in Nat
    BY <2>2
  <2> QED
    BY <2>3, <2>8, <2>9, <2>10, <2>11 DEF SameUpTo
<1> QED
  BY <1>3, <1>4, <1>5

\* One item more.
OneMoreItem(sec, one) ==
    IF ~one.ok THEN Refused
    ELSE [ok |-> TRUE, next |-> one.next, items |-> Append(sec.items, one.item)]

LEMMA ItemIs ==
    ASSUME NEW n, NEW msg, NEW sec
    PROVE  readItem(n, msg, sec) =
              IF ~sec.ok THEN Refused ELSE OneMoreItem(sec, ReadOne(n, msg, sec.next))
  BY DEF readItem, OneMoreItem, ReadOne

LEMMA SameItem ==
    ASSUME NEW cut, NEW msg, Begins(cut, msg), NEW sec, NEW x, NEW y, SameUpTo(x, y, Len(cut))
    PROVE  SameUpTo(readItem(sec, cut, x), readItem(sec, msg, y), Len(cut))
<1>1. CASE x = Refused
  <2>1. readItem(sec, cut, x) = Refused
    BY <1>1, ItemIs, RefusedIs
  <2> QED
    BY <2>1 DEF SameUpTo
<1>2. CASE x = y /\ x.ok /\ x.next \in Nat
  <2>1. PICK p \in Nat : p = x.next
    BY <1>2
  <2>2. PICK a, b : a = ReadOne(sec, cut, p) /\ b = ReadOne(sec, msg, p)
    OBVIOUS
  <2>3. SameUpTo(a, b, Len(cut))
    BY <2>1, <2>2, SameRecord, SameQuestion DEF ReadOne
  <2>4. readItem(sec, cut, x) = OneMoreItem(x, a)
    BY <1>2, <2>1, <2>2, ItemIs
  <2>5. readItem(sec, msg, y) = OneMoreItem(x, b)
    BY <1>2, <2>1, <2>2, ItemIs
  <2>6. CASE a = Refused
    <3>1. OneMoreItem(x, a) = Refused
      BY <2>6, RefusedIs DEF OneMoreItem
    <3> QED
      BY <2>4, <3>1 DEF SameUpTo
  <2>7. CASE a = b /\ a.ok /\ a.next \in Nat /\ a.next <= Len(cut)
    <3>1. OneMoreItem(x, a) = [ok |-> TRUE, next |-> a.next, items |-> Append(x.items, a.item)]
      BY <2>7 DEF OneMoreItem
    <3>2. OneMoreItem(x, a).ok /\ OneMoreItem(x, a).next = a.next
      BY <3>1
    <3> QED
      BY <2>4, <2>5, <2>7, <3>2 DEF SameUpTo
  <2> QED
    BY <2>3, <2>6, <2>7 DEF SameUpTo
<1> QED
  BY <1>1, <1>2 DEF SameUpTo

LEMMA SectionLoops ==
    ASSUME NEW sec, NEW msg, NEW offset, NEW count \in Nat
    PROVE  \E f : /\ SectionLoop(sec, msg, offset, f, count)
                 /\ section(sec, msg, offset, count) = f[count]
  BY SectionIs, SMTT(60) DEF SectionLoop

\* So is a section that begins before the cut.
LEMMA SameSection ==
    ASSUME NEW cut, NEW msg, Begins(cut, msg), NEW sec, NEW offset \in Nat, offset <= Len(cut),
           NEW count \in Nat
    PROVE  SameUpTo(section(sec, cut, offset, count), section(sec, msg, offset, count), Len(cut))
<1>1. PICK f : /\ SectionLoop(sec, cut, offset, f, count)
               /\ section(sec, cut, offset, count) = f[count]
  BY SectionLoops
<1>2. PICK g : /\ SectionLoop(sec, msg, offset, g, count)
               /\ section(sec, msg, offset, count) = g[count]
  BY SectionLoops
<1> DEFINE T == {k \in Nat : k <= count => SameUpTo(f[k], g[k], Len(cut))}
<1>3. 0 \in T
  <2>1. f[0].ok /\ f[0].next = offset
    BY <1>1, SoManyIs DEF SectionLoop
  <2> QED
    BY <1>1, <1>2, <2>1 DEF SameUpTo, SectionLoop
<1>4. \A k \in Nat : k \in T => k + 1 \in T
  <2> SUFFICES ASSUME NEW k \in Nat, k \in T, k + 1 <= count
               PROVE  SameUpTo(f[k + 1], g[k + 1], Len(cut))
    OBVIOUS
  <2>1. SameUpTo(f[k], g[k], Len(cut))
    OBVIOUS
  <2>2. PICK j \in 1 .. count : j = k + 1 /\ j - 1 = k
    OBVIOUS
  <2>3. f[k + 1] = readItem(sec, cut, f[k]) /\ g[k + 1] = readItem(sec, msg, g[k])
    BY <1>1, <1>2, <2>2 DEF SectionLoop
  <2> QED
    BY <2>1, <2>3, SameItem
<1>5. \A k \in Nat : k \in T
  <2> HIDE DEF T
  <2> QED
    BY <1>3, <1>4, Induct
<1>6. SameUpTo(f[count], g[count], Len(cut))
  BY <1>5
<1> QED
  BY <1>1, <1>2, <1>6

\* A section after another.
Then(sec, msg, before, count) ==
    IF ~before.ok THEN Refused ELSE section(sec, msg, before.next, count)

LEMMA SameThen ==
    ASSUME NEW cut, NEW msg, Begins(cut, msg), NEW sec, NEW x, NEW y, SameUpTo(x, y, Len(cut)),
           NEW count \in Nat
    PROVE  SameUpTo(Then(sec, cut, x, count), Then(sec, msg, y, count), Len(cut))
<1>1. CASE x = Refused
  <2>1. Then(sec, cut, x, count) = Refused
    BY <1>1, RefusedIs DEF Then
  <2> QED
    BY <2>1 DEF SameUpTo
<1>2. CASE x = y /\ x.ok /\ x.next \in Nat /\ x.next <= Len(cut)
  <2>1. PICK p \in Nat : p = x.next /\ p <= Len(cut)
    BY <1>2
  <2>2. SameUpTo(section(sec, cut, p, count), section(sec, msg, p, count), Len(cut))
    BY <2>1, SameSection
  <2>3. /\ Then(sec, cut, x, count) = section(sec, cut, p, count)
        /\ Then(sec, msg, y, count) = section(sec, msg, p, count)
    BY <1>2, <2>1, Zenon DEF Then
  <2> QED
    BY <2>2, <2>3
<1> QED
  BY <1>1, <1>2 DEF SameUpTo

\* The sections of a packet that is cut off after its header.
LEMMA SameSections ==
    ASSUME NEW cut, NEW msg, Begins(cut, msg), 12 <= Len(cut),
           NEW q, q = QdOf(cut), NEW a, a = After2(cut, q), NEW n, n = After3(cut, a),
           NEW qd, qd = QdOf(msg), NEW an, an = After2(msg, qd), NEW ns, ns = After3(msg, an)
    PROVE  SameUpTo(After4(cut, n), After4(msg, ns), Len(cut))
<1>0. Len(cut) \in Nat
  BY BeginsIs
<1>1. 4 + 2 <= Len(cut) /\ 6 + 2 <= Len(cut) /\ 8 + 2 <= Len(cut) /\ 10 + 2 <= Len(cut)
  BY <1>0
<1>2. PICK c1 \in Nat : c1 = Uint16(cut, 4) /\ c1 = Uint16(msg, 4)
  <2>1. 4 \in Nat
    OBVIOUS
  <2> QED
    BY <1>1, <2>1, SameUint16
<1>3. PICK c2 \in Nat : c2 = Uint16(cut, 6) /\ c2 = Uint16(msg, 6)
  <2>1. 6 \in Nat
    OBVIOUS
  <2> QED
    BY <1>1, <2>1, SameUint16
<1>4. PICK c3 \in Nat : c3 = Uint16(cut, 8) /\ c3 = Uint16(msg, 8)
  <2>1. 8 \in Nat
    OBVIOUS
  <2> QED
    BY <1>1, <2>1, SameUint16
<1>5. PICK c4 \in Nat : c4 = Uint16(cut, 10) /\ c4 = Uint16(msg, 10)
  <2>1. 10 \in Nat
    OBVIOUS
  <2> QED
    BY <1>1, <2>1, SameUint16
<1>6. SameUpTo(q, qd, Len(cut))
  <2>1. 12 \in Nat
    OBVIOUS
  <2>2. SameUpTo(section(1, cut, 12, c1), section(1, msg, 12, c1), Len(cut))
    BY <1>2, <2>1, SameSection
  <2>3. q = section(1, cut, 12, c1) /\ qd = section(1, msg, 12, c1)
    BY <1>2, Zenon DEF QdOf
  <2> QED
    BY <2>2, <2>3
<1>7. SameUpTo(a, an, Len(cut))
  <2>1. a = Then(2, cut, q, c2) /\ an = Then(2, msg, qd, c2)
    BY <1>3, Zenon DEF After2, Then
  <2> QED
    BY <1>3, <1>6, <2>1, SameThen
<1>8. SameUpTo(n, ns, Len(cut))
  <2>1. n = Then(3, cut, a, c3) /\ ns = Then(3, msg, an, c3)
    BY <1>4, Zenon DEF After3, Then
  <2> QED
    BY <1>4, <1>7, <2>1, SameThen
<1>9. /\ After4(cut, n) = Then(4, cut, n, c4)
      /\ After4(msg, ns) = Then(4, msg, ns, c4)
  BY <1>5, Zenon DEF After4, Then
<1> QED
  BY <1>5, <1>8, <1>9, SameThen

\* A prefix of a packet.
LEMMA CutOffIs ==
    ASSUME NEW msg \in Seq(Octet), NEW cut \in CutOff(msg)
    PROVE  Begins(cut, msg) /\ Len(cut) < Len(msg)
<1>1. PICK n \in 0 .. Len(msg) - 1 : cut = SubSeq(msg, 1, n)
  BY DEF CutOff
<1>2. n \in Nat /\ n < Len(msg) /\ Len(msg) \in Nat
  BY <1>1
<1>3. cut \in Seq(Octet) /\ Len(cut) = n /\ \A i \in 1 .. n : cut[i] = msg[i]
  BY <1>1, <1>2
<1> QED
  BY <1>2, <1>3 DEF Begins

\* A message that was packed is refused if it is cut off, after whichever octet:
\* UnpackMessage checks every length against the end of the packet, and the numbers
\* in the header tell that items are missing.
THEOREM CutOffIsRefused ==
    ASSUME NEW m \in FitMessage, Pack(m).ok, NEW cut \in CutOff(Pack(m).data)
    PROVE  UnpackMessage(cut) = Refused
<1>1. PICK data \in Seq(Octet) : data = Pack(m).data
  BY MessagePacked
<1>2. Begins(cut, data) /\ Len(cut) < Len(data)
  BY <1>1, CutOffIs
<1>3. Len(cut) \in Nat /\ Len(data) \in Nat
  BY <1>2, BeginsIs
<1>4. PICK q, a, n, r : /\ q = QdOf(cut) /\ a = After2(cut, q) /\ n = After3(cut, a)
                        /\ r = After4(cut, n)
  OBVIOUS
<1>5. UnpackMessage(cut) =
         IF Len(cut) < 12 THEN Refused
         ELSE IF ~r.ok THEN Refused
         ELSE [ok |-> TRUE, msg |-> Msg6(Uint16(cut, 0), Uint16(cut, 2),
                                         q.items, a.items, n.items, r.items)]
  BY <1>4, UnpackIs
<1>6. CASE Len(cut) < 12
  BY <1>5, <1>6, Zenon
<1>7. CASE 12 <= Len(cut)
  <2>1. PICK ar : SameUpTo(r, ar, Len(cut)) /\ ar.next = Len(data)
    <3>1. PICK qd, an, ns, ar : /\ qd = QdOf(data) /\ an = After2(data, qd)
                                /\ ns = After3(data, an) /\ ar = After4(data, ns)
      OBVIOUS
    <3>2. SameUpTo(r, ar, Len(cut))
      BY <1>2, <1>4, <1>7, <3>1, SameSections
    <3>3. ar.next = Len(data)
      BY <1>1, <3>1, PackedSections
    <3> QED
      BY <3>2, <3>3
  <2>2. r = Refused
    BY <1>2, <1>3, <2>1 DEF SameUpTo
  <2> QED
    BY <1>5, <2>2, RefusedIs, Zenon
<1> QED
  BY <1>3, <1>6, <1>7

-----------------------------------------------------------------------------
(* The packet on its way, and what handlePacket does with it. *)

\* What handlePacket does with a message it could parse.
ActOf(p, m) ==
    IF m.id # 0
    THEN (IF IsQuery(m) /\ ~p.from.mdnsPort THEN "legacy" ELSE "ignored")
    ELSE IF ~IsValidmDNS(m) \/ ~p.from.local THEN "ignored"
    ELSE IF IsQuery(m) THEN "query" ELSE "response"

LEMMA OutcomeIs ==
    ASSUME NEW p, NEW u, u = UnpackMessage(p.data)
    PROVE  outcomeOf(p) = IF ~u.ok THEN [kind |-> "malformed"]
                          ELSE [kind |-> ActOf(p, u.msg), msg |-> u.msg]
  BY Zenon DEF outcomeOf, ActOf

LEMMA ActIs ==
    ASSUME NEW p, NEW m
    PROVE  ActOf(p, m) \in {"legacy", "ignored", "query", "response"}
  BY DEF ActOf

\* The packet is what its message was packed to, or is damaged in one of two ways;
\* what was done last was done with that packet.
OnTheWay ==
    /\ message \in Message /\ Pack(message).ok
    /\ \/ ~damaged /\ air.data = Pack(message).data
       \/ damaged /\ air.data \in CutOff(Pack(message).data) \cup Misdirected(Pack(message).data)
    /\ outcome = [kind |-> "none"] \/ outcome = outcomeOf(air)

LEMMA InitOnTheWay == WireInit => OnTheWay
<1> SUFFICES ASSUME WireInit PROVE OnTheWay
  OBVIOUS
<1>1. message \in Message /\ Pack(message).ok /\ outcome = [kind |-> "none"]
  BY DEF WireInit
<1>2. \/ ~damaged /\ air.data = Pack(message).data
      \/ damaged /\ air.data \in CutOff(Pack(message).data) \cup Misdirected(Pack(message).data)
  <2>1. PICK data : data = Pack(message).data
    OBVIOUS
  <2>2. CASE damaged = FALSE /\ air \in [data : {data}, from : Source]
    BY <2>1, <2>2
  <2>3. CASE damaged = TRUE /\ air \in [data : CutOff(data) \cup Misdirected(data), from : {Peer}]
    BY <2>1, <2>3
  <2> QED
    BY <2>1, <2>2, <2>3 DEF WireInit
<1> QED
  BY <1>1, <1>2 DEF OnTheWay

LEMMA StepOnTheWay == OnTheWay /\ [WireNext]_vars => OnTheWay'
<1> SUFFICES ASSUME OnTheWay, [WireNext]_vars PROVE OnTheWay'
  OBVIOUS
<1>1. /\ message' = message /\ damaged' = damaged /\ air' = air
      /\ outcome' = outcome \/ outcome' = outcomeOf(air)
  BY Zenon DEF WireNext, Receive, Handle, Live, vars, wireVars
<1>2. outcomeOf(air)' = outcomeOf(air)
  BY <1>1, Zenon DEF outcomeOf
<1> QED
  BY <1>1, <1>2, Zenon DEF OnTheWay

\* To the transport, the packet is one of its packets, and the bounds on what is
\* explored only take behaviours away.
THEOREM WireIsTransport == WireSpec => TransportSpec
<1>1. WireInit => TransportInit
  BY DEF WireInit
<1>2. [WireNext]_vars => [TransportNext]_transportVars
  <2> SUFFICES ASSUME [WireNext]_vars PROVE [TransportNext]_transportVars
    OBVIOUS
  <2>1. CASE Receive
    <3>1. ~panicked /\ \E s \in Socket, p \in Packet : Arrive(s, p)
      BY <2>1, WireAssumption DEF Receive
    <3> QED
      BY <3>1 DEF TransportNext
  <2>2. CASE Handle
    BY <2>2 DEF Handle, TransportNext
  <2>3. CASE Live
    BY <2>3 DEF Live, TransportNext
  <2>4. CASE UNCHANGED vars
    BY <2>4, Zenon DEF vars
  <2> QED
    BY <2>1, <2>2, <2>3, <2>4 DEF WireNext
<1> QED
  BY <1>1, <1>2, PTL DEF WireSpec, TransportSpec

\* In every state the packet is the one that was packed, or a damaged form of it, and
\* what handlePacket did last it did with that packet.
THEOREM PacketInvariance == WireSpec => []OnTheWay
  BY InitOnTheWay, StepOnTheWay, PTL DEF WireSpec

\* Every message that Pack accepts is parsed by the receiver.
THEOREM PackedMessagesParse == MessagesFit => (WireSpec => []PackedIsParsed)
<1> SUFFICES ASSUME MessagesFit PROVE WireSpec => []PackedIsParsed
  OBVIOUS
<1>1. OnTheWay => PackedIsParsed
  <2> SUFFICES ASSUME OnTheWay, outcome.kind = "malformed", ~damaged PROVE FALSE
    BY DEF PackedIsParsed
  <2>1. message \in FitMessage /\ Pack(message).ok /\ air.data = Pack(message).data
    BY DEF OnTheWay, MessagesFit
  <2>2. outcome = outcomeOf(air)
    BY DEF OnTheWay
  <2>3. PICK u : u = UnpackMessage(air.data)
    OBVIOUS
  <2>4. u = [ok |-> TRUE, msg |-> ReceivedMessage(message)]
    BY <2>1, <2>3, MessageRoundTrip
  <2>5. u.ok
    BY <2>4
  <2>6. outcome = [kind |-> ActOf(air, u.msg), msg |-> u.msg]
    BY <2>2, <2>3, <2>5, OutcomeIs, Zenon
  <2>7. outcome.kind = ActOf(air, u.msg)
    BY <2>6
  <2> QED
    BY <2>7, ActIs
<1> QED
  BY <1>1, PacketInvariance, PTL

\* What the server acts upon is what was packed, unless the packet was led astray.
LEMMA HandledIs ==
    ASSUME MessagesFit, OnTheWay
    PROVE  \/ HandledWasSent
           \/ /\ outcome.kind \in {"query", "response", "legacy"}
              /\ air.data \in Misdirected(Pack(message).data) /\ UnpackMessage(air.data).ok
<1> SUFFICES ASSUME outcome.kind \in {"query", "response", "legacy"}
             PROVE  \/ ~damaged /\ outcome.msg = ReceivedMessage(message)
                    \/ /\ air.data \in Misdirected(Pack(message).data)
                       /\ UnpackMessage(air.data).ok
  BY DEF HandledWasSent
<1>1. message \in FitMessage /\ Pack(message).ok
  BY DEF OnTheWay, MessagesFit
<1>2. outcome = outcomeOf(air)
  BY DEF OnTheWay
<1>3. PICK u : u = UnpackMessage(air.data)
  OBVIOUS
<1>4. u.ok
  <2> SUFFICES ASSUME ~u.ok PROVE FALSE
    OBVIOUS
  <2>1. outcome = [kind |-> "malformed"]
    BY <1>2, <1>3, OutcomeIs, Zenon
  <2> QED
    BY <2>1
<1>5. outcome = [kind |-> ActOf(air, u.msg), msg |-> u.msg]
  BY <1>2, <1>3, <1>4, OutcomeIs, Zenon
<1>6. outcome.msg = u.msg
  BY <1>5
<1>7. CASE ~damaged /\ air.data = Pack(message).data
  <2>1. u = [ok |-> TRUE, msg |-> ReceivedMessage(message)]
    BY <1>1, <1>3, <1>7, MessageRoundTrip
  <2>2. u.msg = ReceivedMessage(message)
    BY <2>1
  <2> QED
    BY <1>6, <1>7, <2>2
<1>8. CASE air.data \in CutOff(Pack(message).data)
  <2>1. u = Refused
    BY <1>1, <1>3, <1>8, CutOffIsRefused
  <2>2. ~Refused.ok
    BY DEF Refused
  <2> QED
    BY <1>4, <2>1, <2>2
<1>9. CASE air.data \in Misdirected(Pack(message).data)
  BY <1>3, <1>4, <1>9
<1> QED
  BY <1>7, <1>8, <1>9 DEF OnTheWay

\* A message that the server acts upon is the one that the peer packed, field by
\* field, and of a packet that is cut off no part is acted upon: for every set of
\* messages of the code's types.  Only of a packet with a misdirected pointer this
\* says nothing.
THEOREM HandledOrMisdirected ==
    MessagesFit => (WireSpec => [](HandledWasSent \/ air.data \in Misdirected(Pack(message).data)))
<1> SUFFICES ASSUME MessagesFit
             PROVE  WireSpec => [](HandledWasSent \/ air.data \in Misdirected(Pack(message).data))
  OBVIOUS
<1>1. OnTheWay => HandledWasSent \/ air.data \in Misdirected(Pack(message).data)
  BY HandledIs
<1> QED
  BY <1>1, PacketInvariance, PTL

\* Neither is a part of a packet with a misdirected pointer acted upon, if each octet
\* of a packed message that looks like a pointer is one that UnpackMessage follows.
THEOREM HandledWasPacked ==
    MessagesFit /\ LoopsAreRefused => (WireSpec => []HandledWasSent)
<1> SUFFICES ASSUME MessagesFit, LoopsAreRefused PROVE WireSpec => []HandledWasSent
  OBVIOUS
<1>1. OnTheWay => HandledWasSent
  <2> SUFFICES ASSUME OnTheWay,
                      air.data \in Misdirected(Pack(message).data), UnpackMessage(air.data).ok
               PROVE  FALSE
    BY HandledIs
  <2>1. message \in Message /\ Pack(message).ok
    BY DEF OnTheWay
  <2> QED
    BY <2>1 DEF LoopsAreRefused
<1> QED
  BY <1>1, PacketInvariance, PTL

=============================================================================
