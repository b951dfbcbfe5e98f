-------------------------------- MODULE Codec -------------------------------
(***************************************************************************)
(* The DNS message codec: names and their compression (src/dns_name.go),   *)
(* questions and resource records (src/dns_rr.go), messages                *)
(* (src/dns_message.go).                                                   *)
(*                                                                         *)
(* Data.  A packet is a sequence of octets; offsets count from 0, as in    *)
(* the code.  A name in presentation format is the sequence of its labels, *)
(* none of which is empty or has a dot in it; a label and a string are     *)
(* sequences of octets.  TypeBitMaps is a set.  What Go reports as an      *)
(* error is ok = FALSE.                                                    *)
(***************************************************************************)
EXTENDS Naturals, Sequences, FiniteSets

CONSTANTS MaxLabel,    \* octets of a label (63)
          MaxPointer,  \* the largest offset a pointer can hold (0x3FFF)
          MaxJumps,    \* pointers followed in one name (128)
          MaxString,   \* octets of a TXT string (255)
          MaxMessage   \* octets of a message (9000)

ASSUME CodecAssumption ==
    /\ MaxLabel \in 1 .. 63
    /\ MaxPointer \in 0 .. 16383
    /\ MaxJumps \in Nat \ {0}
    /\ MaxString \in 0 .. 255
    /\ MaxMessage \in 12 .. 9000

pointerMask == 192
cacheFlushBit == 32768
TypeA == 1
TypePTR == 12
TypeTXT == 16
TypeAAAA == 28
TypeSRV == 33
TypeNSEC == 47
NameTypes == {2, 5, TypePTR}   \* NS, CNAME, PTR

Octet == 0 .. 255
Label == {l \in Seq(Octet) : Len(l) \in 1 .. MaxLabel}
Name == Seq(Label)
Wide32(n) == n \in Nat /\ n \div 65536 < 65536

U16(n) == <<(n \div 256) % 256, n % 256>>
U32(n) == U16(n \div 65536) \o U16(n % 65536)
Uint16(msg, pos) == 256 * msg[pos + 1] + msg[pos + 2]

ZeroRR == [name |-> <<>>, type |-> 0, class |-> 0, ttl |-> 0, flush |-> FALSE,
           ip |-> <<>>, target |-> <<>>, srv |-> <<0, 0, 0>>, text |-> <<>>,
           next |-> <<>>, types |-> {}, raw |-> <<>>]

-----------------------------------------------------------------------------
(* Packing: a buffer, the offsets of the suffixes in it, and success. *)

Put(w, octets) == [w EXCEPT !.buf = @ \o octets]
Fail(w) == [w EXCEPT !.ok = FALSE]

\* compression[suffix] = offset
Recorded(comp, suffix, offset) ==
    [s \in DOMAIN comp \cup {suffix} |-> IF s = suffix THEN offset ELSE comp[s]]

\* Mutant: the offset recorded is that after the length octet.
writeLabelOffByOne(w, name) ==
    IF Len(Head(name)) > MaxLabel THEN Fail(w)
    ELSE [Put(w, <<Len(Head(name))>> \o Head(name)) EXCEPT
             !.comp = IF Len(w.buf) > MaxPointer THEN @
                      ELSE Recorded(@, name, Len(w.buf) + 1)]

\* A round of the loop of writeName: the first label of a suffix that is not yet
\* in the message.  An offset too large for a pointer is not recorded.
writeLabel(w, name) ==
    IF Len(Head(name)) > MaxLabel THEN Fail(w)
    ELSE [Put(w, <<Len(Head(name))>> \o Head(name)) EXCEPT
             !.comp = IF Len(w.buf) > MaxPointer THEN @
                      ELSE Recorded(@, name, Len(w.buf))]

\* The suffix of a name from label k on.
Suffix(name, k) == SubSeq(name, k, Len(name))

\* How many labels come before the longest suffix that is in the message already.
Unknown(w, name) ==
    CHOOSE n \in 0 .. Len(name) :
        /\ \A k \in 1 .. n : Suffix(name, k) \notin DOMAIN w.comp
        /\ n < Len(name) => Suffix(name, n + 1) \in DOMAIN w.comp

\* The loop of writeName after k rounds.
writeRounds(w, name) ==
    LET after[k \in 0 .. Len(name)] ==
            IF k = 0 THEN w ELSE writeLabel(after[k - 1], Suffix(name, k))
    IN after

\* writeName: so many labels, then a pointer to the rest or the root.
writeName(w, name) ==
    LET n == Unknown(w, name)
        offset == w.comp[Suffix(name, n + 1)]
    IN Put(writeRounds(w, name)[n],
           IF n = Len(name) THEN <<0>>
           ELSE <<pointerMask + offset \div 256, offset % 256>>)

\* net.IP.To4 and To16: an IPv4 address may be held in 16 octets.
Mapped == [i \in 1 .. 12 |-> IF i > 10 THEN 255 ELSE 0]
To4(ip) == IF Len(ip) = 16 /\ SubSeq(ip, 1, 12) = Mapped THEN SubSeq(ip, 13, 16) ELSE ip
To16(ip) == IF Len(ip) = 4 THEN Mapped \o ip ELSE ip

\* The octets of a TXT record: its strings, each after its length.
writeStrings(text) ==
    LET after[k \in 0 .. Len(text)] ==
            IF k = 0 THEN <<>> ELSE after[k - 1] \o (<<Len(text[k])>> \o text[k])
    IN after[Len(text)]

\* 0x80 >> 0 to 0x80 >> 7
Mask == <<128, 64, 32, 16, 8, 4, 2, 1>>

\* The octets for the types of a window, up to the one that has the last of them.
Largest(S) == CHOOSE x \in S : \A y \in S : y <= x
BitMap(bits) ==
    LET bit(b) == IF b \in bits THEN Mask[(b % 8) + 1] ELSE 0
        octet(b) == bit(b) + bit(b + 1) + bit(b + 2) + bit(b + 3)
                    + bit(b + 4) + bit(b + 5) + bit(b + 6) + bit(b + 7)
    IN [i \in 1 .. (Largest(bits) \div 8) + 1 |-> octet(8 * (i - 1))]

\* The types of a window, and their block.
InWindow(types, win) == {t % 256 : t \in {t \in types : t \div 256 = win}}
Block(types, win) ==
    LET map == BitMap(InWindow(types, win)) IN <<win, Len(map)>> \o map

\* encodeTypeBitMaps, up to window k: the windows that have types, in ascending order.
\* The loop ends before window 255.
encodeTypeBitMaps(types) ==
    LET windows(k) == {t \div 256 : t \in types} \cap 0 .. k - 1
        upTo[k \in 0 .. 255] ==
            IF windows(k) = {} THEN <<>>
            ELSE upTo[Largest(windows(k))] \o Block(types, Largest(windows(k)))
    IN upTo[255]

\* ResourceRecord.pack, the part that depends on the type.
packRDATA(w, rr) ==
    CASE rr.type = TypeA -> IF Len(To4(rr.ip)) = 4 THEN Put(w, To4(rr.ip)) ELSE Fail(w)
      [] rr.type = TypeAAAA -> IF Len(To16(rr.ip)) = 16 THEN Put(w, To16(rr.ip)) ELSE Fail(w)
      [] rr.type \in NameTypes -> writeName(w, rr.target)
      [] rr.type = TypeSRV ->
            writeName(Put(w, U16(rr.srv[1]) \o U16(rr.srv[2]) \o U16(rr.srv[3])), rr.target)
      [] rr.type = TypeTXT ->
            CASE rr.text = <<>> -> Put(w, <<0>>)
              [] \E i \in DOMAIN rr.text : Len(rr.text[i]) > MaxString -> Fail(w)
              [] OTHER -> Put(w, writeStrings(rr.text))
      [] rr.type = TypeNSEC ->
            Put(writeName(w, rr.next), encodeTypeBitMaps(rr.types))
      [] OTHER -> Put(w, rr.raw)

\* ResourceRecord.pack: RDLENGTH is filled in when RDATA is written.
packRR(w, rr) ==
    LET class == rr.class + IF rr.flush THEN cacheFlushBit ELSE 0
        Patched(full, rdStart, rdLen) ==
            [full EXCEPT !.buf[rdStart - 1] = rdLen[1], !.buf[rdStart] = rdLen[2]]
        Sized(full, rdStart) == Patched(full, rdStart, U16(Len(full.buf) - rdStart))
        After(head) == Sized(packRDATA(head, rr), Len(head.buf))
    IN IF ~w.ok THEN w
       ELSE After(Put(writeName(w, rr.name),
                      U16(rr.type) \o U16(class) \o U32(rr.ttl) \o <<0, 0>>))

packQuestion(w, q) ==
    IF ~w.ok THEN w ELSE Put(writeName(w, q.name), U16(q.type) \o U16(q.class))

\* The loops of Message.Pack: the items of section n, the first being the questions.
packSection(n, w, items) ==
    LET after[k \in 0 .. Len(items)] ==
            IF k = 0 THEN w
            ELSE IF n = 1 THEN packQuestion(after[k - 1], items[k])
            ELSE packRR(after[k - 1], items[k])
    IN after[Len(items)]

\* Message.Pack
Pack(m) ==
    LET counts == U16(Len(m.questions)) \o U16(Len(m.answers))
                  \o U16(Len(m.authorities)) \o U16(Len(m.additionals))
        start == [buf |-> U16(m.id) \o U16(m.flags) \o counts, comp |-> <<>>, ok |-> TRUE]
        qd == packSection(1, start, m.questions)
        an == packSection(2, qd, m.answers)
        ns == packSection(3, an, m.authorities)
        ar == packSection(4, ns, m.additionals)
    IN [ok |-> ar.ok /\ Len(ar.buf) <= MaxMessage, data |-> ar.buf]

-----------------------------------------------------------------------------
(* Unpacking. *)

Refused == [ok |-> FALSE]

\* What a loop of at most so many rounds ends with.
Ended(after, most) == after[CHOOSE k \in 0 .. most : after[k].state # "reading"]

\* The variables of the loop of readName; state tells if the loop still runs.
\* end is the offset after the name field once a pointer was followed.
At(pos, labels, jumps, end, state) ==
    [pos |-> pos, labels |-> labels, jumps |-> jumps, end |-> end, state |-> state]

\* A round of the loop of readName: the end of the name, a pointer or a label.
readLabel(msg, r) ==
    LET length == msg[r.pos + 1]
        pointer == 256 * (length - pointerMask) + msg[r.pos + 2]
        refused == [r EXCEPT !.state = "refused"]
        field(size) == IF r.jumps = 0 THEN r.pos + size ELSE r.end
    IN
    IF r.state # "reading" THEN r
    ELSE IF r.pos >= Len(msg) THEN refused
    ELSE IF length = 0 THEN At(r.pos, r.labels, r.jumps, field(1), "read")
    ELSE IF length >= pointerMask THEN
        IF r.pos + 1 >= Len(msg) THEN refused
        ELSE IF pointer >= Len(msg) \/ r.jumps + 1 > MaxJumps THEN refused
        ELSE At(pointer, r.labels, r.jumps + 1, field(2), "reading")
    ELSE IF length > MaxLabel \/ r.pos + 1 + length > Len(msg) THEN refused
    ELSE At(r.pos + 1 + length,
            Append(r.labels, SubSeq(msg, r.pos + 2, r.pos + 1 + length)),
            r.jumps, r.end, "reading")

\* The loop of readName after k rounds from r.
readRounds(msg, r) ==
    LET after[k \in Nat] == IF k = 0 THEN r ELSE readLabel(msg, after[k - 1])
    IN after

\* A round moves on in the message or is one of the jumps.
MostRounds(msg) == (MaxJumps + 1) * (Len(msg) + 1)

readName(msg, offset) ==
    LET after == readRounds(msg, At(offset, <<>>, 0, 0, "reading"))
        last == Ended(after, MostRounds(msg))
    IN IF last.state = "refused" THEN Refused
       ELSE [ok |-> TRUE, name |-> last.labels, next |-> last.end]

\* The variables of the loops over the strings of a TXT record and over the blocks
\* of type bit maps, which end where the record ends.
Got(pos, items, state) == [pos |-> pos, items |-> items, state |-> state]

readString(msg, end, r) ==
    LET after == r.pos + 1 + msg[r.pos + 1]
    IN IF r.state # "reading" THEN r
       ELSE IF r.pos >= end THEN Got(r.pos, r.items, "read")
       ELSE IF after > end THEN Got(r.pos, r.items, "refused")
       ELSE Got(after, Append(r.items, SubSeq(msg, r.pos + 2, after)), "reading")

\* A round takes an octet or more, or ends the loop.
readStrings(msg, offset, end) ==
    LET after[k \in 0 .. end + 1] ==
            IF k = 0 THEN Got(offset, <<>>, "reading") ELSE readString(msg, end, after[k - 1])
    IN Ended(after, end + 1)

readBlock(msg, end, r) ==
    LET size == msg[r.pos + 2]
        after == r.pos + 2 + size
        isSet(b) == (msg[r.pos + 3 + b \div 8] \div Mask[(b % 8) + 1]) % 2 = 1
        types == {256 * msg[r.pos + 1] + b : b \in {b \in 0 .. 8 * size - 1 : isSet(b)}}
    IN IF r.state # "reading" THEN r
       ELSE IF r.pos >= end THEN Got(r.pos, r.items, "read")
       ELSE IF r.pos + 2 > end THEN Got(r.pos, r.items, "refused")
       ELSE IF after > end THEN Got(r.pos, r.items, "refused")
       ELSE Got(after, r.items \cup types, "reading")

decodeTypeBitMaps(msg, offset, end) ==
    LET after[k \in 0 .. end + 1] ==
            IF k = 0 THEN Got(offset, {}, "reading") ELSE readBlock(msg, end, after[k - 1])
    IN Ended(after, end + 1)

\* ResourceRecord.unpackRDATA, of rr with the fixed fields set.
unpackRDATA(rr, msg, offset, rdlen) ==
    LET end == offset + rdlen
        octets == SubSeq(msg, offset + 1, end)
        Done(rec) == [ok |-> TRUE, rr |-> rec]
        Target(name) == IF name.ok THEN Done([rr EXCEPT !.target = name.name]) ELSE Refused
        Service(name) ==
            IF ~name.ok THEN Refused
            ELSE Done([rr EXCEPT !.target = name.name,
                          !.srv = [i \in 1 .. 3 |-> Uint16(msg, offset + 2 * (i - 1))]])
        Text(strings) ==
            IF strings.state = "refused" THEN Refused
            ELSE Done([rr EXCEPT !.text = strings.items])
        Absent(name, maps) ==
            IF maps.state = "refused" THEN Refused
            ELSE Done([rr EXCEPT !.next = name.name, !.types = maps.items])
        Denial(name) == IF ~name.ok THEN Refused
                        ELSE Absent(name, decodeTypeBitMaps(msg, name.next, end))
    IN
    IF end > Len(msg) THEN Refused ELSE
    CASE rr.type = TypeA -> IF rdlen = 4 THEN Done([rr EXCEPT !.ip = octets]) ELSE Refused
      [] rr.type = TypeAAAA -> IF rdlen = 16 THEN Done([rr EXCEPT !.ip = octets]) ELSE Refused
      [] rr.type \in NameTypes -> Target(readName(msg, offset))
      [] rr.type = TypeSRV -> IF rdlen < 7 THEN Refused ELSE Service(readName(msg, offset + 6))
      [] rr.type = TypeTXT -> Text(readStrings(msg, offset, end))
      [] rr.type = TypeNSEC -> Denial(readName(msg, offset))
      [] OTHER -> Done([rr EXCEPT !.raw = octets])

\* Mutant: RDATA that runs over the end of the packet is taken as far as it goes.
readRRClamped(msg, offset) ==
    LET Fixed(name, pos, class) ==
            [ZeroRR EXCEPT
                !.name = name, !.type = Uint16(msg, pos),
                !.class = class % cacheFlushBit, !.flush = class >= cacheFlushBit,
                !.ttl = 65536 * Uint16(msg, pos + 4) + Uint16(msg, pos + 6)]
        Whole(rdata, next) ==
            IF ~rdata.ok THEN Refused ELSE [ok |-> TRUE, item |-> rdata.rr, next |-> next]
        RData(fixed, pos, rdlen) == Whole(unpackRDATA(fixed, msg, pos, rdlen), pos + rdlen)
        Clamped(pos, rdlen) == IF pos + rdlen > Len(msg) THEN Len(msg) - pos ELSE rdlen
        After(name) ==
            IF ~name.ok THEN Refused
            ELSE IF name.next + 10 > Len(msg) THEN Refused
            ELSE RData(Fixed(name.name, name.next, Uint16(msg, name.next + 2)),
                       name.next + 10, Clamped(name.next + 10, Uint16(msg, name.next + 8)))
    IN After(readName(msg, offset))

\* One record of readRRs: its name, its fixed fields, its RDATA.
readRR(msg, offset) ==
    LET Fixed(name, pos, class) ==
            [ZeroRR EXCEPT
                !.name = name, !.type = Uint16(msg, pos),
                !.class = class % cacheFlushBit, !.flush = class >= cacheFlushBit,
                !.ttl = 65536 * Uint16(msg, pos + 4) + Uint16(msg, pos + 6)]
        Whole(rdata, next) ==
            IF ~rdata.ok THEN Refused ELSE [ok |-> TRUE, item |-> rdata.rr, next |-> next]
        RData(fixed, pos, rdlen) == Whole(unpackRDATA(fixed, msg, pos, rdlen), pos + rdlen)
        After(name) ==
            IF ~name.ok THEN Refused
            ELSE IF name.next + 10 > Len(msg) THEN Refused
            ELSE RData(Fixed(name.name, name.next, Uint16(msg, name.next + 2)),
                       name.next + 10, Uint16(msg, name.next + 8))
    IN After(readName(msg, offset))

readQuestion(msg, offset) ==
    LET After(name) ==
            IF ~name.ok THEN Refused
            ELSE IF name.next + 4 > Len(msg) THEN Refused
            ELSE [ok |-> TRUE, next |-> name.next + 4,
                  item |-> [name |-> name.name, type |-> Uint16(msg, name.next),
                            class |-> Uint16(msg, name.next + 2)]]
    IN After(readName(msg, offset))

\* One item more of a section that has been read up to here.
readItem(n, msg, sec) ==
    LET With(one) ==
            IF ~one.ok THEN Refused
            ELSE [ok |-> TRUE, next |-> one.next, items |-> Append(sec.items, one.item)]
    IN IF ~sec.ok THEN Refused
       ELSE With(IF n = 1 THEN readQuestion(msg, sec.next) ELSE readRR(msg, sec.next))

\* readRRs, and the loop over the questions (section 1): so many items in a row.
section(n, msg, offset, count) ==
    LET after[k \in 0 .. count] ==
            IF k = 0 THEN [ok |-> TRUE, next |-> offset, items |-> <<>>]
            ELSE readItem(n, msg, after[k - 1])
    IN after[count]

\* UnpackMessage: the header with the number of items of each section, then the
\* four sections.
UnpackMessage(msg) ==
    LET Section(n, before) ==
            IF ~before.ok THEN Refused
            ELSE section(n, msg, before.next, Uint16(msg, 2 + 2 * n))
        Whole(qd, an, ns, ar) ==
            IF ~ar.ok THEN Refused
            ELSE [ok |-> TRUE,
                  msg |-> [id |-> Uint16(msg, 0), flags |-> Uint16(msg, 2),
                           questions |-> qd.items, answers |-> an.items,
                           authorities |-> ns.items, additionals |-> ar.items]]
        Fourth(qd, an, ns) == Whole(qd, an, ns, Section(4, ns))
        Third(qd, an) == Fourth(qd, an, Section(3, an))
        Second(qd) == Third(qd, Section(2, qd))
    IN IF Len(msg) < 12 THEN Refused
       ELSE Second(section(1, msg, 12, Uint16(msg, 4)))

-----------------------------------------------------------------------------
(* Flags, as handlePacket and IsValidmDNS read them. *)

IsQuery(m) == m.flags < 32768
Opcode(m) == (m.flags \div 2048) % 16
RCode(m) == m.flags % 16
IsValidmDNS(m) == Opcode(m) = 0 /\ (~IsQuery(m) => RCode(m) = 0)

=============================================================================
