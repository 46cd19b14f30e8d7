----------------------------- MODULE Serializer -----------------------------
(***************************************************************************)
(* The binary form of an event's header, inter/event_serializer.go with    *)
(* the bit arrays of utils/fast/bits.go: the widths of the integers in     *)
(* nibbles and pairs of bits, the integers with the low byte first and no  *)
(* zero byte on top, the parents without their epoch, two hashes that are  *)
(* left out when they are empty, and the rest.                             *)
(*                                                                         *)
(* A byte has ByteBits bits and an uint64 Size64 bytes (8 and 8 in the     *)
(* code), so that numbers stay in TLC's range.  Both errors of             *)
(* UnmarshalBinary are the outcome <<>>.                                   *)
(***************************************************************************)
EXTENDS Integers, Sequences, SequencesExt, FiniteSetsExt

CONSTANTS
    ByteBits, Size64,
    Headers,        \* the headers to encode
    HashLength, EmptyTxHash

VARIABLES
    header,     \* the event's header, EventHeaderData; the first of fields32 is its Epoch
    spelling,   \* how wire spells the header, see Canonical
    wire,       \* what a peer gets
    phase,      \* "new", "sent" or "read"
    out         \* what UnmarshalBinary returns: <<the header>>, or <<>> for an error

vars == <<header, spelling, wire, phase, out>>

Base == 2^ByteBits
Size32 == 4
Zero == [i \in 1..HashLength |-> 0]

-----------------------------------------------------------------------------
\* fast.BitArray
calcSize(bits, count) == (bits * count + ByteBits - 1) \div ByteBits

\* Item i, from 0, is at this byte and this bit of it.
nextPart(bits, i) == [byte |-> (bits * i) \div ByteBits, part |-> (bits * i) % ByteBits]

Push(bits, items) ==
    [b \in 1..calcSize(bits, Len(items)) |->
        MapThenSumSet(LAMBDA i : items[i] * 2^(nextPart(bits, i - 1).part),
                      {i \in DOMAIN items : nextPart(bits, i - 1).byte = b - 1})]

Pop(bits, raw, i) ==
    (raw[nextPart(bits, i).byte + 1] \div 2^(nextPart(bits, i).part)) % 2^bits

-----------------------------------------------------------------------------
\* Mutant: the top byte is never written.
CompactWidthShort(v, size) ==
    CHOOSE n \in 1..size :
        /\ n = size - 1 \/ v < Base^n
        /\ \A m \in 1..(n - 1) : v >= Base^m

\* writeUintCompact: how many bytes, and which
CompactWidth(v, size) ==
    CHOOSE n \in 1..size :
        /\ n = size \/ v < Base^n
        /\ \A m \in 1..(n - 1) : v >= Base^m

\* The n bytes of v; past the 64th bit zeros, and top in the last.
CompactBytes(v, n, top) ==
    [i \in 1..n |-> IF i <= Size64 THEN (v \div Base^(i - 1)) % Base
                    ELSE IF i = n THEN top ELSE 0]

fields32(h) == Append(h.fields32, Len(h.parents))
Integer(h) == h.fields64 \o fields32(h)
Size(h, i) == IF i <= Len(h.fields64) THEN Size64 ELSE Size32

Flag(b) == IF b THEN 1 ELSE 0

\* What MarshalBinary chooses: the widths, the flags and the pairs behind them.
Canonical(h) ==
    [widths |-> [i \in DOMAIN Integer(h) |-> CompactWidth(Integer(h)[i], Size(h, i))],
     top |-> 0,
     flags |-> <<Flag(h.isRoot), Flag(h.prevEpochHash = Zero), Flag(h.txHash = EmptyTxHash)>>,
     spare |-> <<>>]

\* The bytes for any choice of these.
Encode(h, s) ==
    LET n64 == Len(h.fields64)
        n32 == Len(fields32(h))
    IN  Push(4, [i \in 1..n64 |-> s.widths[i] - 1])
        \o Push(2, [i \in 1..n32 |-> s.widths[n64 + i] - 1] \o s.flags \o s.spare)
        \o FlattenSeq([i \in DOMAIN s.widths |-> CompactBytes(Integer(h)[i], s.widths[i], s.top)])
        \o FlattenSeq([i \in DOMAIN h.parents |-> h.parents[i].tail])
        \o (IF s.flags[2] = 0 THEN h.prevEpochHash ELSE <<>>)
        \o (IF s.flags[3] = 0 THEN h.txHash ELSE <<>>)
        \o h.extra

MarshalBinary(h) == Encode(h, Canonical(h))

-----------------------------------------------------------------------------
\* readUintCompact: bytes past the 64th bit are shifted out.
CompactValue(bytes) ==
    MapThenSumSet(LAMBDA i : IF i <= Size64 THEN bytes[i] * Base^(i - 1) ELSE 0, DOMAIN bytes)

CanonicalBytes(bytes) == ~(Len(bytes) > 1 /\ Last(bytes) = 0)

\* UnmarshalBinary for n64 and n32 integers; to read past the end panics, and is recovered.
UnmarshalBinary(raw, n64, n32) ==
    LET size3 == calcSize(4, n64)
        size2 == calcSize(2, n32 + 3)
        start == size3 + size2
        pairs == SubSeq(raw, size3 + 1, start)
        widths == [i \in 1..(n64 + n32) |->
                      1 + (IF i <= n64 THEN Pop(4, raw, i - 1) ELSE Pop(2, pairs, i - n64 - 1))]
        end[i \in 0..(n64 + n32)] == IF i = 0 THEN start ELSE end[i - 1] + widths[i]
        bytes == [i \in DOMAIN widths |-> SubSeq(raw, end[i - 1] + 1, end[i])]
        flag(i) == Pop(2, pairs, n32 + i) # 0
        ints == [i \in DOMAIN widths |-> CompactValue(bytes[i])]
        count == ints[n64 + n32]
        tails == end[n64 + n32]
        tail == HashLength - 1
        prev == tails + count * tail
        tx == prev + (IF flag(1) THEN 0 ELSE HashLength)
        extra == tx + (IF flag(2) THEN 0 ELSE HashLength)
        h == [fields64 |-> SubSeq(ints, 1, n64),
              fields32 |-> SubSeq(ints, n64 + 1, n64 + n32 - 1),
              isRoot |-> flag(0),
              parents |-> [i \in 1..count |->
                              [epoch |-> ints[n64 + 1],
                               tail |-> SubSeq(raw, tails + (i - 1) * tail + 1, tails + i * tail)]],
              prevEpochHash |-> IF flag(1) THEN Zero ELSE SubSeq(raw, prev + 1, tx),
              txHash |-> IF flag(2) THEN EmptyTxHash ELSE SubSeq(raw, tx + 1, extra),
              extra |-> SubSeq(raw, extra + 1, Len(raw))]
    IN  IF /\ start <= Len(raw)
           /\ tails <= Len(raw)
           /\ \A i \in DOMAIN bytes : CanonicalBytes(bytes[i])
           /\ extra <= Len(raw)
           /\ flag(1) \/ h.prevEpochHash # Zero
           /\ flag(2) \/ h.txHash # EmptyTxHash
        THEN <<h>>
        ELSE <<>>

-----------------------------------------------------------------------------
\* EncodeRLP
Marshal ==
    /\ phase = "new"
    /\ phase' = "sent"
    /\ spelling' = Canonical(header)
    /\ wire' = MarshalBinary(header)
    /\ UNCHANGED <<header, out>>

\* Other encoders: an integer has more bytes, as many as its nibble or pair can tell; an
\* empty hash is spelled out; a flag that is set is 2 or 3; the spare pair is not 0.
Whole == phase = "sent" /\ wire = MarshalBinary(header)

Respell(s) ==
    /\ spelling' = s
    /\ wire' = Encode(header, s)
    /\ UNCHANGED <<header, phase, out>>

Pad ==
    /\ Whole
    /\ \E i \in DOMAIN spelling.widths, top \in 0..1 :
          \E n \in (spelling.widths[i] + 1)..(IF i <= Len(header.fields64) THEN 2^4 ELSE 2^2) :
             Respell([spelling EXCEPT !.widths[i] = n, !.top = top])

SpellPrev == Whole /\ spelling.flags[2] = 1 /\ Respell([spelling EXCEPT !.flags[2] = 0])

SpellTx == Whole /\ spelling.flags[3] = 1 /\ Respell([spelling EXCEPT !.flags[3] = 0])

SpellFlags ==
    /\ Whole
    /\ \E f \in 1..3, set \in {2, 3} :
          spelling.flags[f] # 0 /\ Respell([spelling EXCEPT !.flags[f] = set])

SpellSpare ==
    /\ Whole
    /\ (2 * (Len(fields32(header)) + 3)) % ByteBits # 0
    /\ Respell([spelling EXCEPT !.spare = <<1>>])

\* The end is cut off.
Cut ==
    /\ phase = "sent" /\ wire # <<>>
    /\ spelling = Canonical(header)
    /\ wire' = Front(wire)
    /\ UNCHANGED <<header, spelling, phase, out>>

\* DecodeRLP
Unmarshal ==
    /\ phase = "sent"
    /\ phase' = "read"
    /\ out' = UnmarshalBinary(wire, Len(header.fields64), Len(fields32(header)))
    /\ UNCHANGED <<header, spelling, wire>>

Init ==
    /\ header \in Headers
    /\ spelling = <<>> /\ wire = <<>> /\ phase = "new" /\ out = <<>>

Next == Marshal \/ Pad \/ SpellPrev \/ SpellTx \/ SpellFlags \/ SpellSpare \/ Cut \/ Unmarshal

-----------------------------------------------------------------------------
\* What the decoder takes besides the canonical spelling: it does not look at the bytes of
\* an integer past the 64th bit except for the last, at which bit of a flag is set, nor at
\* the pairs behind the flags.
Lenient(h, s) ==
    /\ \A i \in DOMAIN s.widths :
          s.widths[i] = Canonical(h).widths[i] \/ (s.widths[i] > Size64 /\ s.top # 0)
    /\ \A f \in 2..3 : s.flags[f] = 0 <=> Canonical(h).flags[f] = 0

(***************************************************************************)
(* What MarshalBinary writes, UnmarshalBinary reads back: the same         *)
(* integers up to the largest, hashes that are empty or not, and parents,  *)
(* which get back the epoch of the event.  Another spelling of the header  *)
(* (longer integers, empty hashes spelled out, other flags) is refused     *)
(* (ErrNonCanonicalEncoding), except for those of Lenient, and these are   *)
(* read as the same header: its hash, which is taken from a new encoding   *)
(* (CalcHash), is one and the same.  An encoding that is cut is refused    *)
(* (ErrInvalidEncoding) unless it is that of a header with less at its     *)
(* end.                                                                    *)
(***************************************************************************)
RoundTrip ==
    phase = "read" =>
        IF wire = Encode(header, spelling)
        THEN out = IF Lenient(header, spelling) THEN <<header>> ELSE <<>>
        ELSE \A i \in DOMAIN out : wire = MarshalBinary(out[i])
=============================================================================
