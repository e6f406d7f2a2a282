------------------------------- MODULE Bitset -------------------------------
(***************************************************************************)
(* The in-memory bit vectors, internal/bitset/bitset.go: words of WordBits *)
(* bits, a word being the set of the bits that are one.  Operands of the   *)
(* set algebra may have different capacities.  A byte string is a sequence *)
(* of such sets, too; Redis numbers the bits of a byte from the most       *)
(* significant one.                                                        *)
(***************************************************************************)
EXTENDS Integers, Sequences, FiniteSetsExt

CONSTANTS WordBits, ByteBits \* 64 and 8 in the code

Pieces(n, size) == (n + size - 1) \div size

\* The numbers p of S in the i-th piece, as offsets in it.
Offsets(S, i, size) == {p % size : p \in {q \in S : q \div size = i - 1}}

New(capacity) == [words |-> [i \in 1 .. Pieces(capacity, WordBits) |-> {}], capacity |-> capacity]

AddAll(s, S) ==
    [s EXCEPT !.words = [i \in DOMAIN @ |->
        @[i] \cup Offsets({id \in S : id < s.capacity}, i, WordBits)]]

Has(s, id) == id < s.capacity /\ id % WordBits \in s.words[id \div WordBits + 1]

Count(s) == MapThenSumSet(LAMBDA i : Cardinality(s.words[i]), DOMAIN s.words)

IsEmpty(s) == \A i \in DOMAIN s.words : s.words[i] = {}

Ids(s) == UNION {{(i - 1) * WordBits + bit : bit \in s.words[i]} : i \in DOMAIN s.words}

Union(s, o) ==
    [s EXCEPT !.words = [i \in DOMAIN @ |-> @[i] \cup IF i \in DOMAIN o.words THEN o.words[i] ELSE {}]]

Intersect(s, o) ==
    [s EXCEPT !.words = [i \in DOMAIN @ |-> IF i \in DOMAIN o.words THEN @[i] \cap o.words[i] ELSE {}]]

SubtractShort(s, o) == \* mutant: the words o does not have are cleared
    [s EXCEPT !.words = [i \in DOMAIN @ |-> IF i \in DOMAIN o.words THEN @[i] \ o.words[i] ELSE {}]]
Subtract(s, o) ==
    [s EXCEPT !.words = [i \in DOMAIN @ |-> IF i \in DOMAIN o.words THEN @[i] \ o.words[i] ELSE @[i]]]

Difference(a, b) == Subtract(a, b)

\* The bits of a byte, numbered from the least significant one.
LeastFirst(offsets) == offsets                 \* mutant: the byte is not reversed
Byte(offsets)       == {ByteBits - 1 - p : p \in offsets}

\* Union with a vector of larger capacity can take in ids beyond the bytes of
\* its own: out[id/8] is then out of range.  Panic is no string of bytes.
Overruns(s) == \E id \in Ids(s) : id \div ByteBits >= Pieces(s.capacity, ByteBits)
Panic       == [k \in {0} |-> {}]

ToBytes(s) ==
    IF Overruns(s) THEN Panic
    ELSE [k \in 1 .. Pieces(s.capacity, ByteBits) |-> Byte(Offsets(Ids(s), k, ByteBits))]

FromBytes(b, capacity) ==
    AddAll(New(capacity), UNION {{(k - 1) * ByteBits + p : p \in Byte(b[k])} : k \in DOMAIN b})
=============================================================================
