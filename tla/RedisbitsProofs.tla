-------------------------- MODULE RedisbitsProofs --------------------------
(***************************************************************************)
(* The Redis store, for any number of clients, any sets and capacity, and  *)
(* any failures and crashes: what Difference answers, which keys remain,   *)
(* and that the in-memory bit vectors, which have the bits of a string,    *)
(* are sets.                                                               *)
(*                                                                         *)
(* The first parts are about numbers in pieces of a word or a byte, and    *)
(* the vectors made of them; the others about the calls of the clients.    *)
(***************************************************************************)
EXTENDS Redisbits, FiniteSetTheorems, WellFoundedInduction, TLAPS

Full == B!Pieces(Capacity, ByteBits)

Space == 0 .. Capacity - 1

-----------------------------------------------------------------------------
(* Arithmetic *)

LEMMA Sizes == Capacity \in Nat \ {0} /\ ByteBits \in Nat \ {0} /\ WordBits \in Nat \ {0}
BY StoreAssumption

LEMMA Euclid ==
    ASSUME NEW a \in Nat, NEW n \in Nat \ {0}
    PROVE  a \div n \in Nat /\ a % n \in 0 .. n - 1 /\ a = (a \div n) * n + (a % n)
OBVIOUS

LEMMA DivMonotone ==
    ASSUME NEW a \in Nat, NEW b \in Nat, a <= b, NEW n \in Nat \ {0}
    PROVE  a \div n <= b \div n
OBVIOUS

\* An id of the space lies in one of the pieces.
LEMMA InPieces ==
    ASSUME NEW id \in Space, NEW n \in Nat \ {0}
    PROVE  /\ B!Pieces(Capacity, n) \in Nat
           /\ id \div n + 1 \in 1 .. B!Pieces(Capacity, n)
           /\ id \in 0 .. (id \div n + 1) * n - 1
<1>1. id \in Nat /\ id + n \in Nat /\ Capacity + n - 1 \in Nat /\ id + n <= Capacity + n - 1
  BY Sizes DEF Space
<1>2. (id + n) \div n = id \div n + 1
  BY <1>1
<1>3. (id + n) \div n <= (Capacity + n - 1) \div n
  BY <1>1, DivMonotone
<1>4. (Capacity + n - 1) \div n \in Nat /\ id \div n \in Nat
  BY <1>1, Euclid
<1>5. id < (id \div n + 1) * n
  BY <1>1
<1>6. (id \div n + 1) * n \in Nat
  BY <1>4
<1> QED BY <1>1, <1>2, <1>3, <1>4, <1>5, <1>6 DEF B!Pieces

\* The last id is in the last piece.
LEMMA LastPiece == LastId \in Space /\ LastId \div ByteBits + 1 = Full /\ Full \in Nat
<1>1. LastId \in Space /\ LastId \in Nat
  BY Sizes DEF LastId, Space
<1>2. (LastId + ByteBits) \div ByteBits = LastId \div ByteBits + 1
  BY <1>1, Sizes
<1>3. LastId + ByteBits = Capacity + ByteBits - 1
  BY Sizes DEF LastId
<1> QED BY <1>1, <1>2, <1>3, Sizes, InPieces DEF Full, B!Pieces

LEMMA MorePositions ==
    ASSUME NEW m \in Nat, NEW n \in Nat, m <= n
    PROVE  Positions(m) \subseteq Positions(n) /\ Positions(m) \subseteq Nat
<1>1. m * ByteBits <= n * ByteBits /\ m * ByteBits \in Nat /\ n * ByteBits \in Nat
  BY Sizes
<1> QED BY <1>1 DEF Positions

\* A nonempty set of numbers has a least element.
LEMMA LeastOf ==
    ASSUME NEW T \in SUBSET Nat, T # {}
    PROVE  \E n \in T : \A m \in T : n <= m
<1> DEFINE R == OpToRel(<, Nat)
<1>1. IsWellFoundedOn(R, Nat)
  BY NatLessThanWellFounded, Zenon
<1>2. \A m, n \in Nat : m < n => <<m, n>> \in R
  BY DEF OpToRel
<1> HIDE DEF R
<1>3. PICK n \in T : \A m \in T : ~(<<m, n>> \in R)
  BY <1>1, WFMin
<1>4. \A m \in T : ~(m < n)
  BY <1>2, <1>3
<1> QED BY <1>4

-----------------------------------------------------------------------------
(* Sets of numbers in pieces *)

LEMMA DivModOf ==
    ASSUME NEW a \in Nat, NEW n \in Nat \ {0}, NEW v \in 0 .. n - 1
    PROVE  a * n + v \in Nat /\ (a * n + v) \div n = a /\ (a * n + v) % n = v
<1> DEFINE x == a * n + v
           d == x \div n
           r == x % n
<1>1. a * n \in Nat /\ x \in Nat /\ x = a * n + v
  OBVIOUS
<1> HIDE DEF x
<1>2. d \in Nat /\ r \in 0 .. n - 1 /\ x = d * n + r
  BY <1>1, Euclid
<1> HIDE DEF d, r
<1>2a. d * n \in Nat
  BY <1>2
<1>3. \A p, q \in Nat : p < q => p * n + n <= q * n
  <2> SUFFICES ASSUME NEW p \in Nat, NEW q \in Nat, p < q PROVE p * n + n <= q * n
    OBVIOUS
  <2>1. p + 1 <= q
    OBVIOUS
  <2>2. (p + 1) * n <= q * n
    BY <2>1
  <2>3. (p + 1) * n = p * n + n
    OBVIOUS
  <2> QED BY <2>2, <2>3
<1>4. ~(a < d) /\ ~(d < a)
  <2>1. a < d => a * n + n <= d * n
    BY <1>2, <1>3
  <2>2. d < a => d * n + n <= a * n
    BY <1>2, <1>3
  <2> QED BY <1>1, <1>2, <1>2a, <2>1, <2>2
<1>5. a = d
  BY <1>2, <1>4
<1>6. v = r
  BY <1>1, <1>2, <1>2a, <1>5
<1> QED BY <1>1, <1>5, <1>6 DEF x, d, r

\* A piece has the numbers of the set that lie in it.
LEMMA OffsetsAre ==
    ASSUME NEW F \in SUBSET Nat, NEW i \in Nat \ {0}, NEW n \in Nat \ {0}
    PROVE  B!Offsets(F, i, n) = {v \in 0 .. n - 1 : (i - 1) * n + v \in F}
<1>1. ASSUME NEW v \in B!Offsets(F, i, n) PROVE v \in 0 .. n - 1 /\ (i - 1) * n + v \in F
  <2>1. PICK q \in F : q \div n = i - 1 /\ v = q % n
    BY DEF B!Offsets
  <2>2. q % n \in 0 .. n - 1 /\ q = (q \div n) * n + (q % n)
    BY Euclid
  <2> QED BY <2>1, <2>2
<1>2. ASSUME NEW v \in 0 .. n - 1, (i - 1) * n + v \in F PROVE v \in B!Offsets(F, i, n)
  <2> DEFINE a == i - 1
             q == a * n + v
  <2>1. a \in Nat /\ q \in F
    BY <1>2
  <2> HIDE DEF a
  <2>2. q \div n = a /\ q % n = v
    BY <2>1, DivModOf
  <2> HIDE DEF q
  <2> QED BY <2>1, <2>2 DEF B!Offsets, a
<1> QED BY <1>1, <1>2

\* A number below the capacity lies in one of the pieces.
LEMMA PieceOf ==
    ASSUME NEW cap \in Nat \ {0}, NEW n \in Nat \ {0}, NEW q \in 0 .. cap - 1
    PROVE  q \div n + 1 \in 1 .. B!Pieces(cap, n) /\ B!Pieces(cap, n) \in Nat
<1>1. q \in Nat /\ q + n \in Nat /\ cap + n - 1 \in Nat /\ q + n <= cap + n - 1
  OBVIOUS
<1>2. (q + n) \div n = q \div n + 1
  BY <1>1
<1>3. (q + n) \div n <= (cap + n - 1) \div n
  BY <1>1, DivMonotone
<1>4. (cap + n - 1) \div n \in Nat /\ q \div n \in Nat /\ q % n \in 0 .. n - 1 /\ q = (q \div n) * n + (q % n)
  BY <1>1, Euclid
<1> QED BY <1>2, <1>3, <1>4 DEF B!Pieces

LEMMA MorePieces ==
    ASSUME NEW cap \in Nat \ {0}, NEW d \in Nat \ {0}, d <= cap, NEW n \in Nat \ {0}
    PROVE  B!Pieces(d, n) \in Nat /\ B!Pieces(cap, n) \in Nat /\ B!Pieces(d, n) <= B!Pieces(cap, n)
<1>1. d + n - 1 \in Nat /\ cap + n - 1 \in Nat /\ d + n - 1 <= cap + n - 1
  OBVIOUS
<1>2. (d + n - 1) \div n \in Nat /\ (cap + n - 1) \div n \in Nat
  BY <1>1, Euclid
<1>3. (d + n - 1) \div n <= (cap + n - 1) \div n
  BY <1>1, DivMonotone
<1> QED BY <1>2, <1>3 DEF B!Pieces

\* All pieces together give the set back.
LEMMA PiecesTogether ==
    ASSUME NEW cap \in Nat \ {0}, NEW n \in Nat \ {0}, NEW F \in SUBSET (0 .. cap - 1)
    PROVE  UNION {{(i - 1) * n + v : v \in B!Offsets(F, i, n)} : i \in 1 .. B!Pieces(cap, n)} = F
<1>1. F \in SUBSET Nat
  OBVIOUS
<1>2. \A i \in 1 .. B!Pieces(cap, n) : B!Offsets(F, i, n) = {v \in 0 .. n - 1 : (i - 1) * n + v \in F}
  <2>1. \A i \in 1 .. B!Pieces(cap, n) : i \in Nat \ {0}
    OBVIOUS
  <2> QED BY <1>1, <2>1, OffsetsAre
<1>3. ASSUME NEW q \in F
      PROVE  \E i \in 1 .. B!Pieces(cap, n) : \E v \in B!Offsets(F, i, n) : q = (i - 1) * n + v
  <2>1. q \in Nat /\ q \in 0 .. cap - 1
    OBVIOUS
  <2>2. q \div n \in Nat /\ q % n \in 0 .. n - 1 /\ q = (q \div n) * n + (q % n)
    BY <2>1, Euclid
  <2> DEFINE i == q \div n + 1
  <2>3. i \in 1 .. B!Pieces(cap, n) /\ i - 1 = q \div n
    <3>1. q \div n + 1 \in 1 .. B!Pieces(cap, n)
      BY <2>1, PieceOf
    <3> QED BY <2>2, <3>1
  <2> HIDE DEF i
  <2>4. q = (i - 1) * n + (q % n)
    BY <2>2, <2>3
  <2>5. q % n \in B!Offsets(F, i, n)
    BY <1>2, <2>2, <2>3, <2>4
  <2> QED BY <2>3, <2>4, <2>5
<1>4. ASSUME NEW i \in 1 .. B!Pieces(cap, n), NEW v \in B!Offsets(F, i, n) PROVE (i - 1) * n + v \in F
  BY <1>2
<1> DEFINE part(i) == {(i - 1) * n + v : v \in B!Offsets(F, i, n)}
<1>5. \A i \in 1 .. B!Pieces(cap, n) : part(i) \subseteq F
  BY <1>4
<1>6. \A q \in F : \E i \in 1 .. B!Pieces(cap, n) : q \in part(i)
  BY <1>3
<1>7. UNION {part(i) : i \in 1 .. B!Pieces(cap, n)} = F
  <2> HIDE DEF part
  <2> QED BY <1>5, <1>6
<1> QED BY <1>7

-----------------------------------------------------------------------------
(* The in-memory bit vectors *)

\* The vector of a set.
Packed(F, cap) ==
    [words |-> [i \in 1 .. B!Pieces(cap, WordBits) |-> B!Offsets(F, i, WordBits)], capacity |-> cap]

LEMMA AddedToNew ==
    ASSUME NEW S, NEW cap
    PROVE  B!AddAll(B!New(cap), S) = Packed({id \in S : id < cap}, cap)
<1> DEFINE n == B!Pieces(cap, WordBits)
           F == {id \in S : id < cap}
           new == B!New(cap)
           added == [i \in 1 .. n |-> {} \cup B!Offsets(F, i, WordBits)]
<1>1. new = [words |-> [i \in 1 .. n |-> {}], capacity |-> cap]
  BY DEF B!New
<1>2. new.words = [i \in 1 .. n |-> {}] /\ new.capacity = cap /\ DOMAIN new.words = 1 .. n
  BY <1>1
<1>3. B!AddAll(new, S) = [new EXCEPT !.words = [i \in DOMAIN @ |-> @[i] \cup B!Offsets({id \in S : id < new.capacity}, i, WordBits)]]
  BY DEF B!AddAll
<1>4. [i \in DOMAIN new.words |-> new.words[i] \cup B!Offsets({id \in S : id < new.capacity}, i, WordBits)] = added
  <2> HIDE DEF new
  <2> QED BY <1>2
<1>5. B!AddAll(new, S) = [words |-> added, capacity |-> cap]
  <2> HIDE DEF added, new
  <2> QED BY <1>1, <1>3, <1>4
<1>6. added = [i \in 1 .. n |-> B!Offsets(F, i, WordBits)]
  OBVIOUS
<1> QED BY <1>5, <1>6 DEF Packed

LEMMA PackedFields ==
    ASSUME NEW F, NEW cap
    PROVE  /\ Packed(F, cap).words = [i \in 1 .. B!Pieces(cap, WordBits) |-> B!Offsets(F, i, WordBits)]
           /\ Packed(F, cap).capacity = cap
           /\ DOMAIN Packed(F, cap).words = 1 .. B!Pieces(cap, WordBits)
           /\ \A i \in 1 .. B!Pieces(cap, WordBits) : Packed(F, cap).words[i] = B!Offsets(F, i, WordBits)
BY DEF Packed

\* A vector has the ids that lie in its words.
LEMMA PackedWords ==
    ASSUME NEW cap \in Nat \ {0}, NEW F \in SUBSET Nat
    PROVE  B!Ids(Packed(F, cap)) = {q \in F : q < WordBits * B!Pieces(cap, WordBits)}
<1> DEFINE s == Packed(F, cap)
           n == B!Pieces(cap, WordBits)
           m == WordBits * n
<1>1. DOMAIN s.words = 1 .. n /\ \A i \in 1 .. n : s.words[i] = B!Offsets(F, i, WordBits)
  BY PackedFields
<1>2. n \in Nat \ {0} /\ m \in Nat \ {0}
  <2>1. 0 \in 0 .. cap - 1
    OBVIOUS
  <2>1a. n \in Nat /\ 0 \div WordBits + 1 \in 1 .. n
    BY <2>1, PieceOf, Sizes
  <2>2. n \in Nat \ {0}
    BY <2>1a
  <2> HIDE DEF n
  <2> QED BY <2>2, Sizes
<1>3. B!Pieces(m, WordBits) = n
  <2> HIDE DEF n
  <2>1. m + WordBits - 1 = n * WordBits + (WordBits - 1) /\ WordBits - 1 \in 0 .. WordBits - 1
    BY <1>2, Sizes
  <2>2. (n * WordBits + (WordBits - 1)) \div WordBits = n
    BY <1>2, <2>1, DivModOf, Sizes
  <2> QED BY <2>1, <2>2 DEF B!Pieces
<1> HIDE DEF s, m, n
<1> DEFINE within == {q \in F : q < m}
<1>4. within \in SUBSET (0 .. m - 1)
  <2>1. \A q \in Nat : q < m => q \in 0 .. m - 1
    BY <1>2
  <2> QED BY <2>1
<1>5. ASSUME NEW i \in 1 .. n PROVE B!Offsets(F, i, WordBits) = B!Offsets(within, i, WordBits)
  <2>1. ASSUME NEW v \in 0 .. WordBits - 1, (i - 1) * WordBits + v \in F
        PROVE  (i - 1) * WordBits + v < m
    <3> DEFINE x == i * WordBits
               y == (i - 1) * WordBits
    <3>1. x \in Nat /\ y = x - WordBits /\ x <= n * WordBits
      BY <1>2, Sizes
    <3>2. n * WordBits = m
      BY <1>2, Sizes DEF m
    <3> HIDE DEF x, y
    <3>3. y + v < m
      BY <1>2, <3>1, <3>2, Sizes
    <3> QED BY <3>3, Zenon DEF y
  <2>2. i \in Nat \ {0} /\ within \in SUBSET Nat
    <3>1. i \in Nat \ {0}
      BY <1>2
    <3> QED BY <3>1
  <2>3. /\ B!Offsets(F, i, WordBits) = {v \in 0 .. WordBits - 1 : (i - 1) * WordBits + v \in F}
        /\ B!Offsets(within, i, WordBits) = {v \in 0 .. WordBits - 1 : (i - 1) * WordBits + v \in within}
    <3> HIDE DEF within
    <3> QED BY <2>2, OffsetsAre, Sizes
  <2> QED BY <2>1, <2>3
<1>6. B!Ids(s) = UNION {{(i - 1) * WordBits + bit : bit \in B!Offsets(within, i, WordBits)} : i \in 1 .. n}
  <2> HIDE DEF within
  <2> QED BY <1>1, <1>5 DEF B!Ids
<1>7. @ = within
  <2> HIDE DEF within
  <2> QED BY <1>2, <1>3, <1>4, Sizes, PiecesTogether
<1> QED BY <1>6, <1>7 DEF s, m, n

LEMMA PackedIds ==
    ASSUME NEW cap \in Nat \ {0}, NEW F \in SUBSET (0 .. cap - 1)
    PROVE  B!Ids(Packed(F, cap)) = F
<1> DEFINE s == Packed(F, cap)
           n == B!Pieces(cap, WordBits)
<1>1. DOMAIN s.words = 1 .. n /\ \A i \in 1 .. n : s.words[i] = B!Offsets(F, i, WordBits)
  BY PackedFields
<1> HIDE DEF s
<1>2. B!Ids(s) = UNION {{(i - 1) * WordBits + bit : bit \in B!Offsets(F, i, WordBits)} : i \in 1 .. n}
  BY <1>1 DEF B!Ids
<1>3. @ = F
  BY Sizes, PiecesTogether
<1> QED BY <1>2, <1>3 DEF s

\* The word-wise operations are those of sets; Union takes in the ids of the
\* second operand that lie in words of the first.
LEMMA AlgebraAgrees ==
    ASSUME NEW c \in Nat \ {0}, NEW d \in Nat \ {0},
           NEW F \in SUBSET (0 .. c - 1), NEW G \in SUBSET (0 .. d - 1)
    PROVE  /\ B!Ids(B!Difference(Packed(F, c), Packed(G, d))) = F \ G
           /\ B!Ids(B!Intersect(Packed(F, c), Packed(G, d))) = F \cap G
           /\ B!Union(Packed(F, c), Packed(G, d)).capacity = c
           /\ \A q : q \in B!Ids(B!Union(Packed(F, c), Packed(G, d))) <=>
                        q \in F \/ (q \in G /\ q < WordBits * B!Pieces(c, WordBits))
<1> DEFINE s == Packed(F, c)
           o == Packed(G, d)
           m == B!Pieces(c, WordBits)
           n == B!Pieces(d, WordBits)
           f(i) == B!Offsets(F, i, WordBits)
           g(i) == B!Offsets(G, i, WordBits)
<1>1. /\ s = [words |-> [i \in 1 .. m |-> f(i)], capacity |-> c]
      /\ DOMAIN s.words = 1 .. m /\ \A i \in 1 .. m : s.words[i] = f(i)
      /\ DOMAIN o.words = 1 .. n /\ \A i \in 1 .. n : o.words[i] = g(i)
  BY PackedFields DEF Packed
<1>2. m \in Nat /\ n \in Nat
  BY Sizes, MorePieces
<1>3. ASSUME NEW i \in Nat \ {0}, i \notin 1 .. n PROVE g(i) = {}
  <2> SUFFICES ASSUME NEW v \in g(i) PROVE FALSE
    OBVIOUS
  <2>1. PICK q \in G : q \div WordBits = i - 1
    BY DEF B!Offsets
  <2>2. q \div WordBits + 1 \in 1 .. n
    BY PieceOf, Sizes
  <2> QED BY <1>3, <2>1, <2>2
<1>4. ASSUME NEW i \in Nat \ {0}
      PROVE  /\ f(i) \ g(i) = B!Offsets(F \ G, i, WordBits)
             /\ f(i) \cap g(i) = B!Offsets(F \cap G, i, WordBits)
             /\ f(i) \cup g(i) = B!Offsets(F \cup G, i, WordBits)
  <2> DEFINE in(S) == {v \in 0 .. WordBits - 1 : (i - 1) * WordBits + v \in S}
  <2>1. f(i) = in(F) /\ g(i) = in(G)
    <3>1. F \in SUBSET Nat /\ G \in SUBSET Nat
      OBVIOUS
    <3> QED BY <3>1, OffsetsAre, Sizes
  <2>2. /\ B!Offsets(F \ G, i, WordBits) = in(F \ G)
        /\ B!Offsets(F \cap G, i, WordBits) = in(F \cap G)
        /\ B!Offsets(F \cup G, i, WordBits) = in(F \cup G)
    <3>1. F \ G \in SUBSET Nat /\ F \cap G \in SUBSET Nat /\ F \cup G \in SUBSET Nat
      OBVIOUS
    <3> QED BY <3>1, OffsetsAre, Sizes
  <2>3. in(F) \ in(G) = in(F \ G) /\ in(F) \cap in(G) = in(F \cap G) /\ in(F) \cup in(G) = in(F \cup G)
    OBVIOUS
  <2> HIDE DEF f, g, in
  <2> QED BY <2>1, <2>2, <2>3
<1> HIDE DEF s, o, f, g, m, n
<1>5. \A i \in 1 .. m : i \in Nat \ {0}
  OBVIOUS
<1>6. B!Subtract(s, o) = Packed(F \ G, c)
  <2> DEFINE w == [i \in 1 .. m |-> IF i \in 1 .. n THEN f(i) \ g(i) ELSE f(i)]
  <2>1. B!Subtract(s, o) = [s EXCEPT !.words = w]
    BY <1>1 DEF B!Subtract
  <2>2. w = [i \in 1 .. m |-> B!Offsets(F \ G, i, WordBits)]
    BY <1>3, <1>4, <1>5
  <2> HIDE DEF w
  <2> QED BY <1>1, <2>1, <2>2 DEF Packed, m
<1>7. B!Intersect(s, o) = Packed(F \cap G, c)
  <2> DEFINE w == [i \in 1 .. m |-> IF i \in 1 .. n THEN f(i) \cap g(i) ELSE {}]
  <2>1. B!Intersect(s, o) = [s EXCEPT !.words = w]
    BY <1>1 DEF B!Intersect
  <2>2. w = [i \in 1 .. m |-> B!Offsets(F \cap G, i, WordBits)]
    BY <1>3, <1>4, <1>5
  <2> HIDE DEF w
  <2> QED BY <1>1, <2>1, <2>2 DEF Packed, m
<1>8. B!Union(s, o) = Packed(F \cup G, c)
  <2> DEFINE w == [i \in 1 .. m |-> f(i) \cup IF i \in 1 .. n THEN g(i) ELSE {}]
  <2>1. B!Union(s, o) = [s EXCEPT !.words = w]
    BY <1>1 DEF B!Union
  <2>2. w = [i \in 1 .. m |-> B!Offsets(F \cup G, i, WordBits)]
    BY <1>3, <1>4, <1>5
  <2> HIDE DEF w
  <2> QED BY <1>1, <2>1, <2>2 DEF Packed, m
<1>9. F \ G \in SUBSET (0 .. c - 1) /\ F \cap G \in SUBSET (0 .. c - 1)
      /\ F \in SUBSET Nat /\ F \cup G \in SUBSET Nat
  OBVIOUS
<1>10. B!Ids(B!Difference(s, o)) = F \ G
  BY <1>6, <1>9, PackedIds DEF B!Difference
<1>11. B!Ids(B!Intersect(s, o)) = F \cap G
  BY <1>7, <1>9, PackedIds
<1>12. B!Union(s, o).capacity = c
  <2>1. Packed(F \cup G, c).capacity = c
    BY DEF Packed
  <2> QED BY <1>8, <2>1
<1>13. \A q : q \in B!Ids(B!Union(s, o)) <=> q \in F \/ (q \in G /\ q < WordBits * B!Pieces(c, WordBits))
  <2> DEFINE room == WordBits * B!Pieces(c, WordBits)
  <2>1. B!Ids(B!Union(s, o)) = {q \in F \cup G : q < room}
    BY <1>8, <1>9, PackedWords
  <2>2. F = {q \in F : q < room}
    BY <1>9, PackedIds, PackedWords
  <2> HIDE DEF room
  <2>3. \A q : q \in B!Ids(B!Union(s, o)) <=> q \in F \/ (q \in G /\ q < room)
    BY <2>1, <2>2
  <2> QED BY <2>3 DEF room
<1> QED BY <1>10, <1>11, <1>12, <1>13 DEF s, o

-----------------------------------------------------------------------------
(* Reading a result *)

\* The bits of a string, read byte by byte.
LEMMA BitsRead ==
    ASSUME NEW key, redis[key] \in Bitmap
    PROVE  UNION {{(k - 1) * ByteBits + p : p \in B!Byte(GET(key)[k])} : k \in DOMAIN GET(key)} = redis[key].bits
<1> DEFINE bits  == redis[key].bits
           len   == redis[key].len
           bytes == GET(key)
           S     == UNION {{(k - 1) * ByteBits + p : p \in B!Byte(bytes[k])} : k \in DOMAIN bytes}
<1>1. len \in Nat /\ bits \subseteq Positions(len)
  BY InPieces, Sizes DEF Bitmap
<1>2. bits \subseteq Nat /\ DOMAIN bytes = 1 .. len
  BY <1>1, MorePositions DEF GET
<1>3. ASSUME NEW k \in 1 .. len
      PROVE  {(k - 1) * ByteBits + p : p \in B!Byte(bytes[k])}
                = {q \in bits : q \in (k - 1) * ByteBits .. k * ByteBits - 1}
  <2>1. bytes[k] = {v \in 0 .. ByteBits - 1 : k * ByteBits - 1 - v \in bits}
    BY <1>3 DEF GET
  <2>2. k * ByteBits \in Nat /\ (k - 1) * ByteBits = k * ByteBits - ByteBits
    BY <1>1, <1>3, Sizes
  <2>3. ASSUME NEW p \in B!Byte(bytes[k])
        PROVE  (k - 1) * ByteBits + p \in bits
               /\ (k - 1) * ByteBits + p \in (k - 1) * ByteBits .. k * ByteBits - 1
    <3>1. PICK v \in bytes[k] : p = ByteBits - 1 - v
      BY DEF B!Byte
    <3>2. v \in 0 .. ByteBits - 1 /\ k * ByteBits - 1 - v \in bits
      BY <2>1
    <3>3. (k - 1) * ByteBits + p = k * ByteBits - 1 - v
      BY <2>2, <3>1, <3>2, Sizes
    <3> QED BY <2>2, <3>2, <3>3, Sizes
  <2>4. ASSUME NEW q \in bits, q \in (k - 1) * ByteBits .. k * ByteBits - 1
        PROVE  \E p \in B!Byte(bytes[k]) : q = (k - 1) * ByteBits + p
    <3> DEFINE v == k * ByteBits - 1 - q
    <3>1. q \in Nat
      BY <1>2
    <3>2. v \in 0 .. ByteBits - 1 /\ k * ByteBits - 1 - v = q
      BY <2>2, <2>4, <3>1, Sizes
    <3>3. v \in bytes[k]
      BY <2>1, <3>2
    <3>4. ByteBits - 1 - v \in B!Byte(bytes[k])
      BY <3>3 DEF B!Byte
    <3>5. q = (k - 1) * ByteBits + (ByteBits - 1 - v)
      BY <2>2, <3>1, Sizes
    <3> QED BY <3>4, <3>5
  <2> QED BY <2>3, <2>4
<1>4. S = bits
  <2>1. ASSUME NEW q \in S PROVE q \in bits
    <3>1. PICK k \in 1 .. len : q \in {(k - 1) * ByteBits + p : p \in B!Byte(bytes[k])}
      BY <1>2
    <3> QED BY <1>3, <3>1
  <2>2. ASSUME NEW q \in bits PROVE q \in S
    <3> DEFINE k == q \div ByteBits + 1
    <3>1. q \in Nat /\ q <= len * ByteBits - 1 /\ len * ByteBits \in Nat
      BY <1>1, <1>2, Sizes DEF Positions
    <3>2. q \div ByteBits \in Nat /\ q % ByteBits \in 0 .. ByteBits - 1
          /\ q = (q \div ByteBits) * ByteBits + (q % ByteBits)
      BY <3>1, Euclid, Sizes
    <3>3. q \div ByteBits < len
      <4>1. (q \div ByteBits) * ByteBits < len * ByteBits
        <5>1. (q \div ByteBits) * ByteBits \in Nat
          BY <3>2, Sizes
        <5> QED BY <3>1, <3>2, <5>1, Sizes
      <4> QED BY <1>1, <3>2, <4>1, Sizes
    <3>4. k \in 1 .. len /\ k - 1 = q \div ByteBits
      BY <1>1, <3>2, <3>3
    <3> HIDE DEF k
    <3>5. q \in (k - 1) * ByteBits .. k * ByteBits - 1
      <4>1. k * ByteBits \in Nat /\ (k - 1) * ByteBits = k * ByteBits - ByteBits
        BY <1>1, <3>4, Sizes
      <4>2. q = k * ByteBits - ByteBits + (q % ByteBits)
        BY <3>2, <3>4, <4>1
      <4> QED BY <3>1, <3>2, <4>1, <4>2, Sizes
    <3>6. q \in {(k - 1) * ByteBits + p : p \in B!Byte(bytes[k])}
      BY <1>3, <3>4, <3>5
    <3> QED BY <1>2, <3>4, <3>6
  <2> QED BY <2>1, <2>2
<1> QED BY <1>4

\* FromBytes makes the vector of the bits of the string that fit.
LEMMA BytesPacked ==
    ASSUME NEW key, redis[key] \in Bitmap, NEW cap
    PROVE  B!FromBytes(GET(key), cap) = Packed({id \in redis[key].bits : id < cap}, cap)
<1> DEFINE S == UNION {{(k - 1) * ByteBits + p : p \in B!Byte(GET(key)[k])} : k \in DOMAIN GET(key)}
<1>1. B!FromBytes(GET(key), cap) = B!AddAll(B!New(cap), S)
  BY DEF B!FromBytes
<1>2. S = redis[key].bits
  BY BitsRead
<1> HIDE DEF S
<1> QED BY <1>1, <1>2, AddedToNew

\* What FromBytes and Ids make of a string are its bits, those of the padding
\* excepted.
LEMMA BytesAreBits ==
    ASSUME NEW key, redis[key] \in Bitmap
    PROVE  B!Ids(B!FromBytes(GET(key), Capacity)) = redis[key].bits \cap Space
<1> DEFINE fit == {id \in redis[key].bits : id < Capacity}
<1>1. redis[key].bits \subseteq Nat
  BY InPieces, Sizes, MorePositions DEF Bitmap
<1>2. fit = redis[key].bits \cap Space
  <2>1. \A q \in Nat : q < Capacity <=> q \in Space
    BY Sizes DEF Space
  <2> QED BY <1>1, <2>1
<1>3. fit \in SUBSET (0 .. Capacity - 1)
  BY <1>2 DEF Space
<1> HIDE DEF fit
<1>4. B!Ids(Packed(fit, Capacity)) = fit
  BY <1>3, PackedIds, Sizes
<1> QED BY <1>2, <1>4, BytesPacked DEF fit

LEMMA PackedHas ==
    ASSUME NEW cap \in Nat \ {0}, NEW F \in SUBSET (0 .. cap - 1), NEW id \in 0 .. cap
    PROVE  B!Has(Packed(F, cap), id) <=> id \in F
<1> DEFINE s == Packed(F, cap)
<1>1. s.capacity = cap /\ \A i \in 1 .. B!Pieces(cap, WordBits) : s.words[i] = B!Offsets(F, i, WordBits)
  BY PackedFields
<1> HIDE DEF s
<1>2. CASE id = cap
  BY <1>1, <1>2 DEF B!Has, s
<1>3. CASE id \in 0 .. cap - 1
  <2> DEFINE i == id \div WordBits + 1
  <2>1. i \in 1 .. B!Pieces(cap, WordBits) /\ B!Pieces(cap, WordBits) \in Nat
    BY <1>3, PieceOf, Sizes
  <2>1a. id \in Nat
    OBVIOUS
  <2>2. id \div WordBits \in Nat /\ id % WordBits \in 0 .. WordBits - 1
        /\ id = (id \div WordBits) * WordBits + (id % WordBits)
    BY <2>1a, Euclid, Sizes
  <2>3. i - 1 = id \div WordBits /\ i \in Nat \ {0}
    BY <2>2
  <2> HIDE DEF i
  <2>4. F \in SUBSET Nat
    OBVIOUS
  <2>5. s.words[i] = {v \in 0 .. WordBits - 1 : (i - 1) * WordBits + v \in F}
    BY <1>1, <2>1, <2>3, <2>4, OffsetsAre, Sizes
  <2>6. B!Has(s, id) <=> id % WordBits \in s.words[i]
    BY <1>1, <1>3 DEF B!Has, i
  <2>7. (i - 1) * WordBits + (id % WordBits) = id
    BY <2>2, <2>3
  <2> QED BY <2>2, <2>5, <2>6, <2>7 DEF s
<1> QED BY <1>2, <1>3

LEMMA PackedEmpty ==
    ASSUME NEW cap \in Nat \ {0}, NEW F \in SUBSET (0 .. cap - 1)
    PROVE  B!IsEmpty(Packed(F, cap)) <=> F = {}
<1> DEFINE s == Packed(F, cap)
           n == B!Pieces(cap, WordBits)
<1>1. DOMAIN s.words = 1 .. n /\ \A i \in 1 .. n : s.words[i] = B!Offsets(F, i, WordBits)
  BY PackedFields
<1> HIDE DEF s
<1>2. B!IsEmpty(s) <=> \A i \in 1 .. n : B!Offsets(F, i, WordBits) = {}
  BY <1>1 DEF B!IsEmpty
<1>3. ASSUME NEW q \in F PROVE \E i \in 1 .. n : B!Offsets(F, i, WordBits) # {}
  <2>1. q \in Nat /\ q \in 0 .. cap - 1
    OBVIOUS
  <2>2. q \div WordBits \in Nat /\ q \div WordBits + 1 \in 1 .. n /\ n \in Nat
    BY <2>1, Euclid, PieceOf, Sizes
  <2>3. q % WordBits \in B!Offsets(F, q \div WordBits + 1, WordBits)
    BY <2>2 DEF B!Offsets
  <2> QED BY <2>2, <2>3
<1>4. F = {} => \A i \in 1 .. n : B!Offsets(F, i, WordBits) = {}
  BY DEF B!Offsets
<1> QED BY <1>2, <1>3, <1>4 DEF s

-----------------------------------------------------------------------------
(* And back to bytes *)

\* Reversing a byte twice gives it back.
LEMMA ByteTwice ==
    ASSUME NEW o \in SUBSET (0 .. ByteBits - 1)
    PROVE  B!Byte(B!Byte(o)) = o
<1>1. \A p \in o : ByteBits - 1 - (ByteBits - 1 - p) = p
  BY Sizes
<1>2. B!Byte(B!Byte(o)) = {ByteBits - 1 - (ByteBits - 1 - p) : p \in o}
  BY DEF B!Byte
<1> QED BY <1>1, <1>2

\* An id overruns the bytes of a vector if it is beyond its last byte.
LEMMA BeyondBytes ==
    ASSUME NEW cap \in Nat \ {0}, NEW q \in Nat
    PROVE  /\ q \div ByteBits >= B!Pieces(cap, ByteBits) <=> q >= ByteBits * B!Pieces(cap, ByteBits)
           /\ q < cap => ~(q \div ByteBits >= B!Pieces(cap, ByteBits))
<1> DEFINE n == B!Pieces(cap, ByteBits)
           d == q \div ByteBits
           r == q % ByteBits
<1>1. n \in Nat
  BY Sizes, MorePieces
<1>2. d \in Nat /\ r \in 0 .. ByteBits - 1 /\ q = d * ByteBits + r
  BY Euclid, Sizes
<1>3. q < cap => d + 1 \in 1 .. n
  <2> SUFFICES ASSUME q < cap PROVE d + 1 \in 1 .. n
    OBVIOUS
  <2>1. q \in 0 .. cap - 1
    OBVIOUS
  <2> HIDE DEF n
  <2> QED BY <2>1, PieceOf, Sizes DEF n
<1> HIDE DEF n, d, r
<1>4. d >= n => q >= ByteBits * n
  <2> SUFFICES ASSUME d >= n PROVE q >= ByteBits * n
    OBVIOUS
  <2>1. n * ByteBits <= d * ByteBits /\ d * ByteBits \in Nat /\ ByteBits * n = n * ByteBits
        /\ n * ByteBits \in Nat
    BY <1>1, <1>2, Sizes
  <2> QED BY <1>2, <2>1
<1>5. d < n => q < ByteBits * n
  <2> SUFFICES ASSUME d < n PROVE q < ByteBits * n
    OBVIOUS
  <2>1. d + 1 <= n
    BY <1>1, <1>2
  <2>2. (d + 1) * ByteBits <= n * ByteBits /\ n * ByteBits \in Nat
    BY <1>1, <1>2, <2>1, Sizes
  <2>3. (d + 1) * ByteBits = d * ByteBits + ByteBits /\ d * ByteBits \in Nat
    BY <1>2, Sizes
  <2> QED BY <1>1, <1>2, <2>2, <2>3, Sizes
<1>6. d >= n <=> q >= ByteBits * n
  <2>1. ByteBits * n \in Nat
    BY <1>1, Sizes
  <2> QED BY <1>1, <1>2, <1>4, <1>5, <2>1
<1>7. q < cap => ~(d >= n)
  BY <1>1, <1>2, <1>3
<1> QED BY <1>6, <1>7 DEF d, n

LEMMA BytesOfPacked ==
    ASSUME NEW cap \in Nat \ {0}, NEW F \in SUBSET (0 .. cap - 1)
    PROVE  /\ B!ToBytes(Packed(F, cap)) =
                [k \in 1 .. B!Pieces(cap, ByteBits) |-> B!Byte(B!Offsets(F, k, ByteBits))]
           /\ Len(B!ToBytes(Packed(F, cap))) = B!Pieces(cap, ByteBits)
<1>1. B!ToBytes(Packed(F, cap)) = [k \in 1 .. B!Pieces(cap, ByteBits) |-> B!Byte(B!Offsets(F, k, ByteBits))]
  <2>1. Packed(F, cap).capacity = cap /\ B!Ids(Packed(F, cap)) = F
    BY PackedFields, PackedIds
  <2>2. ~B!Overruns(Packed(F, cap))
    <3>1. \A q \in F : ~(q \div ByteBits >= B!Pieces(cap, ByteBits))
      <4>1. \A q \in F : q \in Nat /\ q < cap
        OBVIOUS
      <4> QED BY <4>1, BeyondBytes
    <3> QED BY <2>1, <3>1 DEF B!Overruns
  <2> QED BY <2>1, <2>2 DEF B!ToBytes
<1>2. B!Pieces(cap, ByteBits) \in Nat
  BY Sizes, MorePieces
<1> DEFINE n == B!Pieces(cap, ByteBits)
           byte(k) == B!Byte(B!Offsets(F, k, ByteBits))
<1>3. Len([k \in 1 .. n |-> byte(k)]) = n
  <2> HIDE DEF n, byte
  <2> QED BY <1>2 DEF n
<1> QED BY <1>1, <1>3

LEMMA BytesBack ==
    ASSUME NEW cap \in Nat \ {0}, NEW F \in SUBSET (0 .. cap - 1)
    PROVE  B!FromBytes(B!ToBytes(Packed(F, cap)), cap) = Packed(F, cap)
<1> DEFINE n == B!Pieces(cap, ByteBits)
           bytes == B!ToBytes(Packed(F, cap))
           S == UNION {{(k - 1) * ByteBits + p : p \in B!Byte(bytes[k])} : k \in DOMAIN bytes}
<1>1. DOMAIN bytes = 1 .. n /\ \A k \in 1 .. n : bytes[k] = B!Byte(B!Offsets(F, k, ByteBits))
  BY BytesOfPacked
<1>2. \A k \in 1 .. n : B!Byte(bytes[k]) = B!Offsets(F, k, ByteBits)
  <2> SUFFICES ASSUME NEW k \in 1 .. n PROVE B!Byte(bytes[k]) = B!Offsets(F, k, ByteBits)
    OBVIOUS
  <2>1. F \in SUBSET Nat /\ k \in Nat \ {0}
    OBVIOUS
  <2>2. B!Offsets(F, k, ByteBits) \in SUBSET (0 .. ByteBits - 1)
    BY <2>1, OffsetsAre, Sizes
  <2>3. bytes[k] = B!Byte(B!Offsets(F, k, ByteBits))
    BY <1>1
  <2> QED BY <2>2, <2>3, ByteTwice
<1>3. B!FromBytes(bytes, cap) = B!AddAll(B!New(cap), S)
  BY DEF B!FromBytes
<1> HIDE DEF bytes
<1>4. S = UNION {{(k - 1) * ByteBits + p : p \in B!Offsets(F, k, ByteBits)} : k \in 1 .. n}
  BY <1>1, <1>2
<1>5. @ = F
  BY PiecesTogether, Sizes
<1> HIDE DEF S
<1>6. {id \in F : id < cap} = F
  <2>1. \A id \in F : id < cap
    OBVIOUS
  <2> QED BY <2>1, Zenon
<1>7. B!FromBytes(bytes, cap) = Packed(F, cap)
  BY <1>3, <1>4, <1>5, <1>6, AddedToNew
<1> QED BY <1>7 DEF bytes

\* A string of the full length is what ToBytes makes of its bits.
LEMMA BytesSame ==
    ASSUME NEW key, redis[key] \in Bitmap, redis[key].bits \subseteq Space, redis[key].len = Full
    PROVE  B!ToBytes(Packed(redis[key].bits, Capacity)) = GET(key)
<1> DEFINE F == redis[key].bits
           byte(k) == B!Byte(B!Offsets(F, k, ByteBits))
           read(k) == {v \in 0 .. ByteBits - 1 : k * ByteBits - 1 - v \in F}
<1>0. F \in SUBSET (0 .. Capacity - 1)
  BY DEF Space
<1>1. B!ToBytes(Packed(F, Capacity)) = [k \in 1 .. Full |-> byte(k)]
  <2> HIDE DEF F
  <2> QED BY <1>0, BytesOfPacked, Sizes DEF Full
<1>2. GET(key) = [k \in 1 .. Full |-> read(k)]
  BY DEF GET
<1>3. ASSUME NEW k \in 1 .. Full PROVE byte(k) = read(k)
  <2>1. F \in SUBSET Nat /\ k \in Nat \ {0}
    BY <1>0, LastPiece
  <2> DEFINE o == {v \in 0 .. ByteBits - 1 : (k - 1) * ByteBits + v \in F}
  <2>2. B!Offsets(F, k, ByteBits) = o
    <3> HIDE DEF F
    <3> QED BY <2>1, OffsetsAre, Sizes
  <2> HIDE DEF F
  <2>3. byte(k) = {ByteBits - 1 - p : p \in o}
    BY <2>2 DEF B!Byte
  <2>4. \A p \in 0 .. ByteBits - 1 : ByteBits - 1 - p \in 0 .. ByteBits - 1
            /\ ByteBits - 1 - (ByteBits - 1 - p) = p
            /\ (k - 1) * ByteBits + p = k * ByteBits - 1 - (ByteBits - 1 - p)
    <3>1. k * ByteBits \in Nat /\ (k - 1) * ByteBits = k * ByteBits - ByteBits
      BY <2>1, Sizes
    <3> QED BY <3>1, Sizes
  <2>5. ASSUME NEW v \in byte(k) PROVE v \in read(k)
    <3>1. PICK p \in o : v = ByteBits - 1 - p
      BY <2>3
    <3>2. p \in 0 .. ByteBits - 1 /\ (k - 1) * ByteBits + p \in F
      OBVIOUS
    <3>3. (k - 1) * ByteBits + p = k * ByteBits - 1 - v /\ v \in 0 .. ByteBits - 1
      BY <2>4, <3>1, <3>2
    <3> QED BY <3>2, <3>3
  <2>6. ASSUME NEW v \in read(k) PROVE v \in byte(k)
    <3> DEFINE p == ByteBits - 1 - v
    <3>1. v \in 0 .. ByteBits - 1 /\ k * ByteBits - 1 - v \in F
      OBVIOUS
    <3>2. p \in 0 .. ByteBits - 1 /\ ByteBits - 1 - p = v /\ (k - 1) * ByteBits + p = k * ByteBits - 1 - v
      <4>1. p \in 0 .. ByteBits - 1 /\ ByteBits - 1 - p = v
        BY <2>4, <3>1
      <4> HIDE DEF p
      <4> QED BY <2>4, <4>1
    <3>3. p \in o
      BY <3>1, <3>2
    <3> HIDE DEF p, o
    <3> QED BY <2>3, <3>2, <3>3
  <2> QED BY <2>5, <2>6
<1> HIDE DEF byte, read, F
<1>4. [k \in 1 .. Full |-> byte(k)] = [k \in 1 .. Full |-> read(k)]
  BY <1>3
<1> QED BY <1>1, <1>2, <1>4 DEF F

-----------------------------------------------------------------------------
(* Counting word by word *)

\* The size of a set whose numbers are those of another one, moved.
LEMMA MovedSize ==
    ASSUME NEW o \in SUBSET Nat, IsFiniteSet(o), NEW a \in Nat
    PROVE  IsFiniteSet({a + v : v \in o}) /\ Cardinality({a + v : v \in o}) = Cardinality(o)
<1> DEFINE T == {a + v : v \in o}
           f == [v \in o |-> a + v]
<1>1. \A u, v \in o : a + u = a + v => u = v
  OBVIOUS
<1>2. f \in Bijection(o, T)
  BY <1>1 DEF Bijection, Injection, Surjection, IsInjective
<1> HIDE DEF f, T
<1>3. ExistsBijection(o, T)
  BY <1>2 DEF ExistsBijection
<1>4. IsFiniteSet(T) /\ Cardinality(T) = Cardinality(o)
  BY <1>3, FS_Bijection
<1> QED BY <1>4 DEF T

\* h sums size over the subsets of D, the elements taken in the order of CHOOSE.
SumsUp(h, size, D) ==
    h = [t \in SUBSET D |-> IF t = {} THEN 0
                            ELSE size[CHOOSE x \in t : TRUE] + h[t \ {CHOOSE x \in t : TRUE}]]

LEMMA CountIs ==
    ASSUME NEW s, NEW D, NEW size, DOMAIN s.words = D,
           \A i \in D : size[i] = Cardinality(s.words[i])
    PROVE  B!Count(s) = (CHOOSE h : SumsUp(h, size, D))[D]
<1> DEFINE pick(t) == CHOOSE x \in t : TRUE
           Sums(h) == h = [t \in SUBSET D |-> IF t = {} THEN 0
                              ELSE B!Cardinality(s.words[pick(t)]) + h[t \ {pick(t)}]]
<1>1. B!Count(s) = (CHOOSE h : Sums(h))[D]
  BY DEF B!Count, B!MapThenSumSet, B!MapThenFoldSet
<1>2. \A S : B!Cardinality(S) = Cardinality(S)
  BY DEF B!Cardinality, Cardinality, B!IsFiniteSet, IsFiniteSet
<1>3. \A t \in SUBSET D : t # {} => size[pick(t)] = B!Cardinality(s.words[pick(t)])
  BY <1>2
<1>4. \A h : Sums(h) <=> SumsUp(h, size, D)
  <2> SUFFICES ASSUME NEW h PROVE Sums(h) <=> SumsUp(h, size, D)
    OBVIOUS
  <2> DEFINE one(t) == IF t = {} THEN 0 ELSE B!Cardinality(s.words[pick(t)]) + h[t \ {pick(t)}]
             two(t) == IF t = {} THEN 0 ELSE size[pick(t)] + h[t \ {pick(t)}]
  <2>1. \A t \in SUBSET D : one(t) = two(t)
    BY <1>3
  <2>2. [t \in SUBSET D |-> one(t)] = [t \in SUBSET D |-> two(t)]
    <3> HIDE DEF one, two
    <3> QED BY <2>1
  <2> QED BY <2>2 DEF SumsUp
<1> HIDE DEF Sums
<1> QED BY <1>1, <1>4

\* Only one function sums up.
LEMMA OneSum ==
    ASSUME NEW D, IsFiniteSet(D), NEW size, NEW g, NEW h, SumsUp(g, size, D), SumsUp(h, size, D)
    PROVE  g[D] = h[D]
<1> DEFINE pick(t) == CHOOSE x \in t : TRUE
           Differ == {t \in SUBSET D : g[t] # h[t]}
           T == {Cardinality(t) : t \in Differ}
<1>1. \A t \in SUBSET D : IsFiniteSet(t) /\ Cardinality(t) \in Nat
  BY FS_Subset, FS_CardinalityType
<1> SUFFICES ASSUME Differ # {} PROVE FALSE
  OBVIOUS
<1>2. T \in SUBSET Nat /\ T # {}
  BY <1>1
<1>3. PICK t \in Differ : \A u \in Differ : Cardinality(t) <= Cardinality(u)
  <2> HIDE DEF T, Differ
  <2>1. PICK n \in T : \A m \in T : n <= m
    BY <1>2, LeastOf
  <2>2. PICK t \in Differ : n = Cardinality(t)
    BY DEF T
  <2>3. \A u \in Differ : Cardinality(u) \in T
    BY DEF T
  <2> QED BY <2>1, <2>2, <2>3
<1>4. t # {}
  BY <1>3 DEF SumsUp
<1> DEFINE x == pick(t)
           u == t \ {x}
<1>5. x \in t
  BY <1>4
<1>6. g[t] = size[x] + g[u] /\ h[t] = size[x] + h[u]
  BY <1>4 DEF SumsUp
<1> HIDE DEF x
<1>7. u \in Differ
  <2>1. u \in SUBSET D
    OBVIOUS
  <2> QED BY <1>6, <2>1
<1>8. Cardinality(u) = Cardinality(t) - 1
  BY <1>1, <1>5, FS_RemoveElement
<1> QED BY <1>1, <1>3, <1>7, <1>8

\* Count is the number of the members.
LEMMA PackedCount ==
    ASSUME NEW cap \in Nat \ {0}, NEW F \in SUBSET (0 .. cap - 1)
    PROVE  B!Count(Packed(F, cap)) = Cardinality(F)
<1> DEFINE s == Packed(F, cap)
           D == 1 .. B!Pieces(cap, WordBits)
           size == [i \in D |-> Cardinality(B!Offsets(F, i, WordBits))]
           In(t) == {q \in F : q \div WordBits + 1 \in t}
           h == [t \in SUBSET D |-> Cardinality(In(t))]
           pick(t) == CHOOSE x \in t : TRUE
<1>1. DOMAIN s.words = D /\ \A i \in D : s.words[i] = B!Offsets(F, i, WordBits)
  BY PackedFields
<1>2. B!Count(s) = (CHOOSE c : SumsUp(c, size, D))[D]
  <2>1. \A i \in D : size[i] = Cardinality(s.words[i])
    BY <1>1
  <2> HIDE DEF s, size, D
  <2> QED BY <1>1, <2>1, CountIs
<1>3. F \in SUBSET Nat /\ IsFiniteSet(F)
  <2>1. IsFiniteSet(0 .. cap - 1)
    BY FS_Interval
  <2>2. IsFiniteSet(F)
    BY <2>1, FS_Subset
  <2>3. F \in SUBSET Nat
    OBVIOUS
  <2> QED BY <2>2, <2>3
<1>4. IsFiniteSet(D) /\ D \in SUBSET (Nat \ {0})
  <2> DEFINE n == B!Pieces(cap, WordBits)
  <2>1. n \in Nat
    BY Sizes, MorePieces
  <2> HIDE DEF n
  <2>2. IsFiniteSet(1 .. n)
    BY <2>1, FS_Interval
  <2>3. 1 .. n \in SUBSET (Nat \ {0})
    BY <2>1
  <2> QED BY <2>2, <2>3 DEF n
<1>5. ASSUME NEW i \in D
      PROVE  IsFiniteSet(In({i})) /\ Cardinality(In({i})) = Cardinality(B!Offsets(F, i, WordBits))
  <2> DEFINE o == B!Offsets(F, i, WordBits)
             a == (i - 1) * WordBits
  <2>1. i \in Nat \ {0}
    BY <1>4
  <2>2. o = {v \in 0 .. WordBits - 1 : (i - 1) * WordBits + v \in F}
    BY <1>3, <2>1, OffsetsAre, Sizes
  <2>3. a \in Nat
    BY <2>1, Sizes
  <2>4. IsFiniteSet(o) /\ o \in SUBSET Nat
    <3>1. IsFiniteSet(0 .. WordBits - 1)
      BY FS_Interval, Sizes
    <3> HIDE DEF o
    <3> QED BY <2>2, <3>1, FS_Subset, Sizes
  <2>5. In({i}) = {a + v : v \in o}
    <3>1. ASSUME NEW v \in o PROVE a + v \in In({i})
      <4> DEFINE j == i - 1
      <4>1. v \in 0 .. WordBits - 1 /\ j * WordBits + v \in F /\ j \in Nat /\ j + 1 = i
        BY <2>1, <2>2
      <4> HIDE DEF j
      <4>2. (j * WordBits + v) \div WordBits = j
        BY <4>1, DivModOf, Sizes
      <4> DEFINE q == j * WordBits + v
      <4> HIDE DEF q
      <4>3. q \in F /\ q \div WordBits + 1 = i
        BY <4>1, <4>2 DEF q
      <4>4. q \in In({i})
        BY <4>3
      <4> QED BY <4>4 DEF q, j
    <3>2. ASSUME NEW q \in In({i}) PROVE \E v \in o : q = a + v
      <4>1. q \in Nat /\ q \in F /\ q \div WordBits + 1 = i
        BY <1>3
      <4>2. q \div WordBits \in Nat /\ q % WordBits \in 0 .. WordBits - 1
            /\ q = (q \div WordBits) * WordBits + (q % WordBits)
        BY <4>1, Euclid, Sizes
      <4>3. q \div WordBits = i - 1
        BY <2>1, <4>1, <4>2
      <4>4. q = (i - 1) * WordBits + (q % WordBits)
        BY <4>2, <4>3
      <4> QED BY <2>2, <4>1, <4>2, <4>4
    <3> HIDE DEF o, a, In
    <3> QED BY <3>1, <3>2
  <2> HIDE DEF o, a
  <2>6. IsFiniteSet(In({i})) /\ Cardinality(In({i})) = Cardinality(o)
    <3> HIDE DEF In
    <3> QED BY <2>3, <2>4, <2>5, MovedSize
  <2> QED BY <2>6 DEF o
<1>6. ASSUME NEW t \in SUBSET D, t # {}
      PROVE  Cardinality(In(t)) = size[pick(t)] + Cardinality(In(t \ {pick(t)}))
  <2> DEFINE x == pick(t)
             rest == In(t \ {x})
  <2>1. x \in t /\ x \in D
    BY <1>6
  <2> HIDE DEF x
  <2>2. In(t) = In({x}) \cup rest /\ In({x}) \cap rest = {}
    BY <2>1
  <2>3. IsFiniteSet(rest) /\ IsFiniteSet(In({x}))
    <3>1. rest \in SUBSET F /\ In({x}) \in SUBSET F
      OBVIOUS
    <3> HIDE DEF In
    <3> QED BY <1>3, <3>1, FS_Subset
  <2>4. size[x] = Cardinality(In({x}))
    BY <1>5, <2>1
  <2> HIDE DEF rest, In, size
  <2>5. Cardinality(In(t)) = Cardinality(In({x})) + Cardinality(rest) - Cardinality(In({x}) \cap rest)
    BY <2>2, <2>3, FS_Union
  <2>6. Cardinality(In({x}) \cap rest) = 0
    BY <2>2, FS_EmptySet
  <2>7. Cardinality(In({x})) \in Nat /\ Cardinality(rest) \in Nat
    BY <2>3, FS_CardinalityType
  <2>8. Cardinality(In(t)) = size[x] + Cardinality(rest)
    BY <2>4, <2>5, <2>6, <2>7
  <2> QED BY <2>8 DEF x, rest
<1>7. SumsUp(h, size, D)
  <2> DEFINE sum(t) == IF t = {} THEN 0 ELSE size[pick(t)] + h[t \ {pick(t)}]
  <2>1. ASSUME NEW t \in SUBSET D PROVE Cardinality(In(t)) = sum(t)
    <3>1. CASE t = {}
      <4>1. In(t) = {}
        BY <3>1
      <4> QED BY <3>1, <4>1, FS_EmptySet
    <3>2. CASE t # {}
      <4>1. h[t \ {pick(t)}] = Cardinality(In(t \ {pick(t)}))
        <5>1. t \ {pick(t)} \in SUBSET D
          OBVIOUS
        <5> HIDE DEF In, pick
        <5> QED BY <5>1
      <4> HIDE DEF h, size, In, pick
      <4> QED BY <1>6, <3>2, <4>1
    <3> QED BY <3>1, <3>2
  <2>2. h = [t \in SUBSET D |-> sum(t)]
    <3> HIDE DEF In, sum
    <3> QED BY <2>1
  <2> HIDE DEF h, size, D
  <2> QED BY <2>2 DEF SumsUp
<1>8. SumsUp(CHOOSE c : SumsUp(c, size, D), size, D)
  <2> HIDE DEF h, size, D
  <2> QED BY <1>7
<1>9. (CHOOSE c : SumsUp(c, size, D))[D] = h[D]
  <2> HIDE DEF h, size, D
  <2> QED BY <1>4, <1>7, <1>8, OneSum
<1>10. In(D) = F
  BY PieceOf, Sizes
<1>11. h[D] = Cardinality(In(D))
  <2> HIDE DEF In, D
  <2> QED OBVIOUS
<1> HIDE DEF h, In, D, size
<1> QED BY <1>2, <1>9, <1>10, <1>11

-----------------------------------------------------------------------------
(* Keys and commands *)

LEMMA KeysApart ==
    /\ \A s, t : Key(s) = Key(t) => s = t
    /\ \A s, t : NotKey(s) = NotKey(t) => s = t
    /\ \A s, t, u, v : DiffKey(s, u) = DiffKey(t, v) => s = t /\ u = v
    /\ \A s, t, u : Key(s) # NotKey(t) /\ Key(s) # DiffKey(t, u) /\ NotKey(s) # DiffKey(t, u)
BY DEF Key, NotKey, DiffKey

LEMMA KeysKnown ==
    /\ \A s \in Sets : Key(s) \in SetKeys /\ Key(s) \in Keys
    /\ \A s, t : <<s, t>> \in Pairs =>
          s \in Sets /\ t \in Sets /\ NotKey(t) \in ScratchKeys /\ DiffKey(s, t) \in ScratchKeys
    /\ SetKeys \subseteq Keys /\ ScratchKeys \subseteq Keys
    /\ SetKeys \cap ScratchKeys = {}
    /\ \A k \in SetKeys : \E s \in Sets : k = Key(s)
<1>1. \A s \in Sets : Key(s) \in SetKeys /\ Key(s) \in Keys
  BY DEF SetKeys, Keys
<1>2. ASSUME NEW s, NEW t, <<s, t>> \in Pairs
      PROVE  s \in Sets /\ t \in Sets /\ NotKey(t) \in ScratchKeys /\ DiffKey(s, t) \in ScratchKeys
  <2>1. <<s, t>> \in Sets \X Sets
    BY <1>2, StoreAssumption
  <2>2. <<s, t>>[1] = s /\ <<s, t>>[2] = t
    OBVIOUS
  <2> QED BY <1>2, <2>1, <2>2 DEF ScratchKeys
<1>3. SetKeys \cap ScratchKeys = {}
  BY KeysApart DEF SetKeys, ScratchKeys
<1> QED BY <1>1, <1>2, <1>3 DEF SetKeys, Keys

LEMMA AbsentTyped == absent \in Bitmap /\ absent.bits = {} /\ absent.len = 0 /\ absent.ttl = FALSE
<1>1. 0 \in 0 .. B!Pieces(Capacity, ByteBits)
  BY LastPiece DEF Full
<1> QED BY <1>1 DEF absent, Bitmap

LEMMA BitmapFields ==
    ASSUME NEW b \in Bitmap
    PROVE  /\ b.len \in 0 .. Full /\ b.len \in Nat
           /\ b.bits \subseteq Positions(b.len) /\ b.ttl \in BOOLEAN
BY LastPiece DEF Bitmap, Full

LEMMA IsBitmap ==
    ASSUME NEW len \in 0 .. Full, NEW bits, bits \subseteq Positions(len), NEW ttl \in BOOLEAN
    PROVE  [len |-> len, bits |-> bits, ttl |-> ttl] \in Bitmap
<1>1. bits \subseteq Positions(Full)
  BY LastPiece, MorePositions
<1> QED BY <1>1 DEF Bitmap, Full

LEMMA LargerIs ==
    ASSUME NEW m \in Nat, NEW n \in Nat
    PROVE  Larger(m, n) \in {m, n} /\ m <= Larger(m, n) /\ n <= Larger(m, n)
BY DEF Larger

\* Only the bitmap of the key changes.
Only(key) == \A k \in Keys \ {key} : redis'[k] = redis[k]

LEMMA PutDoes ==
    ASSUME redis \in [Keys -> Bitmap], NEW key \in Keys, NEW new \in Bitmap,
           redis' = [redis EXCEPT ![key] = new]
    PROVE  redis' \in [Keys -> Bitmap] /\ Only(key) /\ redis'[key] = new
BY DEF Only

\* What crashed calls have left stays on record, or is gone or has a TTL.
LeftKept ==
    /\ left' \subseteq left
    /\ \A k \in left : redis'[k] = absent \/ redis'[k].ttl \/ k \in left'

LEMMA LastingKeeps == left' = Lasting(left) => LeftKept
BY DEF Lasting, LeftKept

LEMMA SetbitDoes ==
    ASSUME redis \in [Keys -> Bitmap], NEW key \in Keys, NEW id \in Space, NEW on \in BOOLEAN,
           SETBIT(key, id, on)
    PROVE  /\ redis' \in [Keys -> Bitmap] /\ Only(key)
           /\ redis'[key].bits = IF on THEN redis[key].bits \cup {id} ELSE redis[key].bits \ {id}
           /\ redis'[key].ttl = redis[key].ttl
           /\ redis[key].len <= redis'[key].len
           /\ id = LastId => redis'[key].len = Full
           /\ LeftKept
<1> DEFINE old  == redis[key]
           len  == Larger(old.len, id \div ByteBits + 1)
           bits == IF on THEN old.bits \cup {id} ELSE old.bits \ {id}
<1>1. old.len \in 0 .. Full /\ old.len \in Nat /\ old.bits \subseteq Positions(old.len) /\ old.ttl \in BOOLEAN
  BY BitmapFields
<1>2. id \div ByteBits + 1 \in 1 .. Full /\ id \in Positions(id \div ByteBits + 1) /\ Full \in Nat
  BY InPieces, Sizes DEF Full, Positions
<1>3. len \in 0 .. Full /\ old.len <= len /\ id \div ByteBits + 1 <= len
  BY <1>1, <1>2, LargerIs
<1>4. bits \subseteq Positions(len)
  BY <1>1, <1>2, <1>3, MorePositions
<1> DEFINE new == [len |-> len, bits |-> bits, ttl |-> old.ttl]
<1>5. redis' = [redis EXCEPT ![key] = new] /\ left' = Lasting(left)
  BY DEF SETBIT, Put
<1>6. id = LastId => len = Full
  BY <1>2, <1>3, LastPiece
<1>7. new \in Bitmap
  BY <1>1, <1>3, <1>4, IsBitmap
<1>8. new.len = len /\ new.bits = bits /\ new.ttl = old.ttl
  OBVIOUS
<1> HIDE DEF new, len
<1> QED BY <1>3, <1>5, <1>6, <1>7, <1>8, PutDoes, LastingKeeps

LEMMA ExpireDoes ==
    ASSUME redis \in [Keys -> Bitmap], NEW key \in Keys, EXPIRE(key)
    PROVE  /\ redis' \in [Keys -> Bitmap] /\ Only(key)
           /\ redis'[key].bits = redis[key].bits /\ redis'[key].len = redis[key].len
           /\ redis'[key] = absent \/ redis'[key].ttl
           /\ LeftKept
<1>1. CASE redis[key] = absent
  BY <1>1 DEF EXPIRE, Only, LeftKept
<1>2. CASE redis[key] # absent
  <2> DEFINE old == redis[key]
             new == [len |-> old.len, bits |-> old.bits, ttl |-> TRUE]
  <2>1. redis' = [redis EXCEPT ![key] = new] /\ left' = Lasting(left)
    BY <1>2 DEF EXPIRE, Put
  <2>2. new \in Bitmap
    BY BitmapFields, IsBitmap
  <2>3. new.len = old.len /\ new.bits = old.bits /\ new.ttl = TRUE
    OBVIOUS
  <2> HIDE DEF new
  <2> QED BY <2>1, <2>2, <2>3, PutDoes, LastingKeeps
<1> QED BY <1>1, <1>2

LEMMA NotDoes ==
    ASSUME redis \in [Keys -> Bitmap], NEW dst \in Keys, NEW src \in Keys, BITOPNOT(dst, src)
    PROVE  /\ redis' \in [Keys -> Bitmap] /\ Only(dst)
           /\ redis'[dst].bits = Positions(redis[src].len) \ redis[src].bits
           /\ LeftKept
<1> DEFINE len  == redis[src].len
           bits == Positions(len) \ redis[src].bits
           new  == [len |-> len, bits |-> bits, ttl |-> FALSE]
<1>1. redis' = [redis EXCEPT ![dst] = new] /\ left' = Lasting(left)
  BY DEF BITOPNOT, Put
<1>2. new \in Bitmap
  BY BitmapFields, IsBitmap
<1>3. new.bits = bits
  OBVIOUS
<1> HIDE DEF new
<1> QED BY <1>1, <1>2, <1>3, PutDoes, LastingKeeps

LEMMA AndDoes ==
    ASSUME redis \in [Keys -> Bitmap], NEW dst \in Keys, NEW x \in Keys, NEW y \in Keys,
           BITOPAND(dst, x, y)
    PROVE  /\ redis' \in [Keys -> Bitmap] /\ Only(dst)
           /\ redis'[dst].bits = redis[x].bits \cap redis[y].bits
           /\ LeftKept
<1> DEFINE len  == Larger(redis[x].len, redis[y].len)
           bits == redis[x].bits \cap redis[y].bits
<1>1. /\ redis[x].len \in 0 .. Full /\ redis[x].len \in Nat /\ redis[x].bits \subseteq Positions(redis[x].len)
      /\ redis[y].len \in 0 .. Full /\ redis[y].len \in Nat
  BY BitmapFields
<1>2. len \in 0 .. Full /\ len \in Nat /\ redis[x].len <= len
  BY <1>1, LargerIs
<1>3. bits \subseteq Positions(len)
  BY <1>1, <1>2, MorePositions
<1> DEFINE new == [len |-> len, bits |-> bits, ttl |-> FALSE]
<1>4. redis' = [redis EXCEPT ![dst] = new] /\ left' = Lasting(left)
  BY DEF BITOPAND, Put
<1>5. new \in Bitmap
  BY <1>2, <1>3, IsBitmap
<1>6. new.bits = bits
  OBVIOUS
<1> HIDE DEF new
<1> QED BY <1>4, <1>5, <1>6, PutDoes, LastingKeeps

LEMMA DelDoes ==
    ASSUME redis \in [Keys -> Bitmap], NEW keys, DEL(keys)
    PROVE  /\ redis' \in [Keys -> Bitmap]
           /\ \A k \in Keys : redis'[k] = IF k \in keys THEN absent ELSE redis[k]
           /\ LeftKept
<1>1. redis' = [k \in Keys |-> IF k \in keys THEN absent ELSE redis[k]] /\ left' = Lasting(left)
  BY DEF DEL
<1>2. LeftKept
  BY <1>1, LastingKeeps
<1> QED BY <1>1, <1>2, AbsentTyped

-----------------------------------------------------------------------------
(* The inductive invariant *)

NotBits(t)     == redis[NotKey(t)].bits
DiffBits(s, t) == redis[DiffKey(s, t)].bits

\* Differences are of pairs, and sets have ids of the space only: the padding
\* of the last byte stays zero.
TypeInv ==
    /\ TypeOK
    /\ \A c \in Clients : Differs(c) => <<call[c].min, call[c].sub>> \in Pairs
    /\ \A s \in Sets : Members(s) \subseteq Space

\* What a call of Difference has computed so far names nobody wrongly.
Sound(c) ==
    LET me == call[c] IN
    Differs(c) /\ me.kept =>
        /\ me.sub0 \subseteq Members(me.sub) \cup {LastId}
        /\ me.at \in {"and", "count", "get"} => NotBits(me.sub) \cap me.sub0 \subseteq {LastId}
        /\ me.at \in {"count", "get"} =>
              DiffBits(me.min, me.sub) \subseteq (Members(me.min) \ me.sub0) \cup {LastId}
        /\ me.at = "return" /\ me.ok =>
              me.res \subseteq (Members(me.min) \ me.sub0) \cup {LastId}

\* And if its scratch keys are its own, it has forgotten nobody.  The length
\* that Pin gives the subtrahend is what makes the complement complete.
Complete(c) ==
    LET me == call[c] IN
    Differs(c) /\ me.kept /\ me.alone =>
        /\ \A d \in Clients \ {c} : ~Shares(d, me.sub)
        /\ me.min0 \subseteq Members(me.min) \cup {LastId}
        /\ me.at \in {"expire subtrahend", "not"} => redis[Key(me.sub)].len = Full
        /\ me.at = "and" => Space \subseteq NotBits(me.sub) \cup Members(me.sub) \cup {LastId}
        /\ me.at \in {"count", "get"} =>
              me.min0 \subseteq DiffBits(me.min, me.sub) \cup Members(me.sub) \cup {LastId}
        /\ me.at = "return" /\ me.ok =>
              me.min0 \subseteq me.res \cup Members(me.sub) \cup {LastId}

\* Who will delete a key or give it its TTL.
Owes(c, k) == k \in Owed(call[c])

Owned ==
    \A k \in Keys : \/ redis[k] = absent \/ redis[k].ttl
                    \/ k \in left \/ \E c \in Clients : Owes(c, k)

StoreInv ==
    /\ TypeInv
    /\ \A c \in Clients : Sound(c) /\ Complete(c)
    /\ Owned

-----------------------------------------------------------------------------
(* What a command of one client does to the calls of the others *)

SetsGrow ==
    \A s \in Sets : /\ Members(s) \subseteq Members(s)' \cup {LastId}
                    /\ redis[Key(s)].len = Full => redis'[Key(s)].len = Full

\* A complement is only ever replaced by one of the set as it is now, a result
\* by one of the sets and complements as they are now.
NotsSound ==
    \A s, t \in Sets : <<s, t>> \in Pairs =>
        NotBits(t)' \subseteq NotBits(t) \/ NotBits(t)' \cap Members(t) = {}
DiffsSound ==
    \A s, t \in Sets : <<s, t>> \in Pairs =>
        DiffBits(s, t)' \subseteq DiffBits(s, t) \/ DiffBits(s, t)' \subseteq Members(s) \cap NotBits(t)

Gentle == SetsGrow /\ NotsSound /\ DiffsSound

SameCall(c) ==
    /\ call'[c].at = call[c].at /\ call'[c].min = call[c].min /\ call'[c].sub = call[c].sub
    /\ call'[c].min0 = call[c].min0 /\ call'[c].sub0 = call[c].sub0 /\ call'[c].kept = call[c].kept
    /\ call'[c].ok = call[c].ok /\ call'[c].res = call[c].res

LEMMA PairKnown ==
    ASSUME TypeInv, NEW c \in Clients, Differs(c)
    PROVE  /\ <<call[c].min, call[c].sub>> \in Pairs
           /\ call[c].min \in Sets /\ call[c].sub \in Sets
<1>1. <<call[c].min, call[c].sub>> \in Pairs
  BY DEF TypeInv
<1>2. \A s, t : <<s, t>> \in Pairs => s \in Sets /\ t \in Sets
  BY KeysKnown
<1> QED BY <1>1, <1>2

\* What gentle commands leave of the sets and scratch keys of one pair.
LEMMA GentleOnPair ==
    ASSUME Gentle, NEW s \in Sets, NEW t \in Sets, <<s, t>> \in Pairs
    PROVE  /\ Members(s) \subseteq Members(s)' \cup {LastId}
           /\ Members(t) \subseteq Members(t)' \cup {LastId}
           /\ redis[Key(t)].len = Full => redis'[Key(t)].len = Full
           /\ NotBits(t)' \subseteq NotBits(t) \/ NotBits(t)' \cap Members(t) = {}
           /\ \/ DiffBits(s, t)' \subseteq DiffBits(s, t)
              \/ DiffBits(s, t)' \subseteq Members(s) \cap NotBits(t)
BY DEF Gentle, SetsGrow, NotsSound, DiffsSound

LEMMA SoundStays ==
    ASSUME TypeInv, NEW c \in Clients, Sound(c), Gentle, SameCall(c)
    PROVE  Sound(c)'
<1>1. CASE ~(Differs(c) /\ call[c].kept)
  BY <1>1 DEF Sound, SameCall, Differs
<1>2. CASE Differs(c) /\ call[c].kept
  <2>1. PICK s \in Sets, t \in Sets : s = call[c].min /\ t = call[c].sub /\ <<s, t>> \in Pairs
    BY <1>2, PairKnown
  <2>2. /\ Members(s) \subseteq Members(s)' \cup {LastId}
        /\ Members(t) \subseteq Members(t)' \cup {LastId}
        /\ NotBits(t)' \subseteq NotBits(t) \/ NotBits(t)' \cap Members(t) = {}
        /\ \/ DiffBits(s, t)' \subseteq DiffBits(s, t)
           \/ DiffBits(s, t)' \subseteq Members(s) \cap NotBits(t)
    BY <2>1, GentleOnPair
  <2>3. /\ call[c].sub0 \subseteq Members(t) \cup {LastId}
        /\ call[c].at \in {"and", "count", "get"} => NotBits(t) \cap call[c].sub0 \subseteq {LastId}
        /\ call[c].at \in {"count", "get"} =>
              DiffBits(s, t) \subseteq (Members(s) \ call[c].sub0) \cup {LastId}
        /\ call[c].at = "return" /\ call[c].ok =>
              call[c].res \subseteq (Members(s) \ call[c].sub0) \cup {LastId}
    BY <1>2, <2>1 DEF Sound
  <2>4. /\ call[c].sub0 \subseteq Members(t)' \cup {LastId}
        /\ call[c].at \in {"and", "count", "get"} => NotBits(t)' \cap call[c].sub0 \subseteq {LastId}
        /\ call[c].at = "return" /\ call[c].ok =>
              call[c].res \subseteq (Members(s)' \ call[c].sub0) \cup {LastId}
    BY <2>2, <2>3
  <2>5. call[c].at \in {"count", "get"} =>
              DiffBits(s, t)' \subseteq (Members(s)' \ call[c].sub0) \cup {LastId}
    BY <2>2, <2>3
  <2> QED BY <2>1, <2>4, <2>5 DEF Sound, SameCall
<1> QED BY <1>1, <1>2

\* If the client shares its subtrahend with nobody, before or after, and others
\* leave its scratch keys alone.
LEMMA CompleteStays ==
    ASSUME TypeInv, NEW c \in Clients, Complete(c), Gentle, SameCall(c),
           Differs(c) /\ call[c].kept /\ call'[c].alone =>
              /\ call[c].alone
              /\ \A d \in Clients \ {c} : Shares(d, call[c].sub)' => Shares(d, call[c].sub)
              /\ redis'[NotKey(call[c].sub)] = redis[NotKey(call[c].sub)]
              /\ redis'[DiffKey(call[c].min, call[c].sub)] = redis[DiffKey(call[c].min, call[c].sub)]
    PROVE  Complete(c)'
<1>1. CASE ~(Differs(c) /\ call[c].kept /\ call'[c].alone)
  BY <1>1 DEF Complete, SameCall, Differs
<1>2. CASE Differs(c) /\ call[c].kept /\ call'[c].alone
  <2>1. PICK s \in Sets, t \in Sets : s = call[c].min /\ t = call[c].sub /\ <<s, t>> \in Pairs
    BY <1>2, PairKnown
  <2>2. /\ Members(s) \subseteq Members(s)' \cup {LastId}
        /\ Members(t) \subseteq Members(t)' \cup {LastId}
        /\ redis[Key(t)].len = Full => redis'[Key(t)].len = Full
    BY <2>1, GentleOnPair
  <2>3. NotBits(t)' = NotBits(t) /\ DiffBits(s, t)' = DiffBits(s, t)
    BY <1>2, <2>1 DEF NotBits, DiffBits
  <2>4. /\ \A d \in Clients \ {c} : ~Shares(d, t)
        /\ call[c].min0 \subseteq Members(s) \cup {LastId}
        /\ call[c].at \in {"expire subtrahend", "not"} => redis[Key(t)].len = Full
        /\ call[c].at = "and" => Space \subseteq NotBits(t) \cup Members(t) \cup {LastId}
        /\ call[c].at \in {"count", "get"} =>
              call[c].min0 \subseteq DiffBits(s, t) \cup Members(t) \cup {LastId}
        /\ call[c].at = "return" /\ call[c].ok =>
              call[c].min0 \subseteq call[c].res \cup Members(t) \cup {LastId}
    BY <1>2, <2>1 DEF Complete
  <2>5. /\ call[c].min0 \subseteq Members(s)' \cup {LastId}
        /\ call[c].at \in {"expire subtrahend", "not"} => redis'[Key(t)].len = Full
        /\ call[c].at = "and" => Space \subseteq NotBits(t)' \cup Members(t)' \cup {LastId}
    BY <2>2, <2>3, <2>4
  <2>6. /\ call[c].at \in {"count", "get"} =>
              call[c].min0 \subseteq DiffBits(s, t)' \cup Members(t)' \cup {LastId}
        /\ call[c].at = "return" /\ call[c].ok =>
              call[c].min0 \subseteq call[c].res \cup Members(t)' \cup {LastId}
    BY <2>2, <2>3, <2>4
  <2>7. \A d \in Clients \ {c} : ~(Differs(d)' /\ call'[d].sub = t)
    BY <1>2, <2>1, <2>4 DEF SameCall, Shares
  <2> QED BY <2>1, <2>5, <2>6, <2>7 DEF Complete, SameCall, Shares
<1> QED BY <1>1, <1>2

LEMMA OwedIs ==
    ASSUME NEW me
    PROVE  /\ me.at \in {"idle", "pin minuend", "pin subtrahend", "not"} => Owed(me) = {}
           /\ me.at \in {"expire", "expire minuend"} => Owed(me) = {Key(me.min)}
           /\ me.at = "expire subtrahend" => Owed(me) = {Key(me.sub)}
           /\ me.at = "and" => Owed(me) = {NotKey(me.sub)}
           /\ me.at \in {"count", "get", "return"} => Owed(me) = Scratch(me)
BY DEF Owed

LEMMA OwnedStays ==
    ASSUME Owned, LeftKept, NEW c \in Clients,
           \A d \in Clients \ {c} : SameCall(d),
           \A k \in Keys : \/ redis'[k] = absent \/ redis'[k].ttl \/ Owes(c, k)'
                           \/ (redis'[k] = redis[k] /\ ~Owes(c, k))
    PROVE  Owned'
<1>1. ASSUME NEW d \in Clients \ {c}, NEW k PROVE Owes(d, k) => Owes(d, k)'
  BY DEF SameCall, Owes, Owed, Scratch
<1>2. ASSUME NEW k \in Keys
      PROVE  redis'[k] = absent \/ redis'[k].ttl \/ k \in left' \/ \E d \in Clients : Owes(d, k)'
  <2>1. redis[k] = absent \/ redis[k].ttl \/ k \in left \/ \E d \in Clients : Owes(d, k)
    BY DEF Owned
  <2> QED BY <1>1, <2>1 DEF LeftKept
<1> QED BY <1>2 DEF Owned

\* A client that begins to work with a subtrahend is no longer alone with it, nor
\* is whoever was.
Alone(c) ==
    \A d \in Clients \ {c} :
        /\ SameCall(d)
        /\ call'[d].alone => /\ call[d].alone
                             /\ Differs(d) /\ Shares(c, call[d].sub)' => Shares(c, call[d].sub)

\* A client touches no scratch keys but its own.
OwnScratch(c) ==
    \A k \in ScratchKeys : redis'[k] = redis[k] \/ (Differs(c) /\ k \in Scratch(call[c]))

\* What keeps the invariant, for the step of a client.
LEMMA StepOf ==
    ASSUME StoreInv, TypeInv', NEW c \in Clients, Gentle, Alone(c), OwnScratch(c),
           Sound(c)', Complete(c)', Owned'
    PROVE  StoreInv'
<1>1. ASSUME NEW d \in Clients \ {c} PROVE Sound(d)'
  BY SoundStays DEF StoreInv, Alone
<1>2. ASSUME NEW d \in Clients \ {c} PROVE Complete(d)'
  <2>1. SameCall(d) /\ Complete(d) /\ TypeInv
    BY DEF StoreInv, Alone
  <2>2. ASSUME Differs(d), call[d].kept, call'[d].alone
        PROVE  /\ call[d].alone
               /\ \A e \in Clients \ {d} : Shares(e, call[d].sub)' => Shares(e, call[d].sub)
               /\ redis'[NotKey(call[d].sub)] = redis[NotKey(call[d].sub)]
               /\ redis'[DiffKey(call[d].min, call[d].sub)] = redis[DiffKey(call[d].min, call[d].sub)]
    <3>1. call[d].alone
      BY <2>2 DEF Alone
    <3>2. ~Shares(c, call[d].sub)
      BY <2>1, <2>2, <3>1 DEF Complete
    <3>3. ASSUME NEW e \in Clients \ {d}, Shares(e, call[d].sub)'
          PROVE  Shares(e, call[d].sub)
      <4>1. CASE e = c
        BY <2>2, <3>3, <4>1 DEF Alone
      <4>2. CASE e # c
        <5>1. SameCall(e)
          BY <4>2 DEF Alone
        <5> QED BY <2>1, <3>3, <5>1 DEF Shares, SameCall, Differs
      <4> QED BY <4>1, <4>2
    <3>4. PICK s \in Sets, t \in Sets : s = call[d].min /\ t = call[d].sub /\ <<s, t>> \in Pairs
      BY <2>1, <2>2, PairKnown
    <3>5. NotKey(t) \in ScratchKeys /\ DiffKey(s, t) \in ScratchKeys
      BY <3>4, KeysKnown
    <3>6. Differs(c) => NotKey(t) \notin Scratch(call[c]) /\ DiffKey(s, t) \notin Scratch(call[c])
      BY <3>2, <3>4, KeysApart DEF Scratch, Shares
    <3>7. redis'[NotKey(t)] = redis[NotKey(t)] /\ redis'[DiffKey(s, t)] = redis[DiffKey(s, t)]
      BY <3>5, <3>6 DEF OwnScratch
    <3> QED BY <3>1, <3>3, <3>4, <3>7
  <2> QED BY <2>1, <2>2, CompleteStays
<1> QED BY <1>1, <1>2 DEF StoreInv

-----------------------------------------------------------------------------
(* Commands are gentle *)

LEMMA Nothing == ASSUME redis' = redis
                 PROVE  Gentle /\ \A s \in Sets : Members(s)' = Members(s)
BY DEF Gentle, SetsGrow, NotsSound, DiffsSound, Members, NotBits, DiffBits

\* SETBIT and EXPIRE, of the bitmap of a set.
LEMMA OnSet ==
    ASSUME redis \in [Keys -> Bitmap], redis' \in [Keys -> Bitmap], NEW s \in Sets,
           Only(Key(s)), redis[Key(s)].len <= redis'[Key(s)].len,
           redis[Key(s)].bits \subseteq redis'[Key(s)].bits \cup {LastId}
    PROVE  /\ Gentle
           /\ \A k \in ScratchKeys : redis'[k] = redis[k]
           /\ \A t \in Sets \ {s} : Members(t)' = Members(t)
<1>1. \A k \in ScratchKeys : redis'[k] = redis[k]
  BY KeysKnown DEF Only
<1>2. \A t \in Sets \ {s} : redis'[Key(t)] = redis[Key(t)]
  BY KeysKnown, KeysApart DEF Only
<1>3. redis[Key(s)].len = Full => redis'[Key(s)].len = Full
  <2>1. Key(s) \in Keys
    BY KeysKnown
  <2>2. redis'[Key(s)].len \in 0 .. Full /\ Full \in Nat
    BY <2>1, BitmapFields, LastPiece
  <2> QED BY <2>2
<1>4. SetsGrow
  BY <1>2, <1>3 DEF SetsGrow, Members
<1>5. NotsSound /\ DiffsSound
  BY <1>1, KeysKnown DEF NotsSound, DiffsSound, NotBits, DiffBits
<1> QED BY <1>1, <1>2, <1>4, <1>5 DEF Gentle, Members

LEMMA SetsSame ==
    ASSUME \A k \in SetKeys : redis'[k] = redis[k]
    PROVE  SetsGrow /\ \A s \in Sets : Members(s)' = Members(s)
<1>1. \A s \in Sets : redis'[Key(s)] = redis[Key(s)]
  BY KeysKnown
<1> QED BY <1>1 DEF SetsGrow, Members

LEMMA NotIsGentle ==
    ASSUME redis \in [Keys -> Bitmap], NEW t \in Sets, NotKey(t) \in ScratchKeys,
           BITOPNOT(NotKey(t), Key(t))
    PROVE  /\ Gentle
           /\ \A s \in Sets : Members(s)' = Members(s)
           /\ \A k \in Keys \ {NotKey(t)} : redis'[k] = redis[k]
           /\ NotBits(t)' = Positions(redis[Key(t)].len) \ Members(t)
<1>1. NotKey(t) \in Keys /\ Key(t) \in Keys
  BY KeysKnown
<1>2. Only(NotKey(t)) /\ redis'[NotKey(t)].bits = Positions(redis[Key(t)].len) \ redis[Key(t)].bits
  BY <1>1, NotDoes
<1>3. \A k \in SetKeys : redis'[k] = redis[k]
  BY <1>2, KeysKnown DEF Only
<1>4. \A s, u : <<s, u>> \in Pairs => redis'[DiffKey(s, u)] = redis[DiffKey(s, u)]
  BY <1>2, KeysKnown, KeysApart DEF Only
<1>5. \A s, u : <<s, u>> \in Pairs /\ u # t => redis'[NotKey(u)] = redis[NotKey(u)]
  BY <1>2, KeysKnown, KeysApart DEF Only
<1>6. NotBits(t)' = Positions(redis[Key(t)].len) \ Members(t)
  BY <1>2 DEF NotBits, Members
<1>7. DiffsSound
  BY <1>4 DEF DiffsSound, DiffBits
<1>8. NotsSound
  <2>1. ASSUME NEW s \in Sets, NEW u \in Sets, <<s, u>> \in Pairs
        PROVE  NotBits(u)' \subseteq NotBits(u) \/ NotBits(u)' \cap Members(u) = {}
    <3>1. CASE u = t
      BY <1>6, <3>1
    <3>2. CASE u # t
      BY <1>5, <2>1, <3>2 DEF NotBits
    <3> QED BY <3>1, <3>2
  <2> QED BY <2>1 DEF NotsSound
<1> QED BY <1>2, <1>3, <1>6, <1>7, <1>8, SetsSame DEF Gentle, Only

LEMMA AndIsGentle ==
    ASSUME redis \in [Keys -> Bitmap], NEW s \in Sets, NEW t \in Sets, <<s, t>> \in Pairs,
           BITOPAND(DiffKey(s, t), Key(s), NotKey(t))
    PROVE  /\ Gentle
           /\ \A u \in Sets : Members(u)' = Members(u)
           /\ \A k \in Keys \ {DiffKey(s, t)} : redis'[k] = redis[k]
           /\ DiffBits(s, t)' = Members(s) \cap NotBits(t)
<1>1. DiffKey(s, t) \in Keys /\ Key(s) \in Keys /\ NotKey(t) \in Keys
  BY KeysKnown
<1>2. Only(DiffKey(s, t)) /\ redis'[DiffKey(s, t)].bits = redis[Key(s)].bits \cap redis[NotKey(t)].bits
  BY <1>1, AndDoes
<1>3. \A k \in SetKeys : redis'[k] = redis[k]
  BY <1>2, KeysKnown DEF Only
<1>4. \A u, v : <<u, v>> \in Pairs => redis'[NotKey(v)] = redis[NotKey(v)]
  BY <1>2, KeysKnown, KeysApart DEF Only
<1>5. \A u, v : <<u, v>> \in Pairs /\ ~(u = s /\ v = t) => redis'[DiffKey(u, v)] = redis[DiffKey(u, v)]
  BY <1>2, KeysKnown, KeysApart DEF Only
<1>6. DiffBits(s, t)' = Members(s) \cap NotBits(t)
  BY <1>2 DEF DiffBits, NotBits, Members
<1>7. NotsSound
  BY <1>4 DEF NotsSound, NotBits
<1>8. DiffsSound
  <2>1. ASSUME NEW u \in Sets, NEW v \in Sets, <<u, v>> \in Pairs
        PROVE  DiffBits(u, v)' \subseteq DiffBits(u, v)
               \/ DiffBits(u, v)' \subseteq Members(u) \cap NotBits(v)
    <3>1. CASE u = s /\ v = t
      BY <1>6, <3>1
    <3>2. CASE ~(u = s /\ v = t)
      BY <1>5, <2>1, <3>2 DEF DiffBits
    <3> QED BY <3>1, <3>2
  <2> QED BY <2>1 DEF DiffsSound
<1> QED BY <1>2, <1>3, <1>6, <1>7, <1>8, SetsSame DEF Gentle, Only

LEMMA DelIsGentle ==
    ASSUME redis \in [Keys -> Bitmap], NEW keys, keys \cap SetKeys = {}, DEL(keys)
    PROVE  Gentle /\ \A s \in Sets : Members(s)' = Members(s)
<1>1. \A k \in Keys : redis'[k] = IF k \in keys THEN absent ELSE redis[k]
  BY DelDoes
<1>2. \A k \in SetKeys : redis'[k] = redis[k]
  BY <1>1, KeysKnown
<1>3. \A k \in Keys : redis'[k].bits \subseteq redis[k].bits
  BY <1>1, AbsentTyped
<1>4. NotsSound /\ DiffsSound
  BY <1>3, KeysKnown DEF NotsSound, DiffsSound, NotBits, DiffBits
<1> QED BY <1>2, <1>4, SetsSame DEF Gentle

-----------------------------------------------------------------------------
(* What a step does to the call of its client *)

SameArguments(c) ==
    /\ call'[c].min = call[c].min /\ call'[c].sub = call[c].sub
    /\ call'[c].min0 = call[c].min0 /\ call'[c].sub0 = call[c].sub0
    /\ call'[c].alone = call[c].alone /\ call'[c].kept = call[c].kept

OthersStay(c) == \A d \in Clients \ {c} : call'[d] = call[d]

LEMMA Undisturbed ==
    ASSUME NEW c \in Clients, OthersStay(c), Differs(c)' => Differs(c) /\ call'[c].sub = call[c].sub
    PROVE  Alone(c)
BY DEF OthersStay, Alone, SameCall, Shares

LEMMA TypeStays ==
    ASSUME TypeInv, NEW c \in Clients, redis' \in [Keys -> Bitmap],
           call' \in [Clients -> Call], OthersStay(c),
           adds' \in 0 .. MaxAdds, calls' \in 0 .. MaxCalls, LeftKept \/ left' \subseteq Keys,
           Differs(c)' => <<call'[c].min, call'[c].sub>> \in Pairs,
           \A s \in Sets : Members(s)' \subseteq Space
    PROVE  TypeInv'
<1>1. TypeOK'
  BY DEF TypeInv, TypeOK, LeftKept
<1>2. ASSUME NEW d \in Clients, Differs(d)'
      PROVE  <<call'[d].min, call'[d].sub>> \in Pairs
  <2>1. CASE d = c
    BY <1>2, <2>1
  <2>2. CASE d # c
    BY <1>2, <2>2 DEF TypeInv, OthersStay, Differs
  <2> QED BY <2>1, <2>2
<1> QED BY <1>1, <1>2 DEF TypeInv, Space

LEMMA GoesDoes ==
    ASSUME TypeInv, NEW c \in Clients, NEW from,
           NEW to \in {"expire minuend", "pin subtrahend", "expire subtrahend", "not", "and",
                       "count", "get"},
           Goes(c, from, to)
    PROVE  /\ call' \in [Clients -> Call] /\ OthersStay(c) /\ SameArguments(c)
           /\ call[c].at = from /\ call'[c].at = to
           /\ adds' \in 0 .. MaxAdds /\ calls' \in 0 .. MaxCalls
<1>1. /\ call \in [Clients -> Call] /\ adds \in 0 .. MaxAdds /\ calls \in 0 .. MaxCalls
  BY DEF TypeInv, TypeOK
<1>2. call' = [call EXCEPT ![c].at = to] /\ call[c].at = from /\ UNCHANGED <<adds, calls>>
  BY DEF Goes
<1>3. call[c] \in Call
  BY <1>1
<1>4. [call[c] EXCEPT !.at = to] \in Call
  BY <1>3 DEF Call
<1>5. call'[c] = [call[c] EXCEPT !.at = to] /\ call' \in [Clients -> Call] /\ OthersStay(c)
  BY <1>1, <1>2, <1>4 DEF OthersStay
<1> QED BY <1>1, <1>2, <1>3, <1>5 DEF SameArguments, Call

LEMMA GentleOnSets ==
    ASSUME Gentle
    PROVE  \A s, t : <<s, t>> \in Pairs => /\ Members(s) \subseteq Members(s)' \cup {LastId}
                                           /\ Members(t) \subseteq Members(t)' \cup {LastId}
<1>1. \A s, t : <<s, t>> \in Pairs => s \in Sets /\ t \in Sets
  BY KeysKnown
<1> QED BY <1>1, GentleOnPair

\* What a call needs to be sound and complete after one of its own steps.
LEMMA OwnStep ==
    ASSUME StoreInv, NEW c \in Clients, Gentle, Alone(c), Differs(c), SameArguments(c),
           NEW s \in Sets, NEW t \in Sets, s = call[c].min, t = call[c].sub, <<s, t>> \in Pairs,
           call[c].kept =>
              /\ call'[c].at \in {"and", "count", "get"} => NotBits(t)' \cap call[c].sub0 \subseteq {LastId}
              /\ call'[c].at \in {"count", "get"} =>
                    DiffBits(s, t)' \subseteq (Members(s)' \ call[c].sub0) \cup {LastId}
              /\ call'[c].at = "return" /\ call'[c].ok =>
                    call'[c].res \subseteq (Members(s)' \ call[c].sub0) \cup {LastId},
           call[c].kept /\ call[c].alone =>
              /\ call'[c].at \in {"expire subtrahend", "not"} => redis'[Key(t)].len = Full
              /\ call'[c].at = "and" => Space \subseteq NotBits(t)' \cup Members(t)' \cup {LastId}
              /\ call'[c].at \in {"count", "get"} =>
                    call[c].min0 \subseteq DiffBits(s, t)' \cup Members(t)' \cup {LastId}
              /\ call'[c].at = "return" /\ call'[c].ok =>
                    call[c].min0 \subseteq call'[c].res \cup Members(t)' \cup {LastId}
    PROVE  Sound(c)' /\ Complete(c)'
<1>1. /\ Members(s) \subseteq Members(s)' \cup {LastId}
      /\ Members(t) \subseteq Members(t)' \cup {LastId}
  BY GentleOnSets
<1>2. Sound(c) /\ Complete(c)
  BY DEF StoreInv
<1>3. Sound(c)'
  <2>1. CASE ~call[c].kept
    BY <2>1 DEF Sound, SameArguments
  <2>2. CASE call[c].kept
    <3>1. call[c].sub0 \subseteq Members(t) \cup {LastId}
      BY <1>2, <2>2 DEF Sound
    <3>2. call[c].sub0 \subseteq Members(t)' \cup {LastId}
      BY <1>1, <3>1
    <3> QED BY <2>2, <3>2 DEF Sound, SameArguments
  <2> QED BY <2>1, <2>2
<1>4. Complete(c)'
  <2>1. CASE ~(call[c].kept /\ call[c].alone)
    BY <2>1 DEF Complete, SameArguments
  <2>2. CASE call[c].kept /\ call[c].alone
    <3>1. /\ call[c].min0 \subseteq Members(s) \cup {LastId}
          /\ \A d \in Clients \ {c} : ~Shares(d, t)
      BY <1>2, <2>2 DEF Complete
    <3>2. call[c].min0 \subseteq Members(s)' \cup {LastId}
      BY <1>1, <3>1
    <3>3. \A d \in Clients \ {c} : ~(Differs(d)' /\ call'[d].sub = t)
      BY <3>1 DEF Alone, SameCall, Shares, Differs
    <3> QED BY <2>2, <3>2, <3>3 DEF Complete, SameArguments, Shares
  <2> QED BY <2>1, <2>2
<1> QED BY <1>3, <1>4

LEMMA NotDiffering == ASSUME NEW c \in Clients, ~Differs(c)'
                      PROVE  Sound(c)' /\ Complete(c)'
BY DEF Sound, Complete

LEMMA IdleTyped ==
    /\ idle \in Call /\ idle.at = "idle"
    /\ \A s \in Sets : [idle EXCEPT !.at = "expire", !.min = s] \in Call
<1>1. AnySet \in Sets
  BY StoreAssumption DEF AnySet
<1>2. {} \subseteq Space
  OBVIOUS
<1> QED BY <1>1, <1>2 DEF idle, Call, Space

\* A call begins or ends; its client is in no call of Difference afterwards.
LEMMA OutsideDoes ==
    ASSUME TypeInv, NEW c \in Clients, NEW new \in Call, new.at \in {"idle", "expire"},
           call' = [call EXCEPT ![c] = new]
    PROVE  /\ call' \in [Clients -> Call] /\ call'[c] = new /\ OthersStay(c)
           /\ ~Differs(c)' /\ Alone(c) /\ Sound(c)' /\ Complete(c)'
<1>1. call' \in [Clients -> Call] /\ call'[c] = new /\ OthersStay(c)
  BY DEF TypeInv, TypeOK, OthersStay
<1>2. ~Differs(c)'
  BY <1>1 DEF Differs
<1> QED BY <1>1, <1>2, Undisturbed, NotDiffering

LEMMA Typed ==
    ASSUME TypeInv
    PROVE  /\ redis \in [Keys -> Bitmap] /\ call \in [Clients -> Call]
           /\ adds \in 0 .. MaxAdds /\ calls \in 0 .. MaxCalls /\ left \subseteq Keys
           /\ \A s \in Sets : Members(s) \subseteq Space
           /\ \A c \in Clients : call[c] \in Call
BY DEF TypeInv, TypeOK

-----------------------------------------------------------------------------
(* One lemma per action *)

LEMMA AddKeeps ==
    ASSUME StoreInv, NEW c \in Clients, NEW set \in Sets, NEW id \in AddedIds, Add(c, set, id)
    PROVE  StoreInv'
<1> DEFINE new == [idle EXCEPT !.at = "expire", !.min = set]
<1>1. TypeInv /\ Owned
  BY DEF StoreInv
<1>2. Key(set) \in Keys /\ Key(set) \in SetKeys
  BY KeysKnown
<1>3. id \in Space
  BY StoreAssumption DEF Add, InSpace, Space
<1>4. /\ redis' \in [Keys -> Bitmap] /\ Only(Key(set))
      /\ redis'[Key(set)].bits = redis[Key(set)].bits \cup {id}
      /\ redis[Key(set)].len <= redis'[Key(set)].len
      /\ LeftKept
  BY <1>1, <1>2, <1>3, Typed, SetbitDoes DEF Add
<1>5. /\ Gentle /\ \A k \in ScratchKeys : redis'[k] = redis[k]
      /\ \A t \in Sets \ {set} : Members(t)' = Members(t)
  BY <1>1, <1>4, Typed, OnSet
<1>6. new \in Call /\ new.at = "expire" /\ new.min = set
  BY IdleTyped DEF idle
<1>7. call' = [call EXCEPT ![c] = new]
  BY DEF Add
<1> HIDE DEF new
<1>8. /\ call' \in [Clients -> Call] /\ call'[c] = new /\ OthersStay(c) /\ ~Differs(c)'
      /\ Alone(c) /\ Sound(c)' /\ Complete(c)'
  BY <1>1, <1>6, <1>7, OutsideDoes
<1>9. adds' \in 0 .. MaxAdds /\ calls' = calls
  BY <1>1, Typed, StoreAssumption DEF Add
<1>10. \A s \in Sets : Members(s)' \subseteq Space
  <2>1. Members(set)' = Members(set) \cup {id}
    BY <1>4 DEF Members
  <2> QED BY <1>1, <1>3, <1>5, <2>1, Typed
<1>11. TypeInv'
  BY <1>1, <1>4, <1>8, <1>9, <1>10, Typed, TypeStays
<1>12. OwnScratch(c)
  BY <1>5 DEF OwnScratch
<1>13. Owes(c, Key(set))'
  BY <1>6, <1>8, OwedIs DEF Owes
<1>14. call[c].at = "idle"
  BY IdleTyped DEF Add
<1>15. \A k : ~Owes(c, k)
  BY <1>14, OwedIs DEF Owes
<1>16. \A k \in Keys : redis'[k] = redis[k] \/ Owes(c, k)'
  BY <1>4, <1>13 DEF Only
<1>17. Owned'
  BY <1>1, <1>4, <1>8, <1>15, <1>16, OwnedStays DEF Alone
<1> QED BY <1>5, <1>8, <1>11, <1>12, <1>17, StepOf

LEMMA ExpireAddedKeeps ==
    ASSUME StoreInv, NEW c \in Clients, ExpireAdded(c)
    PROVE  StoreInv'
<1>1. TypeInv /\ Owned
  BY DEF StoreInv
<1>2. PICK set \in Sets : set = call[c].min
  BY <1>1, Typed DEF Call
<1>3. Key(set) \in Keys /\ call[c].at = "expire"
  BY KeysKnown DEF ExpireAdded
<1>4. /\ redis' \in [Keys -> Bitmap] /\ Only(Key(set))
      /\ redis'[Key(set)].bits = redis[Key(set)].bits
      /\ redis'[Key(set)].len = redis[Key(set)].len
      /\ redis'[Key(set)] = absent \/ redis'[Key(set)].ttl
      /\ LeftKept
  BY <1>1, <1>2, <1>3, Typed, ExpireDoes DEF ExpireAdded
<1>5. redis[Key(set)].len \in Nat
  BY <1>1, <1>3, Typed, BitmapFields
<1>6. /\ Gentle /\ \A k \in ScratchKeys : redis'[k] = redis[k]
      /\ \A t \in Sets \ {set} : Members(t)' = Members(t)
  BY <1>1, <1>4, <1>5, Typed, OnSet
<1>7. call' = [call EXCEPT ![c] = idle] /\ UNCHANGED <<adds, calls>>
  BY DEF ExpireAdded
<1>8. /\ call' \in [Clients -> Call] /\ call'[c] = idle /\ OthersStay(c) /\ ~Differs(c)'
      /\ Alone(c) /\ Sound(c)' /\ Complete(c)'
  BY <1>1, <1>7, IdleTyped, OutsideDoes
<1>9. \A s \in Sets : Members(s)' \subseteq Space
  <2>1. Members(set)' = Members(set)
    BY <1>4 DEF Members
  <2> QED BY <1>1, <1>6, <2>1, Typed
<1>10. TypeInv'
  BY <1>1, <1>4, <1>7, <1>8, <1>9, Typed, TypeStays
<1>11. OwnScratch(c)
  BY <1>6 DEF OwnScratch
<1>12. \A k : Owes(c, k) => k = Key(set)
  BY <1>2, <1>3, OwedIs DEF Owes
<1>13. \A k \in Keys : redis'[k] = absent \/ redis'[k].ttl \/ (redis'[k] = redis[k] /\ ~Owes(c, k))
  <2> SUFFICES ASSUME NEW k \in Keys
               PROVE  redis'[k] = absent \/ redis'[k].ttl \/ (redis'[k] = redis[k] /\ ~Owes(c, k))
    OBVIOUS
  <2>1. CASE k = Key(set)
    BY <1>4, <2>1
  <2>2. CASE k # Key(set)
    BY <1>4, <1>12, <2>2, Zenon DEF Only
  <2> QED BY <2>1, <2>2
<1>14. Owned'
  BY <1>1, <1>4, <1>8, <1>13, OwnedStays DEF Alone
<1> QED BY <1>6, <1>8, <1>10, <1>11, <1>14, StepOf

LEMMA DifferenceKeeps ==
    ASSUME StoreInv, NEW c \in Clients, NEW min, NEW sub, <<min, sub>> \in Pairs, Difference(c, min, sub)
    PROVE  StoreInv'
<1>1. TypeInv /\ Owned /\ min \in Sets /\ sub \in Sets
  BY KeysKnown DEF StoreInv
<1>2. redis' = redis /\ call[c].at = "idle" /\ adds' = adds /\ left' = left
      /\ calls' \in 0 .. MaxCalls
  <2>1. call[c] = idle /\ calls < MaxCalls /\ calls' = calls + 1 /\ UNCHANGED <<redis, adds, left>>
    BY DEF Difference
  <2>2. calls \in 0 .. MaxCalls /\ MaxCalls \in Nat
    BY <1>1, Typed, StoreAssumption
  <2>3. calls' \in 0 .. MaxCalls
    BY <2>1, <2>2
  <2> QED BY <2>1, <2>3, IdleTyped
<1>3. Gentle /\ \A s \in Sets : Members(s)' = Members(s)
  BY <1>2, Nothing
<1>4. [idle EXCEPT !.at = Pinned, !.min = min, !.sub = sub,
                   !.min0 = Members(min), !.sub0 = Members(sub),
                   !.alone = \A e \in Clients : ~Shares(e, sub)] \in Call
  <2>1. Members(min) \subseteq Space /\ Members(sub) \subseteq Space
    BY <1>1, Typed
  <2>2. idle \in Call
    BY IdleTyped
  <2>3. ASSUME NEW a \in BOOLEAN
        PROVE  [idle EXCEPT !.at = Pinned, !.min = min, !.sub = sub,
                            !.min0 = Members(min), !.sub0 = Members(sub), !.alone = a] \in Call
    BY <1>1, <2>1, <2>2 DEF Call, Space, Pinned
  <2> QED BY <2>3
<1>5. /\ call'[c].at = "pin minuend" /\ call'[c].min = min /\ call'[c].sub = sub
      /\ call'[c].min0 = Members(min) /\ call'[c].sub0 = Members(sub)
      /\ call'[c].kept = TRUE
      /\ call'[c].alone <=> \A e \in Clients : ~Shares(e, sub)
      /\ call'[c] \in Call
  BY <1>4 DEF Difference, idle, Pinned
<1>6. ASSUME NEW d \in Clients \ {c}
      PROVE  /\ SameCall(d) /\ call'[d] \in Call
             /\ call'[d].alone <=> call[d].alone /\ ~Shares(d, sub)
  <2>1. call[d] \in Call
    BY <1>1, Typed
  <2>2. call'[d] = [call[d] EXCEPT !.alone = @ /\ ~Shares(d, sub)]
    BY DEF Difference
  <2>3. ASSUME NEW a \in BOOLEAN
        PROVE  [call[d] EXCEPT !.alone = a] \in Call /\ [call[d] EXCEPT !.alone = a].alone = a
    BY <2>1 DEF Call
  <2>4. call'[d] \in Call /\ call'[d].alone = (call[d].alone /\ ~Shares(d, sub))
    BY <2>2, <2>3
  <2>5. SameCall(d)
    BY <2>1, <2>2 DEF SameCall, Call
  <2> QED BY <2>4, <2>5
<1>7. Alone(c)
  <2>1. ASSUME NEW d \in Clients \ {c}, call'[d].alone, Differs(d)
        PROVE  ~Shares(c, call[d].sub)'
    <3>1. call[d].sub # sub
      BY <1>6, <2>1 DEF Shares
    <3> QED BY <1>5, <1>6, <3>1 DEF Shares, SameCall
  <2> QED BY <1>6, <2>1 DEF Alone
<1>8. call' \in [Clients -> Call]
  <2>1. call' = [d \in Clients |-> call'[d]]
    BY DEF Difference
  <2> QED BY <1>5, <1>6, <2>1
<1>9. TypeInv'
  <2>1. TypeOK'
    BY <1>1, <1>2, <1>8, Typed DEF TypeOK
  <2>2. ASSUME NEW d \in Clients, Differs(d)'
        PROVE  <<call'[d].min, call'[d].sub>> \in Pairs
    <3>1. CASE d = c
      BY <1>5, <3>1
    <3>2. CASE d # c
      BY <1>1, <1>6, <2>2, <3>2 DEF TypeInv, SameCall, Differs
    <3> QED BY <3>1, <3>2
  <2> QED BY <1>1, <1>3, <2>1, <2>2, Typed DEF TypeInv, Space
<1>10. Sound(c)'
  <2>1. call'[c].sub0 \subseteq Members(sub)'
    BY <1>1, <1>3, <1>5
  <2> QED BY <1>5, <2>1 DEF Sound
<1>11. Complete(c)'
  <2>1. call'[c].min0 \subseteq Members(min)'
    BY <1>1, <1>3, <1>5
  <2>2. ASSUME call'[c].alone, NEW d \in Clients \ {c}
        PROVE  ~(Differs(d)' /\ call'[d].sub = sub)
    BY <1>5, <1>6, <2>2 DEF Shares, SameCall, Differs
  <2> QED BY <1>5, <2>1, <2>2 DEF Complete, Shares
<1>12. OwnScratch(c)
  BY <1>2 DEF OwnScratch
<1>13. \A k : ~Owes(c, k)
  BY <1>2, OwedIs DEF Owes
<1>14. Owned'
  <2>1. LeftKept
    BY <1>2 DEF LeftKept
  <2> QED BY <1>1, <1>2, <1>6, <1>13, <2>1, OwnedStays
<1> QED BY <1>3, <1>7, <1>9, <1>10, <1>11, <1>12, <1>14, StepOf

\* A step that pins a set, or gives it its TTL.
LEMMA PinStep ==
    ASSUME StoreInv, NEW c \in Clients,
           NEW from \in {"pin minuend", "expire minuend", "pin subtrahend", "expire subtrahend"},
           NEW to \in {"expire minuend", "pin subtrahend", "expire subtrahend", "not"},
           Goes(c, from, to), NEW x \in Sets,
           redis' \in [Keys -> Bitmap], Only(Key(x)), redis[Key(x)].len <= redis'[Key(x)].len,
           redis[Key(x)].bits \subseteq redis'[Key(x)].bits \cup {LastId},
           redis'[Key(x)].bits \subseteq Space,
           call[c].kept /\ call[c].alone /\ to \in {"expire subtrahend", "not"} =>
              redis'[Key(call[c].sub)].len = Full,
           redis'[Key(x)] = absent \/ redis'[Key(x)].ttl \/ Owes(c, Key(x))',
           \A k : Owes(c, k) => k = Key(x), LeftKept
    PROVE  StoreInv'
<1>1. TypeInv /\ Owned
  BY DEF StoreInv
<1>2. /\ call' \in [Clients -> Call] /\ OthersStay(c) /\ SameArguments(c)
      /\ call[c].at = from /\ call'[c].at = to
      /\ adds' \in 0 .. MaxAdds /\ calls' \in 0 .. MaxCalls
  BY <1>1, GoesDoes
<1>3. Differs(c) /\ Differs(c)' /\ Alone(c)
  BY <1>2, Undisturbed DEF Differs, SameArguments
<1>4. PICK s \in Sets, t \in Sets : s = call[c].min /\ t = call[c].sub /\ <<s, t>> \in Pairs
  BY <1>1, <1>3, PairKnown
<1>5. /\ Gentle /\ \A k \in ScratchKeys : redis'[k] = redis[k]
      /\ \A u \in Sets \ {x} : Members(u)' = Members(u)
  BY <1>1, Typed, OnSet
<1>6. \A u \in Sets : Members(u)' \subseteq Space
  <2>1. Members(x)' \subseteq Space
    BY DEF Members
  <2> QED BY <1>1, <1>5, <2>1, Typed
<1>7. TypeInv'
  BY <1>1, <1>2, <1>4, <1>6, TypeStays DEF SameArguments
<1>8. Sound(c)' /\ Complete(c)'
  BY <1>2, <1>3, <1>4, <1>5, OwnStep
<1>9. OwnScratch(c)
  BY <1>5 DEF OwnScratch
<1>10. \A k \in Keys :
          redis'[k] = absent \/ redis'[k].ttl \/ Owes(c, k)' \/ (redis'[k] = redis[k] /\ ~Owes(c, k))
  <2> SUFFICES ASSUME NEW k \in Keys
               PROVE  redis'[k] = absent \/ redis'[k].ttl \/ Owes(c, k)' \/ (redis'[k] = redis[k] /\ ~Owes(c, k))
    OBVIOUS
  <2>1. CASE k = Key(x)
    BY <2>1
  <2>2. CASE k # Key(x)
    BY <2>2, Zenon DEF Only
  <2> QED BY <2>1, <2>2
<1>11. Owned'
  BY <1>1, <1>3, <1>10, OwnedStays DEF Alone
<1> QED BY <1>3, <1>5, <1>7, <1>8, <1>9, <1>11, StepOf

LEMMA SetbitPins ==
    ASSUME StoreInv, NEW x \in Sets, SETBIT(Key(x), Capacity - 1, FALSE)
    PROVE  /\ redis' \in [Keys -> Bitmap] /\ Only(Key(x)) /\ redis[Key(x)].len <= redis'[Key(x)].len
           /\ redis[Key(x)].bits \subseteq redis'[Key(x)].bits \cup {LastId}
           /\ redis'[Key(x)].bits \subseteq Space /\ redis'[Key(x)].len = Full
           /\ LeftKept
<1>1. /\ redis \in [Keys -> Bitmap] /\ Key(x) \in Keys /\ redis[Key(x)].bits \subseteq Space
      /\ Capacity - 1 \in Space /\ Capacity - 1 = LastId
  BY Typed, KeysKnown, LastPiece DEF StoreInv, Members, LastId
<1> QED BY <1>1, SetbitDoes

LEMMA ExpirePins ==
    ASSUME StoreInv, NEW x \in Sets, EXPIRE(Key(x))
    PROVE  /\ redis' \in [Keys -> Bitmap] /\ Only(Key(x)) /\ redis[Key(x)].len <= redis'[Key(x)].len
           /\ redis[Key(x)].bits \subseteq redis'[Key(x)].bits \cup {LastId}
           /\ redis'[Key(x)].bits \subseteq Space
           /\ redis'[Key(x)].len = redis[Key(x)].len
           /\ redis'[Key(x)] = absent \/ redis'[Key(x)].ttl
           /\ LeftKept
<1>1. redis \in [Keys -> Bitmap] /\ Key(x) \in Keys /\ redis[Key(x)].bits \subseteq Space
  BY Typed, KeysKnown DEF StoreInv, Members
<1>2. redis[Key(x)].len \in Nat
  BY <1>1, BitmapFields
<1> QED BY <1>1, <1>2, ExpireDoes

LEMMA PinKeeps ==
    ASSUME StoreInv, NEW c \in Clients, Pin(c)
    PROVE  StoreInv'
<1> DEFINE me == call[c]
<1>1. CASE Goes(c, "pin minuend", "expire minuend") /\ SETBIT(Key(me.min), Capacity - 1, FALSE)
  <2>1. me.at = "pin minuend" /\ TypeInv /\ call'[c].at = "expire minuend" /\ SameArguments(c)
    BY <1>1, GoesDoes DEF StoreInv, Goes
  <2>2. PICK s \in Sets, t \in Sets : s = me.min /\ t = me.sub /\ <<s, t>> \in Pairs
    BY <2>1, PairKnown DEF Differs
  <2>3. Owes(c, Key(s))' /\ \A k : ~Owes(c, k)
    BY <2>1, <2>2, OwedIs DEF Owes, SameArguments
  <2> QED BY <1>1, <2>2, <2>3, SetbitPins, PinStep
<1>2. CASE Goes(c, "expire minuend", "pin subtrahend") /\ EXPIRE(Key(me.min))
  <2>1. me.at = "expire minuend" /\ TypeInv
    BY <1>2 DEF StoreInv, Goes
  <2>2. PICK s \in Sets, t \in Sets : s = me.min /\ t = me.sub /\ <<s, t>> \in Pairs
    BY <2>1, PairKnown DEF Differs
  <2>3. \A k : Owes(c, k) => k = Key(s)
    BY <2>1, <2>2, OwedIs DEF Owes
  <2> QED BY <1>2, <2>2, <2>3, ExpirePins, PinStep
<1>3. CASE Goes(c, "pin subtrahend", "expire subtrahend") /\ SETBIT(Key(me.sub), Capacity - 1, FALSE)
  <2>1. me.at = "pin subtrahend" /\ TypeInv /\ call'[c].at = "expire subtrahend" /\ SameArguments(c)
    BY <1>3, GoesDoes DEF StoreInv, Goes
  <2>2. PICK s \in Sets, t \in Sets : s = me.min /\ t = me.sub /\ <<s, t>> \in Pairs
    BY <2>1, PairKnown DEF Differs
  <2>3. Owes(c, Key(t))' /\ \A k : ~Owes(c, k)
    BY <2>1, <2>2, OwedIs DEF Owes, SameArguments
  <2> QED BY <1>3, <2>2, <2>3, SetbitPins, PinStep
<1>4. CASE Goes(c, "expire subtrahend", "not") /\ EXPIRE(Key(me.sub))
  <2>1. me.at = "expire subtrahend" /\ TypeInv /\ Complete(c)
    BY <1>4 DEF StoreInv, Goes
  <2>2. PICK s \in Sets, t \in Sets : s = me.min /\ t = me.sub /\ <<s, t>> \in Pairs
    BY <2>1, PairKnown DEF Differs
  <2>3. \A k : Owes(c, k) => k = Key(t)
    BY <2>1, <2>2, OwedIs DEF Owes
  <2>4. me.kept /\ me.alone => redis[Key(t)].len = Full
    BY <2>1, <2>2 DEF Complete, Differs
  <2> QED BY <1>4, <2>2, <2>3, <2>4, ExpirePins, PinStep
<1> QED BY <1>1, <1>2, <1>3, <1>4 DEF Pin

LEMMA SpaceFits == Space \subseteq Positions(Full)
<1>1. ASSUME NEW id \in Space PROVE id \in Positions(Full)
  <2>1. id \div ByteBits + 1 \in 1 .. Full /\ id \in Positions(id \div ByteBits + 1)
    BY InPieces, Sizes DEF Full, Positions
  <2>2. id \div ByteBits + 1 \in Nat /\ id \div ByteBits + 1 <= Full /\ Full \in Nat
    BY <2>1, LastPiece
  <2> QED BY <2>1, <2>2, MorePositions
<1> QED BY <1>1

LEMMA ReturningDoes ==
    ASSUME TypeInv, NEW c \in Clients, call[c].at \in {"not", "and", "count", "get"},
           NEW ok \in BOOLEAN, NEW res, res \subseteq Space, Returning(c, ok, res)
    PROVE  /\ call' \in [Clients -> Call] /\ OthersStay(c) /\ SameArguments(c)
           /\ call'[c].at = "return" /\ call'[c].ok = ok /\ call'[c].res = res
           /\ redis' = redis /\ adds' = adds /\ calls' = calls /\ LeftKept
           /\ \A k : Owes(c, k) => Owes(c, k)'
<1> DEFINE new == [call[c] EXCEPT !.at = "return", !.ok = ok, !.res = res]
<1>1. call[c] \in Call /\ call \in [Clients -> Call]
  BY Typed
<1>2. new \in Call
  BY <1>1 DEF Call, Space
<1>3. /\ new.at = "return" /\ new.ok = ok /\ new.res = res
      /\ new.min = call[c].min /\ new.sub = call[c].sub
      /\ new.min0 = call[c].min0 /\ new.sub0 = call[c].sub0
      /\ new.alone = call[c].alone /\ new.kept = call[c].kept
  BY <1>1 DEF Call
<1>4. call' = [call EXCEPT ![c] = new]
  BY <1>1 DEF Returning
<1> HIDE DEF new
<1>5. call' \in [Clients -> Call] /\ call'[c] = new /\ OthersStay(c)
  BY <1>1, <1>2, <1>4 DEF OthersStay
<1>6. LeftKept
  BY DEF Returning, LeftKept
<1>7. SameArguments(c) /\ call'[c].at = "return"
  BY <1>3, <1>5 DEF SameArguments
<1>8. \A k : Owes(c, k) => Owes(c, k)'
  <2>1. \A k : Owes(c, k) => k \in Scratch(call[c])
    BY OwedIs DEF Owes, Scratch
  <2>2. Owed(call'[c]) = Scratch(call'[c])
    BY <1>7, OwedIs
  <2> QED BY <1>7, <2>1, <2>2 DEF Owes, Scratch, SameArguments
<1> QED BY <1>3, <1>5, <1>6, <1>7, <1>8 DEF Returning

\* A step of a call that works with its scratch keys and leaves the sets alone.
LEMMA ScratchStep ==
    ASSUME StoreInv, NEW c \in Clients, call[c].at \in {"not", "and", "count", "get"},
           call'[c].at \in {"and", "count", "get", "return"},
           call' \in [Clients -> Call], OthersStay(c), SameArguments(c),
           adds' \in 0 .. MaxAdds, calls' \in 0 .. MaxCalls, LeftKept,
           \A k \in Keys : Owes(c, k)' \/ (redis'[k] = redis[k] /\ ~Owes(c, k)),
           redis' \in [Keys -> Bitmap], Gentle,
           \A k \in SetKeys : redis'[k] = redis[k],
           \A k \in ScratchKeys \ Scratch(call[c]) : redis'[k] = redis[k],
           Sound(c)' /\ Complete(c)'
    PROVE  StoreInv'
<1>1. TypeInv /\ Owned
  BY DEF StoreInv
<1>2. Differs(c) /\ Differs(c)'
  BY DEF Differs
<1>3. Alone(c)
  BY <1>2, Undisturbed DEF SameArguments
<1>4. TypeInv'
  <2>1. \A s \in Sets : Members(s)' \subseteq Space
    BY <1>1, Typed, SetsSame
  <2>2. <<call'[c].min, call'[c].sub>> \in Pairs
    BY <1>1, <1>2 DEF TypeInv, SameArguments
  <2> QED BY <1>1, <2>1, <2>2, TypeStays
<1>5. OwnScratch(c)
  BY <1>2 DEF OwnScratch
<1>6. Owned'
  BY <1>1, <1>3, OwnedStays DEF Alone
<1> QED BY <1>3, <1>4, <1>5, <1>6, StepOf

LEMMA CombineKeeps ==
    ASSUME StoreInv, NEW c \in Clients, Combine(c)
    PROVE  StoreInv'
<1>1. TypeInv /\ Sound(c) /\ Complete(c) /\ redis \in [Keys -> Bitmap]
  BY Typed DEF StoreInv
<1>2. CASE Goes(c, "not", "and") /\ BITOPNOT(NotKey(call[c].sub), Key(call[c].sub))
  <2>1. /\ call' \in [Clients -> Call] /\ OthersStay(c) /\ SameArguments(c)
        /\ call[c].at = "not" /\ call'[c].at = "and"
        /\ adds' \in 0 .. MaxAdds /\ calls' \in 0 .. MaxCalls
    BY <1>1, <1>2, GoesDoes
  <2>2. Differs(c) /\ Alone(c)
    BY <2>1, Undisturbed DEF Differs, SameArguments
  <2>3. PICK s \in Sets, t \in Sets : s = call[c].min /\ t = call[c].sub /\ <<s, t>> \in Pairs
    BY <1>1, <2>2, PairKnown
  <2>4. NotKey(t) \in ScratchKeys /\ NotKey(t) \in Keys /\ Key(t) \in Keys /\ NotKey(t) \in Scratch(call[c])
    BY <2>3, KeysKnown DEF Scratch
  <2>5. BITOPNOT(NotKey(t), Key(t))
    BY <1>2, <2>3
  <2>6. /\ Gentle /\ \A u \in Sets : Members(u)' = Members(u)
        /\ \A k \in Keys \ {NotKey(t)} : redis'[k] = redis[k]
        /\ NotBits(t)' = Positions(redis[Key(t)].len) \ Members(t)
        /\ redis' \in [Keys -> Bitmap] /\ LeftKept
    BY <1>1, <2>4, <2>5, NotIsGentle, NotDoes
  <2>7. call[c].kept => NotBits(t)' \cap call[c].sub0 \subseteq {LastId}
    <3>1. call[c].kept => call[c].sub0 \subseteq Members(t) \cup {LastId}
      BY <1>1, <2>2, <2>3 DEF Sound
    <3> QED BY <2>6, <3>1
  <2>8. call[c].kept /\ call[c].alone => Space \subseteq NotBits(t)' \cup Members(t)' \cup {LastId}
    <3>1. call[c].kept /\ call[c].alone => redis[Key(t)].len = Full
      BY <1>1, <2>1, <2>2, <2>3 DEF Complete
    <3> QED BY <2>6, <3>1, SpaceFits
  <2>9. Sound(c)' /\ Complete(c)'
    BY <2>1, <2>2, <2>3, <2>6, <2>7, <2>8, OwnStep
  <2>10. /\ \A k \in SetKeys : redis'[k] = redis[k]
         /\ \A k \in ScratchKeys \ Scratch(call[c]) : redis'[k] = redis[k]
    BY <2>4, <2>6, KeysKnown
  <2>11. \A k \in Keys : Owes(c, k)' \/ (redis'[k] = redis[k] /\ ~Owes(c, k))
    <3>1. Owed(call[c]) = {} /\ Owed(call'[c]) = {NotKey(t)}
      BY <2>1, <2>3, OwedIs DEF SameArguments
    <3> QED BY <2>6, <3>1 DEF Owes
  <2> QED BY <2>1, <2>6, <2>9, <2>10, <2>11, ScratchStep
<1>3. CASE /\ Goes(c, "and", "count")
           /\ BITOPAND(DiffKey(call[c].min, call[c].sub), Key(call[c].min), NotKey(call[c].sub))
  <2>1. /\ call' \in [Clients -> Call] /\ OthersStay(c) /\ SameArguments(c)
        /\ call[c].at = "and" /\ call'[c].at = "count"
        /\ adds' \in 0 .. MaxAdds /\ calls' \in 0 .. MaxCalls
    BY <1>1, <1>3, GoesDoes
  <2>2. Differs(c) /\ Alone(c)
    BY <2>1, Undisturbed DEF Differs, SameArguments
  <2>3. PICK s \in Sets, t \in Sets : s = call[c].min /\ t = call[c].sub /\ <<s, t>> \in Pairs
    BY <1>1, <2>2, PairKnown
  <2>4. /\ DiffKey(s, t) \in ScratchKeys /\ DiffKey(s, t) \in Keys /\ DiffKey(s, t) \in Scratch(call[c])
        /\ NotKey(t) \in Keys /\ Key(s) \in Keys /\ NotKey(t) # DiffKey(s, t)
    BY <2>3, KeysKnown, KeysApart DEF Scratch
  <2>5. BITOPAND(DiffKey(s, t), Key(s), NotKey(t))
    BY <1>3, <2>3
  <2>6. /\ Gentle /\ \A u \in Sets : Members(u)' = Members(u)
        /\ \A k \in Keys \ {DiffKey(s, t)} : redis'[k] = redis[k]
        /\ DiffBits(s, t)' = Members(s) \cap NotBits(t)
        /\ redis' \in [Keys -> Bitmap] /\ LeftKept
    BY <1>1, <2>3, <2>4, <2>5, AndIsGentle, AndDoes
  <2>7. NotBits(t)' = NotBits(t)
    BY <2>4, <2>6 DEF NotBits
  <2>8. call[c].kept => /\ NotBits(t)' \cap call[c].sub0 \subseteq {LastId}
                        /\ DiffBits(s, t)' \subseteq (Members(s)' \ call[c].sub0) \cup {LastId}
    <3>1. call[c].kept => NotBits(t) \cap call[c].sub0 \subseteq {LastId}
      BY <1>1, <2>1, <2>2, <2>3 DEF Sound
    <3> QED BY <2>3, <2>6, <2>7, <3>1
  <2>9. call[c].kept /\ call[c].alone =>
           call[c].min0 \subseteq DiffBits(s, t)' \cup Members(t)' \cup {LastId}
    <3>1. call[c].kept /\ call[c].alone =>
             /\ Space \subseteq NotBits(t) \cup Members(t) \cup {LastId}
             /\ call[c].min0 \subseteq Members(s) \cup {LastId}
      BY <1>1, <2>1, <2>2, <2>3 DEF Complete
    <3>2. call[c].min0 \subseteq Space
      BY <1>1, Typed DEF Call, Space
    <3> QED BY <2>6, <3>1, <3>2
  <2>10. Sound(c)' /\ Complete(c)'
    BY <2>1, <2>2, <2>3, <2>6, <2>8, <2>9, OwnStep
  <2>11. /\ \A k \in SetKeys : redis'[k] = redis[k]
         /\ \A k \in ScratchKeys \ Scratch(call[c]) : redis'[k] = redis[k]
    BY <2>4, <2>6, KeysKnown
  <2>12. \A k \in Keys : Owes(c, k)' \/ (redis'[k] = redis[k] /\ ~Owes(c, k))
    <3>1. Owed(call[c]) = {NotKey(t)} /\ Owed(call'[c]) = {NotKey(t), DiffKey(s, t)}
      BY <2>1, <2>3, OwedIs DEF SameArguments, Scratch
    <3> SUFFICES ASSUME NEW k \in Keys, ~Owes(c, k)' PROVE redis'[k] = redis[k] /\ ~Owes(c, k)
      OBVIOUS
    <3>2. k # NotKey(t) /\ k # DiffKey(s, t)
      BY <3>1 DEF Owes
    <3> QED BY <2>6, <3>1, <3>2 DEF Owes
  <2> QED BY <2>1, <2>6, <2>10, <2>11, <2>12, ScratchStep
<1> QED BY <1>2, <1>3 DEF Combine

\* A step that returns an answer, if the answer is right.
LEMMA ReturnStep ==
    ASSUME StoreInv, NEW c \in Clients, call[c].at \in {"not", "and", "count", "get"},
           NEW ok \in BOOLEAN, NEW res, res \subseteq Space, Returning(c, ok, res),
           NEW s \in Sets, NEW t \in Sets, s = call[c].min, t = call[c].sub, <<s, t>> \in Pairs,
           ok /\ call[c].kept => res \subseteq (Members(s) \ call[c].sub0) \cup {LastId},
           ok /\ call[c].kept /\ call[c].alone => call[c].min0 \subseteq res \cup Members(t) \cup {LastId}
    PROVE  StoreInv'
<1>1. TypeInv /\ redis \in [Keys -> Bitmap] /\ adds \in 0 .. MaxAdds /\ calls \in 0 .. MaxCalls
  BY Typed DEF StoreInv
<1>2. /\ call' \in [Clients -> Call] /\ OthersStay(c) /\ SameArguments(c)
      /\ call'[c].at = "return" /\ call'[c].ok = ok /\ call'[c].res = res
      /\ redis' = redis /\ adds' = adds /\ calls' = calls /\ LeftKept
      /\ \A k : Owes(c, k) => Owes(c, k)'
  BY <1>1, ReturningDoes
<1>3. Differs(c) /\ Alone(c)
  BY <1>2, Undisturbed DEF Differs, SameArguments
<1>4. Gentle /\ Members(s)' = Members(s) /\ Members(t)' = Members(t)
  BY <1>2, Nothing
<1>5. Sound(c)' /\ Complete(c)'
  BY <1>2, <1>3, <1>4, OwnStep
<1>6. \A k \in Keys : Owes(c, k)' \/ (redis'[k] = redis[k] /\ ~Owes(c, k))
  <2> SUFFICES ASSUME NEW k \in Keys, ~Owes(c, k)' PROVE redis'[k] = redis[k] /\ ~Owes(c, k)
    OBVIOUS
  <2>1. Owes(c, k) => Owes(c, k)'
    BY <1>2
  <2> QED BY <1>2, <2>1
<1> QED BY <1>1, <1>2, <1>4, <1>5, <1>6, ScratchStep

\* There is nothing wrong with an error.
LEMMA ErrorStep ==
    ASSUME StoreInv, NEW c \in Clients, call[c].at \in {"not", "and", "count", "get"},
           Returning(c, FALSE, {})
    PROVE  StoreInv'
<1>1. TypeInv
  BY DEF StoreInv
<1>2. PICK s \in Sets, t \in Sets : s = call[c].min /\ t = call[c].sub /\ <<s, t>> \in Pairs
  BY <1>1, PairKnown DEF Differs
<1>3. PICK ok \in BOOLEAN : ok = FALSE
  OBVIOUS
<1>4. Returning(c, ok, {}) /\ ~ok
  BY <1>3
<1> QED BY <1>2, <1>4, ReturnStep

LEMMA FetchKeeps ==
    ASSUME StoreInv, NEW c \in Clients, Fetch(c)
    PROVE  StoreInv'
<1>1. /\ TypeInv /\ Sound(c) /\ Complete(c) /\ redis \in [Keys -> Bitmap] /\ call[c] \in Call
  BY Typed DEF StoreInv
<1>2. call[c].at \in {"count", "get"}
  BY DEF Fetch, Goes
<1>3. Differs(c)
  BY <1>2 DEF Differs
<1>4. PICK s \in Sets, t \in Sets : s = call[c].min /\ t = call[c].sub /\ <<s, t>> \in Pairs
  BY <1>1, <1>3, PairKnown
<1> DEFINE dst == DiffKey(s, t)
<1>5. redis[dst] \in Bitmap /\ redis[dst].bits = DiffBits(s, t)
  BY <1>1, <1>4, KeysKnown DEF DiffBits
<1>6. call[c].kept => /\ NotBits(t) \cap call[c].sub0 \subseteq {LastId}
                      /\ DiffBits(s, t) \subseteq (Members(s) \ call[c].sub0) \cup {LastId}
  BY <1>1, <1>2, <1>3, <1>4 DEF Sound
<1>7. call[c].kept /\ call[c].alone =>
         call[c].min0 \subseteq DiffBits(s, t) \cup Members(t) \cup {LastId}
  BY <1>1, <1>2, <1>3, <1>4 DEF Complete
<1>8. call[c].min0 \subseteq Space
  BY <1>1 DEF Call, Space
<1>9. CASE call[c].at = "count" /\ redis[dst].bits = {} /\ Returning(c, TRUE, {})
  BY <1>1, <1>2, <1>4, <1>5, <1>7, <1>9, ReturnStep
<1>10. CASE Goes(c, "count", "get") /\ redis' = redis /\ left' = left
  <2>1. /\ call' \in [Clients -> Call] /\ OthersStay(c) /\ SameArguments(c)
        /\ call[c].at = "count" /\ call'[c].at = "get"
        /\ adds' \in 0 .. MaxAdds /\ calls' \in 0 .. MaxCalls
    BY <1>1, <1>10, GoesDoes
  <2>2. Alone(c)
    BY <1>3, <2>1, Undisturbed DEF SameArguments
  <2>3. /\ Gentle /\ Members(s)' = Members(s) /\ Members(t)' = Members(t)
        /\ NotBits(t)' = NotBits(t) /\ DiffBits(s, t)' = DiffBits(s, t)
    BY <1>10, Nothing DEF NotBits, DiffBits
  <2>4. Sound(c)' /\ Complete(c)'
    BY <1>3, <1>4, <1>6, <1>7, <2>1, <2>2, <2>3, OwnStep
  <2>5. LeftKept
    BY <1>10 DEF LeftKept
  <2>6. \A k \in Keys : Owes(c, k)' \/ (redis'[k] = redis[k] /\ ~Owes(c, k))
    <3>1. Owed(call'[c]) = Owed(call[c])
      BY <2>1, OwedIs DEF SameArguments, Scratch
    <3>2. \A k \in Keys : Owes(c, k)' <=> Owes(c, k)
      BY <3>1 DEF Owes
    <3> QED BY <1>10, <3>2
  <2> QED BY <1>1, <1>2, <1>10, <2>1, <2>3, <2>4, <2>5, <2>6, ScratchStep
<1>11. CASE call[c].at = "get" /\ Returning(c, FALSE, {})
  BY <1>1, <1>2, <1>11, ErrorStep
<1>12. CASE call[c].at = "get" /\ Returning(c, TRUE, B!Ids(B!FromBytes(GET(dst), Capacity)))
  <2>1. B!Ids(B!FromBytes(GET(dst), Capacity)) = DiffBits(s, t) \cap Space
    BY <1>5, BytesAreBits
  <2>2. PICK res : res = DiffBits(s, t) \cap Space
    OBVIOUS
  <2>3. Returning(c, TRUE, res) /\ res \subseteq Space
    BY <1>12, <2>1, <2>2
  <2>4. /\ call[c].kept => res \subseteq (Members(s) \ call[c].sub0) \cup {LastId}
        /\ call[c].kept /\ call[c].alone => call[c].min0 \subseteq res \cup Members(t) \cup {LastId}
    BY <1>6, <1>7, <1>8, <2>2
  <2> QED BY <1>1, <1>2, <1>4, <2>3, <2>4, ReturnStep
<1> QED BY <1>4, <1>9, <1>10, <1>11, <1>12 DEF Fetch

LEMMA CommandFailsKeeps ==
    ASSUME StoreInv, NEW c \in Clients, CommandFails(c)
    PROVE  StoreInv'
BY ErrorStep DEF CommandFails

LEMMA CleanupKeeps ==
    ASSUME StoreInv, NEW c \in Clients, Cleanup(c)
    PROVE  StoreInv'
<1>1. /\ TypeInv /\ Owned /\ redis \in [Keys -> Bitmap] /\ call[c].at = "return"
      /\ call' = [call EXCEPT ![c] = idle] /\ UNCHANGED <<adds, calls>>
      /\ DEL(Scratch(call[c]))
  BY Typed DEF StoreInv, Cleanup
<1>2. Differs(c)
  BY <1>1 DEF Differs
<1>3. PICK s \in Sets, t \in Sets : s = call[c].min /\ t = call[c].sub /\ <<s, t>> \in Pairs
  BY <1>1, <1>2, PairKnown
<1>4. Scratch(call[c]) \subseteq ScratchKeys
  BY <1>3, KeysKnown DEF Scratch
<1>5. /\ redis' \in [Keys -> Bitmap]
      /\ \A k \in Keys : redis'[k] = IF k \in Scratch(call[c]) THEN absent ELSE redis[k]
      /\ LeftKept
  BY <1>1, DelDoes
<1>6. Gentle /\ \A u \in Sets : Members(u)' = Members(u)
  BY <1>1, <1>4, KeysKnown, DelIsGentle
<1>7. /\ call' \in [Clients -> Call] /\ OthersStay(c) /\ ~Differs(c)'
      /\ Alone(c) /\ Sound(c)' /\ Complete(c)'
  BY <1>1, IdleTyped, OutsideDoes
<1>8. TypeInv'
  <2>1. \A u \in Sets : Members(u)' \subseteq Space
    BY <1>1, <1>6, Typed
  <2> QED BY <1>1, <1>5, <1>7, <2>1, Typed, TypeStays
<1>9. OwnScratch(c)
  BY <1>2, <1>5, KeysKnown DEF OwnScratch
<1>10. \A k : Owes(c, k) => k \in Scratch(call[c])
  BY <1>1, OwedIs DEF Owes
<1>11. \A k \in Keys : redis'[k] = absent \/ (redis'[k] = redis[k] /\ ~Owes(c, k))
  <2> SUFFICES ASSUME NEW k \in Keys PROVE redis'[k] = absent \/ (redis'[k] = redis[k] /\ ~Owes(c, k))
    OBVIOUS
  <2>1. CASE k \in Scratch(call[c])
    BY <1>5, <2>1
  <2>2. CASE k \notin Scratch(call[c])
    BY <1>5, <1>10, <2>2
  <2> QED BY <2>1, <2>2
<1>12. Owned'
  BY <1>1, <1>5, <1>7, <1>11, OwnedStays DEF Alone
<1> QED BY <1>6, <1>7, <1>8, <1>9, <1>12, StepOf

LEMMA CrashKeeps ==
    ASSUME StoreInv, NEW c \in Clients, Crash(c)
    PROVE  StoreInv'
<1>1. /\ TypeInv /\ Owned /\ redis' = redis /\ adds' = adds /\ calls' = calls
      /\ left' = Lasting(left \cup Owed(call[c]))
      /\ call' = [call EXCEPT ![c] = idle]
  BY DEF StoreInv, Crash
<1>2. Gentle /\ \A u \in Sets : Members(u)' = Members(u)
  BY <1>1, Nothing
<1>3. /\ call' \in [Clients -> Call] /\ OthersStay(c) /\ ~Differs(c)'
      /\ Alone(c) /\ Sound(c)' /\ Complete(c)'
  BY <1>1, IdleTyped, OutsideDoes
<1>4. TypeInv'
  <2>1. \A u \in Sets : Members(u)' \subseteq Space
    BY <1>1, <1>2, Typed
  <2>2. Owed(call[c]) \subseteq Keys
    <3>1. CASE Differs(c)
      <4>1. PICK s \in Sets, t \in Sets : s = call[c].min /\ t = call[c].sub /\ <<s, t>> \in Pairs
        BY <1>1, <3>1, PairKnown
      <4>2. {Key(s), Key(t), NotKey(t), DiffKey(s, t)} \subseteq Keys
        BY <4>1, KeysKnown
      <4> QED BY <4>1, <4>2 DEF Owed, Scratch
    <3>2. CASE ~Differs(c)
      <4>1. call[c].min \in Sets /\ call[c].at \in {"idle", "expire"}
        BY <1>1, <3>2, Typed DEF Differs, Call
      <4> QED BY <4>1, KeysKnown, OwedIs
    <3> QED BY <3>1, <3>2
  <2>3. left' \subseteq Keys
    BY <1>1, <2>2, Typed DEF Lasting
  <2> QED BY <1>1, <1>3, <2>1, <2>3, Typed, TypeStays
<1>5. OwnScratch(c)
  BY <1>1 DEF OwnScratch
<1>6. Owned'
  <2> SUFFICES ASSUME NEW k \in Keys, redis[k] # absent, ~redis[k].ttl,
                      \A d \in Clients : ~Owes(d, k)'
               PROVE  k \in left'
    BY <1>1 DEF Owned
  <2>1. \A d \in Clients \ {c} : SameCall(d)
    BY <1>3 DEF Alone
  <2>2. \A d \in Clients \ {c} : ~Owes(d, k)
    BY <2>1 DEF SameCall, Owes, Owed, Scratch
  <2>3. k \in left \/ Owes(c, k)
    BY <1>1, <2>2 DEF Owned
  <2> QED BY <1>1, <2>3 DEF Lasting, Owes
<1> QED BY <1>2, <1>3, <1>4, <1>5, <1>6, StepOf

\* A step between the calls: keys go, and no call is disturbed by it.
LEMMA BetweenCalls ==
    ASSUME StoreInv, NEW keys, DEL(keys), UNCHANGED <<adds, calls>>,
           call' \in [Clients -> Call],
           \A c \in Clients : /\ call'[c].at = call[c].at
                              /\ call'[c].min = call[c].min /\ call'[c].sub = call[c].sub
                              /\ Differs(c) => ~call'[c].kept
    PROVE  StoreInv'
<1>1. TypeInv /\ Owned /\ redis \in [Keys -> Bitmap]
  BY Typed DEF StoreInv
<1>2. /\ redis' \in [Keys -> Bitmap]
      /\ \A k \in Keys : redis'[k] = absent \/ redis'[k] = redis[k]
      /\ LeftKept
  BY <1>1, DelDoes
<1>3. TypeInv'
  <2>1. \A s \in Sets : Members(s)' \subseteq Space
    <3>1. \A s \in Sets : redis'[Key(s)].bits \subseteq redis[Key(s)].bits
      BY <1>2, KeysKnown, AbsentTyped
    <3>2. \A s \in Sets : redis[Key(s)].bits \subseteq Space
      BY <1>1, Typed DEF Members
    <3> QED BY <3>1, <3>2 DEF Members
  <2>2. TypeOK'
    BY <1>1, <1>2, Typed DEF TypeOK, LeftKept
  <2>3. \A c \in Clients : Differs(c)' => <<call'[c].min, call'[c].sub>> \in Pairs
    BY <1>1 DEF TypeInv, Differs
  <2> QED BY <2>1, <2>2, <2>3 DEF TypeInv, Space
<1>4. \A c \in Clients : Sound(c)' /\ Complete(c)'
  BY DEF Sound, Complete, Differs
<1>5. Owned'
  <2>1. ASSUME NEW c \in Clients, NEW k PROVE Owes(c, k) => Owes(c, k)'
    BY DEF Owes, Owed, Scratch
  <2> QED BY <1>1, <1>2, <2>1 DEF Owned, LeftKept
<1> QED BY <1>3, <1>4, <1>5 DEF StoreInv

LEMMA DropWindowKeeps == ASSUME StoreInv, DropWindow PROVE StoreInv'
<1>1. ASSUME NEW c \in Clients
      PROVE  /\ call'[c] \in Call /\ call'[c].at = call[c].at
             /\ call'[c].min = call[c].min /\ call'[c].sub = call[c].sub
             /\ Differs(c) => ~call'[c].kept
  <2>1. call[c] \in Call
    BY Typed DEF StoreInv
  <2>2. call'[c] = IF Differs(c) THEN [call[c] EXCEPT !.kept = FALSE] ELSE call[c]
    BY DEF DropWindow
  <2> QED BY <2>1, <2>2 DEF Call
<1>2. call' \in [Clients -> Call]
  <2>1. call' = [c \in Clients |-> call'[c]]
    BY DEF DropWindow
  <2> QED BY <1>1, <2>1
<1> QED BY <1>1, <1>2, BetweenCalls DEF DropWindow

LEMMA KeyExpiresKeeps == ASSUME StoreInv, NEW k \in Keys, KeyExpires(k) PROVE StoreInv'
<1>1. \A c \in Clients : ~Differs(c)
  BY IdleTyped DEF KeyExpires, AllIdle, Differs
<1>2. call' = call /\ call \in [Clients -> Call]
  BY Typed DEF StoreInv, KeyExpires
<1> QED BY <1>1, <1>2, BetweenCalls DEF KeyExpires

LEMMA StoreInvInit == Init => StoreInv
<1> SUFFICES ASSUME Init PROVE StoreInv
  OBVIOUS
<1>1. /\ redis = [k \in Keys |-> absent] /\ call = [c \in Clients |-> idle]
      /\ adds = 0 /\ calls = 0 /\ left = {}
  BY DEF Init
<1>2. \A c \in Clients : ~Differs(c)
  BY <1>1, IdleTyped DEF Differs
<1>3. TypeInv
  <2>1. redis \in [Keys -> Bitmap] /\ call \in [Clients -> Call]
    BY <1>1, AbsentTyped, IdleTyped
  <2>2. adds \in 0 .. MaxAdds /\ calls \in 0 .. MaxCalls /\ left \subseteq Keys
    BY <1>1, StoreAssumption
  <2>3. \A s \in Sets : Members(s) = {}
    BY <1>1, KeysKnown, AbsentTyped DEF Members
  <2> QED BY <1>2, <2>1, <2>2, <2>3 DEF TypeInv, TypeOK
<1>4. Owned
  BY <1>1, KeysKnown DEF Owned
<1> QED BY <1>2, <1>3, <1>4 DEF StoreInv, Sound, Complete

LEMMA StoreInvNext == StoreInv /\ [Next]_vars => StoreInv'
<1> SUFFICES ASSUME StoreInv, [Next]_vars PROVE StoreInv'
  OBVIOUS
<1>1. ASSUME NEW c \in Clients,
             \/ \E set \in Sets, id \in AddedIds : Add(c, set, id)
             \/ \E p \in Pairs : Difference(c, p[1], p[2])
             \/ ExpireAdded(c) \/ Pin(c) \/ Combine(c) \/ Fetch(c) \/ Cleanup(c)
             \/ CommandFails(c) \/ Crash(c)
      PROVE  StoreInv'
  <2>1. CASE \E set \in Sets, id \in AddedIds : Add(c, set, id)
    BY <2>1, AddKeeps
  <2>2. CASE \E p \in Pairs : Difference(c, p[1], p[2])
    <3>1. PICK p \in Pairs : Difference(c, p[1], p[2])
      BY <2>2
    <3>2. p = <<p[1], p[2]>>
      BY StoreAssumption
    <3> QED BY <3>1, <3>2, DifferenceKeeps
  <2>3. CASE ExpireAdded(c)
    BY <2>3, ExpireAddedKeeps
  <2>4. CASE Pin(c)
    BY <2>4, PinKeeps
  <2>5. CASE Combine(c)
    BY <2>5, CombineKeeps
  <2>6. CASE Fetch(c)
    BY <2>6, FetchKeeps
  <2>7. CASE Cleanup(c)
    BY <2>7, CleanupKeeps
  <2>8. CASE CommandFails(c)
    BY <2>8, CommandFailsKeeps
  <2>9. CASE Crash(c)
    BY <2>9, CrashKeeps
  <2> QED BY <1>1, <2>1, <2>2, <2>3, <2>4, <2>5, <2>6, <2>7, <2>8, <2>9
<1>2. CASE DropWindow
  BY <1>2, DropWindowKeeps
<1>3. CASE \E k \in Keys : KeyExpires(k)
  BY <1>3, KeyExpiresKeeps
<1>4. CASE UNCHANGED vars
  BY <1>4 DEF vars, StoreInv, TypeInv, TypeOK, Sound, Complete, Owned, Differs, Shares, Members,
               NotBits, DiffBits, Owes
<1> QED BY <1>1, <1>2, <1>3, <1>4 DEF Next

LEMMA StoreInvHolds == Spec => []StoreInv
BY StoreInvInit, StoreInvNext, PTL DEF Spec

-----------------------------------------------------------------------------
(* Theorems *)

\* The bitmaps, the calls and the answers keep their types: in particular no
\* bitmap is longer than the capacity, and no answer names an id outside it.
THEOREM StoreTypeCorrect == Spec => []TypeOK
<1>1. StoreInv => TypeOK
  BY DEF StoreInv, TypeInv
<1> QED BY <1>1, StoreInvHolds, PTL

\* redisbits.go:111-146: whatever other clients add, difference, delete, fail at
\* or leave behind, Difference never names an actor that is no member of the
\* minuend, or was in the subtrahend already when it was called.
THEOREM NobodyNamedFalsely == Spec => []NoFalseMember
<1>1. StoreInv => NoFalseMember
  <2> SUFFICES ASSUME StoreInv, NEW c \in Clients, Returned(c), call[c].kept
               PROVE  call[c].res \ {LastId} \subseteq Members(call[c].min) \ call[c].sub0
    BY DEF NoFalseMember
  <2>1. call[c].res \subseteq (Members(call[c].min) \ call[c].sub0) \cup {LastId}
    BY DEF StoreInv, Sound, Differs, Returned
  <2> QED BY <2>1
<1> QED BY <1>1, StoreInvHolds, PTL

\* redisbits.go:111-146: a call that shares its scratch keys with nobody names
\* every member of the minuend that is not justified by the time it returns.
THEOREM NobodyForgotten == Spec => []NoMemberLost
<1>1. StoreInv => NoMemberLost
  <2> SUFFICES ASSUME StoreInv, NEW c \in Clients, Returned(c), call[c].alone, call[c].kept
               PROVE  (call[c].min0 \ Members(call[c].sub)) \ {LastId} \subseteq call[c].res
    BY DEF NoMemberLost
  <2>1. call[c].min0 \subseteq call[c].res \cup Members(call[c].sub) \cup {LastId}
    BY DEF StoreInv, Complete, Differs, Returned
  <2> QED BY <2>1
<1> QED BY <1>1, StoreInvHolds, PTL

\* redisbits.go:55, 93, 129: a key without a TTL belongs to a call that will
\* delete it or give it one, or to one that crashed before it could; whatever
\* clients do to the same keys meanwhile, and whatever fails.
THEOREM KeysGo == Spec => []OnlyCrashesLeak
<1>1. StoreInv => OnlyCrashesLeak
  <2> SUFFICES ASSUME StoreInv, AllIdle, NEW k \in Keys
               PROVE  redis[k] = absent \/ redis[k].ttl \/ k \in left
    BY DEF OnlyCrashesLeak
  <2>1. \A c \in Clients : call[c].at = "idle"
    BY IdleTyped DEF AllIdle
  <2>2. \A c \in Clients : ~Owes(c, k)
    BY <2>1, OwedIs DEF Owes
  <2> QED BY <2>2 DEF StoreInv, Owned
<1> QED BY <1>1, StoreInvHolds, PTL

\* bitset.go:44-165: for sets of any content and capacity the word-wise
\* operations are those of sets, Has, Count and IsEmpty tell of the members, and
\* what is read from Redis, or written and read again, has the members it had.
THEOREM BitsAreSets == Spec => []BitsetAgrees
<1>1. ASSUME StoreInv, NEW p \in Pairs, NEW cap \in 1 .. Capacity + WordBits
      PROVE  LET a == B!FromBytes(GET(Key(p[1])), Capacity)
                 b == B!FromBytes(GET(Key(p[2])), cap)
                 inCap == {id \in Members(p[2]) : id < cap}
                 both  == B!Union(b, a)
                 inWords == {id \in Members(p[1]) : id < WordBits * B!Pieces(cap, WordBits)}
             IN  /\ B!Ids(B!Difference(a, b)) = Members(p[1]) \ inCap
                 /\ B!Ids(B!Intersect(a, b)) = Members(p[1]) \cap inCap
                 /\ B!Ids(both) = inWords \cup inCap
                 /\ B!ToBytes(both) = B!Panic <=> \E id \in inWords : id >= ByteBits * B!Pieces(cap, ByteBits)
                 /\ \A id \in 0 .. cap : B!Has(b, id) <=> id \in inCap
                 /\ B!Count(b) = Cardinality(inCap) /\ (B!IsEmpty(b) <=> inCap = {})
                 /\ B!FromBytes(B!ToBytes(b), cap) = b
                 /\ redis[Key(p[2])].len = Len(B!ToBytes(a)) /\ cap = Capacity =>
                       B!ToBytes(b) = GET(Key(p[2]))
  <2> DEFINE min == p[1]
             sub == p[2]
             F == Members(min)
             G == {id \in Members(sub) : id < cap}
             a == B!FromBytes(GET(Key(min)), Capacity)
             b == B!FromBytes(GET(Key(sub)), cap)
             inWords == {id \in F : id < WordBits * B!Pieces(cap, WordBits)}
             both == B!Union(b, a)
  <2>1. min \in Sets /\ sub \in Sets /\ cap \in Nat \ {0}
    BY Sizes, StoreAssumption
  <2> HIDE DEF min, sub
  <2>2. /\ redis[Key(min)] \in Bitmap /\ redis[Key(sub)] \in Bitmap
        /\ Members(min) \in SUBSET Space /\ Members(sub) \in SUBSET Space
    BY <1>1, <2>1, KeysKnown DEF StoreInv, TypeInv, TypeOK
  <2>3. \A q \in Space : q \in Nat /\ q < Capacity
    BY Sizes DEF Space
  <2>4. F \in SUBSET (0 .. Capacity - 1) /\ {id \in F : id < Capacity} = F
    <3>1. \A id \in F : id < Capacity
      BY <2>2, <2>3
    <3>2. {id \in F : id < Capacity} = F
      BY <3>1, Zenon
    <3> QED BY <2>2, <3>2 DEF Space
  <2>5. G \in SUBSET (0 .. cap - 1) /\ (cap = Capacity => G = Members(sub))
    BY <2>1, <2>2, <2>3
  <2>6. a = Packed(F, Capacity) /\ b = Packed(G, cap)
    BY <2>2, <2>4, BytesPacked DEF Members
  <2> HIDE DEF a, b, F, G, inWords, both
  <2>7. Capacity \in Nat \ {0} /\ F \in SUBSET (0 .. Capacity - 1) /\ G \in SUBSET (0 .. cap - 1)
    BY <2>4, <2>5, Sizes
  <2>8. /\ B!Ids(B!Difference(Packed(F, Capacity), Packed(G, cap))) = F \ G
        /\ B!Ids(B!Intersect(Packed(F, Capacity), Packed(G, cap))) = F \cap G
    BY <2>1, <2>7, AlgebraAgrees
  <2>9. B!Ids(B!Difference(a, b)) = F \ G
    BY <2>6, <2>8
  <2>10. B!Ids(B!Intersect(a, b)) = F \cap G
    BY <2>6, <2>8
  <2>11. /\ B!Ids(both) = inWords \cup G
         /\ B!ToBytes(both) = B!Panic <=> \E id \in inWords : id >= ByteBits * B!Pieces(cap, ByteBits)
    <3>0. /\ both.capacity = cap
          /\ \A q : q \in B!Ids(both) <=> q \in G \/ (q \in F /\ q < WordBits * B!Pieces(cap, WordBits))
      BY <2>1, <2>6, <2>7, AlgebraAgrees DEF both
    <3>1. B!Ids(both) = inWords \cup G
      BY <3>0 DEF inWords
    <3>2. B!Overruns(both) <=> \E id \in inWords : id >= ByteBits * B!Pieces(cap, ByteBits)
      <4>1. both.capacity = cap
        BY <3>0
      <4>2. B!Overruns(both) <=> \E id \in inWords \cup G : id \div ByteBits >= B!Pieces(cap, ByteBits)
        BY <3>1, <4>1 DEF B!Overruns
      <4>3. \A id \in G : id \in Nat /\ id < cap
        BY <2>1, <2>7
      <4>4. \A id \in inWords : id \in Nat
        BY <2>7 DEF inWords
      <4> QED BY <2>1, <4>2, <4>3, <4>4, BeyondBytes
    <3>3. B!ToBytes(both) = B!Panic <=> B!Overruns(both)
      <4> DEFINE n == B!Pieces(both.capacity, ByteBits)
                 byte(k) == B!Byte(B!Offsets(B!Ids(both), k, ByteBits))
      <4> HIDE DEF n, byte
      <4>1. B!ToBytes(both) = IF B!Overruns(both) THEN B!Panic ELSE [k \in 1 .. n |-> byte(k)]
        BY DEF B!ToBytes, n, byte
      <4>2. DOMAIN B!Panic = {0} /\ 0 \notin 1 .. n
        BY DEF B!Panic
      <4>3. DOMAIN [k \in 1 .. n |-> byte(k)] = 1 .. n
        OBVIOUS
      <4> QED BY <4>1, <4>2, <4>3
    <3> QED BY <3>1, <3>2, <3>3
  <2>12. \A id \in 0 .. cap : B!Has(b, id) <=> id \in G
    BY <2>1, <2>5, <2>6, PackedHas
  <2>13. B!Count(b) = Cardinality(G) /\ (B!IsEmpty(b) <=> G = {})
    BY <2>1, <2>5, <2>6, PackedCount, PackedEmpty
  <2>14. B!FromBytes(B!ToBytes(b), cap) = b
    BY <2>1, <2>5, <2>6, BytesBack
  <2>15. redis[Key(sub)].len = Len(B!ToBytes(a)) /\ cap = Capacity => B!ToBytes(b) = GET(Key(sub))
    <3> SUFFICES ASSUME redis[Key(sub)].len = Len(B!ToBytes(a)), cap = Capacity
                 PROVE  B!ToBytes(b) = GET(Key(sub))
      OBVIOUS
    <3>1. redis[Key(sub)].len = Full
      BY <2>4, <2>6, BytesOfPacked, Sizes DEF Full
    <3>2. b = Packed(redis[Key(sub)].bits, Capacity) /\ redis[Key(sub)].bits \subseteq Space
      BY <2>2, <2>5, <2>6 DEF Members
    <3> QED BY <2>2, <3>1, <3>2, BytesSame
  <2> QED BY <2>9, <2>10, <2>11, <2>12, <2>13, <2>14, <2>15 DEF a, b, F, G, min, sub, inWords, both
<1>2. StoreInv => BitsetAgrees
  BY <1>1 DEF BitsetAgrees
<1> QED BY <1>2, StoreInvHolds, PTL
=============================================================================
