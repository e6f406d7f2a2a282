---------------------------- MODULE IdMapProofs ----------------------------
(* The id map and its checksum, for every set of keys and of goroutines. *)
EXTENDS IdMap, FiniteSetsExt, FiniteSetTheorems, WellFoundedInduction, TLAPS

(* Induction over numbers *)

\* A nonempty set of numbers up to n has a greatest.
LEMMA GreatestOf ==
    ASSUME NEW n \in Nat, NEW s \in SUBSET (0 .. n), s # {}
    PROVE  Max(s) \in s /\ \A x \in s : x <= Max(s)
<1> DEFINE R == OpToRel(<, Nat)
           T == {m \in Nat : \E x \in s : m = n - x}
<1>1. IsWellFoundedOn(R, Nat)
  BY NatLessThanWellFounded, Zenon
<1>2. \A l, m \in Nat : l < m => <<l, m>> \in R
  BY DEF OpToRel
<1>3. T \subseteq Nat /\ T # {}
  <2>1. PICK z \in s : TRUE
    OBVIOUS
  <2>2. n - z \in T
    OBVIOUS
  <2> QED BY <2>2
<1> HIDE DEF R, T
<1>4. PICK t \in T : \A m \in T : ~(<<m, t>> \in R)
  BY <1>1, <1>3, WFMin
<1>5. \A m \in T : ~(m < t)
  BY <1>2, <1>3, <1>4
<1>6. PICK x \in s : t = n - x
  BY DEF T
<1>7. ASSUME NEW y \in s PROVE y <= x
  <2>1. n - y \in T
    BY DEF T
  <2>2. ~(n - y < n - x)
    BY <1>5, <1>6, <2>1
  <2> QED BY <2>2
<1> QED BY <1>7 DEF Max

\* A nonempty set of numbers has a least element.
LEMMA LeastOf ==
    ASSUME NEW T \in SUBSET Nat, T # {}
    PROVE  \E n \in T : \A m \in T : n <= m
<1> DEFINE R == OpToRel(<, Nat)
<1>1. IsWellFoundedOn(R, Nat)
  BY NatLessThanWellFounded, Zenon
<1>2. \A m, n \in Nat : m < n => <<m, n>> \in R
  BY DEF OpToRel
<1> HIDE DEF R
<1>3. PICK n \in T : \A m \in T : ~(<<m, n>> \in R)
  BY <1>1, WFMin
<1>4. \A m \in T : ~(m < n)
  BY <1>2, <1>3
<1> QED BY <1>4

\* Induction, for a property given as the set of what has it.
LEMMA AllNumbers ==
    ASSUME NEW T, \A n \in Nat : (\A m \in 0 .. n - 1 : m \in T) => n \in T
    PROVE  Nat \subseteq T
<1> SUFFICES ASSUME Nat \ T # {} PROVE FALSE
  OBVIOUS
<1>1. PICK n \in Nat \ T : \A m \in Nat \ T : n <= m
  BY LeastOf
<1>2. \A m \in 0 .. n - 1 : m \in T
  BY <1>1
<1> QED BY <1>2

-----------------------------------------------------------------------------
(* What Checksum hashes *)

Alphabet == Characters \cup Digits \cup {NUL}

LEMMA DigitIs == \A d : Digit(d) \in Digits /\ Digit(d) \in Alphabet /\ Digit(d) # NUL
<1>1. \A d : Digit(d) \in Digits
  BY DEF Digit, Digits
<1>2. NUL \notin Digits
  BY DEF Digits, NUL
<1> QED BY <1>1, <1>2 DEF Alphabet

LEMMA DecimalIs ==
    ASSUME NEW n \in Nat
    PROVE  /\ Decimal(n) \in Seq(Alphabet) /\ Len(Decimal(n)) \in Nat
           /\ \A i \in 1 .. Len(Decimal(n)) : Decimal(n)[i] # NUL
<1> DEFINE digit(k) == Digit((n \div 10^(Width(n) - k)) % 10)
           w == Width(n)
<1>1. w \in Nat
  <2> DEFINE S == {k \in 1 .. n : 10^k <= n}
  <2>1. IsFiniteSet(1 .. n)
    BY FS_Interval
  <2>2. S \in SUBSET (1 .. n)
    OBVIOUS
  <2> HIDE DEF S
  <2>3. IsFiniteSet(S)
    BY <2>1, <2>2, FS_Subset
  <2>4. Cardinality(S) \in Nat
    BY <2>3, FS_CardinalityType
  <2>5. w = 1 + Cardinality(S)
    BY DEF Width, S
  <2> HIDE DEF w
  <2> QED BY <2>4, <2>5
<1>2. \A k : digit(k) \in Alphabet /\ digit(k) # NUL
  BY DigitIs, Zenon
<1>3. Decimal(n) = [k \in 1 .. w |-> digit(k)]
  BY Zenon DEF Decimal
<1> HIDE DEF digit, w
<1>4. [k \in 1 .. w |-> digit(k)] \in Seq(Alphabet)
  BY <1>1, <1>2
<1>5. Len([k \in 1 .. w |-> digit(k)]) = w
  BY <1>1
<1> QED BY <1>1, <1>2, <1>3, <1>4, <1>5

LEMMA Joined ==
    ASSUME NEW A, NEW s \in Seq(A), NEW t \in Seq(A)
    PROVE  /\ s \o t \in Seq(A) /\ Len(s \o t) = Len(s) + Len(t)
           /\ \A i \in 1 .. Len(s) : (s \o t)[i] = s[i]
           /\ \A i \in 1 .. Len(t) : (s \o t)[Len(s) + i] = t[i]
<1>1. Len(s) \in Nat /\ Len(t) \in Nat
  OBVIOUS
<1>2. ASSUME NEW i \in 1 .. Len(t) PROVE (s \o t)[Len(s) + i] = t[i]
  <2> DEFINE k == Len(s) + i
  <2>1. k \in 1 .. Len(s) + Len(t) /\ k > Len(s) /\ k - Len(s) = i
    BY <1>1
  <2> HIDE DEF k
  <2>2. (s \o t)[k] = t[k - Len(s)]
    BY <1>1, <2>1
  <2> QED BY <2>1, <2>2 DEF k
<1> QED BY <1>2

\* How many characters a line has up to its first NUL.
Indent(id) == Len(Decimal(id)) + 1

\* Where a line has what.
LEMMA LineIs ==
    ASSUME NEW id \in Nat, NEW key \in Seq(Characters)
    PROVE  /\ Line(id, key) \in Seq(Alphabet) /\ Indent(id) \in Nat \ {0}
           /\ Len(Line(id, key)) = Indent(id) + Len(key) + 1
           /\ \A i \in 1 .. Indent(id) - 1 : Line(id, key)[i] # NUL
           /\ Line(id, key)[Indent(id)] = NUL
           /\ \A i \in 1 .. Len(key) : Line(id, key)[Indent(id) + i] = key[i]
           /\ Line(id, key)[Indent(id) + Len(key) + 1] = NUL
<1> DEFINE num == Decimal(id)
           last == <<NUL>>
           head == num \o last
           most == head \o key
           line == most \o last
           n == Len(key)
           d == Indent(id)
<1>1. /\ num \in Seq(Alphabet) /\ last \in Seq(Alphabet) /\ key \in Seq(Alphabet)
      /\ d = Len(num) + 1 /\ d \in Nat \ {0} /\ Len(num) \in Nat
      /\ \A i \in 1 .. Len(num) : num[i] # NUL
  <2>1. Characters \subseteq Alphabet /\ NUL \in Alphabet
    BY DEF Alphabet
  <2>2. num \in Seq(Alphabet) /\ Len(num) \in Nat /\ \A i \in 1 .. Len(num) : num[i] # NUL
    BY DecimalIs
  <2>3. last \in Seq(Alphabet) /\ key \in Seq(Alphabet)
    BY <2>1
  <2>4. d = Len(num) + 1
    BY DEF Indent
  <2> HIDE DEF num, last, d
  <2> QED BY <2>2, <2>3, <2>4
<1>2. Len(last) = 1 /\ last[1] = NUL /\ n \in Nat
  OBVIOUS
<1>3. line = Line(id, key)
  BY DEF Line
<1> HIDE DEF num, last, d
<1>4. /\ head \in Seq(Alphabet) /\ Len(head) = d /\ head[d] = NUL
      /\ \A i \in 1 .. d - 1 : head[i] # NUL
  <2>1. head \in Seq(Alphabet) /\ Len(head) = Len(num) + Len(last)
    BY <1>1, Joined
  <2>2. \A i \in 1 .. Len(num) : head[i] = num[i]
    BY <1>1, Joined
  <2>3. \A i \in 1 .. Len(last) : head[Len(num) + i] = last[i]
    BY <1>1, Joined
  <2> HIDE DEF head
  <2>4. head[d] = NUL
    BY <1>1, <1>2, <2>3
  <2> QED BY <1>1, <1>2, <2>1, <2>2, <2>4
<1> HIDE DEF head
<1>5. /\ most \in Seq(Alphabet) /\ Len(most) = d + n
      /\ \A i \in 1 .. d : most[i] = head[i]
      /\ \A i \in 1 .. n : most[d + i] = key[i]
  <2>1. head \in Seq(Alphabet) /\ key \in Seq(Alphabet)
    BY <1>1, <1>4
  <2>2. most \in Seq(Alphabet) /\ Len(most) = Len(head) + n
    BY <2>1, Joined
  <2>3. \A i \in 1 .. n : most[Len(head) + i] = key[i]
    BY <2>1, Joined
  <2>4. \A i \in 1 .. Len(head) : most[i] = head[i]
    BY <2>1, Joined
  <2> QED BY <1>4, <2>2, <2>3, <2>4
<1> HIDE DEF most, n
<1>6. /\ line \in Seq(Alphabet) /\ Len(line) = d + n + 1
      /\ line[d + n + 1] = NUL
      /\ \A i \in 1 .. d + n : line[i] = most[i]
  <2>1. most \in Seq(Alphabet) /\ last \in Seq(Alphabet)
    BY <1>1, <1>5
  <2>2. line \in Seq(Alphabet) /\ Len(line) = Len(most) + Len(last)
    BY <2>1, Joined
  <2>3. \A i \in 1 .. Len(last) : line[Len(most) + i] = last[i]
    BY <2>1, Joined
  <2>4. \A i \in 1 .. Len(most) : line[i] = most[i]
    BY <2>1, Joined
  <2> HIDE DEF line
  <2> QED BY <1>2, <1>5, <2>2, <2>3, <2>4
<1> HIDE DEF line
<1>7. ASSUME NEW i \in 1 .. n PROVE line[d + i] = key[i]
  <2>1. d + i \in 1 .. d + n
    BY <1>1, <1>2
  <2> QED BY <1>5, <1>6, <2>1
<1>8. ASSUME NEW i \in 1 .. d PROVE line[i] = head[i]
  <2>1. i \in 1 .. d + n
    BY <1>1, <1>2
  <2> QED BY <1>5, <1>6, <1>8, <2>1
<1>9. line[d] = NUL /\ \A i \in 1 .. d - 1 : line[i] # NUL
  BY <1>1, <1>4, <1>8
<1> QED BY <1>1, <1>3, <1>6, <1>7, <1>9 DEF n, d

-----------------------------------------------------------------------------
(* The lines, one after the other *)

LinesOf(rev) == [i \in 1 .. Len(rev) |-> Line(i - 1, rev[i])]

\* f has what the first lines make.
Concatenates(f, rev, n) ==
    f = [i \in 1 .. n |-> IF i = 1 THEN LinesOf(rev)[i] ELSE f[i - 1] \o LinesOf(rev)[i]]

LEMMA EncodeIs ==
    ASSUME NEW rev \in Seq(Seq(Characters)), rev # <<>>
    PROVE  Encode(rev) = (CHOOSE f : Concatenates(f, rev, Len(rev)))[Len(rev)]
<1> DEFINE lines == LinesOf(rev)
           flat(f) == f = [i \in 1 .. Len(lines) |-> IF i = 1 THEN lines[i] ELSE f[i - 1] \o lines[i]]
<1>1. Len(rev) \in Nat /\ DOMAIN rev = 1 .. Len(rev) /\ Len(rev) # 0
  OBVIOUS
<1>2. lines = [i \in DOMAIN rev |-> Line(i - 1, rev[i])]
  BY <1>1 DEF LinesOf
<1>3. Len(lines) = Len(rev)
  <2> DEFINE n == Len(rev)
             line(i) == Line(i - 1, rev[i])
  <2>1. lines = [i \in 1 .. n |-> line(i)] /\ n \in Nat
    BY <1>1 DEF LinesOf
  <2> HIDE DEF lines, n, line
  <2>2. Len(lines) = n
    BY <2>1
  <2> QED BY <2>2 DEF n
<1>4. Encode(rev) = FlattenSeq(lines)
  BY <1>2 DEF Encode
<1> HIDE DEF lines
<1>5. Encode(rev) = (CHOOSE f : flat(f))[Len(lines)]
  BY <1>1, <1>3, <1>4 DEF FlattenSeq
<1>6. \A f : flat(f) <=> Concatenates(f, rev, Len(rev))
  BY <1>3, Zenon DEF Concatenates, lines
<1> HIDE DEF flat
<1> QED BY <1>3, <1>5, <1>6

LEMMA ConcatenationExists ==
    ASSUME NEW rev, NEW n \in Nat
    PROVE  \E f : Concatenates(f, rev, n)
<1> DEFINE D == {k \in 0 .. n : \E f : Concatenates(f, rev, k)}
           value(i, f) == IF i = 1 THEN LinesOf(rev)[i] ELSE f[i - 1] \o LinesOf(rev)[i]
<1>1. 0 \in D
  <2> DEFINE f == [i \in 1 .. 0 |-> 0]
  <2>1. f = [i \in 1 .. 0 |-> value(i, f)]
    <3> HIDE DEF value
    <3>1. 1 .. 0 = {}
      OBVIOUS
    <3> QED BY <3>1
  <2> HIDE DEF f
  <2>2. Concatenates(f, rev, 0)
    BY <2>1, Zenon DEF Concatenates
  <2> QED BY <2>2
<1>2. D \in SUBSET (0 .. n) /\ D # {}
  BY <1>1
<1> HIDE DEF D
<1>3. Max(D) \in D /\ \A k \in D : k <= Max(D)
  BY <1>2, GreatestOf
<1> DEFINE m == Max(D)
<1>4. m \in 0 .. n /\ \E f : Concatenates(f, rev, m)
  BY <1>3 DEF D
<1>5. PICK f : Concatenates(f, rev, m)
  BY <1>4
<1>6. m + 1 \notin D
  BY <1>3, <1>4
<1> HIDE DEF m
<1>7. CASE m = n
  BY <1>5, <1>7
<1>8. CASE m # n
  <2> DEFINE z == m + 1
             long == [i \in 1 .. z |-> value(i, f)]
  <2>1. m \in Nat /\ z \in 0 .. n /\ z \in Nat /\ \A i \in 1 .. z : i = 1 \/ i - 1 \in 1 .. m
    BY <1>4, <1>8
  <2>2. \A i \in 1 .. m : f[i] = value(i, f) /\ i \in 1 .. z
    <3>1. f = [i \in 1 .. m |-> value(i, f)]
      BY <1>5, Zenon DEF Concatenates
    <3> HIDE DEF value
    <3> QED BY <2>1, <3>1
  <2> HIDE DEF z
  <2>3. \A i \in 1 .. m : long[i] = f[i]
    <3> HIDE DEF value
    <3> QED BY <2>2
  <2>4. long = [i \in 1 .. z |-> value(i, f)]
    OBVIOUS
  <2> HIDE DEF long
  <2>5. \A i \in 1 .. z : value(i, f) = value(i, long)
    <3> SUFFICES ASSUME NEW i \in 1 .. z, i # 1 PROVE value(i, f) = value(i, long)
      BY Zenon
    <3>1. long[i - 1] = f[i - 1]
      BY <2>1, <2>3
    <3> QED BY <3>1, Zenon
  <2>6. long = [i \in 1 .. z |-> value(i, long)]
    <3> HIDE DEF value
    <3> QED BY <2>4, <2>5
  <2>7. Concatenates(long, rev, z)
    BY <2>6, Zenon DEF Concatenates
  <2>8. z \in D
    BY <2>1, <2>7 DEF D
  <2> QED BY <1>6, <2>8 DEF z
<1> QED BY <1>7, <1>8

\* What stands before the i-th line.
Before(f, i) == IF i = 1 THEN <<>> ELSE f[i - 1]

\* What the lines make, one by one.
LEMMA ConcatenationIs ==
    ASSUME NEW rev \in Seq(Seq(Characters)), NEW f, Concatenates(f, rev, Len(rev))
    PROVE  \A i \in 1 .. Len(rev) :
              /\ Before(f, i) \in Seq(Alphabet) /\ f[i] \in Seq(Alphabet)
              /\ f[i] = Before(f, i) \o Line(i - 1, rev[i])
<1> DEFINE n == Len(rev)
           line(i) == Line(i - 1, rev[i])
           good(i) == /\ Before(f, i) \in Seq(Alphabet) /\ f[i] \in Seq(Alphabet)
                      /\ f[i] = Before(f, i) \o line(i)
           D == {k \in Nat : k \in 1 .. n => good(k)}
<1>1. n \in Nat
  OBVIOUS
<1>2. ASSUME NEW i \in 1 .. n PROVE line(i) \in Seq(Alphabet) /\ LinesOf(rev)[i] = line(i)
  <2>1. i - 1 \in Nat /\ rev[i] \in Seq(Characters)
    OBVIOUS
  <2> QED BY <2>1, LineIs DEF LinesOf
<1>3. ASSUME NEW i \in 1 .. n PROVE f[i] = IF i = 1 THEN line(i) ELSE f[i - 1] \o line(i)
  <2> DEFINE value(j) == IF j = 1 THEN LinesOf(rev)[j] ELSE f[j - 1] \o LinesOf(rev)[j]
  <2>1. f = [j \in 1 .. n |-> value(j)]
    BY Zenon DEF Concatenates
  <2>2. f[i] = value(i)
    <3> HIDE DEF value, n
    <3> QED BY <2>1
  <2> QED BY <1>2, <2>2, Zenon
<1> HIDE DEF line
<1>4. ASSUME NEW k \in Nat, \A j \in 0 .. k - 1 : j \in D PROVE k \in D
  <2> SUFFICES ASSUME k \in 1 .. n PROVE good(k)
    OBVIOUS
  <2>1. CASE k = 1
    <3>1. Before(f, k) = <<>> /\ f[k] = line(k)
      BY <1>3, <2>1 DEF Before
    <3>2. <<>> \o line(k) = line(k) /\ <<>> \in Seq(Alphabet)
      BY <1>2
    <3> QED BY <1>2, <3>1, <3>2
  <2>2. CASE k # 1
    <3> DEFINE j == k - 1
    <3>1. j \in 0 .. k - 1 /\ j \in 1 .. n /\ j \in Nat
      BY <1>1, <2>2
    <3>2. f[j] \in Seq(Alphabet)
      BY <1>4, <3>1
    <3>3. Before(f, k) = f[j] /\ f[k] = f[j] \o line(k)
      BY <1>3, <2>2 DEF Before
    <3> HIDE DEF j
    <3>4. f[j] \o line(k) \in Seq(Alphabet)
      BY <1>2, <3>2, Joined
    <3> QED BY <3>2, <3>3, <3>4
  <2> QED BY <2>1, <2>2
<1> HIDE DEF D
<1>5. Nat \subseteq D
  BY <1>4, AllNumbers
<1>6. \A i \in 1 .. n : good(i)
  BY <1>5 DEF D
<1> QED BY <1>6 DEF line

LEMMA LineNotEmpty ==
    ASSUME NEW id \in Nat, NEW key \in Seq(Characters)
    PROVE  Len(Line(id, key)) \in Nat /\ Len(Line(id, key)) >= 1
<1>1. Len(Line(id, key)) = Indent(id) + Len(key) + 1 /\ Indent(id) \in Nat
  BY LineIs
<1>2. Len(key) \in Nat
  OBVIOUS
<1> QED BY <1>1, <1>2

LEMMA SameSequence ==
    ASSUME NEW A, NEW s \in Seq(A), NEW t \in Seq(A), Len(s) = Len(t),
           \A i \in 1 .. Len(s) : s[i] = t[i]
    PROVE  s = t
OBVIOUS

\* What is written stays.
LEMMA PrefixesStay ==
    ASSUME NEW rev \in Seq(Seq(Characters)), NEW f, Concatenates(f, rev, Len(rev)),
           NEW i \in 1 .. Len(rev)
    PROVE  /\ Len(f[i]) \in Nat /\ Len(f[Len(rev)]) \in Nat /\ Len(f[i]) <= Len(f[Len(rev)])
           /\ \A k \in 1 .. Len(f[i]) : f[Len(rev)][k] = f[i][k]
<1> DEFINE n == Len(rev)
           m == Len(f[i])
           good(j) == m <= Len(f[j]) /\ \A k \in 1 .. m : f[j][k] = f[i][k]
           D == {j \in Nat : j \in i .. n => good(j)}
<1>1. n \in Nat /\ i \in Nat
  OBVIOUS
<1>2. \A j \in 1 .. n : f[j] \in Seq(Alphabet) /\ Len(f[j]) \in Nat
  <2>1. \A j \in 1 .. n : f[j] \in Seq(Alphabet)
    BY ConcatenationIs
  <2> QED BY <2>1
<1>3. m \in Nat
  BY <1>2
<1> HIDE DEF m
<1>4. ASSUME NEW j \in Nat, \A l \in 0 .. j - 1 : l \in D PROVE j \in D
  <2> SUFFICES ASSUME j \in i .. n PROVE good(j)
    OBVIOUS
  <2>1. CASE j = i
    BY <1>2, <1>3, <2>1 DEF m
  <2>2. CASE j # i
    <3> DEFINE l == j - 1
               line == Line(j - 1, rev[j])
    <3>1. l \in 0 .. j - 1 /\ l \in i .. n /\ l \in 1 .. n /\ l \in Nat /\ j \in 1 .. n /\ j # 1
      BY <1>1, <2>2
    <3>2. good(l)
      BY <1>4, <3>1
    <3>3. f[j] = f[l] \o line
      BY <3>1, ConcatenationIs DEF Before
    <3>4. f[l] \in Seq(Alphabet) /\ line \in Seq(Alphabet)
      <4>1. j - 1 \in Nat /\ rev[j] \in Seq(Characters)
        BY <3>1
      <4> QED BY <1>2, <3>1, <4>1, LineIs
    <3> HIDE DEF l, line
    <3>5. Len(f[j]) = Len(f[l]) + Len(line) /\ Len(line) \in Nat /\ Len(f[l]) \in Nat
      <4>1. Len(line) \in Nat /\ Len(f[l]) \in Nat
        BY <3>4
      <4> QED BY <3>3, <3>4, <4>1, Joined
    <3>6. \A k \in 1 .. Len(f[l]) : f[j][k] = f[l][k]
      BY <3>3, <3>4, Joined
    <3>7. m <= Len(f[l]) /\ m <= Len(f[j])
      BY <1>3, <3>2, <3>5
    <3>8. \A k \in 1 .. m : f[j][k] = f[i][k]
      <4> SUFFICES ASSUME NEW k \in 1 .. m PROVE f[j][k] = f[i][k]
        OBVIOUS
      <4>1. k \in 1 .. Len(f[l])
        BY <1>3, <3>5, <3>7
      <4>2. f[j][k] = f[l][k]
        BY <3>6, <4>1
      <4> QED BY <3>2, <4>2
    <3> QED BY <3>7, <3>8
  <2> QED BY <2>1, <2>2
<1> HIDE DEF D
<1>5. Nat \subseteq D
  BY <1>4, AllNumbers
<1>6. good(n)
  BY <1>1, <1>5 DEF D
<1> QED BY <1>1, <1>2, <1>3, <1>6 DEF m

\* One line more.
LEMMA NextLine ==
    ASSUME NEW rev \in Seq(Seq(Characters)), NEW f, Concatenates(f, rev, Len(rev)),
           NEW i \in 1 .. Len(rev)
    PROVE  \A k \in Nat \ {0} : k <= Len(Line(i - 1, rev[i])) =>
              /\ Len(Before(f, i)) + k \in Nat \ {0}
              /\ Len(Before(f, i)) + k <= Len(f[Len(rev)])
              /\ f[Len(rev)][Len(Before(f, i)) + k] = Line(i - 1, rev[i])[k]
<1> DEFINE b == Before(f, i)
           line == Line(i - 1, rev[i])
           e == f[Len(rev)]
           g == f[i]
<1>1. b \in Seq(Alphabet) /\ g = b \o line
  BY ConcatenationIs
<1>2. line \in Seq(Alphabet)
  <2>1. i - 1 \in Nat /\ rev[i] \in Seq(Characters)
    OBVIOUS
  <2> QED BY <2>1, LineIs
<1>3. Len(g) \in Nat /\ Len(e) \in Nat /\ Len(g) <= Len(e) /\ \A k \in 1 .. Len(g) : e[k] = g[k]
  BY PrefixesStay
<1> HIDE DEF b, line, e, g
<1>4. Len(b) \in Nat /\ Len(line) \in Nat
  BY <1>1, <1>2
<1>5. Len(g) = Len(b) + Len(line)
  BY <1>1, <1>2, Joined
<1>6. \A k \in 1 .. Len(line) : g[Len(b) + k] = line[k]
  BY <1>1, <1>2, Joined
<1>7. ASSUME NEW k \in Nat \ {0}, k <= Len(line)
      PROVE  Len(b) + k \in Nat \ {0} /\ Len(b) + k <= Len(e) /\ e[Len(b) + k] = line[k]
  <2>1. k \in 1 .. Len(line) /\ Len(b) + k \in 1 .. Len(g) /\ Len(b) + k <= Len(e)
    BY <1>3, <1>4, <1>5, <1>7
  <2> QED BY <1>3, <1>4, <1>6, <2>1
<1> QED BY <1>7 DEF b, line, e

\* A line ends with a NUL.
LEMMA LineEnds ==
    ASSUME NEW rev \in Seq(Seq(Characters)), NEW f, Concatenates(f, rev, Len(rev)),
           NEW i \in 1 .. Len(rev)
    PROVE  /\ Len(Before(f, i)) \in Nat /\ Len(Line(i - 1, rev[i])) \in Nat
           /\ Len(f[i]) = Len(Before(f, i)) + Len(Line(i - 1, rev[i]))
           /\ f[Len(rev)][Len(f[i])] = NUL
<1> DEFINE b == Before(f, i)
           line == Line(i - 1, rev[i])
<1>1. b \in Seq(Alphabet) /\ f[i] = b \o line
  BY ConcatenationIs
<1>2. i - 1 \in Nat /\ rev[i] \in Seq(Characters) /\ Len(rev[i]) \in Nat
  OBVIOUS
<1>3. line \in Seq(Alphabet)
  BY <1>2, LineIs
<1>4. Len(line) = Indent(i - 1) + Len(rev[i]) + 1 /\ Indent(i - 1) \in Nat
      /\ line[Indent(i - 1) + Len(rev[i]) + 1] = NUL
  BY <1>2, LineIs
<1>5. \A k \in Nat \ {0} : k <= Len(line) => f[Len(rev)][Len(b) + k] = line[k]
  BY NextLine
<1> HIDE DEF b, line
<1>6. Len(b) \in Nat /\ Len(line) \in Nat \ {0} /\ line[Len(line)] = NUL
  <2>1. Len(b) \in Nat
    BY <1>1
  <2> QED BY <1>2, <1>4, <2>1
<1>7. Len(f[i]) = Len(b) + Len(line)
  BY <1>1, <1>3, Joined
<1>8. f[Len(rev)][Len(b) + Len(line)] = NUL
  <2> DEFINE k == Len(line)
  <2>1. k \in Nat \ {0} /\ k <= k /\ line[k] = NUL
    BY <1>6
  <2> HIDE DEF k
  <2>2. f[Len(rev)][Len(b) + k] = NUL
    <3>1. k <= Len(line)
      BY <2>1 DEF k
    <3> QED BY <1>5, <2>1, <3>1
  <2> QED BY <2>2 DEF k
<1> QED BY <1>6, <1>7, <1>8 DEF b, line

\* More lines are a longer text.
LEMMA MoreLines ==
    ASSUME NEW rev \in Seq(Seq(Characters)), NEW f, Concatenates(f, rev, Len(rev)),
           NEW m \in 1 .. Len(rev), m # Len(rev)
    PROVE  Len(f[m]) < Len(f[Len(rev)])
<1> DEFINE n == Len(rev)
           i == m + 1
<1>1. i \in 1 .. n /\ i # 1 /\ i - 1 = m /\ i - 1 \in Nat
  OBVIOUS
<1>2. Before(f, i) = f[m]
  BY <1>1 DEF Before
<1>3. rev[i] \in Seq(Characters)
  BY <1>1
<1>4. Len(Line(i - 1, rev[i])) >= 1
  BY <1>1, <1>3, LineNotEmpty
<1>5. \A k \in Nat \ {0} : k <= Len(Line(i - 1, rev[i])) => Len(Before(f, i)) + k <= Len(f[n])
  BY <1>1, NextLine
<1>6. Len(f[m]) \in Nat /\ Len(f[n]) \in Nat
  BY PrefixesStay
<1> HIDE DEF i
<1>7. Len(f[m]) + 1 <= Len(f[n])
  BY <1>2, <1>4, <1>5
<1> QED BY <1>6, <1>7

LEMMA EncodedBy ==
    ASSUME NEW rev \in Seq(Seq(Characters)), rev # <<>>
    PROVE  \E f : Concatenates(f, rev, Len(rev)) /\ Encode(rev) = f[Len(rev)]
<1>1. Len(rev) \in Nat
  OBVIOUS
<1>2. \E f : Concatenates(f, rev, Len(rev))
  BY <1>1, ConcatenationExists
<1> DEFINE f == CHOOSE f : Concatenates(f, rev, Len(rev))
<1>3. Concatenates(f, rev, Len(rev))
  BY <1>2
<1>4. Encode(rev) = f[Len(rev)]
  BY EncodeIs
<1> HIDE DEF f
<1> QED BY <1>3, <1>4


\* The NULs of a line whose key has none: at the end, and one before.
LEMMA NulsOfLine ==
    ASSUME NEW id \in Nat, NEW key \in Seq(Characters), NUL \notin ToSet(key)
    PROVE  \A k \in Nat \ {0} : k < Len(Line(id, key)) /\ Line(id, key)[k] = NUL => k = Indent(id)
<1> DEFINE d == Indent(id)
           line == Line(id, key)
           n == Len(key)
<1>1. /\ d \in Nat \ {0} /\ Len(line) = d + n + 1
      /\ \A i \in 1 .. d - 1 : line[i] # NUL
      /\ \A i \in 1 .. n : line[d + i] = key[i]
  BY LineIs
<1>2. n \in Nat /\ \A i \in 1 .. n : key[i] # NUL
  BY DEF ToSet
<1> HIDE DEF d, line, n
<1>3. ASSUME NEW k \in Nat \ {0}, k < Len(line), line[k] = NUL PROVE k = d
  <2>1. ~(k < d)
    BY <1>1, <1>3
  <2>2. ~(k > d)
    <3> SUFFICES ASSUME k > d PROVE FALSE
      OBVIOUS
    <3> DEFINE i == k - d
    <3>1. i \in 1 .. n /\ d + i = k
      BY <1>1, <1>2, <1>3
    <3> HIDE DEF i
    <3>2. line[d + i] = key[i] /\ key[i] # NUL
      BY <1>1, <1>2, <3>1
    <3> QED BY <1>3, <3>1, <3>2
  <2> QED BY <1>1, <2>1, <2>2
<1> QED BY <1>3 DEF d, line

\* Of two lines of one id that agree where both have characters, one of a key
\* without NULs is not the longer one, and only the other's if they are as long.
LEMMA LinesDecide ==
    ASSUME NEW id \in Nat, NEW key \in Seq(Characters), NEW other \in Seq(Characters),
           NUL \notin ToSet(key),
           \A k \in Nat \ {0} : k <= Len(Line(id, key)) /\ k <= Len(Line(id, other)) =>
               Line(id, key)[k] = Line(id, other)[k]
    PROVE  /\ Len(Line(id, key)) <= Len(Line(id, other))
           /\ Len(Line(id, key)) = Len(Line(id, other)) => key = other
<1> DEFINE d == Indent(id)
           one(k) == Line(id, key)[k]
           two(k) == Line(id, other)[k]
           m == Len(key)
           n == Len(other)
<1>1. m \in Nat /\ n \in Nat /\ d \in Nat \ {0}
  <2>1. d \in Nat \ {0}
    BY LineIs
  <2>2. m \in Nat /\ n \in Nat
    OBVIOUS
  <2> QED BY <2>1, <2>2
<1>2. /\ Len(Line(id, key)) = d + m + 1
      /\ \A i \in 1 .. m : one(d + i) = key[i]
      /\ \A k \in Nat \ {0} : k < d + m + 1 /\ one(k) = NUL => k = d
  <2>1. Len(Line(id, key)) = d + m + 1
    BY LineIs
  <2>2. \A i \in 1 .. m : one(d + i) = key[i]
    BY LineIs
  <2>3. \A k \in Nat \ {0} : k < Len(Line(id, key)) /\ one(k) = NUL => k = d
    BY NulsOfLine
  <2> HIDE DEF one, d, m
  <2> QED BY <2>1, <2>2, <2>3
<1>3. /\ Len(Line(id, other)) = d + n + 1 /\ two(d + n + 1) = NUL
      /\ \A i \in 1 .. n : two(d + i) = other[i]
  <2>1. Len(Line(id, other)) = d + n + 1 /\ two(d + n + 1) = NUL
    BY LineIs
  <2>2. \A i \in 1 .. n : two(d + i) = other[i]
    BY LineIs
  <2> QED BY <2>1, <2>2
<1>4. \A k \in Nat \ {0} : k <= d + m + 1 /\ k <= d + n + 1 => one(k) = two(k)
  BY <1>2, <1>3
<1> HIDE DEF d, one, two, m, n
<1>5. ~(n < m)
  <2> SUFFICES ASSUME n < m PROVE FALSE
    OBVIOUS
  <2> DEFINE k == d + n + 1
  <2>1. /\ k \in Nat \ {0} /\ k < d + m + 1 /\ k <= d + n + 1 /\ k # d
        /\ k <= d + m + 1 /\ two(k) = NUL
    BY <1>1, <1>3
  <2> HIDE DEF k
  <2>2. one(k) = two(k)
    BY <1>4, <2>1
  <2> QED BY <1>2, <2>1, <2>2
<1>6. ASSUME m = n PROVE key = other
  <2>1. \A i \in 1 .. m : key[i] = other[i]
    <3> SUFFICES ASSUME NEW i \in 1 .. m PROVE key[i] = other[i]
      OBVIOUS
    <3>1. d + i \in Nat \ {0} /\ d + i <= d + m + 1
      BY <1>1
    <3> QED BY <1>2, <1>3, <1>4, <1>6, <3>1
  <2> QED BY <1>6, <2>1, SameSequence DEF m, n
<1> QED BY <1>1, <1>2, <1>3, <1>5, <1>6

\* A text of as many lines as the other or fewer, of keys without NULs, is not
\* the other's: the i-th line of the one ends at the 2i-th NUL, that of the
\* other not before.
LEMMA EncodeSeparates ==
    ASSUME NEW r \in Seq(Seq(Characters)), NEW s \in Seq(Seq(Characters)), Encode(r) = Encode(s),
           r # <<>>, s # <<>>, Len(r) <= Len(s), Clean(r)
    PROVE  r = s
<1> DEFINE m == Len(r)
           n == Len(s)
<1>1. m \in Nat /\ n \in Nat /\ m # 0 /\ n # 0 /\ m <= n
  OBVIOUS
<1>2. PICK f : Concatenates(f, r, Len(r)) /\ Encode(r) = f[Len(r)]
  BY EncodedBy
<1>3. PICK g : Concatenates(g, s, Len(s)) /\ Encode(s) = g[Len(s)]
  BY EncodedBy
<1>4. f[m] = g[n]
  BY <1>2, <1>3
<1> DEFINE e == f[m]
           good(i) == /\ Len(f[i]) <= Len(g[i])
                      /\ Len(f[i]) = Len(g[i]) => \A j \in 1 .. i : r[j] = s[j]
           D == {i \in Nat : i \in 1 .. m => good(i)}
<1>5. ASSUME NEW i \in Nat, \A j \in 0 .. i - 1 : j \in D PROVE i \in D
  <2> SUFFICES ASSUME i \in 1 .. m PROVE good(i)
    OBVIOUS
  <2> DEFINE a == Len(Before(f, i))
             b == Len(Before(g, i))
             one == Line(i - 1, r[i])
             two == Line(i - 1, s[i])
             d == Indent(i - 1)
  <2>1. i \in 1 .. Len(r) /\ i \in 1 .. Len(s) /\ i - 1 \in Nat
        /\ r[i] \in Seq(Characters) /\ s[i] \in Seq(Characters)
    BY <1>1
  <2>2. NUL \notin ToSet(r[i])
    BY <2>1 DEF Clean
  <2>3. /\ a \in Nat /\ Len(one) \in Nat /\ Len(f[i]) = a + Len(one)
    BY <1>2, <2>1, LineEnds
  <2>4. /\ b \in Nat /\ Len(two) \in Nat /\ Len(g[i]) = b + Len(two)
    BY <1>3, <2>1, LineEnds
  <2>5. \A k \in Nat \ {0} : k <= Len(one) => e[a + k] = one[k]
    BY <1>2, <2>1, NextLine
  <2>6. \A k \in Nat \ {0} : k <= Len(two) => e[b + k] = two[k]
    <3>1. \A k \in Nat \ {0} : k <= Len(two) => g[n][b + k] = two[k]
      BY <1>3, <2>1, NextLine
    <3> QED BY <1>4, <3>1
  <2>7. /\ a <= b
        /\ a = b => \A j \in 1 .. i - 1 : r[j] = s[j]
        /\ a < b => e[b] = NUL
    <3>1. CASE i = 1
      <4>1. a = 0 /\ b = 0 /\ i - 1 = 0
        BY <3>1 DEF Before
      <4> HIDE DEF a, b
      <4> QED BY <4>1
    <3>2. CASE i # 1
      <4> DEFINE j == i - 1
      <4>1. j \in 0 .. i - 1 /\ j \in 1 .. m /\ j \in 1 .. Len(s)
        BY <1>1, <3>2
      <4>2. a = Len(f[j]) /\ b = Len(g[j])
        BY <3>2 DEF Before
      <4>3. good(j)
        BY <1>5, <4>1
      <4>4. e[b] = NUL
        <5>1. g[n][Len(g[j])] = NUL
          BY <1>3, <4>1, LineEnds
        <5> QED BY <1>4, <4>2, <5>1
      <4> HIDE DEF a, b, e
      <4> QED BY <4>2, <4>3, <4>4
    <3> QED BY <3>1, <3>2
  <2>8. d \in Nat \ {0} /\ two[d] = NUL /\ d < Len(two)
    <3>1. d \in Nat \ {0} /\ two[d] = NUL /\ Len(two) = d + Len(s[i]) + 1
      BY <2>1, LineIs
    <3>2. Len(s[i]) \in Nat
      BY <2>1
    <3> HIDE DEF d, two
    <3> QED BY <3>1, <3>2
  <2>9. \A k \in Nat \ {0} : k < Len(one) /\ one[k] = NUL => k = d
    BY <2>1, <2>2, NulsOfLine
  <2>10. CASE a = b
    <3>1. \A k \in Nat \ {0} : k <= Len(one) /\ k <= Len(two) => one[k] = two[k]
      <4> HIDE DEF one, two, a, b, e
      <4> QED BY <2>5, <2>6, <2>10
    <3>2. Len(one) <= Len(two) /\ (Len(one) = Len(two) => r[i] = s[i])
      BY <2>1, <2>2, <3>1, LinesDecide
    <3> HIDE DEF one, two, a, b, e
    <3>3. Len(f[i]) <= Len(g[i]) /\ (Len(f[i]) = Len(g[i]) => Len(one) = Len(two))
      BY <2>3, <2>4, <2>10, <3>2
    <3>4. \A j \in 1 .. i : j \in 1 .. i - 1 \/ j = i
      BY <2>1
    <3> QED BY <2>7, <2>10, <3>2, <3>3, <3>4
  <2>11. CASE a < b
    <3> HIDE DEF one, two, a, b, e, d
    <3> SUFFICES ASSUME Len(f[i]) >= Len(g[i]) PROVE FALSE
      BY <2>3, <2>4
    <3> DEFINE k == b - a
               l == b + d - a
    <3>1. /\ k \in Nat \ {0} /\ l \in Nat \ {0} /\ k # l /\ a + k = b /\ a + l = b + d
          /\ k < Len(one) /\ l < Len(one)
      BY <2>3, <2>4, <2>8, <2>11
    <3>2. one[k] = e[b] /\ one[l] = e[b + d]
      <4> HIDE DEF k, l
      <4>1. k <= Len(one) /\ l <= Len(one)
        BY <2>3, <3>1
      <4>2. one[k] = e[a + k] /\ one[l] = e[a + l]
        BY <2>5, <3>1, <4>1
      <4> QED BY <3>1, <4>2
    <3>3. e[b + d] = NUL
      <4>1. d <= Len(two)
        BY <2>4, <2>8
      <4> QED BY <2>6, <2>8, <4>1
    <3> HIDE DEF k, l
    <3>4. k = d /\ l = d
      BY <2>7, <2>9, <2>11, <3>1, <3>2, <3>3
    <3> QED BY <3>1, <3>4
  <2> HIDE DEF a, b
  <2> QED BY <2>3, <2>4, <2>7, <2>10, <2>11
<1> HIDE DEF D
<1>6. Nat \subseteq D
  BY <1>5, AllNumbers
<1>7. good(m)
  <2>1. m \in D /\ m \in 1 .. m
    BY <1>1, <1>6
  <2> QED BY <2>1 DEF D
<1>8. /\ Len(g[m]) \in Nat /\ Len(g[n]) \in Nat /\ Len(g[m]) <= Len(g[n])
      /\ Len(f[m]) = Len(g[n])
  <2>1. m \in 1 .. Len(s)
    BY <1>1
  <2>2. Len(g[m]) \in Nat /\ Len(g[Len(s)]) \in Nat /\ Len(g[m]) <= Len(g[Len(s)])
    BY <1>3, <2>1, PrefixesStay
  <2> QED BY <1>4, <2>2
<1>9. Len(f[m]) = Len(g[m])
  BY <1>7, <1>8
<1>10. m = n
  <2> SUFFICES ASSUME m # n PROVE FALSE
    OBVIOUS
  <2>1. m \in 1 .. Len(s)
    BY <1>1
  <2>2. Len(g[m]) < Len(g[Len(s)])
    BY <1>3, <2>1, MoreLines
  <2> QED BY <1>8, <1>9, <2>2
<1>11. \A i \in 1 .. Len(r) : r[i] = s[i]
  BY <1>7, <1>9
<1>12. Len(r) = Len(s)
  BY <1>10
<1> QED BY <1>11, <1>12, SameSequence

LEMMA EmptyText == Encode(<<>>) = <<>> /\ \A t \in Seq(Seq(Characters)) : t # <<>> => Encode(t) # <<>>
<1>1. ASSUME NEW t \in Seq(Seq(Characters)), t # <<>> PROVE Encode(t) # <<>>
  <2>1. PICK f : Concatenates(f, t, Len(t)) /\ Encode(t) = f[Len(t)]
    BY <1>1, EncodedBy
  <2>2. 1 \in 1 .. Len(t) /\ t[1] \in Seq(Characters) /\ 1 - 1 = 0 /\ Len(t[1]) \in Nat
    BY <1>1
  <2>3. Len(Line(0, t[1])) >= 1
    BY <2>2, LineNotEmpty
  <2>4. \A k \in Nat \ {0} : k <= Len(Line(1 - 1, t[1])) => Len(Before(f, 1)) + k <= Len(f[Len(t)])
    BY <2>1, <2>2, NextLine
  <2>5. Before(f, 1) = <<>>
    BY DEF Before
  <2>6. 1 <= Len(f[Len(t)])
    BY <2>2, <2>3, <2>4, <2>5
  <2> QED BY <2>1, <2>6
<1>2. Encode(<<>>) = <<>>
  <2>1. [i \in DOMAIN <<>> |-> Line(i - 1, <<>>[i])] = <<>>
    OBVIOUS
  <2> QED BY <2>1 DEF Encode, FlattenSeq
<1> QED BY <1>1, <1>2

LEMMA EncodeIsText ==
    ASSUME NEW rev \in Seq(Seq(Characters))
    PROVE  Encode(rev) \in Text
<1>1. Text = Seq(Alphabet)
  BY Zenon DEF Text, Alphabet
<1>2. CASE rev = <<>>
  <2>1. <<>> \in Seq(Alphabet)
    OBVIOUS
  <2> QED BY <1>1, <1>2, <2>1, EmptyText
<1>3. CASE rev # <<>>
  <2>1. PICK f : Concatenates(f, rev, Len(rev)) /\ Encode(rev) = f[Len(rev)]
    BY <1>3, EncodedBy
  <2>2. Len(rev) \in 1 .. Len(rev)
    BY <1>3
  <2>3. f[Len(rev)] \in Seq(Alphabet)
    BY <2>1, <2>2, ConcatenationIs
  <2> QED BY <1>1, <2>1, <2>3
<1> QED BY <1>2, <1>3

\* Key lists that the text tells apart.
LEMMA EncodeInjective ==
    ASSUME NEW r \in Seq(Seq(Characters)), NEW s \in Seq(Seq(Characters)), Encode(r) = Encode(s),
           Separable(r, s)
    PROVE  r = s
<1>1. r = <<>> <=> s = <<>>
  BY EmptyText
<1>2. CASE r # <<>>
  <2>1. Len(r) <= Len(s) \/ Len(s) <= Len(r)
    OBVIOUS
  <2>2. \/ Clean(s) /\ Len(s) <= Len(r)
        \/ Clean(r) /\ Len(r) <= Len(s)
    <3>1. Clean(s) /\ (Clean(r) \/ Len(s) <= Len(r))
      BY DEF Separable
    <3> QED BY <2>1, <3>1
  <2> QED BY <1>1, <1>2, <2>2, EncodeSeparates
<1> QED BY <1>1, <1>2

IsBegin(r, s) == Len(r) <= Len(s) /\ \A i \in 1 .. Len(r) : r[i] = s[i]

\* More keys are a longer text.
LEMMA EncodeGrows ==
    ASSUME NEW r \in Seq(Seq(Characters)), NEW s \in Seq(Seq(Characters)), IsBegin(r, s), Len(r) # Len(s)
    PROVE  Encode(r) # Encode(s)
<1>1. Len(r) \in Nat /\ Len(s) \in Nat /\ Len(r) < Len(s) /\ s # <<>>
  BY DEF IsBegin
<1>2. CASE r = <<>>
  BY <1>1, <1>2, EmptyText
<1>3. CASE r # <<>>
  <2>1. PICK f : Concatenates(f, r, Len(r)) /\ Encode(r) = f[Len(r)]
    BY <1>3, EncodedBy
  <2>2. PICK g : Concatenates(g, s, Len(s)) /\ Encode(s) = g[Len(s)]
    BY <1>1, EncodedBy
  <2> DEFINE m == Len(r)
             D == {i \in Nat : i \in 1 .. m => f[i] = g[i]}
  <2>3. ASSUME NEW i \in Nat, \A j \in 0 .. i - 1 : j \in D PROVE i \in D
    <3> SUFFICES ASSUME i \in 1 .. m PROVE f[i] = g[i]
      OBVIOUS
    <3>1. i \in 1 .. Len(r) /\ i \in 1 .. Len(s) /\ r[i] = s[i]
      BY <1>1 DEF IsBegin
    <3>2. Before(f, i) = Before(g, i)
      <4>1. CASE i # 1
        <5>1. i - 1 \in 0 .. i - 1 /\ i - 1 \in 1 .. m
          BY <1>1, <4>1
        <5>2. f[i - 1] = g[i - 1]
          BY <2>3, <5>1
        <5> QED BY <4>1, <5>2 DEF Before
      <4> QED BY <4>1 DEF Before
    <3>3. f[i] = Before(f, i) \o Line(i - 1, r[i])
      BY <2>1, <3>1, ConcatenationIs
    <3>4. g[i] = Before(g, i) \o Line(i - 1, s[i])
      BY <2>2, <3>1, ConcatenationIs
    <3> QED BY <3>1, <3>2, <3>3, <3>4
  <2> HIDE DEF D
  <2>4. Nat \subseteq D
    BY <2>3, AllNumbers
  <2>5. f[m] = g[m]
    <3>1. m \in D /\ m \in 1 .. m
      BY <1>1, <1>3, <2>4
    <3> QED BY <3>1 DEF D
  <2>6. m \in 1 .. Len(s) /\ m # Len(s)
    BY <1>1, <1>3
  <2>7. Len(g[m]) < Len(g[Len(s)])
    BY <2>2, <2>6, MoreLines
  <2>8. Len(g[m]) \in Nat
    BY <2>2, <2>6, PrefixesStay
  <2> QED BY <2>1, <2>2, <2>5, <2>7, <2>8
<1> QED BY <1>2, <1>3

-----------------------------------------------------------------------------
(* The map *)


\* The inductive invariant.  That InternSlow finds a key to intern in op, and
\* that earlier results stay right, needs no more than the types and the
\* bijection.
IdInv ==
    /\ TypeOK
    /\ OneIdPerKey
    /\ ReturnedIdsName
    /\ \A g \in Goroutines : op[g].kind = "intern" => Len(op[g].keys) = 1

\* The section under the write lock keeps the map a bijection, keeps the id of
\* every key that has one, and leaves the key with an id.
LEMMA InternLockedKeeps ==
    ASSUME NEW m \in Map, NEW key \in Keys,
           \A k \in Keys : Has(m, k) => m.fwd[k] + 1 \in DOMAIN m.rev /\ m.rev[m.fwd[k] + 1] = k,
           \A i \in DOMAIN m.rev : m.fwd[m.rev[i]] = i - 1,
           NEW n, n = InternLocked(m, key)
    PROVE  /\ n \in Map
           /\ n.fwd[key] \in Nat
           /\ \A k \in Keys : Has(n, k) => n.fwd[k] + 1 \in DOMAIN n.rev /\ n.rev[n.fwd[k] + 1] = k
           /\ \A i \in DOMAIN n.rev : n.fwd[n.rev[i]] = i - 1
           /\ \A k \in Keys : Has(m, k) => n.fwd[k] = m.fwd[k]
           /\ \A i \in DOMAIN m.rev : i \in DOMAIN n.rev /\ n.rev[i] = m.rev[i]
<1>1. CASE Has(m, key)
  BY <1>1 DEF InternLocked, Has, Map, NoId
<1>2. CASE ~Has(m, key)
  <2>1. m.fwd \in [Keys -> Nat \cup {NoId}] /\ m.rev \in Seq(Keys)
    BY DEF Map
  <2> DEFINE f == [m.fwd EXCEPT ![key] = Len(m.rev)]
             r == Append(m.rev, key)
  <2>2. n = [fwd |-> f, rev |-> r]
    BY <1>2 DEF InternLocked, Assign
  <2>3. Len(m.rev) \in Nat /\ DOMAIN m.rev = 1 .. Len(m.rev)
    BY <2>1
  <2>4. /\ r \in Seq(Keys) /\ DOMAIN r = 1 .. Len(m.rev) + 1 /\ r[Len(m.rev) + 1] = key
        /\ \A i \in DOMAIN m.rev : r[i] = m.rev[i]
    BY <2>1, <2>3
  <2>5. f \in [Keys -> Nat \cup {NoId}] /\ f[key] = Len(m.rev) /\ \A k \in Keys \ {key} : f[k] = m.fwd[k]
    BY <2>1, <2>3
  <2>6. \A i \in DOMAIN m.rev : m.rev[i] # key
    BY <1>2, <2>3 DEF Has, NoId
  <2>7. n \in Map /\ n.fwd[key] \in Nat
    BY <2>2, <2>3, <2>4, <2>5 DEF Map
  <2> HIDE DEF f, r
  <2>8. ASSUME NEW k \in Keys, f[k] # NoId PROVE f[k] + 1 \in DOMAIN r /\ r[f[k] + 1] = k
    <3>1. CASE k = key
      BY <2>3, <2>4, <2>5, <3>1
    <3>2. CASE k # key
      <4>1. m.fwd[k] + 1 \in DOMAIN m.rev /\ m.rev[m.fwd[k] + 1] = k
        BY <2>5, <2>8, <3>2 DEF Has
      <4> QED BY <2>3, <2>4, <2>5, <3>2, <4>1
    <3> QED BY <3>1, <3>2
  <2>9. ASSUME NEW i \in DOMAIN r PROVE f[r[i]] = i - 1
    <3>1. CASE i = Len(m.rev) + 1
      BY <2>3, <2>4, <2>5, <3>1
    <3>2. CASE i \in DOMAIN m.rev
      <4>1. m.rev[i] \in Keys \ {key}
        BY <2>1, <2>6, <3>2
      <4> QED BY <2>4, <2>5, <3>2, <4>1
    <3> QED BY <2>3, <2>4, <3>1, <3>2
  <2>10. \A k \in Keys : Has(m, k) => f[k] = m.fwd[k]
    BY <1>2, <2>5
  <2> QED BY <2>2, <2>3, <2>4, <2>7, <2>8, <2>9, <2>10 DEF Has
<1> QED BY <1>1, <1>2

LEMMA TextOf == \A rev \in Seq(Keys) : rev \in Seq(Seq(Characters)) /\ Encode(rev) \in Text
<1> SUFFICES ASSUME NEW rev \in Seq(Keys) PROVE rev \in Seq(Seq(Characters)) /\ Encode(rev) \in Text
  OBVIOUS
<1>1. rev \in Seq(Seq(Characters))
  BY MapAssumption
<1> QED BY <1>1, EncodeIsText

LEMMA IdInit == Init => IdInv
<1> SUFFICES ASSUME Init PROVE IdInv
  OBVIOUS
<1>1. map.fwd = [k \in Keys |-> NoId] /\ map.rev = <<>> /\ map \in Map
  BY DEF Init, empty, Map
<1>2. none \in Op /\ none.kind = "none"
  BY DEF none, Op
<1> QED BY <1>1, <1>2 DEF Init, IdInv, TypeOK, OneIdPerKey, ReturnedIdsName, Has

LEMMA IdNext == IdInv /\ [Next]_vars => IdInv'
<1> SUFFICES ASSUME IdInv, [Next]_vars PROVE IdInv'
  OBVIOUS
<1> USE DEF IdInv
<1>1. ASSUME NEW g \in Goroutines, NEW key \in Keys, InternFast(g, key) PROVE IdInv'
  <2>1. CASE Has(map, key)
    <3>1. returned' = returned \cup {[key |-> key, id |-> map.fwd[key]]} /\ UNCHANGED <<map, op, stored>>
      BY <1>1, <2>1 DEF InternFast
    <3>2. map.fwd[key] \in Nat /\ map.fwd[key] + 1 \in DOMAIN map.rev /\ map.rev[map.fwd[key] + 1] = key
      BY <2>1 DEF TypeOK, Map, Has, OneIdPerKey
    <3>3. [key |-> key, id |-> map.fwd[key]] \in Result
      BY <3>2 DEF Result
    <3> QED BY <3>1, <3>2, <3>3 DEF TypeOK, OneIdPerKey, ReturnedIdsName
  <2>2. CASE ~Has(map, key)
    <3>1. [kind |-> "intern", keys |-> <<key>>] \in Op /\ Len(<<key>>) = 1
      BY DEF Op
    <3> QED BY <1>1, <2>2, <3>1 DEF InternFast, TypeOK, OneIdPerKey, ReturnedIdsName
  <2> QED BY <2>1, <2>2
<1>2. ASSUME NEW g \in Goroutines, InternSlow(g) PROVE IdInv'
  <2> DEFINE key == op[g].keys[1]
  <2>1. key \in Keys
    BY <1>2 DEF InternSlow, TypeOK, Op
  <2>2. map' = InternLocked(map, key)
        /\ returned' = returned \cup {[key |-> key, id |-> map'.fwd[key]]}
        /\ op' = [op EXCEPT ![g] = none] /\ UNCHANGED stored
    BY <1>2 DEF InternSlow
  <2> HIDE DEF key
  <2>3. /\ map' \in Map
        /\ map'.fwd[key] \in Nat
        /\ \A k \in Keys : Has(map', k) => map'.fwd[k] + 1 \in DOMAIN map'.rev /\ map'.rev[map'.fwd[k] + 1] = k
        /\ \A i \in DOMAIN map'.rev : map'.fwd[map'.rev[i]] = i - 1
        /\ \A i \in DOMAIN map.rev : i \in DOMAIN map'.rev /\ map'.rev[i] = map.rev[i]
    BY <2>1, <2>2, InternLockedKeeps DEF TypeOK, OneIdPerKey
  <2>4. Has(map', key)
    BY <2>3 DEF Has, NoId
  <2>5. OneIdPerKey'
    BY <2>3 DEF OneIdPerKey, Has
  <2>6. ReturnedIdsName'
    BY <2>1, <2>2, <2>3, <2>4 DEF ReturnedIdsName
  <2>7. TypeOK' /\ \A h \in Goroutines : op'[h].kind = "intern" => Len(op'[h].keys) = 1
    <3>1. [key |-> key, id |-> map'.fwd[key]] \in Result
      BY <2>1, <2>3 DEF Result
    <3>2. none \in Op /\ none.kind = "none"
      BY DEF none, Op
    <3> QED BY <2>2, <2>3, <3>1, <3>2 DEF TypeOK
  <2> QED BY <2>5, <2>6, <2>7
<1>3. ASSUME NEW g \in Goroutines, SnapshotKeys(g) PROVE IdInv'
  <2>1. [kind |-> "snapshot", keys |-> map.rev] \in Op
    BY DEF TypeOK, Map, Op
  <2> QED BY <1>3, <2>1 DEF SnapshotKeys, TypeOK, OneIdPerKey, ReturnedIdsName
<1>4. ASSUME NEW g \in Goroutines, SnapshotChecksum(g) PROVE IdInv'
  <2> DEFINE new == [keys |-> op[g].keys, checksum |-> Checksum(map),
                     kind |-> IF op[g].keys = map.rev THEN "quiet" ELSE "raced"]
  <2>1. new \in Snapshot
    <3>1. Checksum(map) \in Text
      BY TextOf DEF TypeOK, Map, Checksum
    <3> QED BY <3>1 DEF TypeOK, Op, Snapshot
  <2>2. none \in Op /\ none.kind = "none"
    BY DEF none, Op
  <2> QED BY <1>4, <2>1, <2>2 DEF SnapshotChecksum, TypeOK, OneIdPerKey, ReturnedIdsName
<1>5. ASSUME Damage PROVE IdInv'
  <2>1. PICK s \in stored, keys \in BoundedSeq(Keys, Len(map.rev)) :
           /\ \E sum \in {s.checksum, Encode(keys)} :
                 stored' = stored \cup {[keys |-> keys, checksum |-> sum, kind |-> "damaged"]}
           /\ UNCHANGED <<map, op, returned>>
    BY <1>5, Zenon DEF Damage
  <2>2. keys \in Seq(Keys)
    <3>1. PICK n \in 0 .. Len(map.rev) : keys \in [1 .. n -> Keys]
      BY Zenon DEF BoundedSeq, SeqOf
    <3>2. n \in Nat
      BY DEF TypeOK, Map
    <3> QED BY <3>1, <3>2
  <2>3. \A sum \in {s.checksum, Encode(keys)} :
            [keys |-> keys, checksum |-> sum, kind |-> "damaged"] \in Snapshot
    <3>1. s.checksum \in Text /\ Encode(keys) \in Text
      BY <2>2, TextOf DEF TypeOK, Snapshot
    <3> QED BY <2>2, <3>1 DEF Snapshot
  <2> QED BY <2>1, <2>3 DEF TypeOK, OneIdPerKey, ReturnedIdsName
<1>6. CASE UNCHANGED vars
  BY <1>6 DEF vars, TypeOK, OneIdPerKey, ReturnedIdsName
<1> QED BY <1>1, <1>2, <1>3, <1>4, <1>5, <1>6 DEF Next

LEMMA SpecIdInv == Spec => []IdInv
BY IdInit, IdNext, PTL DEF Spec

\* The map, the results and the stored snapshots have their types.
THEOREM IdMapTypeCorrect == Spec => []TypeOK
<1>1. IdInv => TypeOK
  BY DEF IdInv
<1> QED BY <1>1, SpecIdInv, PTL

\* However many goroutines race to intern the same key, it gets one id, and no
\* other key gets that id.
THEOREM MapIsBijective == Spec => []OneIdPerKey
<1>1. IdInv => OneIdPerKey
  BY DEF IdInv
<1> QED BY <1>1, SpecIdInv, PTL

\* An id names for ever the key Intern returned it for.
THEOREM IdsAreReliable == Spec => []ReturnedIdsName
<1>1. IdInv => ReturnedIdsName
  BY DEF IdInv
<1> QED BY <1>1, SpecIdInv, PTL

\* A key keeps its id for ever.
THEOREM IdsNeverMove == Spec => NeverReassigned
<1> DEFINE Kept == \A k \in Keys : Has(map, k) => map'.fwd[k] = map.fwd[k]
<1>1. ASSUME IdInv, [Next]_vars PROVE [Kept]_vars
  <2>1. ASSUME NEW g \in Goroutines, InternSlow(g) PROVE Kept
    <3>1. op[g].keys[1] \in Keys
      BY <1>1, <2>1 DEF InternSlow, IdInv, TypeOK, Op
    <3>2. map' = InternLocked(map, op[g].keys[1])
      BY <2>1 DEF InternSlow
    <3> QED BY <1>1, <3>1, <3>2, InternLockedKeeps DEF IdInv, TypeOK, OneIdPerKey
  <2>2. CASE UNCHANGED map
    BY <2>2
  <2> QED BY <1>1, <2>1, <2>2 DEF Next, InternFast, SnapshotKeys, SnapshotChecksum, Damage, vars
<1>2. IdInv /\ [Next]_vars => [Kept]_vars
  BY <1>1
<1> QED BY <1>2, SpecIdInv, PTL DEF Spec, NeverReassigned

-----------------------------------------------------------------------------

-----------------------------------------------------------------------------
(* Snapshots *)

\* What Load builds up out of the first keys.
IsLoading(h, keys, n) ==
    h = [s \in SUBSET (1 .. n) |-> IF s = {} THEN empty
                                   ELSE InternLocked(h[s \ {Max(s)}], keys[Max(s)])]

LEMMA GreatestIndex ==
    ASSUME NEW n \in Nat, NEW s \in SUBSET (1 .. n), s # {}
    PROVE  /\ Max(s) \in s /\ Max(s) \in 1 .. n /\ \A x \in s : x <= Max(s)
           /\ s \ {Max(s)} \in SUBSET (1 .. n - 1)
<1>1. s \in SUBSET (0 .. n)
  OBVIOUS
<1>2. Max(s) \in s /\ \A x \in s : x <= Max(s)
  BY <1>1, GreatestOf
<1> DEFINE m == Max(s)
<1> HIDE DEF m
<1>3. m \in s /\ m \in 1 .. n /\ \A x \in s : x <= m
  BY <1>2 DEF m
<1>4. s \ {m} \in SUBSET (1 .. n - 1)
  BY <1>3
<1> QED BY <1>3, <1>4 DEF m

LEMMA LoadingExists ==
    ASSUME NEW keys, NEW n \in Nat
    PROVE  \E h : IsLoading(h, keys, n)
<1> DEFINE D == {k \in 0 .. n : \E h : IsLoading(h, keys, k)}
<1>1. 0 \in D
  <2> DEFINE h == [s \in SUBSET (1 .. 0) |-> empty]
  <2>1. \A s \in SUBSET (1 .. 0) : s = {}
    OBVIOUS
  <2>2. IsLoading(h, keys, 0)
    BY <2>1, Zenon DEF IsLoading
  <2> QED BY <2>2
<1>2. D \in SUBSET (0 .. n) /\ D # {}
  BY <1>1
<1> HIDE DEF D
<1>3. Max(D) \in D /\ \A k \in D : k <= Max(D)
  BY <1>2, GreatestOf
<1> DEFINE m == Max(D)
<1>4. m \in 0 .. n /\ \E h : IsLoading(h, keys, m)
  BY <1>3 DEF D
<1>5. PICK h : IsLoading(h, keys, m)
  BY <1>4
<1>6. m + 1 \notin D
  BY <1>3, <1>4
<1> HIDE DEF m
<1>7. CASE m = n
  BY <1>5, <1>7
<1>8. CASE m # n
  <2> DEFINE value(s, g) == IF s = {} THEN empty ELSE InternLocked(g[s \ {Max(s)}], keys[Max(s)])
             long == [s \in SUBSET (1 .. m + 1) |-> value(s, h)]
  <2>1. m \in Nat /\ m + 1 \in 0 .. n /\ m + 1 \in Nat /\ m + 1 - 1 = m
    BY <1>4, <1>8
  <2>2. \A s \in SUBSET (1 .. m) : h[s] = value(s, h)
    <3>1. h = [s \in SUBSET (1 .. m) |-> value(s, h)]
      BY <1>5, Zenon DEF IsLoading
    <3> HIDE DEF value
    <3> QED BY <3>1
  <2>3. \A s \in SUBSET (1 .. m) : long[s] = h[s]
    <3> HIDE DEF value
    <3>1. \A s \in SUBSET (1 .. m) : s \in SUBSET (1 .. m + 1)
      BY <2>1
    <3> QED BY <2>2, <3>1
  <2>4. long = [s \in SUBSET (1 .. m + 1) |-> value(s, h)]
    OBVIOUS
  <2> HIDE DEF long
  <2>5. \A s \in SUBSET (1 .. m + 1) : value(s, h) = value(s, long)
    <3> SUFFICES ASSUME NEW s \in SUBSET (1 .. m + 1), s # {} PROVE value(s, h) = value(s, long)
      OBVIOUS
    <3>1. s \ {Max(s)} \in SUBSET (1 .. m)
      BY <2>1, GreatestIndex
    <3>2. long[s \ {Max(s)}] = h[s \ {Max(s)}]
      BY <2>3, <3>1
    <3> QED BY <3>2, Zenon
  <2>6. long = [s \in SUBSET (1 .. m + 1) |-> value(s, long)]
    <3> HIDE DEF value
    <3> QED BY <2>4, <2>5
  <2>7. IsLoading(long, keys, m + 1)
    BY <2>6, Zenon DEF IsLoading
  <2>8. m + 1 \in D
    BY <2>1, <2>7 DEF D
  <2> QED BY <1>6, <2>8
<1> QED BY <1>7, <1>8

\* Each key has one id and each id one key.
Bijective(m) ==
    /\ m \in Map
    /\ \A k \in Keys : Has(m, k) => m.fwd[k] + 1 \in DOMAIN m.rev /\ m.rev[m.fwd[k] + 1] = k
    /\ \A i \in DOMAIN m.rev : m.fwd[m.rev[i]] = i - 1

LEMMA LoadedBy ==
    ASSUME NEW s \in Snapshot
    PROVE  \E h : IsLoading(h, s.keys, Len(s.keys)) /\ Loaded(s) = h[1 .. Len(s.keys)]
<1> DEFINE keys == s.keys
           n == Len(keys)
           Loading(h) == h = [t \in SUBSET (DOMAIN keys) |->
                                 IF t = {} THEN empty
                                 ELSE InternLocked(h[t \ {Max(t)}], keys[Max(t)])]
           h == CHOOSE h : Loading(h)
<1>1. keys \in Seq(Keys) /\ n \in Nat /\ DOMAIN keys = 1 .. n
  BY DEF Snapshot
<1>2. Loaded(s) = h[DOMAIN keys]
  BY DEF Loaded, FoldLeft, MapThenFoldSet
<1>3. \A g : Loading(g) <=> IsLoading(g, keys, n)
  BY <1>1 DEF IsLoading
<1>4. Loading(h)
  <2>1. \E g : Loading(g)
    BY <1>1, <1>3, LoadingExists
  <2> HIDE DEF Loading
  <2> QED BY <2>1
<1>5. IsLoading(h, keys, n)
  BY <1>3, <1>4
<1> HIDE DEF Loading, h
<1> QED BY <1>1, <1>2, <1>5

\* Each step of Load, and all of it, leaves a bijection.
LEMMA LoadingIsBijective ==
    ASSUME NEW keys \in Seq(Keys), NEW n \in Nat, n = Len(keys), NEW h, IsLoading(h, keys, n)
    PROVE  /\ h[{}] = empty
           /\ \A t \in SUBSET (1 .. n) : t # {} => h[t] = InternLocked(h[t \ {Max(t)}], keys[Max(t)])
           /\ \A t \in SUBSET (1 .. n) : Bijective(h[t])
<1>1. keys \in Seq(Keys) /\ n \in Nat /\ DOMAIN keys = 1 .. n
  OBVIOUS
<1>5. IsLoading(h, keys, n)
  OBVIOUS
<1> DEFINE value(t) == IF t = {} THEN empty ELSE InternLocked(h[t \ {Max(t)}], keys[Max(t)])
<1>6. \A t \in SUBSET (1 .. n) : h[t] = value(t)
  <2>1. h = [t \in SUBSET (1 .. n) |-> value(t)]
    BY <1>5, Zenon DEF IsLoading
  <2> HIDE DEF value
  <2> QED BY <2>1
<1> DEFINE D == {k \in 0 .. n : \A t \in SUBSET (1 .. k) : Bijective(h[t])}
<1>7. 0 \in D
  <2>1. SUBSET (1 .. 0) = {{}} /\ {} \in SUBSET (1 .. n)
    OBVIOUS
  <2>2. h[{}] = empty
    BY <1>6, <2>1
  <2>3. Bijective(empty)
    <3>1. empty.fwd = [k \in Keys |-> NoId] /\ empty.rev = <<>> /\ empty \in Map
      BY DEF empty, Map
    <3>2. DOMAIN empty.rev = {}
      BY <3>1
    <3> QED BY <3>1, <3>2 DEF Bijective, Has
  <2>4. \A t \in SUBSET (1 .. 0) : Bijective(h[t])
    BY <2>1, <2>2, <2>3
  <2> QED BY <1>1, <2>4
<1>8. D \in SUBSET (0 .. n) /\ D # {}
  BY <1>7
<1> HIDE DEF D
<1> DEFINE m == Max(D)
<1>9. m \in D /\ \A k \in D : k <= m
  BY <1>1, <1>8, GreatestOf
<1> HIDE DEF m
<1>10. m \in 0 .. n /\ \A t \in SUBSET (1 .. m) : Bijective(h[t])
  BY <1>9 DEF D
<1>11. m = n
  <2> SUFFICES ASSUME m # n PROVE FALSE
    OBVIOUS
  <2>1. m + 1 \in 0 .. n /\ m + 1 \in Nat /\ m + 1 \notin D /\ m + 1 <= n
    BY <1>1, <1>9, <1>10
  <2>2. ASSUME NEW t \in SUBSET (1 .. m + 1), t # {} PROVE Bijective(h[t])
    <3>1. Max(t) \in 1 .. m + 1 /\ t \ {Max(t)} \in SUBSET (1 .. m)
      <4> DEFINE z == m + 1
      <4>0. t # {} /\ t \in SUBSET (1 .. z)
        BY <2>2, Zenon
      <4>1. z \in Nat /\ z - 1 = m
        BY <1>1, <1>10
      <4> HIDE DEF z
      <4>2. Max(t) \in 1 .. z /\ t \ {Max(t)} \in SUBSET (1 .. z - 1)
        BY <4>0, <4>1, GreatestIndex
      <4> QED BY <4>1, <4>2 DEF z
    <3> DEFINE g == h[t \ {Max(t)}]
               key == keys[Max(t)]
    <3>2. Bijective(g)
      BY <1>10, <3>1
    <3>3. key \in Keys
      <4>1. Max(t) \in 1 .. n
        BY <1>1, <2>1, <3>1
      <4> QED BY <1>1, <4>1
    <3>4. h[t] = InternLocked(g, key)
      <4>1. t \in SUBSET (1 .. n)
        BY <1>1, <2>1
      <4> QED BY <1>6, <2>2, <4>1
    <3> HIDE DEF g, key
    <3> DEFINE new == InternLocked(g, key)
    <3>5. new = InternLocked(g, key)
      OBVIOUS
    <3> HIDE DEF new
    <3>6. Bijective(new)
      BY <3>2, <3>3, <3>5, InternLockedKeeps DEF Bijective
    <3> QED BY <3>4, <3>6 DEF new
  <2>3. Bijective(h[{}])
    BY <1>10
  <2>4. m + 1 \in D
    BY <2>1, <2>2, <2>3 DEF D
  <2> QED BY <2>1, <2>4
<1>12. h[{}] = empty
  BY <1>6
<1>13. \A t \in SUBSET (1 .. n) : t # {} => h[t] = InternLocked(h[t \ {Max(t)}], keys[Max(t)])
  BY <1>6
<1> QED BY <1>10, <1>11, <1>12, <1>13

\* Load gives different keys the ids in their order.
LEMMA LoadedInOrder ==
    ASSUME NEW s \in Snapshot, Cardinality(ToSet(s.keys)) = Len(s.keys)
    PROVE  Loaded(s).rev = s.keys
<1> DEFINE keys == s.keys
           n == Len(keys)
<1>1. keys \in Seq(Keys) /\ n \in Nat /\ DOMAIN keys = 1 .. n
  BY DEF Snapshot
<1>2. \A i, j \in 1 .. n : keys[i] = keys[j] => i = j
  <2> DEFINE S == 1 .. n
             T == ToSet(keys)
  <2>1. IsFiniteSet(S) /\ Cardinality(S) = n
    BY <1>1, FS_Interval
  <2>2. keys \in Surjection(S, T)
    BY <1>1 DEF Surjection, ToSet
  <2>3. Cardinality(T) = Cardinality(S)
    BY <2>1
  <2> HIDE DEF S, T, keys
  <2>4. keys \in Injection(S, T)
    BY <2>1, <2>2, <2>3, FS_Surjection
  <2> QED BY <2>4 DEF Injection, IsInjective, S
<1>3. PICK h : IsLoading(h, keys, n) /\ Loaded(s) = h[1 .. n]
  BY LoadedBy
<1> HIDE DEF keys, n
<1>4. n = Len(keys)
  BY DEF n
<1>5. /\ h[{}] = empty
      /\ \A t \in SUBSET (1 .. n) : t # {} => h[t] = InternLocked(h[t \ {Max(t)}], keys[Max(t)])
      /\ \A t \in SUBSET (1 .. n) : Bijective(h[t])
  BY <1>1, <1>3, <1>4, LoadingIsBijective
<1> DEFINE good(k) == Len(h[1 .. k].rev) = k /\ \A i \in 1 .. k : h[1 .. k].rev[i] = keys[i]
           D == {k \in Nat : k \in 0 .. n => good(k)}
<1>6. ASSUME NEW k \in Nat, \A j \in 0 .. k - 1 : j \in D PROVE k \in D
  <2> SUFFICES ASSUME k \in 0 .. n PROVE good(k)
    OBVIOUS
  <2>1. CASE k = 0
    <3>1. 1 .. k = {} /\ empty.rev = <<>>
      BY <2>1 DEF empty
    <3> QED BY <1>5, <2>1, <3>1
  <2>2. CASE k # 0
    <3> DEFINE j == k - 1
               t == 1 .. k
               g == h[1 .. j]
               key == keys[k]
    <3>1. j \in 0 .. k - 1 /\ j \in 0 .. n /\ j \in Nat /\ k \in 1 .. n /\ k = j + 1
      BY <1>1, <2>2
    <3>2. good(j)
      BY <1>6, <3>1
    <3>3. t \in SUBSET (1 .. n) /\ t # {} /\ 1 .. j \in SUBSET (1 .. n)
      <4>1. k \in t
        BY <3>1
      <4>2. \A x \in t : x \in 1 .. n
        BY <1>1, <3>1
      <4>3. \A x \in 1 .. j : x \in 1 .. n
        BY <1>1, <3>1
      <4> HIDE DEF t
      <4> QED BY <4>1, <4>2, <4>3
    <3>4. Max(t) = k
      <4>1. Max(t) \in t /\ \A x \in t : x <= Max(t)
        BY <3>1, <3>3, GreatestIndex
      <4>2. k \in t
        BY <3>1
      <4> QED BY <4>1, <4>2
    <3>5. t \ {k} = 1 .. j
      BY <3>1
    <3>6. h[t] = InternLocked(g, key)
      BY <1>5, <3>3, <3>4, <3>5
    <3>7. Bijective(g) /\ key \in Keys
      BY <1>1, <1>5, <3>1, <3>3
    <3>8. Len(g.rev) = j /\ \A i \in 1 .. j : g.rev[i] = keys[i]
      BY <3>2
    <3> HIDE DEF g, j, t
    <3>9. ~Has(g, key)
      <4> SUFFICES ASSUME Has(g, key) PROVE FALSE
        OBVIOUS
      <4> DEFINE i == g.fwd[key] + 1
      <4>1. i \in DOMAIN g.rev /\ g.rev[i] = key /\ g.rev \in Seq(Keys)
        BY <3>7 DEF Bijective, Map
      <4> HIDE DEF i
      <4>2. i \in 1 .. j
        BY <3>8, <4>1
      <4>3. keys[i] = keys[k] /\ i \in 1 .. n /\ i # k
        BY <1>1, <3>1, <3>8, <4>1, <4>2
      <4> QED BY <1>2, <3>1, <4>3
    <3>10. h[t].rev = Append(g.rev, key)
      BY <3>6, <3>9 DEF InternLocked, Assign
    <3>11. g.rev \in Seq(Keys)
      BY <3>7 DEF Bijective, Map
    <3>12. Len(h[t].rev) = k /\ \A i \in 1 .. k : h[t].rev[i] = keys[i]
      <4>1. Len(h[t].rev) = j + 1 /\ h[t].rev[j + 1] = key /\ \A i \in 1 .. j : h[t].rev[i] = g.rev[i]
        BY <3>7, <3>8, <3>10, <3>11
      <4> QED BY <3>1, <3>8, <4>1
    <3> QED BY <3>12 DEF t
  <2> QED BY <2>1, <2>2
<1> HIDE DEF D
<1>7. Nat \subseteq D
  BY <1>6, AllNumbers
<1>8. good(n)
  BY <1>1, <1>7 DEF D
<1>9. Loaded(s).rev \in Seq(Keys)
  <2>1. 1 .. n \in SUBSET (1 .. n)
    OBVIOUS
  <2> QED BY <1>3, <1>5, <2>1 DEF Bijective, Map
<1>10. Loaded(s).rev = keys
  <2> DEFINE rev == Loaded(s).rev
  <2>1. rev \in Seq(Keys) /\ Len(rev) = n /\ \A i \in 1 .. n : rev[i] = keys[i]
    BY <1>3, <1>8, <1>9
  <2> HIDE DEF rev
  <2>2. rev = keys
    BY <1>1, <1>4, <2>1, SameSequence
  <2> QED BY <2>2 DEF rev
<1> QED BY <1>10 DEF keys

LEMMA LoadedIsBijective ==
    ASSUME NEW s \in Snapshot
    PROVE  Bijective(Loaded(s))
<1>1. s.keys \in Seq(Keys) /\ Len(s.keys) \in Nat /\ 1 .. Len(s.keys) \in SUBSET (1 .. Len(s.keys))
  BY DEF Snapshot
<1>2. PICK h : IsLoading(h, s.keys, Len(s.keys)) /\ Loaded(s) = h[1 .. Len(s.keys)]
  BY LoadedBy
<1> DEFINE n == Len(s.keys)
<1>3. \A t \in SUBSET (1 .. n) : Bijective(h[t])
  BY <1>1, <1>2, LoadingIsBijective
<1> QED BY <1>1, <1>2, <1>3

\* With two keys alike Load finds no bijection onto its list and refuses.
LEMMA DifferentKeys ==
    ASSUME NEW m, Bijective(m), NEW s \in Snapshot, s.keys = m.rev
    PROVE  Cardinality(ToSet(s.keys)) = Len(s.keys)
<1> DEFINE keys == s.keys
           S == 1 .. Len(keys)
           T == ToSet(keys)
<1>1. keys \in Seq(Keys) /\ DOMAIN keys = S /\ Len(keys) \in Nat
  BY DEF Snapshot
<1>2. IsFiniteSet(S) /\ Cardinality(S) = Len(keys)
  BY <1>1, FS_Interval
<1>3. keys \in Surjection(S, T)
  BY <1>1 DEF Surjection, ToSet
<1>4. \A i \in S : m.fwd[keys[i]] = i - 1
  BY <1>1 DEF Bijective
<1>5. \A i, j \in S : keys[i] = keys[j] => i = j
  <2> SUFFICES ASSUME NEW i \in S, NEW j \in S, keys[i] = keys[j] PROVE i = j
    OBVIOUS
  <2>1. i - 1 = j - 1
    BY <1>4
  <2> QED BY <2>1
<1> HIDE DEF S, T, keys
<1>6. keys \in [S -> T]
  BY <1>3 DEF Surjection
<1>7. keys \in Injection(S, T)
  BY <1>1, <1>5, <1>6 DEF Injection, IsInjective
<1>8. Cardinality(T) = Cardinality(S)
  BY <1>2, <1>3, <1>7, FS_Surjection
<1> QED BY <1>2, <1>8 DEF T, keys

\* The keys of a snapshot are the first ones of the map, and its checksum is of
\* these or of more.
SnapInv ==
    /\ IdInv
    /\ \A g \in Goroutines : op[g].kind = "snapshot" => IsBegin(op[g].keys, map.rev)
    /\ \A s \in stored :
          /\ s.kind = "quiet" => /\ Cardinality(ToSet(s.keys)) = Len(s.keys)
                                 /\ s.checksum = Encode(s.keys)
          /\ s.kind = "raced" => \E rev \in Seq(Keys) :
                /\ IsBegin(s.keys, rev) /\ Len(s.keys) # Len(rev)
                /\ s.checksum = Encode(rev)

LEMMA SnapNext == SnapInv /\ [Next]_vars => SnapInv'
<1> SUFFICES ASSUME SnapInv, [Next]_vars PROVE SnapInv'
  OBVIOUS
<1> DEFINE fits(s) ==
        /\ s.kind = "quiet" => /\ Cardinality(ToSet(s.keys)) = Len(s.keys)
                               /\ s.checksum = Encode(s.keys)
        /\ s.kind = "raced" => \E rev \in Seq(Keys) :
              /\ IsBegin(s.keys, rev) /\ Len(s.keys) # Len(rev)
              /\ s.checksum = Encode(rev)
<1>1. IdInv'
  BY IdNext DEF SnapInv
<1>2. /\ map.rev \in Seq(Keys) /\ map'.rev \in Seq(Keys)
      /\ \A g \in Goroutines : op[g].keys \in Seq(Keys)
  BY <1>1 DEF SnapInv, IdInv, TypeOK, Map, Op
<1>3. \A s \in stored : fits(s)
  BY DEF SnapInv
<1> HIDE DEF fits
<1>4. ASSUME \A g \in Goroutines : op'[g].kind = "snapshot" => IsBegin(op'[g].keys, map'.rev),
             \A s \in stored' : s \in stored \/ fits(s)
      PROVE  SnapInv'
  <2>1. \A s \in stored' : fits(s)
    BY <1>3, <1>4
  <2> QED BY <1>1, <1>4, <2>1 DEF SnapInv, fits
<1>5. ASSUME NEW g \in Goroutines, InternSlow(g) PROVE SnapInv'
  <2>1. op[g].keys[1] \in Keys
    BY <1>5 DEF InternSlow, SnapInv, IdInv, TypeOK, Op
  <2>2. map' = InternLocked(map, op[g].keys[1]) /\ stored' = stored /\ op' = [op EXCEPT ![g] = none]
    BY <1>5 DEF InternSlow
  <2>3. \A i \in DOMAIN map.rev : i \in DOMAIN map'.rev /\ map'.rev[i] = map.rev[i]
    BY <2>1, <2>2, InternLockedKeeps DEF SnapInv, IdInv, TypeOK, OneIdPerKey
  <2>4. Len(map.rev) <= Len(map'.rev) /\ Len(map.rev) \in Nat /\ Len(map'.rev) \in Nat
    BY <1>2, <2>3
  <2>5. ASSUME NEW h \in Goroutines, op'[h].kind = "snapshot" PROVE IsBegin(op'[h].keys, map'.rev)
    <3>1. op'[h] = op[h]
      BY <2>2, <2>5 DEF SnapInv, IdInv, TypeOK, none
    <3>2. IsBegin(op[h].keys, map.rev)
      BY <2>5, <3>1 DEF SnapInv
    <3> QED BY <1>2, <2>3, <2>4, <3>1, <3>2 DEF IsBegin
  <2> QED BY <1>4, <2>2, <2>5
<1>6. ASSUME NEW g \in Goroutines, SnapshotKeys(g) PROVE SnapInv'
  <2>1. stored' = stored /\ map' = map /\ op' = [op EXCEPT ![g] = [kind |-> "snapshot", keys |-> map.rev]]
    BY <1>6 DEF SnapshotKeys
  <2>2. ASSUME NEW h \in Goroutines, op'[h].kind = "snapshot" PROVE IsBegin(op'[h].keys, map'.rev)
    <3>1. CASE h = g
      <4>1. op'[h].keys = map.rev
        BY <2>1, <3>1 DEF SnapInv, IdInv, TypeOK
      <4> QED BY <1>2, <2>1, <4>1 DEF IsBegin
    <3>2. CASE h # g
      BY <2>1, <2>2, <3>2 DEF SnapInv, IdInv, TypeOK
    <3> QED BY <3>1, <3>2
  <2> QED BY <1>4, <2>1, <2>2
<1>7. ASSUME NEW g \in Goroutines, SnapshotChecksum(g) PROVE SnapInv'
  <2> DEFINE keys == op[g].keys
             new == [keys |-> keys, checksum |-> Checksum(map),
                     kind |-> IF keys = map.rev THEN "quiet" ELSE "raced"]
  <2>1. op[g].kind = "snapshot" /\ stored' = stored \cup {new} /\ op' = [op EXCEPT ![g] = none]
        /\ map' = map
    BY <1>7 DEF SnapshotChecksum
  <2>2. IsBegin(keys, map.rev) /\ keys \in Seq(Keys)
    BY <1>2, <2>1 DEF SnapInv
  <2>3. new \in Snapshot
    BY <1>1, <2>1 DEF IdInv, TypeOK
  <2>4. ASSUME keys = map.rev PROVE fits(new)
    <3>1. Bijective(map)
      BY DEF Bijective, SnapInv, IdInv, TypeOK, OneIdPerKey
    <3>2. new.keys = map.rev /\ new.kind = "quiet" /\ new.checksum = Encode(new.keys)
      BY <2>4 DEF Checksum
    <3> HIDE DEF new
    <3>3. Cardinality(ToSet(new.keys)) = Len(new.keys)
      BY <2>3, <3>1, <3>2, DifferentKeys
    <3> QED BY <3>2, <3>3 DEF fits
  <2>5. ASSUME keys # map.rev PROVE fits(new)
    <3>1. new.keys = keys /\ new.kind = "raced" /\ new.checksum = Encode(map.rev)
      BY <2>5 DEF Checksum
    <3>2. Len(keys) # Len(map.rev)
      <4> SUFFICES ASSUME Len(keys) = Len(map.rev) PROVE FALSE
        OBVIOUS
      <4> HIDE DEF keys
      <4>1. keys = map.rev
        BY <1>2, <2>2, SameSequence DEF IsBegin
      <4> QED BY <2>5, <4>1
    <3> HIDE DEF new
    <3> QED BY <1>2, <2>2, <3>1, <3>2 DEF fits
  <2>6. fits(new)
    BY <2>4, <2>5
  <2> HIDE DEF new
  <2>7. ASSUME NEW h \in Goroutines, op'[h].kind = "snapshot" PROVE IsBegin(op'[h].keys, map'.rev)
    BY <2>1, <2>7 DEF SnapInv, IdInv, TypeOK, none
  <2> QED BY <1>4, <2>1, <2>6, <2>7
<1>8. ASSUME Damage PROVE SnapInv'
  <2>1. map' = map /\ op' = op
    BY <1>8 DEF Damage
  <2>2. \A s \in stored' : s \in stored \/ s.kind = "damaged"
    BY <1>8 DEF Damage
  <2>3. \A s \in stored' : s \in stored \/ fits(s)
    BY <2>2 DEF fits
  <2> QED BY <1>4, <2>1, <2>3 DEF SnapInv
<1>9. ASSUME NEW g \in Goroutines, NEW key \in Keys, InternFast(g, key) PROVE SnapInv'
  <2>1. map' = map /\ stored' = stored
        /\ (op' = op \/ op' = [op EXCEPT ![g] = [kind |-> "intern", keys |-> <<key>>]])
    BY <1>9 DEF InternFast
  <2>2. ASSUME NEW h \in Goroutines, op'[h].kind = "snapshot" PROVE IsBegin(op'[h].keys, map'.rev)
    BY <2>1, <2>2 DEF SnapInv, IdInv, TypeOK
  <2> QED BY <1>4, <2>1, <2>2
<1>10. CASE UNCHANGED vars
  BY <1>4, <1>10 DEF vars, SnapInv
<1> QED BY <1>5, <1>6, <1>7, <1>8, <1>9, <1>10 DEF Next

LEMMA SpecSnapInv == Spec => []SnapInv
<1>1. Init => SnapInv
  BY IdInit DEF SnapInv, Init, none
<1> QED BY <1>1, SnapNext, PTL DEF Spec

\* idmap.go:114-145: Load accepts what Snapshot has written exactly if no key
\* was interned between its two locks.
THEOREM SnapshotsReloadUnlessRaced == Spec => []SnapshotsReload
<1>1. ASSUME SnapInv, NEW s \in stored, s.kind # "damaged" PROVE Loads(s) <=> s.kind = "quiet"
  <2>1. s \in Snapshot /\ s.keys \in Seq(Keys) /\ s.kind \in {"quiet", "raced"}
    BY <1>1 DEF SnapInv, IdInv, TypeOK, Snapshot
  <2>2. CASE s.kind = "quiet"
    <3>1. Cardinality(ToSet(s.keys)) = Len(s.keys) /\ s.checksum = Encode(s.keys)
      BY <1>1, <2>2 DEF SnapInv
    <3>2. Loaded(s).rev = s.keys
      BY <2>1, <3>1, LoadedInOrder
    <3> QED BY <2>2, <3>1, <3>2 DEF Loads, Checksum
  <2>3. CASE s.kind = "raced"
    <3>1. PICK rev \in Seq(Keys) : /\ IsBegin(s.keys, rev) /\ Len(s.keys) # Len(rev)
                                   /\ s.checksum = Encode(rev)
      BY <1>1, <2>3 DEF SnapInv
    <3>2. Encode(s.keys) # Encode(rev)
      BY <2>1, <3>1, TextOf, EncodeGrows
    <3>3. ~Loads(s)
      <4> SUFFICES ASSUME Loads(s) PROVE FALSE
        OBVIOUS
      <4>1. Loaded(s).rev = s.keys
        BY <2>1, LoadedInOrder DEF Loads
      <4> QED BY <3>1, <3>2, <4>1 DEF Loads, Checksum
    <3> QED BY <2>3, <3>3
  <2> QED BY <2>1, <2>2, <2>3
<1>2. SnapInv => SnapshotsReload
  BY <1>1 DEF SnapshotsReload
<1> QED BY <1>2, SpecSnapInv, PTL

\* idmap.go:97, 129-145: a file Load accepts, whose checksum is one the live map
\* has had, gives every key it knows the id the live map gives it, whichever keys
\* it was damaged to, as long as it is Separable from the map's: without NULs in
\* the map's keys, and without NULs in its own or not shorter.
THEOREM SnapshotsAgree == Spec => []AcceptedSnapshotsAgree
<1>1. ASSUME IdInv, NEW s \in stored, NEW n \in 0 .. Len(map.rev), Loads(s),
             s.checksum = Encode(SubSeq(map.rev, 1, n)), Separable(s.keys, SubSeq(map.rev, 1, n)),
             NEW k \in Keys, Has(Loaded(s), k)
      PROVE  Loaded(s).fwd[k] = map.fwd[k]
  <2> DEFINE had == SubSeq(map.rev, 1, n)
             m == Loaded(s)
  <2>1. map.rev \in Seq(Keys) /\ Len(map.rev) \in Nat /\ n \in Nat /\ s \in Snapshot /\ s.keys \in Seq(Keys)
    BY <1>1 DEF IdInv, TypeOK, Map, Snapshot
  <2>2. had \in Seq(Keys) /\ Len(had) = n /\ \A i \in 1 .. n : had[i] = map.rev[i]
    BY <2>1
  <2>3. Bijective(m)
    BY <2>1, LoadedIsBijective
  <2>4. m.rev = s.keys
    BY <1>1, <2>1, LoadedInOrder DEF Loads
  <2>5. Encode(s.keys) = Encode(had)
    BY <1>1, <2>4 DEF Loads, Checksum
  <2>6. Separable(s.keys, had)
    BY <1>1
  <2>7. Has(m, k)
    BY <1>1
  <2> HIDE DEF had, m
  <2>8. s.keys = had
    BY <2>1, <2>2, <2>5, <2>6, TextOf, EncodeInjective
  <2>9. m.fwd[k] + 1 \in DOMAIN m.rev /\ m.rev[m.fwd[k] + 1] = k /\ m.rev \in Seq(Keys) /\ m.fwd[k] \in Nat
    BY <2>3, <2>7 DEF Bijective, Map, Has
  <2> DEFINE i == m.fwd[k] + 1
  <2>10. i \in 1 .. n /\ had[i] = k /\ i - 1 = m.fwd[k]
    BY <2>2, <2>4, <2>8, <2>9
  <2> HIDE DEF i
  <2>11. map.rev[i] = k /\ i \in DOMAIN map.rev
    BY <2>1, <2>2, <2>10
  <2>12. map.fwd[k] = i - 1
    BY <1>1, <2>11 DEF IdInv, OneIdPerKey
  <2> QED BY <2>10, <2>12 DEF m
<1>2. IdInv => AcceptedSnapshotsAgree
  BY <1>1 DEF AcceptedSnapshotsAgree
<1> QED BY <1>2, SpecIdInv, PTL

-----------------------------------------------------------------------------
\* idmap.go:96-107: for keys of any length and number, also ones that look like
\* ids, a replica and the map that are Separable hash the same text only if they
\* assign the same ids: the map's keys have no NUL, the replica's have none
\* either or are not fewer.  Without that, ChecksumsDecide has a counterexample.
THEOREM ChecksumsAreReliable == Spec => []ChecksumsSeparate
<1>1. TypeOK => ChecksumsSeparate
  <2> SUFFICES ASSUME TypeOK, NEW rev \in Replicas, Separable(rev, map.rev)
               PROVE  rev = map.rev <=> Encode(rev) = Encode(map.rev)
    BY DEF ChecksumsSeparate
  <2>1. map.rev \in Seq(Keys)
    BY DEF TypeOK, Map
  <2>2. map.rev \in Seq(Seq(Characters)) /\ rev \in Seq(Seq(Characters))
    BY <2>1, TextOf, MapAssumption
  <2> QED BY <2>2, EncodeInjective
<1> QED BY <1>1, IdMapTypeCorrect, PTL
=============================================================================
