-------------------------- MODULE CheckpointProofs --------------------------
(***************************************************************************)
(* The settlement checkpoint, for every set of actors, amounts, window     *)
(* size and threshold: its types, its solvency, its withdrawal gate, and   *)
(* that it implements Ledger.                                              *)
(*                                                                         *)
(* Netting is a fold over the legs and the money a fold over the accounts. *)
(* The first parts prove what is needed of them: induction over numbers    *)
(* and over the subsets of a finite set, stated for a SET of what has the  *)
(* property, how a fold unfolds, and sums.                                 *)
(***************************************************************************)
EXTENDS Checkpoint, FiniteSetTheorems, WellFoundedInduction, TLAPS

-----------------------------------------------------------------------------
(* Induction *)

\* A nonempty set of numbers has a least element.
LEMMA LeastOf ==
    ASSUME NEW T \in SUBSET Nat, T # {}
    PROVE  \E n \in T : \A m \in T : n <= m
<1> DEFINE R == OpToRel(<, Nat)
<1>1. IsWellFoundedOn(R, Nat)
  BY NatLessThanWellFounded, Zenon
<1>2. \A m, n \in Nat : m < n => <<m, n>> \in R
  BY DEF OpToRel
<1> HIDE DEF R
<1>3. PICK n \in T : \A m \in T : ~(<<m, n>> \in R)
  BY <1>1, WFMin
<1>4. \A m \in T : ~(m < n)
  BY <1>2, <1>3
<1> QED BY <1>4

\* Induction over the numbers, and over the subsets of a finite set, for a
\* property given as the set of what has it.
LEMMA AllNumbers ==
    ASSUME NEW T, \A n \in Nat : (\A m \in 0 .. n - 1 : m \in T) => n \in T
    PROVE  Nat \subseteq T
<1> SUFFICES ASSUME Nat \ T # {} PROVE FALSE
  OBVIOUS
<1>1. PICK n \in Nat \ T : \A m \in Nat \ T : n <= m
  BY LeastOf
<1>2. \A m \in 0 .. n - 1 : m \in T
  BY <1>1
<1> QED BY <1>2

LEMMA AllSubsets ==
    ASSUME NEW A, IsFiniteSet(A), NEW P,
           \A s \in SUBSET A : (\A t \in SUBSET s : t # s => t \in P) => s \in P
    PROVE  SUBSET A \subseteq P
<1> DEFINE T == {n \in Nat : \A s \in SUBSET A : Cardinality(s) = n => s \in P}
<1>1. \A s \in SUBSET A : IsFiniteSet(s) /\ Cardinality(s) \in Nat
  BY FS_Subset, FS_CardinalityType
<1>2. ASSUME NEW n \in Nat, \A m \in 0 .. n - 1 : m \in T PROVE n \in T
  <2> SUFFICES ASSUME NEW s \in SUBSET A, Cardinality(s) = n PROVE s \in P
    OBVIOUS
  <2>1. ASSUME NEW t \in SUBSET s, t # s PROVE t \in P
    <3>1. Cardinality(t) \in 0 .. n - 1
      BY <1>1, <2>1, FS_Subset
    <3> QED BY <1>2, <3>1
  <2> QED BY <2>1
<1> HIDE DEF T
<1>3. Nat \subseteq T
  BY <1>2, AllNumbers
<1> QED BY <1>1, <1>3 DEF T

-----------------------------------------------------------------------------
(* The two folds of the model: a sum over a set, and the netting of legs *)

Chosen(kind, s)     == IF kind = "sum" THEN CHOOSE x \in s : TRUE ELSE Max(s)
Base(kind)          == IF kind = "sum" THEN 0 ELSE [a \in Accounts |-> 0]
Combine(kind, x, v) == IF kind = "sum" THEN x + v ELSE AddLeg(v, x)

\* h is the fold of f on every subset of S.
Folds(h, kind, f, S) ==
    h = [s \in SUBSET S |-> IF s = {} THEN Base(kind)
                            ELSE Combine(kind, f[Chosen(kind, s)], h[s \ {Chosen(kind, s)}])]

Folded(kind, f, S) == (CHOOSE h : Folds(h, kind, f, S))[S]

\* One step of the fold, and any h that folds a larger set agrees with it.
Unfolds(kind, f, s) ==
    Folded(kind, f, s) = IF s = {} THEN Base(kind)
                         ELSE Combine(kind, f[Chosen(kind, s)], Folded(kind, f, s \ {Chosen(kind, s)}))
Agree(kind, f, s, A) ==
    /\ Unfolds(kind, f, s)
    /\ \A S \in SUBSET A : \A h : s \subseteq S /\ Folds(h, kind, f, S) => h[s] = Folded(kind, f, s)

LEMMA FoldUnfolds ==
    ASSUME NEW kind, NEW f, NEW A, IsFiniteSet(A),
           \A s \in SUBSET A : s # {} => Chosen(kind, s) \in s
    PROVE  /\ Unfolds(kind, f, A)
           /\ \E h : Folds(h, kind, f, A)
           /\ \A h : Folds(h, kind, f, A) => h[A] = Folded(kind, f, A)
<1>1. ASSUME NEW s \in SUBSET A, s # {} => Agree(kind, f, s \ {Chosen(kind, s)}, A),
             \A t \in SUBSET s : t # s => Agree(kind, f, t, A)
      PROVE  Agree(kind, f, s, A) /\ \E h : Folds(h, kind, f, s)
  <2> DEFINE g == [t \in SUBSET s |-> IF t = {} THEN Base(kind)
                      ELSE Combine(kind, f[Chosen(kind, t)], Folded(kind, f, t \ {Chosen(kind, t)}))]
  <2>1. \A t \in SUBSET s : t # s => g[t] = Folded(kind, f, t)
    BY <1>1 DEF Agree, Unfolds
  <2>2. \A t \in SUBSET s : t # {} => /\ t \ {Chosen(kind, t)} \in SUBSET s
                                      /\ t \ {Chosen(kind, t)} # s
    OBVIOUS
  <2>3. Folds(g, kind, f, s)
    <3>1. \A t \in SUBSET s : t # {} => g[t \ {Chosen(kind, t)}] = Folded(kind, f, t \ {Chosen(kind, t)})
      BY <2>1, <2>2
    <3> QED BY <3>1, Zenon DEF Folds
  <2> HIDE DEF g
  <2>4. PICK c : Folds(c, kind, f, s) /\ Folded(kind, f, s) = c[s]
    BY <2>3 DEF Folded
  <2>5. ASSUME NEW S \in SUBSET A, NEW h, s \subseteq S, Folds(h, kind, f, S)
        PROVE  h[s] = IF s = {} THEN Base(kind)
                      ELSE Combine(kind, f[Chosen(kind, s)], Folded(kind, f, s \ {Chosen(kind, s)}))
    <3>1. h[s] = IF s = {} THEN Base(kind)
                 ELSE Combine(kind, f[Chosen(kind, s)], h[s \ {Chosen(kind, s)}])
      BY <2>5 DEF Folds
    <3>2. s # {} => h[s \ {Chosen(kind, s)}] = Folded(kind, f, s \ {Chosen(kind, s)})
      BY <1>1, <2>5 DEF Agree
    <3> QED BY <3>1, <3>2
  <2>6. Unfolds(kind, f, s)
    BY <2>4, <2>5 DEF Unfolds
  <2> QED BY <2>3, <2>5, <2>6 DEF Agree, Unfolds
<1> DEFINE P == {s \in SUBSET A : Agree(kind, f, s, A)}
<1>2. \A s \in SUBSET A : (\A t \in SUBSET s : t # s => t \in P) => s \in P
  BY <1>1
<1> HIDE DEF P
<1>3. SUBSET A \subseteq P
  BY <1>2, AllSubsets
<1>4. \A s \in SUBSET A : Agree(kind, f, s, A)
  BY <1>3 DEF P
<1>5. \E h : Folds(h, kind, f, A)
  BY <1>1, <1>4
<1> QED BY <1>4, <1>5 DEF Agree

-----------------------------------------------------------------------------
(* Sums *)

Sum(f, S) == Folded("sum", f, S)

LEMMA SumIs ==
    ASSUME NEW f, NEW S, IsFiniteSet(S)
    PROVE  MapThenSumSet(LAMBDA x : f[x], S) = Sum(f, S)
<1> DEFINE Rec(h) == h = [s \in SUBSET S |-> IF s = {} THEN 0
                            ELSE f[CHOOSE x \in s : TRUE] + h[s \ {CHOOSE x \in s : TRUE}]]
<1>1. \A s \in SUBSET S : s # {} => Chosen("sum", s) \in s
  BY DEF Chosen
<1>2. \A h : Rec(h) <=> Folds(h, "sum", f, S)
  BY DEF Folds, Chosen, Base, Combine
<1>3. MapThenSumSet(LAMBDA x : f[x], S) = (CHOOSE h : Rec(h))[S]
  BY DEF MapThenSumSet, MapThenFoldSet
<1>4. (\E h : Rec(h)) => Rec(CHOOSE h : Rec(h))
  OBVIOUS
<1> HIDE DEF Rec
<1> QED BY <1>1, <1>2, <1>3, <1>4, FoldUnfolds DEF Sum

LEMMA SumUnfolds ==
    ASSUME NEW f, NEW S, IsFiniteSet(S)
    PROVE  /\ Sum(f, {}) = 0
           /\ S # {} => \E x \in S : Sum(f, S) = f[x] + Sum(f, S \ {x})
<1>1. \A s \in SUBSET S : s # {} => Chosen("sum", s) \in s
  BY DEF Chosen
<1>2. Unfolds("sum", f, S)
  BY <1>1, FoldUnfolds
<1>3. Unfolds("sum", f, {})
  BY FoldUnfolds, FS_EmptySet
<1> QED BY <1>1, <1>2, <1>3 DEF Unfolds, Sum, Base, Combine

LEMMA SumIsInt ==
    ASSUME NEW A, IsFiniteSet(A), NEW f, \A x \in A : f[x] \in Int
    PROVE  \A S \in SUBSET A : Sum(f, S) \in Int
<1> DEFINE P == {s \in SUBSET A : Sum(f, s) \in Int}
<1>1. ASSUME NEW s \in SUBSET A, \A t \in SUBSET s : t # s => t \in P PROVE s \in P
  <2>1. IsFiniteSet(s)
    BY FS_Subset
  <2>2. CASE s = {}
    BY <2>2, SumUnfolds, FS_EmptySet
  <2>3. CASE s # {}
    <3>1. PICK x \in s : Sum(f, s) = f[x] + Sum(f, s \ {x})
      BY <2>1, <2>3, SumUnfolds
    <3>2. Sum(f, s \ {x}) \in Int
      BY <1>1
    <3> QED BY <3>1, <3>2
  <2> QED BY <2>2, <2>3
<1> HIDE DEF P
<1>2. SUBSET A \subseteq P
  BY <1>1, AllSubsets
<1> QED BY <1>2 DEF P

\* The elements may be taken in any order.
LEMMA SumTakes ==
    ASSUME NEW A, IsFiniteSet(A), NEW f, \A x \in A : f[x] \in Int
    PROVE  \A S \in SUBSET A : \A x \in S : Sum(f, S) = f[x] + Sum(f, S \ {x})
<1> DEFINE P == {s \in SUBSET A : \A x \in s : Sum(f, s) = f[x] + Sum(f, s \ {x})}
<1>0. \A s \in SUBSET A : Sum(f, s) \in Int
  BY SumIsInt
<1>1. ASSUME NEW s \in SUBSET A, \A t \in SUBSET s : t # s => t \in P PROVE s \in P
  <2> SUFFICES ASSUME NEW x \in s PROVE Sum(f, s) = f[x] + Sum(f, s \ {x})
    OBVIOUS
  <2>1. PICK y \in s : Sum(f, s) = f[y] + Sum(f, s \ {y})
    BY FS_Subset, SumUnfolds
  <2>2. CASE x # y
    <3>1. Sum(f, s \ {y}) = f[x] + Sum(f, (s \ {y}) \ {x})
      BY <1>1, <2>2
    <3>2. Sum(f, s \ {x}) = f[y] + Sum(f, (s \ {x}) \ {y})
      BY <1>1, <2>2
    <3>3. (s \ {y}) \ {x} = (s \ {x}) \ {y}
      OBVIOUS
    <3>4. Sum(f, (s \ {x}) \ {y}) \in Int /\ f[x] \in Int /\ f[y] \in Int
      BY <1>0
    <3>5. Sum(f, s) = f[y] + (f[x] + Sum(f, (s \ {x}) \ {y}))
      BY <2>1, <3>1, <3>3
    <3>6. \A p, q, r \in Int : q + (p + r) = p + (q + r)
      OBVIOUS
    <3> QED BY <3>2, <3>4, <3>5, <3>6
  <2> QED BY <2>1, <2>2
<1> HIDE DEF P
<1>2. SUBSET A \subseteq P
  BY <1>1, AllSubsets
<1> QED BY <1>2 DEF P

LEMMA SumSame ==
    ASSUME NEW A, IsFiniteSet(A), NEW f, NEW g, \A x \in A : f[x] \in Int /\ g[x] = f[x]
    PROVE  Sum(g, A) = Sum(f, A)
<1> DEFINE P == {s \in SUBSET A : Sum(g, s) = Sum(f, s)}
<1>1. ASSUME NEW s \in SUBSET A, \A t \in SUBSET s : t # s => t \in P PROVE s \in P
  <2>1. CASE s = {}
    BY <2>1, SumUnfolds, FS_EmptySet
  <2>2. CASE s # {}
    <3>1. PICK x \in s : Sum(g, s) = g[x] + Sum(g, s \ {x})
      BY <2>2, FS_Subset, SumUnfolds
    <3>2. Sum(f, s) = f[x] + Sum(f, s \ {x})
      BY SumTakes
    <3>3. Sum(g, s \ {x}) = Sum(f, s \ {x})
      BY <1>1
    <3> QED BY <3>1, <3>2, <3>3
  <2> QED BY <2>1, <2>2
<1> HIDE DEF P
<1>2. SUBSET A \subseteq P
  BY <1>1, AllSubsets
<1> QED BY <1>2 DEF P

\* A sum of sums.
LEMMA SumPlus ==
    ASSUME NEW A, IsFiniteSet(A), NEW f, NEW g, NEW h,
           \A x \in A : f[x] \in Int /\ g[x] \in Int /\ h[x] = f[x] + g[x]
    PROVE  Sum(h, A) = Sum(f, A) + Sum(g, A)
<1> DEFINE P == {s \in SUBSET A : Sum(h, s) = Sum(f, s) + Sum(g, s)}
<1>0. \A s \in SUBSET A : Sum(f, s) \in Int /\ Sum(g, s) \in Int
  BY SumIsInt
<1>1. ASSUME NEW s \in SUBSET A, \A t \in SUBSET s : t # s => t \in P PROVE s \in P
  <2>1. CASE s = {}
    BY <2>1, SumUnfolds, FS_EmptySet
  <2>2. CASE s # {}
    <3>1. PICK x \in s : Sum(h, s) = h[x] + Sum(h, s \ {x})
      BY <2>2, FS_Subset, SumUnfolds
    <3>2. Sum(f, s) = f[x] + Sum(f, s \ {x}) /\ Sum(g, s) = g[x] + Sum(g, s \ {x})
      BY SumTakes
    <3>3. Sum(h, s \ {x}) = Sum(f, s \ {x}) + Sum(g, s \ {x})
      BY <1>1
    <3>4. /\ f[x] \in Int /\ g[x] \in Int /\ h[x] = f[x] + g[x]
          /\ Sum(f, s \ {x}) \in Int /\ Sum(g, s \ {x}) \in Int
      BY <1>0
    <3> QED BY <3>1, <3>2, <3>3, <3>4
  <2> QED BY <2>1, <2>2
<1> HIDE DEF P
<1>2. SUBSET A \subseteq P
  BY <1>1, AllSubsets
<1> QED BY <1>2 DEF P

\* Changing one term changes the sum by as much.
LEMMA SumChanges ==
    ASSUME NEW A, IsFiniteSet(A), NEW f, NEW g, NEW x \in A,
           \A y \in A : f[y] \in Int /\ g[y] \in Int, \A y \in A \ {x} : g[y] = f[y]
    PROVE  Sum(g, A) = Sum(f, A) + (g[x] - f[x])
<1>1. Sum(g, A) = g[x] + Sum(g, A \ {x}) /\ Sum(f, A) = f[x] + Sum(f, A \ {x})
  BY SumTakes
<1>2. Sum(g, A \ {x}) = Sum(f, A \ {x})
  BY SumSame, FS_Subset
<1>3. Sum(f, A \ {x}) \in Int
  BY SumIsInt
<1> QED BY <1>1, <1>2, <1>3

\* No term of a sum of numbers exceeds it.
LEMMA SumBounds ==
    ASSUME NEW A, IsFiniteSet(A), NEW f, \A x \in A : f[x] \in Nat
    PROVE  Sum(f, A) \in Nat /\ \A x \in A : f[x] <= Sum(f, A)
<1> DEFINE P == {s \in SUBSET A : Sum(f, s) \in Nat}
<1>1. ASSUME NEW s \in SUBSET A, \A t \in SUBSET s : t # s => t \in P PROVE s \in P
  <2>1. CASE s = {}
    BY <2>1, SumUnfolds, FS_EmptySet
  <2>2. CASE s # {}
    <3>1. PICK x \in s : Sum(f, s) = f[x] + Sum(f, s \ {x})
      BY <2>2, FS_Subset, SumUnfolds
    <3>2. Sum(f, s \ {x}) \in Nat
      BY <1>1
    <3> QED BY <3>1, <3>2
  <2> QED BY <2>1, <2>2
<1> HIDE DEF P
<1>2. SUBSET A \subseteq P
  BY <1>1, AllSubsets
<1>3. \A s \in SUBSET A : Sum(f, s) \in Nat
  BY <1>2 DEF P
<1>4. ASSUME NEW x \in A PROVE f[x] <= Sum(f, A)
  <2>1. Sum(f, A) = f[x] + Sum(f, A \ {x})
    BY SumTakes
  <2>2. Sum(f, A \ {x}) \in Nat /\ f[x] \in Nat
    BY <1>3
  <2> QED BY <2>1, <2>2
<1> QED BY <1>3, <1>4

-----------------------------------------------------------------------------
(* int64 *)

LEMMA SmallStays == \A x \in Int64 : Wrap(x) = x
<1> SUFFICES ASSUME NEW x \in Int64 PROVE Wrap(x) = x
  OBVIOUS
<1>1. x + IntLimit \in 0 .. 2 * IntLimit - 1 /\ 2 * IntLimit \in Nat \ {0} /\ x \in Int
  BY BookAssumption DEF Int64
<1>2. (x + IntLimit) % (2 * IntLimit) = x + IntLimit
  <2>1. \A y, m \in Nat : y < m => y % m = y
    OBVIOUS
  <2> QED BY <1>1, <2>1
<1> QED BY <1>1, <1>2, BookAssumption DEF Wrap

LEMMA WrapIsInt64 == \A x \in Int : Wrap(x) \in Int64
<1> SUFFICES ASSUME NEW x \in Int PROVE Wrap(x) \in Int64
  OBVIOUS
<1> DEFINE m == 2 * IntLimit
           r == (x + IntLimit) % m
<1>1. m \in Nat \ {0}
  BY BookAssumption
<1>2. r \in 0 .. m - 1
  <2> HIDE DEF m
  <2> QED BY <1>1, BookAssumption
<1> QED BY <1>2, BookAssumption DEF Wrap, Int64

\* A sum too large for an int64 by less than its range comes out negative.
LEMMA LargeIsNegative == \A x \in IntLimit .. 2 * IntLimit - 1 : Wrap(x) < 0
<1> SUFFICES ASSUME NEW x \in IntLimit .. 2 * IntLimit - 1 PROVE Wrap(x) < 0
  OBVIOUS
<1> DEFINE m == 2 * IntLimit
<1>1. m \in Nat \ {0} /\ x + IntLimit - m \in 0 .. m - 1 /\ x + IntLimit \in Nat /\ x \in Int
      /\ x + IntLimit = m + (x + IntLimit - m)
  BY BookAssumption
<1>2. (x + IntLimit) % m = x + IntLimit - m
  <2> HIDE DEF m
  <2>1. \A y \in Nat : m <= y /\ y - m < m => y % m = y - m
    BY <1>1
  <2> QED BY <1>1, <2>1
<1> QED BY <1>1, <1>2, BookAssumption DEF Wrap

-----------------------------------------------------------------------------
(* Netting *)

LEMMA TermChanges ==
    ASSUME IsFiniteSet(Accounts), NEW f \in [Accounts -> Int], NEW g \in [Accounts -> Int],
           NEW x \in Accounts, \A y \in Accounts \ {x} : g[y] = f[y]
    PROVE  Sum(g, Accounts) = Sum(f, Accounts) + (g[x] - f[x])
<1>1. \A y \in Accounts : f[y] \in Int /\ g[y] \in Int
  OBVIOUS
<1> QED BY <1>1, SumChanges

\* One leg moves its amount from payer to receiver while it fits an int64.
LEMMA LegMoves ==
    ASSUME IsFiniteSet(Accounts), NEW v \in [Accounts -> Int], NEW leg \in Leg, leg.amount \in Nat,
           \A a \in Accounts : v[a] - leg.amount \in Int64 /\ v[a] + leg.amount \in Int64
    PROVE  /\ AddLeg(v, leg) \in [Accounts -> Int]
           /\ \A a \in Accounts :
                 AddLeg(v, leg)[a] = IF a = leg.to /\ a # leg.from THEN v[a] + leg.amount
                                     ELSE IF a = leg.from /\ a # leg.to THEN v[a] - leg.amount
                                     ELSE v[a]
           /\ Sum(AddLeg(v, leg), Accounts) = Sum(v, Accounts)
<1> DEFINE n == leg.amount
           p == leg.from
           q == leg.to
           u == [v EXCEPT ![p] = v[p] - n]
           w == [u EXCEPT ![q] = u[q] + n]
<1>0. n \in Nat /\ p \in Accounts /\ q \in Accounts
  BY DEF Leg
<1>1. Int64 \subseteq Int /\ \A x \in Int64 : Wrap(x) = x
  BY SmallStays, BookAssumption DEF Int64
<1>2. [v EXCEPT ![p] = Wrap(v[p] - n)] = u
  BY <1>0, <1>1
<1>3. u \in [Accounts -> Int] /\ u[p] = v[p] - n /\ \A a \in Accounts \ {p} : u[a] = v[a]
  BY <1>0
<1> HIDE DEF u
<1>4. Wrap(u[q] + n) = u[q] + n
  <2>1. CASE q = p
    <3>1. v[p] \in Int /\ v[p] - n \in Int64 /\ v[p] + n \in Int64
      BY <1>0
    <3>2. u[q] + n = v[p]
      BY <1>0, <1>3, <2>1, <3>1
    <3>3. v[p] \in Int64
      BY <1>0, <3>1, BookAssumption DEF Int64
    <3> QED BY <1>1, <3>2, <3>3
  <2>2. CASE q # p
    BY <1>0, <1>1, <1>3, <2>2
  <2> QED BY <2>1, <2>2
<1>5. AddLeg(v, leg) = w
  <2>1. AddLeg(v, leg) = [u EXCEPT ![q] = Wrap(u[q] + n)]
    BY <1>2 DEF AddLeg
  <2> QED BY <1>4, <2>1
<1>6. w \in [Accounts -> Int] /\ w[q] = u[q] + n /\ \A a \in Accounts \ {q} : w[a] = u[a]
  BY <1>0, <1>3
<1> HIDE DEF w
<1>7. Sum(u, Accounts) = Sum(v, Accounts) + (u[p] - v[p])
  BY <1>0, <1>3, TermChanges
<1>8. Sum(w, Accounts) = Sum(u, Accounts) + (w[q] - u[q])
  BY <1>0, <1>3, <1>6, TermChanges
<1>9. Sum(w, Accounts) = Sum(v, Accounts)
  <2>1. Sum(v, Accounts) \in Int
    BY SumIsInt
  <2>2. u[p] - v[p] = -n /\ w[q] - u[q] = n /\ n \in Int
    BY <1>0, <1>3, <1>6
  <2> QED BY <1>7, <1>8, <2>1, <2>2
<1>10. ASSUME NEW a \in Accounts
       PROVE  w[a] = IF a = q /\ a # p THEN v[a] + n ELSE IF a = p /\ a # q THEN v[a] - n ELSE v[a]
  <2>1. v[a] \in Int
    OBVIOUS
  <2>2. CASE a = q /\ a = p
    BY <1>0, <1>3, <1>6, <2>1, <2>2
  <2>3. CASE a # q \/ a # p
    BY <1>0, <1>3, <1>6, <2>1, <2>3
  <2> QED BY <2>2, <2>3
<1> QED BY <1>5, <1>6, <1>9, <1>10

\* What a gets and pays in the legs of I.
Moves(legs)      == [i \in DOMAIN legs |-> legs[i].amount]
Got(legs, I, a)  == Sum(Moves(legs), {i \in I : legs[i].to = a})
Paid(legs, I, a) == Sum(Moves(legs), {i \in I : legs[i].from = a})

LEMMA MaxIs ==
    ASSUME NEW n \in Nat, NEW s \in SUBSET (1 .. n), s # {}
    PROVE  Max(s) \in s /\ \A x \in s : x <= Max(s)
<1> DEFINE T == {m \in Nat : \E x \in s : m = n - x}
<1>1. PICK z \in s : TRUE
  OBVIOUS
<1>2. n - z \in T
  OBVIOUS
<1>3. PICK t \in T : \A m \in T : t <= m
  BY <1>2, LeastOf
<1>4. PICK x \in s : t = n - x
  OBVIOUS
<1>5. ASSUME NEW y \in s PROVE y <= x
  <2>1. n - y \in T
    OBVIOUS
  <2>2. n - x <= n - y
    BY <1>3, <1>4, <2>1
  <2> QED BY <2>2
<1> QED BY <1>5 DEF Max

LEMMA MinIs ==
    ASSUME NEW s \in SUBSET Nat, s # {}
    PROVE  Min(s) \in s
BY LeastOf DEF Min

\* Netted folds AddLeg over the legs in order.
LEMMA NettedIs ==
    ASSUME NEW n \in Nat, NEW legs \in [1 .. n -> Leg]
    PROVE  /\ Netted(legs) = Folded("net", legs, 1 .. n)
           /\ Folded("net", legs, {}) = [a \in Accounts |-> 0]
           /\ \A k \in 1 .. n : Folded("net", legs, 1 .. k) = AddLeg(Folded("net", legs, 1 .. k - 1), legs[k])
<1>0. \A k \in Nat : IsFiniteSet(1 .. k)
  BY FS_Interval
<1>1. \A k \in 0 .. n : \A s \in SUBSET (1 .. k) : s # {} => Chosen("net", s) \in s
  <2> SUFFICES ASSUME NEW k \in 0 .. n, NEW s \in SUBSET (1 .. k), s # {} PROVE Chosen("net", s) \in s
    OBVIOUS
  <2>1. k \in Nat
    OBVIOUS
  <2>2. Max(s) \in s
    BY <2>1, MaxIs
  <2> QED BY <2>2 DEF Chosen
<1>2. \A k \in 0 .. n : /\ Unfolds("net", legs, 1 .. k)
                        /\ \E h : Folds(h, "net", legs, 1 .. k)
                        /\ \A h : Folds(h, "net", legs, 1 .. k) => h[1 .. k] = Folded("net", legs, 1 .. k)
  <2> SUFFICES ASSUME NEW k \in 0 .. n
               PROVE  /\ Unfolds("net", legs, 1 .. k)
                      /\ \E h : Folds(h, "net", legs, 1 .. k)
                      /\ \A h : Folds(h, "net", legs, 1 .. k) => h[1 .. k] = Folded("net", legs, 1 .. k)
    OBVIOUS
  <2>1. IsFiniteSet(1 .. k) /\ \A s \in SUBSET (1 .. k) : s # {} => Chosen("net", s) \in s
    BY <1>0, <1>1
  <2> QED BY <2>1, FoldUnfolds
<1>3. Netted(legs) = Folded("net", legs, 1 .. n)
  <2> DEFINE Rec(h) == h = [s \in SUBSET (1 .. n) |-> IF s = {} THEN [a \in Accounts |-> 0]
                                                     ELSE AddLeg(h[s \ {Max(s)}], legs[Max(s)])]
  <2>1. DOMAIN legs = 1 .. n
    OBVIOUS
  <2>2. Netted(legs) = (CHOOSE h : Rec(h))[1 .. n]
    BY <2>1 DEF Netted, FoldLeft, MapThenFoldSet
  <2>3. \A h : Rec(h) <=> Folds(h, "net", legs, 1 .. n)
    BY DEF Folds, Chosen, Base, Combine
  <2>4. (\E h : Rec(h)) => Rec(CHOOSE h : Rec(h))
    OBVIOUS
  <2> HIDE DEF Rec
  <2> QED BY <1>2, <2>2, <2>3, <2>4
<1>4. Folded("net", legs, {}) = [a \in Accounts |-> 0]
  <2>1. 1 .. 0 = {}
    OBVIOUS
  <2> QED BY <1>2, <2>1 DEF Unfolds, Base
<1>5. ASSUME NEW k \in 1 .. n
      PROVE  Folded("net", legs, 1 .. k) = AddLeg(Folded("net", legs, 1 .. k - 1), legs[k])
  <2>1. /\ (1 .. k) \ {k} = 1 .. k - 1 /\ 1 .. k # {} /\ k \in 1 .. k /\ k \in Nat
        /\ 1 .. k \in SUBSET (1 .. k)
    BY Z3
  <2>2. Max(1 .. k) \in 1 .. k /\ k <= Max(1 .. k)
    BY <2>1, MaxIs
  <2>3. Max(1 .. k) = k
    BY <2>1, <2>2
  <2>4. Chosen("net", 1 .. k) = k
    BY <2>3 DEF Chosen
  <2>5. Unfolds("net", legs, 1 .. k)
    BY <1>2
  <2> QED BY <2>1, <2>4, <2>5 DEF Unfolds, Combine
<1> QED BY <1>3, <1>4, <1>5

LEMMA SumZero == IsFiniteSet(Accounts) => Sum([a \in Accounts |-> 0], Accounts) = 0
<1> SUFFICES ASSUME IsFiniteSet(Accounts) PROVE Sum([a \in Accounts |-> 0], Accounts) = 0
  OBVIOUS
<1> DEFINE z == [a \in Accounts |-> 0]
<1>1. \A a \in Accounts : z[a] \in Int /\ z[a] = z[a] + z[a]
  OBVIOUS
<1> HIDE DEF z
<1>2. Sum(z, Accounts) = Sum(z, Accounts) + Sum(z, Accounts)
  BY <1>1, SumPlus
<1>3. Sum(z, Accounts) \in Int
  BY <1>1, SumIsInt
<1>4. \A x \in Int : x = x + x => x = 0
  OBVIOUS
<1>5. Sum(z, Accounts) = 0
  BY <1>2, <1>3, <1>4
<1> QED BY <1>5 DEF z

\* One leg more in a sum over some of the legs.
LEMMA OneLegMore ==
    ASSUME NEW k \in Nat \ {0}, NEW m, \A i \in 1 .. k : m[i] \in Int, NEW S
    PROVE  /\ k \in S => Sum(m, (1 .. k) \cap S) = m[k] + Sum(m, (1 .. k - 1) \cap S)
           /\ k \notin S => (1 .. k) \cap S = (1 .. k - 1) \cap S
<1>1. IsFiniteSet(1 .. k) /\ (1 .. k) \cap S \in SUBSET (1 .. k)
  BY FS_Interval
<1>2. CASE k \in S
  <2>1. k \in (1 .. k) \cap S /\ ((1 .. k) \cap S) \ {k} = (1 .. k - 1) \cap S
    BY <1>2
  <2> QED BY <1>1, <1>2, <2>1, SumTakes
<1>3. CASE k \notin S
  BY <1>3
<1> QED BY <1>2, <1>3

\* The netting of the first k legs is exact and moves money only.
NetUpTo(legs, k, most) ==
    LET v == Folded("net", legs, 1 .. k)
    IN  /\ v \in [Accounts -> Int]
        /\ Sum(v, Accounts) = 0
        /\ \A a \in Accounts : /\ v[a] = Got(legs, 1 .. k, a) - Paid(legs, 1 .. k, a)
                               /\ v[a] \in -(k * most) .. k * most

LEMMA NettingIsExact ==
    ASSUME IsFiniteSet(Accounts), NEW n \in Nat, NEW legs \in [1 .. n -> Leg], NEW most \in Nat,
           n * most < IntLimit, \A i \in 1 .. n : legs[i].amount \in 1 .. most
    PROVE  NetUpTo(legs, n, most)
<1> DEFINE P == {k \in Nat : k <= n => NetUpTo(legs, k, most)}
<1>1. NetUpTo(legs, 0, most)
  <2>1. 1 .. 0 = {}
    OBVIOUS
  <2>2. Folded("net", legs, 1 .. 0) = [a \in Accounts |-> 0]
    BY <2>1, NettedIs
  <2>3. \A a \in Accounts : Got(legs, 1 .. 0, a) = 0 /\ Paid(legs, 1 .. 0, a) = 0
    <3>1. \A S : S = {} => Sum(Moves(legs), S) = 0
      BY SumUnfolds, FS_EmptySet
    <3>2. \A a : {i \in 1 .. 0 : legs[i].to = a} = {} /\ {i \in 1 .. 0 : legs[i].from = a} = {}
      BY <2>1
    <3> QED BY <3>1, <3>2 DEF Got, Paid
  <2>4. \A a \in Accounts : /\ [b \in Accounts |-> 0][a] = Got(legs, 1 .. 0, a) - Paid(legs, 1 .. 0, a)
                            /\ [b \in Accounts |-> 0][a] \in -(0 * most) .. 0 * most
    BY <2>3
  <2> QED BY <2>2, <2>4, SumZero DEF NetUpTo
<1>2. ASSUME NEW k \in 1 .. n, NetUpTo(legs, k - 1, most) PROVE NetUpTo(legs, k, most)
  <2> DEFINE v == Folded("net", legs, 1 .. k - 1)
             leg == legs[k]
             b == (k - 1) * most
  <2>1. /\ v \in [Accounts -> Int] /\ Sum(v, Accounts) = 0
        /\ \A a \in Accounts : /\ v[a] = Got(legs, 1 .. k - 1, a) - Paid(legs, 1 .. k - 1, a)
                               /\ v[a] \in -b .. b
    BY <1>2 DEF NetUpTo
  <2>2. Folded("net", legs, 1 .. k) = AddLeg(v, leg) /\ leg \in Leg /\ leg.amount \in 1 .. most
    BY NettedIs
  <2>3. b \in Nat /\ b + most = k * most /\ b + most < IntLimit
    <3>1. (k - 1) * most \in Nat /\ (k - 1) * most + most = k * most
      OBVIOUS
    <3>2. k * most <= n * most
      OBVIOUS
    <3>3. k * most \in Nat /\ n * most \in Nat
      OBVIOUS
    <3>4. \A x, y, z, m \in Nat : x + m = y /\ y <= z /\ z < IntLimit => x + m < IntLimit
      BY BookAssumption
    <3> QED BY <3>1, <3>2, <3>3, <3>4
  <2> HIDE DEF v, leg, b
  <2>4. \A a \in Accounts : /\ v[a] \in -b .. b
                            /\ v[a] - leg.amount \in -(b + most) .. b + most
                            /\ v[a] + leg.amount \in -(b + most) .. b + most
    <3>1. \A x, y \in Int : x \in -b .. b /\ y \in 1 .. most =>
              x - y \in -(b + most) .. b + most /\ x + y \in -(b + most) .. b + most
      BY <2>3
    <3>2. \A a \in Accounts : v[a] \in -b .. b /\ v[a] \in Int
      BY <2>1
    <3>3. leg.amount \in Int
      BY <2>2
    <3> QED BY <2>2, <3>1, <3>2, <3>3
  <2>5. \A a \in Accounts : v[a] - leg.amount \in Int64 /\ v[a] + leg.amount \in Int64
    BY <2>3, <2>4, BookAssumption DEF Int64
  <2>6. /\ AddLeg(v, leg) \in [Accounts -> Int]
        /\ Sum(AddLeg(v, leg), Accounts) = Sum(v, Accounts)
        /\ \A a \in Accounts :
              AddLeg(v, leg)[a] = IF a = leg.to /\ a # leg.from THEN v[a] + leg.amount
                                  ELSE IF a = leg.from /\ a # leg.to THEN v[a] - leg.amount
                                  ELSE v[a]
    <3>1. v \in [Accounts -> Int] /\ leg \in Leg /\ leg.amount \in Nat
      BY <2>1, <2>2
    <3> QED BY <2>5, <3>1, LegMoves
  <2>7. \A a \in Accounts : AddLeg(v, leg)[a] \in -(b + most) .. b + most
    <3>1. \A a \in Accounts : v[a] \in -(b + most) .. b + most
      BY <2>3, <2>4
    <3> QED BY <2>4, <2>6, <3>1
  <2>8. ASSUME NEW a \in Accounts
        PROVE  AddLeg(v, leg)[a] = Got(legs, 1 .. k, a) - Paid(legs, 1 .. k, a)
    <3> DEFINE to == {i \in 1 .. n : legs[i].to = a}
               from == {i \in 1 .. n : legs[i].from = a}
               m == Moves(legs)
               g == Got(legs, 1 .. k - 1, a)
               p == Paid(legs, 1 .. k - 1, a)
    <3>1. \A i \in 1 .. n : m[i] = legs[i].amount /\ m[i] \in Int
      BY DEF Moves
    <3>2. ASSUME NEW j \in 0 .. n
          PROVE  Got(legs, 1 .. j, a) = Sum(m, (1 .. j) \cap to) /\ Paid(legs, 1 .. j, a) = Sum(m, (1 .. j) \cap from)
      <4>1. /\ {i \in 1 .. j : legs[i].to = a} = (1 .. j) \cap to
            /\ {i \in 1 .. j : legs[i].from = a} = (1 .. j) \cap from
        OBVIOUS
      <4> QED BY <4>1 DEF Got, Paid
    <3>3. /\ k \in to <=> a = leg.to
          /\ k \in from <=> a = leg.from
          /\ m[k] = leg.amount /\ leg.amount \in Int
      <4>1. k \in 1 .. n
        OBVIOUS
      <4> QED BY <2>2, <3>1, <4>1 DEF leg
    <3>4. g = Sum(m, (1 .. k - 1) \cap to) /\ p = Sum(m, (1 .. k - 1) \cap from)
      <4>1. k - 1 \in 0 .. n
        OBVIOUS
      <4> HIDE DEF m, to, from
      <4> QED BY <3>2, <4>1
    <3>5. g \in Int /\ p \in Int
      <4>1. IsFiniteSet(1 .. n) /\ (1 .. k - 1) \cap to \in SUBSET (1 .. n)
            /\ (1 .. k - 1) \cap from \in SUBSET (1 .. n)
        BY FS_Interval
      <4> HIDE DEF m, to, from
      <4> QED BY <3>1, <3>4, <4>1, SumIsInt
    <3> HIDE DEF m, to, from
    <3>6. /\ a = leg.to => Got(legs, 1 .. k, a) = leg.amount + g
          /\ a # leg.to => Got(legs, 1 .. k, a) = g
      <4>0. k \in 0 .. n /\ k \in Nat \ {0} /\ \A i \in 1 .. k : m[i] \in Int
        BY <3>1
      <4>1. Got(legs, 1 .. k, a) = Sum(m, (1 .. k) \cap to)
        BY <3>2, <4>0
      <4>2. /\ k \in to => Sum(m, (1 .. k) \cap to) = m[k] + Sum(m, (1 .. k - 1) \cap to)
            /\ k \notin to => (1 .. k) \cap to = (1 .. k - 1) \cap to
        BY <4>0, OneLegMore
      <4> HIDE DEF g, p
      <4> QED BY <3>3, <3>4, <4>1, <4>2
    <3>7. /\ a = leg.from => Paid(legs, 1 .. k, a) = leg.amount + p
          /\ a # leg.from => Paid(legs, 1 .. k, a) = p
      <4>0. k \in 0 .. n /\ k \in Nat \ {0} /\ \A i \in 1 .. k : m[i] \in Int
        BY <3>1
      <4>1. Paid(legs, 1 .. k, a) = Sum(m, (1 .. k) \cap from)
        BY <3>2, <4>0
      <4>2. /\ k \in from => Sum(m, (1 .. k) \cap from) = m[k] + Sum(m, (1 .. k - 1) \cap from)
            /\ k \notin from => (1 .. k) \cap from = (1 .. k - 1) \cap from
        BY <4>0, OneLegMore
      <4> HIDE DEF g, p
      <4> QED BY <3>3, <3>4, <4>1, <4>2
    <3>8. v[a] = g - p
      BY <2>1
    <3> HIDE DEF g, p
    <3> QED BY <2>6, <3>3, <3>5, <3>6, <3>7, <3>8
  <2> QED BY <2>1, <2>2, <2>3, <2>6, <2>7, <2>8 DEF NetUpTo
<1>3. ASSUME NEW k \in Nat, \A j \in 0 .. k - 1 : j \in P PROVE k \in P
  <2>1. CASE k = 0
    BY <1>1, <2>1
  <2>2. CASE k \in 1 .. n
    BY <1>2, <1>3, <2>2
  <2> QED BY <2>1, <2>2
<1> HIDE DEF P
<1>4. Nat \subseteq P
  BY <1>3, AllNumbers
<1> QED BY <1>4 DEF P

-----------------------------------------------------------------------------
(* Settlements *)

LEMMA LegsAre ==
    ASSUME NEW legs \in Settlements
    PROVE  \E n \in 0 .. MaxLegs : legs \in [1 .. n -> Leg]
BY DEF Settlements, BoundedSeq, SeqOf

LEMMA PartiesAre ==
    ASSUME NEW n \in Nat, NEW legs \in [1 .. n -> Leg]
    PROVE  /\ Parties(legs) \subseteq Accounts
           /\ \A a : a \notin Parties(legs) => \A i \in 1 .. n : legs[i].to # a /\ legs[i].from # a
<1>1. DOMAIN legs = 1 .. n /\ \A i \in 1 .. n : legs[i] \in Leg
  OBVIOUS
<1>2. \A i \in 1 .. n : legs[i].from \in Accounts /\ legs[i].to \in Accounts
  BY <1>1 DEF Leg
<1>3. ToSet(legs) = {legs[i] : i \in 1 .. n}
  BY <1>1 DEF ToSet
<1>4. Parties(legs) \subseteq Accounts
  BY <1>2, <1>3 DEF Parties
<1>5. \A i \in 1 .. n : legs[i].from \in Parties(legs) /\ legs[i].to \in Parties(legs)
  BY <1>3 DEF Parties
<1> QED BY <1>4, <1>5

-----------------------------------------------------------------------------
(* Types *)

\* Netting wraps around and so stays in an int64, whatever the legs.
LEMMA NettedTyped ==
    ASSUME NEW n \in Nat, NEW legs \in [1 .. n -> Leg]
    PROVE  Netted(legs) \in [Accounts -> Int64]
<1> DEFINE P == {k \in Nat : k <= n => Folded("net", legs, 1 .. k) \in [Accounts -> Int64]}
<1>1. ASSUME NEW k \in Nat, \A j \in 0 .. k - 1 : j \in P, k <= n
      PROVE  Folded("net", legs, 1 .. k) \in [Accounts -> Int64]
  <2>1. CASE k = 0
    <3>1. 1 .. k = {} /\ 0 \in Int64
      BY <2>1, BookAssumption DEF Int64
    <3> QED BY <3>1, NettedIs
  <2>2. CASE k # 0
    <3> DEFINE v == Folded("net", legs, 1 .. k - 1)
               leg == legs[k]
    <3>1. k - 1 \in P /\ k \in 1 .. n /\ k - 1 <= n
      BY <1>1, <2>2
    <3>2. v \in [Accounts -> Int64] /\ leg \in Leg
      BY <3>1
    <3>3. Folded("net", legs, 1 .. k) = AddLeg(v, leg)
      BY <3>1, NettedIs
    <3> HIDE DEF v, leg
    <3>4. leg.from \in Accounts /\ leg.to \in Accounts /\ leg.amount \in Int /\ Int64 \subseteq Int
      <4>1. leg.from \in Accounts /\ leg.to \in Accounts /\ leg.amount \in Amounts
        BY <3>2 DEF Leg
      <4>2. Int64 \subseteq Int
        BY BookAssumption DEF Int64
      <4> QED BY <4>1, <4>2, BookAssumption
    <3> DEFINE u == [v EXCEPT ![leg.from] = Wrap(v[leg.from] - leg.amount)]
    <3>5. u \in [Accounts -> Int64]
      <4>1. v[leg.from] - leg.amount \in Int
        <5>1. v[leg.from] \in Int
          BY <3>2, <3>4
        <5>2. \A x, y \in Int : x - y \in Int
          OBVIOUS
        <5> QED BY <3>4, <5>1, <5>2
      <4> QED BY <3>2, <4>1, WrapIsInt64
    <3>6. AddLeg(v, leg) = [u EXCEPT ![leg.to] = Wrap(u[leg.to] + leg.amount)]
      BY DEF AddLeg
    <3> HIDE DEF u
    <3>7. u[leg.to] + leg.amount \in Int
      <4>1. u[leg.to] \in Int
        BY <3>4, <3>5
      <4>2. \A x, y \in Int : x + y \in Int
        OBVIOUS
      <4> QED BY <3>4, <4>1, <4>2
    <3> QED BY <3>3, <3>5, <3>6, <3>7, WrapIsInt64
  <2> QED BY <2>1, <2>2
<1>2. \A k \in Nat : (\A j \in 0 .. k - 1 : j \in P) => k \in P
  BY <1>1
<1> HIDE DEF P
<1>3. n \in P
  BY <1>2, AllNumbers
<1> QED BY <1>3, NettedIs DEF P

\* No actor fails more often than Settle is called.
TypeInv ==
    /\ TypeOK
    /\ DOMAIN flagged = Accounts
    /\ \A w \in Windows, a \in Accounts : failures[w][a] <= calls

LEMMA TypeInit == Init => TypeInv
<1>1. 0 \in Int64
  BY BookAssumption DEF Int64
<1> QED BY <1>1, BookAssumption DEF Init, TypeInv, TypeOK

LEMMA FailKeepsTypes ==
    ASSUME TypeInv, Called, NEW a, NEW legs \in Settlements, NEW w \in Windows, Fail(a, legs, w),
           UNCHANGED <<banned, credited>>
    PROVE  TypeInv'
<1> DEFINE n == failures[w][a] + 1
           alert == [window |-> w, failures |-> n, counterparties |-> Parties(legs) \ {a}]
<1>0. calls' = calls + 1 /\ calls \in 0 .. MaxCalls /\ calls' \in 0 .. MaxCalls
  BY BookAssumption DEF Called, TypeInv, TypeOK
<1>1. CASE a \notin Accounts
  <2>1. /\ failures' \in [Windows -> [Accounts -> 0 .. MaxCalls]]
        /\ \A v \in Windows, b \in Accounts : failures'[v][b] = failures[v][b]
    BY <1>1 DEF Fail, TypeInv, TypeOK
  <2>2. DOMAIN flagged' = Accounts /\ \A b \in Accounts : flagged'[b] = flagged[b]
    BY <1>1 DEF Fail, TypeInv
  <2>3. \A v \in Windows, b \in Accounts : failures'[v][b] <= calls'
    BY <1>0, <2>1 DEF TypeInv, TypeOK
  <2>4. balance' = balance
    BY DEF Fail
  <2> QED BY <1>0, <2>1, <2>2, <2>3, <2>4 DEF TypeInv, TypeOK
<1>2. CASE a \in Accounts
  <2>1. failures[w][a] \in Nat /\ failures[w][a] <= calls /\ n \in 1 .. MaxCalls /\ n <= calls'
    <3>1. failures[w][a] \in 0 .. MaxCalls /\ failures[w][a] <= calls
      BY <1>2 DEF TypeInv, TypeOK
    <3> QED BY <1>0, <3>1, BookAssumption
  <2>2. /\ failures' \in [Windows -> [Accounts -> 0 .. MaxCalls]]
        /\ \A v \in Windows, b \in Accounts : failures'[v][b] \in {failures[v][b], n}
    BY <1>2, <2>1 DEF Fail, TypeInv, TypeOK
  <2>3. \A v \in Windows, b \in Accounts : failures'[v][b] <= calls'
    BY <1>0, <2>1, <2>2 DEF TypeInv, TypeOK
  <2>4. Parties(legs) \subseteq Accounts
    <3>1. PICK m \in 0 .. MaxLegs : legs \in [1 .. m -> Leg]
      BY LegsAre
    <3> QED BY <3>1, BookAssumption, PartiesAre
  <2>5. alert \in RiskAlert
    BY <2>1, <2>4 DEF RiskAlert
  <2> HIDE DEF alert, n
  <2>6. DOMAIN flagged' = Accounts /\ \A b \in Accounts : flagged'[b] \in {flagged[b], alert}
    BY DEF Fail, TypeInv, alert, n
  <2>7. \A b \in Accounts : flagged'[b] # Clear => flagged'[b] \in RiskAlert
    BY <2>5, <2>6 DEF TypeInv, TypeOK
  <2>8. balance' = balance
    BY DEF Fail
  <2> QED BY <1>0, <2>2, <2>3, <2>6, <2>7, <2>8 DEF TypeInv, TypeOK
<1> QED BY <1>1, <1>2

LEMMA TypeNext == TypeInv /\ [Next]_vars => TypeInv'
<1> SUFFICES ASSUME TypeInv, [Next]_vars PROVE TypeInv'
  OBVIOUS
<1>1. ASSUME Called, UNCHANGED failures
      PROVE  calls' \in 0 .. MaxCalls /\ \A w \in Windows, a \in Accounts : failures'[w][a] <= calls'
  <2>1. calls \in 0 .. MaxCalls /\ calls' = calls + 1 /\ calls' \in 0 .. MaxCalls
    BY <1>1, BookAssumption DEF Called, TypeInv, TypeOK
  <2> QED BY <1>1, <2>1 DEF TypeInv, TypeOK
<1>2. ASSUME NEW a \in Accounts, Ban(a) PROVE TypeInv'
  BY <1>1, <1>2 DEF Ban, TypeInv, TypeOK
<1>3. ASSUME NEW a \in Accounts, NEW n \in Credits, Credit(a, n) PROVE TypeInv'
  <2>1. n \in Nat /\ credited' \in Nat /\ balance[a] + n \in Int
    BY <1>3, BookAssumption DEF Credit, TypeInv, TypeOK, Int64
  <2>2. balance' \in [Accounts -> Int64]
    BY <1>3, <2>1, WrapIsInt64 DEF Credit, TypeInv, TypeOK
  <2> QED BY <1>1, <1>3, <2>1, <2>2 DEF Credit, TypeInv, TypeOK
<1>4. ASSUME NEW legs \in Settlements, NEW ts \in Times, Settle(legs, ts) PROVE TypeInv'
  <2>1. CASE Fail(Blamed(legs), legs, Truncate(ts))
    BY <1>4, <2>1, FailKeepsTypes DEF Settle, Windows
  <2>2. CASE Apply(legs)
    <3>1. PICK m \in 0 .. MaxLegs : legs \in [1 .. m -> Leg]
      BY LegsAre
    <3>2. Netted(legs) \in [Accounts -> Int64]
      BY <3>1, BookAssumption, NettedTyped
    <3>3. \A a \in Accounts : balance[a] \in Int64 /\ balance[a] + Netted(legs)[a] \in Int
      BY <3>2, BookAssumption DEF TypeInv, TypeOK, Int64
    <3>4. balance' \in [Accounts -> Int64]
      BY <2>2, <3>3, WrapIsInt64 DEF Apply
    <3> QED BY <1>1, <1>4, <2>2, <3>4 DEF Apply, Settle, TypeInv, TypeOK
  <2> QED BY <1>4, <2>1, <2>2 DEF Settle
<1>5. CASE UNCHANGED vars
  BY <1>5 DEF vars, TypeInv, TypeOK
<1> QED BY <1>2, <1>3, <1>4, <1>5 DEF Next, Read

\* The state of the book has its type, in every behaviour: nothing leaves an
\* int64, and nobody has more failures than there were calls.
THEOREM TypeCorrect == Spec => []TypeOK
<1>1. Spec => []TypeInv
  BY TypeInit, TypeNext, PTL DEF Spec
<1>2. TypeInv => TypeOK
  BY DEF TypeInv
<1> QED BY <1>1, <1>2, PTL

-----------------------------------------------------------------------------
(* Solvency *)

\* The legs of one settlement fit an int64 together.  Run CheckpointOverflow
\* shows what happens otherwise.
LegsFit(most) == MaxLegs * most < IntLimit /\ \A n \in Amounts : n <= most
AmountsFit    == \E most \in 0 .. IntLimit : LegsFit(most)

\* The netting of legs that all move something.
LEMMA ValidNets ==
    ASSUME NEW legs \in Settlements, BadLegs(legs) = {}, NEW most \in Nat, LegsFit(most)
    PROVE  /\ Netted(legs) \in [Accounts -> Int]
           /\ Sum(Netted(legs), Accounts) = 0
           /\ \A a \in Accounts : /\ Netted(legs)[a] = Got(legs, DOMAIN legs, a) - Paid(legs, DOMAIN legs, a)
                                  /\ Netted(legs)[a] \in -(MaxLegs * most) .. MaxLegs * most
                                  /\ a \notin Parties(legs) => Netted(legs)[a] = 0
<1>1. PICK n \in 0 .. MaxLegs : legs \in [1 .. n -> Leg]
  BY LegsAre
<1>2. n \in Nat /\ DOMAIN legs = 1 .. n /\ n * most \in Nat /\ n * most <= MaxLegs * most
  <2>1. n \in Nat /\ n <= MaxLegs /\ MaxLegs \in Nat
    BY BookAssumption
  <2>2. \A i, j, k \in Nat : i <= j => i * k <= j * k
    OBVIOUS
  <2> QED BY <1>1, <2>1, <2>2
<1>3. MaxLegs * most \in Nat /\ MaxLegs * most < IntLimit /\ n * most < IntLimit
  BY <1>2, BookAssumption DEF LegsFit
<1>4. \A i \in 1 .. n : legs[i].amount \in 1 .. most
  <2> SUFFICES ASSUME NEW i \in 1 .. n PROVE legs[i].amount \in 1 .. most
    OBVIOUS
  <2>1. legs[i] \in Leg
    BY <1>1
  <2>2. legs[i].amount \in Amounts
    BY <2>1 DEF Leg
  <2>3. ~(legs[i].amount <= 0)
    BY <1>2 DEF BadLegs
  <2>4. legs[i].amount \in Int /\ legs[i].amount <= most
    BY <2>2, BookAssumption DEF LegsFit
  <2> QED BY <2>3, <2>4
<1>5. NetUpTo(legs, n, most)
  BY <1>1, <1>2, <1>3, <1>4, BookAssumption, NettingIsExact
<1>6. Netted(legs) = Folded("net", legs, 1 .. n)
  BY <1>1, <1>2, NettedIs
<1>7. ASSUME NEW a \in Accounts, a \notin Parties(legs) PROVE Got(legs, 1 .. n, a) = 0 /\ Paid(legs, 1 .. n, a) = 0
  <2>1. \A i \in 1 .. n : legs[i].to # a /\ legs[i].from # a
    BY <1>1, <1>2, <1>7, PartiesAre
  <2>2. {i \in 1 .. n : legs[i].to = a} = {} /\ {i \in 1 .. n : legs[i].from = a} = {}
    BY <2>1
  <2>3. \A S : S = {} => Sum(Moves(legs), S) = 0
    BY SumUnfolds, FS_EmptySet
  <2> QED BY <2>2, <2>3 DEF Got, Paid
<1>8. ASSUME NEW a \in Accounts
      PROVE  /\ Netted(legs)[a] = Got(legs, 1 .. n, a) - Paid(legs, 1 .. n, a)
             /\ Netted(legs)[a] \in -(MaxLegs * most) .. MaxLegs * most
             /\ a \notin Parties(legs) => Netted(legs)[a] = 0
  <2>1. /\ Netted(legs)[a] = Got(legs, 1 .. n, a) - Paid(legs, 1 .. n, a)
        /\ Netted(legs)[a] \in -(n * most) .. n * most
    BY <1>5, <1>6 DEF NetUpTo
  <2>2. Netted(legs)[a] \in -(MaxLegs * most) .. MaxLegs * most
    <3>1. \A x, y, z \in Int : x \in -y .. y /\ y <= z => x \in -z .. z
      OBVIOUS
    <3> HIDE DEF LegsFit
    <3> QED BY <1>2, <1>3, <2>1, <3>1
  <2>3. a \notin Parties(legs) => Netted(legs)[a] = 0
    BY <1>7, <2>1
  <2> QED BY <2>1, <2>2, <2>3
<1> QED BY <1>2, <1>5, <1>6, <1>8 DEF NetUpTo

\* Nobody is overdrawn, and every unit credited is in somebody's account.  What
\* is credited only grows: if it fits an int64 now, it always has.
Exact ==
    /\ balance \in [Accounts -> Nat]
    /\ credited \in Nat /\ credited < IntLimit
    /\ Sum(balance, Accounts) = credited

SolventInv == credited \in Nat /\ (credited < IntLimit => Exact)

LEMMA NobodyHasMore == Exact => \A a \in Accounts : balance[a] \in Nat /\ balance[a] <= credited
<1> SUFFICES ASSUME Exact PROVE \A a \in Accounts : balance[a] \in Nat /\ balance[a] <= credited
  OBVIOUS
<1>1. \A a \in Accounts : balance[a] \in Nat
  BY DEF Exact
<1>2. \A a \in Accounts : balance[a] <= Sum(balance, Accounts)
  BY <1>1, BookAssumption, SumBounds
<1> QED BY <1>1, <1>2 DEF Exact

\* An exact sum that wraps comes out negative: what passes the check is exact.
LEMMA PassedIsExact ==
    ASSUME Exact, NEW a \in Accounts, NEW d \in -(IntLimit - 1) .. IntLimit - 1
    PROVE  /\ Wrap(balance[a] + d) >= 0 => balance[a] + d >= 0 /\ Wrap(balance[a] + d) = balance[a] + d
           /\ balance[a] + d >= 0 /\ credited + d < IntLimit => Wrap(balance[a] + d) = balance[a] + d
           /\ balance[a] + d < 0 => Wrap(balance[a] + d) = balance[a] + d
<1>1. balance[a] \in Nat /\ balance[a] <= credited /\ credited < IntLimit /\ credited \in Nat
  BY NobodyHasMore DEF Exact
<1> DEFINE x == balance[a] + d
<1>2. x \in Int /\ -IntLimit <= x /\ x < 2 * IntLimit /\ (credited + d < IntLimit => x < IntLimit)
  BY <1>1, BookAssumption
<1> HIDE DEF x
<1>3. CASE x < IntLimit
  <2>1. x \in Int64
    BY <1>2, <1>3, BookAssumption DEF Int64
  <2>2. Wrap(x) = x
    BY <2>1, SmallStays
  <2> QED BY <2>2 DEF x
<1>4. CASE ~(x < IntLimit)
  <2>1. x \in IntLimit .. 2 * IntLimit - 1
    BY <1>2, <1>4, BookAssumption
  <2>2. Wrap(x) < 0 /\ Wrap(x) \in Int
    BY <1>2, <2>1, LargeIsNegative, WrapIsInt64, BookAssumption DEF Int64
  <2>3. ~(Wrap(x) >= 0) /\ ~(x < 0) /\ ~(credited + d < IntLimit)
    BY <1>2, <1>4, <2>2, BookAssumption
  <2> QED BY <2>3 DEF x
<1> QED BY <1>3, <1>4

LEMMA TermsAdd ==
    ASSUME NEW f \in [Accounts -> Int], NEW g \in [Accounts -> Int], NEW h \in [Accounts -> Int],
           \A a \in Accounts : h[a] = f[a] + g[a]
    PROVE  Sum(h, Accounts) = Sum(f, Accounts) + Sum(g, Accounts)
<1>1. \A a \in Accounts : f[a] \in Int /\ g[a] \in Int /\ h[a] = f[a] + g[a]
  OBVIOUS
<1>2. IsFiniteSet(Accounts)
  BY BookAssumption
<1> QED BY <1>1, <1>2, SumPlus

LEMMA ExactInit == Init => Exact
BY BookAssumption, SumZero DEF Init, Exact

\* A settlement that is applied moves money, exactly as its legs say.
LEMMA ApplyMoves ==
    ASSUME Exact, NEW most \in Nat, LegsFit(most), NEW legs \in Settlements, Valid(legs), Apply(legs)
    PROVE  /\ balance' \in [Accounts -> Nat]
           /\ \A a \in Accounts : balance'[a] = balance[a] + Netted(legs)[a]
           /\ Sum(balance', Accounts) = Sum(balance, Accounts)
<1>1. /\ Netted(legs) \in [Accounts -> Int] /\ Sum(Netted(legs), Accounts) = 0
      /\ \A a \in Accounts : /\ Netted(legs)[a] \in -(MaxLegs * most) .. MaxLegs * most
                             /\ a \notin Parties(legs) => Netted(legs)[a] = 0
  BY ValidNets DEF Valid
<1>2. \A a \in Accounts : Netted(legs)[a] \in -(IntLimit - 1) .. IntLimit - 1
  <2>1. MaxLegs * most \in Nat /\ MaxLegs * most < IntLimit
    BY BookAssumption DEF LegsFit
  <2>2. \A x, y \in Int : x \in -y .. y /\ y < IntLimit => x \in -(IntLimit - 1) .. IntLimit - 1
    BY BookAssumption
  <2> QED BY <1>1, <2>1, <2>2
<1>3. \A a \in Accounts : balance[a] \in Nat /\ Netted(legs)[a] \in Int
  BY <1>1, NobodyHasMore
<1>4. ASSUME NEW a \in Accounts
      PROVE  balance'[a] = balance[a] + Netted(legs)[a] /\ balance'[a] \in Nat
  <2>1. CASE a \in Parties(legs)
    <3>1. balance'[a] = Wrap(balance[a] + Netted(legs)[a])
      BY <2>1 DEF Apply
    <3>2. a \notin Unfit(legs)
      BY DEF Valid
    <3>3. ~(Wrap(balance[a] + Netted(legs)[a]) < 0)
      BY <2>1, <3>2 DEF Unfit
    <3>4. Wrap(balance[a] + Netted(legs)[a]) \in Int
      BY <1>3, WrapIsInt64, BookAssumption DEF Int64
    <3>5. Wrap(balance[a] + Netted(legs)[a]) >= 0
      BY <3>3, <3>4
    <3>6. balance[a] + Netted(legs)[a] >= 0 /\ balance'[a] = balance[a] + Netted(legs)[a]
      BY <1>2, <3>1, <3>5, PassedIsExact
    <3> QED BY <1>3, <3>6
  <2>2. CASE a \notin Parties(legs)
    BY <1>1, <1>3, <2>2 DEF Apply
  <2> QED BY <2>1, <2>2
<1>5. balance' \in [Accounts -> Nat]
  BY <1>4 DEF Apply
<1>6. Sum(balance', Accounts) = Sum(balance, Accounts) + Sum(Netted(legs), Accounts)
  <2>1. balance \in [Accounts -> Int] /\ balance' \in [Accounts -> Int]
    BY <1>5 DEF Exact
  <2> QED BY <1>1, <1>4, <2>1, BookAssumption, TermsAdd
<1>7. Sum(balance, Accounts) \in Int
  BY DEF Exact
<1> QED BY <1>1, <1>4, <1>5, <1>6, <1>7

LEMMA CreditAdds ==
    ASSUME Exact, NEW a \in Accounts, NEW n \in Credits, Credit(a, n), credited' < IntLimit
    PROVE  /\ Exact'
           /\ balance' = [balance EXCEPT ![a] = balance[a] + n]
<1>1. /\ n \in Nat /\ credited \in Nat /\ credited + n < IntLimit /\ credited' = credited + n
      /\ balance[a] \in Nat /\ balance[a] <= credited
  BY BookAssumption, NobodyHasMore DEF Credit, Exact
<1>2. balance[a] + n \in Int64
  BY <1>1, BookAssumption DEF Int64
<1>3. balance' = [balance EXCEPT ![a] = balance[a] + n]
  BY <1>2, SmallStays DEF Credit
<1>4. balance' \in [Accounts -> Nat] /\ balance'[a] = balance[a] + n /\ \A b \in Accounts \ {a} : balance'[b] = balance[b]
  BY <1>1, <1>3 DEF Exact
<1>5. balance \in [Accounts -> Int] /\ balance' \in [Accounts -> Int] /\ Sum(balance, Accounts) = credited
  BY <1>4 DEF Exact
<1>6. Sum(balance', Accounts) = Sum(balance, Accounts) + (balance'[a] - balance[a])
  BY <1>4, <1>5, BookAssumption, TermChanges
<1>7. Sum(balance', Accounts) = credited + n
  BY <1>1, <1>4, <1>5, <1>6
<1> QED BY <1>1, <1>3, <1>4, <1>7 DEF Exact

LEMMA ExactNext ==
    ASSUME NEW most \in Nat, LegsFit(most), Exact, [Next]_vars, credited' < IntLimit
    PROVE  Exact'
<1>1. CASE UNCHANGED <<balance, credited>>
  BY <1>1 DEF Exact
<1>2. ASSUME NEW a \in Accounts, NEW n \in Credits, Credit(a, n) PROVE Exact'
  BY <1>2, CreditAdds
<1>3. ASSUME NEW legs \in Settlements, NEW ts \in Times, Settle(legs, ts) PROVE Exact'
  <2>1. CASE Valid(legs) /\ Apply(legs)
    BY <1>3, <2>1, ApplyMoves DEF Settle, Exact
  <2>2. CASE Fail(Blamed(legs), legs, Truncate(ts))
    BY <1>1, <1>3, <2>2 DEF Fail, Settle
  <2> QED BY <1>3, <2>1, <2>2 DEF Settle
<1> QED BY <1>1, <1>2, <1>3 DEF Next, Ban, Read, vars

LEMMA SolventNext ==
    ASSUME NEW most \in Nat, LegsFit(most), SolventInv, [Next]_vars
    PROVE  SolventInv'
<1>1. credited' \in Nat /\ credited <= credited'
  <2>1. ASSUME NEW a \in Accounts, NEW n \in Credits, Credit(a, n)
        PROVE  credited' \in Nat /\ credited <= credited'
    BY <2>1, BookAssumption DEF Credit, SolventInv
  <2>2. ASSUME UNCHANGED credited PROVE credited' \in Nat /\ credited <= credited'
    BY <2>2 DEF SolventInv
  <2> QED BY <2>1, <2>2 DEF Next, Ban, Settle, Read, vars
<1>2. ASSUME credited' < IntLimit PROVE Exact'
  <2>1. Exact
    BY <1>1, <1>2, BookAssumption DEF SolventInv
  <2> QED BY <1>2, <2>1, ExactNext
<1> QED BY <1>1, <1>2 DEF SolventInv

\* Whatever is credited and settled, in whatever order: when the legs of a
\* settlement fit an int64, and all the money does, nobody is ever overdrawn and
\* no money appears or vanishes.
THEOREM AlwaysSolvent == AmountsFit => (Spec => []Solvent)
<1> SUFFICES ASSUME AmountsFit PROVE Spec => []Solvent
  OBVIOUS
<1>0. PICK most \in Nat : LegsFit(most)
  BY BookAssumption DEF AmountsFit
<1>1. SolventInv /\ [Next]_vars => SolventInv'
  BY <1>0, SolventNext
<1>2. SolventInv => Solvent
  <2> SUFFICES ASSUME Exact PROVE Solvent
    BY DEF SolventInv, Solvent
  <2>1. MapThenSumSet(LAMBDA a : balance[a], Accounts) = Sum(balance, Accounts)
    BY BookAssumption, SumIs
  <2> QED BY <2>1, NobodyHasMore DEF Solvent, Exact
<1>3. Init => SolventInv
  BY ExactInit DEF Exact, SolventInv
<1> QED BY <1>1, <1>2, <1>3, PTL DEF Spec

-----------------------------------------------------------------------------
(* The withdrawal gate *)

\* GateIsExact with what it needs of the types: counts are numbers, and an
\* alert names a window that does hold a burst.
GateInv ==
    /\ failures \in [Windows -> [Accounts -> Nat]]
    /\ DOMAIN flagged = Accounts
    /\ \A a \in Accounts : flagged[a] # Clear =>
          flagged[a].window \in Windows /\ failures[flagged[a].window][a] >= BurstThreshold
    /\ GateIsExact

LEMMA GateInit == Init => GateInv
<1> SUFFICES ASSUME Init PROVE GateInv
  OBVIOUS
<1>1. \A a \in Accounts : WithdrawalAllowed(a)
  BY DEF Init, WithdrawalAllowed
<1>2. \A w \in Windows, a \in Accounts : failures[w][a] < BurstThreshold
  BY BookAssumption DEF Init
<1> QED BY <1>1, <1>2 DEF Init, GateInv, GateIsExact, WithdrawalAllowed

\* One more failure of a, burst or not.
LEMMA FailKeepsGate ==
    ASSUME GateInv, NEW a, NEW legs, NEW w \in Windows, Fail(a, legs, w)
    PROVE  GateInv'
<1> DEFINE n == failures[w][a] + 1
           alert == [window |-> w, failures |-> n, counterparties |-> Parties(legs) \ {a}]
<1>1. CASE a \notin Accounts
  <2>1. /\ failures' \in [Windows -> [Accounts -> Nat]]
        /\ \A v \in Windows, b \in Accounts : failures'[v][b] = failures[v][b]
    BY <1>1 DEF Fail, GateInv
  <2>2. DOMAIN flagged' = Accounts /\ \A b \in Accounts : flagged'[b] = flagged[b]
    BY <1>1 DEF Fail, GateInv
  <2> QED BY <2>1, <2>2 DEF GateInv, GateIsExact, WithdrawalAllowed
<1>2. CASE a \in Accounts
  <2>1. /\ failures[w][a] \in Nat /\ n \in Nat
        /\ failures' \in [Windows -> [Accounts -> Nat]]
        /\ failures'[w][a] = n
        /\ \A v \in Windows, b \in Accounts : v # w \/ b # a => failures'[v][b] = failures[v][b]
    BY <1>2 DEF Fail, GateInv
  <2>2. alert # Clear /\ alert.window = w /\ alert.failures = n
    <3>1. alert.failures # Clear.failures
      BY <2>1 DEF Clear
    <3> QED BY <3>1
  <2>3. \A b \in Accounts \ {a} : flagged'[b] = flagged[b]
    BY DEF Fail, GateInv
  <2>4. DOMAIN flagged' = Accounts
    BY DEF Fail, GateInv
  <2> HIDE DEF alert, n
  <2>5. ASSUME NEW b \in Accounts
        PROVE  /\ flagged'[b] # Clear => /\ flagged'[b].window \in Windows
                                         /\ failures'[flagged'[b].window][b] >= BurstThreshold
               /\ flagged'[b] = Clear <=> \A v \in Windows : failures'[v][b] < BurstThreshold
               /\ flagged'[b] # Clear => flagged'[b].failures = failures'[flagged'[b].window][b]
    <3>1. CASE b # a
      BY <2>1, <2>3, <3>1 DEF GateInv, GateIsExact, WithdrawalAllowed
    <3>2. CASE b = a /\ Burst(n)
      <4>1. flagged'[b] = alert
        BY <1>2, <3>2 DEF Fail, GateInv, alert, n
      <4>2. ~(failures'[w][b] < BurstThreshold) /\ failures'[w][b] >= BurstThreshold
        BY <2>1, <3>2, BookAssumption DEF Burst
      <4> QED BY <2>1, <2>2, <3>2, <4>1, <4>2
    <3>3. CASE b = a /\ ~Burst(n)
      <4>1. flagged'[b] = flagged[b]
        BY <3>3 DEF Fail, n
      <4>2. n < BurstThreshold /\ failures[w][a] < BurstThreshold
        <5>1. n = failures[w][a] + 1
          BY DEF n
        <5> QED BY <2>1, <3>3, <5>1, BookAssumption DEF Burst
      <4>3. \A v \in Windows : failures'[v][b] < BurstThreshold <=> failures[v][b] < BurstThreshold
        BY <2>1, <3>3, <4>2
      <4>4. flagged[b] # Clear => flagged[b].window # w
        BY <2>1, <3>3, <4>2, BookAssumption DEF GateInv
      <4>5. flagged[b] # Clear => /\ flagged[b].window \in Windows
                                  /\ flagged[b].failures = failures'[flagged[b].window][b]
                                  /\ failures'[flagged[b].window][b] >= BurstThreshold
        BY <2>1, <3>3, <4>4 DEF GateInv, GateIsExact, WithdrawalAllowed
      <4>6. flagged[b] = Clear <=> \A v \in Windows : failures[v][b] < BurstThreshold
        BY DEF GateInv, GateIsExact, WithdrawalAllowed
      <4> QED BY <4>1, <4>3, <4>5, <4>6
    <3> QED BY <3>1, <3>2, <3>3
  <2> QED BY <2>1, <2>4, <2>5 DEF GateInv, GateIsExact, WithdrawalAllowed
<1> QED BY <1>1, <1>2

LEMMA GateNext == GateInv /\ [Next]_vars => GateInv'
<1> SUFFICES ASSUME GateInv, [Next]_vars PROVE GateInv'
  OBVIOUS
<1>1. ASSUME NEW legs, NEW ts \in Times, Settle(legs, ts) PROVE GateInv'
  <2>1. Truncate(ts) \in Windows
    BY DEF Windows
  <2>2. CASE Fail(Blamed(legs), legs, Truncate(ts))
    BY <2>1, <2>2, FailKeepsGate
  <2>3. CASE Apply(legs)
    BY <2>3 DEF Apply, GateInv, GateIsExact, WithdrawalAllowed
  <2> QED BY <1>1, <2>2, <2>3 DEF Settle
<1>2. CASE UNCHANGED <<failures, flagged>>
  BY <1>2 DEF GateInv, GateIsExact, WithdrawalAllowed
<1> QED BY <1>1, <1>2 DEF Next, Ban, Credit, Read, vars

\* Whatever settlements are tried, in whatever order of their timestamps: an
\* actor is gated exactly when one window holds a burst of its own failures,
\* and the alert counts them all.
THEOREM GateExact == Spec => []GateIsExact
<1>1. Spec => []GateInv
  BY GateInit, GateNext, PTL DEF Spec
<1>2. GateInv => GateIsExact
  BY DEF GateInv
<1> QED BY <1>1, <1>2, PTL

-----------------------------------------------------------------------------
(* Ledger's words for the same things *)

LEMMA TotalIs ==
    ASSUME NEW n \in Nat, NEW legs \in [1 .. n -> Leg], NEW I \in SUBSET (1 .. n)
    PROVE  Promise!Total(legs, I) = Sum(Moves(legs), I)
<1> DEFINE f == Moves(legs)
           first(s) == CHOOSE x \in s : TRUE
           step(h, s) == IF s = {} THEN 0 ELSE legs[first(s)].amount + h[s \ {first(s)}]
           fold(h, s) == IF s = {} THEN Base("sum")
                         ELSE Combine("sum", f[Chosen("sum", s)], h[s \ {Chosen("sum", s)}])
           Rec(h) == h = [s \in SUBSET I |-> step(h, s)]
<1>1. \A s \in SUBSET I : s # {} => first(s) \in s
  OBVIOUS
<1>2. \A s : Chosen("sum", s) = first(s)
  BY DEF Chosen
<1>3. \A h : Rec(h) <=> Folds(h, "sum", f, I)
  <2>1. ASSUME NEW h, NEW s \in SUBSET I PROVE step(h, s) = fold(h, s)
    <3> HIDE DEF first
    <3>1. s # {} => f[first(s)] = legs[first(s)].amount
      BY <1>1 DEF Moves
    <3>2. Chosen("sum", s) = first(s)
      BY <1>2
    <3>3. \A x, v : Combine("sum", x, v) = x + v
      BY DEF Combine
    <3> HIDE DEF f
    <3>4. Base("sum") = 0
      BY DEF Base
    <3> QED BY <3>1, <3>2, <3>3, <3>4
  <2>2. \A h : Folds(h, "sum", f, I) <=> h = [s \in SUBSET I |-> fold(h, s)]
    BY DEF Folds
  <2> HIDE DEF step, fold
  <2>3. \A h : [s \in SUBSET I |-> step(h, s)] = [s \in SUBSET I |-> fold(h, s)]
    BY <2>1
  <2> QED BY <2>2, <2>3
<1>4. Promise!Total(legs, I) = (CHOOSE h : Rec(h))[I]
  BY DEF Promise!Total, Promise!MapThenSumSet, Promise!MapThenFoldSet
<1>5. (\E h : Rec(h)) => Rec(CHOOSE h : Rec(h))
  OBVIOUS
<1>6. IsFiniteSet(I) /\ \A s \in SUBSET I : s # {} => Chosen("sum", s) \in s
  <2>1. IsFiniteSet(1 .. n)
    BY FS_Interval
  <2>2. IsFiniteSet(I)
    BY <2>1, FS_Subset
  <2> QED BY <1>1, <1>2, <2>2
<1> HIDE DEF Rec, f
<1>7. /\ \E h : Folds(h, "sum", f, I)
      /\ \A h : Folds(h, "sum", f, I) => h[I] = Sum(f, I)
  BY <1>6, FoldUnfolds DEF Sum
<1> QED BY <1>3, <1>4, <1>5, <1>7 DEF f

LEMMA NetIs ==
    ASSUME NEW n \in Nat, NEW legs \in [1 .. n -> Leg], NEW a
    PROVE  Promise!Net(legs, a) = Got(legs, DOMAIN legs, a) - Paid(legs, DOMAIN legs, a)
<1>1. DOMAIN legs = 1 .. n
  OBVIOUS
<1>2. {i \in 1 .. n : legs[i].to = a} \in SUBSET (1 .. n) /\ {i \in 1 .. n : legs[i].from = a} \in SUBSET (1 .. n)
  OBVIOUS
<1>3. /\ Promise!Total(legs, {i \in 1 .. n : legs[i].to = a}) = Got(legs, 1 .. n, a)
      /\ Promise!Total(legs, {i \in 1 .. n : legs[i].from = a}) = Paid(legs, 1 .. n, a)
  BY <1>2, TotalIs DEF Got, Paid
<1> QED BY <1>1, <1>3 DEF Promise!Net

LEMMA WindowIs == \A ts \in Times : Promise!WindowOf(ts) = Truncate(ts)
<1> SUFFICES ASSUME NEW ts \in Times PROVE Promise!WindowOf(ts) = Truncate(ts)
  OBVIOUS
<1>1. ts \in Nat /\ WindowSize \in Nat \ {0}
  BY BookAssumption
<1>2. \A x \in Nat, y \in Nat \ {0} : (x \div y) * y = x - (x % y)
  OBVIOUS
<1> QED BY <1>1, <1>2 DEF Promise!WindowOf, Truncate

LEMMA SameNames ==
    /\ Promise!Windows = Windows
    /\ Promise!Settlements = Settlements
    /\ \A legs : Promise!Parties(legs) = Parties(legs)
<1>1. Promise!Windows = Windows
  BY WindowIs DEF Promise!Windows, Windows
<1>2. Promise!Settlements = Settlements
  BY DEF Promise!Settlements, Settlements, BoundedSeq, SeqOf, Promise!Leg, Leg
<1>3. ASSUME NEW legs PROVE Promise!Parties(legs) = Parties(legs)
  BY DEF Promise!Parties, Parties, ToSet
<1> QED BY <1>1, <1>2, <1>3

-----------------------------------------------------------------------------
(* The refinement *)

\* All money ever credited and the legs of one settlement fit an int64
\* together.  Less would do for what a settlement moves, but not for whom a
\* rejected one blames: a rich receiver whose balance wraps looks overdrawn.
MoneyFits(most, top) ==
    /\ \A n \in Amounts : n <= most
    /\ \A n \in Credits : n <= top
    /\ MaxCalls * top + MaxLegs * most < IntLimit

LedgerInv(top) ==
    /\ Exact
    /\ calls \in 0 .. MaxCalls
    /\ credited <= calls * top

LEMMA RoomForLegs ==
    ASSUME NEW most \in Nat, NEW top \in Nat, MoneyFits(most, top)
    PROVE  /\ LegsFit(most) /\ MaxLegs * most \in Nat
           /\ LedgerInv(top) => credited \in Nat /\ credited + MaxLegs * most < IntLimit
<1>1. MaxCalls * top \in Nat /\ MaxLegs * most \in Nat
  BY BookAssumption
<1>2. MaxLegs * most < IntLimit
  BY <1>1, BookAssumption DEF MoneyFits
<1>3. ASSUME LedgerInv(top) PROVE credited \in Nat /\ credited + MaxLegs * most < IntLimit
  <2>1. calls \in Nat /\ calls <= MaxCalls /\ credited \in Nat /\ credited <= calls * top
    BY <1>3, BookAssumption DEF LedgerInv, Exact
  <2>2. calls * top \in Nat /\ calls * top <= MaxCalls * top
    BY <2>1, BookAssumption
  <2> QED BY <1>1, <2>1, <2>2, BookAssumption DEF MoneyFits
<1> QED BY <1>1, <1>2, <1>3 DEF LegsFit, MoneyFits

LEMMA LedgerInvInit ==
    ASSUME NEW top \in Nat
    PROVE  Init => LedgerInv(top)
<1>1. 0 * top = 0
  OBVIOUS
<1> QED BY <1>1, ExactInit, BookAssumption DEF Init, LedgerInv

LEMMA LedgerInvNext ==
    ASSUME NEW most \in Nat, NEW top \in Nat, MoneyFits(most, top), LedgerInv(top), [Next]_vars
    PROVE  LedgerInv(top)'
<1> DEFINE Bounded == credited' \in Nat /\ calls' \in 0 .. MaxCalls /\ credited' <= calls' * top
<1>1. calls \in Nat /\ credited \in Nat /\ credited <= calls * top /\ calls <= MaxCalls
  BY BookAssumption DEF LedgerInv, Exact
<1>2. CASE UNCHANGED vars
  BY <1>2 DEF vars, LedgerInv, Exact
<1>3. ASSUME Called PROVE calls' \in 0 .. MaxCalls /\ calls' * top = calls * top + top /\ calls * top \in Nat
  BY <1>1, <1>3, BookAssumption DEF Called
<1>4. ASSUME Bounded PROVE LedgerInv(top)'
  <2>1. calls' * top \in Nat /\ calls' * top <= MaxCalls * top /\ MaxCalls * top \in Nat
    <3>1. calls' \in Nat /\ MaxCalls \in Nat /\ calls' <= MaxCalls
      BY <1>4, BookAssumption
    <3>2. \A i, j \in Nat : i <= j => i * top \in Nat /\ j * top \in Nat /\ i * top <= j * top
      OBVIOUS
    <3> QED BY <3>1, <3>2
  <2>2. MaxLegs * most \in Nat
    BY RoomForLegs
  <2>3. credited' < IntLimit
    <3>1. MaxCalls * top + MaxLegs * most < IntLimit
      BY DEF MoneyFits
    <3>2. \A x, y, z, u \in Nat : x <= y /\ y <= z /\ z + u < IntLimit => x < IntLimit
      BY BookAssumption
    <3>3. credited' \in Nat /\ credited' <= calls' * top
      BY <1>4
    <3> QED BY <2>1, <2>2, <3>1, <3>2, <3>3
  <2>4. Exact'
    BY <2>3, RoomForLegs, ExactNext DEF LedgerInv
  <2> QED BY <1>4, <2>4 DEF LedgerInv
<1>5. ASSUME Called, UNCHANGED credited PROVE Bounded
  BY <1>1, <1>3, <1>5
<1>6. ASSUME NEW a \in Accounts, NEW n \in Credits, Credit(a, n) PROVE Bounded
  <2>1. n \in Nat /\ n <= top /\ credited' = credited + n
    BY <1>6, BookAssumption DEF Credit, MoneyFits
  <2>2. Called
    BY <1>6 DEF Credit
  <2> QED BY <1>1, <1>3, <2>1, <2>2
<1> QED BY <1>2, <1>4, <1>5, <1>6 DEF Next, Ban, Settle, Read

\* With legs that all move something the int64 check is the exact one.
LEMMA CheckIsExact ==
    ASSUME NEW most \in Nat, NEW top \in Nat, MoneyFits(most, top), LedgerInv(top),
           NEW legs \in Settlements, BadLegs(legs) = {}, NEW a \in Accounts
    PROVE  /\ Promise!Net(legs, a) = Netted(legs)[a]
           /\ Wrap(balance[a] + Netted(legs)[a]) = balance[a] + Netted(legs)[a]
<1> DEFINE d == Netted(legs)[a]
<1>1. LegsFit(most) /\ MaxLegs * most \in Nat /\ credited \in Nat /\ credited + MaxLegs * most < IntLimit
  BY RoomForLegs
<1>2. d = Got(legs, DOMAIN legs, a) - Paid(legs, DOMAIN legs, a) /\ d \in -(MaxLegs * most) .. MaxLegs * most
  BY <1>1, ValidNets
<1>3. Promise!Net(legs, a) = d
  <2>1. PICK n \in 0 .. MaxLegs : legs \in [1 .. n -> Leg]
    BY LegsAre
  <2>2. n \in Nat
    BY BookAssumption
  <2> QED BY <1>2, <2>1, <2>2, NetIs
<1>4. Exact /\ balance[a] \in Nat
  BY NobodyHasMore DEF LedgerInv
<1> HIDE DEF d
<1>5. d \in -(IntLimit - 1) .. IntLimit - 1 /\ d \in Int /\ credited + d < IntLimit
  <2>1. \A x, y, z \in Int : x \in -y .. y /\ z + y < IntLimit /\ z >= 0 =>
            x \in -(IntLimit - 1) .. IntLimit - 1 /\ z + x < IntLimit
    BY BookAssumption
  <2>2. d \in Int
    BY <1>1, <1>2
  <2>3. MaxLegs * most \in Int /\ credited \in Int /\ credited >= 0
    BY <1>1
  <2> QED BY <1>1, <1>2, <2>1, <2>2, <2>3
<1>6. Wrap(balance[a] + d) = balance[a] + d
  <2>1. CASE balance[a] + d < 0
    BY <1>4, <1>5, <2>1, PassedIsExact
  <2>2. CASE ~(balance[a] + d < 0)
    <3>1. balance[a] + d >= 0
      BY <1>4, <1>5, <2>2
    <3> QED BY <1>4, <1>5, <3>1, PassedIsExact
  <2> QED BY <2>1, <2>2
<1> QED BY <1>3, <1>6 DEF d

LEMMA SameFaults ==
    ASSUME NEW most \in Nat, NEW top \in Nat, MoneyFits(most, top), LedgerInv(top), NEW legs \in Settlements
    PROVE  /\ Promise!Malformed(legs) = {legs[i].from : i \in BadLegs(legs)}
           /\ BadLegs(legs) = {} => Promise!Unfit(legs) = Unfit(legs)
           /\ Parties(legs) \subseteq Accounts
<1>1. Promise!Malformed(legs) = {legs[i].from : i \in BadLegs(legs)}
  BY DEF Promise!Malformed, BadLegs
<1>2. Parties(legs) \subseteq Accounts
  BY LegsAre, PartiesAre, BookAssumption
<1>3. ASSUME BadLegs(legs) = {} PROVE Promise!Unfit(legs) = Unfit(legs)
  <2>1. \A a \in Accounts : balance[a] + Promise!Net(legs, a) = Wrap(balance[a] + Netted(legs)[a])
    BY <1>3, CheckIsExact
  <2> QED BY <1>2, <2>1, SameNames DEF Promise!Unfit, Unfit
<1> QED BY <1>1, <1>2, <1>3

LEMMA SettleAnswered ==
    ASSUME NEW most \in Nat, NEW top \in Nat, MoneyFits(most, top), LedgerInv(top),
           NEW legs \in Settlements, NEW ts \in Times, Settle(legs, ts)
    PROVE  Promise!Commit(legs) \/ Promise!Reject(legs, Truncate(ts))
<1>1. CASE Valid(legs) /\ Apply(legs)
  <2>1. BadLegs(legs) = {} /\ Unfit(legs) = {}
    BY <1>1 DEF Valid
  <2>2. Promise!AtFault(legs) = {}
    BY <2>1, SameFaults DEF Promise!AtFault
  <2>3. \A a \in Accounts : Wrap(balance[a] + Netted(legs)[a]) = balance[a] + Promise!Net(legs, a)
    BY <2>1, CheckIsExact
  <2>4. balance' = [a \in Accounts |-> IF a \in Promise!Parties(legs) THEN balance[a] + Promise!Net(legs, a)
                                                                     ELSE balance[a]]
    BY <1>1, <2>3, SameNames DEF Apply
  <2> QED BY <1>1, <2>2, <2>4 DEF Promise!Commit, Settle, Apply
<1>2. CASE ~Valid(legs) /\ Fail(Blamed(legs), legs, Truncate(ts))
  <2>1. Blamed(legs) \in Accounts /\ Blamed(legs) \in Promise!AtFault(legs)
    <3>1. CASE BadLegs(legs) # {}
      <4>1. PICK n \in 0 .. MaxLegs : legs \in [1 .. n -> Leg]
        BY LegsAre
      <4>2. BadLegs(legs) \in SUBSET (1 .. n) /\ BadLegs(legs) \in SUBSET Nat
        BY <4>1 DEF BadLegs
      <4>3. Min(BadLegs(legs)) \in BadLegs(legs)
        BY <3>1, <4>2, MinIs
      <4>4. Blamed(legs) \in Promise!Malformed(legs)
        BY <3>1, <4>3, SameFaults DEF Blamed
      <4>5. legs[Min(BadLegs(legs))] \in Leg
        BY <4>1, <4>2, <4>3
      <4>6. Blamed(legs) \in Accounts
        BY <3>1, <4>5 DEF Blamed, Leg
      <4> QED BY <4>4, <4>6 DEF Promise!AtFault
    <3>2. CASE BadLegs(legs) = {}
      <4>1. Unfit(legs) # {} /\ Promise!Unfit(legs) = Unfit(legs) /\ Promise!Malformed(legs) = {}
        BY <1>2, <3>2, SameFaults DEF Valid
      <4>2. Unfit(legs) \subseteq Accounts /\ Unfit(legs) \in SUBSET Nat
        BY SameFaults, BookAssumption DEF Unfit
      <4>3. Min(Unfit(legs)) \in Unfit(legs)
        BY <4>1, <4>2, MinIs
      <4> QED BY <3>2, <4>1, <4>2, <4>3 DEF Blamed, Promise!AtFault
    <3> QED BY <3>1, <3>2
  <2>2. failures' = [failures EXCEPT ![Truncate(ts)][Blamed(legs)] = @ + 1] /\ UNCHANGED <<balance, banned>>
    BY <1>2 DEF Fail, Settle
  <2> QED BY <2>1, <2>2 DEF Promise!Reject
<1> QED BY <1>1, <1>2 DEF Settle

LEMMA InitIsLedgerInit == Init => Promise!Init
BY SameNames DEF Init, Promise!Init

LEMMA NextIsLedgerNext ==
    ASSUME NEW most \in Nat, NEW top \in Nat, MoneyFits(most, top), LedgerInv(top), [Next]_vars
    PROVE  [Promise!Next]_(Promise!vars)
<1>1. ASSUME NEW a \in Accounts, Ban(a) PROVE Promise!Next
  BY <1>1 DEF Ban, Promise!Next, Promise!Ban
<1>2. ASSUME NEW a \in Accounts, NEW n \in Credits, Credit(a, n) PROVE Promise!Next
  <2>1. balance' = [balance EXCEPT ![a] = balance[a] + n]
    <3>1. LedgerInv(top)'
      BY LedgerInvNext
    <3>2. credited' < IntLimit
      BY <3>1 DEF LedgerInv, Exact
    <3> QED BY <1>2, <3>2, CreditAdds DEF LedgerInv
  <2>2. Promise!Credit(a, n)
    BY <1>2, <2>1 DEF Credit, Promise!Credit
  <2> QED BY <2>2 DEF Promise!Next
<1>3. ASSUME NEW legs \in Settlements, NEW ts \in Times, Settle(legs, ts) PROVE Promise!Next
  <2>1. Promise!Commit(legs) \/ Promise!Reject(legs, Truncate(ts))
    BY <1>3, SettleAnswered
  <2>2. Truncate(ts) \in Promise!Windows /\ legs \in Promise!Settlements
    BY SameNames DEF Windows
  <2> QED BY <2>1, <2>2 DEF Promise!Next
<1>4. CASE UNCHANGED vars
  BY <1>4 DEF vars, Promise!vars
<1> QED BY <1>1, <1>2, <1>3, <1>4 DEF Next, Read

BookFits == \E most, top \in 0 .. IntLimit : MoneyFits(most, top)

\* checkpoint.go Settle, for any actors, amounts and window size: while the
\* money fits an int64 the netting loop, the checks in name order and the two
\* phases do what Ledger says in integers and without an order: all legs or
\* none, everyone re-checked, the blame on a party at fault.
THEOREM BookImplements == BookFits => (Spec => ImplementsLedger)
<1> SUFFICES ASSUME BookFits PROVE Spec => Promise!Spec
  BY DEF ImplementsLedger
<1>1. PICK most \in Nat, top \in Nat : MoneyFits(most, top)
  BY BookAssumption DEF BookFits
<1>2. LedgerInv(top) /\ [Next]_vars => LedgerInv(top)'
  BY <1>1, LedgerInvNext
<1>3. LedgerInv(top) /\ [Next]_vars => [Promise!Next]_(Promise!vars)
  BY <1>1, NextIsLedgerNext
<1>4. Init => LedgerInv(top)
  BY LedgerInvInit
<1> QED BY <1>2, <1>3, <1>4, InitIsLedgerInit, PTL DEF Spec, Promise!Spec

\* checkpoint.go Settle, call for call: the legs that were asked for are the
\* ones applied or rejected, and a failure counts in the window of the call.
THEOREM SettlesExactly == BookFits => (Spec => SettlesAsAsked)
<1> SUFFICES ASSUME BookFits PROVE Spec => SettlesAsAsked
  OBVIOUS
<1> DEFINE Asked == \A legs \in Settlements, ts \in Times :
                        Settle(legs, ts) => Promise!Commit(legs) \/ Promise!Reject(legs, Promise!WindowOf(ts))
<1>1. PICK most \in Nat, top \in Nat : MoneyFits(most, top)
  BY BookAssumption DEF BookFits
<1>2. LedgerInv(top) /\ [Next]_vars => LedgerInv(top)'
  BY <1>1, LedgerInvNext
<1>3. LedgerInv(top) => Asked
  BY <1>1, SettleAnswered, WindowIs
<1>4. Init => LedgerInv(top)
  BY LedgerInvInit
<1> QED BY <1>2, <1>3, <1>4, PTL DEF Spec, SettlesAsAsked
=============================================================================
