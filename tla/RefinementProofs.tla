-------------------------- MODULE RefinementProofs --------------------------
(* Monitor implements CauseJustified, for every configuration, actor set and *)
(* closer set: the refinement, and what each call does in terms of actors.   *)
EXTENDS VerdictProofs, FiniteSetTheorems, FunctionTheorems

\* The sums of a window fit an int64: MaxCalls steps of any size that occurs
\* stay within it.  Without this the conservation check compares sums modulo
\* its size.
SumsFit ==
    \E most \in 0 .. IntLimit : /\ MaxCalls * most < IntLimit
                                /\ \A n \in Deltas \cup Amounts : n \in -most .. most

\* After so many calls no sum is larger than so many steps, and the sums of an
\* id that nobody has yet are untouched.
SumsBounded(most) ==
    \A w \in Starts, i \in Ids :
        /\ window[w].changeSum[i] \in -(calls * most) .. calls * most
        /\ window[w].causeSum[i] \in -(calls * most) .. calls * most

SumsUntouched ==
    \A w \in Starts, i \in Ids :
        i >= Len(ids) => window[w].changeSum[i] = 0 /\ window[w].causeSum[i] = 0

RefineInv(most) == VerdictInv /\ SumsBounded(most) /\ SumsUntouched

\* What CauseJustified sees of the engine.
Tracked    == {ids[i] : i \in {j \in DOMAIN ids : j <= Capacity}}
Changed    == [w \in Starts |-> Names(window[w].changed)]
Justified  == [w \in Starts |-> Names(window[w].justified)]
Derived    == [w \in Starts |-> Names(window[w].derived)]
Rooted     == [w \in Starts |-> Names(window[w].rooted)]
Moved      == [w \in Starts |-> [a \in Actors |-> SumFor(a, window[w].changeSum)]]
Authorized == [w \in Starts |-> [a \in Actors |-> SumFor(a, window[w].causeSum)]]
Phase      == [w \in Starts |-> PhaseOf(w)]

-----------------------------------------------------------------------------
(* Ids *)

LEMMA IdOfNamed ==
    ASSUME ids \in Seq(Actors), Distinct, NEW i \in DOMAIN ids
    PROVE  IdOf(ids[i]) = i - 1 /\ ids[i] \in Interned
<1>1. ids[i] \in Interned
  BY DEF Interned
<1> DEFINE first == CHOOSE j \in DOMAIN ids : ids[j] = ids[i]
<1>2. first = i
  BY DEF Distinct
<1>3. IdOf(ids[i]) = first - 1
  BY <1>1, Zenon DEF IdOf
<1> HIDE DEF first
<1> QED BY <1>1, <1>2, <1>3

LEMMA IdOfInterned ==
    ASSUME ids \in Seq(Actors), Distinct, NEW a \in Interned
    PROVE  IdOf(a) \in Nat /\ IdOf(a) + 1 \in DOMAIN ids /\ ids[IdOf(a) + 1] = a
<1>1. PICK i \in DOMAIN ids : ids[i] = a
  BY DEF Interned
<1>2. IdOf(a) = i - 1
  BY <1>1, IdOfNamed
<1> QED BY <1>1, <1>2

\* Interned and IdOf with the ids of the next state.
NewInterned == {ids'[i] : i \in DOMAIN ids'}
NewId(b)    == IF b \in NewInterned THEN (CHOOSE i \in DOMAIN ids' : ids'[i] = b) - 1
                                    ELSE Len(ids')

LEMMA IdOfPrimed ==
    ASSUME ids' \in Seq(Actors), Distinct', NEW a, NEW i \in Int, i + 1 \in DOMAIN ids', ids'[i + 1] = a
    PROVE  a \in NewInterned /\ NewId(a) = i
<1>1. a \in NewInterned
  BY DEF NewInterned
<1> DEFINE first == CHOOSE j \in DOMAIN ids' : ids'[j] = a
<1>2. first = i + 1
  BY DEF Distinct
<1>3. NewId(a) = first - 1
  BY <1>1, Zenon DEF NewId
<1> HIDE DEF first
<1> QED BY <1>1, <1>2, <1>3

\* Interning names the actor by the id that IdOf gave, and no one else.
LEMMA InternNames ==
    ASSUME ids \in Seq(Actors), Distinct, NEW a \in Actors, Intern(a)
    PROVE  /\ ids' \in Seq(Actors) /\ Distinct'
           /\ \A i \in DOMAIN ids : i \in DOMAIN ids' /\ ids'[i] = ids[i]
           /\ IdOf(a) \in Nat /\ IdOf(a) + 1 \in DOMAIN ids' /\ ids'[IdOf(a) + 1] = a
           /\ \A i \in DOMAIN ids' \ DOMAIN ids : i = IdOf(a) + 1
<1>1. CASE a \in Interned
  <2>1. IdOf(a) + 1 \in DOMAIN ids /\ ids[IdOf(a) + 1] = a /\ ids' = ids
    BY <1>1, IdOfInterned DEF Intern
  <2>2. IdOf(a) \in Nat
    BY <1>1, InternTyped
  <2> QED BY <2>1, <2>2 DEF Distinct
<1>2. CASE a \notin Interned
  <2>1. ids' = Append(ids, a) /\ IdOf(a) = Len(ids)
    BY <1>2 DEF Intern, IdOf
  <2> QED BY <2>1, InternKeeps
<1> QED BY <1>1, <1>2

\* Names and SumFor with the ids of the next state.
NewNames(S)        == {ids'[i + 1] : i \in S}
NewSumFor(b, sums) == IF b \in NewInterned /\ NewId(b) \in Ids THEN sums[NewId(b)] ELSE 0

\* A set of ids that have been handed out keeps its names.
LEMMA NamesStay ==
    ASSUME ids \in Seq(Actors), NEW S, S \subseteq Nat, \A i \in S : i < Len(ids),
           \A i \in DOMAIN ids : ids'[i] = ids[i]
    PROVE  NewNames(S) = Names(S)
<1>1. Len(ids) \in Nat /\ DOMAIN ids = 1 .. Len(ids)
  OBVIOUS
<1>2. ASSUME NEW i \in S PROVE ids'[i + 1] = ids[i + 1]
  <2>1. i \in Nat /\ i < Len(ids)
    OBVIOUS
  <2> QED BY <1>1, <2>1
<1> QED BY <1>2 DEF Names, NewNames

\* When an id is handed out, what sums say of actors stays, those of the new
\* id being 0.
LEMMA SumsStay ==
    ASSUME ids \in Seq(Actors), Distinct, NEW a \in Actors, Intern(a), NEW b \in Actors, NEW sums,
           \A i \in Ids : i >= Len(ids) => sums[i] = 0
    PROVE  NewSumFor(b, sums) = SumFor(b, sums)
<1>1. /\ ids' \in Seq(Actors) /\ Distinct'
      /\ \A i \in DOMAIN ids : i \in DOMAIN ids' /\ ids'[i] = ids[i]
      /\ \A i \in DOMAIN ids' \ DOMAIN ids : i = IdOf(a) + 1
      /\ IdOf(a) \in Nat /\ ids'[IdOf(a) + 1] = a
  BY InternNames
<1>2. CASE b \in Interned
  <2>1. IdOf(b) + 1 \in DOMAIN ids /\ ids[IdOf(b) + 1] = b
    BY <1>2, IdOfInterned
  <2>2. IdOf(b) + 1 \in DOMAIN ids' /\ ids'[IdOf(b) + 1] = b
    BY <1>1, <2>1
  <2>3. IdOf(b) \in Nat
    BY <1>2, IdOfInterned
  <2>4. b \in NewInterned /\ NewId(b) = IdOf(b)
    BY <1>1, <2>2, <2>3, IdOfPrimed
  <2> QED BY <1>2, <2>4 DEF SumFor, NewSumFor
<1>3. CASE b \notin Interned /\ b = a
  <2>1. IdOf(a) = Len(ids)
    BY <1>3 DEF IdOf
  <2>2. IdOf(a) + 1 \in DOMAIN ids'
    BY InternNames
  <2>3. NewId(a) = IdOf(a)
    BY <1>1, <2>2, IdOfPrimed
  <2> QED BY <1>3, <2>1, <2>3 DEF SumFor, NewSumFor
<1>4. CASE b \notin Interned /\ b # a
  <2>1. b \notin NewInterned
    BY <1>1, <1>4 DEF Interned, NewInterned
  <2> QED BY <1>4, <2>1 DEF SumFor, NewSumFor
<1> QED BY <1>2, <1>3, <1>4

LEMMA TrackedIs ==
    ASSUME ids \in Seq(Actors), Distinct
    PROVE  /\ Cardinality(Tracked) = IF Len(ids) < Capacity THEN Len(ids) ELSE Capacity
           /\ \A a \in Actors : a \in Tracked <=> a \in Interned /\ IdOf(a) < Capacity
<1> DEFINE n == IF Len(ids) < Capacity THEN Len(ids) ELSE Capacity
           name == [i \in 1 .. n |-> ids[i]]
<1>1. n \in Nat /\ 1 .. n = {i \in DOMAIN ids : i <= Capacity}
  BY ConfigAssumption
<1>2. Tracked = {ids[i] : i \in 1 .. n}
  BY <1>1 DEF Tracked
<1> HIDE DEF n
<1>3. name \in [1 .. n -> Tracked] /\ \A i, j \in 1 .. n : name[i] = name[j] => i = j
  BY <1>1, <1>2 DEF Distinct
<1>4. \A t \in Tracked : \E i \in 1 .. n : name[i] = t
  BY <1>2
<1> HIDE DEF name
<1>5. name \in Bijection(1 .. n, Tracked)
  BY <1>3, <1>4, Fun_IsBij, Fun_IsSurj
<1>6. ExistsBijection(1 .. n, Tracked)
  BY <1>5, Fun_ExistsBij
<1>7. Cardinality(Tracked) = n
  BY <1>1, <1>6, FS_CountingElements
<1>8. ASSUME NEW a \in Actors PROVE a \in Tracked <=> a \in Interned /\ IdOf(a) < Capacity
  <2>1. CASE a \in Interned
    <3>1. IdOf(a) + 1 \in DOMAIN ids /\ ids[IdOf(a) + 1] = a
      BY <2>1, IdOfInterned
    <3>2. IdOf(a) \in Nat
      BY <2>1, IdOfInterned
    <3>3. \A i \in DOMAIN ids : ids[i] = a => i = IdOf(a) + 1
      BY <3>1 DEF Distinct
    <3> QED BY <2>1, <3>1, <3>2, <3>3, ConfigAssumption DEF Tracked
  <2>2. CASE a \notin Interned
    BY <2>2 DEF Tracked, Interned
  <2> QED BY <2>1, <2>2
<1> QED BY <1>7, <1>8 DEF n

\* An actor whose id fits is tracked, and there was room for it; another one is
\* not, and there was none.
LEMMA TrackedGrows ==
    ASSUME ids \in Seq(Actors), Distinct, NEW a \in Actors, Intern(a)
    PROVE  /\ Fits(IdOf(a)) => /\ Tracked' = Tracked \cup {a}
                               /\ a \in Tracked \/ Cardinality(Tracked) < Capacity
           /\ ~Fits(IdOf(a)) => /\ Tracked' = Tracked /\ a \notin Tracked
                                /\ Cardinality(Tracked) >= Capacity
<1>1. CASE a \in Interned
  <2>1. ids' = ids
    BY <1>1 DEF Intern
  <2>2. Tracked' = Tracked
    BY <2>1 DEF Tracked
  <2>3. IdOf(a) \in Nat /\ IdOf(a) + 1 \in DOMAIN ids
    BY <1>1, IdOfInterned
  <2> QED BY <1>1, <2>2, <2>3, TrackedIs, ConfigAssumption DEF Fits
<1>2. CASE a \notin Interned
  <2>1. ids' = Append(ids, a) /\ IdOf(a) = Len(ids) /\ Len(ids) \in Nat
    BY <1>2 DEF Intern, IdOf
  <2>2. Tracked' = IF Len(ids) < Capacity THEN Tracked \cup {a} ELSE Tracked
    <3>1. {j \in DOMAIN ids' : j <= Capacity}
            = {j \in DOMAIN ids : j <= Capacity} \cup {j \in {Len(ids) + 1} : j <= Capacity}
      BY <2>1
    <3>2. \A j \in DOMAIN ids : ids'[j] = ids[j]
      BY <2>1
    <3>3. ids'[Len(ids) + 1] = a
      BY <2>1
    <3> QED BY <2>1, <3>1, <3>2, <3>3, ConfigAssumption DEF Tracked
  <2> QED BY <1>2, <2>1, <2>2, TrackedIs, ConfigAssumption DEF Fits
<1> QED BY <1>1, <1>2

-----------------------------------------------------------------------------
(* Windows *)

LEMMA SmallStays == \A x \in Int64 : Wrap(x) = x
<1> SUFFICES ASSUME NEW x \in Int64 PROVE Wrap(x) = x
  OBVIOUS
<1>1. x + IntLimit \in 0 .. 2 * IntLimit - 1 /\ 2 * IntLimit \in Nat \ {0} /\ x \in Int
  BY ConfigAssumption DEF Int64
<1>2. (x + IntLimit) % (2 * IntLimit) = x + IntLimit
  <2>1. \A y, m \in Nat : y < m => y % m = y
    OBVIOUS
  <2> QED BY <1>1, <2>1
<1> QED BY <1>1, <1>2, ConfigAssumption DEF Wrap

\* One call more makes a sum larger by at most one step, and it still fits.
LEMMA OneStepMore ==
    ASSUME NEW most \in Nat, MaxCalls * most < IntLimit, calls \in Nat, calls < MaxCalls,
           NEW x \in -(calls * most) .. calls * most, NEW n \in -most .. most
    PROVE  /\ x + n \in -((calls + 1) * most) .. (calls + 1) * most
           /\ Wrap(x + n) = x + n
<1>1. calls * most \in Nat /\ (calls + 1) * most = calls * most + most
  OBVIOUS
<1>2. (calls + 1) * most <= MaxCalls * most
  <2>1. calls + 1 <= MaxCalls
    BY ConfigAssumption
  <2> QED BY <2>1, ConfigAssumption
<1>3. MaxCalls * most \in Nat /\ (calls + 1) * most \in Nat
  BY ConfigAssumption
<1>4. x + n \in -((calls + 1) * most) .. (calls + 1) * most
  <2> DEFINE p == calls * most
             q == (calls + 1) * most
  <2>1. p \in Nat /\ q = p + most /\ x \in -p .. p
    BY <1>1
  <2> HIDE DEF p, q
  <2>2. x + n \in -q .. q
    BY <2>1
  <2> QED BY <2>2 DEF q
<1>5. x + n \in Int64
  <2> DEFINE q == (calls + 1) * most
  <2>1. q \in Nat /\ q < IntLimit /\ x + n \in -q .. q
    BY <1>2, <1>3, <1>4, ConfigAssumption
  <2> HIDE DEF q
  <2> QED BY <2>1, ConfigAssumption DEF Int64
<1> QED BY <1>4, <1>5, SmallStays
LEMMA RecordChangeDoes ==
    ASSUME NEW win \in Window, NEW id \in Ids, NEW delta,
           Wrap(win.changeSum[id] + delta) = win.changeSum[id] + delta
    PROVE  LET new == RecordChange(win, id, delta)
           IN  /\ new.changed = win.changed \cup {id} /\ new.justified = win.justified
               /\ new.derived = win.derived /\ new.rooted = win.rooted
               /\ new.changeSum = [win.changeSum EXCEPT ![id] = win.changeSum[id] + delta]
               /\ new.causeSum = win.causeSum
BY DEF RecordChange, Window

LEMMA RecordCauseDoes ==
    ASSUME NEW win \in Window, NEW id \in Ids, NEW kind, NEW amount,
           Wrap(win.causeSum[id] + amount) = win.causeSum[id] + amount
    PROVE  LET new == RecordCause(win, id, kind, amount)
           IN  /\ new.changed = win.changed /\ new.justified = win.justified \cup {id}
               /\ new.derived = win.derived \cup {x \in {id} : kind \in DerivedCauseKinds}
               /\ new.rooted = win.rooted \cup {x \in {id} : kind \in RootCauseKinds}
               /\ new.changeSum = win.changeSum
               /\ new.causeSum = [win.causeSum EXCEPT ![id] = win.causeSum[id] + amount]
BY DEF RecordCause, Window

\* Handing out an id does not show in the windows.
LEMMA WindowsStay ==
    ASSUME VerdictInv, SumsUntouched, NEW a \in Actors, Intern(a), NEW v \in Starts
    PROVE  /\ NewNames(window[v].changed) = Names(window[v].changed)
           /\ NewNames(window[v].justified) = Names(window[v].justified)
           /\ NewNames(window[v].derived) = Names(window[v].derived)
           /\ NewNames(window[v].rooted) = Names(window[v].rooted)
           /\ \A b \in Actors : /\ NewSumFor(b, window[v].changeSum) = SumFor(b, window[v].changeSum)
                                /\ NewSumFor(b, window[v].causeSum) = SumFor(b, window[v].causeSum)
<1>1. ids \in Seq(Actors) /\ Distinct /\ window[v] \in Window
  BY DEF VerdictInv, OnceInv, TypeInv, TypeOK
<1>2. \A i \in DOMAIN ids : ids'[i] = ids[i]
  BY <1>1, InternNames
<1>3. Recorded(window[v]) \subseteq Nat /\ \A i \in Recorded(window[v]) : i < Len(ids)
  BY <1>1, ConfigAssumption DEF VerdictInv, OnceInv, TypeInv, Recorded, Window, Ids
<1>4. \A S : S \subseteq Recorded(window[v]) => NewNames(S) = Names(S)
  BY <1>1, <1>2, <1>3, NamesStay
<1>5. /\ window[v].changed \subseteq Recorded(window[v]) /\ window[v].justified \subseteq Recorded(window[v])
      /\ window[v].derived \subseteq Recorded(window[v]) /\ window[v].rooted \subseteq Recorded(window[v])
  BY DEF Recorded
<1>6. \A b \in Actors : /\ NewSumFor(b, window[v].changeSum) = SumFor(b, window[v].changeSum)
                        /\ NewSumFor(b, window[v].causeSum) = SumFor(b, window[v].causeSum)
  BY <1>1, SumsStay DEF SumsUntouched
<1> QED BY <1>4, <1>5, <1>6

\* The sums by actor after one of them has grown.
LEMMA SumGrows ==
    ASSUME ids \in Seq(Actors), Distinct, NEW a \in Actors, Intern(a), Fits(IdOf(a)),
           NEW sums, NEW new, \A i \in Ids : i >= Len(ids) => sums[i] = 0,
           \A i \in Ids \ {IdOf(a)} : new[i] = sums[i]
    PROVE  /\ NewSumFor(a, new) = new[IdOf(a)] /\ SumFor(a, sums) = sums[IdOf(a)]
           /\ \A b \in Actors \ {a} : NewSumFor(b, new) = SumFor(b, sums)
<1>1. /\ ids' \in Seq(Actors) /\ Distinct'
      /\ IdOf(a) \in Nat /\ IdOf(a) + 1 \in DOMAIN ids' /\ ids'[IdOf(a) + 1] = a
  BY InternNames
<1>2. a \in NewInterned /\ NewId(a) = IdOf(a) /\ IdOf(a) \in Ids
  BY <1>1, IdOfPrimed, ConfigAssumption DEF Fits, Ids
<1>3. \A b \in Actors : NewSumFor(b, sums) = SumFor(b, sums)
  BY SumsStay
<1>4. NewSumFor(a, new) = new[IdOf(a)] /\ SumFor(a, sums) = sums[IdOf(a)]
  <2>1. NewSumFor(a, sums) = sums[IdOf(a)] /\ NewSumFor(a, new) = new[IdOf(a)]
    BY <1>2 DEF NewSumFor
  <2> QED BY <1>3, <2>1
<1>5. ASSUME NEW b \in Actors \ {a} PROVE NewSumFor(b, new) = SumFor(b, sums)
  <2>1. b \in NewInterned => NewId(b) # IdOf(a)
    <3> SUFFICES ASSUME b \in NewInterned PROVE NewId(b) # IdOf(a)
      OBVIOUS
    <3>1. PICK i \in DOMAIN ids' : ids'[i] = b
      BY DEF NewInterned
    <3>2. NewId(b) = i - 1
      BY <1>1, <3>1, IdOfPrimed
    <3> QED BY <1>1, <3>1, <3>2
  <2>2. NewSumFor(b, new) = NewSumFor(b, sums)
    BY <2>1 DEF NewSumFor
  <2> QED BY <1>3, <2>2
<1> QED BY <1>4, <1>5

-----------------------------------------------------------------------------
(* Observe calls, in terms of actors *)

LEMMA Views ==
    /\ Changed = [v \in Starts |-> Names(window[v].changed)]
    /\ Justified = [v \in Starts |-> Names(window[v].justified)]
    /\ Derived = [v \in Starts |-> Names(window[v].derived)]
    /\ Rooted = [v \in Starts |-> Names(window[v].rooted)]
    /\ Moved = [v \in Starts |-> [b \in Actors |-> SumFor(b, window[v].changeSum)]]
    /\ Authorized = [v \in Starts |-> [b \in Actors |-> SumFor(b, window[v].causeSum)]]
BY DEF Changed, Justified, Derived, Rooted, Moved, Authorized

LEMMA NextViews ==
    /\ Changed' = [v \in Starts |-> NewNames(window'[v].changed)]
    /\ Justified' = [v \in Starts |-> NewNames(window'[v].justified)]
    /\ Derived' = [v \in Starts |-> NewNames(window'[v].derived)]
    /\ Rooted' = [v \in Starts |-> NewNames(window'[v].rooted)]
    /\ Moved' = [v \in Starts |-> [b \in Actors |-> NewSumFor(b, window'[v].changeSum)]]
    /\ Authorized' = [v \in Starts |-> [b \in Actors |-> NewSumFor(b, window'[v].causeSum)]]
BY DEF Changed, Justified, Derived, Rooted, Moved, Authorized, NewNames, NewSumFor, Names, SumFor,
       IdOf, Interned, NewId, NewInterned

\* Windows that stay as they were show what they showed.
LEMMA ViewsStay ==
    ASSUME window' = window,
           \A v \in Starts :
              /\ NewNames(window[v].changed) = Names(window[v].changed)
              /\ NewNames(window[v].justified) = Names(window[v].justified)
              /\ NewNames(window[v].derived) = Names(window[v].derived)
              /\ NewNames(window[v].rooted) = Names(window[v].rooted)
              /\ \A b \in Actors : /\ NewSumFor(b, window[v].changeSum) = SumFor(b, window[v].changeSum)
                                   /\ NewSumFor(b, window[v].causeSum) = SumFor(b, window[v].causeSum)
    PROVE  UNCHANGED <<Changed, Justified, Derived, Rooted, Moved, Authorized>>
<1>1. /\ Changed' = [v \in Starts |-> NewNames(window[v].changed)]
      /\ Justified' = [v \in Starts |-> NewNames(window[v].justified)]
      /\ Derived' = [v \in Starts |-> NewNames(window[v].derived)]
      /\ Rooted' = [v \in Starts |-> NewNames(window[v].rooted)]
      /\ Moved' = [v \in Starts |-> [b \in Actors |-> NewSumFor(b, window[v].changeSum)]]
      /\ Authorized' = [v \in Starts |-> [b \in Actors |-> NewSumFor(b, window[v].causeSum)]]
  BY NextViews
<1>2. Changed' = Changed
  BY <1>1, Views
<1>3. Justified' = Justified
  BY <1>1, Views
<1>4. Derived' = Derived
  BY <1>1, Views
<1>5. Rooted' = Rooted
  BY <1>1, Views
<1>6. Moved' = Moved
  BY <1>1, Views
<1>7. Authorized' = Authorized
  BY <1>1, Views
<1> QED BY <1>2, <1>3, <1>4, <1>5, <1>6, <1>7

LEMMA SameIds ==
    ASSUME UNCHANGED <<ids, window>>
    PROVE  UNCHANGED <<Tracked, Changed, Justified, Derived, Rooted, Moved, Authorized>>
<1>1. Tracked' = Tracked /\ NewInterned = Interned
  BY DEF Tracked, Interned, NewInterned
<1>2. ASSUME NEW b PROVE NewId(b) = IdOf(b)
  <2> DEFINE first(s) == CHOOSE i \in DOMAIN s : s[i] = b
  <2>1. /\ NewId(b) = IF b \in NewInterned THEN first(ids') - 1 ELSE Len(ids')
        /\ IdOf(b) = IF b \in Interned THEN first(ids) - 1 ELSE Len(ids)
    BY Zenon DEF IdOf, NewId
  <2> HIDE DEF first
  <2> QED BY <1>1, <2>1
<1>3. \A S : NewNames(S) = Names(S)
  BY DEF NewNames, Names
<1>4. \A b, sums : NewSumFor(b, sums) = SumFor(b, sums)
  BY <1>1, <1>2, Zenon DEF NewSumFor, SumFor
<1> QED BY <1>1, <1>3, <1>4, ViewsStay

SameViews == UNCHANGED <<Tracked, Changed, Justified, Derived, Rooted, Moved, Authorized, Phase>>

\* An Observe call shows in CauseJustified as a call that raises no verdict.
LEMMA CalledShows ==
    ASSUME Called
    PROVE  /\ Abstract!Called
           /\ Phase' = Phase
           /\ pending' = pending => Found' = Found
           /\ \A al : pending' = pending \cup {al} => Found' = Found \cup {al}
BY DEF Called, Abstract!Called, Phase, PhaseOf, Found

LEMMA SameCardinality == \A S : Abstract!Cardinality(S) = Cardinality(S)
BY DEF Abstract!Cardinality, Cardinality

LEMMA RefusalShows ==
    ASSUME VerdictInv, NEW a \in Actors, NEW w \in Starts, Called, SameViews,
           \/ IsLate(w) /\ Raise("late_event", w, a)
           \/ ~IsLate(w) /\ Raise("capacity_exceeded", w, a) /\ a \notin Tracked
              /\ Cardinality(Tracked) >= Capacity
    PROVE  \E type \in {"late_event", "capacity_exceeded"} : Abstract!Refuse(type, a, w)
<1>1. PICK type \in {"late_event", "capacity_exceeded"} :
         /\ Raise(type, w, a)
         /\ type = "late_event" => IsLate(w)
         /\ type = "capacity_exceeded" =>
               ~IsLate(w) /\ a \notin Tracked /\ Cardinality(Tracked) >= Capacity
  OBVIOUS
<1>2. Found' = Found \cup {Abstract!Finding(type, w, {a}, calls + 1)}
  BY <1>1, CalledShows DEF Raise, Abstract!Finding
<1>3. Phase[w] = "open" <=> ~IsLate(w)
  BY DEF Phase, PhaseOf, IsLate
<1>4. type = "late_event" => Phase[w] # "open"
  BY <1>1, <1>3
<1>5. type = "capacity_exceeded" => Phase[w] = "open" /\ a \notin Tracked /\ Cardinality(Tracked) >= Capacity
  BY <1>1, <1>3
<1>6. Abstract!Refuse(type, a, w)
  <2>1. Abstract!Called
    BY CalledShows
  <2>2. \/ type = "late_event" /\ Phase[w] # "open"
        \/ /\ type = "capacity_exceeded"
           /\ Phase[w] = "open" /\ a \notin Tracked /\ Abstract!Cardinality(Tracked) >= Capacity
    BY <1>4, <1>5, SameCardinality
  <2> QED BY <1>2, <2>1, <2>2, Zenon
          DEF Abstract!Refuse, Found, SameViews, Tracked, Changed, Justified, Derived, Rooted,
              Moved, Authorized, Phase
<1> QED BY <1>6

\* Nothing but an id handed out: the windows are as they were.
LEMMA QuietIngest ==
    ASSUME VerdictInv, SumsUntouched, NEW a \in Actors, NEW w \in Starts, NEW win, Called,
           Ingest(a, w, win), IsLate(w) \/ ~Fits(IdOf(a))
    PROVE  \E type \in {"late_event", "capacity_exceeded"} : Abstract!Refuse(type, a, w)
<1>0. ids \in Seq(Actors) /\ Distinct
  BY DEF VerdictInv, OnceInv, TypeInv, TypeOK
<1>1. CASE IsLate(w)
  <2>1. Raise("late_event", w, a) /\ UNCHANGED <<ids, window>>
    BY <1>1 DEF Ingest
  <2>2. UNCHANGED <<Tracked, Changed, Justified, Derived, Rooted, Moved, Authorized>>
    BY <2>1, SameIds
  <2> QED BY <1>1, <2>1, <2>2, CalledShows, RefusalShows DEF SameViews
<1>2. CASE ~IsLate(w) /\ ~Fits(IdOf(a))
  <2>1. Intern(a) /\ Raise("capacity_exceeded", w, a)
    BY <1>2 DEF Ingest
  <2>2. Tracked' = Tracked /\ a \notin Tracked /\ Cardinality(Tracked) >= Capacity
    BY <1>0, <1>2, <2>1, TrackedGrows
  <2>3. UNCHANGED <<Changed, Justified, Derived, Rooted, Moved, Authorized>>
    <3>1. window' = window
      BY <1>2 DEF Ingest
    <3> QED BY <2>1, <3>1, WindowsStay, ViewsStay
  <2> QED BY <1>2, <2>1, <2>2, <2>3, CalledShows, RefusalShows DEF SameViews
<1> QED BY <1>1, <1>2

\* The window of an event that is recorded is the only one that changes.
LEMMA ChangeShows ==
    ASSUME NEW most \in Nat, MaxCalls * most < IntLimit, RefineInv(most),
           NEW a \in Actors, NEW w \in Starts, NEW d \in -most .. most, Called,
           ~IsLate(w), Intern(a), Fits(IdOf(a)), UNCHANGED pending,
           window' = [window EXCEPT ![w] = RecordChange(window[w], IdOf(a), d)]
    PROVE  Abstract!Change(a, w, d)
<1> DEFINE id  == IdOf(a)
           new == RecordChange(window[w], id, d)
<1>1. /\ ids \in Seq(Actors) /\ Distinct /\ VerdictInv /\ SumsUntouched
      /\ window \in [Starts -> Window] /\ calls \in Nat /\ calls < MaxCalls
  BY ConfigAssumption DEF RefineInv, VerdictInv, OnceInv, TypeInv, TypeOK, Called
<1>2. id \in Ids /\ NewNames({id}) = {a}
  <2>1. id \in Nat /\ ids'[id + 1] = a
    BY <1>1, InternNames
  <2> QED BY <2>1, ConfigAssumption DEF Fits, Ids, NewNames
<1>3. window[w].changeSum[id] \in -(calls * most) .. calls * most
  BY <1>2 DEF RefineInv, SumsBounded
<1>4. Wrap(window[w].changeSum[id] + d) = window[w].changeSum[id] + d
  BY <1>1, <1>3, OneStepMore
<1>5. /\ new.changed = window[w].changed \cup {id} /\ new.justified = window[w].justified
      /\ new.derived = window[w].derived /\ new.rooted = window[w].rooted
      /\ new.changeSum = [window[w].changeSum EXCEPT ![id] = window[w].changeSum[id] + d]
      /\ new.causeSum = window[w].causeSum
  BY <1>1, <1>2, <1>4, RecordChangeDoes
<1>6. window'[w] = new /\ \A v \in Starts : v # w => window'[v] = window[v]
  BY <1>1
<1> HIDE DEF id, new
<1>7. UNCHANGED <<Justified, Derived, Rooted, Authorized>>
  BY <1>1, <1>5, <1>6, WindowsStay, NextViews, Views
<1>8. Changed' = [Changed EXCEPT ![w] = @ \cup {a}]
  <2>1. NewNames(window[w].changed \cup {id}) = NewNames(window[w].changed) \cup {a}
    BY <1>2 DEF NewNames
  <2>2. \A v \in Starts : NewNames(window[v].changed) = Names(window[v].changed)
    BY <1>1, WindowsStay
  <2>3. Changed'[w] = Changed[w] \cup {a} /\ \A v \in Starts : v # w => Changed'[v] = Changed[v]
    BY <1>5, <1>6, <2>1, <2>2, NextViews, Views
  <2>4. Changed' = [v \in Starts |-> Changed'[v]] /\ Changed = [v \in Starts |-> Changed[v]]
    BY NextViews, Views
  <2> QED BY <2>3, <2>4
<1>9. Moved' = [Moved EXCEPT ![w][a] = @ + d]
  <2>1. window[w].changeSum \in [Ids -> Int] /\ d \in Int
    BY <1>1 DEF Window, Int64
  <2>2. /\ NewSumFor(a, new.changeSum) = SumFor(a, window[w].changeSum) + d
        /\ \A b \in Actors \ {a} : NewSumFor(b, new.changeSum) = SumFor(b, window[w].changeSum)
    <3> DEFINE sums == window[w].changeSum
               more == new.changeSum
    <3>1. /\ \A i \in Ids : i >= Len(ids) => sums[i] = 0
          /\ \A i \in Ids \ {IdOf(a)} : more[i] = sums[i]
          /\ more[IdOf(a)] = sums[IdOf(a)] + d
      BY <1>1, <1>2, <1>5, <2>1 DEF SumsUntouched, id
    <3>2. ids \in Seq(Actors) /\ Distinct
      BY <1>1
    <3> HIDE DEF sums, more
    <3>3. /\ NewSumFor(a, more) = more[IdOf(a)] /\ SumFor(a, sums) = sums[IdOf(a)]
          /\ \A b \in Actors \ {a} : NewSumFor(b, more) = SumFor(b, sums)
      BY <3>1, <3>2, SumGrows
    <3> QED BY <3>1, <3>3 DEF sums, more
  <2>3. \A b \in Actors : /\ Moved[w][b] = SumFor(b, window[w].changeSum)
                          /\ Moved'[w][b] = NewSumFor(b, new.changeSum)
    BY <1>6, NextViews, Views
  <2>4. Moved'[w][a] = Moved[w][a] + d /\ \A b \in Actors \ {a} : Moved'[w][b] = Moved[w][b]
    BY <2>2, <2>3
  <2>5. \A v \in Starts : v # w => Moved'[v] = Moved[v]
    BY <1>1, <1>6, WindowsStay, NextViews, Views
  <2>6. Moved' = [v \in Starts |-> Moved'[v]] /\ Moved = [v \in Starts |-> Moved[v]]
    BY NextViews, Views
  <2>7. Moved'[w] = [b \in Actors |-> Moved'[w][b]] /\ Moved[w] = [b \in Actors |-> Moved[w][b]]
    BY NextViews, Views
  <2>8. Moved'[w] = [Moved[w] EXCEPT ![a] = @ + d]
    BY <2>4, <2>7
  <2> QED BY <2>5, <2>6, <2>8
<1>10. /\ Phase[w] = "open" /\ Phase' = Phase /\ Found' = Found /\ Abstract!Called
  BY CalledShows DEF Phase, PhaseOf, IsLate
<1>11. /\ Tracked' = Tracked \cup {a}
       /\ a \in Tracked \/ Abstract!Cardinality(Tracked) < Capacity
  BY <1>1, TrackedGrows, SameCardinality
<1> QED
  BY <1>7, <1>8, <1>9, <1>10, <1>11, Zenon
  DEF Abstract!Change, Abstract!Track, Found, Tracked, Changed, Justified, Derived, Rooted,
      Moved, Authorized, Phase
\* The views of an event's window, and the other windows' views.
LEMMA CauseShows ==
    ASSUME NEW most \in Nat, MaxCalls * most < IntLimit, RefineInv(most),
           NEW a \in Actors, NEW w \in Starts, NEW k, NEW p, Trusted(p), NEW n \in -most .. most, Called,
           ~IsLate(w), Intern(a), Fits(IdOf(a)), UNCHANGED pending,
           window' = [window EXCEPT ![w] = RecordCause(window[w], IdOf(a), k, n)]
    PROVE  Abstract!Cause(a, w, k, p, n)
<1> DEFINE id  == IdOf(a)
           new == RecordCause(window[w], id, k, n)
           isDerived == {x \in {a} : k \in DerivedCauseKinds}
           isRoot    == {x \in {a} : k \in RootCauseKinds}
<1>1. /\ ids \in Seq(Actors) /\ Distinct /\ VerdictInv /\ SumsUntouched
      /\ window \in [Starts -> Window] /\ calls \in Nat /\ calls < MaxCalls
  BY ConfigAssumption DEF RefineInv, VerdictInv, OnceInv, TypeInv, TypeOK, Called
<1>2. id \in Ids /\ ids'[id + 1] = a
  <2>1. id \in Nat /\ ids'[id + 1] = a
    BY <1>1, InternNames
  <2> QED BY <2>1, ConfigAssumption DEF Fits, Ids
<1>3. window[w].causeSum[id] \in -(calls * most) .. calls * most
  BY <1>2 DEF RefineInv, SumsBounded
<1>4. Wrap(window[w].causeSum[id] + n) = window[w].causeSum[id] + n
  BY <1>1, <1>3, OneStepMore
<1>5. /\ new.changed = window[w].changed /\ new.justified = window[w].justified \cup {id}
      /\ new.derived = window[w].derived \cup {x \in {id} : k \in DerivedCauseKinds}
      /\ new.rooted = window[w].rooted \cup {x \in {id} : k \in RootCauseKinds}
      /\ new.changeSum = window[w].changeSum
      /\ new.causeSum = [window[w].causeSum EXCEPT ![id] = window[w].causeSum[id] + n]
  BY <1>1, <1>2, <1>4, RecordCauseDoes
<1>6. window'[w] = new /\ \A v \in Starts : v # w => window'[v] = window[v]
  BY <1>1
<1> HIDE DEF id, new
<1>7. UNCHANGED <<Changed, Moved>>
  BY <1>1, <1>5, <1>6, WindowsStay, NextViews, Views
<1>8. Justified' = [Justified EXCEPT ![w] = @ \cup {a}]
  <2>1. NewNames(window[w].justified \cup {id}) = NewNames(window[w].justified) \cup {a}
    BY <1>2 DEF NewNames
  <2> QED BY <1>1, <1>5, <1>6, <2>1, WindowsStay, NextViews, Views
<1>9. Derived' = [Derived EXCEPT ![w] = @ \cup isDerived]
  <2>1. NewNames(new.derived) = NewNames(window[w].derived) \cup isDerived
    BY <1>2, <1>5 DEF NewNames
  <2> QED BY <1>1, <1>6, <2>1, WindowsStay, NextViews, Views
<1>10. Rooted' = [Rooted EXCEPT ![w] = @ \cup isRoot]
  <2>1. NewNames(new.rooted) = NewNames(window[w].rooted) \cup isRoot
    BY <1>2, <1>5 DEF NewNames
  <2> QED BY <1>1, <1>6, <2>1, WindowsStay, NextViews, Views
<1>11. Authorized' = [Authorized EXCEPT ![w][a] = @ + n]
  <2>1. window[w].causeSum \in [Ids -> Int] /\ n \in Int
    BY <1>1 DEF Window, Int64
  <2>2. /\ NewSumFor(a, new.causeSum) = SumFor(a, window[w].causeSum) + n
        /\ \A b \in Actors \ {a} : NewSumFor(b, new.causeSum) = SumFor(b, window[w].causeSum)
    <3> DEFINE sums == window[w].causeSum
               more == new.causeSum
    <3>1. /\ \A i \in Ids : i >= Len(ids) => sums[i] = 0
          /\ \A i \in Ids \ {IdOf(a)} : more[i] = sums[i]
          /\ more[IdOf(a)] = sums[IdOf(a)] + n
      BY <1>1, <1>2, <1>5, <2>1 DEF SumsUntouched, id
    <3>2. ids \in Seq(Actors) /\ Distinct
      BY <1>1
    <3> HIDE DEF sums, more
    <3>3. /\ NewSumFor(a, more) = more[IdOf(a)] /\ SumFor(a, sums) = sums[IdOf(a)]
          /\ \A b \in Actors \ {a} : NewSumFor(b, more) = SumFor(b, sums)
      BY <3>1, <3>2, SumGrows
    <3> QED BY <3>1, <3>3 DEF sums, more
  <2>3. \A b \in Actors : /\ Authorized[w][b] = SumFor(b, window[w].causeSum)
                          /\ Authorized'[w][b] = NewSumFor(b, new.causeSum)
    BY <1>6, NextViews, Views
  <2>4. Authorized'[w][a] = Authorized[w][a] + n /\ \A b \in Actors \ {a} : Authorized'[w][b] = Authorized[w][b]
    BY <2>2, <2>3
  <2>5. \A v \in Starts : v # w => Authorized'[v] = Authorized[v]
    BY <1>1, <1>6, WindowsStay, NextViews, Views
  <2>6. Authorized' = [v \in Starts |-> Authorized'[v]] /\ Authorized = [v \in Starts |-> Authorized[v]]
    BY NextViews, Views
  <2>7. /\ Authorized'[w] = [b \in Actors |-> Authorized'[w][b]]
        /\ Authorized[w] = [b \in Actors |-> Authorized[w][b]]
    BY NextViews, Views
  <2>8. Authorized'[w] = [Authorized[w] EXCEPT ![a] = @ + n]
    BY <2>4, <2>7
  <2> QED BY <2>5, <2>6, <2>8
<1>12. /\ Phase[w] = "open" /\ Phase' = Phase /\ Found' = Found /\ Abstract!Called
  BY CalledShows DEF Phase, PhaseOf, IsLate
<1>13. /\ Tracked' = Tracked \cup {a}
       /\ a \in Tracked \/ Abstract!Cardinality(Tracked) < Capacity
  BY <1>1, TrackedGrows, SameCardinality
<1>14. TrustedProducers = {} \/ p \in TrustedProducers
  BY DEF Trusted
<1> QED
  BY <1>7, <1>8, <1>9, <1>10, <1>11, <1>12, <1>13, <1>14, Zenon
  DEF Abstract!Cause, Abstract!Track, Found, Tracked, Changed, Justified, Derived, Rooted,
      Moved, Authorized, Phase

LEMMA DistrustShows ==
    ASSUME NEW a \in Actors, NEW w \in Starts, NEW p, Called, ~Trusted(p),
           Raise("untrusted_producer", w, a), UNCHANGED <<ids, open, window>>
    PROVE  Abstract!Distrust(a, w, p)
<1>1. Found' = Found \cup {Abstract!Finding("untrusted_producer", w, {a}, calls + 1)}
  BY CalledShows DEF Raise, Abstract!Finding
<1>2. SameViews
  BY SameIds, CalledShows DEF SameViews
<1>3. Abstract!Called
  BY CalledShows
<1>4. TrustedProducers # {} /\ p \notin TrustedProducers
  BY DEF Trusted
<1> QED
  BY <1>1, <1>2, <1>3, <1>4, Zenon
  DEF Abstract!Distrust, Found, SameViews, Tracked, Changed, Justified, Derived, Rooted,
      Moved, Authorized, Phase

-----------------------------------------------------------------------------
(* Closing, in terms of windows *)

\* What neither ids, windows, calls, findings nor phases show does not show.
LEMMA QuietShows ==
    ASSUME UNCHANGED <<ids, window, calls>>, Found' = Found, Phase' = Phase
    PROVE  UNCHANGED Abstract!vars
BY SameIds, Zenon
   DEF Abstract!vars, Found, Tracked, Changed, Justified, Derived, Rooted, Moved, Authorized, Phase

LEMMA SealShows ==
    ASSUME UNCHANGED <<ids, window, calls>>, Found' = Found, NEW w \in Starts,
           Phase[w] = "open", Phase' = [Phase EXCEPT ![w] = "sealed"]
    PROVE  Abstract!Seal(w)
BY SameIds, Zenon
   DEF Abstract!Seal, Found, Tracked, Changed, Justified, Derived, Rooted, Moved, Authorized, Phase

LEMMA JudgeShows ==
    ASSUME UNCHANGED <<ids, window, calls>>, NEW w \in Starts, Found' = Found \cup Abstract!Verdict(w),
           Phase[w] = "sealed", Phase' = [Phase EXCEPT ![w] = "judged"]
    PROVE  Abstract!Judge(w)
BY SameIds, Zenon
   DEF Abstract!Judge, Found, Tracked, Changed, Justified, Derived, Rooted, Moved, Authorized, Phase

\* A closer's step seals the window it takes, judges the one it has, or does
\* not show.
LEMMA CloseShows ==
    ASSUME VerdictInv, NEW c \in Closers, Close(c)
    PROVE  (\E w \in Starts : Abstract!Seal(w) \/ Abstract!Judge(w)) \/ UNCHANGED Abstract!vars
<1>0. /\ closer \in [Closers -> Closer] /\ KeysHeld /\ closed \subseteq Starts /\ OnceInv
      /\ Phase = [w \in Starts |-> PhaseOf(w)]
  BY DEF VerdictInv, OnceInv, TypeInv, TypeOK, Phase
<1>1. ASSUME NEW due, BeginClose(c, due) PROVE UNCHANGED Abstract!vars
  <2>1. /\ closer[c].at = "idle" /\ closer'[c].out = {} /\ closer'[c].key = NoKey
        /\ \A d \in Closers \ {c} : closer'[d] = closer[d]
        /\ UNCHANGED <<ids, closed, window, pending, calls, delivered>>
    BY <1>0, <1>1 DEF BeginClose, idleCloser
  <2>2. \A d \in Closers : closer'[d].out = closer[d].out /\ closer'[d].key = closer[d].key
    BY <1>0, <2>1 DEF KeysHeld
  <2>3. Found' = Found
    BY <2>1, <2>2 DEF Found
  <2>4. Phase' = Phase
    BY <2>1, <2>2 DEF Phase, PhaseOf
  <2> QED BY <2>1, <2>3, <2>4, QuietShows
<1>2. ASSUME CloseWindow(c) PROVE (\E w \in Starts : Abstract!Seal(w)) \/ UNCHANGED Abstract!vars
  <2>1. PICK key \in closer[c].due : CloseWindow(c)!(key)
    BY <1>2 DEF CloseWindow
  <2>2. /\ closer[c].at = "closing" /\ closer[c].key = NoKey /\ key \in Starts
        /\ UNCHANGED <<ids, window, pending, calls, delivered>>
    BY <1>0, <2>1 DEF KeysHeld, Closer
  <2>3. /\ \A d \in Closers \ {c} : closer'[d] = closer[d]
        /\ closer'[c].out = closer[c].out
    BY <1>0, <2>1 DEF Closer
  <2>4. Found' = Found
    BY <2>2, <2>3 DEF Found
  <2>5. CASE StillOpen(key)
    <3>1. closer'[c].key = key /\ closed' = closed \cup {key} /\ key \notin closed
      BY <1>0, <2>1, <2>5 DEF Closer, StillOpen, OnceInv, ClosedForGood
    <3>2. \A w \in Starts \ {key} :
             /\ w \in closed' <=> w \in closed
             /\ \A d \in Closers : closer'[d].key = w <=> closer[d].key = w
      BY <2>2, <2>3, <3>1, StartsAreNumbers
    <3>3. PhaseOf(key)' = "sealed" /\ PhaseOf(key) = "open"
      BY <3>1 DEF PhaseOf
    <3>4. \A w \in Starts \ {key} : PhaseOf(w)' = PhaseOf(w)
      BY <3>2 DEF PhaseOf
    <3>5. Phase' = [w \in Starts |-> PhaseOf(w)']
      BY DEF Phase
    <3>6. Phase[key] = "open" /\ Phase' = [Phase EXCEPT ![key] = "sealed"]
      BY <1>0, <2>2, <3>3, <3>4, <3>5
    <3> QED BY <2>2, <2>4, <3>6, SealShows
  <2>6. CASE ~StillOpen(key)
    <3>1. closer'[c].key = NoKey /\ closed' = closed
      BY <1>0, <2>1, <2>2, <2>6 DEF Closer
    <3>2. \A d \in Closers : closer'[d].key = closer[d].key
      BY <2>2, <2>3, <3>1
    <3>3. \A w \in Starts : PhaseOf(w)' = PhaseOf(w)
      BY <3>1, <3>2 DEF PhaseOf
    <3>4. Phase' = Phase
      BY <3>3 DEF Phase
    <3> QED BY <2>2, <2>4, <3>4, QuietShows
  <2> QED BY <2>5, <2>6
<1>3. ASSUME Judge(c) PROVE \E w \in Starts : Abstract!Judge(w)
  <2>1. PICK key : key = closer[c].key
    OBVIOUS
  <2>2. /\ closer[c].at = "judging" /\ key \in closed
        /\ UNCHANGED <<ids, open, closed, window, pending, calls, delivered>>
    BY <1>0, <1>3, <2>1 DEF Judge, OnceInv, AlertsPlaced
  <2>3. /\ \A d \in Closers \ {c} : closer'[d] = closer[d]
        /\ closer'[c].key = NoKey
        /\ closer'[c].out = closer[c].out \cup Verdict(key)
    BY <1>0, <1>3, <2>1 DEF Judge, Closer
  <2>4. key \in Starts /\ key # NoKey
    BY <1>0, <2>2, StartsAreNumbers
  <2>5. Found' = Found \cup Abstract!Verdict(key)
    <3>1. Found' = Found \cup Verdict(key)
      BY <2>2, <2>3 DEF Found
    <3> QED BY <2>4, <3>1, VerdictIsAbstract
  <2>6. \A d \in Closers \ {c} : closer[d].key # key
    <3> SUFFICES ASSUME NEW d \in Closers \ {c}, closer[d].key = key PROVE FALSE
      OBVIOUS
    <3>1. closer[d].at = "judging"
      BY <1>0, <2>4 DEF KeysHeld
    <3> QED BY <1>0, <2>1, <2>2, <3>1 DEF OnceInv, ReportedOnce, JudgedOnce
  <2>7. PhaseOf(key) = "sealed" /\ PhaseOf(key)' = "judged"
    BY <2>1, <2>2, <2>3, <2>4, <2>6 DEF PhaseOf
  <2>8. \A w \in Starts \ {key} : \A d \in Closers : closer'[d].key = w <=> closer[d].key = w
    BY <2>1, <2>3, StartsAreNumbers
  <2>9. \A w \in Starts \ {key} : PhaseOf(w)' = PhaseOf(w)
    BY <2>2, <2>8 DEF PhaseOf
  <2>10. Phase' = [w \in Starts |-> PhaseOf(w)']
    BY DEF Phase
  <2>11. Phase[key] = "sealed" /\ Phase' = [Phase EXCEPT ![key] = "judged"]
    BY <1>0, <2>4, <2>7, <2>9, <2>10
  <2> QED BY <2>2, <2>4, <2>5, <2>11, JudgeShows
<1>4. ASSUME Return(c) PROVE UNCHANGED Abstract!vars
  <2>1. /\ \A d \in Closers \ {c} : closer'[d] = closer[d]
        /\ closer'[c].out = {} /\ closer'[c].key = NoKey
        /\ closer[c].at = "closing"
        /\ pending' = {} /\ delivered' = delivered \cup pending \cup closer[c].out
        /\ UNCHANGED <<ids, closed, window, calls>>
    BY <1>0, <1>4 DEF Return, Batch, idleCloser
  <2>2. \A d \in Closers : closer'[d].key = closer[d].key
    BY <1>0, <2>1 DEF KeysHeld
  <2>3. Found' = Found
    BY <2>1 DEF Found
  <2>4. Phase' = Phase
    BY <2>1, <2>2 DEF Phase, PhaseOf
  <2> QED BY <2>1, <2>3, <2>4, QuietShows
<1> QED BY <1>1, <1>2, <1>3, <1>4 DEF Close, CloseDue, CloseAll, Continue

-----------------------------------------------------------------------------
(* The sums stay small *)

LEMMA IngestBounded ==
    ASSUME NEW most \in Nat, MaxCalls * most < IntLimit, RefineInv(most),
           NEW a \in Actors, NEW w \in Starts, NEW win, Called, Ingest(a, w, win),
           IdOf(a) \in Ids => \A i \in Ids :
              /\ win.changeSum[i] \in -((calls + 1) * most) .. (calls + 1) * most
              /\ win.causeSum[i] \in -((calls + 1) * most) .. (calls + 1) * most
              /\ i # IdOf(a) => /\ win.changeSum[i] = window[w].changeSum[i]
                                /\ win.causeSum[i] = window[w].causeSum[i]
    PROVE  SumsBounded(most)' /\ SumsUntouched'
<1>1. /\ ids \in Seq(Actors) /\ Distinct /\ window \in [Starts -> Window] /\ SumsUntouched
      /\ calls \in Nat /\ calls < MaxCalls /\ calls' = calls + 1 /\ 0 \in -most .. most
  BY ConfigAssumption DEF RefineInv, VerdictInv, OnceInv, TypeInv, TypeOK, Called
<1>2. \A v \in Starts, i \in Ids :
         /\ window[v].changeSum[i] \in -((calls + 1) * most) .. (calls + 1) * most
         /\ window[v].causeSum[i] \in -((calls + 1) * most) .. (calls + 1) * most
  <2>1. \A x \in -(calls * most) .. calls * most : x + 0 \in -((calls + 1) * most) .. (calls + 1) * most
    BY <1>1, OneStepMore
  <2>2. \A x \in -(calls * most) .. calls * most : x \in -((calls + 1) * most) .. (calls + 1) * most
    <3>1. \A x \in -(calls * most) .. calls * most : x + 0 = x
      BY <1>1
    <3> QED BY <2>1, <3>1
  <2> QED BY <2>2 DEF RefineInv, SumsBounded
<1>3. CASE UNCHANGED <<ids, window>>
  BY <1>1, <1>2, <1>3 DEF SumsBounded, SumsUntouched
<1>4. CASE Intern(a) /\ UNCHANGED window
  <2>1. Len(ids) \in Nat /\ Len(ids') \in Nat /\ Len(ids) <= Len(ids')
    BY <1>1, <1>4, InternTyped
  <2>2. Ids \subseteq Nat
    BY ConfigAssumption DEF Ids
  <2> QED BY <1>1, <1>2, <1>4, <2>1, <2>2 DEF SumsBounded, SumsUntouched
<1>5. CASE Intern(a) /\ Fits(IdOf(a)) /\ window' = [window EXCEPT ![w] = win]
  <2>1. /\ Len(ids) \in Nat /\ Len(ids') \in Nat /\ Len(ids) <= Len(ids')
        /\ IdOf(a) \in Nat /\ IdOf(a) < Len(ids')
    <3>1. ids' \in Seq(Actors) /\ Len(ids) <= Len(ids') /\ IdOf(a) \in 0 .. Len(ids') - 1
      BY <1>1, <1>5, InternTyped
    <3> QED BY <1>1, <3>1
  <2>2. IdOf(a) \in Ids /\ Ids \subseteq Nat
    BY <1>5, <2>1, ConfigAssumption DEF Fits, Ids
  <2>3. window'[w] = win /\ \A v \in Starts \ {w} : window'[v] = window[v]
    BY <1>1, <1>5
  <2>4. SumsBounded(most)'
    <3>1. ASSUME NEW v \in Starts, NEW i \in Ids
          PROVE  /\ window'[v].changeSum[i] \in -((calls + 1) * most) .. (calls + 1) * most
                 /\ window'[v].causeSum[i] \in -((calls + 1) * most) .. (calls + 1) * most
      BY <1>2, <2>2, <2>3
    <3> QED BY <1>1, <3>1 DEF SumsBounded
  <2>5. ASSUME NEW i \in Ids, i >= Len(ids') PROVE i >= Len(ids) /\ i # IdOf(a)
    BY <2>1, <2>2, <2>5
  <2>6. SumsUntouched'
    <3>1. ASSUME NEW v \in Starts, NEW i \in Ids, i >= Len(ids')
          PROVE  window'[v].changeSum[i] = 0 /\ window'[v].causeSum[i] = 0
      <4>1. window[v].changeSum[i] = 0 /\ window[v].causeSum[i] = 0
        BY <1>1, <2>5, <3>1 DEF SumsUntouched
      <4> QED BY <2>2, <2>3, <2>5, <3>1, <4>1
    <3> QED BY <3>1 DEF SumsUntouched
  <2> QED BY <2>4, <2>6
<1> QED BY <1>3, <1>4, <1>5 DEF Ingest

LEMMA RefineNext ==
    ASSUME NEW most \in Nat, MaxCalls * most < IntLimit, \A n \in Deltas \cup Amounts : n \in -most .. most
    PROVE  RefineInv(most) /\ [Next]_vars => RefineInv(most)'
<1> SUFFICES ASSUME RefineInv(most), [Next]_vars PROVE SumsBounded(most)' /\ SumsUntouched'
  BY VerdictNext DEF RefineInv
<1>0. /\ window \in [Starts -> Window] /\ calls \in Nat /\ VerdictInv
  BY ConfigAssumption DEF RefineInv, VerdictInv, OnceInv, TypeInv, TypeOK
<1>1. ASSUME NEW a \in Actors, NEW ts \in EventTimes, NEW d \in Deltas, ObserveChange(a, ts, d)
      PROVE  SumsBounded(most)' /\ SumsUntouched'
  <2>1. PICK w \in Starts : w = WindowStart(ts)
    BY DEF Starts
  <2> DEFINE win == RecordChange(window[w], IdOf(a), d)
  <2>2. Called /\ Ingest(a, w, win)
    BY <1>1, <2>1 DEF ObserveChange
  <2>3. calls < MaxCalls /\ window[w] \in Window /\ d \in -most .. most
    BY <1>0, <2>2 DEF Called
  <2>4. ASSUME IdOf(a) \in Ids, NEW i \in Ids
        PROVE  /\ win.changeSum[i] \in -((calls + 1) * most) .. (calls + 1) * most
               /\ win.causeSum[i] \in -((calls + 1) * most) .. (calls + 1) * most
               /\ i # IdOf(a) => /\ win.changeSum[i] = window[w].changeSum[i]
                                 /\ win.causeSum[i] = window[w].causeSum[i]
    <3>1. \A x \in -(calls * most) .. calls * most : \A n \in -most .. most :
             /\ x + n \in -((calls + 1) * most) .. (calls + 1) * most
             /\ Wrap(x + n) = x + n
      BY <1>0, <2>3, OneStepMore
    <3>2. /\ window[w].changeSum[i] \in -(calls * most) .. calls * most
          /\ window[w].causeSum[i] \in -(calls * most) .. calls * most
          /\ window[w].changeSum[IdOf(a)] \in -(calls * most) .. calls * most
      BY <2>4 DEF RefineInv, SumsBounded
    <3>3. /\ win.changeSum = [window[w].changeSum EXCEPT ![IdOf(a)] = window[w].changeSum[IdOf(a)] + d]
          /\ win.causeSum = window[w].causeSum
      BY <2>3, <2>4, <3>1, <3>2, RecordChangeDoes
    <3>4. \A x \in -(calls * most) .. calls * most : x \in -((calls + 1) * most) .. (calls + 1) * most
      BY <3>1
    <3>5. window[w].changeSum \in [Ids -> Int64]
      BY <2>3 DEF Window
    <3> HIDE DEF win
    <3> QED BY <2>3, <2>4, <3>1, <3>2, <3>3, <3>4, <3>5
  <2> HIDE DEF win
  <2> QED BY <2>2, <2>4, IngestBounded
<1>2. ASSUME NEW a \in Actors, NEW ts \in EventTimes, NEW k \in Kinds, NEW p \in Producers, NEW n \in Amounts,
             ObserveCause(a, ts, k, p, n)
      PROVE  SumsBounded(most)' /\ SumsUntouched'
  <2>1. PICK w \in Starts : w = WindowStart(ts)
    BY DEF Starts
  <2> DEFINE win == RecordCause(window[w], IdOf(a), k, n)
  <2>2. Called /\ (UNCHANGED <<ids, window>> \/ Ingest(a, w, win))
    BY <1>2, <2>1 DEF ObserveCause, RejectCause
  <2>3. calls < MaxCalls /\ calls' = calls + 1 /\ window[w] \in Window /\ n \in -most .. most
    BY <1>0, <2>2 DEF Called
  <2>4. \A x \in -(calls * most) .. calls * most : \A m \in -most .. most :
           /\ x + m \in -((calls + 1) * most) .. (calls + 1) * most
           /\ Wrap(x + m) = x + m
    BY <1>0, <2>3, OneStepMore
  <2>5. \A x \in -(calls * most) .. calls * most : x \in -((calls + 1) * most) .. (calls + 1) * most
    <3>1. 0 \in -most .. most /\ \A x \in -(calls * most) .. calls * most : x + 0 = x
      BY <1>0
    <3> QED BY <2>4, <3>1
  <2>6. ASSUME IdOf(a) \in Ids, NEW i \in Ids
        PROVE  /\ win.changeSum[i] \in -((calls + 1) * most) .. (calls + 1) * most
               /\ win.causeSum[i] \in -((calls + 1) * most) .. (calls + 1) * most
               /\ i # IdOf(a) => /\ win.changeSum[i] = window[w].changeSum[i]
                                 /\ win.causeSum[i] = window[w].causeSum[i]
    <3>2. /\ window[w].changeSum[i] \in -(calls * most) .. calls * most
          /\ window[w].causeSum[i] \in -(calls * most) .. calls * most
          /\ window[w].causeSum[IdOf(a)] \in -(calls * most) .. calls * most
      BY <2>6 DEF RefineInv, SumsBounded
    <3>3. /\ win.causeSum = [window[w].causeSum EXCEPT ![IdOf(a)] = window[w].causeSum[IdOf(a)] + n]
          /\ win.changeSum = window[w].changeSum
      BY <2>3, <2>4, <2>6, <3>2, RecordCauseDoes
    <3>5. window[w].causeSum \in [Ids -> Int64]
      BY <2>3 DEF Window
    <3> HIDE DEF win
    <3> QED BY <2>3, <2>4, <2>5, <2>6, <3>2, <3>3, <3>5
  <2> HIDE DEF win
  <2>7. CASE UNCHANGED <<ids, window>>
    BY <2>3, <2>5, <2>7 DEF RefineInv, SumsBounded, SumsUntouched
  <2>8. CASE Ingest(a, w, win)
    BY <2>2, <2>6, <2>8, IngestBounded
  <2> QED BY <2>2, <2>7, <2>8
<1>3. CASE UNCHANGED <<ids, window, calls>>
  BY <1>3 DEF RefineInv, SumsBounded, SumsUntouched
<1>4. ASSUME NEW c \in Closers, Close(c) PROVE UNCHANGED <<ids, window, calls>>
  <2>1. \A due : BeginClose(c, due) => UNCHANGED <<ids, window, calls>>
    BY DEF BeginClose
  <2>2. CloseWindow(c) => UNCHANGED <<ids, window, calls>>
    BY DEF CloseWindow
  <2>3. Judge(c) \/ Return(c) => UNCHANGED <<ids, window, calls>>
    BY DEF Judge, Return
  <2> QED BY <1>4, <2>1, <2>2, <2>3 DEF Close, CloseDue, CloseAll, Continue
<1> QED BY <1>1, <1>2, <1>3, <1>4 DEF Next, Observe, vars

-----------------------------------------------------------------------------
(* Events are answered *)

Refused(a, w) == \E type \in {"late_event", "capacity_exceeded"} : Abstract!Refuse(type, a, w)

LEMMA ChangeAnswered ==
    ASSUME NEW most \in Nat, MaxCalls * most < IntLimit, RefineInv(most),
           NEW a \in Actors, NEW ts \in EventTimes, NEW d \in -most .. most, ObserveChange(a, ts, d)
    PROVE  Abstract!Change(a, WindowStart(ts), d) \/ Refused(a, WindowStart(ts))
<1>1. PICK w \in Starts : w = WindowStart(ts)
  BY DEF Starts
<1>2. Called /\ Ingest(a, w, RecordChange(window[w], IdOf(a), d))
  BY <1>1 DEF ObserveChange
<1>3. CASE IsLate(w) \/ ~Fits(IdOf(a))
  BY <1>1, <1>2, <1>3, QuietIngest DEF RefineInv, Refused
<1>4. CASE ~IsLate(w) /\ Fits(IdOf(a))
  <2>1. /\ Intern(a) /\ UNCHANGED pending
        /\ window' = [window EXCEPT ![w] = RecordChange(window[w], IdOf(a), d)]
    BY <1>2, <1>4 DEF Ingest
  <2> QED BY <1>1, <1>2, <1>4, <2>1, ChangeShows
<1> QED BY <1>3, <1>4

LEMMA CauseAnswered ==
    ASSUME NEW most \in Nat, MaxCalls * most < IntLimit, RefineInv(most),
           NEW a \in Actors, NEW ts \in EventTimes, NEW k, NEW p, NEW n \in -most .. most,
           ObserveCause(a, ts, k, p, n)
    PROVE  \/ Abstract!Cause(a, WindowStart(ts), k, p, n)
           \/ Abstract!Distrust(a, WindowStart(ts), p)
           \/ Refused(a, WindowStart(ts))
<1>1. PICK w \in Starts : w = WindowStart(ts)
  BY DEF Starts
<1>2. CASE RejectCause(a, ts, p)
  <2>1. /\ Called /\ ~Trusted(p) /\ Raise("untrusted_producer", w, a)
        /\ UNCHANGED <<ids, open, window>>
    BY <1>1, <1>2 DEF RejectCause
  <2> QED BY <1>1, <2>1, DistrustShows
<1>3. CASE ~RejectCause(a, ts, p)
  <2>1. Called /\ Trusted(p) /\ Ingest(a, w, RecordCause(window[w], IdOf(a), k, n))
    BY <1>1, <1>3 DEF ObserveCause
  <2>2. CASE IsLate(w) \/ ~Fits(IdOf(a))
    BY <1>1, <2>1, <2>2, QuietIngest DEF RefineInv, Refused
  <2>3. CASE ~IsLate(w) /\ Fits(IdOf(a))
    <3>1. /\ Intern(a) /\ UNCHANGED pending
          /\ window' = [window EXCEPT ![w] = RecordCause(window[w], IdOf(a), k, n)]
      BY <2>1, <2>3 DEF Ingest
    <3> QED BY <1>1, <2>1, <2>3, <3>1, CauseShows
  <2> QED BY <2>2, <2>3
<1> QED BY <1>2, <1>3

-----------------------------------------------------------------------------
(* Theorems *)

LEMMA SpecRefineInv ==
    ASSUME NEW CONSTANT most \in Nat, MaxCalls * most < IntLimit, \A n \in Deltas \cup Amounts : n \in -most .. most
    PROVE  Spec => []RefineInv(most)
<1>1. Init => RefineInv(most)
  <2> SUFFICES ASSUME Init PROVE SumsBounded(most) /\ SumsUntouched
    BY VerdictInit DEF RefineInv
  <2>1. \A w \in Starts, i \in Ids : window[w].changeSum[i] = 0 /\ window[w].causeSum[i] = 0
    BY DEF Init, newWindow
  <2>2. -(calls * most) .. calls * most = {0}
    BY DEF Init
  <2> QED BY <2>1, <2>2 DEF SumsBounded, SumsUntouched
<1>2. RefineInv(most) /\ [Next]_vars => RefineInv(most)'
  BY RefineNext
<1> QED BY <1>1, <1>2, PTL DEF Spec

LEMMA AbstractWindows == Abstract!Windows = Starts
<1>1. \A ts \in EventTimes : Abstract!WindowOf(ts) = WindowStart(ts)
  BY SameWindows DEF Abstract!WindowOf
<1> QED BY <1>1 DEF Abstract!Windows, Starts

LEMMA InitShows == Init => Abstract!Init
<1> SUFFICES ASSUME Init PROVE Abstract!Init
  OBVIOUS
<1>1. calls = 0 /\ Found = {} /\ Tracked = {}
  BY DEF Init, idleCloser, Found, Tracked
<1>2. \A S : S = {} => Names(S) = {}
  BY DEF Names
<1>3. \A w \in Starts : window[w] = newWindow
  BY DEF Init
<1>4. /\ newWindow.changed = {} /\ newWindow.justified = {} /\ newWindow.derived = {} /\ newWindow.rooted = {}
      /\ \A i \in Ids : newWindow.changeSum[i] = 0 /\ newWindow.causeSum[i] = 0
  BY DEF newWindow
<1>5. /\ Changed = [w \in Starts |-> {}] /\ Justified = [w \in Starts |-> {}]
      /\ Derived = [w \in Starts |-> {}] /\ Rooted = [w \in Starts |-> {}]
  BY <1>2, <1>3, <1>4 DEF Changed, Justified, Derived, Rooted
<1>6. \A b \in Actors : SumFor(b, newWindow.changeSum) = 0 /\ SumFor(b, newWindow.causeSum) = 0
  BY <1>4 DEF SumFor
<1>7. /\ Moved = [w \in Starts |-> [b \in Actors |-> 0]]
      /\ Authorized = [w \in Starts |-> [b \in Actors |-> 0]]
  BY <1>3, <1>6 DEF Moved, Authorized
<1>8. Phase = [w \in Starts |-> "open"]
  BY DEF Phase, PhaseOf, Init
<1> QED
  BY <1>1, <1>5, <1>7, <1>8, AbstractWindows, Zenon
  DEF Abstract!Init, Found, Tracked, Changed, Justified, Derived, Rooted, Moved, Authorized, Phase

\* monitor.go ObserveChange, ObserveCause, CloseDue, CloseAll: while sums fit an
\* int64, every step of the engine, of any number of closers in any
\* interleaving, is a step of CauseJustified or does not show in it.  So what
\* CauseJustified promises of one window sealed and judged at once holds of the
\* engine with its ids, its lock and its goroutines.
THEOREM EngineImplements == SumsFit => (Spec => ImplementsCauseJustified)
<1> SUFFICES ASSUME SumsFit PROVE Spec => Abstract!Spec
  BY DEF ImplementsCauseJustified
<1>1. PICK most \in 0 .. IntLimit : /\ MaxCalls * most < IntLimit
                                    /\ \A n \in Deltas \cup Amounts : n \in -most .. most
  BY DEF SumsFit
<1>2. most \in Nat
  BY ConfigAssumption
<1>3. RefineInv(most) /\ [Next]_vars => [Abstract!Next]_(Abstract!vars)
  <2> SUFFICES ASSUME RefineInv(most), [Next]_vars
               PROVE  Abstract!Next \/ UNCHANGED Abstract!vars
    OBVIOUS
  <2>1. ASSUME NEW a \in Actors, NEW ts \in EventTimes, NEW d \in Deltas, ObserveChange(a, ts, d)
        PROVE  Abstract!Next
    <3>1. PICK w \in Starts : w = WindowStart(ts)
      BY DEF Starts
    <3>2. Abstract!Change(a, w, d) \/ Refused(a, w)
      BY <1>1, <1>2, <2>1, <3>1, ChangeAnswered
    <3> QED BY <3>2, AbstractWindows DEF Abstract!Next, Refused
  <2>2. ASSUME NEW a \in Actors, NEW ts \in EventTimes, NEW k \in Kinds, NEW p \in Producers,
               NEW n \in Amounts, ObserveCause(a, ts, k, p, n)
        PROVE  Abstract!Next
    <3>1. PICK w \in Starts : w = WindowStart(ts)
      BY DEF Starts
    <3>2. Abstract!Cause(a, w, k, p, n) \/ Abstract!Distrust(a, w, p) \/ Refused(a, w)
      BY <1>1, <1>2, <2>2, <3>1, CauseAnswered
    <3> QED BY <3>2, AbstractWindows DEF Abstract!Next, Refused
  <2>3. ASSUME NEW c \in Closers, Close(c) PROVE Abstract!Next \/ UNCHANGED Abstract!vars
    <3>1. (\E w \in Starts : Abstract!Seal(w) \/ Abstract!Judge(w)) \/ UNCHANGED Abstract!vars
      BY <2>3, CloseShows DEF RefineInv
    <3> QED BY <3>1, AbstractWindows DEF Abstract!Next
  <2>4. CASE UNCHANGED vars
    <3>1. Found' = Found /\ Phase' = Phase
      BY <2>4 DEF vars, Found, Phase, PhaseOf
    <3> QED BY <2>4, <3>1, QuietShows DEF vars
  <2> QED BY <2>1, <2>2, <2>3, <2>4 DEF Next, Observe
<1>4. Spec => []RefineInv(most)
  BY <1>1, <1>2, SpecRefineInv
<1> QED BY <1>3, <1>4, InitShows, PTL DEF Spec, Abstract!Spec

\* monitor.go ObserveChange, ObserveCause, event for event: while sums fit an
\* int64, an accepted event is recorded for its own actor, window, kind and
\* amount, an event of a closed window or beyond capacity is refused by name,
\* and a cause from outside the allow-list is never recorded.
THEOREM EventsAnswered == SumsFit => (Spec => EventsAreAnswered)
<1> SUFFICES ASSUME SumsFit PROVE Spec => EventsAreAnswered
  OBVIOUS
<1>1. PICK most \in 0 .. IntLimit : /\ MaxCalls * most < IntLimit
                                    /\ \A n \in Deltas \cup Amounts : n \in -most .. most
  BY DEF SumsFit
<1>2. most \in Nat
  BY ConfigAssumption
<1> DEFINE Answered ==
      \A a \in Actors, ts \in EventTimes :
        LET w == WindowStart(ts)
            refused == \E type \in {"late_event", "capacity_exceeded"} : Abstract!Refuse(type, a, w)
        IN  /\ \A d \in Deltas : ObserveChange(a, ts, d) => Abstract!Change(a, w, d) \/ refused
            /\ \A k \in Kinds, p \in Producers, n \in Amounts :
                ObserveCause(a, ts, k, p, n) =>
                    Abstract!Cause(a, w, k, p, n) \/ Abstract!Distrust(a, w, p) \/ refused
<1>3. RefineInv(most) => Answered
  BY <1>1, <1>2, ChangeAnswered, CauseAnswered DEF Refused
<1>4. Spec => []RefineInv(most)
  BY <1>1, <1>2, SpecRefineInv
<1> HIDE DEF Answered
<1>5. Spec => [][Answered]_vars
  BY <1>3, <1>4, PTL
<1> QED BY <1>5 DEF EventsAreAnswered, Answered
=============================================================================
