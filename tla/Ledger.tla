------------------------------- MODULE Ledger -------------------------------
(***************************************************************************)
(* What the final checkpoint promises: a settlement either moves exactly   *)
(* what its legs say, and leaves nobody overdrawn, or moves nothing and    *)
(* leaves one failure against a party that is at fault.  Amounts are       *)
(* integers of any size and no order among legs or parties shows.  Module  *)
(* Checkpoint computes all this with loops in int64 and implements it.     *)
(***************************************************************************)
EXTENDS Integers, Sequences, FiniteSetsExt

CONSTANTS
    Accounts,
    Credits,    \* amounts given to Credit
    Amounts,    \* amounts of legs
    MaxLegs,    \* bound: legs in a settlement
    Times,      \* bound: times of settlements
    WindowSize

VARIABLES
    balance,
    banned,
    failures  \* failures[w][a]: failed settlements held against a in window w

vars == <<balance, banned, failures>>

WindowOf(ts) == (ts \div WindowSize) * WindowSize
Windows      == {WindowOf(ts) : ts \in Times}

Leg         == [from : Accounts, to : Accounts, amount : Amounts]
Settlements == UNION {[1 .. n -> Leg] : n \in 0 .. MaxLegs}

Parties(legs) == UNION {{legs[i].from, legs[i].to} : i \in DOMAIN legs}

\* What account a gets out of the legs, all taken together.
Total(legs, I) == MapThenSumSet(LAMBDA i : legs[i].amount, I)
Net(legs, a) == Total(legs, {i \in DOMAIN legs : legs[i].to = a})
                - Total(legs, {i \in DOMAIN legs : legs[i].from = a})

\* Who may be blamed: a payer of a leg that moves nothing or backwards, or
\* else a party that is banned or would be overdrawn.
Malformed(legs) == {legs[i].from : i \in {j \in DOMAIN legs : legs[j].amount <= 0}}
Unfit(legs)     == {a \in Parties(legs) : a \in banned \/ balance[a] + Net(legs, a) < 0}
AtFault(legs)   == IF Malformed(legs) # {} THEN Malformed(legs) ELSE Unfit(legs)

Init ==
    /\ balance = [a \in Accounts |-> 0]
    /\ banned = {}
    /\ failures = [w \in Windows |-> [a \in Accounts |-> 0]]

Credit(a, n) == /\ balance' = [balance EXCEPT ![a] = @ + n]
                /\ UNCHANGED <<banned, failures>>

Ban(a) == /\ banned' = banned \cup {a}
          /\ UNCHANGED <<balance, failures>>

Commit(legs) ==
    /\ UNCHANGED <<banned, failures>>
    /\ balance' = [a \in Accounts |->
                      IF a \in Parties(legs) THEN balance[a] + Net(legs, a) ELSE balance[a]]
    /\ AtFault(legs) = {}

Reject(legs, w) ==
    /\ UNCHANGED <<balance, banned>>
    /\ \E a \in Accounts : /\ failures' = [failures EXCEPT ![w][a] = @ + 1]
                           /\ a \in AtFault(legs)

Next ==
    \/ \E a \in Accounts : Ban(a) \/ \E n \in Credits : Credit(a, n)
    \/ \E legs \in Settlements : Commit(legs) \/ \E w \in Windows : Reject(legs, w)

Spec == Init /\ [][Next]_vars
=============================================================================
