----------------------------- MODULE Checkpoint -----------------------------
(***************************************************************************)
(* The settlement checkpoint, checkpoint.Book.  Every method holds Book.mu *)
(* from start to end, so each call is one step; what is hard is inside     *)
(* Settle: netting in int64, the order of the checks, who is blamed, and   *)
(* the burst that gates an actor.                                          *)
(*                                                                         *)
(* Failures are counted, not listed: their ids and reasons only matter to  *)
(* the reports made of them.                                               *)
(***************************************************************************)
EXTENDS Integers, Sequences, FiniteSetsExt, SequencesExt

CONSTANTS
    Accounts,       \* actors, numbered in the order sort.Strings gives them
    Credits,        \* bound: amounts given to Credit
    Amounts,        \* bound: amounts of legs
    MaxLegs,        \* bound: legs in a settlement
    Times,          \* bound: Settlement.TS, or the clock when it is zero
    WindowSize,     \* Book.windowSize
    BurstThreshold, \* Book.burstThreshold
    IntLimit,       \* an int64 ranges over -IntLimit .. IntLimit - 1
    MaxCalls        \* bound: calls in a behaviour

ASSUME BookAssumption ==
    /\ Accounts \subseteq Nat /\ IsFiniteSet(Accounts) /\ Times \subseteq Nat
    /\ Credits \subseteq Nat /\ Amounts \subseteq Int
    /\ MaxLegs \in Nat /\ MaxCalls \in Nat
    /\ WindowSize \in Nat \ {0} /\ BurstThreshold \in Nat \ {0} /\ IntLimit \in Nat \ {0}

VARIABLES
    balance,  \* Account.Balance
    banned,   \* actors with Account.Banned
    failures, \* failures[w][a]: length of Book.failures[w][a]
    flagged,  \* Book.flagged; Clear for an actor that is not in it
    credited, \* history: what all Credit calls added up to
    calls     \* calls so far

vars == <<balance, banned, failures, flagged, credited, calls>>

-----------------------------------------------------------------------------
Int64   == -IntLimit .. IntLimit - 1
WrapUnsigned(x) == x % (2 * IntLimit) \* mutant
Wrap(x) == ((x + IntLimit) % (2 * IntLimit)) - IntLimit

Truncate(ts) == ts - (ts % WindowSize)
Windows == {Truncate(ts) : ts \in Times}

Leg == [from : Accounts, to : Accounts, amount : Amounts]
Settlements == BoundedSeq(Leg, MaxLegs)

RiskAlert == [window : Windows, failures : 1 .. MaxCalls, counterparties : SUBSET Accounts]
Clear == [window |-> -1, failures |-> 0, counterparties |-> {}]

-----------------------------------------------------------------------------
(* Settle, phase 1: validation *)

\* The netting loop: one leg at a time, payer first.
AddLeg(net, leg) == [[net EXCEPT ![leg.from] = Wrap(@ - leg.amount)]
                          EXCEPT ![leg.to] = Wrap(@ + leg.amount)]

LastLegOnly(legs) == IF legs = <<>> THEN [a \in Accounts |-> 0] \* mutant: no netting
                     ELSE AddLeg([a \in Accounts |-> 0], legs[Len(legs)])
Netted(legs) == FoldLeft(AddLeg, [a \in Accounts |-> 0], legs)

Parties(legs) == UNION {{leg.from, leg.to} : leg \in ToSet(legs)}

BadLegs(legs) == {i \in DOMAIN legs : legs[i].amount <= 0}

UnfitBanned(legs) == Parties(legs) \cap banned \* mutant: balances are not read again
Unfit(legs) == {a \in Parties(legs) : a \in banned \/ Wrap(balance[a] + Netted(legs)[a]) < 0}

\* The party the first failed check blames: the payer of the first bad leg, or
\* the first party in name order that is banned or short of money.
Blamed(legs) == IF BadLegs(legs) # {} THEN legs[Min(BadLegs(legs))].from
                                      ELSE Min(Unfit(legs))

Valid(legs) == BadLegs(legs) = {} /\ Unfit(legs) = {}

-----------------------------------------------------------------------------
(* Operations *)

Called == calls < MaxCalls /\ calls' = calls + 1

Credit(a, n) ==
    /\ Called
    /\ balance' = [balance EXCEPT ![a] = Wrap(@ + n)]
    /\ credited' = credited + n
    /\ UNCHANGED <<banned, failures, flagged>>

Ban(a) ==
    /\ Called
    /\ banned' = banned \cup {a}
    /\ UNCHANGED <<balance, failures, flagged, credited>>

\* fail: one more failure of the party blamed, and the gate at the threshold.
BurstAbove(n) == n > BurstThreshold \* mutant
Burst(n)      == n >= BurstThreshold

Fail(a, legs, w) ==
    LET n == failures[w][a] + 1 IN
    /\ failures' = [failures EXCEPT ![w][a] = n]
    /\ flagged' = IF Burst(n)
                  THEN [flagged EXCEPT ![a] = [window |-> w, failures |-> n,
                                               counterparties |-> Parties(legs) \ {a}]]
                  ELSE flagged
    /\ UNCHANGED balance

\* Phase 2.
Apply(legs) ==
    /\ balance' = [a \in Accounts |-> IF a \in Parties(legs) THEN Wrap(balance[a] + Netted(legs)[a])
                                                             ELSE balance[a]]
    /\ UNCHANGED <<failures, flagged>>

Settle(legs, ts) ==
    /\ Called
    /\ \/ Valid(legs) /\ Apply(legs)
       \/ ~Valid(legs) /\ Fail(Blamed(legs), legs, Truncate(ts))
    /\ UNCHANGED <<banned, credited>>

WithdrawalAllowed(a) == flagged[a] = Clear

\* Balance, Failures, RiskAlerts and WithdrawalAllowed only read.
Read == UNCHANGED vars

Init ==
    /\ balance = [a \in Accounts |-> 0]
    /\ banned = {}
    /\ failures = [w \in Windows |-> [a \in Accounts |-> 0]]
    /\ flagged = [a \in Accounts |-> Clear]
    /\ credited = 0
    /\ calls = 0

Next ==
    \/ \E a \in Accounts : Ban(a) \/ \E n \in Credits : Credit(a, n)
    \/ \E legs \in Settlements, ts \in Times : Settle(legs, ts)
    \/ Read

Spec == Init /\ [][Next]_vars

-----------------------------------------------------------------------------
(* Properties *)

TypeOK ==
    /\ balance \in [Accounts -> Int64]
    /\ banned \subseteq Accounts
    /\ failures \in [Windows -> [Accounts -> 0 .. MaxCalls]]
    /\ \A a \in Accounts : flagged[a] # Clear => flagged[a] \in RiskAlert
    /\ credited \in Nat /\ calls \in 0 .. MaxCalls

\* "a settlement cannot pass by spending the same balance twice"
\* (checkpoint.go:133): after any sequence of settlements nobody is overdrawn
\* and the money is what was credited, neither more nor less, as long as what was
\* credited fits an int64: Credit does not check that it does.
Solvent ==
    credited < IntLimit =>
        /\ \A a \in Accounts : balance[a] >= 0
        /\ MapThenSumSet(LAMBDA a : balance[a], Accounts) = credited

\* The withdrawal gate is closed to exactly the actors with a burst of failures
\* in one window, and the alert it cites counts all of that window's failures;
\* counterparties and slow failures gate nobody.
GateIsExact ==
    \A a \in Accounts :
        /\ WithdrawalAllowed(a) <=> \A w \in Windows : failures[w][a] < BurstThreshold
        /\ ~WithdrawalAllowed(a) => flagged[a].failures = failures[flagged[a].window][a]

Promise == INSTANCE Ledger

\* Loop by loop and in int64, Settle does what Ledger says: all legs or none,
\* every party re-checked, the blame on a party at fault.
ImplementsLedger == Promise!Spec

\* Call for call: what Settle does with a list of legs is what Ledger says of
\* the same legs, and a failure counts in the window of the call's time.
SettlesAsAsked ==
    [][\A legs \in Settlements, ts \in Times :
        Settle(legs, ts) => Promise!Commit(legs) \/ Promise!Reject(legs, Promise!WindowOf(ts))]_vars
=============================================================================
