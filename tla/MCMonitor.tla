----------------------------- MODULE MCMonitor -----------------------------
(* Small instances of Monitor for TLC. *)
EXTENDS Monitor, TLC

\* Two windows, [0,2) and [2,4), with an event time at the edge of each.
MCEventTimes == {1, 2}

\* Before any deadline, at the deadline of the first window, at both.
MCClockTimes == {2, 3, 5}

MCKinds == {"deposit.credited", "asset.account.updated"}
MCDerived == {"asset.account.updated"}
MCRoots   == {"deposit.credited"}

MCSteps == {-1, 2}

Symmetry == Permutations(Actors) \cup Permutations(Closers)
=============================================================================
