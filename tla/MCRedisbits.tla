---------------------------- MODULE MCRedisbits ----------------------------
(* Small instances of Redisbits for TLC. *)
EXTENDS Redisbits, TLC

\* The two differences of a window's verdict that share both sets.
MCPairs == {<<"changed", "justified">>, <<"justified", "changed">>}

Symmetry == Permutations(Clients)
=============================================================================
