------------------------------ MODULE MCIdMap ------------------------------
(* Small instances of IdMap for TLC. *)
EXTENDS IdMap, TLC

Swap == Permutations(Goroutines)

MCCharacters == {"1", NUL}

\* A key that reads like the end of the empty key, the id 1 and the key "1".
Glued == <<NUL, "1", NUL, "1">>

\* Keys: none, one that looks like an id, one with NULs.
MCKeys == {<<>>, <<"1">>, Glued}

\* Up to two keys of up to two characters, or the one above.
MCReplicas == {rev \in SeqOf(BoundedSeq(MCCharacters, 2) \cup {Glued}, 2) : IsInjective(rev)}
=============================================================================
