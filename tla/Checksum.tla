------------------------------ MODULE Checksum ------------------------------
(***************************************************************************)
(* The text that idmap.Map.Checksum hashes: for every id in order, the     *)
(* number, a NUL, the key, a NUL.  A key is the sequence of its            *)
(* characters, and nothing keeps it from having NULs as well.  SHA-256     *)
(* itself is taken to have no collisions: a checksum stands for the text.  *)
(***************************************************************************)
EXTENDS Integers, Sequences, SequencesExt

CONSTANTS Characters \* those of keys

NUL    == "NUL"
Digits == {"0", "1", "2", "3", "4", "5", "6", "7", "8", "9"}
Text   == Seq(Characters \cup Digits \cup {NUL})

Digit(d) == CASE d = 1 -> "1" [] d = 2 -> "2" [] d = 3 -> "3" [] d = 4 -> "4" [] d = 5 -> "5"
              [] d = 6 -> "6" [] d = 7 -> "7" [] d = 8 -> "8" [] d = 9 -> "9" [] OTHER -> "0"

Width(n)   == 1 + Cardinality({k \in 1 .. n : 10^k <= n})
Decimal(n) == [k \in 1 .. Width(n) |-> Digit((n \div 10^(Width(n) - k)) % 10)]

\* fmt.Fprintf(h, "%d\x00%s\x00", i, key)
LineUnseparated(id, key) == Decimal(id) \o key \* mutant
Line(id, key) == Decimal(id) \o <<NUL>> \o key \o <<NUL>>

Encode(rev) == FlattenSeq([i \in DOMAIN rev |-> Line(i - 1, rev[i])])

\* No key has a NUL.
Clean(rev) == \A i \in DOMAIN rev : NUL \notin ToSet(rev[i])
=============================================================================
