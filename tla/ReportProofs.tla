---------------------------- MODULE ReportProofs ----------------------------
(***************************************************************************)
(* The evidence trail: types, what the first run acknowledged stays and    *)
(* verifies, the table gives back the beginning of one run, and tampering  *)
(* shows where it was done.                                                *)
(***************************************************************************)
EXTENDS Report, SequenceTheorems, FiniteSetTheorems, WellFoundedInduction, TLAPS

-----------------------------------------------------------------------------
(* Types *)

TypeInv ==
    /\ TypeOK
    /\ \E S : file \in Seq(S) /\ acked \in Seq(Seq(S))
    /\ torn => file # <<>>
    /\ running => acked # <<>>

LEMMA EntriesStay ==
    ASSUME NEW s \in Nat, NEW t \in Nat, s <= t, NEW e, IsEntry(e, s)
    PROVE  IsEntry(e, t)
BY DEF IsEntry

\* What is appended next is an entry at the new clock.
LEMMA NextIsEntry ==
    ASSUME TypeOK, NEW e \in NextEntries, clock' = e.ts
    PROVE  /\ clock' \in Nat /\ clock <= clock' /\ IsEntry(e, clock')
           /\ e.seq = seq /\ e.prev = prev /\ e.hash = Hash(e.seq, e.ts, e.payload, e.prev)
<1>1. PICK ts \in Times, body \in Payloads : ts > clock /\ e = Link(seq, ts, Rendered(body), prev)
  BY DEF NextEntries
<1>2. e.seq = seq /\ e.ts = ts /\ e.payload = Rendered(body) /\ e.prev = prev
      /\ e.hash = Hash(seq, ts, Rendered(body), prev)
  BY <1>1 DEF Link
<1>3. clock \in Nat /\ seq \in Nat /\ ts \in Nat /\ ts > clock
  BY <1>1, ReportAssumption DEF TypeOK
<1>4. Rendered(body) \in [body : Payloads, keys : {"struct"}]
  BY DEF Rendered
<1>5. e = Link(e.seq, e.ts, e.payload, e.prev)
  BY <1>1, <1>2
<1>6. IsEntry(e, clock')
  BY <1>2, <1>3, <1>4, <1>5 DEF IsEntry
<1> QED BY <1>2, <1>3, <1>6

\* A line more, or one spoilt.
LEMMA PutTyped ==
    ASSUME NEW S, file \in Seq(S), torn \in BOOLEAN, torn => file # <<>>, NEW line, Put(line)
    PROVE  /\ file' \in Seq(S \cup {line, Junk}) /\ file' # <<>>
           /\ \A i \in DOMAIN file' : file'[i] \in {Junk, line} \/ (i \in DOMAIN file /\ file'[i] = file[i])
<1> DEFINE T == S \cup {line, Junk}
<1>1. file \in Seq(T) /\ Junk \in T /\ line \in T
  OBVIOUS
<1> HIDE DEF T
<1>2. CASE torn
  <2>1. file' = [file EXCEPT ![Len(file)] = Junk] /\ Len(file) \in 1 .. Len(file)
    BY <1>1, <1>2 DEF Put
  <2>2. /\ file' \in Seq(T) /\ Len(file') = Len(file)
        /\ \A j \in 1 .. Len(file) : file'[j] = IF j = Len(file) THEN Junk ELSE file[j]
    BY <1>1, <2>1, ExceptSeq
  <2>3. DOMAIN file' = 1 .. Len(file) /\ DOMAIN file = 1 .. Len(file)
    BY <1>1, <2>2
  <2> QED BY <2>1, <2>2, <2>3 DEF T
<1>3. CASE ~torn
  BY <1>1, <1>3 DEF Put, T
<1> QED BY <1>2, <1>3

LEMMA TypeInit == Init => TypeInv
<1> SUFFICES ASSUME Init PROVE TypeInv
  OBVIOUS
<1>1. file \in Seq({}) /\ acked \in Seq(Seq({}))
  BY DEF Init
<1>2. ToSet(outbox) = {} /\ rows = {}
  BY DEF Init, ToSet
<1>3. /\ file = <<>> /\ acked = <<>> /\ torn = FALSE /\ running = FALSE /\ stuck = FALSE
      /\ seq = 0 /\ clock = 0 /\ DOMAIN <<>> = {}
  BY DEF Init
<1>4. TypeOK
  BY <1>2, <1>3 DEF TypeOK
<1> QED BY <1>1, <1>3, <1>4 DEF TypeInv

LEMMA AppendTyped == ASSUME TypeInv, NEW e \in NextEntries, AppendEntry(e) PROVE TypeInv'
<1>1. PICK S : file \in Seq(S) /\ acked \in Seq(Seq(S))
  BY DEF TypeInv
<1> DEFINE T == S \cup {e, Junk}
<1>2. /\ clock' = e.ts /\ Put(e) /\ torn' = FALSE /\ running /\ acked # <<>> /\ torn \in BOOLEAN
      /\ acked' = [acked EXCEPT ![Len(acked)] = Append(@, e)]
      /\ outbox' = <<e>> /\ seq' = seq + 1 /\ UNCHANGED <<running, rows, stuck>>
      /\ TypeOK /\ seq \in Nat
  BY DEF AppendEntry, Writing, TypeInv, TypeOK
<1>3. clock' \in Nat /\ clock \in Nat /\ clock <= clock' /\ IsEntry(e, clock')
  BY <1>2, NextIsEntry DEF TypeOK
<1>4. \A f : IsEntry(f, clock) => IsEntry(f, clock')
  BY <1>3, EntriesStay
<1>5. /\ file' \in Seq(T) /\ file' # <<>>
      /\ \A i \in DOMAIN file' : file'[i] \in {Junk, e} \/ (i \in DOMAIN file /\ file'[i] = file[i])
  BY <1>1, <1>2, PutTyped DEF TypeInv
<1>6. \A i \in DOMAIN file' : file'[i] = Junk \/ IsEntry(file'[i], clock')
  BY <1>2, <1>3, <1>4, <1>5 DEF TypeOK
<1>7. Len(acked) \in DOMAIN acked /\ acked[Len(acked)] \in Seq(S)
  BY <1>1, <1>2
<1>8. acked' \in Seq(Seq(T))
  <2>1. \A q \in Seq(S) : q \in Seq(T)
    OBVIOUS
  <2>2. acked \in Seq(Seq(T)) /\ acked[Len(acked)] \in Seq(T) /\ e \in T
    BY <1>1, <1>7, <2>1
  <2> HIDE DEF T
  <2> QED BY <1>2, <1>7, <2>2
<1>9. ASSUME NEW r \in DOMAIN acked', NEW i \in DOMAIN acked'[r] PROVE IsEntry(acked'[r][i], clock')
  <2>1. r \in DOMAIN acked
    BY <1>2
  <2>2. CASE r # Len(acked)
    BY <1>2, <1>4, <2>1, <2>2 DEF TypeOK
  <2>3. CASE r = Len(acked)
    <3>1. acked'[r] = Append(acked[Len(acked)], e)
      BY <1>2, <1>7, <2>3
    <3>2. CASE i \in DOMAIN acked[Len(acked)]
      <4>1. acked'[r][i] = acked[Len(acked)][i]
        BY <1>7, <3>1, <3>2
      <4> QED BY <1>2, <1>4, <1>7, <3>2, <4>1 DEF TypeOK
    <3>3. CASE i \notin DOMAIN acked[Len(acked)]
      <4>1. acked'[r][i] = e
        BY <1>7, <3>1, <3>3
      <4> QED BY <1>3, <4>1
    <3> QED BY <3>2, <3>3
  <2> QED BY <2>2, <2>3
<1>10. acked' # <<>>
  BY <1>2, <1>7
<1>11. ToSet(outbox') = {e}
  BY <1>2 DEF ToSet
<1>12. \A row \in rows' : row.seq \in Nat /\ row.ts \in 0 .. clock'
  BY <1>2, <1>3 DEF TypeOK
<1>13. TypeOK'
  <2>0. seq' \in Nat
    BY <1>2
  <2>1. {torn', running', stuck'} \subseteq BOOLEAN
    BY <1>2, Zenon DEF TypeOK
  <2>2. \A f \in ToSet(outbox') : IsEntry(f, clock')
    BY <1>3, <1>11
  <2> QED BY <1>3, <1>6, <1>9, <1>12, <2>0, <2>1, <2>2 DEF TypeOK
<1> QED BY <1>2, <1>5, <1>8, <1>10, <1>13 DEF TypeInv

LEMMA FailureTyped == ASSUME TypeInv, NEW e \in NextEntries, AppendFails(e) PROVE TypeInv'
<1>1. PICK S : file \in Seq(S) /\ acked \in Seq(Seq(S))
  BY DEF TypeInv
<1>2. /\ clock' = e.ts /\ running /\ acked # <<>> /\ torn \in BOOLEAN /\ stuck' = TRUE
      /\ UNCHANGED <<running, rows, seq, prev, outbox, acked>>
      /\ TypeOK /\ seq \in Nat
  BY DEF AppendFails, Writing, TypeInv, TypeOK
<1>3. clock' \in Nat /\ clock \in Nat /\ clock <= clock' /\ IsEntry(e, clock')
  BY <1>2, NextIsEntry DEF TypeOK
<1>4. \A f : IsEntry(f, clock) => IsEntry(f, clock')
  BY <1>3, EntriesStay
<1>5. \A row \in rows' : row.seq \in Nat /\ row.ts \in 0 .. clock'
  BY <1>2, <1>3 DEF TypeOK
<1>6. /\ \E T : file' \in Seq(T) /\ acked' \in Seq(Seq(T))
      /\ torn' => file' # <<>>
      /\ torn' \in BOOLEAN
      /\ \A i \in DOMAIN file' : file'[i] = Junk \/ IsEntry(file'[i], clock')
  <2>1. CASE UNCHANGED <<file, torn>>
    BY <1>1, <1>2, <1>4, <2>1 DEF TypeInv, TypeOK
  <2>2. CASE torn' = TRUE /\ \E line \in {e, Junk} : Put(line)
    <3>1. PICK line \in {e, Junk} : Put(line)
      BY <2>2
    <3>2. /\ file' \in Seq(S \cup {line, Junk}) /\ file' # <<>>
          /\ \A i \in DOMAIN file' : file'[i] \in {Junk, line} \/ (i \in DOMAIN file /\ file'[i] = file[i])
      BY <1>1, <1>2, <3>1, PutTyped DEF TypeInv
    <3>3. acked' \in Seq(Seq(S \cup {line, Junk}))
      <4>1. \A q \in Seq(S) : q \in Seq(S \cup {line, Junk})
        OBVIOUS
      <4> QED BY <1>1, <1>2, <4>1
    <3>4. \A i \in DOMAIN file' : file'[i] = Junk \/ IsEntry(file'[i], clock')
      BY <1>2, <1>3, <1>4, <3>1, <3>2 DEF TypeOK
    <3> QED BY <2>2, <3>2, <3>3, <3>4
  <2> QED BY <2>1, <2>2 DEF AppendFails
<1>7. /\ \A r \in DOMAIN acked' : \A i \in DOMAIN acked'[r] : IsEntry(acked'[r][i], clock')
      /\ \A f \in ToSet(outbox') : IsEntry(f, clock')
  BY <1>2, <1>4 DEF TypeOK
<1>8. TypeOK'
  BY <1>2, <1>3, <1>5, <1>6, <1>7 DEF TypeOK
<1> QED BY <1>2, <1>6, <1>8 DEF TypeInv

LEMMA TypeNext == TypeInv /\ [Next]_vars => TypeInv'
<1> SUFFICES ASSUME TypeInv, [Next]_vars PROVE TypeInv'
  OBVIOUS
<1>1. ASSUME NEW e \in NextEntries, AppendEntry(e) PROVE TypeInv'
  BY <1>1, AppendTyped
<1>2. ASSUME NEW e \in NextEntries, AppendFails(e) PROVE TypeInv'
  BY <1>2, FailureTyped
<1>4. CASE Start
  <2>1. PICK S : file \in Seq(S) /\ acked \in Seq(Seq(S))
    BY DEF TypeInv
  <2>2. acked' = Append(acked, <<>>) /\ <<>> \in Seq(S) /\ file' = file /\ clock' = clock
    BY <1>4 DEF Start
  <2>3. /\ acked' \in Seq(Seq(S)) /\ acked' # <<>>
        /\ \A r \in DOMAIN acked' : acked'[r] = <<>> \/ (r \in DOMAIN acked /\ acked'[r] = acked[r])
    <3> DEFINE T == Seq(S)
    <3>1. acked \in Seq(T) /\ <<>> \in T
      BY <2>1, <2>2
    <3> HIDE DEF T
    <3>2. /\ acked' \in Seq(T) /\ DOMAIN acked' = 1 .. Len(acked) + 1 /\ DOMAIN acked = 1 .. Len(acked)
          /\ acked'[Len(acked) + 1] = <<>> /\ Len(acked) \in Nat
          /\ \A r \in 1 .. Len(acked) : acked'[r] = acked[r]
      BY <2>2, <3>1
    <3>3. acked' # <<>>
      BY <3>2
    <3> QED BY <3>2, <3>3 DEF T
  <2>4. \A r \in DOMAIN acked' : \A i \in DOMAIN acked'[r] : IsEntry(acked'[r][i], clock')
    <3>1. DOMAIN <<>> = {}
      OBVIOUS
    <3> QED BY <2>2, <2>3, <3>1 DEF TypeInv, TypeOK
  <2>5. TypeOK'
    BY <1>4, <2>2, <2>4 DEF Start, TypeInv, TypeOK
  <2> QED BY <1>4, <2>1, <2>2, <2>3, <2>5 DEF Start, TypeInv
<1>5. CASE Stop \/ InsertFails
  <2>1. ToSet(outbox') = {}
    BY <1>5 DEF Stop, InsertFails, ToSet
  <2>2. UNCHANGED <<file, torn, seq, prev, stuck, rows, acked, clock>>
    BY <1>5 DEF Stop, InsertFails
  <2>3. CASE Stop
    <3>1. running' = FALSE
      BY <2>3 DEF Stop
    <3>2. {torn', running', stuck'} \subseteq BOOLEAN
      BY <2>2, <3>1, Zenon DEF TypeInv, TypeOK
    <3>3. TypeOK'
      BY <2>1, <2>2, <3>2 DEF TypeInv, TypeOK
    <3> QED BY <2>2, <3>1, <3>3 DEF TypeInv
  <2>4. CASE InsertFails
    <3>1. running' = running
      BY <2>4 DEF InsertFails
    <3>2. TypeOK'
      BY <2>1, <2>2, <3>1 DEF TypeInv, TypeOK
    <3> QED BY <2>2, <3>1, <3>2 DEF TypeInv
  <2> QED BY <1>5, <2>3, <2>4
<1>6. CASE Insert
  <2>1. PICK e \in ToSet(outbox) : rows' = IF Conflict(e) THEN rows ELSE rows \cup {Stored(e)}
    BY <1>6 DEF Insert
  <2>2. IsEntry(e, clock) /\ clock \in Nat /\ clock' = clock
    BY <1>6 DEF Insert, TypeInv, TypeOK
  <2>3. ToSet(outbox') = {}
    BY <1>6 DEF Insert, ToSet
  <2>4. Stored(e).seq \in Nat /\ Stored(e).ts \in 0 .. clock
    <3>1. e.seq \in Nat /\ e.ts \in 1 .. clock /\ Stored(e).seq = e.seq /\ Stored(e).ts = Truncated(e.ts)
      BY <2>2 DEF Stored, IsEntry, Link
    <3>2. \A t \in Nat, m \in Nat \ {0} : t % m \in 0 .. t
      OBVIOUS
    <3>3. Truncated(e.ts) \in 0 .. e.ts
      BY <2>2, <3>1, <3>2, ReportAssumption DEF Truncated
    <3> QED BY <2>2, <3>1, <3>3
  <2>5. TypeOK'
    BY <1>6, <2>1, <2>2, <2>3, <2>4 DEF Insert, TypeInv, TypeOK
  <2> QED BY <1>6, <2>5 DEF Insert, TypeInv
<1>7. CASE UNCHANGED vars
  <2>1. ToSet(outbox') = ToSet(outbox)
    BY <1>7 DEF vars
  <2> QED BY <1>7, <2>1 DEF vars, TypeInv, TypeOK
<1> QED BY <1>1, <1>2, <1>4, <1>5, <1>6, <1>7 DEF Next, Read

\* Every line of the report is junk or an entry that carries its own hash and
\* was made in the past, and so is everything Append has acknowledged.
THEOREM ReportTypeCorrect == Spec => []TypeOK
<1>1. TypeInv => TypeOK
  BY DEF TypeInv
<1> QED BY <1>1, TypeInit, TypeNext, PTL DEF Spec

-----------------------------------------------------------------------------
(* The first run *)

\* The first run's acknowledged entries.
First == acked[1]

\* They are at the head of the file, each passes Verify's checks, and a line
\* without its newline comes after them.
Kept ==
    /\ Len(First) <= Len(file)
    /\ \A i \in 1 .. Len(First) : file[i] = First[i] /\ Good(file, i)
    /\ torn => Len(First) < Len(file)

\* While the first run's writer works, the file holds nothing else and the
\* writer is at its end.
AtEnd ==
    /\ ~torn
    /\ Len(file) = Len(First) /\ seq = Len(First)
    /\ prev = IF Len(First) = 0 THEN GenesisHash ELSE First[Len(First)].hash

\* The lines are finite sequences over some set.
Lines == \E S : file \in Seq(S) /\ acked \in Seq(Seq(S))

EndureInv ==
    /\ Lines
    /\ torn \in BOOLEAN
    /\ acked = <<>> => file = <<>> /\ ~torn /\ ~running
    /\ acked # <<>> => Kept
    /\ Len(acked) = 1 /\ running /\ ~stuck => AtEnd

LEMMA EndureInit == Init => EndureInv
<1> SUFFICES ASSUME Init PROVE EndureInv
  OBVIOUS
<1>1. file \in Seq({}) /\ acked \in Seq(Seq({}))
  BY DEF Init
<1> QED BY <1>1 DEF Init, EndureInv, Lines

\* The first n lines are good and a torn line comes behind them.
Room(n) == /\ n <= Len(file) /\ (torn => n < Len(file))
           /\ \A i \in 1 .. n : Good(file, i)

\* The line is written behind the first n, over S and the new lines.
Behind(n, line, S) ==
    /\ file' \in Seq(S \cup {line, Junk})
    /\ Len(file') = IF torn THEN Len(file) ELSE Len(file) + 1
    /\ \A i \in 1 .. n : file'[i] = file[i] /\ Good(file', i)
    /\ ~torn => file'[Len(file) + 1] = line

LEMMA PutKeeps ==
    ASSUME NEW S, file \in Seq(S), NEW line, torn \in BOOLEAN, Put(line),
           NEW n \in Nat, Room(n)
    PROVE  Behind(n, line, S)
<1> DEFINE T == S \cup {line, Junk}
<1>1. file \in Seq(T) /\ Junk \in T /\ line \in T
  OBVIOUS
<1> HIDE DEF T
<1>2. CASE torn
  <2>1. file' = [file EXCEPT ![Len(file)] = Junk]
    BY <1>2 DEF Put
  <2>2. Len(file) \in 1 .. Len(file) /\ n < Len(file)
    BY <1>1, <1>2 DEF Room
  <2>3. /\ file' \in Seq(T) /\ Len(file') = Len(file)
        /\ \A j \in 1 .. Len(file) : file'[j] = IF j = Len(file) THEN Junk ELSE file[j]
    BY <1>1, <2>1, <2>2, ExceptSeq
  <2>4. \A i \in 1 .. n : file'[i] = file[i]
    BY <1>1, <2>2, <2>3
  <2>5. \A i \in 1 .. n : Good(file', i)
    BY <2>4, SMTT(20) DEF Good, Room
  <2> QED BY <1>2, <2>3, <2>4, <2>5 DEF Behind, T
<1>3. CASE ~torn
  <2>1. file' = Append(file, line)
    BY <1>3 DEF Put
  <2>2. file' \in Seq(T) /\ Len(file') = Len(file) + 1 /\ file'[Len(file) + 1] = line
    BY <1>1, <2>1
  <2>3. \A i \in 1 .. n : file'[i] = file[i]
    BY <1>1, <2>1 DEF Room
  <2>4. \A i \in 1 .. n : Good(file', i)
    BY <2>3, SMTT(20) DEF Good, Room
  <2> QED BY <1>3, <2>2, <2>3, <2>4 DEF Behind, T
<1> QED BY <1>2, <1>3

LEMMA StartEndures == ASSUME EndureInv, Start PROVE EndureInv'
<1>1. PICK S : file \in Seq(S) /\ acked \in Seq(Seq(S))
  BY DEF EndureInv, Lines
<1>2. acked' = Append(acked, <<>>) /\ <<>> \in Seq(S)
  BY DEF Start
<1>3. acked' \in Seq(Seq(S)) /\ Len(acked') = Len(acked) + 1 /\ acked' # <<>>
  BY <1>1, <1>2
<1>4. UNCHANGED <<file, torn>>
  BY DEF Start
<1>5. Lines'
  BY <1>1, <1>3, <1>4 DEF Lines
<1>6. CASE acked = <<>>
  <2>1. First' = <<>> /\ file' = <<>> /\ ~torn' /\ Len(acked') = 1
    BY <1>2, <1>3, <1>4, <1>6 DEF First, EndureInv
  <2>2. seq' = 0 /\ prev' = GenesisHash
    BY DEF Start
  <2>3. Kept' /\ AtEnd'
    BY <2>1, <2>2 DEF Kept, AtEnd
  <2> QED BY <1>3, <1>4, <1>5, <2>3 DEF EndureInv
<1>7. CASE acked # <<>>
  <2>1. First' = First /\ Len(acked') # 1
    BY <1>1, <1>2, <1>3, <1>7 DEF First
  <2>2. Kept'
    BY <1>4, <1>7, <2>1 DEF EndureInv, Kept, Good
  <2> QED BY <1>3, <1>4, <1>5, <2>1, <2>2 DEF EndureInv
<1> QED BY <1>6, <1>7

LEMMA AppendEndures == ASSUME EndureInv, NEW e \in NextEntries, AppendEntry(e) PROVE EndureInv'
<1>1. PICK S : file \in Seq(S) /\ acked \in Seq(Seq(S))
  BY DEF EndureInv, Lines
<1> DEFINE T == S \cup {e, Junk}
<1>2. /\ running /\ ~stuck /\ acked # <<>> /\ Kept
      /\ torn \in BOOLEAN /\ torn' = FALSE /\ Put(e)
      /\ seq' = seq + 1 /\ prev' = e.hash
      /\ UNCHANGED <<running, stuck>>
      /\ acked' = [acked EXCEPT ![Len(acked)] = Append(@, e)]
  BY DEF AppendEntry, Writing, CanWrite, EndureInv
<1>3. Len(acked) \in Nat /\ Len(acked) >= 1 /\ acked[Len(acked)] \in Seq(S) /\ First \in Seq(S)
  BY <1>1, <1>2 DEF First
<1>4. acked \in Seq(Seq(T)) /\ Append(acked[Len(acked)], e) \in Seq(T)
  <2>1. \A q \in Seq(S) : q \in Seq(T)
    OBVIOUS
  <2>2. acked \in Seq(Seq(T))
    BY <1>1, <2>1
  <2>3. acked[Len(acked)] \in Seq(T) /\ e \in T
    BY <1>3, <2>1
  <2> HIDE DEF T
  <2> QED BY <2>2, <2>3
<1>5. acked' \in Seq(Seq(T)) /\ Len(acked') = Len(acked) /\ acked' # <<>>
  BY <1>2, <1>3, <1>4
<1>6. /\ file' \in Seq(T)
      /\ Len(file') = IF torn THEN Len(file) ELSE Len(file) + 1
      /\ \A i \in 1 .. Len(First) : file'[i] = file[i] /\ Good(file', i)
      /\ ~torn => file'[Len(file) + 1] = e
  <2>1. Len(First) \in Nat /\ Room(Len(First))
    BY <1>2, <1>3 DEF Kept, Room
  <2>2. Behind(Len(First), e, S)
    BY <1>1, <1>2, <2>1, PutKeeps
  <2> QED BY <2>2 DEF Behind
<1>7. Lines'
  BY <1>5, <1>6 DEF Lines
<1>8. CASE Len(acked) = 1
  <2>1. AtEnd
    BY <1>2, <1>8 DEF EndureInv
  <2>2. First' = Append(First, e)
    BY <1>1, <1>2, <1>8 DEF First
  <2>3. Len(First') = Len(First) + 1 /\ First'[Len(First) + 1] = e
        /\ \A i \in 1 .. Len(First) : First'[i] = First[i]
    BY <1>3, <1>4, <1>8, <2>2 DEF First
  <2>4. e.seq = seq /\ e.prev = prev /\ e.hash = Hash(e.seq, e.ts, e.payload, e.prev)
    BY DEF NextEntries, Link
  <2>5. Len(file') = Len(First') /\ file'[Len(First')] = e
    BY <1>6, <2>1, <2>3 DEF AtEnd
  <2>6. Good(file', Len(First'))
    <3>1. CASE Len(First) = 0
      BY <2>1, <2>3, <2>4, <2>5, <3>1 DEF AtEnd, Good
    <3>2. CASE Len(First) # 0
      <4>1. file'[Len(First)] = First[Len(First)]
        BY <1>2, <1>3, <1>6, <3>2 DEF Kept
      <4> QED BY <1>3, <2>1, <2>3, <2>4, <2>5, <3>2, <4>1 DEF AtEnd, Good
    <3> QED BY <3>1, <3>2
  <2>7. \A i \in 1 .. Len(First') : file'[i] = First'[i] /\ Good(file', i)
    <3> SUFFICES ASSUME NEW i \in 1 .. Len(First') PROVE file'[i] = First'[i] /\ Good(file', i)
      OBVIOUS
    <3>1. CASE i = Len(First')
      BY <2>3, <2>5, <2>6, <3>1
    <3>2. CASE i # Len(First')
      <4>1. i \in 1 .. Len(First)
        BY <1>3, <2>3, <3>2
      <4> QED BY <1>2, <1>6, <2>3, <4>1 DEF Kept
    <3> QED BY <3>1, <3>2
  <2>8. Kept' /\ AtEnd'
    BY <1>2, <1>3, <2>1, <2>3, <2>5, <2>7 DEF Kept, AtEnd
  <2> QED BY <1>2, <1>5, <1>7, <2>8 DEF EndureInv
<1>9. CASE Len(acked) # 1
  <2>1. First' = First
    BY <1>1, <1>2, <1>3, <1>9 DEF First
  <2>2. Kept'
    BY <1>1, <1>2, <1>3, <1>6, <2>1 DEF Kept
  <2> QED BY <1>2, <1>5, <1>7, <1>9, <2>2 DEF EndureInv
<1> QED BY <1>8, <1>9

LEMMA FailureEndures == ASSUME EndureInv, NEW e \in NextEntries, AppendFails(e) PROVE EndureInv'
<1>1. PICK S : file \in Seq(S) /\ acked \in Seq(Seq(S))
  BY DEF EndureInv, Lines
<1>2. running /\ running' /\ stuck' = TRUE /\ UNCHANGED acked /\ acked # <<>> /\ Kept /\ torn \in BOOLEAN
  BY DEF AppendFails, Writing, EndureInv
<1>3. CASE UNCHANGED <<file, torn>>
  BY <1>2, <1>3 DEF EndureInv, Lines, Kept, First, Good
<1>4. CASE torn' = TRUE /\ \E line \in {e, Junk} : Put(line)
  <2>1. PICK line \in {e, Junk} : Put(line)
    BY <1>4
  <2> DEFINE T == S \cup {line, Junk}
  <2>2. First' = First /\ First \in Seq(S)
    BY <1>1, <1>2 DEF First
  <2>3. /\ file' \in Seq(T)
        /\ Len(file') = IF torn THEN Len(file) ELSE Len(file) + 1
        /\ \A i \in 1 .. Len(First) : file'[i] = file[i] /\ Good(file', i)
    <3>1. Len(First) \in Nat /\ Room(Len(First))
      BY <1>2, <2>2 DEF Kept, Room
    <3>2. Behind(Len(First), line, S)
      BY <1>1, <1>2, <2>1, <3>1, PutKeeps
    <3> QED BY <3>2 DEF Behind
  <2>4. acked' \in Seq(Seq(T))
    <3>1. \A q \in Seq(S) : q \in Seq(T)
      OBVIOUS
    <3> QED BY <1>1, <1>2, <3>1
  <2>5. Lines'
    BY <2>3, <2>4 DEF Lines
  <2> HIDE DEF T
  <2>6. Kept'
    <3>1. Len(First) \in Nat /\ Len(file) \in Nat
      BY <1>1, <2>2
    <3>2. Len(First) < Len(file')
      BY <1>2, <2>3, <3>1 DEF Kept
    <3>3. \A i \in 1 .. Len(First) : file'[i] = First[i] /\ Good(file', i)
      BY <1>2, <2>3 DEF Kept
    <3> QED BY <2>2, <2>3, <3>1, <3>2, <3>3 DEF Kept
  <2> QED BY <1>2, <1>4, <2>5, <2>6 DEF EndureInv
<1> QED BY <1>3, <1>4 DEF AppendFails

LEMMA EndureStep == ASSUME EndureInv, [Next]_vars PROVE EndureInv'
<1>1. CASE Start
  BY <1>1, StartEndures
<1>2. ASSUME NEW e \in NextEntries, AppendEntry(e) PROVE EndureInv'
  BY <1>2, AppendEndures
<1>3. ASSUME NEW e \in NextEntries, AppendFails(e) PROVE EndureInv'
  BY <1>3, FailureEndures
<1>4. CASE Stop
  BY <1>4 DEF Stop, EndureInv, Lines, Kept, AtEnd, First, Good
<1>5. CASE UNCHANGED <<file, torn, running, seq, prev, stuck, acked>>
  BY <1>5 DEF EndureInv, Lines, Kept, AtEnd, First, Good
<1>6. CASE Insert \/ InsertFails \/ Read \/ UNCHANGED vars
  BY <1>5, <1>6 DEF Insert, InsertFails, Read, vars
<1> QED BY <1>1, <1>2, <1>3, <1>4, <1>6 DEF Next

\* What the report's first run acknowledged is in the file in order, and Verify
\* accepts it up to a line it cannot read: no failed write, crash or restart
\* takes it away.
THEOREM ReportEndures == Spec => []AcknowledgedEndures
<1>1. EndureInv => AcknowledgedEndures
  <2> SUFFICES ASSUME EndureInv, acked # <<>>
               PROVE  /\ Len(First) <= Len(file)
                      /\ \A i \in DOMAIN First : file[i] = First[i]
                      /\ \A n \in DOMAIN First :
                            (\A i \in 1 .. n : Readable(First, i)) => Accepts(file, n)
    BY DEF AcknowledgedEndures, First
  <2>1. PICK S : file \in Seq(S) /\ acked \in Seq(Seq(S))
    BY DEF EndureInv, Lines
  <2>2. Len(First) \in Nat /\ Len(file) \in Nat /\ DOMAIN First = 1 .. Len(First)
    BY <2>1 DEF First
  <2>3. Len(First) <= Len(file) /\ \A i \in DOMAIN First : file[i] = First[i] /\ Good(file, i)
    BY <2>2 DEF EndureInv, Kept
  <2>4. ASSUME NEW n \in DOMAIN First, \A i \in 1 .. n : Readable(First, i)
        PROVE  Accepts(file, n)
    <3>1. \A i \in 1 .. n : i \in DOMAIN First
      BY <2>2
    <3>2. n <= Len(file)
      BY <2>2, <2>3
    <3>3. \A i \in 1 .. n : Readable(file, i)
      BY <2>3, <2>4, <3>1 DEF Readable
    <3> QED BY <2>3, <3>1, <3>2, <3>3 DEF Accepts
  <2> QED BY <2>3, <2>4
<1> QED BY <1>1, EndureInit, EndureStep, PTL DEF Spec

-----------------------------------------------------------------------------
(* What Verify finds *)

\* A nonempty set of numbers up to n has a greatest.
LEMMA GreatestOf ==
    ASSUME NEW n \in Nat, NEW s \in SUBSET (0 .. n), s # {}
    PROVE  Max(s) \in s /\ \A x \in s : x <= Max(s)
<1> DEFINE R == OpToRel(<, Nat)
           T == {m \in Nat : \E x \in s : m = n - x}
<1>1. IsWellFoundedOn(R, Nat)
  BY NatLessThanWellFounded, Zenon
<1>2. \A l, m \in Nat : l < m => <<l, m>> \in R
  BY DEF OpToRel
<1>3. T \subseteq Nat /\ T # {}
  <2>1. PICK z \in s : TRUE
    OBVIOUS
  <2>2. n - z \in T
    OBVIOUS
  <2> QED BY <2>2
<1> HIDE DEF R, T
<1>4. PICK t \in T : \A m \in T : ~(<<m, t>> \in R)
  BY <1>1, <1>3, WFMin
<1>5. \A m \in T : ~(m < t)
  BY <1>2, <1>3, <1>4
<1>6. PICK x \in s : t = n - x
  BY DEF T
<1>7. ASSUME NEW y \in s PROVE y <= x
  <2>1. n - y \in T
    BY DEF T
  <2>2. ~(n - y < n - x)
    BY <1>5, <1>6, <2>1
  <2> QED BY <2>2
<1> QED BY <1>7 DEF Max

\* Verify accepts the first n lines and, unless they are all, not one more.
Extent(L) == Max({k \in 0 .. Len(L) : Accepts(L, k)})

LEMMA ExtentIs ==
    ASSUME NEW L, Len(L) \in Nat
    PROVE  /\ Extent(L) \in 0 .. Len(L) /\ Accepts(L, Extent(L))
           /\ \A n \in 0 .. Len(L) : Accepts(L, n) => n <= Extent(L)
           /\ \A n \in 0 .. Len(L) : Accepts(L, n) /\ (n < Len(L) => ~Accepts(L, n + 1)) => Extent(L) = n
<1> DEFINE s == {k \in 0 .. Len(L) : Accepts(L, k)}
<1>1. 0 \in s
  BY DEF Accepts
<1>2. s \in SUBSET (0 .. Len(L)) /\ s # {}
  BY <1>1
<1>3. Max(s) \in s /\ \A x \in s : x <= Max(s)
  BY <1>2, GreatestOf
<1>4. ASSUME NEW n \in 0 .. Len(L), Accepts(L, n), n < Len(L) => ~Accepts(L, n + 1) PROVE Max(s) = n
  <2>1. n <= Max(s) /\ Max(s) \in 0 .. Len(L) /\ Accepts(L, Max(s))
    BY <1>3, <1>4
  <2>2. CASE n < Max(s)
    <3>1. \A m \in 0 .. Len(L) : n < m => n + 1 <= Len(L) /\ \A i \in 1 .. n + 1 : i \in 1 .. m
      OBVIOUS
    <3>2. Accepts(L, n + 1)
      <4> HIDE DEF s
      <4> QED BY <2>1, <2>2, <3>1 DEF Accepts
    <3>3. n < Len(L)
      <4> HIDE DEF s
      <4> QED BY <2>1, <2>2
    <3> QED BY <1>4, <3>2, <3>3
  <2> QED BY <2>1, <2>2
<1> QED BY <1>3, <1>4 DEF Extent

LEMMA VerifyIs ==
    ASSUME NEW S, NEW L \in Seq(S)
    PROVE  /\ Extent(L) \in 0 .. Len(L) /\ Len(L) \in Nat
           /\ Verify(L).entries = SubSeq(L, 1, Extent(L)) /\ Len(Verify(L).entries) = Extent(L)
           /\ Verify(L).ok <=> Extent(L) = Len(L)
           /\ Verify(L).head = IF Extent(L) = 0 THEN GenesisHash ELSE L[Extent(L)].hash
<1>1. Len(L) \in Nat
  OBVIOUS
<1>2. Extent(L) \in 0 .. Len(L)
  BY <1>1, ExtentIs
<1> DEFINE e == SubSeq(L, 1, Extent(L))
           o == Extent(L) = Len(L)
           h == IF Extent(L) = 0 THEN GenesisHash ELSE L[Extent(L)].hash
<1>3. Verify(L) = [entries |-> e, ok |-> o, head |-> h]
  BY DEF Verify, Extent
<1> HIDE DEF Extent
<1>4. Len(e) = Extent(L)
  BY <1>1, <1>2
<1> HIDE DEF e, o, h
<1>5. Verify(L).entries = e /\ Verify(L).head = h /\ (Verify(L).ok <=> o)
  BY <1>3
<1> QED BY <1>1, <1>2, <1>4, <1>5 DEF e, o, h

-----------------------------------------------------------------------------
(* The history table *)

\* The entries a run acknowledged are linked from its first on.
Linked == \A r \in DOMAIN acked : \A n \in DOMAIN acked[r] : Good(acked[r], n)

WriterAtEnd ==
    LET last == acked[Len(acked)]
    IN  /\ seq = Len(last)
        /\ prev = IF Len(last) = 0 THEN GenesisHash ELSE last[Len(last)].hash

\* Every row, and the entry on its way to the table, was acknowledged in a run.
Acknowledged(e) == \E r \in DOMAIN acked : \E n \in DOMAIN acked[r] : e = acked[r][n]
FromReport(row) == \E r \in DOMAIN acked : \E n \in DOMAIN acked[r] : row = Stored(acked[r][n])

TableInv ==
    /\ IsFiniteSet(rows)
    /\ \A row \in rows : row.seq \in Nat /\ FromReport(row)
    /\ \A x, y \in rows : x.seq = y.seq => x = y

HistoryInv ==
    /\ TypeInv
    /\ Linked
    /\ running => WriterAtEnd
    /\ \A e \in ToSet(outbox) : Acknowledged(e)
    /\ TableInv

\* The table in the order of seq: each row is in its place.
LEMMA EntriesAreRows ==
    ASSUME IsFiniteSet(rows), \A row \in rows : row.seq \in Nat,
           \A x, y \in rows : x.seq = y.seq => x = y
    PROVE  Entries \in Seq(rows)
<1> DEFINE n == Cardinality(rows)
           below(x) == {r \in rows : r.seq < x.seq}
           rank == [x \in rows |-> Cardinality(below(x)) + 1]
<1>1. n \in Nat /\ IsFiniteSet(1 .. n) /\ Cardinality(1 .. n) = n
  BY FS_CardinalityType, FS_Interval
<1>2. ASSUME NEW x \in rows
      PROVE  IsFiniteSet(below(x)) /\ Cardinality(below(x)) \in Nat /\ Cardinality(below(x)) < n
  <2>1. below(x) \in SUBSET rows /\ x \notin below(x)
    OBVIOUS
  <2>2. IsFiniteSet(below(x)) /\ Cardinality(below(x)) <= n /\ Cardinality(below(x)) # n
    BY <2>1, FS_Subset
  <2>3. Cardinality(below(x)) \in Nat
    BY <2>2, FS_CardinalityType
  <2> QED BY <1>1, <2>2, <2>3
<1>3. ASSUME NEW x \in rows, NEW y \in rows, x.seq < y.seq
      PROVE  Cardinality(below(x)) < Cardinality(below(y))
  <2>1. below(x) \in SUBSET below(y) /\ x \in below(y) /\ x \notin below(x)
    BY <1>3
  <2>2. Cardinality(below(x)) <= Cardinality(below(y)) /\ Cardinality(below(x)) # Cardinality(below(y))
    <3>1. IsFiniteSet(below(y)) /\ below(y) # below(x)
      BY <1>2, <2>1
    <3> DEFINE a == below(x)
               b == below(y)
    <3>2. IsFiniteSet(b) /\ a \in SUBSET b /\ b # a
      BY <2>1, <3>1
    <3> HIDE DEF a, b
    <3>3. Cardinality(a) <= Cardinality(b) /\ Cardinality(b) # Cardinality(a)
      BY <3>2, FS_Subset, Zenon
    <3> QED BY <3>3 DEF a, b
  <2>3. Cardinality(below(x)) \in Nat /\ Cardinality(below(y)) \in Nat
    BY <1>2
  <2> HIDE DEF below
  <2> QED BY <2>2, <2>3
<1> HIDE DEF below
<1>4. rank \in [rows -> 1 .. n] /\ \A x \in rows : rank[x] = Cardinality(below(x)) + 1
  BY <1>1, <1>2
<1>5. ASSUME NEW x \in rows, NEW y \in rows, rank[x] = rank[y] PROVE x = y
  <2>1. x.seq \in Nat /\ y.seq \in Nat
    OBVIOUS
  <2>2. ~(x.seq < y.seq) /\ ~(y.seq < x.seq)
    BY <1>2, <1>3, <1>4, <1>5
  <2> QED BY <2>1, <2>2
<1> HIDE DEF rank
<1>6. rank \in Injection(rows, 1 .. n)
  BY <1>4, <1>5 DEF Injection, IsInjective
<1>7. rank \in Surjection(rows, 1 .. n)
  BY <1>1, <1>6, FS_Injection DEF n
<1>8. ASSUME NEW i \in 1 .. n PROVE Entries[i] \in rows
  <2>1. PICK x \in rows : rank[x] = i
    BY <1>7 DEF Surjection
  <2>2. Cardinality(below(x)) = i - 1
    BY <1>2, <1>4, <2>1
  <2>3. Entries[i] = CHOOSE row \in rows : Cardinality(below(row)) = i - 1
    BY DEF Entries, below
  <2> QED BY <2>2, <2>3
<1>9. Entries = [i \in 1 .. n |-> Entries[i]]
  <2> DEFINE pick(i) == CHOOSE row \in rows : Cardinality({r \in rows : r.seq < row.seq}) = i - 1
  <2>1. Entries = [i \in 1 .. n |-> pick(i)]
    BY DEF Entries
  <2> HIDE DEF pick, n
  <2> QED BY <2>1
<1> HIDE DEF n
<1> QED BY <1>1, <1>8, <1>9

LEMMA HistoryInit == Init => HistoryInv
<1> SUFFICES ASSUME Init PROVE HistoryInv
  OBVIOUS
<1>1. acked = <<>> /\ DOMAIN <<>> = {} /\ rows = {} /\ running = FALSE /\ ToSet(outbox) = {} /\ TypeInv
  BY TypeInit DEF Init, ToSet
<1>2. IsFiniteSet(rows)
  BY <1>1, FS_EmptySet
<1> QED BY <1>1, <1>2 DEF HistoryInv, Linked, TableInv

\* acked only grows.
Grows == \A r \in DOMAIN acked : /\ r \in DOMAIN acked'
                                 /\ \A n \in DOMAIN acked[r] : n \in DOMAIN acked'[r] /\ acked'[r][n] = acked[r][n]

LEMMA TableStays ==
    ASSUME TableInv, Grows, UNCHANGED rows
    PROVE  TableInv'
<1>1. ASSUME NEW row \in rows
      PROVE  \E r \in DOMAIN acked' : \E n \in DOMAIN acked'[r] : row = Stored(acked'[r][n])
  <2>1. PICK r \in DOMAIN acked : \E n \in DOMAIN acked[r] : row = Stored(acked[r][n])
    BY DEF TableInv, FromReport
  <2>1a. PICK n \in DOMAIN acked[r] : row = Stored(acked[r][n])
    BY <2>1
  <2> QED BY <2>1a DEF Grows
<1> QED BY <1>1 DEF TableInv, FromReport

LEMMA StartHistory == ASSUME HistoryInv, Start PROVE HistoryInv'
<1>1. PICK S : file \in Seq(S) /\ acked \in Seq(Seq(S))
  BY DEF HistoryInv, TypeInv
<1> DEFINE T == Seq(S)
<1>2. acked \in Seq(T) /\ acked' = Append(acked, <<>>) /\ <<>> \in T
  BY <1>1 DEF Start
<1> HIDE DEF T
<1>3. /\ Len(acked') = Len(acked) + 1 /\ Len(acked) \in Nat /\ acked' \in Seq(T)
      /\ DOMAIN acked' = 1 .. Len(acked) + 1 /\ DOMAIN acked = 1 .. Len(acked)
      /\ acked'[Len(acked) + 1] = <<>>
      /\ \A r \in DOMAIN acked : acked'[r] = acked[r]
  BY <1>2
<1>4. Grows
  BY <1>3 DEF Grows
<1>5. WriterAtEnd'
  BY <1>3 DEF Start, WriterAtEnd
<1>6. Linked'
  <2> SUFFICES ASSUME NEW r \in DOMAIN acked', NEW n \in DOMAIN acked'[r] PROVE Good(acked'[r], n)
    BY DEF Linked
  <2>1. r \in DOMAIN acked
    BY <1>3
  <2> QED BY <1>3, <2>1 DEF HistoryInv, Linked
<1>7. TypeInv'
  BY TypeNext DEF HistoryInv, Next
<1>8. \A e \in ToSet(outbox') : \E r \in DOMAIN acked' : \E n \in DOMAIN acked'[r] : e = acked'[r][n]
  <2> SUFFICES ASSUME NEW e \in ToSet(outbox)
               PROVE  \E r \in DOMAIN acked' : \E n \in DOMAIN acked'[r] : e = acked'[r][n]
    BY DEF Start
  <2>1. PICK r \in DOMAIN acked : \E n \in DOMAIN acked[r] : e = acked[r][n]
    BY DEF HistoryInv, Acknowledged
  <2>1a. PICK n \in DOMAIN acked[r] : e = acked[r][n]
    BY <2>1
  <2> QED BY <1>4, <2>1a DEF Grows
<1>9. TableInv'
  BY <1>4, TableStays DEF HistoryInv, Start
<1> QED BY <1>5, <1>6, <1>7, <1>8, <1>9 DEF HistoryInv, Acknowledged

LEMMA AppendHistory == ASSUME HistoryInv, NEW e \in NextEntries, AppendEntry(e) PROVE HistoryInv'
<1>1. PICK S : file \in Seq(S) /\ acked \in Seq(Seq(S))
  BY DEF HistoryInv, TypeInv
<1> DEFINE T == S \cup {e}
           k == Len(acked)
           last == acked[k]
<1>2. /\ running /\ acked # <<>> /\ WriterAtEnd /\ clock' = e.ts /\ seq' = seq + 1 /\ prev' = e.hash
      /\ acked' = [acked EXCEPT ![k] = Append(last, e)]
      /\ outbox' = <<e>> /\ UNCHANGED <<rows, running>> /\ TypeOK
  BY DEF AppendEntry, Writing, HistoryInv, TypeInv
<1>3. e.seq = seq /\ e.prev = prev /\ e.hash = Hash(e.seq, e.ts, e.payload, e.prev)
  BY <1>2, NextIsEntry
<1>4. k \in Nat /\ k \in DOMAIN acked /\ DOMAIN acked = 1 .. k /\ last \in Seq(S)
  BY <1>1, <1>2
<1>5. last \in Seq(T) /\ e \in T
  BY <1>4
<1> DEFINE grown == Append(last, e)
<1>6. /\ DOMAIN acked' = 1 .. k /\ acked'[k] = grown /\ \A r \in DOMAIN acked \ {k} : acked'[r] = acked[r]
  BY <1>2, <1>4
<1> HIDE DEF T, k, last
<1>7. /\ Len(last) \in Nat /\ DOMAIN last = 1 .. Len(last)
      /\ DOMAIN grown = 1 .. Len(last) + 1 /\ Len(grown) = Len(last) + 1 /\ grown[Len(last) + 1] = e
      /\ \A n \in 1 .. Len(last) : grown[n] = last[n]
  BY <1>5
<1> HIDE DEF grown
<1>8. Grows
  <2> SUFFICES ASSUME NEW r \in DOMAIN acked
               PROVE  /\ r \in DOMAIN acked'
                      /\ \A n \in DOMAIN acked[r] : n \in DOMAIN acked'[r] /\ acked'[r][n] = acked[r][n]
    BY DEF Grows
  <2>1. CASE r = k
    BY <1>4, <1>6, <1>7, <2>1 DEF last
  <2>2. CASE r # k
    BY <1>4, <1>6, <2>2
  <2> QED BY <2>1, <2>2
<1>9. seq = Len(last) /\ prev = IF Len(last) = 0 THEN GenesisHash ELSE last[Len(last)].hash
  BY <1>2 DEF WriterAtEnd, last, k
<1>10. \A n \in 1 .. Len(last) : Good(last, n)
  BY <1>4, <1>7 DEF HistoryInv, Linked, last
<1>11. \A n \in 1 .. Len(grown) : Good(grown, n)
  <2> SUFFICES ASSUME NEW n \in 1 .. Len(grown) PROVE Good(grown, n)
    OBVIOUS
  <2>1. CASE n = Len(last) + 1
    <3>1. grown[n] = e /\ n - 1 = Len(last) /\ (n = 1 <=> Len(last) = 0)
      BY <1>7, <2>1
    <3>2. Len(last) # 0 => grown[n - 1] = last[Len(last)]
      BY <1>7, <3>1
    <3> QED BY <1>3, <1>9, <3>1, <3>2 DEF Good
  <2>2. CASE n # Len(last) + 1
    <3>1. n \in 1 .. Len(last) /\ grown[n] = last[n] /\ (n # 1 => grown[n - 1] = last[n - 1])
      BY <1>7, <2>2
    <3>2. Good(last, n)
      BY <1>10, <3>1
    <3> QED BY <3>1, <3>2 DEF Good
  <2> QED BY <2>1, <2>2
<1>12. Linked'
  <2> SUFFICES ASSUME NEW r \in DOMAIN acked', NEW n \in DOMAIN acked'[r] PROVE Good(acked'[r], n)
    BY DEF Linked
  <2>1. CASE r = k
    BY <1>6, <1>7, <1>11, <2>1
  <2>2. CASE r # k
    BY <1>4, <1>6, <2>2 DEF HistoryInv, Linked
  <2> QED BY <2>1, <2>2
<1>13. WriterAtEnd'
  <2>1. Len(acked') = k
    BY <1>2, <1>4, <1>6
  <2> QED BY <1>2, <1>6, <1>7, <1>9, <2>1 DEF WriterAtEnd
<1>14. TypeInv'
  BY TypeNext DEF HistoryInv, Next
<1>15. \A f \in ToSet(outbox') : \E r \in DOMAIN acked' : \E n \in DOMAIN acked'[r] : f = acked'[r][n]
  <2>1. ToSet(outbox') = {e}
    BY <1>2 DEF ToSet
  <2>2. Len(last) + 1 \in DOMAIN acked'[k] /\ acked'[k][Len(last) + 1] = e /\ k \in DOMAIN acked'
    BY <1>4, <1>6, <1>7
  <2> QED BY <2>1, <2>2
<1>16. TableInv'
  BY <1>2, <1>8, TableStays DEF HistoryInv
<1> QED BY <1>12, <1>13, <1>14, <1>15, <1>16 DEF HistoryInv, Acknowledged

LEMMA InsertHistory == ASSUME HistoryInv, Insert PROVE HistoryInv'
<1>1. PICK e \in ToSet(outbox) : rows' = IF Conflict(e) THEN rows ELSE rows \cup {Stored(e)}
  BY DEF Insert
<1>2. UNCHANGED <<file, torn, running, seq, prev, stuck, acked, clock>> /\ ToSet(outbox') = {}
  BY DEF Insert, ToSet
<1>3. TypeInv'
  BY TypeNext DEF HistoryInv, Next
<1>4. Grows
  BY <1>2 DEF Grows
<1>5. TableInv'
  <2>1. CASE Conflict(e)
    BY <1>1, <1>4, <2>1, TableStays DEF HistoryInv
  <2>2. CASE ~Conflict(e)
    <3>1. rows' = rows \cup {Stored(e)}
      BY <1>1, <2>2
    <3>2. IsFiniteSet(rows')
      BY <3>1, FS_AddElement DEF HistoryInv, TableInv
    <3>3. PICK r \in DOMAIN acked : \E n \in DOMAIN acked[r] : e = acked[r][n]
      BY DEF HistoryInv, Acknowledged
    <3>3a. PICK n \in DOMAIN acked[r] : e = acked[r][n]
      BY <3>3
    <3>4. IsEntry(e, clock)
      BY DEF HistoryInv, TypeInv, TypeOK
    <3>5. e.seq \in Nat /\ Stored(e).seq = e.seq
      BY <3>4 DEF IsEntry, Link, Stored
    <3>6. \A row \in rows : row.seq # e.seq
      BY <2>2 DEF Conflict
    <3>7. \A row \in rows' : row.seq \in Nat /\ FromReport(row)
      BY <3>1, <3>3a, <3>5 DEF HistoryInv, TableInv, FromReport
    <3>8. \A x, y \in rows' : x.seq = y.seq => x = y
      BY <3>1, <3>5, <3>6 DEF HistoryInv, TableInv
    <3> QED BY <1>2, <3>2, <3>7, <3>8 DEF TableInv, FromReport
  <2> QED BY <2>1, <2>2
<1> QED BY <1>2, <1>3, <1>5 DEF HistoryInv, Linked, WriterAtEnd

LEMMA HistoryNext == HistoryInv /\ [Next]_vars => HistoryInv'
<1> SUFFICES ASSUME HistoryInv, [Next]_vars PROVE HistoryInv'
  OBVIOUS
<1>1. TypeInv'
  BY TypeNext DEF HistoryInv
<1>2. ASSUME UNCHANGED <<seq, prev, rows, acked>>, running' => running, ToSet(outbox') \subseteq ToSet(outbox)
      PROVE  HistoryInv'
  <2>1. Grows
    BY <1>2 DEF Grows
  <2>2. TableInv'
    BY <1>2, <2>1, TableStays DEF HistoryInv
  <2> QED BY <1>1, <1>2, <2>2 DEF HistoryInv, Linked, WriterAtEnd, Acknowledged
<1>3. CASE Stop
  BY <1>2, <1>3 DEF Stop, ToSet
<1>4. CASE InsertFails
  BY <1>2, <1>4 DEF InsertFails, ToSet
<1>5. CASE UNCHANGED vars
  BY <1>2, <1>5 DEF vars
<1>6. ASSUME NEW e \in NextEntries, AppendFails(e) PROVE HistoryInv'
  BY <1>2, <1>6 DEF AppendFails, Writing
<1> QED BY <1>3, <1>4, <1>5, <1>6, StartHistory, AppendHistory, InsertHistory DEF Next, Read

\* What a row keeps of its entry when its hash still fits.
LEMMA FittingRow ==
    ASSUME NEW e, IsEntry(e, clock), NEW row, row = Stored(e),
           row.hash = Hash(row.seq, row.ts, row.payload, row.prev)
    PROVE  row = e
<1>1. e = Link(e.seq, e.ts, e.payload, e.prev) /\ e.payload \in [body : Payloads, keys : {"struct"}]
  BY DEF IsEntry
<1>2. row.hash = e.hash /\ row.seq = e.seq /\ row.prev = e.prev /\ e.hash = Hash(e.seq, e.ts, e.payload, e.prev)
  BY <1>1 DEF Stored, Link
<1>3. row.ts = e.ts /\ row.payload = e.payload
  BY <1>2 DEF Hash
<1>4. row = [e EXCEPT !.ts = row.ts, !.payload = row.payload]
  BY <1>1 DEF Stored, Link
<1> QED BY <1>1, <1>3, <1>4 DEF Link

\* Two entries with the same hash are one.
LEMMA HashDecides ==
    ASSUME NEW a, NEW b, a = Link(a.seq, a.ts, a.payload, a.prev), b = Link(b.seq, b.ts, b.payload, b.prev),
           a.hash = b.hash
    PROVE  a = b
<1>1. a.hash = Hash(a.seq, a.ts, a.payload, a.prev) /\ b.hash = Hash(b.seq, b.ts, b.payload, b.prev)
  BY DEF Link
<1>2. <<a.seq, a.ts, a.payload, a.prev>> = <<b.seq, b.ts, b.payload, b.prev>>
  BY <1>1 DEF Hash
<1>3. a.seq = b.seq /\ a.ts = b.ts /\ a.payload = b.payload /\ a.prev = b.prev
  BY <1>2
<1> QED BY <1>3

\* A linked chain that ends as another one begins is that beginning.
LEMMA ChainsAgree ==
    ASSUME NEW L, NEW a, NEW n \in Nat, n > 0, L[n] = a[n],
           \A k \in 1 .. n : Good(L, k) /\ L[k] = Link(L[k].seq, L[k].ts, L[k].payload, L[k].prev),
           \A k \in 1 .. n : Good(a, k) /\ a[k] = Link(a[k].seq, a[k].ts, a[k].payload, a[k].prev)
    PROVE  \A k \in 1 .. n : L[k] = a[k]
<1> DEFINE D == {k \in 0 .. n : k > 0 /\ L[k] # a[k]}
<1> SUFFICES ASSUME D # {} PROVE FALSE
  OBVIOUS
<1>1. D \in SUBSET (0 .. n)
  OBVIOUS
<1>2. Max(D) \in D /\ \A k \in D : k <= Max(D)
  BY <1>1, GreatestOf
<1> DEFINE x == Max(D)
<1>3. x \in 1 .. n /\ x < n /\ x + 1 \in 1 .. n /\ x + 1 \notin D /\ L[x] # a[x]
  BY <1>2
<1>4. L[x + 1] = a[x + 1]
  BY <1>3
<1> HIDE DEF x, D
<1>5. Good(L, x + 1) /\ Good(a, x + 1) /\ x + 1 # 1 /\ x + 1 - 1 = x
  BY <1>3
<1>6. L[x].hash = a[x].hash
  <2> DEFINE y == x + 1
  <2>1. Good(L, y) /\ Good(a, y) /\ ~(y = 1) /\ y - 1 = x /\ L[y] = a[y]
    BY <1>3, <1>4, <1>5
  <2> HIDE DEF y
  <2>2. L[y].prev = L[y - 1].hash /\ a[y].prev = a[y - 1].hash
    BY <2>1, Zenon DEF Good
  <2> QED BY <2>1, <2>2
<1>7. L[x] = a[x]
  <2> DEFINE p == L[x]
             q == a[x]
  <2>1. p = Link(p.seq, p.ts, p.payload, p.prev) /\ q = Link(q.seq, q.ts, q.payload, q.prev) /\ p.hash = q.hash
    BY <1>3, <1>6
  <2> HIDE DEF p, q
  <2>2. p = q
    BY <2>1, HashDecides
  <2> QED BY <2>2 DEF p, q
<1> QED BY <1>3, <1>7

LEMMA HistoryHolds == HistoryInv => HistoryNeverMixes
<1> SUFFICES ASSUME HistoryInv PROVE HistoryNeverMixes
  OBVIOUS
<1> DEFINE L == Entries
           n == Extent(L)
<1>1. L \in Seq(rows)
  BY EntriesAreRows DEF HistoryInv, TableInv
<1>2. n \in 0 .. Len(L) /\ Len(L) \in Nat /\ Verify(L).entries = SubSeq(L, 1, n)
  BY <1>1, VerifyIs
<1>3. Accepts(L, n)
  BY <1>2, ExtentIs
<1> HIDE DEF L, n
<1>4. CASE n = 0
  <2>1. Verify(L).entries = <<>>
    BY <1>1, <1>2, <1>4
  <2> QED BY <2>1 DEF HistoryNeverMixes, L
<1>5. CASE n > 0
  <2>1. \A k \in 1 .. n : L[k] \in rows /\ Good(L, k) /\ n \in 1 .. n /\ n \in Nat
    BY <1>1, <1>2, <1>3, <1>5 DEF Accepts
  <2>2. ASSUME NEW k \in 1 .. n
        PROVE  \E r \in DOMAIN acked : \E m \in DOMAIN acked[r] : L[k] = acked[r][m] /\ IsEntry(L[k], clock)
    <3>1. FromReport(L[k]) /\ L[k].hash = Hash(L[k].seq, L[k].ts, L[k].payload, L[k].prev)
      BY <2>1 DEF Good, HistoryInv, TableInv
    <3>2. PICK r \in DOMAIN acked : \E m \in DOMAIN acked[r] : L[k] = Stored(acked[r][m])
      BY <3>1 DEF FromReport
    <3>3. PICK m \in DOMAIN acked[r] : L[k] = Stored(acked[r][m])
      BY <3>2
    <3> DEFINE e == acked[r][m]
               row == L[k]
    <3>4. IsEntry(e, clock) /\ row = Stored(e) /\ row.hash = Hash(row.seq, row.ts, row.payload, row.prev)
      BY <3>1, <3>3 DEF HistoryInv, TypeInv, TypeOK
    <3> HIDE DEF e, row
    <3>5. row = e
      BY <3>4, FittingRow
    <3> QED BY <3>4, <3>5 DEF e, row
  <2>3. n \in 1 .. n /\ n \in Nat /\ Good(L, n)
    BY <1>2, <1>5, <2>1
  <2>4. PICK r \in DOMAIN acked : \E m \in DOMAIN acked[r] : L[n] = acked[r][m]
    BY <2>2, <2>3
  <2>5. PICK m \in DOMAIN acked[r] : L[n] = acked[r][m]
    BY <2>4
  <2> DEFINE a == acked[r]
  <2>6. PICK S : acked \in Seq(Seq(S))
    BY DEF HistoryInv, TypeInv
  <2>7. a \in Seq(S)
    BY <2>6
  <2>8. \A k \in DOMAIN a : Good(a, k) /\ IsEntry(a[k], clock)
    BY DEF HistoryInv, Linked, TypeInv, TypeOK
  <2>9. m \in DOMAIN a /\ L[n] = a[m]
    BY <2>5
  <2> HIDE DEF a
  <2>10. m = n
    <3>1. m \in Nat /\ Good(a, m)
      BY <2>7, <2>8, <2>9
    <3> QED BY <2>3, <2>9, <3>1 DEF Good
  <2>11. n <= Len(a) /\ \A k \in 1 .. n : k \in DOMAIN a
    BY <1>2, <2>7, <2>9, <2>10
  <2>12. \A k \in 1 .. n : Good(a, k) /\ a[k] = Link(a[k].seq, a[k].ts, a[k].payload, a[k].prev)
    BY <2>8, <2>11 DEF IsEntry
  <2>13. \A k \in 1 .. n : Good(L, k) /\ L[k] = Link(L[k].seq, L[k].ts, L[k].payload, L[k].prev)
    BY <2>1, <2>2 DEF IsEntry
  <2>14. \A k \in 1 .. n : L[k] = a[k]
    BY <1>5, <2>3, <2>9, <2>10, <2>12, <2>13, ChainsAgree
  <2>15. SubSeq(L, 1, n) = SubSeq(a, 1, n)
    BY <1>1, <1>2, <2>7, <2>11, <2>14
  <2>16. IsPrefix(SubSeq(L, 1, n), a)
    <3> DEFINE s == SubSeq(a, 1, n)
    <3>1. s \in Seq(S) /\ Len(s) = n /\ SubSeq(s, 1, n) = s
      BY <1>2, <2>7, <2>11
    <3> QED BY <2>11, <2>15, <3>1 DEF IsPrefix
  <2> QED BY <1>2, <2>16 DEF HistoryNeverMixes, L, a
<1> QED BY <1>2, <1>4, <1>5

\* Restarts and failed inserts leave rows of several runs in the table; what
\* Verify accepts of them is always the beginning of one run's report.
THEOREM HistoryOfOneRun == Spec => []HistoryNeverMixes
<1> QED BY HistoryInit, HistoryNext, HistoryHolds, PTL DEF Spec

-----------------------------------------------------------------------------
(* Restarts *)

\* A line is out of sequence.  Nothing that is written later mends that.
OutOfOrder == \E i \in DOMAIN file : file[i].seq # i - 1

\* What is appended behind something else joins a torn line, and spoils it, or
\* should continue the sequence.
LEMMA PutOrder ==
    ASSUME NEW S, file \in Seq(S), NEW line, Put(line), torn => file # <<>>
    PROVE  /\ file' # <<>>
           /\ OutOfOrder => OutOfOrder'
           /\ file # <<>> /\ line.seq # Len(file) => OutOfOrder'
<1> DEFINE T == S \cup {line, Junk}
           n == Len(file)
<1>1. file \in Seq(T) /\ Junk \in T /\ line \in T /\ n \in Nat /\ DOMAIN file = 1 .. n
  OBVIOUS
<1>2. Junk.seq = -1
  BY DEF Junk, Link
<1> HIDE DEF T, n
<1>3. CASE torn
  <2>1. file' = [file EXCEPT ![n] = Junk] /\ n \in 1 .. n
    BY <1>1, <1>3 DEF Put, n
  <2>2. file' \in Seq(T) /\ Len(file') = n /\ file'[n] = Junk
    BY <1>1, <2>1, ExceptSeq DEF n
  <2>3. n \in DOMAIN file' /\ file'[n].seq # n - 1
    BY <1>1, <1>2, <2>1, <2>2
  <2> QED BY <2>3 DEF OutOfOrder
<1>4. CASE ~torn
  <2>1. file' = Append(file, line)
    BY <1>4 DEF Put
  <2>2. /\ file' \in Seq(T) /\ Len(file') = n + 1 /\ DOMAIN file' = 1 .. n + 1
        /\ file'[n + 1] = line /\ \A i \in 1 .. n : file'[i] = file[i]
    BY <1>1, <2>1 DEF n
  <2>3. OutOfOrder => OutOfOrder'
    BY <1>1, <2>2 DEF OutOfOrder
  <2>4. line.seq # n => OutOfOrder'
    BY <1>1, <2>2 DEF OutOfOrder
  <2>5. file' # <<>>
    BY <1>1, <2>2
  <2> QED BY <2>3, <2>4, <2>5 DEF n
<1> QED BY <1>3, <1>4

Reported(r) == acked[r] # <<>>

RestartInv ==
    /\ HistoryInv
    /\ \A r \in DOMAIN acked : Reported(r) => file # <<>>
    /\ \A r, s \in DOMAIN acked : r # s /\ Reported(r) /\ Reported(s) => OutOfOrder

LEMMA RestartInit == Init => RestartInv
BY HistoryInit DEF Init, RestartInv

LEMMA AppendRestart == ASSUME RestartInv, NEW e \in NextEntries, AppendEntry(e) PROVE RestartInv'
<1>1. PICK S : file \in Seq(S) /\ acked \in Seq(Seq(S))
  BY DEF RestartInv, HistoryInv, TypeInv
<1> DEFINE k == Len(acked)
           last == acked[k]
<1>2. /\ HistoryInv' /\ Put(e) /\ WriterAtEnd /\ acked # <<>> /\ (torn => file # <<>>)
      /\ acked' = [acked EXCEPT ![k] = Append(last, e)]
  BY HistoryNext DEF AppendEntry, Writing, RestartInv, HistoryInv, TypeInv, Next
<1>3. e.seq = seq
  BY DEF NextEntries, Link
<1>4. k \in DOMAIN acked /\ last \in Seq(S) /\ DOMAIN acked' = DOMAIN acked
      /\ \A r \in DOMAIN acked \ {k} : acked'[r] = acked[r]
  BY <1>1, <1>2
<1>5. seq = Len(last)
  BY <1>2 DEF WriterAtEnd
<1>6. /\ file' # <<>>
      /\ OutOfOrder => OutOfOrder'
      /\ file # <<>> /\ e.seq # Len(file) => OutOfOrder'
  BY <1>1, <1>2, PutOrder
<1>7. ASSUME NEW r \in DOMAIN acked \ {k}, Reported(r) PROVE OutOfOrder'
  <2>1. file # <<>>
    BY <1>7 DEF RestartInv
  <2>2. CASE last = <<>>
    <3>1. e.seq = 0 /\ Len(file) # 0
      BY <1>1, <1>3, <1>5, <2>1, <2>2
    <3> QED BY <1>6, <2>1, <3>1
  <2>3. CASE last # <<>>
    BY <1>4, <1>6, <1>7, <2>3 DEF RestartInv, Reported
  <2> QED BY <2>2, <2>3
<1> HIDE DEF k, last
<1>8. ASSUME NEW r \in DOMAIN acked', NEW s \in DOMAIN acked', r # s, Reported(r)', Reported(s)'
      PROVE  OutOfOrder'
  <2>1. r \in DOMAIN acked \ {k} \/ s \in DOMAIN acked \ {k}
    BY <1>4, <1>8
  <2>2. CASE r \in DOMAIN acked \ {k}
    BY <1>4, <1>7, <1>8, <2>2 DEF Reported
  <2>3. CASE s \in DOMAIN acked \ {k}
    BY <1>4, <1>7, <1>8, <2>3 DEF Reported
  <2> QED BY <2>1, <2>2, <2>3
<1> QED BY <1>2, <1>6, <1>8 DEF RestartInv

LEMMA FailureRestart == ASSUME RestartInv, NEW e \in NextEntries, AppendFails(e) PROVE RestartInv'
<1>1. HistoryInv' /\ UNCHANGED acked
  BY HistoryNext DEF RestartInv, Next, AppendFails
<1>2. (file # <<>> => file' # <<>>) /\ (OutOfOrder => OutOfOrder')
  <2>1. CASE UNCHANGED file
    BY <2>1 DEF OutOfOrder
  <2>2. CASE \E line \in {e, Junk} : Put(line)
    <3>1. PICK S : file \in Seq(S)
      BY DEF RestartInv, HistoryInv, TypeInv
    <3>2. torn => file # <<>>
      BY DEF RestartInv, HistoryInv, TypeInv
    <3>3. PICK line : Put(line)
      BY <2>2
    <3> QED BY <3>1, <3>2, <3>3, PutOrder
  <2> QED BY <2>1, <2>2 DEF AppendFails
<1> QED BY <1>1, <1>2 DEF RestartInv, Reported

LEMMA StartRestart == ASSUME RestartInv, Start PROVE RestartInv'
<1>1. PICK S : acked \in Seq(Seq(S))
  BY DEF RestartInv, HistoryInv, TypeInv
<1>2. HistoryInv' /\ UNCHANGED file /\ acked' = Append(acked, <<>>)
  BY HistoryNext DEF RestartInv, Next, Start
<1>3. \A r \in DOMAIN acked' : Reported(r)' => r \in DOMAIN acked /\ Reported(r)
  <2> DEFINE T == Seq(S)
  <2>1. acked \in Seq(T) /\ <<>> \in T
    BY <1>1
  <2> HIDE DEF T
  <2>2. \A r \in DOMAIN acked' : acked'[r] # <<>> => r \in DOMAIN acked /\ acked[r] # <<>>
    BY <1>2, <2>1
  <2> QED BY <2>2 DEF Reported
<1>4. OutOfOrder' <=> OutOfOrder
  BY <1>2 DEF OutOfOrder
<1> QED BY <1>2, <1>3, <1>4 DEF RestartInv

LEMMA RestartNext == RestartInv /\ [Next]_vars => RestartInv'
<1> SUFFICES ASSUME RestartInv, [Next]_vars PROVE RestartInv'
  OBVIOUS
<1>1. ASSUME UNCHANGED <<file, acked>> PROVE RestartInv'
  BY <1>1, HistoryNext DEF RestartInv, Reported, OutOfOrder
<1> QED BY <1>1, StartRestart, AppendRestart, FailureRestart
        DEF Next, Stop, Insert, InsertFails, Read, vars

\* main.go:86, report.go:62: as soon as a second run has reported something the
\* file is no longer one chain, and never becomes one again, however the writes
\* of the two fail.
THEOREM RestartsAreVisible == Spec => []RestartBreaksTheChain
<1>1. RestartInv => RestartBreaksTheChain
  <2> SUFFICES ASSUME RestartInv, OutOfOrder PROVE ~Verify(file).ok
    BY DEF RestartInv, RestartBreaksTheChain, Reported
  <2>1. PICK S : file \in Seq(S)
    BY DEF RestartInv, HistoryInv, TypeInv
  <2>2. PICK i \in 1 .. Len(file) : file[i].seq # i - 1
    BY <2>1 DEF OutOfOrder
  <2>3. ~Good(file, i)
    BY <2>2 DEF Good
  <2>4. ~Accepts(file, Len(file))
    BY <2>2, <2>3 DEF Accepts
  <2>5. Len(file) \in Nat
    BY <2>1
  <2> QED BY <2>1, <2>4, <2>5, ExtentIs, VerifyIs
<1> QED BY <1>1, RestartInit, RestartNext, PTL DEF Spec

-----------------------------------------------------------------------------
(* Tampering *)

\* SHA-256 is taken as free of collisions: a hash gives what was hashed.
LEMMA HashIsInjective ==
    ASSUME NEW a, NEW b, NEW c, NEW d, NEW p, NEW q, NEW r, NEW s
    PROVE  /\ Hash(a, b, c, d) = Hash(p, q, r, s) => a = p /\ b = q /\ c = r /\ d = s
           /\ Hash(a, b, c, d) # GenesisHash
<1> DEFINE u == <<a, b, c, d>>
           v == <<p, q, r, s>>
<1>1. u[1] = a /\ u[2] = b /\ u[3] = c /\ u[4] = d /\ v[1] = p /\ v[2] = q /\ v[3] = r /\ v[4] = s
  OBVIOUS
<1>2. u # <<>>
  OBVIOUS
<1>3. Hash(a, b, c, d) = u /\ Hash(p, q, r, s) = v
  BY DEF Hash
<1> HIDE DEF u, v
<1> QED BY <1>1, <1>2, <1>3, Zenon DEF GenesisHash

\* The file is the chain that the writer stands at the end of.
Intact ==
    /\ \E S : file \in Seq(S)
    /\ \A k \in 1 .. Len(file) :
          /\ Readable(file, k) /\ Good(file, k)
          /\ file[k] = Link(file[k].seq, file[k].ts, file[k].payload, file[k].prev)
          /\ file[k].payload = Rendered(file[k].payload.body)
    /\ prev = IF Len(file) = 0 THEN GenesisHash ELSE file[Len(file)].hash

LEMMA VerifiedIsIntact ==
    ASSUME TypeInv, Verify(file).ok, Verify(file).head = prev
    PROVE  Intact
<1>1. PICK S : file \in Seq(S)
  BY DEF TypeInv
<1>2. Extent(file) = Len(file) /\ Len(file) \in Nat /\ DOMAIN file = 1 .. Len(file)
  BY <1>1, VerifyIs
<1>3. Accepts(file, Len(file))
  BY <1>2, ExtentIs
<1>4. prev = IF Len(file) = 0 THEN GenesisHash ELSE file[Len(file)].hash
  BY <1>1, <1>2, VerifyIs
<1>5. ASSUME NEW k \in 1 .. Len(file)
      PROVE  /\ Readable(file, k) /\ Good(file, k)
             /\ file[k] = Link(file[k].seq, file[k].ts, file[k].payload, file[k].prev)
             /\ file[k].payload = Rendered(file[k].payload.body)
  <2>1. Readable(file, k) /\ Good(file, k)
    BY <1>3 DEF Accepts
  <2>2. file[k].seq = k - 1
    BY <2>1 DEF Good
  <2>3. file[k] # Junk
    BY <2>2 DEF Junk, Link
  <2>4. IsEntry(file[k], clock)
    BY <1>2, <2>3 DEF TypeInv, TypeOK
  <2>5. file[k].payload = Rendered(file[k].payload.body)
    BY <2>4 DEF IsEntry, Rendered
  <2> QED BY <2>1, <2>4, <2>5 DEF IsEntry
<1> QED BY <1>1, <1>4, <1>5 DEF Intact

\* Lines left alone are accepted as before.
LEMMA SameAccepted ==
    ASSUME Intact, NEW S, NEW L \in Seq(S), NEW m \in 0 .. Len(L), m <= Len(file),
           \A k \in 1 .. m : L[k] = file[k]
    PROVE  Accepts(L, m)
<1>1. Len(file) \in Nat /\ Len(L) \in Nat
  BY DEF Intact
<1>2. ASSUME NEW k \in 1 .. m PROVE Readable(L, k) /\ Good(L, k)
  <2>1. k \in 1 .. Len(file) /\ L[k] = file[k] /\ (k # 1 => L[k - 1] = file[k - 1])
    BY <1>1
  <2>2. Readable(file, k) /\ Good(file, k)
    BY <2>1 DEF Intact
  <2> QED BY <2>1, <2>2 DEF Readable, Good
<1> QED BY <1>1, <1>2 DEF Accepts

\* Verify stops behind the lines it accepts, at one that does not fit.
LEMMA StopsAt ==
    ASSUME NEW S, NEW L \in Seq(S), NEW m \in 0 .. Len(L), Accepts(L, m), m < Len(L) => ~Good(L, m + 1)
    PROVE  /\ Len(Verify(L).entries) = m /\ (Verify(L).ok <=> m = Len(L))
           /\ Verify(L).head = IF m = 0 THEN GenesisHash ELSE L[m].hash
<1>1. Len(L) \in Nat
  OBVIOUS
<1>2. m < Len(L) => ~Accepts(L, m + 1)
  <2>1. m < Len(L) => m + 1 \in 1 .. m + 1
    OBVIOUS
  <2> QED BY <2>1 DEF Accepts
<1>3. Extent(L) = m
  BY <1>1, <1>2, ExtentIs
<1> QED BY <1>3, VerifyIs

\* An edited line: another body or time under the hash of the old one.
Edited(p, q) ==
    /\ q.seq = p.seq /\ q.prev = p.prev /\ q.hash = p.hash
    /\ q.ts # p.ts \/ q.payload # p.payload
    /\ q.payload.body \notin LongPayloads

LEMMA EditedIs ==
    ASSUME Intact, NEW i \in 1 .. Len(file), NEW L \in EditedAt(i)
    PROVE  /\ \E S : L \in Seq(S)
           /\ Len(L) = Len(file) /\ DOMAIN L = 1 .. Len(file)
           /\ \A k \in 1 .. Len(file) : k # i => L[k] = file[k]
           /\ Edited(file[i], L[i])
<1>1. PICK S : file \in Seq(S)
  BY DEF Intact
<1>2. Len(file) \in Nat /\ DOMAIN file = 1 .. Len(file)
  BY <1>1
<1> DEFINE p == file[i]
<1>3. p = Link(p.seq, p.ts, p.payload, p.prev) /\ p.payload = Rendered(p.payload.body)
      /\ p.payload.body \notin LongPayloads
  BY DEF Intact, Readable
<1>4. \E q : L = [file EXCEPT ![i] = q] /\ Edited(p, q)
  <2>1. ASSUME NEW body \in Payloads \ (LongPayloads \cup {file[i].payload.body}),
               L = [file EXCEPT ![i].payload.body = body]
        PROVE  \E q : L = [file EXCEPT ![i] = q] /\ Edited(p, q)
    <3> DEFINE q == [p EXCEPT !.payload = [@ EXCEPT !.body = body]]
    <3>1. L = [file EXCEPT ![i] = q]
      BY <2>1
    <3>2. Edited(p, q)
      <4> HIDE DEF p
      <4>1. q = [seq |-> p.seq, ts |-> p.ts, payload |-> [p.payload EXCEPT !.body = body],
                 prev |-> p.prev, hash |-> p.hash]
        BY <1>3 DEF Link
      <4>2. [p.payload EXCEPT !.body = body] = [body |-> body, keys |-> "struct"]
        BY <1>3 DEF Rendered
      <4>3. body # p.payload.body /\ body \notin LongPayloads
        BY <2>1 DEF p
      <4> HIDE DEF q
      <4> QED BY <4>1, <4>2, <4>3 DEF Edited
    <3> QED BY <3>1, <3>2
  <2>2. ASSUME NEW ts \in Times \ {file[i].ts}, L = [file EXCEPT ![i].ts = ts]
        PROVE  \E q : L = [file EXCEPT ![i] = q] /\ Edited(p, q)
    <3> DEFINE q == [p EXCEPT !.ts = ts]
    <3>1. L = [file EXCEPT ![i] = q]
      BY <2>2
    <3>2. Edited(p, q)
      <4>1. ts # p.ts
        OBVIOUS
      <4> HIDE DEF p
      <4> QED BY <1>3, <4>1 DEF Edited, Link
    <3> QED BY <3>1, <3>2
  <2> QED BY <2>1, <2>2 DEF EditedAt
<1>5. PICK q : L = [file EXCEPT ![i] = q] /\ Edited(p, q)
  BY <1>4
<1> HIDE DEF p
<1> DEFINE T == S \cup {q}
<1>6. file \in Seq(T) /\ q \in T
  BY <1>1
<1> HIDE DEF T
<1>7. L \in Seq(T) /\ Len(L) = Len(file) /\ \A k \in 1 .. Len(file) : L[k] = IF k = i THEN q ELSE file[k]
  BY <1>5, <1>6, ExceptSeq
<1>8. DOMAIN L = 1 .. Len(file)
  BY <1>7
<1> QED BY <1>5, <1>7, <1>8 DEF p

\* Verify stops at an edited line ...
LEMMA EditShows ==
    ASSUME Intact, NEW i \in 1 .. Len(file), NEW L \in EditedAt(i)
    PROVE  Len(Verify(L).entries) = i - 1
<1>1. /\ \E S : L \in Seq(S)
      /\ Len(L) = Len(file) /\ DOMAIN L = 1 .. Len(file)
      /\ \A k \in 1 .. Len(file) : k # i => L[k] = file[k]
      /\ Edited(file[i], L[i])
  BY EditedIs
<1>2. PICK S : L \in Seq(S)
  BY <1>1
<1>3. i - 1 \in 0 .. Len(L) /\ i - 1 <= Len(file) /\ i - 1 + 1 = i
      /\ \A k \in 1 .. i - 1 : k \in 1 .. Len(file) /\ k # i
  BY <1>1, <1>2
<1>4. Accepts(L, i - 1)
  BY <1>1, <1>2, <1>3, SameAccepted
<1>5. ~Good(L, i)
  <2>1. file[i].hash = Hash(file[i].seq, file[i].ts, file[i].payload, file[i].prev)
    BY DEF Intact, Good
  <2>2. Hash(file[i].seq, file[i].ts, file[i].payload, file[i].prev)
          # Hash(L[i].seq, L[i].ts, L[i].payload, L[i].prev)
    BY <1>1, HashIsInjective DEF Edited
  <2> QED BY <1>1, <2>1, <2>2 DEF Edited, Good
<1> QED BY <1>2, <1>3, <1>4, <1>5, StopsAt

\* Without line i the next one takes its place.
LEMMA LineRemoved ==
    ASSUME NEW S, NEW s \in Seq(S), NEW i \in 1 .. Len(s) - 1
    PROVE  /\ RemoveAt(s, i) \in Seq(S) /\ Len(RemoveAt(s, i)) = Len(s) - 1 /\ RemoveAt(s, i)[i] = s[i + 1]
           /\ \A m \in 1 .. i - 1 : RemoveAt(s, i)[m] = s[m]
<1>1. Len(s) \in Nat /\ i \in Nat /\ i < Len(s) /\ 0 < i /\ \A m \in 1 .. Len(s) : s[m] \in S
  OBVIOUS
<1> DEFINE a == SubSeq(s, 1, i - 1)
           b == SubSeq(s, i + 1, Len(s))
<1>2. a \in Seq(S) /\ Len(a) = i - 1 /\ \A m \in 1 .. i - 1 : a[m] = s[m]
  <2>1. 1 \in Int /\ i - 1 \in Int /\ \A m \in 1 .. i - 1 : s[m] \in S
    BY <1>1
  <2>2. /\ a \in Seq(S) /\ Len(a) = IF 1 <= i - 1 THEN i - 1 - 1 + 1 ELSE 0
        /\ \A m \in 1 .. i - 1 - 1 + 1 : a[m] = s[1 + m - 1]
    BY <2>1, SubSeqProperties
  <2> HIDE DEF a
  <2> QED BY <1>1, <2>2
<1>3. b \in Seq(S) /\ Len(b) = Len(s) - i /\ b[1] = s[i + 1]
  <2>1. i + 1 \in Int /\ Len(s) \in Int /\ \A m \in i + 1 .. Len(s) : s[m] \in S
    BY <1>1
  <2>2. /\ b \in Seq(S) /\ Len(b) = IF i + 1 <= Len(s) THEN Len(s) - (i + 1) + 1 ELSE 0
        /\ \A m \in 1 .. Len(s) - (i + 1) + 1 : b[m] = s[(i + 1) + m - 1]
    BY <2>1, SubSeqProperties
  <2> HIDE DEF b
  <2>3. 1 \in 1 .. Len(s) - (i + 1) + 1 /\ (i + 1) + 1 - 1 = i + 1
    BY <1>1
  <2> QED BY <1>1, <2>2, <2>3
<1>4. RemoveAt(s, i) = a \o b
  BY DEF RemoveAt
<1> HIDE DEF a, b
<1>5. /\ a \o b \in Seq(S) /\ Len(a \o b) = Len(a) + Len(b)
      /\ \A m \in 1 .. Len(a) + Len(b) : (a \o b)[m] = IF m <= Len(a) THEN a[m] ELSE b[m - Len(a)]
  BY <1>2, <1>3, ConcatProperties
<1> DEFINE c == a \o b
<1>6. c \in Seq(S) /\ Len(c) = Len(s) - 1
      /\ \A m \in 1 .. Len(s) - 1 : c[m] = IF m <= i - 1 THEN a[m] ELSE b[m - (i - 1)]
  BY <1>1, <1>2, <1>3, <1>5
<1> HIDE DEF c
<1>7. c[i] = b[1]
  <2>1. i \in 1 .. Len(s) - 1 /\ ~(i <= i - 1) /\ i - (i - 1) = 1
    BY <1>1
  <2> QED BY <1>6, <2>1
<1>8. ASSUME NEW m \in 1 .. i - 1 PROVE c[m] = s[m]
  <2>1. m \in 1 .. Len(s) - 1 /\ m <= i - 1
    BY <1>1
  <2> QED BY <1>2, <1>6, <2>1
<1> QED BY <1>3, <1>4, <1>6, <1>7, <1>8 DEF c

\* ... at the first line out of its place ...
LEMMA MoveShows ==
    ASSUME Intact, NEW i \in 1 .. Len(file), NEW L \in MovedAt(i)
    PROVE  Len(Verify(L).entries) = i - 1
<1>1. PICK S : file \in Seq(S)
  BY DEF Intact
<1>2. Len(file) \in Nat /\ DOMAIN file = 1 .. Len(file)
  BY <1>1
<1>3. \A k \in 1 .. Len(file) : file[k].seq = k - 1
  BY DEF Intact, Good
<1>4. /\ L \in Seq(S) /\ i <= Len(L)
      /\ \A k \in 1 .. i - 1 : L[k] = file[k]
      /\ L[i].seq # i - 1
  <2>1. ASSUME NEW j \in i + 1 .. Len(file), L = [file EXCEPT ![i] = file[j], ![j] = file[i]]
        PROVE  /\ L \in Seq(S) /\ i <= Len(L)
               /\ \A m \in 1 .. i - 1 : L[m] = file[m]
               /\ L[i].seq # i - 1
    <3>1. i \in 1 .. Len(file) /\ j \in 1 .. Len(file) /\ i # j /\ j # i
      BY <1>2
    <3>2. L \in Seq(S) /\ Len(L) = Len(file)
      BY <1>1, <2>1, <3>1
    <3>3. L[i] = file[j]
      BY <1>2, <2>1, <3>1
    <3>4. \A k \in 1 .. i - 1 : k \in 1 .. Len(file) /\ k # i /\ k # j
      BY <1>2
    <3>5. \A k \in 1 .. i - 1 : L[k] = file[k]
      BY <1>2, <2>1, <3>4, Zenon
    <3> QED BY <1>2, <1>3, <3>1, <3>2, <3>3, <3>5
  <2>2. ASSUME i # Len(file), L = RemoveAt(file, i)
        PROVE  /\ L \in Seq(S) /\ i <= Len(L)
               /\ \A m \in 1 .. i - 1 : L[m] = file[m]
               /\ L[i].seq # i - 1
    <3>1. i # Len(file) /\ Len(file) \in Nat
      BY <1>2, <2>2, Zenon
    <3>2. /\ i \in 1 .. Len(file) - 1 /\ i + 1 \in 1 .. Len(file) /\ i + 1 - 1 = i
          /\ i <= Len(file) - 1 /\ i # i - 1
      <4> DEFINE n == Len(file)
      <4>1. n \in Nat /\ i \in 1 .. n /\ ~(i = n)
        BY <3>1, Zenon
      <4> HIDE DEF n
      <4>2. i \in 1 .. n - 1 /\ i + 1 \in 1 .. n /\ i + 1 - 1 = i /\ i <= n - 1 /\ i # i - 1
        BY <4>1
      <4> QED BY <4>2 DEF n
    <3>3. /\ L \in Seq(S) /\ Len(L) = Len(file) - 1 /\ L[i] = file[i + 1]
          /\ \A m \in 1 .. i - 1 : L[m] = file[m]
      BY <1>1, <2>2, <3>2, LineRemoved
    <3>4. file[i + 1].seq = i
      BY <1>3, <3>2
    <3> QED BY <3>2, <3>3, <3>4, Zenon
  <2>3. \/ \E j \in i + 1 .. Len(file) : L = [file EXCEPT ![i] = file[j], ![j] = file[i]]
        \/ i # Len(file) /\ L = RemoveAt(file, i)
    BY Zenon DEF MovedAt
  <2> QED BY <2>1, <2>2, <2>3
<1>5. i - 1 \in 0 .. Len(L) /\ i - 1 <= Len(file) /\ i - 1 + 1 = i
  BY <1>2, <1>4
<1>6. Accepts(L, i - 1)
  BY <1>4, <1>5, SameAccepted
<1>7. ~Good(L, i)
  BY <1>4 DEF Good
<1> QED BY <1>4, <1>5, <1>6, <1>7, StopsAt

\* ... and, when the hash of the edited line was made to fit, at the next one.
LEMMA ReforgeShows ==
    ASSUME Intact, NEW i \in 1 .. Len(file), NEW F \in ReforgedAt(i)
    PROVE  Len(Verify(F).entries) = i /\ Verify(F).head # prev
<1>1. PICK L \in EditedAt(i) : F = [L EXCEPT ![i] = Link(@.seq, @.ts, @.payload, @.prev)]
  BY DEF ReforgedAt
<1>2. /\ \E S : L \in Seq(S)
      /\ Len(L) = Len(file) /\ DOMAIN L = 1 .. Len(file)
      /\ \A k \in 1 .. Len(file) : k # i => L[k] = file[k]
      /\ Edited(file[i], L[i])
  BY EditedIs
<1>3. PICK S : L \in Seq(S)
  BY <1>2
<1> DEFINE p == file[i]
           q == L[i]
           r == Link(q.seq, q.ts, q.payload, q.prev)
           T == S \cup {r}
<1>4. Edited(p, q)
  BY <1>2
<1>5. F = [L EXCEPT ![i] = r] /\ L \in Seq(T) /\ r \in T
  BY <1>1, <1>3
<1>6. /\ r.seq = q.seq /\ r.ts = q.ts /\ r.payload = q.payload /\ r.prev = q.prev
      /\ r.hash = Hash(q.seq, q.ts, q.payload, q.prev)
  <2> HIDE DEF q
  <2> QED BY DEF Link
<1>7. Good(file, i) /\ p.hash = Hash(p.seq, p.ts, p.payload, p.prev)
  BY DEF Intact, Good
<1> HIDE DEF p, q, r, T
<1>8. /\ F \in Seq(T) /\ Len(F) = Len(file) /\ Len(file) \in Nat
      /\ \A k \in 1 .. Len(file) : F[k] = IF k = i THEN r ELSE L[k]
  <2>1. i \in 1 .. Len(L) /\ Len(L) \in Nat
    BY <1>2, <1>3
  <2>2. F \in Seq(T) /\ Len(F) = Len(L) /\ \A k \in 1 .. Len(L) : F[k] = IF k = i THEN r ELSE L[k]
    BY <1>5, <2>1, ExceptSeq
  <2> QED BY <1>2, <2>1, <2>2
<1>9. F[i] = r /\ \A k \in 1 .. Len(file) : k # i => F[k] = file[k]
  BY <1>2, <1>8
<1>10. r.hash # p.hash
  BY <1>4, <1>6, <1>7, HashIsInjective DEF Edited
<1>11. Accepts(F, i)
  <2>1. i - 1 \in 0 .. Len(F) /\ i - 1 <= Len(file) /\ \A k \in 1 .. i - 1 : k \in 1 .. Len(file) /\ k # i
    BY <1>8
  <2>2. Accepts(F, i - 1)
    BY <1>8, <1>9, <2>1, SameAccepted
  <2>3. Good(F, i) /\ Readable(F, i)
    <3>1. i # 1 => F[i - 1] = file[i - 1]
      BY <1>8, <1>9
    <3>2. p.seq = i - 1 /\ p.prev = IF i = 1 THEN GenesisHash ELSE file[i - 1].hash
      BY <1>7 DEF Good, p
    <3>3. F[i].seq = i - 1 /\ F[i].prev = (IF i = 1 THEN GenesisHash ELSE F[i - 1].hash)
      BY <1>4, <1>6, <1>9, <3>1, <3>2 DEF Edited
    <3>4. F[i].hash = Hash(F[i].seq, F[i].ts, F[i].payload, F[i].prev)
      BY <1>6, <1>9
    <3> QED BY <1>4, <1>6, <1>9, <3>3, <3>4 DEF Good, Readable, Edited
  <2>4. i <= Len(F) /\ \A k \in 1 .. i : k = i \/ k \in 1 .. i - 1
    BY <1>8
  <2> QED BY <2>2, <2>3, <2>4 DEF Accepts
<1>12. i < Len(F) => ~Good(F, i + 1)
  <2> SUFFICES ASSUME i < Len(F) PROVE F[i + 1].prev # F[i].hash
    <3>1. i + 1 # 1 /\ i + 1 - 1 = i
      BY <1>8
    <3> QED BY <3>1 DEF Good
  <2>1. i + 1 \in 1 .. Len(file) /\ i + 1 # i /\ i + 1 # 1 /\ i + 1 - 1 = i
    BY <1>8
  <2>2. file[i + 1].prev = p.hash
    <3>1. Good(file, i + 1)
      BY <2>1 DEF Intact
    <3> DEFINE y == i + 1
    <3>2. Good(file, y) /\ ~(y = 1) /\ y - 1 = i
      BY <2>1, <3>1
    <3> HIDE DEF y
    <3>3. file[y].prev = file[y - 1].hash
      BY <3>2, Zenon DEF Good
    <3> QED BY <3>2, <3>3 DEF y, p
  <2> QED BY <1>9, <1>10, <2>1, <2>2
<1>13. Len(Verify(F).entries) = i /\ Verify(F).head = r.hash
  <2>1. i \in 0 .. Len(F) /\ i # 0
    BY <1>8
  <2> QED BY <1>8, <1>9, <1>11, <1>12, <2>1, StopsAt
<1>14. r.hash # prev
  <2> DEFINE last == file[Len(file)]
  <2>1. Len(file) \in 1 .. Len(file) /\ Len(file) # 0
    BY <1>8
  <2>2. prev = last.hash /\ Good(file, Len(file))
    BY <2>1 DEF Intact
  <2>3. last.seq = Len(file) - 1 /\ last.hash = Hash(last.seq, last.ts, last.payload, last.prev)
    BY <2>2 DEF Good
  <2>4. p.seq = i - 1
    BY <1>7 DEF Good, p
  <2>5. CASE i = Len(file)
    <3>1. last = p
      BY <2>5 DEF p
    <3> QED BY <1>10, <2>2, <3>1
  <2>6. CASE i # Len(file)
    <3>1. last.seq # r.seq
      BY <1>4, <1>6, <1>8, <2>3, <2>4, <2>6 DEF Edited
    <3> HIDE DEF last
    <3> QED BY <1>6, <2>2, <2>3, <3>1, HashIsInjective
  <2> QED BY <2>5, <2>6
<1> QED BY <1>13, <1>14

\* A report cut short verifies, and its head gives that away.
LEMMA CutShows ==
    ASSUME Intact, NEW i \in 1 .. Len(file)
    PROVE  Verify(SubSeq(file, 1, i - 1)).head # prev
<1>1. PICK S : file \in Seq(S)
  BY DEF Intact
<1> DEFINE L == SubSeq(file, 1, i - 1)
<1>2. Len(file) \in Nat
  BY <1>1
<1>3. L \in Seq(S) /\ Len(L) = i - 1 /\ \A k \in 1 .. i - 1 : L[k] = file[k]
  <2>1. 1 \in Int /\ i - 1 \in Int /\ \A k \in 1 .. i - 1 : file[k] \in S
    BY <1>1, <1>2
  <2>2. /\ L \in Seq(S) /\ Len(L) = IF 1 <= i - 1 THEN i - 1 - 1 + 1 ELSE 0
        /\ \A k \in 1 .. i - 1 - 1 + 1 : L[k] = file[1 + k - 1]
    BY <2>1, SubSeqProperties
  <2> HIDE DEF L
  <2> QED BY <1>2, <2>2
<1> HIDE DEF L
<1>4. i - 1 \in 0 .. Len(L) /\ i - 1 <= Len(file) /\ ~(i - 1 < Len(L))
  BY <1>2, <1>3
<1>5. Accepts(L, i - 1)
  BY <1>3, <1>4, SameAccepted
<1>6. Verify(L).head = IF i - 1 = 0 THEN GenesisHash ELSE L[i - 1].hash
  BY <1>3, <1>4, <1>5, StopsAt
<1> DEFINE last == file[Len(file)]
<1>7. prev = last.hash /\ last.seq = Len(file) - 1 /\ last.hash = Hash(last.seq, last.ts, last.payload, last.prev)
  <2>1. Len(file) \in 1 .. Len(file) /\ Len(file) # 0
    BY <1>2
  <2> QED BY <2>1 DEF Intact, Good
<1>8. CASE i = 1
  <2>1. Verify(L).head = GenesisHash
    BY <1>6, <1>8
  <2> HIDE DEF last
  <2> QED BY <1>7, <2>1, HashIsInjective DEF L
<1>9. CASE i # 1
  <2> DEFINE e == file[i - 1]
  <2>1. i - 1 \in 1 .. Len(file) /\ i - 1 # 0 /\ i - 1 \in 1 .. i - 1
    BY <1>2, <1>9
  <2>2. e.seq = i - 1 - 1 /\ e.hash = Hash(e.seq, e.ts, e.payload, e.prev)
    BY <2>1 DEF Intact, Good
  <2>3. Verify(L).head = e.hash
    BY <1>3, <1>6, <2>1
  <2>4. e.seq # last.seq
    BY <1>2, <1>7, <2>2
  <2> HIDE DEF last, e
  <2> QED BY <1>7, <2>2, <2>3, <2>4, HashIsInjective DEF L
<1> QED BY <1>8, <1>9

\* The hashes of a chain, computed from its first line on.
IsRehashed(L, n, h) ==
    h = [i \in 0 .. n |-> IF i = 0 THEN GenesisHash ELSE Hash(L[i].seq, L[i].ts, L[i].payload, h[i - 1])]

LEMMA HashesExist ==
    ASSUME NEW L, NEW n \in Nat
    PROVE  \E h : IsRehashed(L, n, h)
<1> DEFINE D == {k \in 0 .. n : \E h : IsRehashed(L, k, h)}
<1>1. 0 \in D
  <2> DEFINE h == [i \in 0 .. 0 |-> GenesisHash]
  <2>1. IsRehashed(L, 0, h)
    BY DEF IsRehashed
  <2> QED BY <2>1
<1>2. D \in SUBSET (0 .. n) /\ D # {}
  BY <1>1
<1> HIDE DEF D
<1>3. Max(D) \in D /\ \A k \in D : k <= Max(D)
  BY <1>2, GreatestOf
<1> DEFINE m == Max(D)
<1>4. m \in 0 .. n /\ \E h : IsRehashed(L, m, h)
  BY <1>3 DEF D
<1>5. PICK h : IsRehashed(L, m, h)
  BY <1>4
<1>6. m + 1 \notin D
  BY <1>3, <1>4
<1> HIDE DEF m
<1>7. CASE m = n
  BY <1>5, <1>7
<1>8. CASE m # n
  <2> DEFINE value(i, g) == IF i = 0 THEN GenesisHash ELSE Hash(L[i].seq, L[i].ts, L[i].payload, g[i - 1])
             longer == [i \in 0 .. m + 1 |-> value(i, h)]
  <2>1. m \in Nat /\ m + 1 \in 0 .. n
    BY <1>4, <1>8
  <2>2. \A i \in 0 .. m : h[i] = value(i, h)
    <3>1. h = [i \in 0 .. m |-> value(i, h)]
      BY <1>5 DEF IsRehashed
    <3> HIDE DEF value
    <3> QED BY <3>1
  <2>3. \A i \in 0 .. m : longer[i] = h[i]
    <3> HIDE DEF value
    <3>1. \A i \in 0 .. m : i \in 0 .. m + 1
      BY <2>1
    <3> QED BY <2>2, <3>1
  <2> DEFINE long == longer
  <2>4. \A i \in 0 .. m + 1 : value(i, h) = value(i, long)
    <3> SUFFICES ASSUME NEW i \in 0 .. m + 1 PROVE value(i, h) = value(i, long)
      OBVIOUS
    <3>1. i # 0 => i - 1 \in 0 .. m
      BY <2>1
    <3> HIDE DEF long
    <3>2. i # 0 => h[i - 1] = long[i - 1]
      BY <2>3, <3>1 DEF long
    <3> QED BY <3>2
  <2>5. long = [i \in 0 .. m + 1 |-> value(i, h)]
    OBVIOUS
  <2> HIDE DEF long, longer
  <2>6. long = [i \in 0 .. m + 1 |-> value(i, long)]
    <3> HIDE DEF value
    <3> QED BY <2>4, <2>5
  <2>7. IsRehashed(L, m + 1, long)
    BY <2>6 DEF IsRehashed
  <2>8. m + 1 \in D
    BY <2>1, <2>7 DEF D
  <2> QED BY <1>6, <2>8
<1> QED BY <1>7, <1>8

LEMMA RehashedIs ==
    ASSUME NEW S, NEW L \in Seq(S)
    PROVE  /\ Rehashed(L)[0] = GenesisHash
           /\ \A i \in 1 .. Len(L) :
                 Rehashed(L)[i] = Hash(L[i].seq, L[i].ts, L[i].payload, Rehashed(L)[i - 1])
<1> DEFINE n == Len(L)
<1>1. n \in Nat
  OBVIOUS
<1>2. Rehashed(L) = CHOOSE h : IsRehashed(L, n, h)
  BY DEF Rehashed, IsRehashed
<1>3. IsRehashed(L, n, Rehashed(L))
  BY <1>1, <1>2, HashesExist
<1> DEFINE h == Rehashed(L)
           value(i) == IF i = 0 THEN GenesisHash ELSE Hash(L[i].seq, L[i].ts, L[i].payload, h[i - 1])
<1> HIDE DEF n, h
<1>4. h = [i \in 0 .. n |-> value(i)]
  BY <1>3 DEF IsRehashed, h
<1>5. \A i \in 0 .. n : h[i] = value(i)
  <2> HIDE DEF value
  <2> QED BY <1>4
<1>6. h[0] = GenesisHash
  BY <1>1, <1>5
<1>7. ASSUME NEW i \in 1 .. n PROVE h[i] = Hash(L[i].seq, L[i].ts, L[i].payload, h[i - 1])
  <2>1. i \in 0 .. n /\ ~(i = 0)
    BY <1>1
  <2> HIDE DEF value
  <2>2. h[i] = value(i)
    BY <1>5, <2>1
  <2> QED BY <2>1, <2>2 DEF value
<1> QED BY <1>6, <1>7 DEF h, n

\* A chain written anew from the edited line on verifies, and its head is
\* another: were the last hashes the same, so would be those before, down to
\* the edited line.
LEMMA RelinkShows ==
    ASSUME Intact, NEW i \in 1 .. Len(file), NEW L \in EditedAt(i)
    PROVE  Verify(Relinked(L)).ok /\ Verify(Relinked(L)).head # prev
<1>1. /\ \E S : L \in Seq(S)
      /\ Len(L) = Len(file) /\ DOMAIN L = 1 .. Len(file)
      /\ \A k \in 1 .. Len(file) : k # i => L[k] = file[k]
      /\ Edited(file[i], L[i])
  BY EditedIs
<1> DEFINE n == Len(file)
           h == Rehashed(L)
           line(k) == Link(L[k].seq, L[k].ts, L[k].payload, h[k - 1])
           R == Relinked(L)
           T == {line(k) : k \in 1 .. n}
<1>2. n \in Nat
  BY DEF Intact
<1>3. h[0] = GenesisHash /\ \A k \in 1 .. n : h[k] = Hash(L[k].seq, L[k].ts, L[k].payload, h[k - 1])
  BY <1>1, RehashedIs
<1>4. R = [k \in 1 .. n |-> line(k)]
  BY <1>1 DEF Relinked
<1>5. \A k \in 1 .. n : L[k].seq = k - 1 /\ L[k].payload.body \notin LongPayloads
  <2> SUFFICES ASSUME NEW k \in 1 .. n PROVE L[k].seq = k - 1 /\ L[k].payload.body \notin LongPayloads
    OBVIOUS
  <2>1. file[k].seq = k - 1 /\ file[k].payload.body \notin LongPayloads
    BY DEF Intact, Good, Readable
  <2> QED BY <1>1, <2>1 DEF Edited
<1>6. \A k \in 1 .. n : /\ file[k].hash = Hash(file[k].seq, file[k].ts, file[k].payload, file[k].prev)
                        /\ k # 1 => file[k].prev = file[k - 1].hash
  <2> SUFFICES ASSUME NEW k \in 1 .. n
               PROVE  /\ file[k].hash = Hash(file[k].seq, file[k].ts, file[k].payload, file[k].prev)
                      /\ k # 1 => file[k].prev = file[k - 1].hash
    OBVIOUS
  <2>1. Good(file, k)
    BY DEF Intact
  <2> QED BY <2>1, Zenon DEF Good
<1>7. n \in 1 .. n /\ n # 0 /\ prev = file[n].hash
  BY <1>2 DEF Intact
<1>8. i \in 1 .. n
  OBVIOUS
<1> HIDE DEF n, h, R
<1>9. ASSUME NEW k \in 1 .. n
      PROVE  /\ R[k] = line(k) /\ R[k].seq = L[k].seq /\ R[k].ts = L[k].ts /\ R[k].payload = L[k].payload
             /\ R[k].prev = h[k - 1] /\ R[k].hash = h[k]
  <2>1. R[k] = line(k)
    <3> HIDE DEF line
    <3> QED BY <1>4
  <2> DEFINE a == L[k].seq
             b == L[k].ts
             c == L[k].payload
             d == h[k - 1]
  <2>2. R[k] = Link(a, b, c, d) /\ h[k] = Hash(a, b, c, d)
    BY <1>3, <2>1
  <2> HIDE DEF a, b, c, d
  <2>3. R[k].seq = a /\ R[k].ts = b /\ R[k].payload = c /\ R[k].prev = d /\ R[k].hash = h[k]
    BY <2>2 DEF Link
  <2> QED BY <2>1, <2>3 DEF a, b, c, d
<1>10. R \in Seq(T) /\ Len(R) = n
  <2> HIDE DEF line
  <2> QED BY <1>2, <1>4
<1> HIDE DEF T, line
<1>11. ASSUME NEW k \in 1 .. n PROVE Readable(R, k) /\ Good(R, k)
  <2>1. Readable(R, k)
    BY <1>5, <1>9 DEF Readable
  <2>2. R[k].prev = IF k = 1 THEN GenesisHash ELSE R[k - 1].hash
    <3>1. CASE k = 1
      BY <1>3, <1>9, <3>1
    <3>2. CASE k # 1
      <4>1. k - 1 \in 1 .. n
        BY <1>2, <3>2
      <4> QED BY <1>9, <3>2, <4>1
    <3> QED BY <3>1, <3>2
  <2>3. R[k].hash = Hash(R[k].seq, R[k].ts, R[k].payload, R[k].prev)
    BY <1>3, <1>9
  <2>4. R[k].seq = k - 1
    BY <1>5, <1>9
  <2> QED BY <2>1, <2>2, <2>3, <2>4 DEF Good
<1>12. Verify(R).ok /\ Verify(R).head = h[n]
  <2>1. n \in 0 .. Len(R) /\ ~(n < Len(R)) /\ n # 0
    BY <1>2, <1>7, <1>10
  <2>2. Accepts(R, n)
    BY <1>10, <1>11, <1>2 DEF Accepts
  <2>3. (Verify(R).ok <=> n = Len(R)) /\ Verify(R).head = IF n = 0 THEN GenesisHash ELSE R[n].hash
    BY <1>10, <2>1, <2>2, StopsAt
  <2> QED BY <1>7, <1>9, <1>10, <2>1, <2>3
<1>13. h[i] # file[i].hash
  <2>1. h[i] = Hash(L[i].seq, L[i].ts, L[i].payload, h[i - 1])
    BY <1>3, <1>8
  <2>2. file[i].hash = Hash(file[i].seq, file[i].ts, file[i].payload, file[i].prev)
    BY <1>6, <1>8
  <2> QED BY <1>1, <2>1, <2>2, HashIsInjective DEF Edited
<1>14. h[n] # file[n].hash
  <2> DEFINE D == {k \in 0 .. n : k > 0 /\ i <= k /\ h[k] # file[k].hash}
             m == Max(D)
  <2>1. i \in D /\ D \in SUBSET (0 .. n) /\ D # {}
    BY <1>2, <1>8, <1>13
  <2> HIDE DEF D
  <2>2. m \in D /\ \A k \in D : k <= m
    BY <1>2, <2>1, GreatestOf
  <2> HIDE DEF m
  <2>3. m \in 1 .. n /\ i <= m /\ h[m] # file[m].hash
    BY <1>2, <2>2 DEF D
  <2>4. CASE m = n
    BY <2>3, <2>4
  <2>5. CASE m # n
    <3> DEFINE k == m + 1
    <3>1. k \in 1 .. n /\ k # 1 /\ k - 1 = m /\ i <= k /\ k > m /\ k \in 0 .. n /\ k > 0 /\ k # i
      BY <1>2, <1>8, <2>3, <2>5
    <3> HIDE DEF k
    <3>2. h[k] = file[k].hash
      <4>1. k \notin D
        BY <1>2, <2>2, <2>3, <3>1
      <4> QED BY <3>1, <4>1 DEF D
    <3>3. h[k] = Hash(L[k].seq, L[k].ts, L[k].payload, h[m])
      BY <1>3, <3>1
    <3>4. file[k].hash = Hash(file[k].seq, file[k].ts, file[k].payload, file[m].hash)
      <4>1. /\ file[k].hash = Hash(file[k].seq, file[k].ts, file[k].payload, file[k].prev)
            /\ file[k].prev = file[k - 1].hash
        BY <1>6, <3>1
      <4> QED BY <3>1, <4>1
    <3> DEFINE u == h[m]
               v == file[m].hash
    <3>5. Hash(L[k].seq, L[k].ts, L[k].payload, u) = Hash(file[k].seq, file[k].ts, file[k].payload, v)
      BY <3>2, <3>3, <3>4
    <3> HIDE DEF u, v
    <3>6. u = v
      BY <3>5, HashIsInjective
    <3> QED BY <2>3, <3>6 DEF u, v
  <2> QED BY <2>4, <2>5
<1> QED BY <1>7, <1>12, <1>14 DEF R

LEMMA TamperingIsSeen == TypeInv => TamperingShows
<1> SUFFICES ASSUME TypeInv, Verify(file).ok, Verify(file).head = prev, NEW i \in DOMAIN file
             PROVE  /\ \A L \in EditedAt(i) \cup MovedAt(i) : Len(Verify(L).entries) = i - 1
                    /\ \A L \in ReforgedAt(i) : Len(Verify(L).entries) = i /\ Verify(L).head # prev
                    /\ \A L \in EditedAt(i) : Verify(Relinked(L)).ok /\ Verify(Relinked(L)).head # prev
                    /\ Verify(SubSeq(file, 1, i - 1)).head # prev
  BY DEF TamperingShows
<1>1. Intact
  BY VerifiedIsIntact
<1>2. i \in 1 .. Len(file)
  BY <1>1 DEF Intact
<1>3. \A L \in EditedAt(i) \cup MovedAt(i) : Len(Verify(L).entries) = i - 1
  BY <1>1, <1>2, EditShows, MoveShows
<1>4. \A L \in ReforgedAt(i) : Len(Verify(L).entries) = i /\ Verify(L).head # prev
  BY <1>1, <1>2, ReforgeShows
<1>5. \A L \in EditedAt(i) : Verify(Relinked(L)).ok /\ Verify(Relinked(L)).head # prev
  BY <1>1, <1>2, RelinkShows
<1>6. Verify(SubSeq(file, 1, i - 1)).head # prev
  BY <1>1, <1>2, CutShows
<1> QED BY <1>3, <1>4, <1>5, <1>6

\* Verify stops exactly where a verified report was touched, and a report
\* rewritten or cut to its end has another head than the writer's.
THEOREM TamperingIsExposed == Spec => []TamperingShows
<1> QED BY TypeInit, TypeNext, TamperingIsSeen, PTL DEF Spec
=============================================================================
