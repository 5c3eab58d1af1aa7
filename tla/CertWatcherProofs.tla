-------------------------- MODULE CertWatcherProofs --------------------------
(***************************************************************************)
(* Proofs about the certificate watcher, for every number of versions of   *)
(* the secret.  The inductive invariant is Inv of CertWatcher: the file    *)
(* cannot go back because the stream never delivers a version older than   *)
(* the newest one written (StreamIsAhead), and a version that counts as    *)
(* seen is in the file because only a complete write makes it count.       *)
(***************************************************************************)
EXTENDS CertWatcher, TLAPS

\* The constants NoFile and Torn are no versions.
LEMMA FileKinds == NoFile \notin Nat /\ Torn \notin Nat /\ NoFile # Torn
BY FileAssumption

\* The stream starts at a version that exists, at most one behind the newest one written:
\* what was written is no newer than the secret, and a secret that exists is the latest.
LEMMA StreamStart ==
    ASSUME TypeOK
    PROVE  /\ StreamFromList \in 0..latest
           /\ newest <= StreamFromList + 1
BY DEF TypeOK, StreamFromList

\* Taking up a version that is at least the newest one written keeps the invariant, whatever
\* the stream was at, as long as it has delivered that version when the watch is to go on.
LEMMA TakeKeepsInv ==
    ASSUME Inv, NEW version \in 1..latest, NEW next \in {"connecting", "watching"},
           Take(version, next),
           newest <= version,
           next = "watching" => cursor' = version,
           cursor' \in 0..latest,
           UNCHANGED <<latest, valid, secret, qgs, newest>>
    PROVE  Inv'
<1>1. CASE version \in valid
  <2>1. /\ phase' = "writing"
        /\ writing' = [version |-> version, next |-> next]
        /\ file' = Torn
        /\ lastSeen' = lastSeen
    BY <1>1 DEF Take, WorthWriting
  <2>2. TypeOK'
    BY <2>1 DEF Inv, TypeOK, Phase
  <2>3. NeverRollsBack' /\ SeenIsWritten'
    BY <2>1, FileKinds DEF NeverRollsBack, SeenIsWritten
  <2>4. StreamIsAhead' /\ Forgetful'
    BY <1>1, <2>1 DEF StreamIsAhead, Forgetful
  <2> QED BY <2>2, <2>3, <2>4 DEF Inv
<1>2. CASE version \notin valid
  <2>1. /\ phase' = next
        /\ lastSeen' = version
        /\ UNCHANGED <<writing, file>>
    BY <1>2 DEF Take, WorthWriting
  <2>2. TypeOK'
    BY <2>1 DEF Inv, TypeOK, Phase
  <2>3. NeverRollsBack' /\ SeenIsWritten'
    BY <1>2, <2>1 DEF Inv, NeverRollsBack, SeenIsWritten
  <2>4. StreamIsAhead' /\ Forgetful'
    <3>1. phase' \in {"connecting", "watching"}
      BY <2>1
    <3>2. phase' = "watching" => newest' <= cursor' + 1
      BY <2>1 DEF Inv, TypeOK
    <3> QED BY <3>1, <3>2 DEF StreamIsAhead, Forgetful
  <2> QED BY <2>2, <2>3, <2>4 DEF Inv
<1> QED BY <1>1, <1>2

\* Before anything is published the invariant holds.
LEMMA InvInit == Init => Inv
<1> SUFFICES ASSUME Init PROVE Inv
  OBVIOUS
<1>1. TypeOK
  <2>1. /\ valid \subseteq 1..latest
        /\ secret \in {0, latest}
        /\ lastSeen \in 0..latest
        /\ cursor \in 0..latest
        /\ newest \in 0..latest
    BY DEF Init
  <2>2. writing \in [version : 0..latest, next : {"connecting", "watching"}]
    BY DEF Init, Nothing
  <2>3. latest \in Nat /\ phase \in Phase /\ qgs \in BOOLEAN
    BY DEF Init, Phase
  <2>4. file \in Nat \cup {NoFile, Torn}
    BY DEF Init
  <2> QED BY <2>1, <2>2, <2>3, <2>4 DEF TypeOK
<1>2. SeenIsWritten
  BY DEF Init, SeenIsWritten
<1>3. StreamIsAhead /\ Forgetful
  BY DEF Init, StreamIsAhead, Forgetful
<1>4. NeverRollsBack
  BY FileKinds DEF Init, NeverRollsBack
<1> QED BY <1>1, <1>2, <1>3, <1>4 DEF Inv

\* The end of the process forgets what was seen, and leaves the file as it is.
LEMMA DownKeepsInv == Inv /\ Down => Inv'
BY DEF Inv, TypeOK, SeenIsWritten, NeverRollsBack, StreamIsAhead, Forgetful, Down, Phase, Nothing

\* Every step keeps the invariant.
LEMMA InvStep == Inv /\ [Next]_vars => Inv'
<1> SUFFICES ASSUME Inv, [Next]_vars PROVE Inv'
  OBVIOUS
<1> USE DEF Inv
<1>1. ASSUME NEW isValid \in BOOLEAN, Publish(isValid) PROVE Inv'
  BY <1>1, FileKinds
     DEF Publish, TypeOK, SeenIsWritten, NeverRollsBack, StreamIsAhead, Forgetful, processVars, Phase
<1>2. CASE Delete
  BY <1>2 DEF Delete, TypeOK, SeenIsWritten, NeverRollsBack, StreamIsAhead, Forgetful, processVars
<1>3. CASE InitialRead
  BY <1>3, TakeKeepsInv DEF InitialRead, TypeOK
<1>4. CASE InitialReadFails
  BY <1>4 DEF InitialReadFails, TypeOK, SeenIsWritten, NeverRollsBack, StreamIsAhead, Forgetful, Phase
<1>5. CASE Connect
  BY <1>5, StreamStart
     DEF Connect, TypeOK, SeenIsWritten, NeverRollsBack, StreamIsAhead, Forgetful, Phase
<1>6. CASE Event
  <2>1. CASE Processed(cursor + 1)
    BY <1>6, <2>1
       DEF Event, TypeOK, SeenIsWritten, NeverRollsBack, StreamIsAhead, Forgetful
  <2>2. CASE ~Processed(cursor + 1)
    <3>1. cursor + 1 \in 1..latest /\ newest <= cursor + 1
      BY <1>6 DEF Event, TypeOK, StreamIsAhead
    <3>2. Take(cursor + 1, "watching") /\ cursor' = cursor + 1
          /\ UNCHANGED <<latest, valid, secret, qgs, newest>>
      BY <1>6, <2>2 DEF Event
    <3> QED BY <3>1, <3>2, TakeKeepsInv
  <2> QED BY <2>1, <2>2
<1>7. CASE FinishWrite
  BY <1>7 DEF FinishWrite, TypeOK, SeenIsWritten, NeverRollsBack, StreamIsAhead, Forgetful, Phase, Nothing
<1>8. CASE WatchError
  BY <1>8, StreamStart DEF WatchError, TypeOK, SeenIsWritten, NeverRollsBack, StreamIsAhead, Forgetful
<1>9. CASE WriteFails \/ Stop
  BY <1>9, DownKeepsInv DEF WriteFails, Stop
<1>10. CASE Start
  BY <1>10 DEF Start, TypeOK, SeenIsWritten, NeverRollsBack, StreamIsAhead, Forgetful, Phase
<1>11. CASE ReplacePod
  <2>1. phase = "down" /\ file' = NoFile /\ qgs' = FALSE
        /\ UNCHANGED <<latest, valid, secret, phase, lastSeen, cursor, writing, newest>>
    BY <1>11 DEF ReplacePod, processVars
  <2>2. TypeOK'
    BY <2>1 DEF TypeOK
  <2>3. NeverRollsBack'
    BY <2>1, FileKinds DEF NeverRollsBack
  <2>4. lastSeen = 0
    BY <2>1 DEF Forgetful
  <2> QED BY <2>1, <2>2, <2>3, <2>4 DEF TypeOK, SeenIsWritten, StreamIsAhead, Forgetful
<1>12. CASE CacheReady
  BY <1>12 DEF CacheReady, TypeOK, SeenIsWritten, NeverRollsBack, StreamIsAhead, Forgetful, processVars
<1>13. CASE RestartPod
  BY <1>13 DEF RestartPod, TypeOK, SeenIsWritten, NeverRollsBack, StreamIsAhead, Forgetful, processVars
<1>14. CASE UNCHANGED vars
  BY <1>14 DEF vars, processVars, TypeOK, SeenIsWritten, NeverRollsBack, StreamIsAhead, Forgetful
<1> QED
  BY <1>1, <1>2, <1>3, <1>4, <1>5, <1>6, <1>7, <1>8, <1>9, <1>10, <1>11, <1>12, <1>13,
     <1>14
     DEF Next, Watcher

\* What the watcher knows, what it has written and where its stream is stay in step, through
\* restarts, failed writes, relists and replaced pods.
THEOREM Invariance == Spec => []Inv
<1>1. Init => Inv
  BY InvInit
<1>2. Inv /\ [Next]_vars => Inv'
  BY InvStep
<1> QED BY <1>1, <1>2, PTL DEF Spec

\* Every variable of the watcher keeps its type.
THEOREM TypeCorrect == Spec => []TypeOK
<1>1. Inv => TypeOK
  BY DEF Inv
<1> QED BY <1>1, Invariance, PTL

\* A version that will be skipped as processed is in the cache file.
THEOREM SkippedIsWritten == Spec => []SeenIsWritten
<1>1. Inv => SeenIsWritten
  BY DEF Inv
<1> QED BY <1>1, Invariance, PTL

\* The cache file never goes back to an older version of the secret.
THEOREM NoRollback == Spec => []NeverRollsBack
<1>1. Inv => NeverRollsBack
  BY DEF Inv
<1> QED BY <1>1, Invariance, PTL

\* The stream never delivers a version older than the newest one written.
THEOREM NothingOldToCome == Spec => []StreamIsAhead
<1>1. Inv => StreamIsAhead
  BY DEF Inv
<1> QED BY <1>1, Invariance, PTL

\* A watcher has caught up when the last event has been delivered: either it wrote the version
\* then, or skipped it as processed, and then it is in the file.
LEMMA CaughtUpStep == Inv /\ CaughtUp /\ [Next]_vars => CaughtUp'
<1> SUFFICES ASSUME Inv, CaughtUp, [Next]_vars PROVE CaughtUp'
  OBVIOUS
<1> USE DEF Inv
<1>1. ASSUME NEW isValid \in BOOLEAN, Publish(isValid) PROVE CaughtUp'
  BY <1>1 DEF Publish, CaughtUp, TypeOK, processVars
<1>2. CASE Delete
  BY <1>2 DEF Delete, CaughtUp, TypeOK, processVars
<1>3. CASE InitialRead
  <2>1. phase' \in {"writing", "connecting"}
    BY <1>3 DEF InitialRead, Take
  <2> QED
    BY <2>1 DEF CaughtUp
<1>4. CASE Connect \/ WatchError
  <2>1. cursor' = StreamFromList /\ UNCHANGED <<latest, valid, secret>>
    BY <1>4 DEF Connect, WatchError
  <2>2. secret \in valid => secret = latest /\ StreamFromList = latest - 1
    BY DEF TypeOK, StreamFromList
  <2> QED
    BY <2>1, <2>2 DEF CaughtUp, TypeOK
<1>5. CASE Event
  <2>1. phase = "watching" /\ cursor' = cursor + 1 /\ UNCHANGED <<latest, valid, secret>>
    BY <1>5 DEF Event
  <2>2. CASE Processed(cursor + 1)
    <3>1. lastSeen = cursor + 1 /\ UNCHANGED <<phase, file>>
      BY <1>5, <2>2 DEF Event, Processed
    <3>2. secret \in valid => secret = latest
      BY DEF TypeOK
    <3> QED
      BY <2>1, <3>1, <3>2 DEF CaughtUp, SeenIsWritten
  <2>3. CASE ~Processed(cursor + 1)
    <3>1. cursor + 1 \in valid => phase' = "writing"
      BY <1>5, <2>3 DEF Event, Take, WorthWriting
    <3>2. secret \in valid => secret = latest
      BY DEF TypeOK
    <3> QED
      BY <2>1, <3>1, <3>2 DEF CaughtUp
  <2> QED
    BY <2>2, <2>3
<1>6. CASE FinishWrite
  <2>1. /\ phase = "writing" /\ phase' = writing.next /\ file' = writing.version
        /\ UNCHANGED <<latest, valid, secret, cursor>>
    BY <1>6 DEF FinishWrite
  <2>2. writing.next = "watching" => cursor = writing.version
    BY <2>1 DEF StreamIsAhead
  <2>3. secret \in valid => secret = latest
    BY DEF TypeOK
  <2> QED
    BY <2>1, <2>2, <2>3 DEF CaughtUp
<1>7. CASE InitialReadFails \/ WriteFails \/ Stop \/ Start
  <2>1. phase' # "watching"
    BY <1>7 DEF InitialReadFails, WriteFails, Stop, Down, Start
  <2> QED
    BY <2>1 DEF CaughtUp
<1>8. CASE ReplacePod
  <2>1. phase' = "down"
    BY <1>8 DEF ReplacePod, processVars
  <2> QED
    BY <2>1 DEF CaughtUp
<1>9. CASE RestartPod \/ CacheReady \/ UNCHANGED vars
  BY <1>9 DEF RestartPod, CacheReady, vars, processVars, CaughtUp
<1> QED
  BY <1>1, <1>2, <1>3, <1>4, <1>5, <1>6, <1>7, <1>8, <1>9 DEF Next, Watcher

\* When every event has been delivered, the cache file holds the secret.
THEOREM NothingMissed == Spec => []CaughtUp
<1>1. Init => CaughtUp
  BY DEF Init, CaughtUp
<1> QED BY <1>1, CaughtUpStep, Invariance, PTL DEF Spec

=============================================================================
