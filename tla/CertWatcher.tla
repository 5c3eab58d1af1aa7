----------------------------- MODULE CertWatcher -----------------------------
(***************************************************************************)
(* The certificate watcher of one node (`pck-cert-tool get-certificates`,  *)
(* the sidecar pck-certs-watcher): it copies the certificates of the       *)
(* node's `<id>-pck` secret into the QPL cache file, from which tdx-qgs    *)
(* reads them.                                                             *)
(*                                                                         *)
(* The versions of the secret are numbered in the order in which they were *)
(* published, as resource versions are; 0 stands for none.  The watch      *)
(* delivers versions in this order, so the stream is the number of the     *)
(* last version it has delivered.  The file is written in two steps, since *)
(* creating it empties it, and the process may die between them.           *)
(***************************************************************************)
EXTENDS Integers

CONSTANTS
    MaxVersion,     \* bound on the versions published
    NoFile,         \* the cache file does not exist
    Torn            \* the cache file is empty or cut off

ASSUME VersionAssumption == MaxVersion \in Nat
ASSUME FileAssumption == NoFile \notin Nat /\ Torn \notin Nat /\ NoFile # Torn

VARIABLES
    latest,     \* the latest version of the secret that was published
    valid,      \* the versions that hold a valid cache blob
    secret,     \* the version in the API server, 0 if the secret is deleted
    phase,      \* what the watcher is at
    lastSeen,   \* last_seen_resource_version, 0 for None
    cursor,     \* the watch stream: the last version delivered
    writing,    \* the version being written, and what follows
    file,       \* the version in the cache file
    qgs,        \* whether tdx-qgs has been started
    newest      \* history: the newest version ever written to the file

processVars == <<phase, lastSeen, cursor, writing>>
vars == <<latest, valid, secret, phase, lastSeen, cursor, writing, file, qgs, newest>>

Phase == {"down", "starting", "connecting", "watching", "writing"}

Nothing == [version |-> 0, next |-> "watching"]

-----------------------------------------------------------------------------
(***************************************************************************)
(* The API server.                                                         *)
(***************************************************************************)

\* The registrar, or an external system, writes the secret.
Publish(isValid) ==
    /\ latest < MaxVersion
    /\ latest' = latest + 1
    /\ secret' = latest + 1
    /\ valid' = IF isValid THEN valid \cup {latest + 1} ELSE valid
    /\ UNCHANGED <<processVars, file, qgs, newest>>

\* Deleting the secret is no event for the watcher, which only sees applied objects.
Delete ==
    /\ secret # 0
    /\ secret' = 0
    /\ UNCHANGED <<latest, valid, processVars, file, qgs, newest>>

\* A stream that starts with what is published next, without a list.
StreamFromNow == latest

\* A stream that replays every version there ever was.
StreamFromStart == 0

\* A stream that starts at the secret, present or not.
StreamFromSecret == secret - 1

\* Where the stream starts after the secret was listed: its present version comes first.
StreamFromList == IF secret # 0 THEN secret - 1 ELSE latest

-----------------------------------------------------------------------------
(***************************************************************************)
(* Writing the file.                                                       *)
(***************************************************************************)

\* Write whatever the secret holds.
WorthWritingAnyway(version) == version # 0

\* write_certificate_from_secret: a secret without a valid blob is left alone.
WorthWriting(version) == version \in valid

\* A version is taken up: the file is created, which empties it, or there is nothing to do.
Take(version, next) ==
    IF WorthWriting(version)
    THEN /\ phase' = "writing"
         /\ writing' = [version |-> version, next |-> next]
         /\ file' = Torn
         /\ UNCHANGED lastSeen
    ELSE /\ phase' = next
         /\ lastSeen' = version
         /\ UNCHANGED <<writing, file>>

\* The file is complete, and only now the version counts as seen.
FinishWrite ==
    /\ phase = "writing"
    /\ phase' = writing.next
    /\ file' = writing.version
    /\ lastSeen' = writing.version
    /\ newest' = IF writing.version > newest THEN writing.version ELSE newest
    /\ writing' = Nothing
    /\ UNCHANGED <<latest, valid, secret, cursor, qgs>>

\* The process ends, and with it what it knows.
Down ==
    /\ phase' = "down"
    /\ lastSeen' = 0
    /\ cursor' = 0
    /\ writing' = Nothing
    /\ UNCHANGED <<latest, valid, secret, file, qgs, newest>>

\* The write fails, which is logged and otherwise taken for done.
WriteFailureLogged ==
    /\ phase = "writing"
    /\ phase' = writing.next
    /\ lastSeen' = writing.version
    /\ writing' = Nothing
    /\ UNCHANGED <<latest, valid, secret, cursor, file, qgs, newest>>

\* The write fails, for one because the volume is full, which ends the process.
WriteFails == phase = "writing" /\ Down

-----------------------------------------------------------------------------
(***************************************************************************)
(* The watcher.                                                            *)
(***************************************************************************)

\* The initial read of the secret.
InitialRead ==
    /\ phase = "starting"
    /\ secret # 0
    /\ Take(secret, "connecting")
    /\ UNCHANGED <<latest, valid, secret, cursor, qgs, newest>>

\* The secret is not there, or cannot be read: wait for it.
InitialReadFails ==
    /\ phase = "starting"
    /\ phase' = "connecting"
    /\ UNCHANGED <<latest, valid, secret, lastSeen, cursor, writing, file, qgs, newest>>

\* The watch lists the secret and goes on from there.
Connect ==
    /\ phase = "connecting"
    /\ phase' = "watching"
    /\ cursor' = StreamFromList
    /\ UNCHANGED <<latest, valid, secret, lastSeen, writing, file, qgs, newest>>

\* A version that was processed before is skipped.
Processed(version) == lastSeen # 0 /\ version = lastSeen

\* The stream delivers the next version.
Event ==
    /\ phase = "watching"
    /\ cursor < latest
    /\ cursor' = cursor + 1
    /\ IF Processed(cursor + 1)
       THEN UNCHANGED <<phase, lastSeen, writing, file>>
       ELSE Take(cursor + 1, "watching")
    /\ UNCHANGED <<latest, valid, secret, qgs, newest>>

\* The watch fails, and after the backoff lists the secret anew.  A watch that resumes where
\* it was interrupted has lost nothing, and is no step.
WatchError ==
    /\ phase = "watching"
    /\ cursor' = StreamFromList
    /\ UNCHANGED <<latest, valid, secret, phase, lastSeen, writing, file, qgs, newest>>

-----------------------------------------------------------------------------
(***************************************************************************)
(* The containers.                                                         *)
(***************************************************************************)

\* The sidecar starts, and knows nothing of what it did before.
Start ==
    /\ phase = "down"
    /\ phase' = "starting"
    /\ UNCHANGED <<latest, valid, secret, lastSeen, cursor, writing, file, qgs, newest>>

\* SIGTERM or a kill: the file stays as it is.
Stop == phase # "down" /\ Down

\* The pod is replaced, and its cache volume with it.
ReplacePod ==
    /\ phase = "down"
    /\ file' = NoFile
    /\ qgs' = FALSE
    /\ UNCHANGED <<latest, valid, secret, processVars, newest>>

\* The pod's sandbox is made anew, and its containers with it; its volumes stay.
RestartPod ==
    /\ phase = "down"
    /\ qgs' = FALSE
    /\ UNCHANGED <<latest, valid, secret, processVars, file, newest>>

\* The startup probe of the sidecar, cache-ready, finds the cache directory not empty.
CacheReady ==
    /\ phase # "down"
    /\ ~qgs
    /\ file # NoFile
    /\ qgs' = TRUE
    /\ UNCHANGED <<latest, valid, secret, processVars, file, newest>>

Init ==
    /\ latest = 0
    /\ valid = {}
    /\ secret = 0
    /\ phase = "down"
    /\ lastSeen = 0
    /\ cursor = 0
    /\ writing = Nothing
    /\ file = NoFile
    /\ qgs = FALSE
    /\ newest = 0

Watcher == InitialRead \/ InitialReadFails \/ Connect \/ Event \/ FinishWrite

Next ==
    \/ \E isValid \in BOOLEAN : Publish(isValid)
    \/ Delete
    \/ Watcher
    \/ WatchError \/ WriteFails
    \/ Start \/ Stop \/ ReplacePod \/ RestartPod \/ CacheReady

Spec == Init /\ [][Next]_vars

\* The kubelet restarts the sidecar and runs its startup probe; the watcher itself never
\* waits for anything but the API server and the disk.
FairSpec == Spec /\ WF_vars(Watcher) /\ WF_vars(Start) /\ WF_vars(CacheReady)

-----------------------------------------------------------------------------
(***************************************************************************)
(* Properties.                                                             *)
(***************************************************************************)

TypeOK ==
    /\ latest \in Nat
    /\ valid \subseteq 1..latest
    /\ secret \in {0, latest}
    /\ phase \in Phase
    /\ lastSeen \in 0..latest
    /\ cursor \in 0..latest
    /\ writing \in [version : 0..latest, next : {"connecting", "watching"}]
    /\ file \in Nat \cup {NoFile, Torn}
    /\ qgs \in BOOLEAN
    /\ newest \in 0..latest

\* A version that will be skipped as processed is in the file: the resource version is
\* recorded after the write, through failed writes, restarts and relists.
SeenIsWritten == phase # "writing" /\ lastSeen \in valid => file = lastSeen

\* The file never goes back to an older version than it once held.
NeverRollsBack == file \in Nat => file = newest

\* What the events still to come must be for that.
StreamIsAhead ==
    /\ phase = "watching" => newest <= cursor + 1
    /\ phase = "writing" =>
        /\ newest <= writing.version
        /\ writing.version \in valid
        /\ writing.next = "watching" => cursor = writing.version

\* Nothing is missed: when every event has been delivered the file holds the secret, although
\* versions are published before and after the list, and while another one is written.
CaughtUp == phase = "watching" /\ cursor = latest /\ secret \in valid => file = secret

\* A watcher that is down has seen nothing.
Forgetful == phase = "down" => lastSeen = 0

\* A complete cache file is one version of the secret, the newest the node ever had, and a
\* version counts as seen only when it is that.
Inv == TypeOK /\ SeenIsWritten /\ NeverRollsBack /\ StreamIsAhead /\ Forgetful

\* The file follows the secret: once the secret stays as it is, with valid certificates, and
\* the watcher keeps running, the file holds them for good.
FileFollowsSecret ==
    (/\ <>[](phase # "down" /\ secret # 0 /\ secret \in valid)
     /\ <>[][secret' = secret]_vars)
    => <>[](file = secret)

\* The service starts: certificates that are there to stay bring up tdx-qgs.
QgsStarts ==
    <>[](phase # "down" /\ secret # 0 /\ secret \in valid) => <>qgs

\* What the repository's README says of the cache file: tdx-qgs, once it runs, finds the
\* certificates in it.
QgsHasCertificates == qgs => file \in valid

=============================================================================
