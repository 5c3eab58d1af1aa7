------------------------------ MODULE Registrar ------------------------------
(***************************************************************************)
(* The registrar (`pck-cert-tool register-platforms`): a Kubernetes        *)
(* controller that turns every platform-data secret into a `<id>-pck`      *)
(* secret holding the platform's certificates, and an entry of the shared  *)
(* `piid-index` secret.                                                    *)
(*                                                                         *)
(* A platform is named by its QE ID, the name of its platform-data secret. *)
(* The three fields sent to Intel PCS are one value of Data; the           *)
(* fingerprint of a request, a SHA-256 over its length-prefixed fields, is *)
(* taken to tell different requests apart, so it is that value itself.     *)
(*                                                                         *)
(* Each reconciliation of a platform is a run that takes one step per      *)
(* awaited call, so that everything else may happen between two of them:   *)
(* other runs, watch events, edits by nodes and administrators, a crash.   *)
(*                                                                         *)
(* Durations are countdowns.  `pause` is what `until - now` would be, and  *)
(* `requeue` holds the time left until the controller runs a platform      *)
(* again; Tick lets one unit of time go by.                                *)
(***************************************************************************)
EXTENDS Integers, FiniteSets

CONSTANTS
    Platform,                     \* QE IDs of the platforms
    Data,                         \* valid registration inputs: manifest, PCE ID, CPU SVN
    Malformed,                    \* secret contents that prepare_registration refuses
    NoSecret,                     \* the secret does not exist
    Damaged,                      \* a -pck secret pck_secret_is_valid cannot use
    Never,                        \* the controller has no run planned
    MAX_CONCURRENT_REGISTRATIONS,
    REGISTRATION_RETRY_DELAY,
    K8S_API_WATCH_ERROR_BACKOFF,
    RetryAfter,                   \* delays parse_retry_after yields for a 429 answer
    Refusable,                    \* inputs PCS may answer with a 4xx status
    Edited,                       \* platforms whose platform-data secret changes
    Tampered                      \* platforms whose -pck secret others may change

ASSUME PlatformAssumption == IsFiniteSet(Platform) /\ Edited \subseteq Platform
                                                    /\ Tampered \subseteq Platform

ASSUME DataAssumption ==
    /\ Refusable \subseteq Data
    /\ {Malformed, NoSecret, Damaged} \cap Data = {}
    /\ Malformed # NoSecret
    /\ {NoSecret, Damaged} \cap
          [certificates : Data, fingerprint : Data, expired : BOOLEAN] = {}

ASSUME DelayAssumption ==
    /\ MAX_CONCURRENT_REGISTRATIONS \in Nat \ {0}
    /\ REGISTRATION_RETRY_DELAY \in Nat
    /\ K8S_API_WATCH_ERROR_BACKOFF \in Nat
    /\ RetryAfter \subseteq Nat
    /\ Never \notin Nat

VARIABLES
    platformData,  \* the platform-data secrets in the API server
    pck,           \* the -pck secrets in the API server
    index,         \* the piid-index secret: the inputs each entry's PIID came with
    phase,         \* the registrar process: "up", "stopping" after SIGTERM, "down"
    store,         \* the controller's copy of the platform-data secrets
    requeue,       \* the controller's scheduler: time left until each platform's next run
    run,           \* how far the run of each platform has come, and with which inputs
    pause,         \* PcsPause: time left until PCS may be asked again
    refused,       \* history: the inputs PCS refused in the platform's last run
    damaged,       \* history: platforms whose -pck secret others changed since it was written
    held           \* history: time left of the last Retry-After PCS gave for the platform

apiVars     == <<platformData, pck, index>>
processVars == <<phase, store, requeue, run, pause>>
historyVars == <<refused, damaged, held>>
vars        == <<platformData, pck, index, phase, store, requeue, run, pause,
                 refused, damaged, held>>

-----------------------------------------------------------------------------
(***************************************************************************)
(* Values.                                                                 *)
(***************************************************************************)

SecretContents == Data \cup {Malformed, NoSecret}

PckSecret == [certificates : Data, fingerprint : Data, expired : BOOLEAN]

Delay == Nat \cup {Never}

Stage == {"idle", "validate", "check_pause", "fetch_certs", "fetch_tcb",
          "write_pck", "write_index"}

\* The stages from the reading of the -pck secret to its writing.
BeforeWrite == {"check_pause", "fetch_certs", "fetch_tcb", "write_pck"}

Idle == [at |-> "idle", data |-> NoSecret]

\* The runs that hold one of the controller's slots.
InFlight == {p \in Platform : run[p] # Idle}

\* The runs with a request to Intel PCS on its way.
AskingPcs == {p \in Platform : run[p].at \in {"fetch_certs", "fetch_tcb"}}

-----------------------------------------------------------------------------
(***************************************************************************)
(* Helpers.                                                                *)
(***************************************************************************)

\* A request for an earlier run replaces the planned one, a later one is dropped.
Sooner(planned, delay) ==
    IF planned = Never \/ (delay # Never /\ delay < planned) THEN delay ELSE planned

\* The expiration compared the wrong way round.
ValidOnceExpired(secret, data) ==
    /\ secret \in PckSecret
    /\ secret.fingerprint = data
    /\ secret.expired

\* Any secret that has not expired is kept, whatever it was made from.
ValidIgnoringFingerprint(secret, data) == secret \in PckSecret /\ ~secret.expired

\* pck_secret_is_valid: present, made from these inputs, and not expired.
PckSecretIsValid(secret, data) ==
    /\ secret \in PckSecret
    /\ secret.fingerprint = data
    /\ ~secret.expired

\* A pause that is overwritten by the next one.
PauseOverwritten(current, duration) == duration

\* PcsPause::pause: a pause never becomes shorter.
PauseFor(current, duration) == IF duration > current THEN duration ELSE current

\* A deadline that has passed and still counts.
LessPastZero(delay) == IF delay = Never THEN delay ELSE delay - 1

\* The time left after one more unit of it: a deadline that is reached has nothing left.
Less(delay) == IF delay = Never \/ delay = 0 THEN delay ELSE delay - 1

\* An error policy that waits for a change of the secret after any error.
AwaitChangeAfterError(delay) == Never

\* registration_error_policy: when the controller runs a failed platform again.
ErrorPolicy(delay) == delay

-----------------------------------------------------------------------------
(***************************************************************************)
(* The environment: nodes writing platform-data secrets, administrators,   *)
(* time.                                                                   *)
(***************************************************************************)

\* A node's get-platforms run, or anybody else, writes the platform-data secret.
PutPlatformData(p, contents) ==
    /\ p \in Edited
    /\ platformData[p] # contents
    /\ platformData' = [platformData EXCEPT ![p] = contents]
    /\ UNCHANGED <<pck, index, processVars, historyVars>>

\* Somebody deletes a -pck secret, or breaks its annotations or its contents.
DamagePck(p, remains) ==
    /\ p \in Tampered
    /\ pck[p] # remains
    /\ pck' = [pck EXCEPT ![p] = remains]
    /\ damaged' = damaged \cup {p}
    /\ UNCHANGED <<platformData, index, processVars, refused, held>>

\* The expiration time recorded on a -pck secret passes.
Expire(p) ==
    /\ pck[p] \in PckSecret
    /\ ~pck[p].expired
    /\ pck' = [pck EXCEPT ![p].expired = TRUE]
    /\ UNCHANGED <<platformData, index, processVars, historyVars>>

\* Time passes.
Tick ==
    /\ requeue' = [p \in Platform |-> Less(requeue[p])]
    /\ pause' = Less(pause)
    /\ held' = [p \in Platform |-> Less(held[p])]
    /\ UNCHANGED <<apiVars, phase, store, run, refused, damaged>>

-----------------------------------------------------------------------------
(***************************************************************************)
(* The controller: watching, planning and starting runs.                   *)
(***************************************************************************)

\* The watch delivers the present state of a secret: a change, the initial list, a
\* relist, or an edit that leaves the data alone.  Deletions plan no run.
WatchEvent(p) ==
    /\ phase = "up"
    /\ store' = [store EXCEPT ![p] = platformData[p]]
    /\ requeue' = IF platformData[p] = NoSecret THEN requeue
                  ELSE [requeue EXCEPT ![p] = Sooner(requeue[p], 0)]
    /\ UNCHANGED <<apiVars, phase, run, pause, historyVars>>

\* A controller that is told to stop and still starts what is due.
CanStartWhileStopping(p) ==
    /\ phase # "down"
    /\ requeue[p] = 0
    /\ run[p] = Idle
    /\ Cardinality(InFlight) < MAX_CONCURRENT_REGISTRATIONS

\* A platform's run may start: it is due, it has no run and a slot is free.
CanStart(p) ==
    /\ phase = "up"
    /\ requeue[p] = 0
    /\ run[p] = Idle
    /\ Cardinality(InFlight) < MAX_CONCURRENT_REGISTRATIONS

\* process_platform_secret begins: the request is built from the stored secret.
StartRun(p) ==
    /\ CanStart(p)
    /\ store[p] \in Data
    /\ requeue' = [requeue EXCEPT ![p] = Never]
    /\ run' = [run EXCEPT ![p] = [at |-> "validate", data |-> store[p]]]
    /\ refused' = [refused EXCEPT ![p] = NoSecret]
    /\ UNCHANGED <<apiVars, phase, store, pause, damaged, held>>

\* A secret that is gone or malformed: nothing to do until it changes.
RefuseRun(p) ==
    /\ CanStart(p)
    /\ store[p] \notin Data
    /\ requeue' = [requeue EXCEPT ![p] = Never]
    /\ UNCHANGED <<apiVars, phase, store, run, pause, historyVars>>

-----------------------------------------------------------------------------
(***************************************************************************)
(* A run: process_platform_secret and register_platform.                   *)
(***************************************************************************)

\* The run ends and the platform is run again after the delay, or Never.
EndRun(p, delay) ==
    /\ run' = [run EXCEPT ![p] = Idle]
    /\ requeue' = [requeue EXCEPT ![p] = Sooner(requeue[p], delay)]

\* The run goes on to its next call.
GoTo(p, stage) ==
    /\ run' = [run EXCEPT ![p].at = stage]
    /\ UNCHANGED requeue

\* The -pck secret is read: the run ends if it is still good.
ValidatePck(p) ==
    /\ run[p].at = "validate"
    /\ IF PckSecretIsValid(pck[p], run[p].data)
       THEN EndRun(p, Never)
       ELSE GoTo(p, "check_pause")
    /\ UNCHANGED <<apiVars, phase, store, pause, historyVars>>

\* The -pck secret cannot be read.
ValidateFails(p) ==
    /\ run[p].at = "validate"
    /\ EndRun(p, ErrorPolicy(K8S_API_WATCH_ERROR_BACKOFF))
    /\ UNCHANGED <<apiVars, phase, store, pause, historyVars>>

\* How long a run met by a pause waits, if it forgot the pause is still on.
DeferNothing(remaining) == Never

\* A run met by a pause waits until the pause is over.
DeferFor(remaining) == remaining

\* PcsPause::remaining, and if there is none the first request to PCS.
CheckPause(p) ==
    /\ run[p].at = "check_pause"
    /\ IF pause > 0
       THEN EndRun(p, DeferFor(pause))
       ELSE GoTo(p, "fetch_certs")
    /\ UNCHANGED <<apiVars, phase, store, pause, historyVars>>

\* PCS answers the certificate request, the certificates verify, and TCB Info is asked for.
CertsFetched(p) ==
    /\ run[p].at = "fetch_certs"
    /\ GoTo(p, "fetch_tcb")
    /\ UNCHANGED <<apiVars, phase, store, pause, historyVars>>

\* PCS answers with TCB Info, and it verifies.
TcbInfoFetched(p) ==
    /\ run[p].at = "fetch_tcb"
    /\ GoTo(p, "write_pck")
    /\ UNCHANGED <<apiVars, phase, store, pause, historyVars>>

\* PCS answers 429: every registration is paused, and this one retried after the delay.
RateLimited(p, delay) ==
    /\ p \in AskingPcs
    /\ pause' = PauseFor(pause, delay)
    /\ EndRun(p, ErrorPolicy(delay))
    /\ held' = [held EXCEPT ![p] = delay]
    /\ UNCHANGED <<apiVars, phase, store, refused, damaged>>

\* PCS answers with another 4xx: the platform waits for its secret to change.
Rejected(p) ==
    /\ p \in AskingPcs
    /\ run[p].data \in Refusable
    /\ EndRun(p, Never)
    /\ refused' = [refused EXCEPT ![p] = run[p].data]
    /\ UNCHANGED <<apiVars, phase, store, pause, damaged, held>>

\* Anything else fails: PCS is unreachable, answers 5xx or with data that does not verify, or the
\* API server rejects the write of the -pck secret or, with that secret written, of the index.
RegistrationFails(p) ==
    /\ run[p].at \in {"fetch_certs", "fetch_tcb", "write_pck", "write_index"}
    /\ EndRun(p, ErrorPolicy(REGISTRATION_RETRY_DELAY))
    /\ UNCHANGED <<apiVars, phase, store, pause, historyVars>>

\* The fingerprint of the secret as the controller knows it now, not of what was sent.
FingerprintOfLatest(p) == store[p]

\* platform_data_fingerprint: taken from the request before it is sent.
Fingerprint(p) == run[p].data

\* The -pck secret is in the API server from now on.
ApplyPck(p) ==
    /\ pck' = [pck EXCEPT ![p] = [certificates |-> run[p].data,
                                  fingerprint |-> Fingerprint(p), expired |-> FALSE]]
    /\ damaged' = damaged \ {p}

WritePck(p) ==
    /\ run[p].at = "write_pck"
    /\ ApplyPck(p)
    /\ GoTo(p, "write_index")
    /\ UNCHANGED <<platformData, index, phase, store, pause, refused, held>>

\* The -pck secret is written, but the answer of the API server is lost.
WritePckUnanswered(p) ==
    /\ run[p].at = "write_pck"
    /\ ApplyPck(p)
    /\ EndRun(p, ErrorPolicy(REGISTRATION_RETRY_DELAY))
    /\ UNCHANGED <<platformData, index, phase, store, pause, refused, held>>

\* patch_piid_index, the last step of a registration.
WriteIndex(p) ==
    /\ run[p].at = "write_index"
    /\ index' = [index EXCEPT ![p] = run[p].data]
    /\ EndRun(p, Never)
    /\ UNCHANGED <<platformData, pck, phase, store, pause, historyVars>>

\* The index entry is written, but the answer of the API server is lost.
WriteIndexUnanswered(p) ==
    /\ run[p].at = "write_index"
    /\ index' = [index EXCEPT ![p] = run[p].data]
    /\ EndRun(p, ErrorPolicy(REGISTRATION_RETRY_DELAY))
    /\ UNCHANGED <<platformData, pck, phase, store, pause, historyVars>>

-----------------------------------------------------------------------------
(***************************************************************************)
(* The process.                                                            *)
(***************************************************************************)

\* A process that starts: nothing stored, nothing planned, no pause.
FreshProcess ==
    /\ store' = [p \in Platform |-> NoSecret]
    /\ requeue' = [p \in Platform |-> Never]
    /\ run' = [p \in Platform |-> Idle]
    /\ pause' = 0
    /\ held' = [p \in Platform |-> 0]

\* SIGTERM: no watching and no new runs, the runs in flight go on.
Terminate ==
    /\ phase = "up"
    /\ phase' = "stopping"
    /\ UNCHANGED <<apiVars, store, requeue, run, pause, historyVars>>

\* The last run in flight has ended.
Exit ==
    /\ phase = "stopping"
    /\ InFlight = {}
    /\ phase' = "down"
    /\ FreshProcess
    /\ UNCHANGED <<apiVars, refused, damaged>>

\* The process is killed between any two steps.
Crash ==
    /\ phase # "down"
    /\ phase' = "down"
    /\ FreshProcess
    /\ UNCHANGED <<apiVars, refused, damaged>>

\* The Deployment starts the container again.
Restart ==
    /\ phase = "down"
    /\ phase' = "up"
    /\ UNCHANGED <<apiVars, store, requeue, run, pause, historyVars>>

-----------------------------------------------------------------------------
(***************************************************************************)
(* The specification.                                                      *)
(***************************************************************************)

Init ==
    /\ platformData \in [Platform -> SecretContents]
    /\ pck = [p \in Platform |-> NoSecret]
    /\ index = [p \in Platform |-> NoSecret]
    /\ phase = "down"
    /\ store = [p \in Platform |-> NoSecret]
    /\ requeue = [p \in Platform |-> Never]
    /\ run = [p \in Platform |-> Idle]
    /\ pause = 0
    /\ refused = [p \in Platform |-> NoSecret]
    /\ damaged = {}
    /\ held = [p \in Platform |-> 0]

Environment(p) ==
    \/ \E contents \in SecretContents : PutPlatformData(p, contents)
    \/ \E remains \in {NoSecret, Damaged} : DamagePck(p, remains)
    \/ Expire(p)

Controller(p) == WatchEvent(p) \/ StartRun(p) \/ RefuseRun(p)

RunStep(p) ==
    \/ ValidatePck(p) \/ ValidateFails(p)
    \/ CheckPause(p)
    \/ CertsFetched(p) \/ TcbInfoFetched(p)
    \/ \E delay \in RetryAfter : RateLimited(p, delay)
    \/ Rejected(p)
    \/ RegistrationFails(p)
    \/ WritePck(p) \/ WritePckUnanswered(p)
    \/ WriteIndex(p) \/ WriteIndexUnanswered(p)

Process == Terminate \/ Exit \/ Crash \/ Restart

Next ==
    \/ Tick
    \/ Process
    \/ \E p \in Platform : Environment(p) \/ Controller(p) \/ RunStep(p)

Spec == Init /\ [][Next]_vars

(***************************************************************************)
(* Fairness.  The container is restarted, time passes, changes are         *)
(* delivered, and a run in flight always comes to the end of the call it   *)
(* waits for: PCS requests have a timeout and API calls are answered.  A   *)
(* run that is due gets a slot: a slot is freed with every end of a run,   *)
(* and the next run of that platform is planned later than the waiting     *)
(* one.  For the outcome of calls: a call that is made over and over again *)
(* succeeds in the end.                                                    *)
(***************************************************************************)
Fairness ==
    /\ WF_vars(Tick)
    /\ WF_vars(Restart)
    /\ WF_vars(Exit)
    /\ \A p \in Platform :
        /\ WF_vars(WatchEvent(p) /\ store[p] # platformData[p])
        /\ SF_vars(StartRun(p) \/ RefuseRun(p))
        /\ WF_vars(RunStep(p))
        /\ SF_vars(ValidatePck(p))
        /\ SF_vars(CertsFetched(p))
        /\ SF_vars(TcbInfoFetched(p))
        /\ SF_vars(WritePck(p))

FairSpec == Spec /\ Fairness

-----------------------------------------------------------------------------
(***************************************************************************)
(* Properties.                                                             *)
(***************************************************************************)

\* Every variable has its type; a run carries inputs exactly while it is in flight.
TypeOK ==
    /\ platformData \in [Platform -> SecretContents]
    /\ pck \in [Platform -> PckSecret \cup {NoSecret, Damaged}]
    /\ index \in [Platform -> Data \cup {NoSecret}]
    /\ phase \in {"up", "stopping", "down"}
    /\ store \in [Platform -> SecretContents]
    /\ requeue \in [Platform -> Delay]
    /\ run \in [Platform -> {Idle} \cup [at : Stage \ {"idle"}, data : Data]]
    /\ pause \in Nat
    /\ refused \in [Platform -> Data \cup {NoSecret}]
    /\ damaged \subseteq Platform
    /\ held \in [Platform -> Nat]

\* The registrar has no reason to come back to the platform.
Quiescent(p) == phase = "up" /\ requeue[p] = Never /\ run[p] = Idle

\* The -pck secret of the platform holds the certificates PCS issued for these inputs,
\* unless somebody else changed it.
Served(p, d) ==
    p \in damaged \/ (pck[p] \in PckSecret /\ pck[p].certificates = d)

\* No platform is forgotten: when the controller has no run planned for a platform it knows,
\* and none under way, its -pck secret certifies the inputs the controller knows, or PCS
\* refused them.  It is every return of process_platform_secret, with the requeue it asks
\* for, against events that come while a run is under way, pauses, errors and restarts.
NoPlatformForgotten ==
    \A p \in Platform :
        Quiescent(p) /\ store[p] \in Data =>
            Served(p, store[p]) \/ refused[p] = store[p]

(***************************************************************************)
(* The inductive invariant behind the safety properties, one part per      *)
(* hazard, each about a single platform.                                   *)
(***************************************************************************)

\* The fingerprint of a -pck secret tells which inputs its certificates are for.
FingerprintTruthful(p) ==
    pck[p] \in PckSecret => pck[p].fingerprint = pck[p].certificates

\* A run that works on superseded inputs is followed by another one.
SupersededRunRepeats(p) ==
    run[p] # Idle /\ requeue[p] = Never /\ store[p] \in Data => run[p].data = store[p]

\* A platform with nothing planned has been taken care of.
IdleIsSettled(p) ==
    run[p] = Idle /\ requeue[p] = Never /\ store[p] \in Data =>
        Served(p, store[p]) \/ refused[p] = store[p]

\* The index entry of a platform is written after its -pck secret.
IndexAfterPck(p) == run[p].at = "write_index" => Served(p, run[p].data)

\* Once a run has found the -pck secret wanting, nobody else makes it good, through all the
\* calls until the run writes it.
WantingStaysWanting(p) ==
    run[p].at \in BeforeWrite => ~PckSecretIsValid(pck[p], run[p].data)

\* The pause covers every delay PCS has asked for.
PauseCoversRetryAfter(p) == held[p] <= pause

Settled(p) ==
    /\ FingerprintTruthful(p)
    /\ SupersededRunRepeats(p)
    /\ IdleIsSettled(p)
    /\ IndexAfterPck(p)
    /\ WantingStaysWanting(p)
    /\ PauseCoversRetryAfter(p)

\* Nothing a run, an event, an error or a restart does loses track of a platform: the state
\* of its run, the plan to run it again, its -pck secret and the pause always fit together.
Inv == \A p \in Platform : Settled(p)

(***************************************************************************)
(* Action properties and liveness.                                         *)
(***************************************************************************)

\* Retry-After is respected: as long as a delay that PCS asked for has not passed, for
\* whichever platform it was, no run goes past the pause check, in the same process.
RetryAfterRespected ==
    [][\A p \in Platform :
        run[p].at # "fetch_certs" /\ run'[p].at = "fetch_certs" =>
            \A q \in Platform : held[q] = 0]_vars

\* No wasted request: PCS is not asked again for a platform whose -pck secret is good and
\* made from the same inputs, whatever was relisted, relabelled, retried or restarted.
NoRedundantRegistration ==
    [][\A p \in Platform :
        run[p].at # "fetch_certs" /\ run'[p].at = "fetch_certs" =>
            ~(/\ pck[p] \in PckSecret
              /\ pck[p].certificates = run[p].data
              /\ ~pck[p].expired)]_vars

\* The registrar keeps the promise of the issuer: through stale stores, runs that overlap with
\* edits, retries of answered calls and restarts, certificates are issued only for inputs that
\* were read from the platform's secret, labelled with these, and never in place of good ones.
Issuer == INSTANCE PckIssuer WITH
    known <- [p \in Platform |-> {store[p], run[p].data} \cap Data]

ImplementsIssuer == Issuer!IssuerSpec

\* The promise to a single platform, which is all that its node has to do with.
IssuerOf(p) == INSTANCE PckIssuer WITH
    Platform <- {p},
    platformData <- [q \in {p} |-> platformData[q]],
    pck <- [q \in {p} |-> pck[q]],
    known <- [q \in {p} |-> {store[q], run[q].data} \cap Data]

\* What the comment on PIID_INDEX_SECRET_NAME says the index is: once nothing is left to do
\* for a registered platform, its entry goes with the certificates in its -pck secret.
IndexCoversRegistered ==
    \A p \in Platform :
        /\ Quiescent(p)
        /\ p \notin damaged
        /\ pck[p] \in PckSecret
        /\ store[p] = pck[p].certificates
        => index[p] = pck[p].certificates

\* What the comment on PcsPause says it does: no request is sent to PCS during a pause,
\* neither the first of a registration nor the one for TCB Info.
PauseHoldsBackAllRequests ==
    [][\A p \in Platform :
        run'[p].at \in {"fetch_certs", "fetch_tcb"} /\ run'[p].at # run[p].at =>
            pause = 0]_vars

\* Every platform whose inputs stay the same and are not refused by PCS gets and keeps a -pck
\* secret that certifies them, if the registrar stays up and rate limiting ends.
EventuallyServed ==
    \A p \in Platform : \A d \in Data \ Refusable :
        (/\ <>[](phase = "up" /\ pause = 0)
         /\ <>[](platformData[p] = d)
         /\ <>[](p \notin damaged))
        => <>[](pck[p] \in PckSecret /\ pck[p].certificates = d)

\* A registrar that is told to stop stops: every run in flight ends without a new one.
ShutdownCompletes == phase = "stopping" ~> phase = "down"

=============================================================================
