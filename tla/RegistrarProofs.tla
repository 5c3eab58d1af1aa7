--------------------------- MODULE RegistrarProofs ---------------------------
(***************************************************************************)
(* Proofs about the registrar, for every set of platforms and inputs, any  *)
(* number of slots and any delays, and that the registrar implements the   *)
(* issuer of certificates.                                                 *)
(***************************************************************************)
EXTENDS Registrar, TLAPS

\* Less and Sooner stay within the delays, and never forget or invent a planned run.
LEMMA DelayLemma ==
    /\ \A d \in Delay : Less(d) \in Delay /\ (Less(d) = Never <=> d = Never)
    /\ \A d \in Nat : Less(d) \in Nat
    /\ \A a, b \in Delay : Sooner(a, b) \in Delay
                           /\ (Sooner(a, b) = Never <=> a = Never /\ b = Never)
    /\ \A a, b \in Nat : /\ PauseFor(a, b) \in Nat
                         /\ PauseFor(a, b) >= a
                         /\ PauseFor(a, b) >= b
  BY DelayAssumption DEF Less, Sooner, Delay, PauseFor

\* The error policies of a run ask for a delay.
LEMMA PolicyLemma == \A d \in Nat : ErrorPolicy(d) \in Nat /\ ErrorPolicy(d) # Never
  BY DelayAssumption DEF ErrorPolicy

-----------------------------------------------------------------------------
(***************************************************************************)
(* Type correctness.                                                       *)
(***************************************************************************)

\* The registrar starts out typed,
LEMMA TypeInit == Init => TypeOK
  BY DelayAssumption DEF Init, TypeOK, SecretContents, Delay, Idle

\* and every step keeps it typed.
LEMMA TypeNext == TypeOK /\ [Next]_vars => TypeOK'
<1> SUFFICES ASSUME TypeOK, [Next]_vars PROVE TypeOK'
  OBVIOUS
<1> USE DEF TypeOK, apiVars, processVars, historyVars
<1>1. CASE UNCHANGED vars
  BY <1>1 DEF vars
<1>2. CASE Tick
  BY <1>2, DelayLemma DEF Tick
<1>3. CASE Process
  BY <1>3, DelayAssumption DEF Process, Terminate, Exit, Crash, Restart, FreshProcess,
                               SecretContents, Delay, Idle
<1>4. ASSUME NEW p \in Platform, Environment(p) PROVE TypeOK'
  <2>1. ASSUME NEW contents \in SecretContents, PutPlatformData(p, contents) PROVE TypeOK'
    BY <2>1 DEF PutPlatformData
  <2>2. ASSUME NEW remains \in {NoSecret, Damaged}, DamagePck(p, remains) PROVE TypeOK'
    BY <2>2 DEF DamagePck
  <2>3. CASE Expire(p)
    BY <2>3 DEF Expire, PckSecret
  <2> QED
    BY <1>4, <2>1, <2>2, <2>3 DEF Environment
<1>5. ASSUME NEW p \in Platform, Controller(p) PROVE TypeOK'
  <2>1. CASE WatchEvent(p)
    <3>1. Sooner(requeue[p], 0) \in Delay
      BY DelayLemma DEF Delay
    <3> QED
      BY <2>1, <3>1 DEF WatchEvent
  <2>2. CASE StartRun(p)
    BY <2>2 DEF StartRun, Delay, Stage
  <2>3. CASE RefuseRun(p)
    BY <2>3 DEF RefuseRun, Delay
  <2> QED
    BY <1>5, <2>1, <2>2, <2>3 DEF Controller
<1>6. ASSUME NEW p \in Platform, RunStep(p) PROVE TypeOK'
  <2>1. ASSUME NEW d \in Delay, EndRun(p, d)
        PROVE  /\ run' \in [Platform -> {Idle} \cup [at : Stage \ {"idle"}, data : Data]]
               /\ requeue' \in [Platform -> Delay]
    BY <2>1, DelayLemma DEF EndRun
  <2>2. ASSUME NEW stage \in Stage \ {"idle"}, run[p] # Idle, GoTo(p, stage)
        PROVE  /\ run' \in [Platform -> {Idle} \cup [at : Stage \ {"idle"}, data : Data]]
               /\ requeue' \in [Platform -> Delay]
    BY <2>2 DEF GoTo
  <2>3. ASSUME ApplyPck(p), run[p] # Idle
        PROVE  pck' \in [Platform -> PckSecret \cup {NoSecret, Damaged}]
               /\ damaged' \subseteq Platform
    BY <2>3 DEF ApplyPck, PckSecret, Fingerprint
  <2>4. /\ Never \in Delay
        /\ pause \in Delay
        /\ ErrorPolicy(K8S_API_WATCH_ERROR_BACKOFF) \in Delay
        /\ ErrorPolicy(REGISTRATION_RETRY_DELAY) \in Delay
        /\ \A delay \in RetryAfter : delay \in Nat /\ ErrorPolicy(delay) \in Delay
    BY PolicyLemma, DelayAssumption DEF Delay
  <2>5. CASE ValidatePck(p)
    <3>1. run[p] # Idle
      BY <2>5 DEF ValidatePck, Idle
    <3>2. CASE EndRun(p, Never)
      BY <2>5, <3>2, <2>1, <2>4 DEF ValidatePck
    <3>3. CASE GoTo(p, "check_pause")
      BY <2>5, <3>1, <3>3, <2>2 DEF ValidatePck, Stage
    <3> QED
      BY <2>5, <3>2, <3>3 DEF ValidatePck
  <2>6. CASE ValidateFails(p)
    BY <2>6, <2>1, <2>4 DEF ValidateFails
  <2>7. CASE CheckPause(p)
    BY <2>7, <2>1, <2>2, <2>4 DEF CheckPause, DeferFor, Idle, Stage
  <2>8. CASE CertsFetched(p) \/ TcbInfoFetched(p)
    BY <2>8, <2>2 DEF CertsFetched, TcbInfoFetched, Idle, Stage
  <2>9. ASSUME NEW delay \in RetryAfter, RateLimited(p, delay) PROVE TypeOK'
    BY <2>9, <2>1, <2>4, DelayLemma DEF RateLimited
  <2>10. CASE Rejected(p)
    BY <2>10, <2>1, <2>4, DataAssumption DEF Rejected
  <2>11. CASE RegistrationFails(p)
    BY <2>11, <2>1, <2>4 DEF RegistrationFails
  <2>12. CASE WritePck(p)
    <3>1. run[p] # Idle /\ "write_index" \in Stage \ {"idle"}
      BY <2>12 DEF WritePck, Idle, Stage
    <3>2. ApplyPck(p) /\ GoTo(p, "write_index")
      BY <2>12 DEF WritePck
    <3> QED
      BY <2>12, <3>1, <3>2, <2>2, <2>3 DEF WritePck
  <2>13. CASE WritePckUnanswered(p)
    <3>1. run[p] # Idle
      BY <2>13 DEF WritePckUnanswered, Idle
    <3>2. ApplyPck(p) /\ EndRun(p, ErrorPolicy(REGISTRATION_RETRY_DELAY))
      BY <2>13 DEF WritePckUnanswered
    <3> QED
      BY <2>13, <3>1, <3>2, <2>1, <2>3, <2>4 DEF WritePckUnanswered
  <2>14. [index EXCEPT ![p] = run[p].data] \in [Platform -> Data \cup {NoSecret}]
    BY DEF Idle
  <2>15. CASE WriteIndex(p)
    BY <2>15, <2>1, <2>4, <2>14 DEF WriteIndex
  <2>16. CASE WriteIndexUnanswered(p)
    <3>1. EndRun(p, ErrorPolicy(REGISTRATION_RETRY_DELAY))
      BY <2>16 DEF WriteIndexUnanswered
    <3> QED
      BY <2>16, <3>1, <2>1, <2>4, <2>14 DEF WriteIndexUnanswered
  <2> QED
    BY <1>6, <2>5, <2>6, <2>7, <2>8, <2>9, <2>10, <2>11,
       <2>12, <2>13, <2>15, <2>16
       DEF RunStep
<1> QED
  BY <1>1, <1>2, <1>3, <1>4, <1>5, <1>6 DEF Next

\* In every behaviour each variable keeps its type, whatever the number of platforms.
THEOREM TypeCorrect == Spec => []TypeOK
  BY TypeInit, TypeNext, PTL DEF Spec

-----------------------------------------------------------------------------
(***************************************************************************)
(* The inductive invariant Inv.                                            *)
(***************************************************************************)

\* Before any secret is there, every platform is settled.
LEMMA InvInit == Init => Inv
  BY DataAssumption, DelayAssumption
     DEF Init, Inv, Settled, FingerprintTruthful, SupersededRunRepeats, IdleIsSettled,
         IndexAfterPck, WantingStaysWanting, BeforeWrite, PauseCoversRetryAfter, PckSecretIsValid,
         PckSecret, Idle

\* A platform nothing happens to stays settled, even if the pause becomes longer.
LEMMA Untouched ==
  ASSUME TypeOK, NEW q \in Platform, Settled(q),
         pck'[q] = pck[q], store'[q] = store[q], requeue'[q] = requeue[q],
         run'[q] = run[q], refused'[q] = refused[q], held'[q] = held[q],
         q \in damaged' <=> q \in damaged,
         pause' \in Nat, pause' >= pause
  PROVE  Settled(q)'
<1>1. held[q] <= pause => held'[q] <= pause'
  BY DEF TypeOK
<1> QED
  BY <1>1 DEF Settled, FingerprintTruthful, SupersededRunRepeats, IdleIsSettled, IndexAfterPck,
              WantingStaysWanting, BeforeWrite, PauseCoversRetryAfter, Served, PckSecretIsValid

\* A run that ends with the platform planned to run again, whatever it did to its -pck
\* secret, provided the fingerprint is truthful, leaves the platform settled.
LEMMA EndWithRetry ==
  ASSUME TypeOK, TypeOK', NEW p \in Platform, Settled(p), NEW d \in Nat,
         EndRun(p, d), held'[p] <= pause', FingerprintTruthful(p)'
  PROVE  Settled(p)'
<1>1. run'[p] = Idle /\ requeue'[p] = Sooner(requeue[p], d)
  BY DEF EndRun, TypeOK
<1>2. requeue'[p] # Never
  <2>1. d \in Delay /\ d # Never /\ requeue[p] \in Delay
    BY DelayAssumption DEF Delay, TypeOK
  <2> QED
    BY <1>1, <2>1, DelayLemma
<1> QED
  BY <1>1, <1>2 DEF Settled, SupersededRunRepeats, IdleIsSettled, IndexAfterPck,
                    WantingStaysWanting, BeforeWrite, PauseCoversRetryAfter, Idle

\* A run that ends for good leaves the platform settled if the inputs it worked on have been
\* certified or refused.
LEMMA EndForGood ==
  ASSUME TypeOK, TypeOK', NEW p \in Platform, Settled(p), run[p] # Idle,
         EndRun(p, Never), store'[p] = store[p], pck'[p] = pck[p],
         p \in damaged' <=> p \in damaged,
         held'[p] <= pause',
         Served(p, run[p].data) \/ refused'[p] = run[p].data
  PROVE  Settled(p)'
<1>1. run'[p] = Idle /\ requeue'[p] = Sooner(requeue[p], Never)
  BY DEF EndRun, TypeOK
<1>2. requeue'[p] = requeue[p]
  BY <1>1 DEF Sooner
<1>3. IdleIsSettled(p)'
  BY <1>2 DEF Settled, IdleIsSettled, SupersededRunRepeats, Served
<1> QED
  BY <1>1, <1>3 DEF Settled, FingerprintTruthful, SupersededRunRepeats, IndexAfterPck,
                    WantingStaysWanting, BeforeWrite, PauseCoversRetryAfter, Idle

\* A run that goes on to a stage about which nothing is promised leaves the platform settled.
LEMMA GoOn ==
  ASSUME TypeOK, NEW p \in Platform, Settled(p), run[p] # Idle, NEW stage \in Stage,
         GoTo(p, stage), stage \notin {"idle", "write_index"},
         ~PckSecretIsValid(pck[p], run[p].data),
         store'[p] = store[p], pck'[p] = pck[p], held'[p] <= pause'
  PROVE  Settled(p)'
<1>1. run'[p].at = stage /\ run'[p].data = run[p].data /\ requeue' = requeue
  BY DEF GoTo, TypeOK, Idle
<1>2. run'[p] # Idle
  BY <1>1 DEF Idle
<1> QED
  BY <1>1, <1>2 DEF Settled, FingerprintTruthful, SupersededRunRepeats, IdleIsSettled,
                    IndexAfterPck, WantingStaysWanting, BeforeWrite, PauseCoversRetryAfter,
                    PckSecretIsValid

\* What an action about platform p leaves alone of every other platform.
OthersUntouched(p) ==
    /\ \A q \in Platform \ {p} :
        /\ pck'[q] = pck[q] /\ store'[q] = store[q] /\ requeue'[q] = requeue[q]
        /\ run'[q] = run[q] /\ refused'[q] = refused[q] /\ held'[q] = held[q]
        /\ q \in damaged' <=> q \in damaged
    /\ pause' \in Nat /\ pause' >= pause

\* Every action about a platform leaves the others alone.
LEMMA OthersLemma ==
  ASSUME TypeOK, NEW p \in Platform, Environment(p) \/ Controller(p) \/ RunStep(p)
  PROVE  OthersUntouched(p)
<1> USE DEF TypeOK, OthersUntouched, apiVars, processVars, historyVars
<1>1. CASE Environment(p)
  BY <1>1 DEF Environment, PutPlatformData, DamagePck, Expire
<1>2. CASE Controller(p)
  BY <1>2 DEF Controller, WatchEvent, StartRun, RefuseRun
<1>3. CASE RunStep(p)
  <2>1. ASSUME NEW d, EndRun(p, d)
        PROVE \A q \in Platform \ {p} : run'[q] = run[q] /\ requeue'[q] = requeue[q]
    BY <2>1 DEF EndRun
  <2>2. ASSUME NEW stage, GoTo(p, stage)
        PROVE \A q \in Platform \ {p} : run'[q] = run[q] /\ requeue'[q] = requeue[q]
    BY <2>2 DEF GoTo
  <2>3. ASSUME ApplyPck(p)
        PROVE \A q \in Platform \ {p} : pck'[q] = pck[q] /\ (q \in damaged' <=> q \in damaged)
    BY <2>3 DEF ApplyPck
  <2>4. ASSUME NEW d \in RetryAfter, RateLimited(p, d) PROVE OthersUntouched(p)
    BY <2>4, <2>1, DelayLemma, DelayAssumption DEF RateLimited
  <2>5. CASE ValidatePck(p) \/ ValidateFails(p)
    BY <2>5, <2>1, <2>2 DEF ValidatePck, ValidateFails
  <2>6. CASE CheckPause(p) \/ CertsFetched(p) \/ TcbInfoFetched(p)
    BY <2>6, <2>1, <2>2 DEF CheckPause, CertsFetched, TcbInfoFetched
  <2>7. CASE Rejected(p) \/ RegistrationFails(p)
    BY <2>7, <2>1 DEF Rejected, RegistrationFails
  <2>8. CASE WritePck(p) \/ WritePckUnanswered(p)
    BY <2>8, <2>1, <2>2, <2>3 DEF WritePck, WritePckUnanswered
  <2>9. CASE WriteIndex(p) \/ WriteIndexUnanswered(p)
    BY <2>9, <2>1 DEF WriteIndex, WriteIndexUnanswered
  <2> QED
    BY <1>3, <2>4, <2>5, <2>6, <2>7, <2>8, <2>9 DEF RunStep
<1> QED
  BY <1>1, <1>2, <1>3

\* What nodes, administrators and time do to the secrets leaves the platform settled.
LEMMA EnvironmentSettled ==
  ASSUME TypeOK, NEW p \in Platform, Settled(p), Environment(p)
  PROVE  Settled(p)'
<1> USE DEF TypeOK, Settled, FingerprintTruthful, SupersededRunRepeats, IdleIsSettled,
            IndexAfterPck, WantingStaysWanting, BeforeWrite, PauseCoversRetryAfter, Served,
            PckSecretIsValid, apiVars, processVars, historyVars
<1>1. ASSUME NEW contents \in SecretContents, PutPlatformData(p, contents)
      PROVE  Settled(p)'
  BY <1>1 DEF PutPlatformData
<1>2. ASSUME NEW remains \in {NoSecret, Damaged}, DamagePck(p, remains)
      PROVE  Settled(p)'
  <2>1. remains \notin PckSecret
    BY DataAssumption DEF PckSecret
  <2>2. p \in damaged' /\ pck'[p] = remains
    BY <1>2 DEF DamagePck
  <2> QED
    BY <1>2, <2>1, <2>2 DEF DamagePck
<1>3. CASE Expire(p)
  <2>1. /\ pck'[p] \in PckSecret
        /\ pck'[p].certificates = pck[p].certificates
        /\ pck'[p].fingerprint = pck[p].fingerprint
        /\ pck'[p].expired
    BY <1>3 DEF Expire, PckSecret
  <2> QED
    BY <1>3, <2>1 DEF Expire
<1> QED
  BY <1>1, <1>2, <1>3 DEF Environment

\* Events, and the start of a run, leave the platform settled.
LEMMA ControllerSettled ==
  ASSUME TypeOK, NEW p \in Platform, Settled(p), Controller(p)
  PROVE  Settled(p)'
<1> USE DEF TypeOK, Settled, FingerprintTruthful, SupersededRunRepeats, IdleIsSettled,
            IndexAfterPck, WantingStaysWanting, BeforeWrite, PauseCoversRetryAfter, Served,
            PckSecretIsValid, apiVars, processVars, historyVars
<1>1. CASE WatchEvent(p)
  <2>1. store'[p] = platformData[p]
    BY <1>1 DEF WatchEvent
  <2>2. CASE platformData[p] = NoSecret
    <3>1. store'[p] \notin Data
      BY <2>1, <2>2, DataAssumption
    <3> QED
      BY <1>1, <3>1 DEF WatchEvent
  <2>3. CASE platformData[p] # NoSecret
    <3>1. requeue'[p] # Never
      <4>1. requeue'[p] = Sooner(requeue[p], 0)
        BY <1>1, <2>3 DEF WatchEvent
      <4>2. 0 \in Delay /\ 0 # Never /\ requeue[p] \in Delay
        BY DelayAssumption DEF Delay
      <4> QED
        BY <4>1, <4>2, DelayLemma
    <3> QED
      BY <1>1, <3>1 DEF WatchEvent
  <2> QED
    BY <2>2, <2>3
<1>2. CASE StartRun(p)
  <2>1. run'[p].at = "validate" /\ run'[p].data = store[p] /\ store' = store
    BY <1>2 DEF StartRun
  <2>2. run'[p] # Idle
    BY <2>1 DEF Idle
  <2> QED
    BY <1>2, <2>1, <2>2 DEF StartRun
<1>3. CASE RefuseRun(p)
  BY <1>3 DEF RefuseRun
<1> QED
  BY <1>1, <1>2, <1>3 DEF Controller

\* Every step of a run leaves its platform settled.
LEMMA RunSettled ==
  ASSUME TypeOK, TypeOK', NEW p \in Platform, Settled(p), RunStep(p)
  PROVE  Settled(p)'
<1> USE DEF apiVars, processVars, historyVars
<1>0. /\ FingerprintTruthful(p)
      /\ held[p] <= pause
      /\ ErrorPolicy(K8S_API_WATCH_ERROR_BACKOFF) \in Nat
      /\ ErrorPolicy(REGISTRATION_RETRY_DELAY) \in Nat
      /\ run[p].at \in BeforeWrite => ~PckSecretIsValid(pck[p], run[p].data)
  BY PolicyLemma, DelayAssumption DEF Settled, PauseCoversRetryAfter, WantingStaysWanting
<1>1. ASSUME run[p].at # "idle" PROVE run[p] # Idle
  BY <1>1 DEF Idle
<1>2. CASE ValidatePck(p)
  <2>1. run[p] # Idle
    BY <1>1, <1>2 DEF ValidatePck
  <2>2. CASE PckSecretIsValid(pck[p], run[p].data)
    <3>1. Served(p, run[p].data)
      BY <1>0, <2>2 DEF PckSecretIsValid, FingerprintTruthful, Served
    <3> QED
      BY <1>0, <1>2, <2>1, <2>2, <3>1, EndForGood DEF ValidatePck
  <2>3. CASE ~PckSecretIsValid(pck[p], run[p].data)
    BY <1>0, <1>2, <2>1, <2>3, GoOn DEF ValidatePck, Stage
  <2> QED
    BY <2>2, <2>3
<1>3. CASE ValidateFails(p)
  BY <1>0, <1>3, EndWithRetry DEF ValidateFails, FingerprintTruthful
<1>4. CASE CheckPause(p)
  <2>1. run[p] # Idle
    BY <1>1, <1>4 DEF CheckPause
  <2>2. CASE pause > 0
    BY <1>0, <1>4, <2>2, EndWithRetry DEF CheckPause, DeferFor, FingerprintTruthful, TypeOK
  <2>3. CASE ~(pause > 0)
    BY <1>0, <1>4, <2>1, <2>3, GoOn DEF CheckPause, Stage, BeforeWrite
  <2> QED
    BY <2>2, <2>3
<1>5. CASE CertsFetched(p)
  BY <1>0, <1>1, <1>5, GoOn DEF CertsFetched, Stage, BeforeWrite
<1>6. CASE TcbInfoFetched(p)
  BY <1>0, <1>1, <1>6, GoOn DEF TcbInfoFetched, Stage, BeforeWrite
<1>7. ASSUME NEW delay \in RetryAfter, RateLimited(p, delay) PROVE Settled(p)'
  <2>1. held'[p] <= pause'
    BY <1>7, DelayLemma, DelayAssumption DEF RateLimited, TypeOK
  <2>2. ErrorPolicy(delay) \in Nat
    BY PolicyLemma, DelayAssumption
  <2> QED
    BY <1>0, <1>7, <2>1, <2>2, EndWithRetry DEF RateLimited, FingerprintTruthful
<1>8. CASE Rejected(p)
  <2>1. run[p] # Idle
    BY <1>1, <1>8 DEF Rejected, AskingPcs
  <2>2. refused'[p] = run[p].data
    BY <1>8 DEF Rejected, TypeOK
  <2> QED
    BY <1>0, <1>8, <2>1, <2>2, EndForGood DEF Rejected
<1>9. CASE RegistrationFails(p)
  BY <1>0, <1>9, EndWithRetry DEF RegistrationFails, FingerprintTruthful
<1>10. ASSUME ApplyPck(p), run[p] # Idle
       PROVE  /\ FingerprintTruthful(p)'
              /\ pck'[p] \in PckSecret /\ pck'[p].certificates = run[p].data
  BY <1>10 DEF ApplyPck, FingerprintTruthful, Fingerprint, PckSecret, TypeOK, Idle
<1>11. CASE WritePck(p)
  <2>1. run[p] # Idle /\ ApplyPck(p) /\ GoTo(p, "write_index")
    BY <1>1, <1>11 DEF WritePck
  <2>2. /\ run'[p].at = "write_index" /\ run'[p].data = run[p].data
        /\ requeue' = requeue /\ run'[p] # Idle
    BY <2>1 DEF GoTo, TypeOK, Idle
  <2> QED
    BY <1>0, <1>11, <2>1, <2>2, <1>10
       DEF WritePck, Settled, SupersededRunRepeats, IdleIsSettled, IndexAfterPck,
           WantingStaysWanting, BeforeWrite, PauseCoversRetryAfter, Served
<1>12. CASE WritePckUnanswered(p)
  BY <1>0, <1>1, <1>12, <1>10, EndWithRetry DEF WritePckUnanswered
<1>13. CASE WriteIndex(p)
  <2>1. Served(p, run[p].data)
    BY <1>13 DEF WriteIndex, Settled, IndexAfterPck
  <2> QED
    BY <1>0, <1>1, <1>13, <2>1, EndForGood DEF WriteIndex
<1>14. CASE WriteIndexUnanswered(p)
  BY <1>0, <1>14, EndWithRetry DEF WriteIndexUnanswered, FingerprintTruthful
<1> QED
  BY <1>2, <1>3, <1>4, <1>5, <1>6, <1>7, <1>8, <1>9, <1>11, <1>12, <1>13, <1>14 DEF RunStep

\* Time leaves every platform settled.
LEMMA TickSettled ==
  ASSUME TypeOK, NEW p \in Platform, Settled(p), Tick
  PROVE  Settled(p)'
<1>1. requeue'[p] = Never <=> requeue[p] = Never
  BY DelayLemma DEF Tick, TypeOK
<1>2. held[p] <= pause => held'[p] <= pause'
  <2>1. \A a, b \in Nat : a <= b => Less(a) <= Less(b)
    BY DelayAssumption DEF Less
  <2> QED
    BY <2>1 DEF Tick, TypeOK
<1>3. UNCHANGED <<pck, store, run, refused, damaged>>
  BY DEF Tick, apiVars
<1> QED
  BY <1>1, <1>2, <1>3 DEF Settled, FingerprintTruthful, SupersededRunRepeats,
              IdleIsSettled, IndexAfterPck, WantingStaysWanting, BeforeWrite,
              PauseCoversRetryAfter,
              Served, PckSecretIsValid

\* Signals, crashes and restarts leave every platform settled.
LEMMA ProcessSettled ==
  ASSUME TypeOK, NEW p \in Platform, Settled(p), Process
  PROVE  Settled(p)'
<1>1. CASE Terminate \/ Restart
  BY <1>1 DEF Terminate, Restart, apiVars, historyVars, Settled, FingerprintTruthful,
              SupersededRunRepeats, IdleIsSettled, IndexAfterPck, WantingStaysWanting,
              PauseCoversRetryAfter, Served, PckSecretIsValid
<1>2. CASE Exit \/ Crash
  BY <1>2, DataAssumption DEF Exit, Crash, FreshProcess, apiVars, Settled,
              FingerprintTruthful, SupersededRunRepeats, IdleIsSettled, IndexAfterPck,
              WantingStaysWanting, BeforeWrite, PauseCoversRetryAfter, Served,
              PckSecretIsValid, Idle
<1> QED
  BY <1>1, <1>2 DEF Process

\* The steps of other platforms' runs leave a platform settled, its own by the lemmas above.
LEMMA InvNext == TypeOK /\ Inv /\ [Next]_vars => Inv'
<1> SUFFICES ASSUME TypeOK, Inv, [Next]_vars, NEW q \in Platform PROVE Settled(q)'
  BY DEF Inv
<1>1. Settled(q) /\ TypeOK'
  BY TypeNext DEF Inv
<1>2. CASE UNCHANGED vars
  BY <1>1, <1>2 DEF vars, Settled, FingerprintTruthful, SupersededRunRepeats, IdleIsSettled,
     IndexAfterPck, WantingStaysWanting, BeforeWrite, PauseCoversRetryAfter, Served,
     PckSecretIsValid
<1>3. CASE Tick
  BY <1>1, <1>3, TickSettled
<1>4. CASE Process
  BY <1>1, <1>4, ProcessSettled
<1>5. ASSUME NEW p \in Platform, Environment(p) \/ Controller(p) \/ RunStep(p)
      PROVE  Settled(q)'
  <2>1. CASE q = p
    BY <1>1, <1>5, <2>1, EnvironmentSettled, ControllerSettled, RunSettled
  <2>2. CASE q # p
    BY <1>1, <1>5, <2>2, OthersLemma, Untouched DEF OthersUntouched
  <2> QED
    BY <2>1, <2>2
<1> QED
  BY <1>2, <1>3, <1>4, <1>5 DEF Next

\* Nothing that happens loses track of a platform.
THEOREM Invariance == Spec => []Inv
  BY TypeInit, TypeNext, InvInit, InvNext, PTL DEF Spec

\* No platform is forgotten: one with no run planned or under way has been certified or
\* refused, for any number of platforms, slots, errors, events and restarts.
THEOREM NothingForgotten == Spec => []NoPlatformForgotten
<1>1. Inv => NoPlatformForgotten
  BY DEF Inv, Settled, IdleIsSettled, NoPlatformForgotten, Quiescent
<1> QED
  BY <1>1, Invariance, PTL

-----------------------------------------------------------------------------
(***************************************************************************)
(* What is true of a run when it turns to PCS.                             *)
(***************************************************************************)

\* The only way to a request for certificates leads past the pause check.
LEMMA OnlyPastThePause ==
  ASSUME TypeOK, [Next]_vars, NEW q \in Platform,
         run[q].at # "fetch_certs", run'[q].at = "fetch_certs"
  PROVE  run[q].at = "check_pause" /\ pause = 0
<1> USE DEF TypeOK, apiVars, processVars, historyVars
<1>1. CASE UNCHANGED vars
  BY <1>1 DEF vars
<1>2. CASE Tick
  BY <1>2 DEF Tick
<1>3. CASE Process
  BY <1>3 DEF Process, Terminate, Exit, Crash, Restart, FreshProcess, Idle
<1>4. ASSUME NEW p \in Platform, Environment(p) \/ Controller(p) \/ RunStep(p)
      PROVE  run[q].at = "check_pause" /\ pause = 0
  <2>1. p = q
    BY <1>4, OthersLemma DEF OthersUntouched
  <2>2. CASE Environment(p)
    BY <2>2 DEF Environment, PutPlatformData, DamagePck, Expire
  <2>3. CASE Controller(p)
    BY <2>1, <2>3 DEF Controller, WatchEvent, StartRun, RefuseRun
  <2>4. CASE RunStep(p)
    <3>1. ASSUME NEW d, EndRun(p, d) PROVE FALSE
      BY <2>1, <3>1 DEF EndRun, Idle
    <3>2. ASSUME NEW stage, GoTo(p, stage) PROVE stage = "fetch_certs"
      BY <2>1, <3>2 DEF GoTo, Idle
    <3>3. CASE CheckPause(p)
      BY <2>1, <3>1, <3>3 DEF CheckPause
    <3>4. CASE ValidatePck(p) \/ ValidateFails(p)
      BY <3>1, <3>2, <3>4 DEF ValidatePck, ValidateFails
    <3>5. CASE CertsFetched(p) \/ TcbInfoFetched(p) \/ WritePck(p)
      BY <3>2, <3>5 DEF CertsFetched, TcbInfoFetched, WritePck
    <3>6. ASSUME NEW d \in RetryAfter, RateLimited(p, d) PROVE FALSE
      BY <3>1, <3>6 DEF RateLimited
    <3>7. CASE Rejected(p) \/ RegistrationFails(p) \/ WritePckUnanswered(p)
      BY <3>1, <3>7 DEF Rejected, RegistrationFails, WritePckUnanswered
    <3>8. CASE WriteIndex(p) \/ WriteIndexUnanswered(p)
      BY <3>1, <3>8 DEF WriteIndex, WriteIndexUnanswered
    <3> QED
      BY <2>4, <3>3, <3>4, <3>5, <3>6, <3>7, <3>8 DEF RunStep
  <2> QED
    BY <1>4, <2>2, <2>3, <2>4
<1> QED
  BY <1>1, <1>2, <1>3, <1>4 DEF Next

\* While a delay that PCS asked for lasts, no further registration turns to PCS.
THEOREM RetryAfterHonoured == Spec => RetryAfterRespected
<1>1. TypeOK /\ Inv /\ [Next]_vars =>
        [\A p \in Platform :
            run[p].at # "fetch_certs" /\ run'[p].at = "fetch_certs" =>
                \A q \in Platform : held[q] = 0]_vars
  <2> SUFFICES ASSUME TypeOK, Inv, [Next]_vars, NEW p \in Platform, NEW q \in Platform,
                      run[p].at # "fetch_certs", run'[p].at = "fetch_certs"
               PROVE  held[q] = 0
    OBVIOUS
  <2>1. pause = 0
    BY OnlyPastThePause
  <2>2. held[q] <= pause /\ held[q] \in Nat
    BY DEF Inv, Settled, PauseCoversRetryAfter, TypeOK
  <2> QED
    BY <2>1, <2>2
<1> QED
  BY <1>1, TypeCorrect, Invariance, PTL DEF Spec, RetryAfterRespected

\* A registration turns to PCS only if the platform's -pck secret is missing, unusable,
\* expired or made from other inputs.
THEOREM NoRedundancy == Spec => NoRedundantRegistration
<1>1. TypeOK /\ Inv /\ [Next]_vars =>
        [\A p \in Platform :
            run[p].at # "fetch_certs" /\ run'[p].at = "fetch_certs" =>
                ~(/\ pck[p] \in PckSecret
                  /\ pck[p].certificates = run[p].data
                  /\ ~pck[p].expired)]_vars
  <2> SUFFICES ASSUME TypeOK, Inv, [Next]_vars, NEW p \in Platform,
                      run[p].at # "fetch_certs", run'[p].at = "fetch_certs",
                      pck[p] \in PckSecret, pck[p].certificates = run[p].data,
                      ~pck[p].expired
               PROVE  FALSE
    OBVIOUS
  <2>1. ~PckSecretIsValid(pck[p], run[p].data)
    BY OnlyPastThePause DEF Inv, Settled, WantingStaysWanting, BeforeWrite
  <2>2. pck[p].fingerprint = pck[p].certificates
    BY DEF Inv, Settled, FingerprintTruthful
  <2> QED
    BY <2>1, <2>2 DEF PckSecretIsValid
<1> QED
  BY <1>1, TypeCorrect, Invariance, PTL DEF Spec, NoRedundantRegistration

-----------------------------------------------------------------------------
(***************************************************************************)
(* The registrar implements the issuer of certificates.                    *)
(***************************************************************************)

\* What the registrar has read of a platform's inputs.
Known == [p \in Platform |-> {store[p], run[p].data} \cap Data]

\* A step of a controller that only reads platform-data secrets, moves what it has read to its
\* runs, and forgets, is one of the issuer taking notice.
LEMMA ObserveLemma ==
  ASSUME TypeOK, UNCHANGED <<platformData, pck>>,
         \A q \in Platform :
            /\ store'[q] \in {store[q], platformData[q], NoSecret}
            /\ run'[q].data \in {run[q].data, store[q], NoSecret}
  PROVE  Issuer!Observe
<1>1. Known' \in [Platform -> SUBSET Data]
  BY DEF Known
<1>2. ASSUME NEW q \in Platform
      PROVE  Known'[q] \subseteq Known[q] \cup ({platformData[q]} \cap Data)
  BY DataAssumption DEF Known
<1> QED
  BY <1>1, <1>2 DEF Issuer!Observe, Issuer!Learns, Known

\* Writing the -pck secret of a platform issues certificates for the inputs of its run, which
\* is known to have found the secret wanting.
LEMMA IssueLemma ==
  ASSUME TypeOK, Inv, NEW p \in Platform, run[p].at = "write_pck", ApplyPck(p),
         UNCHANGED <<platformData, store>>,
         \A q \in Platform : run'[q].data \in {run[q].data, NoSecret}
  PROVE  Issuer!Issue(p)
<1> DEFINE d == run[p].data
<1>1. d \in Data /\ d \in Known[p]
  BY DEF TypeOK, Known, Idle
<1>2. ~Issuer!GoodFor(pck[p], d)
  BY DEF Inv, Settled, WantingStaysWanting, BeforeWrite, PckSecretIsValid, PckSecret,
         Issuer!GoodFor, Issuer!PckSecrets
<1>3. pck' = [pck EXCEPT ![p] = [certificates |-> d, fingerprint |-> d, expired |-> FALSE]]
  BY DEF ApplyPck, Fingerprint
<1>4. Known' \in [Platform -> SUBSET Data]
  BY DEF Known
<1>5. \A q \in Platform : Known'[q] \subseteq Known[q]
  BY DataAssumption DEF Known
<1> QED
  BY <1>1, <1>2, <1>3, <1>4, <1>5 DEF Issuer!Issue, Known

\* Nothing has been noticed at first.
LEMMA IssuerStart == Init => Issuer!Start
<1> SUFFICES ASSUME Init PROVE Issuer!Start
  OBVIOUS
<1>1. \A p \in Platform : {store[p], run[p].data} \cap Data = {}
  BY DataAssumption DEF Init, Idle
<1> QED
  BY <1>1 DEF Init, Issuer!Start, SecretContents

\* What the steps of a run do to the inputs it works on.
LEMMA RunDataLemma ==
  ASSUME TypeOK, NEW p \in Platform
  PROVE  /\ \A d : EndRun(p, d) =>
                \A q \in Platform : run'[q].data \in {run[q].data, NoSecret}
         /\ \A stage \in Stage : GoTo(p, stage) =>
                \A q \in Platform : run'[q].data = run[q].data
<1>1. ASSUME NEW d, EndRun(p, d), NEW q \in Platform
      PROVE  run'[q].data \in {run[q].data, NoSecret}
  BY <1>1 DEF EndRun, TypeOK, Idle
<1>2. ASSUME NEW stage \in Stage, GoTo(p, stage), NEW q \in Platform
      PROVE  run'[q].data = run[q].data
  BY <1>2 DEF GoTo, TypeOK, Idle
<1> QED
  BY <1>1, <1>2

\* Every step of a run either issues certificates or shows in nothing the issuer has.
LEMMA IssuerRunStep ==
  ASSUME TypeOK, Inv, NEW p \in Platform, RunStep(p)
  PROVE  Issuer!Observe \/ Issuer!Issue(p)
<1> USE DEF apiVars, processVars, historyVars
<1>1. ASSUME UNCHANGED <<platformData, pck, store>>,
             \/ \E d : EndRun(p, d)
             \/ \E stage \in Stage : GoTo(p, stage)
      PROVE  Issuer!Observe
  BY <1>1, RunDataLemma, ObserveLemma
<1>2. CASE ValidatePck(p) \/ ValidateFails(p) \/ CheckPause(p)
  BY <1>2, <1>1 DEF ValidatePck, ValidateFails, CheckPause, Stage
<1>3. CASE CertsFetched(p) \/ TcbInfoFetched(p)
  BY <1>3, <1>1 DEF CertsFetched, TcbInfoFetched, Stage
<1>4. ASSUME NEW delay \in RetryAfter, RateLimited(p, delay) PROVE Issuer!Observe
  BY <1>4, <1>1 DEF RateLimited
<1>5. CASE Rejected(p) \/ RegistrationFails(p)
  BY <1>5, <1>1 DEF Rejected, RegistrationFails
<1>6. CASE WritePck(p)
  BY <1>6, RunDataLemma, IssueLemma DEF WritePck, Stage
<1>7. CASE WritePckUnanswered(p)
  BY <1>7, RunDataLemma, IssueLemma DEF WritePckUnanswered
<1>8. CASE WriteIndex(p) \/ WriteIndexUnanswered(p)
  BY <1>8, <1>1 DEF WriteIndex, WriteIndexUnanswered
<1> QED
  BY <1>2, <1>3, <1>4, <1>5, <1>6, <1>7, <1>8 DEF RunStep

\* Every step of the registrar is one of the issuer, or none.
LEMMA IssuerNext == TypeOK /\ Inv /\ [Next]_vars => [Issuer!Step]_(Issuer!issuerVars)
<1> SUFFICES ASSUME TypeOK, Inv, [Next]_vars
             PROVE  Issuer!Step \/ UNCHANGED Issuer!issuerVars
  OBVIOUS
<1> USE DEF apiVars, processVars, historyVars
<1>1. CASE UNCHANGED vars
  BY <1>1 DEF vars, Issuer!issuerVars
<1>2. CASE Tick
  BY <1>2, ObserveLemma DEF Tick, Issuer!Step
<1>3. CASE Process
  <2>1. UNCHANGED <<platformData, pck>>
    BY <1>3 DEF Process, Terminate, Exit, Crash, Restart
  <2>2. \A q \in Platform : /\ store'[q] \in {store[q], NoSecret}
                            /\ run'[q].data \in {run[q].data, NoSecret}
    BY <1>3 DEF Process, Terminate, Exit, Crash, Restart, FreshProcess, Idle
  <2> QED
    BY <2>1, <2>2, ObserveLemma DEF Issuer!Step
<1>4. ASSUME NEW p \in Platform, Environment(p) PROVE Issuer!Step
  <2>1. ASSUME NEW contents \in SecretContents, PutPlatformData(p, contents)
        PROVE  Issuer!Submit(p, contents)
    BY <2>1 DEF PutPlatformData, Issuer!Submit
  <2>2. ASSUME NEW remains \in {NoSecret, Damaged}, DamagePck(p, remains)
        PROVE  Issuer!Damage(p, remains)
    BY <2>2 DEF DamagePck, Issuer!Damage
  <2>3. CASE Expire(p)
    BY <2>3 DEF Expire, Issuer!Step, Issuer!Expires, PckSecret, Issuer!PckSecrets
  <2> QED
    BY <1>4, <2>1, <2>2, <2>3 DEF Environment, Issuer!Step, SecretContents
<1>5. ASSUME NEW p \in Platform, Controller(p) PROVE Issuer!Step
  <2>1. CASE WatchEvent(p)
    BY <2>1, ObserveLemma DEF WatchEvent, Issuer!Step, TypeOK
  <2>2. CASE StartRun(p)
    BY <2>2, ObserveLemma DEF StartRun, Issuer!Step, TypeOK
  <2>3. CASE RefuseRun(p)
    BY <2>3, ObserveLemma DEF RefuseRun, Issuer!Step
  <2> QED
    BY <1>5, <2>1, <2>2, <2>3 DEF Controller
<1>6. ASSUME NEW p \in Platform, RunStep(p) PROVE Issuer!Step
  BY <1>6, IssuerRunStep DEF Issuer!Step
<1> QED
  BY <1>1, <1>2, <1>3, <1>4, <1>5, <1>6 DEF Next

\* Every behaviour of the registrar is one of the issuer: certificates are issued only for
\* inputs that were read from the platform's secret, labelled with these inputs, and never in
\* place of a -pck secret that is good for them.
THEOREM RefinesIssuer == Spec => ImplementsIssuer
<1>1. Spec => Issuer!Start /\ [][Issuer!Step]_(Issuer!issuerVars)
  BY IssuerStart, IssuerNext, TypeCorrect, Invariance, PTL DEF Spec
<1> QED
  BY <1>1 DEF ImplementsIssuer, Issuer!IssuerSpec

-----------------------------------------------------------------------------
(***************************************************************************)
(* The registrar for all platforms is an issuer to each of them.           *)
(***************************************************************************)

\* What it does for one platform is a step of that platform's issuer, what it does for another
\* is taking notice at most.
LEMMA IssuerOfStep ==
  ASSUME NEW p \in Platform, TypeOK, [Issuer!Step]_(Issuer!issuerVars)
  PROVE  [IssuerOf(p)!Step]_(IssuerOf(p)!issuerVars)
<1> SUFFICES ASSUME Issuer!Step \/ UNCHANGED Issuer!issuerVars
             PROVE  IssuerOf(p)!Step \/ UNCHANGED IssuerOf(p)!issuerVars
  OBVIOUS
<1> DEFINE mine == [q \in {p} |-> {store[q], run[q].data} \cap Data]
<1>1. /\ DOMAIN pck = Platform /\ DOMAIN platformData = Platform
      /\ mine' \in [{p} -> SUBSET Data] /\ mine[p] = Known[p] /\ mine'[p] = Known'[p]
  BY DEF TypeOK, Known
<1>2. ASSUME UNCHANGED <<platformData, pck>>,
             Known'[p] \subseteq Known[p] \cup ({platformData[p]} \cap Data)
      PROVE  IssuerOf(p)!Observe
  BY <1>1, <1>2 DEF IssuerOf!Observe, IssuerOf!Learns
<1>3. CASE Issuer!Observe
  BY <1>2, <1>3 DEF Issuer!Observe, Issuer!Learns, IssuerOf!Step, Known
<1>4. ASSUME NEW q \in Platform, Issuer!Issue(q)
      PROVE  IssuerOf(p)!Step
  <2>1. platformData' = platformData /\ Known'[p] \subseteq Known[p]
    BY <1>4 DEF Issuer!Issue, Known
  <2>2. CASE q = p
    <3>1. PICK d \in Known[p] :
            /\ ~Issuer!GoodFor(pck[p], d)
            /\ pck' = [pck EXCEPT ![p] = [certificates |-> d, fingerprint |-> d,
                                          expired |-> FALSE]]
      BY <1>4, <2>2 DEF Issuer!Issue, Known
    <3>2. ~IssuerOf(p)!GoodFor(pck[p], d)
      BY <3>1 DEF Issuer!GoodFor, IssuerOf!GoodFor, Issuer!PckSecrets, IssuerOf!PckSecrets
    <3>3. [r \in {p} |-> pck[r]]' =
            [[r \in {p} |-> pck[r]] EXCEPT
                ![p] = [certificates |-> d, fingerprint |-> d, expired |-> FALSE]]
      BY <1>1, <3>1
    <3> QED
      BY <1>1, <2>1, <3>1, <3>2, <3>3 DEF IssuerOf!Issue, IssuerOf!Step
  <2>3. CASE q # p
    <3>1. [r \in {p} |-> pck[r]]' = [r \in {p} |-> pck[r]]
      BY <1>1, <1>4, <2>3 DEF Issuer!Issue
    <3> QED
      BY <1>1, <2>1, <3>1 DEF IssuerOf!Observe, IssuerOf!Learns, IssuerOf!Step
  <2> QED
    BY <2>2, <2>3
<1>5. ASSUME NEW q \in Platform, NEW contents \in Data \cup {Malformed, NoSecret},
             Issuer!Submit(q, contents)
      PROVE  IssuerOf(p)!Step \/ UNCHANGED IssuerOf(p)!issuerVars
  <2>1. pck' = pck /\ mine' = mine
    BY <1>1, <1>5 DEF Issuer!Submit, Known
  <2>2. CASE q = p
    <3>1. [r \in {p} |-> platformData[r]]' =
            [[r \in {p} |-> platformData[r]] EXCEPT ![p] = contents]
      BY <1>1, <1>5, <2>2 DEF Issuer!Submit
    <3>2. IssuerOf(p)!Submit(p, contents)
      BY <2>1, <3>1 DEF IssuerOf!Submit
    <3> QED
      BY <3>2 DEF IssuerOf!Step
  <2>3. CASE q # p
    BY <1>1, <1>5, <2>1, <2>3 DEF Issuer!Submit, IssuerOf!issuerVars
  <2> QED
    BY <2>2, <2>3
<1>6. ASSUME NEW q \in Platform, NEW remains \in {NoSecret, Damaged},
             Issuer!Damage(q, remains)
      PROVE  IssuerOf(p)!Step \/ UNCHANGED IssuerOf(p)!issuerVars
  <2>1. platformData' = platformData /\ mine' = mine
    BY <1>1, <1>6 DEF Issuer!Damage, Known
  <2>2. CASE q = p
    <3>1. [r \in {p} |-> pck[r]]' = [[r \in {p} |-> pck[r]] EXCEPT ![p] = remains]
      BY <1>1, <1>6, <2>2 DEF Issuer!Damage
    <3>2. IssuerOf(p)!Damage(p, remains)
      BY <2>1, <3>1 DEF IssuerOf!Damage
    <3> QED
      BY <3>2 DEF IssuerOf!Step
  <2>3. CASE q # p
    BY <1>1, <1>6, <2>1, <2>3 DEF Issuer!Damage, IssuerOf!issuerVars
  <2> QED
    BY <2>2, <2>3
<1>7. ASSUME NEW q \in Platform, Issuer!Expires(q)
      PROVE  IssuerOf(p)!Step \/ UNCHANGED IssuerOf(p)!issuerVars
  <2>1. platformData' = platformData /\ mine' = mine
    BY <1>1, <1>7 DEF Issuer!Expires, Known
  <2>2. CASE q = p
    BY <1>1, <1>7, <2>1, <2>2
       DEF Issuer!Expires, IssuerOf!Expires, IssuerOf!Step, Issuer!PckSecrets,
           IssuerOf!PckSecrets
  <2>3. CASE q # p
    BY <1>1, <1>7, <2>1, <2>3 DEF Issuer!Expires, IssuerOf!issuerVars
  <2> QED
    BY <2>2, <2>3
<1>8. CASE UNCHANGED Issuer!issuerVars
  BY <1>1, <1>8 DEF Issuer!issuerVars, IssuerOf!issuerVars, Known
<1> QED
  BY <1>3, <1>4, <1>5, <1>6, <1>7, <1>8 DEF Issuer!Step

\* The registrar that serves all platforms keeps to each the promise that the composition of the
\* node is built on, whatever it does for the others at the same time.
THEOREM ServesEach == ASSUME NEW p \in Platform PROVE Spec => IssuerOf(p)!IssuerSpec
<1>1. Init => IssuerOf(p)!Start
  <2> SUFFICES ASSUME Init PROVE IssuerOf(p)!Start
    OBVIOUS
  <2>1. {store[p], run[p].data} \cap Data = {}
    BY DataAssumption DEF Init, Idle
  <2> QED
    BY <2>1 DEF Init, IssuerOf!Start, SecretContents
<1>2. TypeOK /\ Inv /\ [Next]_vars => [IssuerOf(p)!Step]_(IssuerOf(p)!issuerVars)
  BY IssuerNext, IssuerOfStep
<1>3. Spec => IssuerOf(p)!Start /\ [][IssuerOf(p)!Step]_(IssuerOf(p)!issuerVars)
  BY <1>1, <1>2, TypeCorrect, Invariance, PTL DEF Spec
<1> QED
  BY <1>3 DEF IssuerOf!IssuerSpec

-----------------------------------------------------------------------------
(***************************************************************************)
(* A registrar that is told to stop comes ever closer to it.               *)
(***************************************************************************)

\* The calls a run in flight may still make.
CallsLeft == [p \in Platform |->
    CASE run[p].at = "validate"    -> 6
      [] run[p].at = "check_pause" -> 5
      [] run[p].at = "fetch_certs" -> 4
      [] run[p].at = "fetch_tcb"   -> 3
      [] run[p].at = "write_pck"   -> 2
      [] run[p].at = "write_index" -> 1
      [] OTHER                     -> 0]

\* A run ends, or goes on to a call further down, and leaves the other platforms' runs alone.
LEMMA RunAdvances ==
  ASSUME TypeOK, NEW p \in Platform, RunStep(p)
  PROVE  /\ CallsLeft'[p] < CallsLeft[p]
         /\ \A q \in Platform \ {p} : run'[q] = run[q]
<1>1. /\ \A d : EndRun(p, d) => run' = [run EXCEPT ![p] = Idle]
      /\ \A stage : GoTo(p, stage) => run' = [run EXCEPT ![p].at = stage]
  BY DEF EndRun, GoTo
<1>2. ASSUME NEW stage \in Stage, run' = [run EXCEPT ![p].at = stage]
      PROVE  run'[p].at = stage /\ \A q \in Platform \ {p} : run'[q] = run[q]
  BY <1>2 DEF TypeOK, Idle
<1>3. ASSUME run' = [run EXCEPT ![p] = Idle]
      PROVE  run'[p].at = "idle" /\ \A q \in Platform \ {p} : run'[q] = run[q]
  BY <1>3 DEF TypeOK, Idle
<1>4. CASE \/ ValidateFails(p) \/ Rejected(p) \/ RegistrationFails(p) \/ WritePckUnanswered(p)
           \/ WriteIndex(p) \/ WriteIndexUnanswered(p)
           \/ \E delay \in RetryAfter : RateLimited(p, delay)
  <2>1. run' = [run EXCEPT ![p] = Idle]
    BY <1>1, <1>4
       DEF ValidateFails, Rejected, RegistrationFails, WritePckUnanswered, WriteIndex,
           WriteIndexUnanswered, RateLimited
  <2>2. run[p].at \in Stage \ {"idle"}
    BY <1>4
       DEF ValidateFails, Rejected, RegistrationFails, WritePckUnanswered, WriteIndex,
           WriteIndexUnanswered, RateLimited, AskingPcs, Stage
  <2> QED
    BY <1>3, <2>1, <2>2 DEF CallsLeft, Stage
<1>5. CASE ValidatePck(p)
  BY <1>1, <1>2, <1>3, <1>5 DEF ValidatePck, CallsLeft, Stage
<1>6. CASE CheckPause(p)
  BY <1>1, <1>2, <1>3, <1>6 DEF CheckPause, CallsLeft, Stage
<1>7. CASE CertsFetched(p)
  BY <1>1, <1>2, <1>7 DEF CertsFetched, CallsLeft, Stage
<1>8. CASE TcbInfoFetched(p)
  BY <1>1, <1>2, <1>8 DEF TcbInfoFetched, CallsLeft, Stage
<1>9. CASE WritePck(p)
  BY <1>1, <1>2, <1>9 DEF WritePck, CallsLeft, Stage
<1> QED
  BY <1>4, <1>5, <1>6, <1>7, <1>8, <1>9 DEF RunStep

\* While the registrar stops, events, edits and time change no run, and its runs only advance.
LEMMA StoppingStep ==
  TypeOK /\ [Next]_vars =>
    (phase = "stopping" =>
        \A p \in Platform : /\ CallsLeft'[p] <= CallsLeft[p]
                            /\ RunStep(p) => CallsLeft'[p] < CallsLeft[p])
<1> SUFFICES ASSUME TypeOK, [Next]_vars, phase = "stopping", NEW p \in Platform
             PROVE  /\ CallsLeft'[p] <= CallsLeft[p]
                    /\ RunStep(p) => CallsLeft'[p] < CallsLeft[p]
  OBVIOUS
<1> USE DEF apiVars, processVars, historyVars
<1>1. CallsLeft[p] \in 0..6 /\ CallsLeft'[p] \in 0..6
  BY DEF CallsLeft
<1>2. RunStep(p) => CallsLeft'[p] < CallsLeft[p]
  BY RunAdvances
<1>3. ASSUME run'[p] \in {run[p], Idle} PROVE CallsLeft'[p] <= CallsLeft[p]
  <2>1. CASE run'[p] = run[p]
    <3>1. CallsLeft'[p] = CallsLeft[p]
      BY <2>1 DEF CallsLeft
    <3> QED
      BY <1>1, <3>1
  <2>2. CASE run'[p] = Idle
    <3>1. CallsLeft'[p] = 0
      BY <2>2 DEF CallsLeft, Idle
    <3> QED
      BY <1>1, <3>1
  <2> QED
    BY <1>3, <2>1, <2>2
<1>4. ASSUME NEW q \in Platform, RunStep(q), q # p PROVE run'[p] = run[p]
  BY <1>4, RunAdvances
<1>5. ASSUME NEW q \in Platform, Environment(q) \/ Controller(q) PROVE run'[p] = run[p]
  BY <1>5
     DEF Environment, Controller, PutPlatformData, DamagePck, Expire, WatchEvent, StartRun,
         RefuseRun, CanStart
<1>6. ASSUME Process PROVE run'[p] \in {run[p], Idle}
  BY <1>6 DEF Process, Terminate, Exit, Crash, Restart, FreshProcess
<1>7. ASSUME Tick \/ UNCHANGED vars PROVE run'[p] = run[p]
  BY <1>7 DEF Tick, vars
<1>8. RunStep(p) \/ run'[p] \in {run[p], Idle}
  BY <1>4, <1>5, <1>6, <1>7 DEF Next
<1> QED
  BY <1>1, <1>2, <1>3, <1>8

\* After SIGTERM the runs in flight make at most the calls they have left, each run of
\* process_platform_secret six, and no event, edit or retry that is due adds one: what keeps the
\* registrar from stopping is only a call that is never answered.
THEOREM WindsDown ==
    Spec => [][phase = "stopping" =>
                 \A p \in Platform : /\ CallsLeft'[p] <= CallsLeft[p]
                                     /\ RunStep(p) => CallsLeft'[p] < CallsLeft[p]]_vars
<1>1. TypeOK /\ [Next]_vars =>
        [phase = "stopping" =>
           \A p \in Platform : /\ CallsLeft'[p] <= CallsLeft[p]
                               /\ RunStep(p) => CallsLeft'[p] < CallsLeft[p]]_vars
  BY StoppingStep
<1> QED
  BY <1>1, TypeCorrect, PTL DEF Spec

=============================================================================
