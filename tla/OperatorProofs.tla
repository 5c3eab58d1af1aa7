---------------------------- MODULE OperatorProofs ----------------------------
(***************************************************************************)
(* Proofs about the operator, for any configurations, failing calls, and   *)
(* numbers of resources and generations.                                   *)
(*                                                                         *)
(* That the resource a run applies is still the one in the API server      *)
(* cannot be seen from the run alone, which starts from the cache.  The    *)
(* inductive invariant Inv follows the finalizer: from the resource to the *)
(* cache (HeldInCache) to the run (HeldWhileApplying), and it shows that   *)
(* the run which removes the finalizer leaves no copy of the resource      *)
(* behind that could still be applied (DeletionIsKnown).                   *)
(***************************************************************************)
EXTENDS Operator, TLAPS

-----------------------------------------------------------------------------
(***************************************************************************)
(* The types of the records.                                               *)
(***************************************************************************)

\* A resource that is absent or new has its type.
LEMMA BlankType ==
    ASSUME NEW uid \in Uids, NEW config \in Config \cup {NoConfig},
           uid # 0 => 1 \in Generations
    PROVE  Blank(uid, config) \in Resources
<1>1. NoStatus \in Statuses
  BY BoundAssumption DEF NoStatus, Statuses, Generations, Reasons, DeploymentReadiness
<1>2. (IF uid = 0 THEN 0 ELSE 1) \in Generations
  BY BoundAssumption DEF Generations
<1> QED BY <1>1, <1>2 DEF Blank, Resources

\* No resource, no workloads and no run have their types.
LEMMA NothingType ==
    /\ NoResource \in Resources
    /\ NoDaemonSet \in DaemonSets
    /\ NoDeployment \in Deployments
    /\ Idle \in Runs
<1>1. 0 \in Uids /\ 0 \in Generations
  BY BoundAssumption DEF Uids, Generations
<1>2. NoResource \in Resources
  BY <1>1, BlankType DEF NoResource
<1>3. NoDaemonSet \in DaemonSets /\ NoDeployment \in Deployments
  BY <1>1 DEF NoDaemonSet, DaemonSets, NoDeployment, Deployments
<1>4. Idle \in Runs
  BY <1>2 DEF Idle, Runs, DeploymentReadiness, Calls
<1> QED BY <1>2, <1>3, <1>4

\* What a run reports is a status.
LEMMA ReportType ==
    ASSUME NEW resource \in Resources, NEW daemonsetReady \in BOOLEAN,
           NEW deploymentReady \in DeploymentReadiness
    PROVE  Report(resource, daemonsetReady, deploymentReady) \in Statuses
<1>1. resource.generation \in Generations
  BY DEF Resources
<1> QED BY <1>1 DEF Report, Statuses, Reasons

\* What a run applies has its type.
LEMMA AppliedType ==
    ASSUME TypeOK
    PROVE  AppliedDaemonSet \in DaemonSets /\ AppliedDeployment \in Deployments
BY DEF TypeOK, AppliedDaemonSet, AppliedDeployment, DaemonSets, Deployments, Runs, Resources

\* A run starts at one of its steps.
LEMMA FirstStepType ==
    ASSUME NEW resource \in Resources
    PROVE  FirstStep(resource) \in {"idle", "addFinalizer", "removeFinalizer", "daemonset"}
BY DEF FirstStep, Resources

\* Going from step to step, or to the report of an error, keeps the type of a run.
LEMMA RunType ==
    ASSUME TypeOK
    PROVE  /\ \A step \in ApplySteps : GoTo(step) => run' \in Runs
           /\ \A call \in Calls : Fail(call) => run' \in Runs
           /\ Requeue => run' \in Runs
<1>1. \A step \in ApplySteps : [run EXCEPT !.at = step] \in Runs
  BY DEF TypeOK, Runs
<1>2. \A call \in Calls : [run EXCEPT !.at = "report", !.error = call] \in Runs
  BY DEF TypeOK, Runs, ApplySteps
<1> QED BY <1>1, <1>2, NothingType DEF GoTo, Fail, Requeue

\* A step that writes the status, or fails to, leaves everything else alone and reports for
\* the generation of its run.
LEMMA StatusStep ==
    ASSUME TypeOK, PatchStatus \/ PatchStatusFails \/ ReportError \/ ReportErrorFails
    PROVE  /\ cr' \in Resources
           /\ run' \in Runs /\ queued' \in BOOLEAN
           /\ UNCHANGED <<uids, cache, daemonset, deployment, up>>
           /\ UNCHANGED <<cr.uid, cr.generation, cr.deleting, cr.finalizer>>
           /\ cr'.status.generation \in {cr.status.generation, run.cr.generation}
           /\ run.at \in ApplySteps
           /\ run'.at = "idle" \/ (run'.at = "report" /\ run'.cr = run.cr)
<1> DEFINE Written(status) == cr' = [cr EXCEPT !.status = status]
           Reported == Report(run.cr, run.daemonset, run.deployment)
           Failed   == [cr.status EXCEPT !.generation = run.cr.generation,
                                         !.reason = run.error]
<1>1. Reported \in Statuses /\ Reported.generation = run.cr.generation
  <2>1. Reported \in Statuses
    BY ReportType DEF TypeOK, Runs
  <2> QED BY <2>1 DEF Report
<1>2. Failed \in Statuses /\ Failed.generation = run.cr.generation
  BY DEF TypeOK, Resources, Runs, Statuses, Reasons
<1>3. ASSUME NEW status \in Statuses, status.generation = run.cr.generation, Written(status)
      PROVE  /\ cr' \in Resources
             /\ UNCHANGED <<cr.uid, cr.generation, cr.deleting, cr.finalizer>>
             /\ cr'.status.generation = run.cr.generation
  BY <1>3 DEF TypeOK, Resources
<1>4. UNCHANGED cr \/ Written(Reported) \/ Written(Failed)
  BY DEF PatchStatus, PatchStatusFails, ReportError, ReportErrorFails, ApplyStatus
<1>5. /\ cr' \in Resources
      /\ UNCHANGED <<cr.uid, cr.generation, cr.deleting, cr.finalizer>>
      /\ cr'.status.generation \in {cr.status.generation, run.cr.generation}
  <2>1. CASE UNCHANGED cr
    BY <2>1 DEF TypeOK
  <2> HIDE DEF Written, Reported, Failed
  <2> QED BY <1>1, <1>2, <1>3, <1>4, <2>1
<1>6. run.at \in ApplySteps /\ UNCHANGED <<uids, cache, daemonset, deployment, up>>
  BY DEF PatchStatus, PatchStatusFails, ReportError, ReportErrorFails, ApplySteps
<1>7. /\ run' \in Runs /\ queued' \in BOOLEAN
      /\ run'.at = "idle" \/ (run'.at = "report" /\ run'.cr = run.cr)
  <2>1. CASE Requeue
    BY <2>1, NothingType DEF Requeue, Idle
  <2>2. CASE Fail("status") /\ UNCHANGED queued
    <3>1. run' \in Runs
      BY <2>2, RunType DEF Calls
    <3>2. run'.at = "report" /\ run'.cr = run.cr
      BY <2>2 DEF Fail, TypeOK, Runs
    <3> QED BY <2>2, <3>1, <3>2 DEF TypeOK
  <2> QED BY <2>1, <2>2 DEF PatchStatus, PatchStatusFails, ReportError, ReportErrorFails
<1> QED BY <1>5, <1>6, <1>7

\* The steps of the program keep the types.
LEMMA TypeProgram ==
    ASSUME TypeOK, Start \/ Step \/ SyncCache \/ Restart \/ Stop
    PROVE  TypeOK'
<1>1. CASE Start
  <2>1. run' \in Runs
    <3>1. [Idle EXCEPT !.at = FirstStep(cache), !.cr = cache] \in Runs
      BY NothingType, FirstStepType DEF TypeOK, Runs, ApplySteps
    <3> QED BY <1>1, <3>1, NothingType DEF Start
  <2> QED BY <1>1, <2>1 DEF Start, TypeOK
<1>2. CASE AddFinalizer
  BY <1>2, NothingType DEF AddFinalizer, TypeOK, Resources
<1>3. CASE RemoveFinalizer
  BY <1>3, NothingType DEF RemoveFinalizer, TypeOK, Resources
<1>4. CASE FinalizerFails
  BY <1>4, NothingType DEF FinalizerFails, Requeue, TypeOK
<1>5. CASE ApplyDaemonSet
  BY <1>5, AppliedType, RunType DEF ApplyDaemonSet, Notice, TypeOK, ApplySteps
<1>6. CASE ApplyDaemonSetFails
  BY <1>6, AppliedType, RunType DEF ApplyDaemonSetFails, Notice, TypeOK, Calls
<1>7. CASE ApplyDeployment
  BY <1>7, AppliedType, RunType DEF ApplyDeployment, Notice, TypeOK, ApplySteps
<1>8. CASE ApplyDeploymentFails
  BY <1>8, AppliedType, RunType DEF ApplyDeploymentFails, Notice, TypeOK, Calls
<1>9. CASE ReadDeployment \/ ReadDeploymentFails
  BY <1>9 DEF ReadDeployment, ReadDeploymentFails, TypeOK, Runs, ApplySteps, DeploymentReadiness
<1>10. CASE RemoveDeployment
  BY <1>10, NothingType, RunType
     DEF RemoveDeployment, RemainingDeployment, Notice, TypeOK, ApplySteps
<1>11. CASE RemoveDeploymentFails
  BY <1>11, NothingType, RunType DEF RemoveDeploymentFails, Notice, TypeOK, Calls
<1>12. CASE ReadDaemonSet
  <2>1. run' \in Runs /\ queued' \in BOOLEAN
    <3>1. [run EXCEPT !.at = "status", !.daemonset = daemonset.ready] \in Runs
      BY DEF TypeOK, Runs, DaemonSets, ApplySteps
    <3> QED BY <1>12, <3>1, NothingType DEF ReadDaemonSet, Requeue, TypeOK
  <2> QED BY <1>12, <2>1 DEF ReadDaemonSet, TypeOK
<1>13. CASE ReadDaemonSetFails
  BY <1>13, RunType DEF ReadDaemonSetFails, TypeOK, Calls
<1>14. CASE PatchStatus \/ PatchStatusFails \/ ReportError \/ ReportErrorFails
  BY <1>14, StatusStep DEF TypeOK
<1>15. CASE SyncCache
  BY <1>15 DEF SyncCache, TypeOK
<1>16. CASE Restart
  BY <1>16 DEF Restart, TypeOK
<1>17. CASE Stop
  BY <1>17, NothingType DEF Stop, TypeOK
<1> QED
  BY <1>1, <1>2, <1>3, <1>4, <1>5, <1>6, <1>7, <1>8, <1>9, <1>10, <1>11, <1>12, <1>13,
     <1>14, <1>15, <1>16, <1>17 DEF Step

\* The steps of users and of Kubernetes keep the types.
LEMMA TypeCluster ==
    ASSUME TypeOK, Kubernetes \/ (Disturbance /\ ~Stop)
    PROVE  TypeOK'
<1>1. ASSUME NEW config \in Config, Create(config) PROVE TypeOK'
  <2>1. uids + 1 \in Uids /\ 1 \in Generations
    BY <1>1, BoundAssumption DEF Create, TypeOK, Uids, Generations
  <2>2. Blank(uids + 1, config) \in Resources
    BY <2>1, BlankType
  <2> QED BY <1>1, <2>1, <2>2 DEF Create, TypeOK
<1>2. ASSUME NEW config \in Config, EditSpec(config) PROVE TypeOK'
  <2>1. cr.generation + 1 \in Generations
    BY <1>2, BoundAssumption DEF EditSpec, TypeOK, Resources, Generations
  <2> QED BY <1>2, <2>1 DEF EditSpec, TypeOK, Resources
<1>3. CASE Delete
  BY <1>3, NothingType DEF Delete, TypeOK, Resources
<1>4. CASE TamperWithDaemonSet
  <2>1. \A c \in Config : [daemonset EXCEPT !.config = c] \in DaemonSets
    BY DEF TypeOK, DaemonSets
  <2> QED BY <1>4, <2>1, NothingType DEF TamperWithDaemonSet, TypeOK
<1>5. CASE TamperWithDeployment
  BY <1>5, NothingType DEF TamperWithDeployment, TypeOK
<1>6. CASE PodsFail
  BY <1>6 DEF PodsFail, TypeOK, DaemonSets, Deployments
<1>7. CASE Rollout
  BY <1>7 DEF Rollout, TypeOK, DaemonSets
<1>8. CASE PodsReady
  BY <1>8 DEF PodsReady, TypeOK, DaemonSets
<1>9. CASE DeploymentReady
  BY <1>9 DEF DeploymentReady, TypeOK, Deployments
<1>10. CASE CollectGarbage
  BY <1>10, NothingType DEF CollectGarbage, TypeOK
<1> QED
  BY <1>1, <1>2, <1>3, <1>4, <1>5, <1>6, <1>7, <1>8, <1>9, <1>10
     DEF Disturbance, Kubernetes

-----------------------------------------------------------------------------
(***************************************************************************)
(* What the finalizer holds.                                               *)
(***************************************************************************)

Held == HeldWhileApplying /\ HeldInCache /\ FinalizerHolds /\ DeletionIsKnown

\* A step that leaves the resource, the cache and where the run is alone keeps all of it, and
\* so does one that goes on to a step of reconcile_resource or ends the run.
LEMMA HeldByOthers ==
    ASSUME Held, UNCHANGED <<cache, cr.uid, cr.generation, cr.deleting, cr.finalizer>>,
           \/ run'.at = run.at /\ run'.cr = run.cr
           \/ run.at \in ApplySteps /\ run'.at \in ApplySteps /\ run'.cr = run.cr
           \/ run'.at = "idle"
    PROVE  Held'
<1>1. HeldInCache' /\ FinalizerHolds'
  BY DEF Held, HeldInCache, FinalizerHolds, Precedes
<1>2. HeldWhileApplying'
  BY DEF Held, HeldWhileApplying, Precedes, ApplySteps
<1>3. DeletionIsKnown'
  BY DEF Held, DeletionIsKnown, ApplySteps
<1> QED BY <1>1, <1>2, <1>3 DEF Held

\* Going on in a run keeps what it is for.
LEMMA GoesOn ==
    ASSUME TypeOK
    PROVE  /\ \A step \in ApplySteps : GoTo(step) => run'.at = step /\ run'.cr = run.cr
           /\ \A call \in Calls : Fail(call) => run'.at = "report" /\ run'.cr = run.cr
           /\ Requeue => run'.at = "idle"
<1>1. \A step \in ApplySteps : GoTo(step) => run'.at = step /\ run'.cr = run.cr
  BY DEF TypeOK, Runs, GoTo
<1>2. \A call \in Calls : Fail(call) => run'.at = "report" /\ run'.cr = run.cr
  BY DEF TypeOK, Runs, Fail
<1>3. Requeue => run'.at = "idle"
  BY DEF Requeue, Idle
<1> QED BY <1>1, <1>2, <1>3

\* The steps of reconcile_resource.
LEMMA HeldByReconcile ==
    ASSUME TypeOK, Held,
           \/ FinalizerFails
           \/ ApplyDaemonSet \/ ApplyDaemonSetFails
           \/ ApplyDeployment \/ ApplyDeploymentFails
           \/ ReadDeployment \/ ReadDeploymentFails
           \/ RemoveDeployment \/ RemoveDeploymentFails
           \/ ReadDaemonSet \/ ReadDaemonSetFails
           \/ PatchStatus \/ PatchStatusFails \/ ReportError \/ ReportErrorFails
    PROVE  Held'
<1>1. CASE FinalizerFails
  BY <1>1, HeldByOthers, GoesOn DEF FinalizerFails
<1>2. CASE ApplyDaemonSet \/ ApplyDaemonSetFails
  BY <1>2, HeldByOthers, GoesOn DEF ApplyDaemonSet, ApplyDaemonSetFails, ApplySteps, Calls
<1>3. CASE ApplyDeployment \/ ApplyDeploymentFails
  BY <1>3, HeldByOthers, GoesOn DEF ApplyDeployment, ApplyDeploymentFails, ApplySteps, Calls
<1>4. CASE ReadDeployment \/ ReadDeploymentFails
  <2>1. run'.at = "readDaemonset" /\ run'.cr = run.cr
    BY <1>4 DEF ReadDeployment, ReadDeploymentFails, TypeOK, Runs
  <2> QED BY <1>4, <2>1, HeldByOthers DEF ReadDeployment, ReadDeploymentFails, ApplySteps
<1>5. CASE RemoveDeployment \/ RemoveDeploymentFails
  BY <1>5, HeldByOthers, GoesOn
     DEF RemoveDeployment, RemoveDeploymentFails, ApplySteps, Calls
<1>6. CASE ReadDaemonSet
  <2>1. \/ run'.at = "idle"
        \/ run'.at = "status" /\ run'.cr = run.cr
    BY <1>6, GoesOn DEF ReadDaemonSet, TypeOK, Runs
  <2> QED BY <1>6, <2>1, HeldByOthers DEF ReadDaemonSet, ApplySteps
<1>7. CASE ReadDaemonSetFails
  BY <1>7, HeldByOthers, GoesOn DEF ReadDaemonSetFails, ApplySteps, Calls
<1>8. CASE PatchStatus \/ PatchStatusFails \/ ReportError \/ ReportErrorFails
  BY <1>8, StatusStep, HeldByOthers DEF ApplySteps
<1> QED BY <1>1, <1>2, <1>3, <1>4, <1>5, <1>6, <1>7, <1>8

\* The start and the end of a run, and the cache.
LEMMA HeldByController ==
    ASSUME TypeOK, Held,
           Start \/ AddFinalizer \/ RemoveFinalizer \/ SyncCache \/ Restart \/ Stop
    PROVE  Held'
<1> USE DEF Held, HeldWhileApplying, HeldInCache, FinalizerHolds, DeletionIsKnown, Precedes,
            ApplySteps
<1>1. CASE Start
  <2>1. CASE run' = Idle
    <3>1. run'.at = "idle"
      BY <2>1 DEF Idle
    <3> QED BY <1>1, <3>1, HeldByOthers DEF Start
  <2>2. CASE run' # Idle
    <3>1. run'.at = FirstStep(cache) /\ run'.cr = cache
      <4>1. run' = [Idle EXCEPT !.at = FirstStep(cache), !.cr = cache]
        BY <1>1, <2>2 DEF Start
      <4> QED BY <4>1 DEF Idle
    <3>2. CASE cache.deleting
      <4>1. run'.at \in {"removeFinalizer", "idle"}
        BY <3>1, <3>2 DEF FirstStep, TypeOK, Resources
      <4> QED BY <1>1, <3>2, <4>1 DEF Start
    <3>3. CASE ~cache.deleting
      <4>1. /\ cache.finalizer => run'.at = "daemonset"
            /\ ~cache.finalizer => run'.at = "addFinalizer"
        BY <3>1, <3>3 DEF FirstStep, TypeOK, Resources
      <4> QED BY <1>1, <3>1, <3>3, <4>1 DEF Start
    <3> QED BY <3>2, <3>3
  <2> QED BY <2>1, <2>2
<1>2. CASE AddFinalizer
  <2>1. /\ cr'.finalizer /\ ~cr.finalizer /\ ~cr.deleting /\ cr.uid # 0
        /\ UNCHANGED <<cache, cr.uid, cr.deleting>>
        /\ run.at = "addFinalizer" /\ run'.at = "idle"
    BY <1>2 DEF AddFinalizer, CanAddFinalizer, TypeOK, Resources, Idle
  <2> QED BY <2>1
<1>3. CASE RemoveFinalizer
  <2>1. run.at = "removeFinalizer" /\ cr.finalizer /\ run'.at = "idle" /\ cache' = cache
    BY <1>3 DEF RemoveFinalizer, CanRemoveFinalizer, Idle
  <2>2. cr.deleting /\ cache.deleting
    BY <2>1
  <2>3. ~cr'.finalizer /\ ~cr'.deleting
    BY <1>3, <2>2 DEF RemoveFinalizer, NoResource, Blank
  <2> QED BY <2>1, <2>2, <2>3
<1>4. CASE SyncCache
  BY <1>4 DEF SyncCache, TypeOK, Resources, Generations
<1>5. CASE Restart
  BY <1>5 DEF Restart, TypeOK, Resources, Generations
<1>6. CASE Stop
  BY <1>6 DEF Stop, Idle, NoResource, Blank
<1> QED BY <1>1, <1>2, <1>3, <1>4, <1>5, <1>6

\* Users and Kubernetes.
LEMMA HeldByCluster ==
    ASSUME TypeOK, Held, Kubernetes \/ (Disturbance /\ ~Stop)
    PROVE  Held'
<1>1. ASSUME NEW config \in Config, Create(config) PROVE Held'
  <2>1. ~cr.finalizer /\ ~cr.deleting
    BY <1>1 DEF Create, Held, FinalizerHolds
  <2>2. ~cr'.finalizer /\ ~cr'.deleting /\ UNCHANGED <<cache, run>>
    BY <1>1 DEF Create, Blank
  <2> QED
    BY <2>1, <2>2
       DEF Held, HeldWhileApplying, HeldInCache, FinalizerHolds, DeletionIsKnown
<1>2. ASSUME NEW config \in Config, EditSpec(config) PROVE Held'
  <2>1. /\ cr'.generation = cr.generation + 1
        /\ UNCHANGED <<cache, run, cr.uid, cr.deleting, cr.finalizer>>
    BY <1>2 DEF EditSpec, TypeOK, Resources
  <2>2. /\ cr.generation \in Int
        /\ cache.generation \in Int
        /\ run.cr.generation \in Int
    BY DEF TypeOK, Runs, Resources, Generations
  <2> QED
    BY <2>1, <2>2
       DEF Held, HeldWhileApplying, HeldInCache, FinalizerHolds, DeletionIsKnown, Precedes
<1>3. CASE Delete
  <2>1. CASE cr.finalizer
    <3>1. cr'.deleting /\ UNCHANGED <<cache, run, cr.uid, cr.generation, cr.finalizer>>
      BY <1>3, <2>1 DEF Delete, TypeOK, Resources
    <3> QED
      BY <2>1, <3>1
         DEF Held, HeldWhileApplying, HeldInCache, FinalizerHolds, DeletionIsKnown, Precedes
  <2>2. CASE ~cr.finalizer
    <3>1. ~cr'.finalizer /\ ~cr'.deleting /\ UNCHANGED <<cache, run>>
      BY <1>3, <2>2 DEF Delete, NoResource, Blank
    <3> QED
      BY <2>2, <3>1
         DEF Held, HeldWhileApplying, HeldInCache, FinalizerHolds, DeletionIsKnown
  <2> QED BY <2>1, <2>2
<1>4. CASE TamperWithDaemonSet \/ TamperWithDeployment \/ PodsFail
  BY <1>4, HeldByOthers DEF TamperWithDaemonSet, TamperWithDeployment, PodsFail
<1>5. CASE Kubernetes
  BY <1>5, HeldByOthers
     DEF Kubernetes, Rollout, PodsReady, DeploymentReady, CollectGarbage
<1> QED BY <1>1, <1>2, <1>3, <1>4, <1>5 DEF Disturbance

-----------------------------------------------------------------------------
(***************************************************************************)
(* Generations.                                                            *)
(***************************************************************************)

Known == GenerationsAreKnown /\ UidsAreFresh

\* The numbers in resources and workloads are integers.
LEMMA Numbers ==
    ASSUME TypeOK
    PROVE  /\ uids \in Nat
           /\ cr.uid \in Nat /\ cr.generation \in Nat /\ cr.status.generation \in Nat
           /\ cache.uid \in Nat /\ cache.generation \in Nat
           /\ run.cr.uid \in Nat /\ run.cr.generation \in Nat
           /\ daemonset.owner \in Nat /\ daemonset.generation \in Nat
BY BoundAssumption DEF TypeOK, Resources, Statuses, Runs, DaemonSets, Uids, Generations

\* What the proofs are about, and nothing else: a step that leaves it alone keeps it.
LEMMA KnownByOthers ==
    ASSUME Known,
           UNCHANGED <<uids, cache, cr.uid, cr.generation, cr.status.generation,
                       daemonset.owner, daemonset.generation>>,
           \/ run'.at \notin ApplySteps
           \/ run.at \in ApplySteps /\ run'.cr = run.cr
    PROVE  Known'
<1>1. IsUpToDate(cr)' /\ UidsAreFresh'
  BY DEF Known, GenerationsAreKnown, UidsAreFresh, IsUpToDate
<1>2. (cache.finalizer /\ ~cache.deleting => IsUpToDate(cache))'
  BY DEF Known, GenerationsAreKnown, IsUpToDate
<1>3. run'.at \in ApplySteps
        => IsUpToDate(run.cr)' /\ cache'.uid = run'.cr.uid
           /\ run'.cr.generation <= cache'.generation
  BY DEF Known, GenerationsAreKnown, IsUpToDate
<1> QED BY <1>1, <1>2, <1>3 DEF Known, GenerationsAreKnown

\* A run that applies a resource knows no less than the workloads and the status.
LEMMA RunKnows ==
    ASSUME TypeOK, Held, Known, run.at \in ApplySteps
    PROVE  /\ run.cr.uid = cr.uid /\ run.cr.uid = cache.uid /\ cr.uid # 0
           /\ run.cr.generation <= cr.generation
           /\ run.cr.generation <= cache.generation
           /\ daemonset.owner = cr.uid => daemonset.generation <= run.cr.generation
           /\ cr.status.generation <= run.cr.generation
BY DEF Held, HeldWhileApplying, FinalizerHolds, Precedes, Known, GenerationsAreKnown,
       IsUpToDate

\* The DaemonSet is applied for the run's resource, or not.
LEMMA KnownByApply ==
    ASSUME TypeOK, Held, Known, run.at \in ApplySteps,
           daemonset' \in {daemonset, AppliedDaemonSet},
           UNCHANGED <<uids, cache, cr>>,
           run'.cr = run.cr
    PROVE  Known'
<1>1. CASE daemonset' = daemonset
  BY <1>1, KnownByOthers
<1>2. CASE daemonset' = AppliedDaemonSet
  <2>1. daemonset'.owner = run.cr.uid /\ daemonset'.generation = run.cr.generation
    BY <1>2 DEF AppliedDaemonSet, TypeOK, DaemonSets
  <2> QED
    BY <2>1, RunKnows, Numbers
       DEF Known, GenerationsAreKnown, UidsAreFresh, IsUpToDate
<1> QED BY <1>1, <1>2

\* The status is written for the run's resource, or not.
LEMMA KnownByReport ==
    ASSUME TypeOK, Held, Known, run.at \in ApplySteps,
           run'.at = "idle" \/ run'.cr = run.cr,
           cr'.status.generation \in {cr.status.generation, run.cr.generation},
           UNCHANGED <<uids, cache, daemonset, cr.uid, cr.generation>>
    PROVE  Known'
BY RunKnows, Numbers DEF Known, GenerationsAreKnown, UidsAreFresh, IsUpToDate, ApplySteps

\* The steps of reconcile_resource.
LEMMA KnownByReconcile ==
    ASSUME TypeOK, Held, Known,
           \/ FinalizerFails
           \/ ApplyDaemonSet \/ ApplyDaemonSetFails
           \/ ApplyDeployment \/ ApplyDeploymentFails
           \/ ReadDeployment \/ ReadDeploymentFails
           \/ RemoveDeployment \/ RemoveDeploymentFails
           \/ ReadDaemonSet \/ ReadDaemonSetFails
           \/ PatchStatus \/ PatchStatusFails \/ ReportError \/ ReportErrorFails
    PROVE  Known'
<1>1. CASE FinalizerFails
  BY <1>1, KnownByOthers, GoesOn DEF FinalizerFails, ApplySteps
<1>2. CASE ApplyDaemonSet \/ ApplyDaemonSetFails
  BY <1>2, KnownByApply, GoesOn DEF ApplyDaemonSet, ApplyDaemonSetFails, ApplySteps, Calls
<1>3. CASE ApplyDeployment \/ ApplyDeploymentFails
  BY <1>3, KnownByOthers, GoesOn
     DEF ApplyDeployment, ApplyDeploymentFails, ApplySteps, Calls
<1>4. CASE ReadDeployment \/ ReadDeploymentFails
  <2>1. run'.at = "readDaemonset" /\ run'.cr = run.cr
    BY <1>4 DEF ReadDeployment, ReadDeploymentFails, TypeOK, Runs
  <2> QED BY <1>4, <2>1, KnownByOthers DEF ReadDeployment, ReadDeploymentFails, ApplySteps
<1>5. CASE RemoveDeployment \/ RemoveDeploymentFails
  BY <1>5, KnownByOthers, GoesOn
     DEF RemoveDeployment, RemoveDeploymentFails, ApplySteps, Calls
<1>6. CASE ReadDaemonSet
  <2>1. \/ run'.at = "idle"
        \/ run'.at = "status" /\ run'.cr = run.cr
    BY <1>6, GoesOn DEF ReadDaemonSet, TypeOK, Runs
  <2> QED BY <1>6, <2>1, KnownByOthers DEF ReadDaemonSet, ApplySteps
<1>7. CASE ReadDaemonSetFails
  BY <1>7, KnownByOthers, GoesOn DEF ReadDaemonSetFails, ApplySteps, Calls
<1>8. CASE PatchStatus \/ PatchStatusFails \/ ReportError \/ ReportErrorFails
  BY <1>8, StatusStep, KnownByReport
<1> QED BY <1>1, <1>2, <1>3, <1>4, <1>5, <1>6, <1>7, <1>8

\* The start and the end of a run, and the cache.
LEMMA KnownByController ==
    ASSUME TypeOK, Held, Known,
           Start \/ AddFinalizer \/ RemoveFinalizer \/ SyncCache \/ Restart \/ Stop
    PROVE  Known'
<1>1. CASE Start
  <2>1. CASE run' = Idle
    <3>1. run'.at \notin ApplySteps
      BY <2>1 DEF Idle, ApplySteps
    <3> QED BY <1>1, <3>1, KnownByOthers DEF Start
  <2>2. CASE run' # Idle
    <3>1. run'.at = FirstStep(cache) /\ run'.cr = cache
      <4>1. run' = [Idle EXCEPT !.at = FirstStep(cache), !.cr = cache]
        BY <1>1, <2>2 DEF Start
      <4> QED BY <4>1 DEF Idle
    <3>2. CASE cache.finalizer /\ ~cache.deleting
      <4>1. IsUpToDate(cache)
        BY <3>2 DEF Known, GenerationsAreKnown
      <4> QED
        BY <1>1, <3>1, <4>1, Numbers
           DEF Start, Known, GenerationsAreKnown, UidsAreFresh, IsUpToDate
    <3>3. CASE ~cache.finalizer \/ cache.deleting
      <4>1. run'.at \notin ApplySteps
        BY <3>1, <3>3 DEF FirstStep, TypeOK, Resources, ApplySteps
      <4> QED BY <1>1, <4>1, KnownByOthers DEF Start
    <3> QED BY <3>2, <3>3
  <2> QED BY <2>1, <2>2
<1>2. CASE AddFinalizer
  <2>1. UNCHANGED <<cr.uid, cr.generation, cr.status>>
    BY <1>2 DEF AddFinalizer, TypeOK, Resources
  <2> QED BY <1>2, <2>1, KnownByOthers DEF AddFinalizer, Idle, ApplySteps
<1>3. CASE RemoveFinalizer
  <2>1. cr.deleting /\ cache.deleting
    BY <1>3 DEF RemoveFinalizer, CanRemoveFinalizer, Held, DeletionIsKnown
  <2>2. cr' = NoResource /\ run'.at = "idle" /\ UNCHANGED <<uids, cache, daemonset>>
    BY <1>3, <2>1 DEF RemoveFinalizer, Idle
  <2>3. cr'.uid = 0 /\ cr'.generation = 0 /\ cr'.status.generation = 0
    BY <2>2 DEF NoResource, Blank, NoStatus
  <2> QED
    BY <2>1, <2>2, <2>3, Numbers
       DEF Known, GenerationsAreKnown, UidsAreFresh, IsUpToDate, ApplySteps
<1>4. CASE SyncCache
  BY <1>4, RunKnows, Numbers
     DEF SyncCache, Known, GenerationsAreKnown, UidsAreFresh, IsUpToDate
<1>5. CASE Restart
  BY <1>5, RunKnows, Numbers
     DEF Restart, Known, GenerationsAreKnown, UidsAreFresh, IsUpToDate
<1>6. CASE Stop
  <2>1. run'.at = "idle" /\ ~cache'.finalizer
    BY <1>6 DEF Stop, Idle, NoResource, Blank
  <2> QED
    BY <1>6, <2>1
       DEF Stop, Known, GenerationsAreKnown, UidsAreFresh, IsUpToDate, ApplySteps
<1> QED BY <1>1, <1>2, <1>3, <1>4, <1>5, <1>6

\* Users and Kubernetes.
LEMMA KnownByCluster ==
    ASSUME TypeOK, Held, Known, Kubernetes \/ (Disturbance /\ ~Stop)
    PROVE  Known'
<1>1. ASSUME NEW config \in Config, Create(config) PROVE Known'
  <2>1. ~cr.finalizer
    BY <1>1 DEF Create, Held, FinalizerHolds
  <2>2. run.at \notin ApplySteps /\ (cache.finalizer => cache.deleting)
    BY <2>1 DEF Held, HeldWhileApplying, HeldInCache
  <2>3. /\ cr'.uid = uids + 1 /\ cr'.status.generation = 0 /\ cr'.generation \in Nat
        /\ uids' = uids + 1
        /\ UNCHANGED <<run, cache, daemonset>>
    BY <1>1 DEF Create, Blank, NoStatus
  <2> QED
    BY <2>2, <2>3, Numbers DEF Known, GenerationsAreKnown, UidsAreFresh, IsUpToDate
<1>2. ASSUME NEW config \in Config, EditSpec(config) PROVE Known'
  <2>1. /\ cr'.generation = cr.generation + 1
        /\ UNCHANGED <<uids, run, cache, daemonset, cr.uid, cr.status>>
    BY <1>2 DEF EditSpec, TypeOK, Resources
  <2> QED
    BY <2>1, Numbers DEF Known, GenerationsAreKnown, UidsAreFresh, IsUpToDate
<1>3. CASE Delete
  <2>1. CASE cr.finalizer
    <3>1. UNCHANGED <<uids, run, cache, daemonset, cr.uid, cr.generation, cr.status>>
      BY <1>3, <2>1 DEF Delete, TypeOK, Resources
    <3> QED BY <3>1, KnownByOthers
  <2>2. CASE ~cr.finalizer
    <3>1. run.at \notin ApplySteps /\ (cache.finalizer => cache.deleting)
      BY <2>2 DEF Held, HeldWhileApplying, HeldInCache
    <3>2. cr' = NoResource /\ UNCHANGED <<uids, run, cache, daemonset>>
      BY <1>3, <2>2 DEF Delete
    <3>3. cr'.uid = 0 /\ cr'.generation = 0 /\ cr'.status.generation = 0
      BY <3>2 DEF NoResource, Blank, NoStatus
    <3> QED
      BY <3>1, <3>2, <3>3, Numbers DEF Known, GenerationsAreKnown, UidsAreFresh, IsUpToDate
  <2> QED BY <2>1, <2>2
<1>4. ASSUME daemonset' = NoDaemonSet, UNCHANGED <<uids, cr, cache, run>> PROVE Known'
  <2>1. daemonset'.owner = 0
    BY <1>4 DEF NoDaemonSet
  <2> QED
    BY <1>4, <2>1, Numbers DEF Known, GenerationsAreKnown, UidsAreFresh, IsUpToDate
<1>5. ASSUME UNCHANGED <<uids, cr, cache, run, daemonset.owner, daemonset.generation>>
      PROVE Known'
  BY <1>5, KnownByOthers
<1>6. CASE TamperWithDaemonSet
  <2>1. CASE daemonset' = NoDaemonSet
    BY <1>4, <1>6, <2>1 DEF TamperWithDaemonSet
  <2>2. ASSUME NEW c \in Config, daemonset' = [daemonset EXCEPT !.config = c] PROVE Known'
    <3>1. UNCHANGED <<daemonset.owner, daemonset.generation>>
      BY <2>2 DEF TypeOK, DaemonSets
    <3> QED BY <1>5, <1>6, <3>1 DEF TamperWithDaemonSet
  <2> QED BY <1>6, <2>1, <2>2 DEF TamperWithDaemonSet
<1>7. CASE TamperWithDeployment
  BY <1>5, <1>7 DEF TamperWithDeployment
<1>8. CASE PodsFail \/ Rollout \/ PodsReady \/ DeploymentReady
  <2>1. UNCHANGED <<daemonset.owner, daemonset.generation>>
    BY <1>8 DEF PodsFail, Rollout, PodsReady, DeploymentReady, TypeOK, DaemonSets
  <2> QED BY <1>5, <1>8, <2>1 DEF PodsFail, Rollout, PodsReady, DeploymentReady
<1>9. CASE CollectGarbage
  <2>1. daemonset' = NoDaemonSet \/ daemonset' = daemonset
    BY <1>9 DEF CollectGarbage
  <2> QED BY <1>4, <1>5, <1>9, <2>1 DEF CollectGarbage
<1> QED
  BY <1>1, <1>2, <1>3, <1>6, <1>7, <1>8, <1>9 DEF Disturbance, Kubernetes

-----------------------------------------------------------------------------
(***************************************************************************)
(* The theorems.                                                           *)
(***************************************************************************)

\* Before anything is created the invariant holds.
LEMMA InvInit == Init => Inv
<1> SUFFICES ASSUME Init PROVE Inv
  OBVIOUS
<1>1. TypeOK
  <2>1. uids \in Uids
    BY BoundAssumption DEF Init, Uids
  <2> QED BY <2>1, NothingType DEF Init, TypeOK
<1>2. /\ cr.uid = 0 /\ cr.generation = 0 /\ cr.status.generation = 0
      /\ ~cr.deleting /\ ~cr.finalizer
      /\ ~cache.deleting /\ ~cache.finalizer
    BY DEF Init, NoResource, Blank, NoStatus
<1>3. run.at = "idle" /\ daemonset.owner = 0
  BY DEF Init, Idle, NoDaemonSet
<1>4. HeldWhileApplying /\ HeldInCache /\ FinalizerHolds /\ DeletionIsKnown
  <2>1. HeldWhileApplying /\ HeldInCache
    BY <1>2, <1>3 DEF HeldWhileApplying, HeldInCache, ApplySteps
  <2>2. FinalizerHolds /\ DeletionIsKnown
    BY <1>2, <1>3 DEF FinalizerHolds, DeletionIsKnown
  <2> QED BY <2>1, <2>2
<1>5. GenerationsAreKnown
  BY <1>2, <1>3 DEF GenerationsAreKnown, IsUpToDate, ApplySteps
<1>6. UidsAreFresh
  BY <1>2, <1>3 DEF Init, UidsAreFresh
<1> QED BY <1>1, <1>4, <1>5, <1>6 DEF Inv

\* Every step keeps it.
LEMMA InvStep == Inv /\ [Next]_vars => Inv'
<1> SUFFICES ASSUME Inv, [Next]_vars PROVE TypeOK' /\ Held' /\ Known'
  BY DEF Inv, Held, Known
<1>1. TypeOK /\ Held /\ Known
  BY DEF Inv, Held, Known
<1>2. CASE Start \/ Step \/ SyncCache \/ Restart \/ Stop
  <2>1. TypeOK'
    BY <1>1, <1>2, TypeProgram
  <2>2. Held'
    BY <1>1, <1>2, HeldByReconcile, HeldByController DEF Step
  <2>3. Known'
    BY <1>1, <1>2, KnownByReconcile, KnownByController DEF Step
  <2> QED BY <2>1, <2>2, <2>3
<1>3. CASE Kubernetes \/ (Disturbance /\ ~Stop)
  BY <1>1, <1>3, TypeCluster, HeldByCluster, KnownByCluster
<1>4. CASE UNCHANGED vars
  <2>1. TypeOK'
    BY <1>1, <1>4 DEF vars, TypeOK
  <2>2. Held' /\ Known'
    BY <1>1, <1>4, HeldByOthers, KnownByOthers DEF vars
  <2> QED BY <2>1, <2>2
<1> QED BY <1>2, <1>3, <1>4 DEF Next

\* The finalizer, the cache and the run in progress always agree on which resource may be
\* applied, and on how far it has come.
THEOREM Invariance == Spec => []Inv
<1>1. Init => Inv
  BY InvInit
<1>2. Inv /\ [Next]_vars => Inv'
  BY InvStep
<1> QED BY <1>1, <1>2, PTL DEF Spec

\* Every variable of the operator keeps its type.
THEOREM TypeCorrect == Spec => []TypeOK
<1>1. Inv => TypeOK
  BY DEF Inv
<1> QED BY <1>1, Invariance, PTL

\* The resource a run applies is held by the finalizer until the run ends.
THEOREM Holding == Spec => []HeldWhileApplying
<1>1. Inv => HeldWhileApplying
  BY DEF Inv
<1> QED BY <1>1, Invariance, PTL

\* A step that applies and reports nothing advances.
LEMMA AdvanceByOthers ==
    ASSUME TypeOK,
           \/ UNCHANGED <<daemonset.owner, daemonset.generation>>
           \/ daemonset'.owner # daemonset.owner,
           \/ UNCHANGED cr.status.generation
           \/ cr'.uid # cr.uid
    PROVE  Advance
BY Numbers DEF Advance

\* No step goes back.
LEMMA AdvanceStep == Inv /\ [Next]_vars => Advance
<1> SUFFICES ASSUME TypeOK, Held, Known, [Next]_vars PROVE Advance
  BY DEF Inv, Held, Known
<1>1. CASE ApplyDaemonSet \/ ApplyDaemonSetFails
  <2>1. run.at \in ApplySteps /\ cr' = cr /\ daemonset' \in {daemonset, AppliedDaemonSet}
    BY <1>1 DEF ApplyDaemonSet, ApplyDaemonSetFails, ApplySteps
  <2>2. AppliedDaemonSet.owner = cr.uid /\ AppliedDaemonSet.generation = run.cr.generation
    BY <2>1, RunKnows DEF AppliedDaemonSet, TypeOK, DaemonSets
  <2> QED BY <2>1, <2>2, RunKnows, Numbers DEF Advance
<1>2. CASE PatchStatus \/ PatchStatusFails \/ ReportError \/ ReportErrorFails
  BY <1>2, StatusStep, RunKnows, Numbers DEF Advance
<1>3. CASE \/ Start \/ FinalizerFails
           \/ ApplyDeployment \/ ApplyDeploymentFails
           \/ ReadDeployment \/ ReadDeploymentFails
           \/ RemoveDeployment \/ RemoveDeploymentFails
           \/ ReadDaemonSet \/ ReadDaemonSetFails
           \/ SyncCache \/ Restart \/ Stop
           \/ TamperWithDeployment \/ DeploymentReady
           \/ UNCHANGED vars
  <2>1. UNCHANGED <<cr, daemonset>>
    BY <1>3
       DEF Start, FinalizerFails, ApplyDeployment, ApplyDeploymentFails, ReadDeployment,
           ReadDeploymentFails, RemoveDeployment, RemoveDeploymentFails, ReadDaemonSet,
           ReadDaemonSetFails, SyncCache, Restart, Stop, TamperWithDeployment,
           DeploymentReady, vars
  <2> QED BY <2>1, AdvanceByOthers
<1>4. CASE AddFinalizer \/ (\E config \in Config : EditSpec(config))
  <2>1. UNCHANGED <<cr.status, daemonset>>
    BY <1>4 DEF AddFinalizer, EditSpec, TypeOK, Resources
  <2> QED BY <2>1, AdvanceByOthers
<1>5. CASE RemoveFinalizer \/ Delete \/ (\E config \in Config : Create(config))
  <2>1. daemonset' = daemonset
    BY <1>5 DEF RemoveFinalizer, Delete, Create
  <2>2. cr'.uid # cr.uid \/ cr'.status = cr.status
    BY <1>5, Numbers
       DEF RemoveFinalizer, CanRemoveFinalizer, Delete, Create, NoResource, Blank, TypeOK,
           Resources
  <2> QED BY <2>1, <2>2, AdvanceByOthers
<1>6. CASE TamperWithDaemonSet \/ PodsFail \/ Rollout \/ PodsReady \/ CollectGarbage
  <2>1. cr' = cr
    BY <1>6 DEF TamperWithDaemonSet, PodsFail, Rollout, PodsReady, CollectGarbage
  <2>2. \/ UNCHANGED <<daemonset.owner, daemonset.generation>>
        \/ daemonset'.owner # daemonset.owner
    <3>1. CASE TamperWithDaemonSet
      <4>1. \/ daemonset' = NoDaemonSet /\ daemonset.owner # 0
            \/ \E c \in Config : daemonset' = [daemonset EXCEPT !.config = c]
        BY <3>1 DEF TamperWithDaemonSet
      <4>2. NoDaemonSet.owner = 0
        BY DEF NoDaemonSet
      <4> QED BY <4>1, <4>2 DEF TypeOK, DaemonSets
    <3>2. CASE PodsFail \/ Rollout \/ PodsReady
      BY <3>2 DEF PodsFail, Rollout, PodsReady, TypeOK, DaemonSets
    <3>3. CASE CollectGarbage
      BY <3>3 DEF CollectGarbage, NoDaemonSet
    <3> QED BY <1>6, <3>1, <3>2, <3>3
  <2> QED BY <2>1, <2>2, AdvanceByOthers
<1> QED
  BY <1>1, <1>2, <1>3, <1>4, <1>5, <1>6 DEF Next, Step, Kubernetes, Disturbance

\* No run, whatever outdated copy of the resource it started from, goes back to an earlier
\* generation than the one already applied or reported on.
THEOREM Advancing == Spec => GenerationsAdvance
<1>1. Inv /\ [Next]_vars => [Advance]_vars
  BY AdvanceStep
<1>2. Spec => [][Advance]_vars
  BY <1>1, Invariance, PTL DEF Spec
<1> QED BY <1>2 DEF GenerationsAdvance

-----------------------------------------------------------------------------
(***************************************************************************)
(* No resource is forgotten.                                               *)
(***************************************************************************)

\* The cache is what the resource once was.
CacheIsPast ==
    /\ cache.uid <= uids
    /\ cr.uid # 0 /\ cache.uid = cr.uid => Precedes(cache, cr)

\* Every step leaves the cache in the past.
LEMMA CacheIsPastStep == Inv /\ CacheIsPast /\ [Next]_vars => CacheIsPast'
<1> SUFFICES ASSUME Inv, CacheIsPast, [Next]_vars PROVE CacheIsPast'
  OBVIOUS
<1> USE DEF CacheIsPast, Precedes
<1>1. TypeOK /\ UidsAreFresh
  BY DEF Inv
<1>2. /\ cr.uid \in Nat /\ cr.generation \in Nat /\ uids \in Nat /\ cr.deleting \in BOOLEAN
      /\ cache.uid \in Nat /\ cache.generation \in Nat
  BY <1>1, Numbers DEF TypeOK, Resources
<1>3. CASE UNCHANGED <<cache, uids>> /\ UNCHANGED <<cr.uid, cr.generation, cr.deleting>>
  BY <1>3
<1>4. CASE UNCHANGED <<cache, uids>> /\ cr' = NoResource
  BY <1>4 DEF NoResource, Blank
<1>5. ASSUME NEW config \in Config, Create(config) PROVE CacheIsPast'
  <2>1. cr'.uid = uids + 1 /\ uids' = uids + 1 /\ cache' = cache
    BY <1>5 DEF Create, Blank
  <2> QED
    BY <1>2, <2>1
<1>6. ASSUME NEW config \in Config, EditSpec(config) PROVE CacheIsPast'
  <2>1. /\ cr'.uid = cr.uid /\ cr'.generation = cr.generation + 1 /\ cr'.deleting = cr.deleting
        /\ UNCHANGED <<uids, cache>>
    BY <1>1, <1>6 DEF EditSpec, TypeOK, Resources
  <2> QED
    BY <1>2, <2>1
<1>7. CASE Delete
  <2>1. CASE cr' = NoResource
    BY <1>4, <1>7, <2>1 DEF Delete
  <2>2. CASE cr' = [cr EXCEPT !.deleting = TRUE]
    <3>1. /\ cr'.uid = cr.uid /\ cr'.generation = cr.generation /\ cr'.deleting = TRUE
          /\ UNCHANGED <<uids, cache>>
      BY <1>1, <1>7, <2>2 DEF Delete, TypeOK, Resources
    <3> QED
      BY <1>2, <3>1
  <2> QED
    BY <1>7, <2>1, <2>2 DEF Delete
<1>8. CASE SyncCache \/ Restart
  <2>1. cache' = cr /\ UNCHANGED <<cr, uids>>
    BY <1>8 DEF SyncCache, Restart
  <2> QED
    BY <1>1, <1>2, <2>1 DEF UidsAreFresh
<1>9. CASE Stop
  <2>1. cache'.uid = 0 /\ cache'.generation = 0 /\ UNCHANGED <<cr, uids>>
    BY <1>9 DEF Stop, NoResource, Blank
  <2> QED
    BY <1>2, <2>1
<1>10. CASE AddFinalizer \/ RemoveFinalizer
  <2>1. UNCHANGED <<cache, uids>>
    BY <1>10 DEF AddFinalizer, RemoveFinalizer
  <2>2. cr' = NoResource \/ UNCHANGED <<cr.uid, cr.generation, cr.deleting>>
    BY <1>1, <1>10 DEF AddFinalizer, RemoveFinalizer, TypeOK, Resources
  <2> QED
    BY <1>3, <1>4, <2>1, <2>2
<1>11. CASE PatchStatus \/ PatchStatusFails \/ ReportError
  <2>1. UNCHANGED <<cache, uids>>
    BY <1>11 DEF PatchStatus, PatchStatusFails, ReportError
  <2>2. UNCHANGED <<cr.uid, cr.generation, cr.deleting>>
    BY <1>1, <1>11 DEF PatchStatus, PatchStatusFails, ReportError, ApplyStatus, TypeOK, Resources
  <2> QED
    BY <1>3, <2>1, <2>2
<1>12. CASE UNCHANGED <<cache, uids, cr>>
  BY <1>3, <1>12
<1>13. CASE \/ Start \/ FinalizerFails \/ ApplyDaemonSet \/ ApplyDaemonSetFails
            \/ ApplyDeployment \/ ApplyDeploymentFails \/ ReadDeployment
            \/ ReadDeploymentFails \/ RemoveDeployment \/ RemoveDeploymentFails
            \/ ReadDaemonSet \/ ReadDaemonSetFails \/ ReportErrorFails
            \/ Kubernetes \/ TamperWithDaemonSet \/ TamperWithDeployment \/ PodsFail
            \/ UNCHANGED vars
  BY <1>12, <1>13
     DEF Start, FinalizerFails, ApplyDaemonSet, ApplyDaemonSetFails, ApplyDeployment,
         ApplyDeploymentFails, ReadDeployment, ReadDeploymentFails, RemoveDeployment,
         RemoveDeploymentFails, ReadDaemonSet, ReadDaemonSetFails, ReportErrorFails, Kubernetes,
         Rollout, PodsReady, DeploymentReady, CollectGarbage, TamperWithDaemonSet,
         TamperWithDeployment, PodsFail, vars
<1> QED
  BY <1>5, <1>6, <1>7, <1>8, <1>9, <1>10, <1>11, <1>13 DEF Next, Step, Disturbance

\* Whoever changes the resource makes it differ from the cache, and whoever ends a run asks for
\* the next one or has changed the resource.
LEMMA StaysDueStep == Inv /\ CacheIsPast /\ ResourceStaysDue /\ [Next]_vars => ResourceStaysDue'
<1> SUFFICES ASSUME Inv, CacheIsPast, ResourceStaysDue, [Next]_vars PROVE ResourceStaysDue'
  OBVIOUS
<1> USE DEF ResourceStaysDue
<1>1. TypeOK /\ FinalizerHolds /\ HeldInCache /\ DeletionIsKnown
  BY DEF Inv
<1>2. /\ cr.uid \in Nat /\ cr.generation \in Nat /\ uids \in Nat
      /\ cache.uid \in Nat /\ cache.generation \in Nat
      /\ run \in Runs
  BY <1>1, Numbers DEF TypeOK, Resources
<1>3. CASE queued' \/ run'.at # "idle" \/ ~up' \/ cr'.uid = 0
  BY <1>3
<1>4. CASE Start
  <2>1. UNCHANGED <<cr, cache, up>>
    BY <1>4 DEF Start
  <2>2. CASE cache.uid = 0 \/ FirstStep(cache) = "idle"
    <3>1. cr.uid = 0 \/ cache # cr
      BY <1>1, <2>2 DEF FirstStep, FinalizerHolds, TypeOK, Resources
    <3> QED
      BY <2>1, <3>1
  <2>3. CASE ~(cache.uid = 0 \/ FirstStep(cache) = "idle")
    <3>1. run'.at = FirstStep(cache)
      BY <1>4, <2>3 DEF Start, Idle
    <3> QED
      BY <1>3, <2>3, <3>1
  <2> QED
    BY <2>2, <2>3
<1>5. CASE AddFinalizer
  <2>1. cr' = [cr EXCEPT !.finalizer = TRUE] /\ ~cr.finalizer /\ ~cr.deleting /\ cache' = cache
    BY <1>5 DEF AddFinalizer, CanAddFinalizer
  <2>2. cr'.finalizer /\ ~cr'.deleting
    BY <1>1, <2>1 DEF TypeOK, Resources
  <2>3. cache # cr'
    BY <1>1, <2>1, <2>2 DEF HeldInCache
  <2> QED
    BY <2>1, <2>3
<1>6. CASE RemoveFinalizer
  <2>1. cr.finalizer /\ run.at = "removeFinalizer"
    BY <1>6 DEF RemoveFinalizer, CanRemoveFinalizer
  <2>2. cr.deleting
    BY <1>1, <2>1 DEF DeletionIsKnown
  <2> QED
    BY <1>3, <1>6, <2>2 DEF RemoveFinalizer, NoResource, Blank
<1>7. CASE FinalizerFails \/ PatchStatus \/ ReportError \/ ReportErrorFails
  BY <1>3, <1>7 DEF FinalizerFails, PatchStatus, ReportError, ReportErrorFails, Requeue
<1>8. CASE \/ ApplyDaemonSet \/ ApplyDaemonSetFails \/ ApplyDeployment \/ ApplyDeploymentFails
           \/ ReadDeployment \/ ReadDeploymentFails \/ RemoveDeployment \/ RemoveDeploymentFails
           \/ ReadDaemonSetFails \/ PatchStatusFails
  BY <1>2, <1>3, <1>8
     DEF ApplyDaemonSet, ApplyDaemonSetFails, ApplyDeployment, ApplyDeploymentFails,
         ReadDeployment, ReadDeploymentFails, RemoveDeployment, RemoveDeploymentFails,
         ReadDaemonSetFails, PatchStatusFails, GoTo, Fail, Runs
<1>9. CASE ReadDaemonSet
  BY <1>2, <1>3, <1>9 DEF ReadDaemonSet, Requeue, Runs
<1>10. CASE SyncCache \/ Restart \/ Stop
  BY <1>3, <1>10 DEF SyncCache, Restart, Stop
<1>11. CASE Kubernetes \/ TamperWithDaemonSet \/ TamperWithDeployment \/ PodsFail
  <2>1. queued' = up /\ up' = up
    BY <1>11
       DEF Kubernetes, Rollout, PodsReady, DeploymentReady, CollectGarbage, TamperWithDaemonSet,
           TamperWithDeployment, PodsFail
  <2> QED
    BY <2>1
<1>12. ASSUME NEW config \in Config, Create(config) PROVE ResourceStaysDue'
  <2>1. cr'.uid = uids + 1 /\ cache' = cache
    BY <1>12 DEF Create, Blank
  <2>2. cache # cr'
    BY <1>2, <2>1 DEF CacheIsPast
  <2> QED
    BY <2>1, <2>2
<1>13. ASSUME NEW config \in Config, EditSpec(config) PROVE ResourceStaysDue'
  <2>1. cr.uid # 0 /\ cr'.uid = cr.uid /\ cr'.generation = cr.generation + 1 /\ cache' = cache
    BY <1>1, <1>13 DEF EditSpec, TypeOK, Resources
  <2>2. cache # cr'
    BY <1>2, <2>1 DEF CacheIsPast, Precedes
  <2> QED
    BY <2>1, <2>2
<1>14. CASE Delete
  <2>1. cr.uid # 0 /\ ~cr.deleting /\ cache' = cache
    BY <1>14 DEF Delete
  <2>2. CASE cr' = NoResource
    BY <1>3, <2>2 DEF NoResource, Blank
  <2>3. CASE cr' = [cr EXCEPT !.deleting = TRUE]
    <3>1. cr'.uid = cr.uid /\ cr'.deleting
      BY <1>1, <2>3 DEF TypeOK, Resources
    <3>2. cache # cr'
      BY <2>1, <3>1 DEF CacheIsPast, Precedes
    <3> QED
      BY <2>1, <3>2
  <2> QED
    BY <1>14, <2>2, <2>3 DEF Delete
<1>15. CASE UNCHANGED vars
  BY <1>15 DEF vars
<1> QED
  BY <1>4, <1>5, <1>6, <1>7, <1>8, <1>9, <1>10, <1>11, <1>12, <1>13, <1>14, <1>15
     DEF Next, Step, Disturbance

\* As long as the resource is there, a run of it is under way or due, or an event is to come.
THEOREM NeverForgotten == Spec => []ResourceStaysDue
<1>1. Init => CacheIsPast /\ ResourceStaysDue
  BY DEF Init, CacheIsPast, ResourceStaysDue, NoResource, Blank
<1> QED
  BY <1>1, Invariance, CacheIsPastStep, StaysDueStep, PTL DEF Spec

-----------------------------------------------------------------------------
(***************************************************************************)
(* No work is lost.                                                        *)
(***************************************************************************)

\* A run belongs to a running operator, and is on the branch of reconcile_resource that its
\* configuration asks for.
RunIsOnCourse ==
    /\ run.at # "idle" => up
    /\ run.at \in {"deployment", "readDeployment"} => run.cr.config \in Online
    /\ run.at = "removeDeployment" => run.cr.config \notin Online

\* Every step of a run but its first and last goes to the next on its branch, and the operator
\* stops together with its run.
LEMMA OnCourseStep == TypeOK /\ RunIsOnCourse /\ [Next]_vars => RunIsOnCourse'
<1> SUFFICES ASSUME TypeOK, RunIsOnCourse, [Next]_vars PROVE RunIsOnCourse'
  OBVIOUS
<1> USE DEF RunIsOnCourse
<1>1. run \in Runs
  BY DEF TypeOK
<1>2. CASE /\ run'.at \in {"idle", "addFinalizer", "removeFinalizer", "daemonset"}
           /\ run'.at # "idle" => up'
  BY <1>2
<1>3. CASE run' = run /\ (up => up')
  BY <1>3
<1>4. CASE Start
  <2>1. up /\ up' = up
    BY <1>4 DEF Start
  <2>2. run'.at \in {"idle", FirstStep(cache)}
    BY <1>4 DEF Start, Idle
  <2>3. FirstStep(cache) \in {"idle", "addFinalizer", "removeFinalizer", "daemonset"}
    BY DEF FirstStep, TypeOK, Resources
  <2> QED
    BY <1>2, <2>1, <2>2, <2>3
<1>5. CASE \/ AddFinalizer \/ RemoveFinalizer \/ FinalizerFails \/ PatchStatus \/ ReportError
           \/ ReportErrorFails \/ Stop
  <2>1. run' = Idle
    BY <1>5
       DEF AddFinalizer, RemoveFinalizer, FinalizerFails, PatchStatus, ReportError,
           ReportErrorFails, Stop, Requeue
  <2> QED
    BY <1>2, <2>1 DEF Idle
<1>6. CASE \/ ApplyDaemonSetFails \/ ApplyDeploymentFails \/ RemoveDeploymentFails
           \/ ReadDaemonSetFails \/ PatchStatusFails
  <2>1. run.at # "idle" /\ up' = up
    BY <1>6
       DEF ApplyDaemonSetFails, ApplyDeploymentFails, RemoveDeploymentFails, ReadDaemonSetFails,
           PatchStatusFails
  <2>2. run'.at = "report"
    BY <1>1, <1>6
       DEF ApplyDaemonSetFails, ApplyDeploymentFails, RemoveDeploymentFails, ReadDaemonSetFails,
           PatchStatusFails, Fail, Runs
  <2> QED
    BY <2>1, <2>2
<1>7. CASE ApplyDaemonSet \/ ApplyDeployment \/ RemoveDeployment
  BY <1>1, <1>7 DEF ApplyDaemonSet, ApplyDeployment, RemoveDeployment, GoTo, Runs
<1>8. CASE ReadDeployment \/ ReadDeploymentFails \/ ReadDaemonSet
  <2>1. up' = up /\ run.at # "idle"
    BY <1>8 DEF ReadDeployment, ReadDeploymentFails, ReadDaemonSet
  <2>2. CASE ReadDeployment \/ ReadDeploymentFails
    <3>1. run'.at = "readDaemonset"
      BY <1>1, <2>2 DEF ReadDeployment, ReadDeploymentFails, Runs
    <3> QED
      BY <2>1, <3>1
  <2>3. CASE ReadDaemonSet /\ Requeue
    BY <1>2, <2>1, <2>3 DEF Requeue, Idle
  <2>4. CASE ReadDaemonSet /\ ~Requeue
    <3>1. run'.at = "status"
      BY <1>1, <2>4 DEF ReadDaemonSet, Runs
    <3> QED
      BY <2>1, <3>1
  <2> QED
    BY <1>8, <2>2, <2>3, <2>4
<1>9. CASE \/ SyncCache \/ Restart \/ Kubernetes \/ Delete \/ TamperWithDaemonSet
           \/ TamperWithDeployment \/ PodsFail \/ UNCHANGED vars
           \/ \E config \in Config : Create(config) \/ EditSpec(config)
  <2>1. run' = run /\ (up => up')
    BY <1>9
       DEF SyncCache, Restart, Kubernetes, Rollout, PodsReady, DeploymentReady, CollectGarbage,
           Delete, TamperWithDaemonSet, TamperWithDeployment, PodsFail, vars, Create, EditSpec
  <2> QED
    BY <1>3, <2>1
<1> QED
  BY <1>4, <1>5, <1>6, <1>7, <1>8, <1>9 DEF Next, Step, Disturbance

\* Only the run applies what it then relies on, and whoever else touches a workload makes
\* another run due, unless the operator is down, and then there is no run.
LEMMA AppliedStep == TypeOK /\ RunIsOnCourse /\ AppliedOrDue /\ [Next]_vars => AppliedOrDue'
<1> SUFFICES ASSUME TypeOK, RunIsOnCourse, AppliedOrDue, [Next]_vars PROVE AppliedOrDue'
  OBVIOUS
<1>1. run \in Runs /\ daemonset \in DaemonSets /\ deployment \in Deployments
  BY DEF TypeOK
<1> DEFINE Working == {"deployment", "removeDeployment", "readDeployment", "readDaemonset",
                       "status"}
<1>2. CASE run'.at \notin Working
  BY <1>2 DEF AppliedOrDue
<1>3. CASE queued'
  BY <1>3 DEF AppliedOrDue
<1>4. CASE UNCHANGED <<run, daemonset, deployment>> /\ (queued => queued')
  BY <1>4 DEF AppliedOrDue, DaemonSetIsApplied, DeploymentIsApplied
<1>5. CASE Start
  <2>1. run'.at \in {"idle", FirstStep(cache)}
    BY <1>5 DEF Start, Idle
  <2>2. FirstStep(cache) \in {"idle", "addFinalizer", "removeFinalizer", "daemonset"}
    BY DEF FirstStep, TypeOK, Resources
  <2> QED
    BY <1>2, <2>1, <2>2
<1>6. CASE \/ AddFinalizer \/ RemoveFinalizer \/ FinalizerFails \/ PatchStatus \/ ReportError
           \/ ReportErrorFails \/ Stop
  <2>1. run' = Idle
    BY <1>6
       DEF AddFinalizer, RemoveFinalizer, FinalizerFails, PatchStatus, ReportError,
           ReportErrorFails, Stop, Requeue
  <2> QED
    BY <1>2, <2>1 DEF Idle
<1>7. CASE \/ ApplyDaemonSetFails \/ ApplyDeploymentFails \/ RemoveDeploymentFails
           \/ ReadDaemonSetFails \/ PatchStatusFails
  <2>1. run'.at = "report"
    BY <1>1, <1>7
       DEF ApplyDaemonSetFails, ApplyDeploymentFails, RemoveDeploymentFails, ReadDaemonSetFails,
           PatchStatusFails, Fail, Runs
  <2> QED
    BY <1>2, <2>1
<1>8. CASE ApplyDaemonSet
  <2>1. daemonset' = AppliedDaemonSet /\ run'.cr = run.cr
        /\ run'.at \in {"deployment", "removeDeployment"}
    BY <1>1, <1>8 DEF ApplyDaemonSet, GoTo, Runs
  <2>2. DaemonSetIsApplied'
    BY <1>1, <2>1 DEF AppliedDaemonSet, DaemonSetIsApplied, DaemonSets
  <2> QED
    BY <2>1, <2>2 DEF AppliedOrDue
<1>9. CASE ApplyDeployment
  <2>1. /\ run.at = "deployment" /\ run'.at = "readDeployment" /\ run'.cr = run.cr
        /\ daemonset' = daemonset /\ deployment' = AppliedDeployment /\ (queued => queued')
    BY <1>1, <1>9 DEF ApplyDeployment, GoTo, Notice, Runs
  <2>2. DeploymentIsApplied'
    BY <1>1, <2>1 DEF AppliedDeployment, DeploymentIsApplied, Deployments, RunIsOnCourse
  <2>3. DaemonSetIsApplied' \/ queued'
    BY <2>1 DEF AppliedOrDue, DaemonSetIsApplied
  <2> QED
    BY <2>2, <2>3 DEF AppliedOrDue
<1>10. CASE RemoveDeployment
  <2>1. /\ run.at = "removeDeployment" /\ run'.at = "readDaemonset" /\ run'.cr = run.cr
        /\ daemonset' = daemonset /\ deployment' = NoDeployment /\ (queued => queued')
    BY <1>1, <1>10 DEF RemoveDeployment, RemainingDeployment, GoTo, Notice, Runs
  <2>2. DeploymentIsApplied'
    BY <2>1 DEF NoDeployment, DeploymentIsApplied, RunIsOnCourse
  <2>3. DaemonSetIsApplied' \/ queued'
    BY <2>1 DEF AppliedOrDue, DaemonSetIsApplied
  <2> QED
    BY <2>2, <2>3 DEF AppliedOrDue
<1>11. CASE ReadDeployment \/ ReadDeploymentFails
  <2>1. /\ run.at = "readDeployment" /\ run'.at = "readDaemonset" /\ run'.cr = run.cr
        /\ UNCHANGED <<daemonset, deployment, queued>>
    BY <1>1, <1>11 DEF ReadDeployment, ReadDeploymentFails, Runs
  <2> QED
    BY <2>1 DEF AppliedOrDue, DaemonSetIsApplied, DeploymentIsApplied
<1>12. CASE ReadDaemonSet
  <2>1. CASE Requeue
    BY <1>2, <2>1 DEF Requeue, Idle
  <2>2. CASE ~Requeue
    <3>1. /\ run.at = "readDaemonset" /\ run'.at = "status" /\ run'.cr = run.cr
          /\ UNCHANGED <<daemonset, deployment, queued>>
      BY <1>1, <1>12, <2>2 DEF ReadDaemonSet, Runs
    <3> QED
      BY <3>1 DEF AppliedOrDue, DaemonSetIsApplied, DeploymentIsApplied
  <2> QED
    BY <2>1, <2>2
<1>13. CASE Kubernetes \/ TamperWithDaemonSet \/ TamperWithDeployment \/ PodsFail
  <2>1. queued' = up /\ run' = run
    BY <1>13
       DEF Kubernetes, Rollout, PodsReady, DeploymentReady, CollectGarbage, TamperWithDaemonSet,
           TamperWithDeployment, PodsFail
  <2>2. CASE up
    BY <1>3, <2>1, <2>2
  <2>3. CASE ~up
    BY <1>2, <2>1, <2>3 DEF RunIsOnCourse
  <2> QED
    BY <2>2, <2>3
<1>14. CASE Restart
  <2>1. ~up /\ run' = run
    BY <1>14 DEF Restart
  <2>2. run'.at = "idle"
    BY <2>1 DEF RunIsOnCourse
  <2> QED
    BY <1>2, <2>2
<1>15. CASE \/ SyncCache \/ Delete \/ UNCHANGED vars
            \/ \E config \in Config : Create(config) \/ EditSpec(config)
  <2>1. UNCHANGED <<run, daemonset, deployment>>
    BY <1>15 DEF SyncCache, Delete, vars, Create, EditSpec
  <2>2. queued' = queued \/ SyncCache
    BY <1>15 DEF Delete, vars, Create, EditSpec
  <2>3. queued => queued'
    BY <2>2 DEF SyncCache
  <2> QED
    BY <1>4, <2>1, <2>3
<1> QED
  BY <1>5, <1>6, <1>7, <1>8, <1>9, <1>10, <1>11, <1>12, <1>13, <1>14, <1>15
     DEF Next, Step, Disturbance

\* Whoever interferes between the steps of a run, what the run has applied is still there when
\* it reports, or the next run is due.
THEOREM WorkIsKept == Spec => []AppliedOrDue
<1>1. Init => RunIsOnCourse /\ AppliedOrDue
  BY DEF Init, RunIsOnCourse, AppliedOrDue, Idle
<1> QED
  BY <1>1, TypeCorrect, OnCourseStep, AppliedStep, PTL DEF Spec

-----------------------------------------------------------------------------
(***************************************************************************)
(* What a run that no event has overtaken leaves behind.                   *)
(***************************************************************************)

\* A run works on the controller's copy of the resource, what it has read is so, and it goes on
\* to write the status only to change it - or an event has made another run due.
ReadIsCurrent ==
    /\ run.at \in ApplySteps => run.cr = cache \/ queued
    /\ run.at \in {"daemonset", "deployment", "removeDeployment", "readDeployment"}
        => run.deployment = "none"
    /\ run.at \in {"readDaemonset", "status"} =>
        /\ run.deployment = "none" <=> run.cr.config \notin Online
        /\ run.deployment = "ready" => deployment.ready \/ queued
    /\ run.at = "status" =>
        /\ run.daemonset = daemonset.ready \/ queued
        /\ run.cr.status # Report(run.cr, run.daemonset, run.deployment)

\* The cache changes with an event, as the finalizer holds the resource that a run applies;
\* the workloads change with one, or by the run itself before it reads them.
LEMMA ReadIsCurrentStep ==
    Inv /\ RunIsOnCourse /\ ReadIsCurrent /\ [Next]_vars => ReadIsCurrent'
<1> SUFFICES ASSUME Inv, RunIsOnCourse, ReadIsCurrent, [Next]_vars PROVE ReadIsCurrent'
  OBVIOUS
<1>1. /\ run \in Runs /\ daemonset \in DaemonSets /\ deployment \in Deployments
      /\ HeldWhileApplying /\ FinalizerHolds
      /\ queued \in BOOLEAN /\ cache \in Resources
  BY DEF Inv, TypeOK
<1>2. CASE run'.at \in {"idle", "addFinalizer", "removeFinalizer"}
  BY <1>2 DEF ReadIsCurrent, ApplySteps
<1>3. CASE /\ queued' /\ UNCHANGED run
           /\ run.at = "status" => run.cr.status # Report(run.cr, run.daemonset, run.deployment)
  BY <1>3 DEF ReadIsCurrent, Report
<1>4. CASE UNCHANGED <<run, cache, daemonset, deployment, queued>>
  BY <1>4 DEF ReadIsCurrent, Report
<1>5. run.at = "status" => run.cr.status # Report(run.cr, run.daemonset, run.deployment)
  BY DEF ReadIsCurrent
<1>6. CASE Start
  <2>1. CASE run' = Idle
    BY <1>2, <2>1 DEF Idle
  <2>2. CASE run' # Idle
    <3>1. /\ run' = [Idle EXCEPT !.at = FirstStep(cache), !.cr = cache]
          /\ cache' = cache
      BY <1>6, <2>2 DEF Start
    <3>2. /\ run'.at = FirstStep(cache) /\ run'.cr = cache' /\ run'.deployment = "none"
      BY <3>1 DEF Idle
    <3>3. FirstStep(cache) \in {"idle", "addFinalizer", "removeFinalizer", "daemonset"}
      BY <1>1 DEF FirstStep, Resources
    <3> QED
      BY <1>2, <3>2, <3>3 DEF ReadIsCurrent
  <2> QED
    BY <2>1, <2>2
<1>7. CASE \/ AddFinalizer \/ RemoveFinalizer \/ FinalizerFails \/ PatchStatus \/ ReportError
           \/ ReportErrorFails \/ Stop
  <2>1. run' = Idle
    BY <1>7
       DEF AddFinalizer, RemoveFinalizer, FinalizerFails, PatchStatus, ReportError,
           ReportErrorFails, Stop, Requeue
  <2> QED
    BY <1>2, <2>1 DEF Idle
<1>8. CASE \/ ApplyDaemonSetFails \/ ApplyDeploymentFails \/ RemoveDeploymentFails
           \/ ReadDaemonSetFails \/ PatchStatusFails
  <2>1. run.at \in ApplySteps
    BY <1>8
       DEF ApplyDaemonSetFails, ApplyDeploymentFails, RemoveDeploymentFails, ReadDaemonSetFails,
           PatchStatusFails, ApplySteps
  <2>2. cache' = cache
    BY <1>8
       DEF ApplyDaemonSetFails, ApplyDeploymentFails, RemoveDeploymentFails, ReadDaemonSetFails,
           PatchStatusFails
  <2>3. queued => queued'
    <3>1. CASE ApplyDaemonSetFails
      BY <3>1 DEF ApplyDaemonSetFails, Notice
    <3>2. CASE ApplyDeploymentFails
      BY <3>2 DEF ApplyDeploymentFails, Notice
    <3>3. CASE RemoveDeploymentFails
      BY <3>3 DEF RemoveDeploymentFails, Notice
    <3>4. CASE ReadDaemonSetFails \/ PatchStatusFails
      BY <3>4 DEF ReadDaemonSetFails, PatchStatusFails
    <3> QED
      BY <1>8, <3>1, <3>2, <3>3, <3>4
  <2>4. run'.at = "report" /\ run'.cr = run.cr
    BY <1>1, <1>8
       DEF ApplyDaemonSetFails, ApplyDeploymentFails, RemoveDeploymentFails, ReadDaemonSetFails,
           PatchStatusFails, Fail, Runs
  <2> QED
    BY <2>1, <2>2, <2>3, <2>4 DEF ReadIsCurrent
<1>9. CASE ApplyDaemonSet \/ ApplyDeployment
  <2>1. /\ run.at \in {"daemonset", "deployment"}
        /\ run'.at \in {"deployment", "removeDeployment", "readDeployment"}
        /\ run'.cr = run.cr /\ run'.deployment = run.deployment
        /\ cache' = cache /\ (queued => queued')
    BY <1>1, <1>9 DEF ApplyDaemonSet, ApplyDeployment, GoTo, Notice, Runs
  <2> QED
    BY <2>1 DEF ReadIsCurrent, ApplySteps
<1>10. CASE RemoveDeployment
  <2>1. /\ run.at = "removeDeployment" /\ run'.at = "readDaemonset"
        /\ run'.cr = run.cr /\ run'.deployment = run.deployment
        /\ cache' = cache /\ (queued => queued')
    BY <1>1, <1>10 DEF RemoveDeployment, GoTo, Notice, Runs
  <2>2. run.deployment = "none" /\ run.cr.config \notin Online
    BY <2>1 DEF ReadIsCurrent, RunIsOnCourse
  <2> QED
    BY <2>1, <2>2 DEF ReadIsCurrent, ApplySteps
<1>11. CASE ReadDeployment \/ ReadDeploymentFails
  <2>1. /\ run.at = "readDeployment" /\ run'.at = "readDaemonset" /\ run'.cr = run.cr
        /\ run'.deployment \in {"ready", "notReady"}
        /\ run'.deployment = "ready" => deployment.ready
        /\ UNCHANGED <<cache, deployment, queued>>
    BY <1>1, <1>11 DEF ReadDeployment, ReadDeploymentFails, Runs
  <2>2. run.cr.config \in Online
    BY <2>1 DEF RunIsOnCourse
  <2> QED
    BY <2>1, <2>2 DEF ReadIsCurrent, ApplySteps
<1>12. CASE ReadDaemonSet
  <2>1. CASE Requeue
    BY <1>2, <2>1 DEF Requeue, Idle
  <2>2. CASE ~Requeue
    <3>1. /\ run.at = "readDaemonset" /\ run'.at = "status" /\ run'.cr = run.cr
          /\ run'.deployment = run.deployment /\ run'.daemonset = daemonset.ready
          /\ run.cr.status # Report(run.cr, daemonset.ready, run.deployment)
          /\ UNCHANGED <<cache, daemonset, deployment, queued>>
      BY <1>1, <1>12, <2>2 DEF ReadDaemonSet, Says, Runs
    <3>2. run'.cr.status # Report(run'.cr, run'.daemonset, run'.deployment)
      BY <3>1
    <3> QED
      BY <3>1, <3>2 DEF ReadIsCurrent, ApplySteps, Report
  <2> QED
    BY <2>1, <2>2
<1>13. CASE Kubernetes \/ TamperWithDaemonSet \/ TamperWithDeployment \/ PodsFail
  <2>1. queued' = up /\ run' = run
    BY <1>13
       DEF Kubernetes, Rollout, PodsReady, DeploymentReady, CollectGarbage, TamperWithDaemonSet,
           TamperWithDeployment, PodsFail
  <2>2. CASE up
    BY <1>3, <1>5, <2>1, <2>2
  <2>3. CASE ~up
    BY <1>2, <2>1, <2>3 DEF RunIsOnCourse
  <2> QED
    BY <2>2, <2>3
<1>14. CASE Restart
  <2>1. ~up /\ run' = run
    BY <1>14 DEF Restart
  <2>2. run'.at = "idle"
    BY <2>1 DEF RunIsOnCourse
  <2> QED
    BY <1>2, <2>2
<1>15. CASE SyncCache
  <2>1. run' = run /\ (cr.uid # 0 => queued')
    BY <1>15 DEF SyncCache
  <2>2. CASE run.at \in ApplySteps
    <3>1. cr.uid # 0
      BY <1>1, <2>2 DEF HeldWhileApplying, FinalizerHolds
    <3> QED
      BY <1>3, <1>5, <2>1, <3>1
  <2>3. CASE run.at \notin ApplySteps
    BY <1>1, <1>2, <2>1, <2>3 DEF Runs
  <2> QED
    BY <2>2, <2>3
<1>16. CASE Delete \/ UNCHANGED vars \/ (\E config \in Config : Create(config) \/ EditSpec(config))
  BY <1>4, <1>16 DEF Delete, vars, Create, EditSpec
<1> QED
  BY <1>6, <1>7, <1>8, <1>9, <1>10, <1>11, <1>12, <1>13, <1>14, <1>15, <1>16
     DEF Next, Step, Disturbance

\* Everything that is known of a run.
RunInv == Inv /\ RunIsOnCourse /\ AppliedOrDue /\ ReadIsCurrent

\* It holds throughout.
LEMMA RunInvariance == Spec => []RunInv
<1>1. Init => RunIsOnCourse /\ AppliedOrDue /\ ReadIsCurrent
  BY DEF Init, RunIsOnCourse, AppliedOrDue, ReadIsCurrent, Idle, ApplySteps
<1>2. Inv => TypeOK
  BY DEF Inv
<1> QED
  BY <1>1, <1>2, Invariance, OnCourseStep, AppliedStep, ReadIsCurrentStep, PTL DEF Spec, RunInv

\* What a run has applied it reports, when nothing has happened since it started.
LEMMA SettledStep ==
    RunInv /\ [Next]_vars =>
        (~queued /\ cache = cr =>
            (PatchStatus \/ (ReadDaemonSet /\ run' = Idle) => WorkloadsFollow' /\ StatusIsTrue'))
<1> SUFFICES ASSUME RunInv, PatchStatus \/ (ReadDaemonSet /\ run' = Idle), ~queued, cache = cr
             PROVE  WorkloadsFollow' /\ StatusIsTrue'
  OBVIOUS
<1>1. /\ run \in Runs /\ cr \in Resources /\ daemonset \in DaemonSets
      /\ AppliedOrDue /\ ReadIsCurrent
  BY DEF RunInv, Inv, TypeOK
<1>2. run.at \in {"readDaemonset", "status"} /\ UNCHANGED <<daemonset, deployment>>
  BY DEF PatchStatus, ReadDaemonSet
<1>3. run.cr = cr /\ DaemonSetIsApplied /\ DeploymentIsApplied
  BY <1>1, <1>2 DEF AppliedOrDue, ReadIsCurrent, ApplySteps
<1>4. /\ run.deployment = "none" <=> cr.config \notin Online
      /\ run.deployment = "ready" => deployment.ready
      /\ run.deployment \in DeploymentReadiness
  BY <1>1, <1>2, <1>3 DEF ReadIsCurrent, Runs
<1>5. /\ UNCHANGED <<cr.uid, cr.config, cr.generation>>
      /\ cr'.status = Report(cr, daemonset.ready, run.deployment)
  <2>1. CASE PatchStatus
    <3>1. /\ run.at = "status"
          /\ cr' = [cr EXCEPT !.status = Report(run.cr, run.daemonset, run.deployment)]
      BY <2>1 DEF PatchStatus, ApplyStatus
    <3>2. run.daemonset = daemonset.ready
      BY <1>1, <3>1 DEF ReadIsCurrent
    <3> QED
      BY <1>1, <1>3, <3>1, <3>2 DEF Resources
  <2>2. CASE ReadDaemonSet /\ run' = Idle
    <3>1. run.at = "readDaemonset" /\ cr' = cr
      BY <2>2 DEF ReadDaemonSet
    <3>2. Says(run.cr.status, Report(run.cr, daemonset.ready, run.deployment))
      <4>1. [run EXCEPT !.at = "status", !.daemonset = daemonset.ready].at = "status"
        BY <1>1 DEF Runs
      <4>2. Idle.at = "idle"
        BY DEF Idle
      <4> QED
        BY <2>2, <4>1, <4>2 DEF ReadDaemonSet
    <3> QED
      BY <1>3, <3>1, <3>2 DEF Says
  <2> QED
    BY <2>1, <2>2
<1>6. WorkloadsFollow'
  BY <1>2, <1>3, <1>5 DEF WorkloadsFollow, DaemonSetIsApplied, DeploymentIsApplied
<1>7. cr'.status = Report(cr', daemonset'.ready, run.deployment)
  BY <1>2, <1>5 DEF Report
<1>8. StatusIsTrue'
  BY <1>2, <1>4, <1>5, <1>7 DEF StatusIsTrue
<1> QED
  BY <1>6, <1>8

\* What made it fail it reports likewise.
LEMMA SettledErrorStep ==
    RunInv /\ [Next]_vars =>
        (~queued /\ cache = cr =>
            (ReportError => /\ cr'.status.reason = run.error
                            /\ cr'.status.generation = cr'.generation))
<1> SUFFICES ASSUME RunInv, ReportError, ~queued, cache = cr
             PROVE  cr'.status.reason = run.error /\ cr'.status.generation = cr'.generation
  OBVIOUS
<1>1. run \in Runs /\ cr \in Resources /\ ReadIsCurrent
  BY DEF RunInv, Inv, TypeOK
<1>2. run.at = "report"
  BY DEF ReportError
<1>3. run.cr = cr
  BY <1>1, <1>2 DEF ReadIsCurrent, ApplySteps
<1>4. CASE AlreadyReported
  <2>1. cr' = cr
    BY <1>4 DEF ReportError
  <2> QED
    BY <1>3, <1>4, <2>1 DEF AlreadyReported
<1>5. CASE ~AlreadyReported
  <2>1. cr' = [cr EXCEPT !.status = [cr.status EXCEPT !.generation = run.cr.generation,
                                                     !.reason = run.error]]
    BY <1>5 DEF ReportError, ApplyStatus
  <2>2. cr.status \in Statuses
    BY <1>1 DEF Resources
  <2>3. /\ cr'.generation = cr.generation
        /\ cr'.status = [cr.status EXCEPT !.generation = run.cr.generation,
                                         !.reason = run.error]
    BY <1>1, <2>1 DEF Resources
  <2> QED
    BY <1>3, <2>2, <2>3 DEF Statuses
<1> QED
  BY <1>4, <1>5

\* A run that goes through undisturbed brings about what the resource says, and tells the truth;
\* one that fails tells why.
THEOREM SettledRuns == Spec => SettledRunConverges
<1>1. RunInv /\ [Next]_vars =>
        [~queued /\ cache = cr =>
          /\ PatchStatus \/ (ReadDaemonSet /\ run' = Idle) => WorkloadsFollow' /\ StatusIsTrue'
          /\ ReportError => /\ cr'.status.reason = run.error
                            /\ cr'.status.generation = cr'.generation]_vars
  BY SettledStep, SettledErrorStep
<1> QED
  BY <1>1, RunInvariance, PTL DEF Spec, SettledRunConverges

\* What a run writes into the status is not what the status said when the run started.
LEMMA WriteStep ==
    RunInv /\ [Next]_vars => (WriteStatus /\ ~queued /\ cache = cr => cr'.status # cr.status)
<1> SUFFICES ASSUME RunInv, WriteStatus, ~queued, cache = cr PROVE cr'.status # cr.status
  OBVIOUS
<1>1. run \in Runs /\ cr \in Resources /\ ReadIsCurrent
  BY DEF RunInv, Inv, TypeOK
<1>2. run.at \in {"status", "report"}
  BY DEF WriteStatus, PatchStatus, ReportError
<1>3. run.cr = cr
  BY <1>1, <1>2 DEF ReadIsCurrent, ApplySteps
<1>4. CASE PatchStatus
  <2>1. /\ run.at = "status"
        /\ cr' = [cr EXCEPT !.status = Report(run.cr, run.daemonset, run.deployment)]
    BY <1>4 DEF PatchStatus, ApplyStatus
  <2>2. cr'.status = Report(run.cr, run.daemonset, run.deployment)
    BY <1>1, <2>1 DEF Resources
  <2> QED
    BY <1>1, <1>3, <2>1, <2>2 DEF ReadIsCurrent
<1>5. CASE ReportError /\ ~AlreadyReported
  <2>1. cr' = [cr EXCEPT !.status = [cr.status EXCEPT !.generation = run.cr.generation,
                                                     !.reason = run.error]]
    BY <1>5 DEF ReportError, ApplyStatus
  <2>2. cr'.status.generation = run.cr.generation /\ cr'.status.reason = run.error
    BY <1>1, <2>1 DEF Resources, Statuses
  <2> QED
    BY <1>3, <1>5, <2>2 DEF AlreadyReported
<1> QED
  BY <1>4, <1>5 DEF WriteStatus

\* The operator does not wake itself up with a status that says what it said before.
THEOREM WritesSaySomething == Spec => NoIdleWrite
<1>1. RunInv /\ [Next]_vars =>
        [WriteStatus /\ ~queued /\ cache = cr => cr'.status # cr.status]_vars
  BY WriteStep
<1> QED
  BY <1>1, RunInvariance, PTL DEF Spec, NoIdleWrite

=============================================================================
