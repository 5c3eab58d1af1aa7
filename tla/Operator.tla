------------------------------- MODULE Operator -------------------------------
(***************************************************************************)
(* The operator: the controller of the one TdxQuoteGenerationService       *)
(* resource (its CRD admits a single name), which keeps a DaemonSet and,   *)
(* in Online mode, a registrar Deployment, and reports on both in the      *)
(* status of the resource.                                                 *)
(*                                                                         *)
(* A run of reconcile works on a snapshot of the resource, taken from the  *)
(* controller's cache, and calls the API server step by step, while the    *)
(* resource is edited, deleted and created again, the workloads move, and  *)
(* any call may fail.  Requeue intervals are not timed: a run that asks to *)
(* be requeued is due at once.                                             *)
(***************************************************************************)
EXTENDS Integers

CONSTANTS
    Config,         \* what the spec of the resource can be
    Online,         \* the configurations in Online mode, which need the Deployment
    NoConfig,       \* no configuration: of pods, when there are none
    Refusable,      \* the kinds of API calls that may fail
    MaxUid,         \* bound on the resources created one after the other
    MaxGeneration   \* bound on the generations of each of them

Calls == {"daemonset", "deployment", "status", "finalizer"}

ASSUME ConfigAssumption == Online \subseteq Config /\ NoConfig \notin Config
ASSUME RefusableAssumption == Refusable \subseteq Calls
ASSUME BoundAssumption == MaxUid \in Nat /\ MaxGeneration \in Nat

VARIABLES
    cr,         \* the resource in the API server; uid 0 when there is none
    uids,       \* the uids given out
    cache,      \* the controller's copy of the resource
    daemonset,  \* the DaemonSet in the API server; owner 0 when there is none
    deployment, \* the Deployment, likewise
    up,         \* whether the operator runs
    queued,     \* whether a reconciliation is due
    run         \* the reconciliation in progress

vars == <<cr, uids, cache, daemonset, deployment, up, queued, run>>

Uids == 0..MaxUid
Generations == 0..MaxGeneration

\* The Ready condition: unset, ServicesReady, ServicesNotReady, or ReconcileFailed with the
\* error of a call of some kind.
Reasons == {"unset", "ready", "notReady"} \cup Calls

DeploymentReadiness == {"none", "ready", "notReady"}

\* The status, less its counts and times.
Statuses == [generation : Generations, reason : Reasons, daemonset : BOOLEAN,
             deployment : DeploymentReadiness]

Resources == [uid : Uids, generation : Generations, config : Config \cup {NoConfig},
              deleting : BOOLEAN, finalizer : BOOLEAN, status : Statuses]

NoStatus == [generation |-> 0, reason |-> "unset", daemonset |-> FALSE,
             deployment |-> "none"]

Blank(uid, config) ==
    [uid |-> uid, generation |-> IF uid = 0 THEN 0 ELSE 1, config |-> config,
     deleting |-> FALSE, finalizer |-> FALSE, status |-> NoStatus]

NoResource == Blank(0, NoConfig)

\* generation is that of the resource the DaemonSet was last applied for, config what its spec
\* says, rolled what its pods run, ready what its status says of the pods.
DaemonSets == [owner : Uids, generation : Generations, config : Config \cup {NoConfig},
               rolled : Config \cup {NoConfig}, ready : BOOLEAN]

NoDaemonSet == [owner |-> 0, generation |-> 0, config |-> NoConfig, rolled |-> NoConfig,
                ready |-> FALSE]

Deployments == [owner : Uids, config : Config \cup {NoConfig}, ready : BOOLEAN]

NoDeployment == [owner |-> 0, config |-> NoConfig, ready |-> FALSE]

\* The steps of reconcile_resource, of which each works on a resource held by the finalizer.
ApplySteps == {"daemonset", "deployment", "readDeployment", "removeDeployment",
               "readDaemonset", "status", "report"}

Runs == [at : ApplySteps \cup {"idle", "addFinalizer", "removeFinalizer"},
         cr : Resources, deployment : DeploymentReadiness, daemonset : BOOLEAN,
         error : Calls]

Idle == [at |-> "idle", cr |-> NoResource, deployment |-> "none", daemonset |-> FALSE,
         error |-> "daemonset"]

-----------------------------------------------------------------------------
(***************************************************************************)
(* The start and the end of a run.                                         *)
(***************************************************************************)

\* Reconcile whatever is not being deleted, with the finalizer or without.
FirstStepUnheld(resource) ==
    IF ~resource.deleting THEN "daemonset"
    ELSE IF resource.finalizer THEN "removeFinalizer" ELSE "idle"

\* Leave a resource that is being deleted alone.
FirstStepNoCleanup(resource) ==
    IF resource.deleting THEN "idle"
    ELSE IF resource.finalizer THEN "daemonset" ELSE "addFinalizer"

\* The finalizer comes first, and last.
FirstStep(resource) ==
    CASE ~resource.deleting /\ ~resource.finalizer -> "addFinalizer"
      [] ~resource.deleting /\ resource.finalizer  -> "daemonset"
      [] resource.deleting /\ resource.finalizer   -> "removeFinalizer"
      [] resource.deleting /\ ~resource.finalizer  -> "idle"

\* The run of a resource that is gone from the cache is dropped.
Start ==
    /\ up
    /\ queued
    /\ run.at = "idle"
    /\ queued' = FALSE
    /\ run' = IF cache.uid = 0 \/ FirstStep(cache) = "idle"
              THEN Idle
              ELSE [Idle EXCEPT !.at = FirstStep(cache), !.cr = cache]
    /\ UNCHANGED <<cr, uids, cache, daemonset, deployment, up>>

\* Action::await_change, after success and error alike.
AwaitChange == run' = Idle /\ UNCHANGED queued

\* Action::requeue, after success and error alike.
Requeue == run' = Idle /\ queued' = TRUE

GoTo(step) == run' = [run EXCEPT !.at = step]

\* An error of reconcile_resource is reported in the status.
Fail(call) == run' = [run EXCEPT !.at = "report", !.error = call]

\* A change of a workload is an event.
Notice(changed) == queued' = (queued \/ changed)

-----------------------------------------------------------------------------
(***************************************************************************)
(* The finalizer.                                                          *)
(***************************************************************************)

\* The patch fails if the finalizer is there already, or the resource is being deleted.
CanAddFinalizer ==
    /\ cr.uid # 0
    /\ ~cr.finalizer
    /\ ~cr.deleting

AddFinalizer ==
    /\ run.at = "addFinalizer"
    /\ CanAddFinalizer
    /\ cr' = [cr EXCEPT !.finalizer = TRUE]
    /\ run' = Idle
    /\ UNCHANGED <<uids, cache, daemonset, deployment, up, queued>>

CanRemoveFinalizer ==
    /\ cr.uid # 0
    /\ cr.finalizer

\* cleanup_resource leaves everything to the garbage collector.
RemoveFinalizer ==
    /\ run.at = "removeFinalizer"
    /\ CanRemoveFinalizer
    /\ cr' = IF cr.deleting THEN NoResource ELSE [cr EXCEPT !.finalizer = FALSE]
    /\ run' = Idle
    /\ UNCHANGED <<uids, cache, daemonset, deployment, up, queued>>

\* Error::Finalizer is not reported, only retried.
FinalizerFails ==
    /\ \/ run.at = "addFinalizer" /\ ~CanAddFinalizer
       \/ run.at = "removeFinalizer" /\ ~CanRemoveFinalizer
       \/ run.at \in {"addFinalizer", "removeFinalizer"} /\ "finalizer" \in Refusable
    /\ Requeue
    /\ UNCHANGED <<cr, uids, cache, daemonset, deployment, up>>

-----------------------------------------------------------------------------
(***************************************************************************)
(* reconcile_resource.                                                     *)
(***************************************************************************)

AppliedDaemonSet ==
    [daemonset EXCEPT !.owner = run.cr.uid,
                      !.generation = run.cr.generation,
                      !.config = run.cr.config]

\* create_or_update_daemonset.
ApplyDaemonSet ==
    /\ run.at = "daemonset"
    /\ daemonset' = AppliedDaemonSet
    /\ Notice(daemonset' # daemonset)
    /\ GoTo(IF run.cr.config \in Online THEN "deployment" ELSE "removeDeployment")
    /\ UNCHANGED <<cr, uids, cache, deployment, up>>

\* A call that fails may have been carried out nevertheless.
ApplyDaemonSetFails ==
    /\ run.at = "daemonset"
    /\ "daemonset" \in Refusable
    /\ daemonset' \in {daemonset, AppliedDaemonSet}
    /\ Notice(daemonset' # daemonset)
    /\ Fail("daemonset")
    /\ UNCHANGED <<cr, uids, cache, deployment, up>>

AppliedDeployment ==
    [deployment EXCEPT !.owner = run.cr.uid, !.config = run.cr.config]

\* create_or_update_deployment.
ApplyDeployment ==
    /\ run.at = "deployment"
    /\ deployment' = AppliedDeployment
    /\ Notice(deployment' # deployment)
    /\ GoTo("readDeployment")
    /\ UNCHANGED <<cr, uids, cache, daemonset, up>>

ApplyDeploymentFails ==
    /\ run.at = "deployment"
    /\ "deployment" \in Refusable
    /\ deployment' \in {deployment, AppliedDeployment}
    /\ Notice(deployment' # deployment)
    /\ Fail("deployment")
    /\ UNCHANGED <<cr, uids, cache, daemonset, up>>

ReadDeployment ==
    /\ run.at = "readDeployment"
    /\ run' = [run EXCEPT !.at = "readDaemonset",
                          !.deployment = IF deployment.ready THEN "ready" ELSE "notReady"]
    /\ UNCHANGED <<cr, uids, cache, daemonset, deployment, up, queued>>

\* A Deployment that cannot be read counts as not ready.
ReadDeploymentFails ==
    /\ run.at = "readDeployment"
    /\ "deployment" \in Refusable
    /\ run' = [run EXCEPT !.at = "readDaemonset", !.deployment = "notReady"]
    /\ UNCHANGED <<cr, uids, cache, daemonset, deployment, up, queued>>

\* What a mode without Deployment leaves of it: everything.
LeaveDeployment == deployment

\* delete_deployment_if_exists.
RemainingDeployment == NoDeployment

RemoveDeployment ==
    /\ run.at = "removeDeployment"
    /\ deployment' = RemainingDeployment
    /\ Notice(deployment' # deployment)
    /\ GoTo("readDaemonset")
    /\ UNCHANGED <<cr, uids, cache, daemonset, up>>

RemoveDeploymentFails ==
    /\ run.at = "removeDeployment"
    /\ "deployment" \in Refusable
    /\ deployment' \in {deployment, NoDeployment}
    /\ Notice(deployment' # deployment)
    /\ Fail("deployment")
    /\ UNCHANGED <<cr, uids, cache, daemonset, up>>

\* That there is no Deployment is reported as if nothing had been reported yet.
ReportUnset(resource, daemonsetReady, deploymentReady) ==
    [generation |-> resource.generation,
     reason |-> IF daemonsetReady /\ deploymentReady # "notReady" THEN "ready" ELSE "notReady",
     daemonset |-> daemonsetReady,
     deployment |-> IF deploymentReady = "none" THEN "unset" ELSE deploymentReady]

\* What a run reports that found the DaemonSet and the Deployment in these states.
Report(resource, daemonsetReady, deploymentReady) ==
    [generation |-> resource.generation,
     reason |-> IF daemonsetReady /\ deploymentReady # "notReady" THEN "ready" ELSE "notReady",
     daemonset |-> daemonsetReady,
     deployment |-> deploymentReady]

\* Only the Ready condition is compared.
SaysReason(status, report) == status.reason = report.reason

\* status_changed or ready_condition_changed is false: the cached status says it all.
Says(status, report) == status = report

ReadDaemonSet ==
    /\ run.at = "readDaemonset"
    /\ daemonset.owner # 0
    /\ IF Says(run.cr.status, Report(run.cr, daemonset.ready, run.deployment))
       THEN Requeue
       ELSE /\ run' = [run EXCEPT !.at = "status", !.daemonset = daemonset.ready]
            /\ UNCHANGED queued
    /\ UNCHANGED <<cr, uids, cache, daemonset, deployment, up>>

ReadDaemonSetFails ==
    /\ run.at = "readDaemonset"
    /\ "daemonset" \in Refusable \/ daemonset.owner = 0
    /\ Fail("daemonset")
    /\ UNCHANGED <<cr, uids, cache, daemonset, deployment, up, queued>>

\* The status is patched by name, whatever the resource is by then.
ApplyStatus(status) ==
    /\ cr.uid # 0
    /\ cr' = [cr EXCEPT !.status = status]

PatchStatus ==
    /\ run.at = "status"
    /\ ApplyStatus(Report(run.cr, run.daemonset, run.deployment))
    /\ Requeue
    /\ UNCHANGED <<uids, cache, daemonset, deployment, up>>

PatchStatusFails ==
    /\ run.at = "status"
    /\ \/ /\ "status" \in Refusable \/ cr.uid = 0
          /\ UNCHANGED cr
       \/ /\ "status" \in Refusable
          /\ ApplyStatus(Report(run.cr, run.daemonset, run.deployment))
    /\ Fail("status")
    /\ UNCHANGED <<uids, cache, daemonset, deployment, up, queued>>

\* Report every error, whether or not it was reported before.
NeverReported == FALSE

\* already_reported.
AlreadyReported ==
    /\ run.cr.status.reason = run.error
    /\ run.cr.status.generation = run.cr.generation

\* report_reconcile_error.
ReportError ==
    /\ run.at = "report"
    /\ IF AlreadyReported
       THEN UNCHANGED cr
       ELSE ApplyStatus([cr.status EXCEPT !.generation = run.cr.generation,
                                          !.reason = run.error])
    /\ Requeue
    /\ UNCHANGED <<uids, cache, daemonset, deployment, up>>

\* Its own failure is only logged.
ReportErrorFails ==
    /\ run.at = "report"
    /\ ~AlreadyReported
    /\ "status" \in Refusable \/ cr.uid = 0
    /\ Requeue
    /\ UNCHANGED <<cr, uids, cache, daemonset, deployment, up>>

-----------------------------------------------------------------------------
(***************************************************************************)
(* The operator's process and its cache.                                   *)
(***************************************************************************)

\* The watch brings the cache up to date; events in between are coalesced.  A resource that
\* is gone starts no run.
SyncCache ==
    /\ up
    /\ cache # cr
    /\ cache' = cr
    /\ queued' = (queued \/ cr.uid # 0)
    /\ UNCHANGED <<cr, uids, daemonset, deployment, up, run>>

\* The process ends, between any two calls.
Stop ==
    /\ up
    /\ up' = FALSE
    /\ queued' = FALSE
    /\ run' = Idle
    /\ cache' = NoResource
    /\ UNCHANGED <<cr, uids, daemonset, deployment>>

\* A new process lists the resource first.
Restart ==
    /\ ~up
    /\ up' = TRUE
    /\ cache' = cr
    /\ queued' = (cr.uid # 0)
    /\ UNCHANGED <<cr, uids, daemonset, deployment, run>>

-----------------------------------------------------------------------------
(***************************************************************************)
(* Users of the cluster, and its failures.                                 *)
(***************************************************************************)

Create(config) ==
    /\ cr.uid = 0
    /\ uids < MaxUid
    /\ MaxGeneration > 0
    /\ uids' = uids + 1
    /\ cr' = Blank(uids + 1, config)
    /\ UNCHANGED <<cache, daemonset, deployment, up, queued, run>>

EditSpec(config) ==
    /\ cr.uid # 0
    /\ ~cr.deleting
    /\ cr.generation < MaxGeneration
    /\ config # cr.config
    /\ cr' = [cr EXCEPT !.config = config, !.generation = @ + 1]
    /\ UNCHANGED <<uids, cache, daemonset, deployment, up, queued, run>>

\* A resource with the finalizer is only marked.
Delete ==
    /\ cr.uid # 0
    /\ ~cr.deleting
    /\ cr' = IF cr.finalizer THEN [cr EXCEPT !.deleting = TRUE] ELSE NoResource
    /\ UNCHANGED <<uids, cache, daemonset, deployment, up, queued, run>>

\* kubectl edit and kubectl delete, behind the operator's back: an event each.
TamperWithDaemonSet ==
    /\ daemonset.owner # 0
    /\ daemonset' \in {NoDaemonSet} \cup {[daemonset EXCEPT !.config = c] : c \in Config}
    /\ queued' = up
    /\ UNCHANGED <<cr, uids, cache, deployment, up, run>>

TamperWithDeployment ==
    /\ deployment.owner # 0
    /\ deployment' = NoDeployment
    /\ queued' = up
    /\ UNCHANGED <<cr, uids, cache, daemonset, up, run>>

\* Pods fail.
PodsFail ==
    /\ \/ /\ daemonset.ready
          /\ daemonset' = [daemonset EXCEPT !.ready = FALSE]
          /\ UNCHANGED deployment
       \/ /\ deployment.ready
          /\ deployment' = [deployment EXCEPT !.ready = FALSE]
          /\ UNCHANGED daemonset
    /\ queued' = up
    /\ UNCHANGED <<cr, uids, cache, up, run>>

-----------------------------------------------------------------------------
(***************************************************************************)
(* The controllers of Kubernetes.                                          *)
(***************************************************************************)

\* Pods that run another configuration than the DaemonSet's are replaced.
Rollout ==
    /\ daemonset.owner # 0
    /\ daemonset.rolled # daemonset.config
    /\ daemonset' = [daemonset EXCEPT !.rolled = daemonset.config, !.ready = FALSE]
    /\ queued' = up
    /\ UNCHANGED <<cr, uids, cache, deployment, up, run>>

PodsReady ==
    /\ daemonset.owner # 0
    /\ ~daemonset.ready
    /\ daemonset.rolled = daemonset.config
    /\ daemonset' = [daemonset EXCEPT !.ready = TRUE]
    /\ queued' = up
    /\ UNCHANGED <<cr, uids, cache, deployment, up, run>>

DeploymentReady ==
    /\ deployment.owner # 0
    /\ ~deployment.ready
    /\ deployment' = [deployment EXCEPT !.ready = TRUE]
    /\ queued' = up
    /\ UNCHANGED <<cr, uids, cache, daemonset, up, run>>

\* The garbage collector deletes what belongs to a resource that is gone.
CollectGarbage ==
    /\ \/ /\ daemonset.owner \notin {0, cr.uid}
          /\ daemonset' = NoDaemonSet
          /\ UNCHANGED deployment
       \/ /\ deployment.owner \notin {0, cr.uid}
          /\ deployment' = NoDeployment
          /\ UNCHANGED daemonset
    /\ queued' = up
    /\ UNCHANGED <<cr, uids, cache, up, run>>

-----------------------------------------------------------------------------

Init ==
    /\ cr = NoResource
    /\ uids = 0
    /\ cache = NoResource
    /\ daemonset = NoDaemonSet
    /\ deployment = NoDeployment
    /\ up = FALSE
    /\ queued = FALSE
    /\ run = Idle

\* The next call of the run in progress.
Step ==
    \/ AddFinalizer \/ RemoveFinalizer \/ FinalizerFails
    \/ ApplyDaemonSet \/ ApplyDaemonSetFails
    \/ ApplyDeployment \/ ApplyDeploymentFails \/ ReadDeployment
    \/ ReadDeploymentFails \/ RemoveDeployment \/ RemoveDeploymentFails
    \/ ReadDaemonSet \/ ReadDaemonSetFails
    \/ PatchStatus \/ PatchStatusFails \/ ReportError \/ ReportErrorFails

Kubernetes == Rollout \/ PodsReady \/ DeploymentReady \/ CollectGarbage

Disturbance ==
    \/ \E config \in Config : Create(config) \/ EditSpec(config)
    \/ Delete
    \/ TamperWithDaemonSet \/ TamperWithDeployment \/ PodsFail
    \/ Stop

Next == Start \/ Step \/ SyncCache \/ Restart \/ Kubernetes \/ Disturbance

Spec == Init /\ [][Next]_vars

\* The operator's tasks and the watch always get on, the Deployment restarts the operator,
\* and the controllers of Kubernetes do their work.
FairSpec ==
    /\ Spec
    /\ WF_vars(Start) /\ WF_vars(Step) /\ WF_vars(SyncCache) /\ WF_vars(Restart)
    /\ WF_vars(Rollout) /\ WF_vars(PodsReady) /\ WF_vars(DeploymentReady)
    /\ WF_vars(CollectGarbage)

-----------------------------------------------------------------------------
(***************************************************************************)
(* Properties.                                                             *)
(***************************************************************************)

TypeOK ==
    /\ cr \in Resources
    /\ uids \in Uids
    /\ cache \in Resources
    /\ daemonset \in DaemonSets
    /\ deployment \in Deployments
    /\ up \in BOOLEAN
    /\ queued \in BOOLEAN
    /\ run \in Runs

\* a is the same resource as b, at an earlier time or the same.
Precedes(a, b) ==
    /\ a.uid = b.uid
    /\ a.generation <= b.generation
    /\ a.deleting => b.deleting

\* The finalizer holds the resource for as long as a run applies it: nothing is created for,
\* and no status is written to, a resource other than the one the run is for, although the
\* run knows it only from the cache.
HeldWhileApplying ==
    run.at \in ApplySteps => Precedes(run.cr, cr) /\ cr.finalizer

\* So does the cache know it, as long as it says that the resource may be applied.
HeldInCache ==
    cache.finalizer /\ ~cache.deleting => Precedes(cache, cr) /\ cr.finalizer

\* Only a resource with the finalizer is there while it is being deleted.
FinalizerHolds ==
    /\ cr.deleting => cr.finalizer
    /\ cr.finalizer => cr.uid # 0

\* Once the cache has seen the deletion, the finalizer that is left is that of a resource
\* being deleted, and a run that removes one knows.
DeletionIsKnown ==
    /\ cache.deleting /\ cr.finalizer => cr.deleting
    /\ cache.deleting /\ run.at = "addFinalizer" => cr.finalizer
    /\ run.at = "removeFinalizer" /\ cr.finalizer => cr.deleting /\ cache.deleting

\* A resource known from the cache or a run, and not outdated by a successor, is at least at
\* the generation applied and reported last.
IsUpToDate(resource) ==
    /\ resource.uid # 0 /\ daemonset.owner = resource.uid
        => daemonset.generation <= resource.generation
    /\ cr.status.generation <= resource.generation

GenerationsAreKnown ==
    /\ IsUpToDate(cr)
    /\ cache.finalizer /\ ~cache.deleting => IsUpToDate(cache)
    /\ run.at \in ApplySteps =>
        /\ IsUpToDate(run.cr)
        /\ cache.uid = run.cr.uid /\ run.cr.generation <= cache.generation

\* Uids are not used twice.
UidsAreFresh == cr.uid <= uids /\ daemonset.owner <= uids

Inv ==
    /\ TypeOK
    /\ HeldWhileApplying
    /\ HeldInCache
    /\ FinalizerHolds
    /\ DeletionIsKnown
    /\ GenerationsAreKnown
    /\ UidsAreFresh

\* The operator never rests while there is a resource: a run is under way or due, or the cache
\* has yet to learn of a change, whatever failed and whatever the last run found.
ResourceStaysDue ==
    up /\ cr.uid # 0 => queued \/ run.at # "idle" \/ cache # cr

DaemonSetIsApplied ==
    /\ daemonset.owner = run.cr.uid
    /\ daemonset.generation = run.cr.generation
    /\ daemonset.config = run.cr.config

DeploymentIsApplied ==
    IF run.cr.config \in Online
    THEN deployment.owner = run.cr.uid /\ deployment.config = run.cr.config
    ELSE deployment.owner = 0

\* What a run has applied by now is there until the run has reported on it, or whatever changed
\* it since has made another run due.
AppliedOrDue ==
    /\ run.at \in {"deployment", "removeDeployment", "readDeployment", "readDaemonset", "status"}
        => DaemonSetIsApplied \/ queued
    /\ run.at \in {"readDeployment", "readDaemonset", "status"}
        => DeploymentIsApplied \/ queued

\* The workloads are the resource's, in its present configuration.
WorkloadsFollow ==
    /\ daemonset.owner = cr.uid
    /\ daemonset.config = cr.config
    /\ IF cr.config \in Online
       THEN deployment.owner = cr.uid /\ deployment.config = cr.config
       ELSE deployment.owner = 0

\* The status says how they are, for the present generation; a Deployment that could not be
\* read may be said not to be ready.
StatusIsTrue ==
    \E seen \in DeploymentReadiness :
        /\ cr.status = Report(cr, daemonset.ready, seen)
        /\ seen = "none" <=> cr.config \notin Online
        /\ seen = "ready" => deployment.ready

\* A run that has come to its end with no event since it started, and none to come, has brought
\* about what the resource says and has reported the truth, by its own write of the status or
\* because the status said so already.  One that failed leaves the error in the status, for the
\* present generation.
SettledRunConverges ==
    [][~queued /\ cache = cr =>
        /\ PatchStatus \/ (ReadDaemonSet /\ run' = Idle) => WorkloadsFollow' /\ StatusIsTrue'
        /\ ReportError => /\ cr'.status.reason = run.error
                          /\ cr'.status.generation = cr'.generation]_vars

\* A write of the status sets a new time, so that it is an event even when it says the same.
WriteStatus == PatchStatus \/ (ReportError /\ ~AlreadyReported)

\* Each write sets off another run: one that no other event has overtaken must say something
\* new.
NoIdleWrite == [][WriteStatus /\ ~queued /\ cache = cr => cr'.status # cr.status]_vars

\* A step changes what was applied and reported last only to a later generation, or for
\* another resource.
Advance ==
    /\ daemonset'.owner = daemonset.owner => daemonset'.generation >= daemonset.generation
    /\ cr'.uid = cr.uid => cr'.status.generation >= cr.status.generation

\* No run goes back to an earlier generation than one already applied or reported on, however
\* outdated the copy of the resource is that it started from.
GenerationsAdvance == [][Advance]_vars

\* A call of the kind fails although the object it is about is there.  The failure of a write
\* that would change nothing is no failure.
Fails(call) ==
    /\ call \in Refusable
    /\ cr.uid # 0
    /\ \/ call = "daemonset" /\ ApplyDaemonSetFails
       \/ call = "daemonset" /\ ReadDaemonSetFails /\ daemonset.owner # 0
       \/ call = "deployment" /\ ApplyDeploymentFails
       \/ call = "deployment" /\ ReadDeploymentFails
       \/ call = "deployment" /\ RemoveDeploymentFails
       \/ call = "status" /\ PatchStatusFails
       \/ /\ call = "status"
          /\ ReportErrorFails
          /\ <<run.cr.generation, run.error>> # <<cr.status.generation, cr.status.reason>>
       \/ call = "finalizer" /\ FinalizerFails /\ (CanAddFinalizer \/ CanRemoveFinalizer)

\* Nothing disturbs the cluster any more, and the operator runs.
Calm == <>[][~Disturbance]_vars /\ <>[]up

\* These calls succeed from some time on.
Succeed(calls) == \A call \in calls : <>[][~Fails(call)]_vars

\* The workloads are the resource's, in its present configuration, and the status says how
\* they are.
Converged ==
    /\ WorkloadsFollow
    /\ cr.status = Report(cr, daemonset.ready,
                          IF cr.config \notin Online THEN "none"
                          ELSE IF deployment.ready THEN "ready" ELSE "notReady")

\* However the resource and the workloads were changed, and whatever failed before, the
\* operator brings about what the resource says and reports it.
Converges ==
    (/\ Calm
     /\ Succeed(Refusable)
     /\ <>[](cr.uid # 0 /\ ~cr.deleting))
    => <>[]Converged

\* A resource that is deleted goes away, and takes its workloads with it.
DeletionCompletes ==
    (/\ Calm
     /\ Succeed(Refusable)
     /\ <>[](cr.uid = 0 \/ cr.deleting))
    => <>[](cr.uid = 0 /\ daemonset.owner = 0 /\ deployment.owner = 0)

\* The comment on report_reconcile_error: the status is not rewritten over and over, although
\* each patch of it sets off another run, not even when the DaemonSet can never be applied or read.
StatusSettles ==
    (/\ Calm
     /\ Succeed(Refusable \ {"daemonset"})
     /\ (<>[][~ApplyDaemonSet]_vars \/ <>[][~ApplyDaemonSetFails]_vars)
     /\ (<>[][~ReadDaemonSet]_vars \/ <>[][~ReadDaemonSetFails]_vars))
    => <>[][~WriteStatus]_vars

\* A DaemonSet that can never be applied shows in the status, for the present generation.
ErrorIsReported ==
    (/\ Calm
     /\ Succeed(Refusable \ {"daemonset"})
     /\ <>[][~ApplyDaemonSet]_vars
     /\ <>[](cr.uid # 0 /\ ~cr.deleting))
    => <>[](cr.status.reason = "daemonset" /\ cr.status.generation = cr.generation)

\* The status message says of the DaemonSet that it is ready and running on all nodes: its
\* pods run what its spec asks for when the operator finds it ready.
ReadyIsCurrent ==
    [][ReadDaemonSet /\ run'.at = "status" /\ run'.daemonset
       => daemonset.rolled = daemonset.config]_vars

=============================================================================
