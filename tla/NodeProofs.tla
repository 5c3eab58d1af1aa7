------------------------------ MODULE NodeProofs ------------------------------
(***************************************************************************)
(* Proofs about a whole node, for any modes, CPU SVNs and manifests: its   *)
(* parts behave as their own specifications say, and the watcher of a      *)
(* platform with a job never runs ahead of that job.                       *)
(***************************************************************************)
EXTENDS Node, CertWatcherProofs

Job == INSTANCE PlatformDataProofs

-----------------------------------------------------------------------------
(***************************************************************************)
(* The parts.                                                              *)
(***************************************************************************)

\* Every step of the node is one of the watcher's, or leaves it alone.
LEMMA NodeStepOfWatcher == [NodeNext]_nodeVars => [Next]_vars
<1> SUFFICES ASSUME [NodeNext]_nodeVars PROVE [Next]_vars
  OBVIOUS
<1>1. CASE RunJob(P!Job) \/ Observe \/ LosePlatformSecret \/ UNCHANGED nodeVars
  BY <1>1 DEF RunJob, Observe, LosePlatformSecret, nodeVars
<1>2. CASE StartWatcher \/ RunWatcher(Watcher) \/ RunWatcher(WatchError) \/ EndWatcher \/ Probe
  BY <1>2 DEF StartWatcher, RunWatcher, EndWatcher, Probe, Next
<1>3. CASE RestartSandbox \/ NewPod \/ RebootNode
  BY <1>3 DEF RestartSandbox, NewPod, RebootNode, Next
<1>4. CASE DeletePck
  BY <1>4 DEF DeletePck, Next
<1>5. CASE \/ \E inputs \in P!Data : Issue(inputs)
           \/ \E isValid \in BOOLEAN : PublishForeign(isValid)
  BY <1>5 DEF Issue, PublishForeign, NextVersion, Next
<1> QED
  BY <1>1, <1>2, <1>3, <1>4, <1>5 DEF NodeNext

\* Every step of the node is one of the job and its platform, or leaves them alone.
LEMMA NodeStepOfPlatform == [NodeNext]_nodeVars => [P!PlatformNext]_platformVars
<1> SUFFICES ASSUME [NodeNext]_nodeVars PROVE [P!PlatformNext]_platformVars
  OBVIOUS
<1>1. CASE RunJob(P!Job)
  BY <1>1 DEF RunJob, P!PlatformNext
<1>2. CASE StartWatcher \/ RunWatcher(Watcher) \/ RunWatcher(WatchError) \/ EndWatcher \/ Probe
  BY <1>2 DEF StartWatcher, RunWatcher, EndWatcher, Probe
<1>3. CASE RestartSandbox \/ NewPod \/ RebootNode
  BY <1>3 DEF RestartSandbox, NewPod, RebootNode, P!PlatformNext
<1>4. CASE Observe \/ DeletePck \/ UNCHANGED nodeVars
  BY <1>4 DEF Observe, DeletePck, nodeVars
<1>5. CASE \/ \E inputs \in P!Data : Issue(inputs)
           \/ \E isValid \in BOOLEAN : PublishForeign(isValid)
  BY <1>5 DEF Issue, PublishForeign, NextVersion
<1>6. CASE LosePlatformSecret
  BY <1>6 DEF LosePlatformSecret, P!PlatformNext
<1> QED
  BY <1>1, <1>2, <1>3, <1>4, <1>5, <1>6 DEF NodeNext

\* The node runs a certificate watcher as CertWatcher specifies it.
THEOREM RunsWatcher == NodeSpec => Spec
<1>1. NodeInit => Init
  BY DEF NodeInit
<1> QED
  BY <1>1, NodeStepOfWatcher, PTL DEF NodeSpec, Spec

\* The node runs the job that PlatformData specifies.
THEOREM RunsJob == NodeSpec => P!PlatformSpec
<1>1. NodeInit => P!PlatformInit
  BY DEF NodeInit
<1> QED
  BY <1>1, NodeStepOfPlatform, PTL DEF NodeSpec, P!PlatformSpec, P!platformVars, platformVars

-----------------------------------------------------------------------------
(***************************************************************************)
(* What was proved of the job holds in the node.                           *)
(***************************************************************************)

\* PlatformData proves about its own variables; the node instantiates it by the same names, and
\* what it instantiates says the same.
LEMMA SameInv == P!PlatformInv <=> Job!PlatformInv
BY DEF P!PlatformInv, P!PlatformTypeOK, P!ReadyForOthers, P!JobIsCurrent, P!Document,
       P!Documents, P!Hardware, P!Readable, P!Fields, P!FieldManager,
       Job!PlatformInv, Job!PlatformTypeOK, Job!ReadyForOthers, Job!JobIsCurrent, Job!Document,
       Job!Documents, Job!Hardware, Job!Readable, Job!Fields, Job!FieldManager

\* So do the initial states,
LEMMA SameInit == P!PlatformInit <=> Job!PlatformInit
BY DEF P!PlatformInit, P!Hardware, P!Readable, P!Api!Absent, P!Fields, P!FieldManager, P!Pending,
       Job!PlatformInit, Job!Hardware, Job!Readable, Job!Api!Absent, Job!Fields,
       Job!FieldManager, Job!Pending

\* the steps of the job,
LEMMA SameJob == P!Job <=> Job!Job
BY DEF P!Job, P!JobStep, P!CollectInfo, P!CreateIdFile, P!FinishIdFile, P!ReadManifest,
       P!Document, P!Readable, P!Fields, P!ApplySecret, P!ApplyUnanswered, P!JobFails,
       P!Applied, P!Api!ApplyStringData, P!FieldManager, P!Pending,
       Job!Job, Job!JobStep, Job!CollectInfo, Job!CreateIdFile, Job!FinishIdFile,
       Job!ReadManifest, Job!Document, Job!Readable, Job!Fields, Job!ApplySecret,
       Job!ApplyUnanswered, Job!JobFails, Job!Applied, Job!Api!ApplyStringData,
       Job!FieldManager, Job!Pending

\* and the steps of the platform.
LEMMA SameNext == P!PlatformNext <=> Job!PlatformNext
BY SameJob
   DEF P!PlatformNext, P!RestartJob, P!NewJob, P!Reboot, P!LoseSecret, P!Hardware, P!Readable,
       P!Api!Absent, P!Fields, P!FieldManager, P!Pending,
       Job!PlatformNext, Job!RestartJob, Job!NewJob, Job!Reboot, Job!LoseSecret, Job!Hardware,
       Job!Readable, Job!Api!Absent, Job!Fields, Job!FieldManager, Job!Pending

\* The ID file and the secret are what a finished job leaves behind, in the whole node.
THEOREM NodeJobInvariance == NodeSpec => []P!PlatformInv
<1>1. P!PlatformInit => P!PlatformInv
  BY SameInit, SameInv, Job!PlatformInitLemma
<1>2. P!PlatformInv /\ [P!PlatformNext]_platformVars => P!PlatformInv'
  <2>1. P!PlatformInv' <=> Job!PlatformInv'
    BY SameInv, PTL
  <2> QED
    BY <2>1, SameInv, SameNext, Job!PlatformNextLemma DEF platformVars, Job!platformVars
<1>3. NodeInit => P!PlatformInit
  BY DEF NodeInit
<1> QED
  BY <1>1, <1>2, <1>3, NodeStepOfPlatform, PTL DEF NodeSpec

\* No job takes away the manifest that is stored, whatever else the node does.
THEOREM NodeKeepsManifest == NodeSpec => ManifestSurvives
<1>1. P!PlatformInv =>
        [P!Job => platformSecret'.value["platform_manifest"]
                  \in {platformSecret.value["platform_manifest"],
                       hardware.variable}]_platformVars
  BY SameInv, SameJob, Job!ManifestStep
<1> QED
  BY <1>1, NodeJobInvariance, PTL
     DEF ManifestSurvives, P!ManifestSurvives, P!platformVars, platformVars

-----------------------------------------------------------------------------
(***************************************************************************)
(* The watcher and the job.                                                *)
(***************************************************************************)

QeIdentity == [id |-> "qe", cache |-> "qe"]

\* A node whose pod has a job gives the watcher the ID file.
LEMMA JobNamesPlatform == HasJob => ResolveId("id") = QeIdentity
<1>1. "platform-registration" \notin Containers(
          WithoutContainer(DaemonSetTemplate, "platform-registration"))
  BY DEF Containers, WithoutContainer, DaemonSetTemplate, Restrict
<1>2. HasJob => mode # "External"
  BY <1>1 DEF HasJob, Pod, Render, Containers, WithoutVolume, UseNodeNameAsLiteralId,
              WithoutContainer, DaemonSetTemplate, Restrict
<1>3. mode # "External" => Pod.idFrom = "file"
  BY DEF Pod, Render, DaemonSetTemplate
<1> QED
  BY <1>2, <1>3 DEF ResolveId, HoldsId, QeIdentity

\* A watcher that is up has the platform's ID, from a job that is done.
WatcherAfterJob ==
    /\ phase = "down" => identity = Nobody
    /\ phase # "down" /\ HasJob => job.at = "done" /\ identity = QeIdentity

\* A watcher starts after the job only, and ends whenever the job starts anew.
LEMMA WatcherAfterJobStep ==
  ASSUME TypeOK, P!PlatformInv, WatcherAfterJob, [NodeNext]_nodeVars
  PROVE  WatcherAfterJob'
<1> USE DEF WatcherAfterJob
<1>0. mode' = mode
  BY DEF NodeNext, nodeVars, RunJob, StartWatcher, RunWatcher, EndWatcher, Probe,
         RestartSandbox, NewPod, RebootNode, Issue, PublishForeign, NextVersion, Observe,
         DeletePck, LosePlatformSecret
<1>00. HasJob' = HasJob
  BY <1>0 DEF HasJob, Pod
<1>1. CASE RunJob(P!Job)
  BY <1>00, <1>1 DEF RunJob, vars, processVars, P!Job, P!JobStep, P!CollectInfo, P!CreateIdFile,
     P!FinishIdFile, P!ReadManifest, P!ApplySecret, P!ApplyUnanswered, P!JobFails
<1>2. CASE StartWatcher
  <2>1. HasJob => job.at = "done"
    BY <1>2 DEF StartWatcher, MayStart
  <2>2. HasJob => idFile = "id"
    BY <2>1 DEF P!PlatformInv, P!ReadyForOthers
  <2>3. HasJob => identity' = QeIdentity
    BY <1>2, <2>2, JobNamesPlatform DEF StartWatcher
  <2> QED
    BY <1>00, <1>2, <2>1, <2>3 DEF StartWatcher, Start, platformVars
<1>3. CASE RunWatcher(Watcher) \/ RunWatcher(WatchError)
  <2>1. phase # "down" /\ phase' # "down"
    BY <1>3 DEF RunWatcher, Watcher, WatchError, InitialRead, InitialReadFails, Connect, Event,
                FinishWrite, Take, TypeOK
  <2> QED
    BY <1>00, <1>3, <2>1 DEF RunWatcher, platformVars
<1>4. CASE EndWatcher
  BY <1>00, <1>4 DEF EndWatcher, Stop, WriteFails, Down
<1>5. CASE Probe
  BY <1>00, <1>5 DEF Probe, CacheReady, processVars, platformVars
<1>6. CASE RestartSandbox \/ NewPod \/ RebootNode
  BY <1>00, <1>6 DEF RestartSandbox, NewPod, RebootNode, RestartPod, ReplacePod, processVars
<1>7. CASE \/ \E inputs \in P!Data : Issue(inputs)
           \/ \E isValid \in BOOLEAN : PublishForeign(isValid)
  BY <1>00, <1>7 DEF Issue, PublishForeign, NextVersion, Publish, processVars, platformVars
<1>8. CASE Observe
  BY <1>00, <1>8 DEF Observe, vars, processVars, platformVars
<1>9. CASE DeletePck
  BY <1>00, <1>9 DEF DeletePck, Delete, processVars, platformVars
<1>10. CASE LosePlatformSecret
  BY <1>00, <1>10 DEF LosePlatformSecret, P!LoseSecret, vars, processVars
<1>11. CASE UNCHANGED nodeVars
  BY <1>00, <1>11 DEF nodeVars, vars, processVars, platformVars
<1> QED
  BY <1>1, <1>2, <1>3, <1>4, <1>5, <1>6, <1>7, <1>8, <1>9, <1>10, <1>11 DEF NodeNext

\* The watcher of a platform that has a job runs only with the ID and the data that this job
\* has left behind in this boot.
THEOREM FollowsJob == NodeSpec => []WatcherFollowsJob
<1>1. NodeInit => WatcherAfterJob
  BY DEF NodeInit, Init, WatcherAfterJob
<1>2. P!PlatformInv /\ WatcherAfterJob => WatcherFollowsJob
  BY DEF WatcherAfterJob, WatcherFollowsJob, P!PlatformInv, QeIdentity
<1> QED
  BY <1>1, <1>2, WatcherAfterJobStep, NodeJobInvariance, RunsWatcher, TypeCorrect, PTL
     DEF NodeSpec

-----------------------------------------------------------------------------
(***************************************************************************)
(* The types.                                                              *)
(***************************************************************************)

\* The variables of the node that are none of its parts'.
NodeOwnTypes ==
    /\ mode \in Modes
    /\ identity \in {Nobody, QeIdentity, [id |-> "node", cache |-> "zero"]}
    /\ content \in P!Data \cup {Foreign}
    /\ known \subseteq P!Data

\* No step of the node gives these variables anything else.
LEMMA NodeOwnTypesStep == NodeOwnTypes /\ [NodeNext]_nodeVars => NodeOwnTypes'
<1> SUFFICES ASSUME NodeOwnTypes, [NodeNext]_nodeVars PROVE NodeOwnTypes'
  OBVIOUS
<1> USE DEF NodeOwnTypes
<1>1. CASE RunJob(P!Job) \/ RunWatcher(Watcher) \/ RunWatcher(WatchError) \/ Probe
           \/ RestartSandbox \/ NewPod \/ RebootNode \/ LosePlatformSecret \/ UNCHANGED nodeVars
  BY <1>1 DEF RunJob, RunWatcher, Probe, RestartSandbox, NewPod, RebootNode, LosePlatformSecret,
              nodeVars, pckVars
<1>2. CASE StartWatcher
  <2>1. ResolveId(idFile) \in {Nobody, QeIdentity, [id |-> "node", cache |-> "zero"]}
    BY DEF ResolveId, HoldsId, QeIdentity
  <2> QED
    BY <1>2, <2>1 DEF StartWatcher, pckVars
<1>3. CASE EndWatcher
  BY <1>3 DEF EndWatcher, pckVars
<1>4. ASSUME NEW inputs \in P!Data, Issue(inputs) PROVE NodeOwnTypes'
  BY <1>4 DEF Issue, NextVersion
<1>5. CASE Observe
  BY <1>5 DEF Observe
<1>6. ASSUME NEW isValid \in BOOLEAN, PublishForeign(isValid) PROVE NodeOwnTypes'
  BY <1>6 DEF PublishForeign, NextVersion
<1>7. CASE DeletePck
  BY <1>7 DEF DeletePck
<1> QED
  BY <1>1, <1>2, <1>3, <1>4, <1>5, <1>6, <1>7 DEF NodeNext

\* Every variable of the node keeps its type, those of its parts included.
THEOREM NodeTypeCorrect == NodeSpec => []NodeTypeOK
<1>1. NodeInit => NodeOwnTypes
  BY ModeAssumption DEF NodeInit, NodeOwnTypes
<1>2. TypeOK /\ P!PlatformInv /\ NodeOwnTypes => NodeTypeOK
  BY DEF NodeTypeOK, NodeOwnTypes, QeIdentity, P!PlatformInv
<1> QED
  BY <1>1, <1>2, NodeOwnTypesStep, NodeJobInvariance, RunsWatcher, TypeCorrect, PTL DEF NodeSpec

\* The cache file of the node never goes back, what counts as seen is in it, and it holds the
\* secret when every event has been delivered.
THEOREM NodeCacheFile == NodeSpec => [](NeverRollsBack /\ SeenIsWritten /\ CaughtUp)
BY RunsWatcher, NoRollback, SkippedIsWritten, NothingMissed, PTL

-----------------------------------------------------------------------------
(***************************************************************************)
(* The whole chain.                                                        *)
(***************************************************************************)

\* A watcher that is up has an ID.
WatcherHasId == phase # "down" => identity # Nobody

\* Only a watcher that has found its ID comes up.
LEMMA WatcherHasIdStep == WatcherHasId /\ TypeOK /\ [NodeNext]_nodeVars => WatcherHasId'
<1> SUFFICES ASSUME WatcherHasId, TypeOK, [NodeNext]_nodeVars PROVE WatcherHasId'
  OBVIOUS
<1> USE DEF WatcherHasId
<1>1. CASE RunJob(P!Job) \/ Observe \/ LosePlatformSecret \/ UNCHANGED nodeVars
  BY <1>1 DEF RunJob, Observe, LosePlatformSecret, nodeVars, vars, processVars
<1>2. CASE StartWatcher
  BY <1>2 DEF StartWatcher
<1>3. CASE RunWatcher(Watcher) \/ RunWatcher(WatchError)
  <2>1. phase # "down" /\ identity' = identity
    BY <1>3 DEF RunWatcher, Watcher, WatchError, InitialRead, InitialReadFails, Connect, Event,
                FinishWrite
  <2> QED
    BY <2>1
<1>4. CASE EndWatcher
  BY <1>4 DEF EndWatcher, Stop, WriteFails, Down
<1>5. CASE Probe
  BY <1>5 DEF Probe, CacheReady, processVars
<1>6. CASE RestartSandbox \/ NewPod \/ RebootNode
  BY <1>6 DEF RestartSandbox, NewPod, RebootNode, RestartPod, ReplacePod, processVars
<1>7. CASE \/ \E inputs \in P!Data : Issue(inputs)
           \/ \E isValid \in BOOLEAN : PublishForeign(isValid)
  BY <1>7 DEF Issue, PublishForeign, NextVersion, Publish, processVars
<1>8. CASE DeletePck
  BY <1>8 DEF DeletePck, Delete, processVars
<1> QED
  BY <1>1, <1>2, <1>3, <1>4, <1>5, <1>6, <1>7, <1>8 DEF NodeNext

\* A secret that was deleted and not applied since is not there.
LostIsAbsent == lost => platformSecret = P!Api!Absent

\* The secret is lost when it is deleted, and found when it is applied.
LEMMA LostIsAbsentStep == LostIsAbsent /\ [P!PlatformNext]_platformVars => LostIsAbsent'
<1> SUFFICES ASSUME LostIsAbsent, [P!PlatformNext]_platformVars PROVE LostIsAbsent'
  OBVIOUS
<1> USE DEF LostIsAbsent, P!Api!Absent
<1>1. CASE P!ApplySecret \/ P!ApplyUnanswered
  BY <1>1 DEF P!ApplySecret, P!ApplyUnanswered
<1>2. CASE P!LoseSecret
  BY <1>2 DEF P!LoseSecret
<1>3. CASE UNCHANGED <<platformSecret, lost>>
  BY <1>3
<1> QED
  BY <1>1, <1>2, <1>3
     DEF P!PlatformNext, P!Job, P!JobStep, P!CollectInfo, P!CreateIdFile, P!FinishIdFile,
         P!ReadManifest, P!JobFails, P!RestartJob, P!NewJob, P!Reboot, platformVars

\* Who has caught up is served: through restarts of containers, sandbox, pod and platform, lost
\* secrets and failures of the job and of the watcher.
THEOREM Serving == NodeSpec => []ServedWhenCaughtUp
<1>1. NodeInit => WatcherHasId /\ LostIsAbsent
  BY DEF NodeInit, Init, WatcherHasId, P!PlatformInit, LostIsAbsent
<1>2. WatcherHasId /\ LostIsAbsent /\ TypeOK /\ [NodeNext]_nodeVars
        => WatcherHasId' /\ LostIsAbsent'
  BY WatcherHasIdStep, LostIsAbsentStep, NodeStepOfPlatform
<1>3. WatcherHasId /\ LostIsAbsent /\ CaughtUp /\ NodeTypeOK /\ WatcherFollowsJob
        => ServedWhenCaughtUp
  <2> SUFFICES ASSUME WatcherHasId, LostIsAbsent, CaughtUp, NodeTypeOK, WatcherFollowsJob,
                      phase = "watching", cursor = latest, secret \in valid
               PROVE  /\ QplFinds(identity.cache)
                      /\ file = secret
                      /\ mode = "Online" /\ content \in P!Data /\ content = P!Inputs(platformSecret) =>
                            /\ content.svn = hardware.svn
                            /\ hardware.variable \in P!Readable => content.manifest = hardware.variable
    BY DEF ServedWhenCaughtUp
  <2>1. QplFinds(identity.cache)
    BY DEF WatcherHasId, NodeTypeOK, QplFinds
  <2>2. file = secret
    BY DEF CaughtUp
  <2>3. ASSUME mode = "Online", content \in P!Data, content = P!Inputs(platformSecret)
        PROVE  /\ content.svn = hardware.svn
               /\ hardware.variable \in P!Readable => content.manifest = hardware.variable
    <3>1. HasJob
      BY <2>3 DEF HasJob, Pod, Render, DaemonSetTemplate, Containers
    <3>2. job.at = "done" /\ P!ReadyForOthers
      BY <3>1 DEF WatcherFollowsJob
    <3>3. /\ content.svn = platformSecret.value["cpu_svn"]
          /\ content.manifest = platformSecret.value["platform_manifest"]
          /\ content.svn \in Svn
      BY <2>3 DEF P!Inputs, P!Data
    <3>4. ~lost
      <4>1. Unset \notin Svn
        BY ManifestAssumption
      <4>2. P!Api!Absent.value["cpu_svn"] = Unset
        BY DEF P!Api!Absent, P!Fields
      <4> QED
        BY <3>3, <4>1, <4>2 DEF LostIsAbsent
    <3> QED
      BY <3>2, <3>3, <3>4 DEF P!ReadyForOthers
  <2> QED
    BY <2>1, <2>2, <2>3
<1> QED
  BY <1>1, <1>2, <1>3, RunsWatcher, TypeCorrect, NothingMissed, NodeTypeCorrect, FollowsJob, PTL
     DEF NodeSpec

-----------------------------------------------------------------------------
(***************************************************************************)
(* The registrar's part.                                                   *)
(***************************************************************************)

PlatformDataSecrets == [p \in {"qe"} |-> Submitted]
PckSecrets == [p \in {"qe"} |-> PckSecret]
KnownInputs == [p \in {"qe"} |-> known]

\* A step that changes at most the platform-data secret submits what is now in it.
LEMMA SubmitLemma ==
  ASSUME UNCHANGED <<secret, content, known>>
  PROVE  \E contents \in P!Data \cup {Malformed, NoSecret} : Registrar!Submit("qe", contents)
<1>1. Submitted' \in P!Data \cup {Malformed, NoSecret}
  BY DEF Submitted, P!Registrable
<1>2. PlatformDataSecrets' = [PlatformDataSecrets EXCEPT !["qe"] = Submitted']
  BY DEF PlatformDataSecrets
<1>3. UNCHANGED <<PckSecrets, KnownInputs>>
  BY DEF PckSecrets, KnownInputs, PckSecret
<1>4. Registrar!Submit("qe", Submitted')
  BY <1>2, <1>3 DEF Registrar!Submit, PlatformDataSecrets, PckSecrets, KnownInputs
<1> QED BY <1>1, <1>4

\* A step after which the -pck secret is gone, or of no use to the registrar, is damage to it.
LEMMA DamageLemma ==
  ASSUME content' = Foreign, UNCHANGED <<platformSecret, known>>
  PROVE  \E remains \in {NoSecret, Damaged} : Registrar!Damage("qe", remains)
<1>1. PckSecret' \in {NoSecret, Damaged}
  BY ForeignAssumption DEF PckSecret, P!Data
<1>2. PckSecrets' = [PckSecrets EXCEPT !["qe"] = PckSecret']
  BY DEF PckSecrets
<1>3. UNCHANGED <<PlatformDataSecrets, KnownInputs>>
  BY DEF PlatformDataSecrets, KnownInputs, Submitted
<1>4. Registrar!Damage("qe", PckSecret')
  BY <1>2, <1>3 DEF Registrar!Damage, PlatformDataSecrets, PckSecrets, KnownInputs
<1> QED BY <1>1, <1>4

\* What happens to the secrets in the node is a step of the issuer, or leaves them alone.
LEMMA NodeStepOfIssuer == [NodeNext]_nodeVars => [Registrar!Step]_(Registrar!issuerVars)
<1> SUFFICES ASSUME [NodeNext]_nodeVars
             PROVE  Registrar!Step \/ UNCHANGED Registrar!issuerVars
  OBVIOUS
<1>1. CASE RunJob(P!Job) \/ RestartSandbox \/ NewPod \/ RebootNode \/ LosePlatformSecret
  <2>1. UNCHANGED <<secret, content, known>>
    BY <1>1 DEF RunJob, RestartSandbox, NewPod, RebootNode, LosePlatformSecret, RestartPod,
                ReplacePod, vars, pckVars
  <2> QED BY <2>1, SubmitLemma DEF Registrar!Step
<1>2. CASE StartWatcher \/ RunWatcher(Watcher) \/ RunWatcher(WatchError) \/ EndWatcher \/ Probe
  <2>1. UNCHANGED <<content, known, platformSecret>>
    BY <1>2 DEF StartWatcher, RunWatcher, EndWatcher, Probe, pckVars, platformVars
  <2>2. UNCHANGED secret
    BY <1>2 DEF StartWatcher, RunWatcher, EndWatcher, Probe, Start, Watcher, InitialRead,
                InitialReadFails, Connect, Event, FinishWrite, WatchError, Stop, WriteFails,
                Down, CacheReady
  <2> QED BY <2>1, <2>2, SubmitLemma DEF Registrar!Step
<1>3. ASSUME NEW inputs \in P!Data, Issue(inputs) PROVE Registrar!Step
  BY <1>3 DEF Issue, Registrar!Step
<1>4. CASE Observe
  BY <1>4 DEF Observe, Registrar!Step
<1>5. ASSUME NEW isValid \in BOOLEAN, PublishForeign(isValid) PROVE Registrar!Step
  BY <1>5, DamageLemma DEF PublishForeign, NextVersion, platformVars, Registrar!Step
<1>6. CASE DeletePck
  BY <1>6, DamageLemma DEF DeletePck, platformVars, Registrar!Step
<1>7. CASE UNCHANGED nodeVars
  BY <1>7, SubmitLemma DEF nodeVars, vars, pckVars, Registrar!Step
<1> QED
  BY <1>1, <1>2, <1>3, <1>4, <1>5, <1>6, <1>7 DEF NodeNext

\* Seen through its two secrets, the node is a world in which the registrar keeps the promise
\* that ServesEach shows it to keep.
THEOREM LivesWithIssuer == NodeSpec => Registrar!IssuerSpec
<1>1. NodeInit => Registrar!Start
  BY DEF NodeInit, Init, P!PlatformInit, Registrar!Start, Submitted, PckSecret
<1> QED
  BY <1>1, NodeStepOfIssuer, PTL DEF NodeSpec, Registrar!IssuerSpec

=============================================================================
