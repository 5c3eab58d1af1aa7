--------------------------------- MODULE Node ---------------------------------
(***************************************************************************)
(* One node, from the platform's firmware to the certificates tdx-qgs      *)
(* uses: the pod that the operator's template renders for the mode, with   *)
(* the job that applies the platform's data and the certificate watcher,   *)
(* and the registrar, of which only the promise of the issuer is used, or  *)
(* whoever else publishes the `<id>-pck` secret in the other modes.        *)
(*                                                                         *)
(* The components meet in the secrets and in the volumes of the pod.       *)
(***************************************************************************)
EXTENDS CertWatcher, Template

CONSTANTS
    Mode,           \* the modes of platform registration to look at
    Svn, Manifest, Empty, Hidden, Broken, Unset,    \* see PlatformData
    Malformed, NoSecret, Damaged,                   \* see PckIssuer
    Foreign,        \* certificates from elsewhere, or none
    MaxIssued       \* bound on the versions of the -pck secret, if the node has a job

ASSUME ModeAssumption == Mode \subseteq Modes

\* What is no manifest or CPU SVN can be told from both.
ASSUME ManifestAssumption ==
    /\ {Empty, Hidden, Broken, Unset} \cap (Svn \cup Manifest) = {}
    /\ Empty # Hidden /\ Empty # Broken /\ Empty # Unset /\ Hidden # Broken

VARIABLES
    hardware, platformSecret, job, idFile, lost,    \* see PlatformData
    mode,       \* the mode the DaemonSet was rendered for
    identity,   \* the watcher's `(id, cache_id)`
    content,    \* the inputs the -pck secret certifies, Foreign unless the registrar issued it
    known       \* the inputs the registrar has read and may still act on

P == INSTANCE PlatformData

\* Certificates from elsewhere are not those for any inputs.
ASSUME ForeignAssumption == Foreign \notin [manifest : Manifest, svn : Svn]

\* The -pck secret, as the registrar sees it; its expiration, a year away, is left out.
PckSecret ==
    IF secret = 0 THEN NoSecret
    ELSE IF content \in P!Data
         THEN [certificates |-> content, fingerprint |-> content, expired |-> FALSE]
         ELSE Damaged

\* The platform-data secret, likewise.
Submitted ==
    IF platformSecret = P!Api!Absent THEN NoSecret
    ELSE IF P!Registrable(platformSecret) THEN P!Inputs(platformSecret) ELSE Malformed

Registrar == INSTANCE PckIssuer WITH
    Platform <- {"qe"}, Data <- P!Data,
    platformData <- [p \in {"qe"} |-> Submitted],
    pck <- [p \in {"qe"} |-> PckSecret],
    known <- [p \in {"qe"} |-> known]

platformVars == <<hardware, platformSecret, job, idFile, lost>>
pckVars == <<content, known>>
nodeVars == <<vars, platformVars, mode, identity, pckVars>>

-----------------------------------------------------------------------------
(***************************************************************************)
(* The pod.                                                                *)
(***************************************************************************)

Pod == Render(mode)

HasJob == "platform-registration" \in Containers(Pod)

Nobody == [id |-> "", cache |-> ""]

\* get_id_from_file: a QE ID, and no part of one, is in the file.
HoldsId(file_) == file_ = "id"

\* The file in the cache has the watched name, wherever that comes from.
ResolveToOneName(file_) ==
    IF Pod.idFrom = "literal" THEN [id |-> "node", cache |-> "node"]
    ELSE IF HoldsId(file_) THEN [id |-> "qe", cache |-> "qe"] ELSE Nobody

\* resolve_id: the QE ID from the file names both the secret to watch and the file in the
\* cache; a literal ID names the secret only.
ResolveId(file_) ==
    IF Pod.idFrom = "literal" THEN [id |-> "node", cache |-> "zero"]
    ELSE IF HoldsId(file_) THEN [id |-> "qe", cache |-> "qe"] ELSE Nobody

\* The owner of the -pck secret: the registrar names it after the platform, and so does who
\* publishes it in Offline mode; in External mode it is named after the node.
Published == IF mode = "External" THEN "node" ELSE "qe"

\* The names under which the QPL looks for certificates in its cache.
QplFinds(cache) == cache \in {"qe", "zero"}

\* The job runs, before any other container.
RunJob(step) ==
    /\ HasJob
    /\ Admissible(Pod)
    /\ step
    /\ UNCHANGED <<vars, mode, identity, pckVars>>

\* The sidecar starts before the job is done.
StartAtOnce == Admissible(Pod)

\* The sidecar starts once the job is done.
MayStart == Admissible(Pod) /\ (HasJob => job.at = "done")

\* The sidecar starts; without an ID, it ends at once.
StartWatcher ==
    /\ MayStart
    /\ ResolveId(idFile) # Nobody
    /\ identity' = ResolveId(idFile)
    /\ Start
    /\ UNCHANGED <<platformVars, mode, pckVars>>

\* A step of the running sidecar, which sees the secret only by its name.
RunWatcher(step) ==
    /\ step
    /\ identity.id = Published
    /\ UNCHANGED <<platformVars, mode, identity, pckVars>>

\* The sidecar ends, on SIGTERM or because a write fails, and forgets its ID.
EndWatcher ==
    /\ Stop \/ (identity.id = Published /\ WriteFails)
    /\ identity' = IF phase' = "down" THEN Nobody ELSE identity
    /\ UNCHANGED <<platformVars, mode, pckVars>>

\* The kubelet probes the sidecar.
Probe ==
    /\ CacheReady
    /\ UNCHANGED <<platformVars, mode, identity, pckVars>>

\* The sandbox of the pod is made anew; its init containers run again, its volumes stay.
RestartSandbox ==
    /\ RestartPod
    /\ IF HasJob THEN P!RestartJob ELSE UNCHANGED platformVars
    /\ UNCHANGED <<mode, identity, pckVars>>

\* The pod is deleted and made anew, with new volumes.
NewPod ==
    /\ ReplacePod
    /\ IF HasJob THEN P!NewJob ELSE UNCHANGED platformVars
    /\ UNCHANGED <<mode, identity, pckVars>>

\* The platform reboots: the pod comes back without what it had in memory.
RebootNode ==
    /\ HasJob
    /\ ReplacePod
    /\ \E present \in P!Hardware : P!Reboot(present)
    /\ UNCHANGED <<mode, identity, pckVars>>

-----------------------------------------------------------------------------
(***************************************************************************)
(* Who publishes the secrets.                                              *)
(***************************************************************************)

HasRoom == HasJob => latest < MaxIssued

\* The next version of the -pck secret.
NextVersion(isValid, certificates) ==
    /\ HasRoom
    /\ Publish(isValid)
    /\ content' = certificates
    /\ UNCHANGED <<platformVars, mode, identity>>

\* The registrar issues certificates for inputs it knows.
Issue(inputs) ==
    /\ mode = "Online"
    /\ NextVersion(TRUE, inputs)
    /\ known' \in SUBSET known
    /\ Registrar!Issue("qe")

\* The registrar reads the platform-data secret, or forgets what it read.
Observe ==
    /\ mode = "Online"
    /\ known' \in SUBSET P!Data
    /\ UNCHANGED <<vars, platformVars, mode, identity, content>>
    /\ Registrar!Observe

\* Somebody else publishes the -pck secret, instead of the registrar.
PublishForeign(isValid) ==
    /\ mode # "Online"
    /\ NextVersion(isValid, Foreign)
    /\ UNCHANGED known

\* The -pck secret is deleted.
DeletePck ==
    /\ Delete
    /\ content' = Foreign
    /\ UNCHANGED <<platformVars, mode, identity, known>>

\* The platform-data secret is deleted.
LosePlatformSecret ==
    /\ HasJob
    /\ P!LoseSecret
    /\ UNCHANGED <<vars, mode, identity, pckVars>>

-----------------------------------------------------------------------------

NodeInit ==
    /\ Init
    /\ P!PlatformInit
    /\ mode \in Mode
    /\ ~HasJob => hardware = [svn |-> CHOOSE s \in Svn : TRUE, variable |-> Hidden]
    /\ identity = Nobody
    /\ content = Foreign
    /\ known = {}

NodeNext ==
    \/ RunJob(P!Job)
    \/ StartWatcher
    \/ RunWatcher(Watcher) \/ RunWatcher(WatchError)
    \/ EndWatcher \/ Probe
    \/ RestartSandbox \/ NewPod \/ RebootNode
    \/ \E inputs \in P!Data : Issue(inputs)
    \/ Observe
    \/ \E isValid \in BOOLEAN : PublishForeign(isValid)
    \/ DeletePck \/ LosePlatformSecret

NodeSpec == NodeInit /\ [][NodeNext]_nodeVars

(***************************************************************************)
(* Fairness: the kubelet runs the containers and the probe, and none of    *)
(* them waits for anything but the API server and the disk.  The registrar *)
(* takes notice of the platform's inputs again and again, and certifies    *)
(* them in the end: it is what EventuallyServed says of it.                *)
(***************************************************************************)
ReadInputs == Observe /\ Submitted \in known'

CertifyInputs == Submitted \in P!Data /\ Issue(Submitted)

FairNode ==
    /\ NodeSpec
    /\ WF_nodeVars(RunJob(P!JobStep))
    /\ WF_nodeVars(StartWatcher)
    /\ WF_nodeVars(RunWatcher(Watcher))
    /\ WF_nodeVars(Probe)
    /\ SF_nodeVars(ReadInputs)
    /\ SF_nodeVars(CertifyInputs)

-----------------------------------------------------------------------------
(***************************************************************************)
(* Properties.                                                             *)
(***************************************************************************)

NodeTypeOK ==
    /\ TypeOK
    /\ P!PlatformTypeOK
    /\ mode \in Modes
    /\ identity \in {Nobody, [id |-> "qe", cache |-> "qe"], [id |-> "node", cache |-> "zero"]}
    /\ content \in P!Data \cup {Foreign}
    /\ known \subseteq P!Data

\* The watcher of a platform that has a job runs only when that job has named the platform and
\* applied its data in this boot: whatever was killed, replaced, rebooted or failed in between,
\* the ID it watches for is not left over, and the secret is not that of an earlier boot.
WatcherFollowsJob ==
    phase # "down" /\ HasJob =>
        /\ job.at = "done"
        /\ P!ReadyForOthers
        /\ identity = [id |-> "qe", cache |-> "qe"]

\* A watcher to which every event was delivered has a valid secret where the QPL looks for it, and
\* what the registrar issued for the inputs that are in the platform-data secret was issued for
\* what the platform presents in this boot.
ServedWhenCaughtUp ==
    phase = "watching" /\ cursor = latest /\ secret \in valid =>
        /\ QplFinds(identity.cache)
        /\ file = secret
        /\ mode = "Online" /\ content \in P!Data /\ content = P!Inputs(platformSecret) =>
            /\ content.svn = hardware.svn
            /\ hardware.variable \in P!Readable => content.manifest = hardware.variable

\* No job takes away the manifest that is stored, on a platform that hides its own.
ManifestSurvives == P!ManifestSurvives

\* What keeps a node from being served for good.
Disturbance ==
    \/ RunJob(P!JobFails) \/ RunJob(P!ApplyUnanswered)
    \/ EndWatcher
    \/ RestartSandbox \/ NewPod \/ RebootNode
    \/ \E isValid \in BOOLEAN : PublishForeign(isValid)
    \/ DeletePck \/ LosePlatformSecret

\* The bound on the versions leaves the registrar room, or it has nothing left to issue.
RoomLeft == mode = "Online" => HasRoom \/ (secret # 0 /\ content = Submitted)

Calm == <>[][~Disturbance]_nodeVars /\ <>[]RoomLeft

\* There is something to be had for the platform: registrable data in Online mode, and else
\* certificates that somebody publishes.
Certifiable ==
    /\ HasJob => hardware.variable # Broken
    /\ IF mode = "Online" THEN job.at = "done" => P!Registrable(platformSecret)
                          ELSE secret # 0 /\ secret \in valid

\* The service has its certificates: the file is where the QPL looks for it, and what it holds
\* is the present secret, which certifies what the platform presents.
Served ==
    /\ qgs
    /\ QplFinds(identity.cache)
    /\ secret # 0 /\ file = secret
    /\ mode = "Online" =>
        /\ content = Submitted
        /\ lost \/ content.svn = hardware.svn

\* The whole chain: after reboots, lost secrets, failed jobs and writes, in every mode, tdx-qgs
\* gets certificates, and in Online mode those for the CPU SVN of this boot.
CertificatesArrive == Calm /\ <>[]Certifiable => <>[]Served

=============================================================================
