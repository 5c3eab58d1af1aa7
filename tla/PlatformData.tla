----------------------------- MODULE PlatformData -----------------------------
(***************************************************************************)
(* The init container platform-registration of one node's pod              *)
(* (`pck-cert-tool get-platforms`): a job that collects the platform's     *)
(* data, leaves the platform's ID to the other containers in a file, and   *)
(* applies the platform-data secret.                                       *)
(*                                                                         *)
(* The firmware presents the platform manifest in an EFI variable, and may *)
(* hide it once the platform has been registered.  A reboot may change     *)
(* what it presents, and the CPU SVN.  The job may fail or be killed       *)
(* between any two steps, and is then run again from its start.            *)
(***************************************************************************)
CONSTANTS
    Svn,        \* what get_platform_info may report: the CPU SVN, and all that goes with it
    Manifest,   \* platform manifests
    Empty,      \* the manifest of a variable that declares no data, and has none
    Hidden,     \* the EFI variable does not exist
    Broken,     \* it cannot be read, is too short, or not of the size it declares
    Unset       \* a field that the secret does not have

VARIABLES
    hardware,        \* what the platform presents since its last reboot
    platformSecret,  \* the platform-data secret, with its field ownership
    job,             \* how far the job has come, and the fields it has collected
    idFile,          \* the ID file shared with the other containers: "none", "torn", "id"
    lost             \* history: the secret was deleted since the last apply, if there was one

platformVars == <<hardware, platformSecret, job, idFile, lost>>

FieldManager == "pck-cert-tool"

Fields == {"platform_manifest", "cpu_svn"}

Api == INSTANCE ServerSideApply WITH Field <- Fields, Manager <- {FieldManager}

\* The EFI variable's contents, of the ones that can be read.
Readable == Manifest \cup {Empty}

Hardware == [svn : Svn, variable : Readable \cup {Hidden, Broken}]

Pending == [at |-> "pending", given |-> Unset]

\* The documents the job may apply: the manifest is left out when it is not available.
Documents == [{"cpu_svn"} -> Svn] \cup [Fields -> Svn \cup Readable]

-----------------------------------------------------------------------------
(***************************************************************************)
(* The job: create_secret.                                                 *)
(***************************************************************************)

\* The node name is a label value, and get_platform_info reports the platform's data.
CollectInfo ==
    /\ job.at = "pending"
    /\ job' = [job EXCEPT !.at = "collected"]
    /\ UNCHANGED <<hardware, platformSecret, idFile, lost>>

\* write_id_file: the file is created, which empties it.
CreateIdFile ==
    /\ job.at = "collected"
    /\ job' = [job EXCEPT !.at = "writing"]
    /\ idFile' = "torn"
    /\ UNCHANGED <<hardware, platformSecret, lost>>

FinishIdFile ==
    /\ job.at = "writing"
    /\ job' = [job EXCEPT !.at = "identified"]
    /\ idFile' = "id"
    /\ UNCHANGED <<hardware, platformSecret, lost>>

\* The fields of the secret: the manifest only if the EFI variable is there.
Document ==
    IF hardware.variable \in Readable
    THEN [f \in Fields |-> IF f = "cpu_svn" THEN hardware.svn ELSE hardware.variable]
    ELSE [f \in {"cpu_svn"} |-> hardware.svn]

\* get_platform_manifest: the variable is absent or holds as much as it declares.
ReadManifest ==
    /\ job.at = "identified"
    /\ hardware.variable # Broken
    /\ job' = [at |-> "prepared", given |-> Document]
    /\ UNCHANGED <<hardware, platformSecret, idFile, lost>>

\* The job applies through `data`, as owner of what it sets.
ApplyAsOwner(object, document) == Api!ForceApply(object, FieldManager, document)

\* The job applies through `stringData`.
Applied(object, document) == Api!ApplyStringData(object, FieldManager, document)

ApplySecret ==
    /\ job.at = "prepared"
    /\ platformSecret' = Applied(platformSecret, job.given)
    /\ job' = [at |-> "done", given |-> Unset]
    /\ lost' = FALSE
    /\ UNCHANGED <<hardware, idFile>>

\* The secret is applied, but the answer of the API server is lost: the job fails.
ApplyUnanswered ==
    /\ job.at = "prepared"
    /\ platformSecret' = Applied(platformSecret, job.given)
    /\ job' = Pending
    /\ lost' = FALSE
    /\ UNCHANGED <<hardware, idFile>>

\* A call fails, the EFI variable is broken, or the container is killed: it is started again.
JobFails ==
    /\ job.at \notin {"pending", "done"}
    /\ job' = Pending
    /\ UNCHANGED <<hardware, platformSecret, idFile, lost>>

-----------------------------------------------------------------------------
(***************************************************************************)
(* The pod, the platform and administrators.                               *)
(***************************************************************************)

\* The sandbox of the pod is made anew, and its init containers run again.
RestartJob ==
    /\ job' = Pending
    /\ UNCHANGED <<hardware, platformSecret, idFile, lost>>

\* Another pod, with an empty volume for the ID file.
NewJob ==
    /\ job' = Pending
    /\ idFile' = "none"
    /\ UNCHANGED <<hardware, platformSecret, lost>>

\* The platform reboots, perhaps with other firmware: memory volumes are gone.
Reboot(present) ==
    /\ hardware' = present
    /\ job' = Pending
    /\ idFile' = "none"
    /\ UNCHANGED <<platformSecret, lost>>

\* An administrator deletes the secret.
LoseSecret ==
    /\ platformSecret' = Api!Absent
    /\ lost' = TRUE
    /\ UNCHANGED <<hardware, job, idFile>>

PlatformInit ==
    /\ hardware \in Hardware
    /\ platformSecret = Api!Absent
    /\ job = Pending
    /\ idFile = "none"
    /\ lost = TRUE

JobStep == CollectInfo \/ CreateIdFile \/ FinishIdFile \/ ReadManifest \/ ApplySecret

Job == JobStep \/ ApplyUnanswered \/ JobFails

PlatformNext ==
    \/ Job
    \/ RestartJob \/ NewJob
    \/ \E present \in Hardware : Reboot(present)
    \/ LoseSecret

PlatformSpec == PlatformInit /\ [][PlatformNext]_platformVars

-----------------------------------------------------------------------------
(***************************************************************************)
(* What the registrar makes of the secret.                                 *)
(***************************************************************************)

\* Valid registration inputs.
Data == [manifest : Manifest, svn : Svn]

\* prepare_registration: both fields are there, and the manifest is not empty.
Inputs(object) == [manifest |-> object.value["platform_manifest"],
                   svn |-> object.value["cpu_svn"]]

Registrable(object) == Inputs(object) \in Data

(***************************************************************************)
(* Properties.                                                             *)
(***************************************************************************)

PlatformTypeOK ==
    /\ hardware \in Hardware
    /\ platformSecret \in [value : [Fields -> Svn \cup Readable \cup {Unset}],
                           owner : [{FieldManager} -> SUBSET Fields]]
    /\ job \in [at : {"pending", "collected", "writing", "identified", "prepared", "done"},
                given : Documents \cup {Unset}]
    /\ idFile \in {"none", "torn", "id"}
    /\ lost \in BOOLEAN

\* A job that found no manifest does not take away the one that is stored: all a job ever does
\* to the manifest in the secret is to store the one of this boot.
ManifestSurvives ==
    [][Job => platformSecret'.value["platform_manifest"]
                \in {platformSecret.value["platform_manifest"], hardware.variable}]_platformVars

\* What the containers started after the job may rely on: they know their platform's ID, and
\* its secret, unless it was deleted, is that of this boot.
ReadyForOthers ==
    job.at = "done" =>
        /\ idFile = "id"
        /\ lost \/ /\ platformSecret.value["cpu_svn"] = hardware.svn
                   /\ hardware.variable \in Readable =>
                        platformSecret.value["platform_manifest"] = hardware.variable

\* What a job carries is of this boot, and after it has named the platform.
JobIsCurrent ==
    /\ job.at = "prepared" =>
        job.given = Document /\ hardware.variable # Broken
    /\ job.at \in {"identified", "prepared"} => idFile = "id"
    /\ job.at = "done" => hardware.variable # Broken

PlatformInv == PlatformTypeOK /\ ReadyForOthers /\ JobIsCurrent

=============================================================================
