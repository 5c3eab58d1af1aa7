-------------------------- MODULE PlatformDataProofs --------------------------
(***************************************************************************)
(* Proofs about the job that applies the platform's data, for any CPU SVNs *)
(* and manifests and any number of reboots, failures and lost secrets.     *)
(***************************************************************************)
EXTENDS PlatformData, TLAPS

\* What applying a document leaves in the secret.
LEMMA AppliedLemma ==
  ASSUME PlatformTypeOK, NEW document \in Documents
  PROVE  /\ Applied(platformSecret, document) \in
               [value : [Fields -> Svn \cup Readable \cup {Unset}],
                owner : [{FieldManager} -> SUBSET Fields]]
         /\ \A f \in Fields :
               Applied(platformSecret, document).value[f] =
                  IF f \in DOMAIN document THEN document[f] ELSE platformSecret.value[f]
<1>1. platformSecret = [value |-> platformSecret.value, owner |-> platformSecret.owner]
  BY DEF PlatformTypeOK
<1>2. Applied(platformSecret, document) =
        [value |-> [f \in Fields |-> IF f \in DOMAIN document THEN document[f]
                                     ELSE platformSecret.value[f]],
         owner |-> platformSecret.owner]
  BY <1>1 DEF Applied, Api!ApplyStringData
<1>3. \A f \in DOMAIN document : document[f] \in Svn \cup Readable
  BY DEF Documents, Fields
<1> QED
  BY <1>2, <1>3 DEF PlatformTypeOK

\* What a job applies is of this boot: always the CPU SVN, and the manifest if it could read one.
LEMMA DocumentLemma ==
  ASSUME PlatformTypeOK, hardware.variable # Broken
  PROVE  /\ Document \in Documents
         /\ "cpu_svn" \in DOMAIN Document /\ Document["cpu_svn"] = hardware.svn
         /\ hardware.variable \in Readable =>
               /\ "platform_manifest" \in DOMAIN Document
               /\ Document["platform_manifest"] = hardware.variable
         /\ hardware.variable \notin Readable => "platform_manifest" \notin DOMAIN Document
<1>1. hardware.svn \in Svn
  BY DEF PlatformTypeOK, Hardware
<1>2. CASE hardware.variable \in Readable
  BY <1>1, <1>2 DEF Document, Documents, Fields
<1>3. CASE hardware.variable \notin Readable
  BY <1>1, <1>3 DEF Document, Documents, Fields
<1> QED
  BY <1>2, <1>3

\* Before the first job nothing is carried, and nothing is done.
LEMMA PlatformInitLemma == PlatformInit => PlatformInv
<1> SUFFICES ASSUME PlatformInit PROVE PlatformInv
  OBVIOUS
<1>1. platformSecret \in [value : [Fields -> Svn \cup Readable \cup {Unset}],
                          owner : [{FieldManager} -> SUBSET Fields]]
  BY DEF PlatformInit, Api!Absent
<1> QED
  BY <1>1 DEF PlatformInit, PlatformInv, PlatformTypeOK, ReadyForOthers, JobIsCurrent, Pending

\* Applying the job's document makes the secret that of this boot.
LEMMA ApplyLemma ==
  ASSUME PlatformInv, job.at = "prepared",
         platformSecret' = Applied(platformSecret, job.given), UNCHANGED hardware
  PROVE  /\ platformSecret' \in [value : [Fields -> Svn \cup Readable \cup {Unset}],
                                 owner : [{FieldManager} -> SUBSET Fields]]
         /\ platformSecret'.value["cpu_svn"] = hardware.svn
         /\ hardware.variable \in Readable =>
               platformSecret'.value["platform_manifest"] = hardware.variable
         /\ hardware.variable \notin Readable =>
               platformSecret'.value["platform_manifest"]
                  = platformSecret.value["platform_manifest"]
<1>1. PlatformTypeOK /\ job.given = Document /\ hardware.variable # Broken
  BY DEF PlatformInv, JobIsCurrent
<1>2. Document \in Documents
  BY <1>1, DocumentLemma
<1>3. {"cpu_svn", "platform_manifest"} \subseteq Fields
  BY DEF Fields
<1> QED
  BY <1>1, <1>2, <1>3, AppliedLemma, DocumentLemma

\* Each step of the job, its restarts, reboots and the loss of the secret keep the invariant.
LEMMA PlatformNextLemma == PlatformInv /\ [PlatformNext]_platformVars => PlatformInv'
<1> SUFFICES ASSUME PlatformInv, [PlatformNext]_platformVars PROVE PlatformInv'
  OBVIOUS
<1>0. PlatformTypeOK /\ ReadyForOthers /\ JobIsCurrent
  BY DEF PlatformInv
<1> USE DEF PlatformInv, PlatformTypeOK, ReadyForOthers, JobIsCurrent, Document
<1>1. CASE UNCHANGED platformVars
  BY <1>0, <1>1 DEF platformVars
<1>2. CASE CollectInfo
  BY <1>0, <1>2 DEF CollectInfo
<1>3. CASE CreateIdFile
  BY <1>0, <1>3 DEF CreateIdFile
<1>4. CASE FinishIdFile
  BY <1>0, <1>4 DEF FinishIdFile
<1>5. CASE ReadManifest
  <2>1. Document \in Documents
    BY <1>0, <1>5, DocumentLemma DEF ReadManifest
  <2> QED
    BY <1>0, <1>5, <2>1 DEF ReadManifest
<1>6. CASE ApplySecret
  BY <1>0, <1>6, ApplyLemma DEF ApplySecret
<1>7. CASE ApplyUnanswered
  BY <1>0, <1>7, ApplyLemma DEF ApplyUnanswered, Pending
<1>8. CASE JobFails
  BY <1>0, <1>8 DEF JobFails, Pending
<1>9. CASE RestartJob \/ NewJob
  BY <1>0, <1>9 DEF RestartJob, NewJob, Pending
<1>10. ASSUME NEW present \in Hardware, Reboot(present) PROVE PlatformInv'
  BY <1>0, <1>10 DEF Reboot, Pending
<1>11. CASE LoseSecret
  <2>1. Api!Absent \in [value : [Fields -> Svn \cup Readable \cup {Unset}],
                        owner : [{FieldManager} -> SUBSET Fields]]
    BY DEF Api!Absent
  <2> QED
    BY <1>0, <1>11, <2>1 DEF LoseSecret
<1> QED
  BY <1>1, <1>2, <1>3, <1>4, <1>5, <1>6, <1>7, <1>8, <1>9, <1>10, <1>11
     DEF PlatformNext, Job, JobStep

\* The containers that start after the job may rely on the ID file and on the secret.
THEOREM PlatformInvariance == PlatformSpec => []PlatformInv
  BY PlatformInitLemma, PlatformNextLemma, PTL DEF PlatformSpec

\* What a step does to the stored manifest.
LEMMA ManifestStep ==
  ASSUME PlatformInv, Job
  PROVE  platformSecret'.value["platform_manifest"]
           \in {platformSecret.value["platform_manifest"], hardware.variable}
<1>1. CASE ApplySecret \/ ApplyUnanswered
  BY <1>1, ApplyLemma DEF ApplySecret, ApplyUnanswered
<1>2. CASE CollectInfo \/ CreateIdFile \/ FinishIdFile \/ ReadManifest \/ JobFails
  BY <1>2 DEF CollectInfo, CreateIdFile, FinishIdFile, ReadManifest, JobFails
<1> QED
  BY <1>1, <1>2 DEF Job, JobStep

\* A platform that hides its manifest after it was registered keeps the one that is stored:
\* leaving it out of a server-side apply through `stringData` does not remove it.
THEOREM ManifestKept == PlatformSpec => ManifestSurvives
<1>1. PlatformInv /\ [PlatformNext]_platformVars =>
        [Job => platformSecret'.value["platform_manifest"]
                  \in {platformSecret.value["platform_manifest"],
                       hardware.variable}]_platformVars
  BY ManifestStep
<1> QED
  BY <1>1, PlatformInvariance, PTL DEF PlatformSpec, ManifestSurvives

=============================================================================
