------------------------------ MODULE Evidence ------------------------------
(***************************************************************************)
(* The evidence of one platform on its way from Intel PCS to the node: the *)
(* registrar checks the answers to its two requests, packs what it keeps   *)
(* into a cache blob in the -pck secret and notes the platform's PIID in   *)
(* the index; the watcher takes the blob from the secret into the cache.   *)
(*                                                                         *)
(* When runs start, are retried, paused or lost is Registrar's matter; a   *)
(* run that fails for any other reason than an answer that is refused is   *)
(* here one that ends early.  One registration is looked at, from the      *)
(* first request to the first secret that is written.                      *)
(*                                                                         *)
(* A secret that was written may be damaged in the ways of DamagedForms,   *)
(* which parse_cache_blob refuses but for another expiration time.         *)
(* Neither it nor the watcher looks at signatures: who replaces text by    *)
(* other text, or the blob by another good one, changes what the node      *)
(* gets, and nothing is said here of what it gets then.                    *)
(***************************************************************************)
EXTENDS PcsClient, CacheBlob

CONSTANTS
    CpuSvn,         \* the text of the platform's CPU SVN
    Fmspc,          \* FMSPCs
    Answer,         \* answers to the first request: `fmspc`, `chain` and `entries`
    TcbAnswer,      \* answers to the second one: `chain` and `document`
    Time,           \* expiration times
    Noise,          \* bytes that get into a damaged blob
    Nothing         \* not there

PckSecrets == [fmspc : Fmspc, blob : Seq(Byte)]

\* Whatever PCS sends is texts, those of a chain and of the entries for certificates, if for
\* anything; a request for an FMSPC is answered with one or with something that is none.
ASSUME AnswerAssumption ==
    /\ Answer \subseteq [fmspc : Fmspc \cup {Malformed}, chain : Seq(Certificate),
                        entries : Seq(Certificate \cup {NotAvailable})]
    /\ TcbAnswer \subseteq [chain : Seq(Certificate), document : TcbDocument]
    /\ Malformed \notin Fmspc
    /\ Nothing \notin Answer \cup TcbAnswer \cup PckSecrets

\* A CPU SVN, a certificate or a document is one character of text.
ASSUME TextAssumption == {CpuSvn} \cup Certificate \cup TcbDocument \subseteq Character

ASSUME BlobAssumption == Time \subseteq 0..(Capacity[ExpirationLen] - 1) /\ Noise \subseteq Byte

VARIABLES
    at,         \* how far the registration has come
    answer,     \* the answer to the first request that is looked at
    tcbAnswer,  \* the answer to the second request
    secret,     \* the -pck secret: its label and its blob
    index,      \* the platform's entry in the PIID index
    cache       \* the fields of the blob in the node's cache

vars == <<at, answer, tcbAnswer, secret, index, cache>>

Kept == Filtered(answer.entries)

\* The four fields of the blob.
Packed ==
    [cpu_svn |-> <<CpuSvn>>, tcb_info |-> <<tcbAnswer.document>>,
     cert_chain |-> answer.chain, pck_certs |-> Kept]

-----------------------------------------------------------------------------
(***************************************************************************)
(* The registration.                                                       *)
(***************************************************************************)

\* PCS answers the first request, and the certificates are filtered and verified.
FetchPckCerts(a) ==
    /\ at = "idle"
    /\ secret = Nothing
    /\ answer' = a
    /\ at' = IF ValidFmspc(a.fmspc) /\ CertsAreValid(a.entries, a.chain)
             THEN "certified" ELSE "refused"
    /\ UNCHANGED <<tcbAnswer, secret, index, cache>>

\* PCS answers the second request, and the TCB Info is verified.
FetchTcbInfo(a) ==
    /\ at = "certified"
    /\ tcbAnswer' = a
    /\ at' = IF TcbInfoIsValid(a.document, a.chain, answer.chain, answer.fmspc)
             THEN "verified" ELSE "refused"
    /\ UNCHANGED <<answer, secret, index, cache>>

\* The blob is built and the -pck secret applied, unless a field is too large.
StorePck(expiration) ==
    /\ at = "verified"
    /\ IF \A name \in DOMAIN Packed : Encodable(Packed[name])
       THEN /\ secret' = [fmspc |-> answer.fmspc, blob |-> Build(expiration, Packed)]
            /\ at' = "stored"
       ELSE /\ at' = "refused"
            /\ UNCHANGED secret
    /\ UNCHANGED <<answer, tcbAnswer, index, cache>>

\* The PIID of the answer goes to the index.
StorePiid ==
    /\ at = "stored"
    /\ at' = "done"
    /\ index' = ExtractPiid(Kept)
    /\ UNCHANGED <<answer, tcbAnswer, secret, cache>>

\* The run ends, or fails; nothing of it is kept.
EndRun ==
    /\ at # "idle"
    /\ at' = "idle"
    /\ answer' = Nothing
    /\ tcbAnswer' = Nothing
    /\ UNCHANGED <<secret, index, cache>>

-----------------------------------------------------------------------------
(***************************************************************************)
(* What becomes of the secret.                                             *)
(***************************************************************************)

\* Where the text of a blob is.
TextOf(blob) ==
    {i \in DOMAIN blob : \E k \in 1..4 : i \in (Ends(blob)[k - 1] + LengthLen + 1)..Ends(blob)[k]}

\* A blob that was cut off anywhere, has got a byte more, or another byte in its header or, one
\* that is no text, in its text.  Text in the place of other text is not among them.
DamagedForms(blob) ==
    {SubSeq(blob, 1, length) : length \in 0..(Len(blob) - 1)}
        \cup {Append(blob, byte) : byte \in Noise}
        \cup {[blob EXCEPT ![i] = byte] : i \in 1..HeaderLen, byte \in Noise}
        \cup {[blob EXCEPT ![i] = byte] : i \in TextOf(blob), byte \in Noise \ Character}

\* A blob that was good is damaged in one of these forms.
Damage ==
    /\ secret # Nothing
    /\ Parses(secret.blob)
    /\ \E blob \in DamagedForms(secret.blob) : secret' = [secret EXCEPT !.blob = blob]
    /\ UNCHANGED <<at, answer, tcbAnswer, index, cache>>

\* The watcher takes the blob to the cache if it is one.
ToCache ==
    /\ secret # Nothing
    /\ Parses(secret.blob)
    /\ cache' = Fields(secret.blob)
    /\ UNCHANGED <<at, answer, tcbAnswer, secret, index>>

Init ==
    /\ at = "idle"
    /\ answer = Nothing
    /\ tcbAnswer = Nothing
    /\ secret = Nothing
    /\ index = Nothing
    /\ cache = Nothing

Next ==
    \/ \E a \in Answer : FetchPckCerts(a)
    \/ \E a \in TcbAnswer : FetchTcbInfo(a)
    \/ \E expiration \in Time : StorePck(expiration)
    \/ StorePiid
    \/ EndRun
    \/ Damage
    \/ ToCache

Spec == Init /\ [][Next]_vars

-----------------------------------------------------------------------------
(***************************************************************************)
(* Properties.                                                             *)
(***************************************************************************)

TypeOK ==
    /\ at \in {"idle", "certified", "verified", "refused", "stored", "done"}
    /\ answer \in Answer \cup {Nothing}
    /\ tcbAnswer \in TcbAnswer \cup {Nothing}
    /\ secret = Nothing \/ secret \in PckSecrets
    /\ index = Nothing \/ \E cert \in Certificate : index = Read[cert].piid
    /\ cache = Nothing \/ cache \in Texts

\* The certificates of a root and an issuer, in whatever order they come.
IsChain(certs, root, issuer) ==
    /\ certs \in {<<root, issuer>>, <<issuer, root>>}
    /\ Malformed \notin {Read[root], Read[issuer]}
    /\ SelfSigned(root) /\ ~SelfSigned(issuer)
    /\ Read[issuer].signer = Read[root].key

\* Well-formed certificates that are signed by an issuer.
IssuedBy(issuer) ==
    {cert \in Certificate : Read[cert] # Malformed /\ Read[cert].signer = Read[issuer].key}

\* What a good answer to the first request is.
Genuine(a) ==
    /\ a.fmspc \in Fmspc
    /\ \E root, issuer \in Certificate :
        IsChain(a.chain, root, issuer) /\ Range(a.entries) \subseteq IssuedBy(issuer) \cup {NotAvailable}
    /\ \E i \in DOMAIN a.entries :
        /\ a.entries[i] # NotAvailable
        /\ Read[a.entries[i]].piid # NoPiid
        /\ \A j \in 1..(i - 1) : a.entries[j] = NotAvailable

\* What a good answer to the second request is, after a good one to the first.
GenuineTcbInfo(t, a) ==
    \E root, issuer \in Certificate :
        /\ IsChain(a.chain, root, issuer)
        /\ \E signer \in Certificate :
            /\ IsChain(t.chain, root, signer)
            /\ Read[t.document] # Malformed
            /\ Read[t.document].signer = Read[signer].key
            /\ Read[t.document].fmspc = a.fmspc
            /\ Read[t.document].tcb_type = 0

\* What is stored for a platform comes from two answers that belong together: the chains have
\* one root, in whatever place of theirs, and the TCB Info is signed below it and for the FMSPC
\* of the first answer.
OnlyMatchingAnswersStored ==
    at \in {"verified", "stored", "done"} => GenuineTcbInfo(tcbAnswer, answer)

\* An answer of PCS is taken up if it is good and refused if it is not, whichever the order of
\* the certificates in its chain and wherever the certificates that are not available are.
AnswersAreJudged ==
    /\ at \in {"certified", "verified", "stored", "done"} => Genuine(answer)
    /\ at = "refused" =>
        \/ ~Genuine(answer)
        \/ tcbAnswer # Nothing /\ ~GenuineTcbInfo(tcbAnswer, answer)
        \/ Len(Kept) >= Capacity[LengthLen]

\* Evidence that fits together: who signed the certificates and who signed the TCB Info have one
\* root, and the TCB Info is for processors with the FMSPC.
FitsTogether(fields, fmspc) ==
    \E root, issuer \in Certificate :
        /\ IsChain(fields.cert_chain, root, issuer)
        /\ fields.pck_certs # <<>> /\ Range(fields.pck_certs) \subseteq IssuedBy(issuer)
        /\ \E signer \in Certificate, document \in TcbDocument :
            /\ fields.tcb_info = <<document>>
            /\ IsChain(<<root, signer>>, root, signer)
            /\ Read[document] # Malformed
            /\ Read[document].signer = Read[signer].key
            /\ Read[document].fmspc = fmspc
            /\ Read[document].tcb_type = 0

\* Whatever PCS answers, the evidence in the node's cache fits together, also after the blob was
\* damaged in the secret in one of the DamagedForms: cut off, extended by a byte, or with another
\* byte in its header or one that is no text in its text.
CachedEvidenceFits == cache # Nothing => FitsTogether(cache, secret.fmspc)

\* parse_cache_blob takes what build_cache_blob builds and nothing else: no blob that was cut off
\* or extended, or is of another format.
OnlyBuiltBlobsParse ==
    secret # Nothing =>
        /\ Parses(secret.blob) =>
            secret.blob = Build(Expiration(secret.blob), Fields(secret.blob))
        /\ at = "stored" /\ ~Parses(secret.blob) =>
            \A expiration \in Time : secret.blob # Build(expiration, Packed)

\* The PIID in the index is that of the first certificate the node gets, likewise only up to
\* damage of the DamagedForms.
IndexNamesCertificate ==
    index # Nothing /\ Parses(secret.blob) =>
        index = Read[Fields(secret.blob).pck_certs[1]].piid

=============================================================================
