------------------------------ MODULE PiidIndex ------------------------------
(***************************************************************************)
(* The shared `piid-index` secret, with the field ownership the API server *)
(* keeps for it.  Up to four registrations patch it at the same time, each *)
(* with a server-side apply of a document that holds one entry only.  An   *)
(* apply removes what its field manager applied before and leaves out now, *)
(* so who the manager is decides whether the entries survive each other.   *)
(***************************************************************************)
CONSTANTS
    Platform,   \* the QE IDs, which are the keys of the secret
    Piid,       \* platform instance IDs
    Unset,      \* no entry
    Admin       \* the field manager of administrators' edits

ASSUME PiidAssumption == Unset \notin Piid

ASSUME AdminAssumption == \A p \in Platform : Admin # <<"pck-cert-tool", p>>

VARIABLES
    secret,     \* the piid-index secret
    patching    \* the PIID each platform's registration is patching in

vars == <<secret, patching>>

\* One field manager for all platforms, as for the other secrets.
OneManager(p) == <<"pck-cert-tool">>

\* patch_piid_index: a field manager per QE ID.
FieldManager(p) == <<"pck-cert-tool", p>>

Manager == {FieldManager(p) : p \in Platform} \cup {Admin}

Api == INSTANCE ServerSideApply WITH Field <- Platform

\* An entry encoded once by the registrar and once more by a stringData field.
PatchEncodedTwice(p) == [q \in {p} |-> <<"base64", patching[p]>>]

\* The document a registration applies: its own entry, encoded as the data field asks.
Patch(p) == [q \in {p} |-> patching[p]]

Init ==
    /\ secret = Api!Absent
    /\ patching = [p \in Platform |-> Unset]

\* register_platform has written the -pck secret and extracted the PIID.
BeginPatch(p, piid) ==
    /\ patching[p] = Unset
    /\ patching' = [patching EXCEPT ![p] = piid]
    /\ UNCHANGED secret

\* The API server applies the patch.
PatchIndex(p) ==
    /\ patching[p] # Unset
    /\ secret' = Api!ForceApply(secret, FieldManager(p), Patch(p))
    /\ patching' = [patching EXCEPT ![p] = Unset]

\* The patch fails, or the registrar dies before it is sent.
PatchFails(p) ==
    /\ patching[p] # Unset
    /\ patching' = [patching EXCEPT ![p] = Unset]
    /\ UNCHANGED secret

\* An administrator edits an entry.
AdminEdits(p, piid) ==
    /\ secret.value[p] # piid
    /\ secret' = Api!Edit(secret, Admin, p, piid)
    /\ UNCHANGED patching

\* An administrator deletes the secret.
AdminDeletes ==
    /\ secret' = Api!Absent
    /\ UNCHANGED patching

Next ==
    \/ \E p \in Platform : PatchIndex(p) \/ PatchFails(p)
    \/ \E p \in Platform, piid \in Piid : BeginPatch(p, piid)
    \/ \E p \in Platform, piid \in Piid \cup {Unset} : AdminEdits(p, piid)
    \/ AdminDeletes

Spec == Init /\ [][Next]_vars

-----------------------------------------------------------------------------

TypeOK ==
    /\ secret \in [value : [Platform -> Piid \cup {Unset}],
                   owner : [Manager -> SUBSET Platform]]
    /\ patching \in [Platform -> Piid \cup {Unset}]

\* Each registrar field manager owns at most its own platform's entry, so that an apply
\* never abandons the entry of another one.
ManagersKeepToTheirKey ==
    \A p \in Platform : secret.owner[FieldManager(p)] \subseteq {p}

\* The index behaves as a plain map: each patch records exactly its own platform's PIID,
\* over whatever an administrator left there, and "concurrent registrar tasks cannot
\* overwrite each other's keys".
Map == INSTANCE PiidMap WITH entries <- secret.value, wanted <- patching

ImplementsMap == Map!Spec

=============================================================================
