-------------------------- MODULE PiidIndexProofs --------------------------
(***************************************************************************)
(* The PIID index is a map, for any number of platforms.                   *)
(***************************************************************************)
EXTENDS PiidIndex, TLAPS

\* Different platforms have different field managers, none of them the administrators'.
LEMMA ManagersDiffer ==
    /\ \A p \in Platform : FieldManager(p) \in Manager /\ FieldManager(p) # Admin
    /\ \A p, q \in Platform : FieldManager(p) = FieldManager(q) => p = q
    /\ Admin \in Manager
  BY AdminAssumption DEF Manager, FieldManager

\* The index starts out typed,
LEMMA TypeInit == Init => TypeOK
  BY DEF Init, TypeOK, Api!Absent

\* and patches and edits keep it typed.
LEMMA TypeNext == TypeOK /\ [Next]_vars => TypeOK'
<1> SUFFICES ASSUME TypeOK, [Next]_vars PROVE TypeOK'
  OBVIOUS
<1> USE DEF TypeOK
<1>1. CASE UNCHANGED vars
  BY <1>1 DEF vars
<1>2. ASSUME NEW p \in Platform, PatchIndex(p) PROVE TypeOK'
  <2>1. DOMAIN Patch(p) = {p} /\ Patch(p)[p] \in Piid
    BY <1>2 DEF Patch, PatchIndex
  <2>2. Api!Abandoned(secret, FieldManager(p), {p}) \subseteq Platform
    BY ManagersDiffer DEF Api!Abandoned
  <2> QED
    BY <1>2, <2>1, <2>2 DEF PatchIndex, Api!ForceApply
<1>3. ASSUME NEW p \in Platform, PatchFails(p) PROVE TypeOK'
  BY <1>3 DEF PatchFails
<1>4. ASSUME NEW p \in Platform, NEW piid \in Piid, BeginPatch(p, piid) PROVE TypeOK'
  BY <1>4 DEF BeginPatch
<1>5. ASSUME NEW p \in Platform, NEW piid \in Piid \cup {Unset}, AdminEdits(p, piid)
      PROVE  TypeOK'
  BY <1>5 DEF AdminEdits, Api!Edit
<1>6. CASE AdminDeletes
  BY <1>6 DEF AdminDeletes, Api!Absent
<1> QED
  BY <1>1, <1>2, <1>3, <1>4, <1>5, <1>6 DEF Next

\* A patch is the only way to own an entry, and owns that of its platform.
LEMMA KeyNext ==
  ASSUME TypeOK, ManagersKeepToTheirKey, [Next]_vars
  PROVE  ManagersKeepToTheirKey'
<1> SUFFICES ASSUME NEW q \in Platform PROVE secret'.owner[FieldManager(q)] \subseteq {q}
  BY DEF ManagersKeepToTheirKey, FieldManager
<1>0. secret.owner[FieldManager(q)] \subseteq {q} /\ FieldManager(q) \in Manager
  BY ManagersDiffer DEF ManagersKeepToTheirKey
<1>1. CASE UNCHANGED vars
  BY <1>0, <1>1 DEF vars
<1>2. ASSUME NEW p \in Platform, PatchIndex(p)
      PROVE  secret'.owner[FieldManager(q)] \subseteq {q}
  <2>1. CASE p = q
    BY <1>0, <1>2, <2>1 DEF PatchIndex, Api!ForceApply, Patch
  <2>2. CASE p # q
    <3>1. FieldManager(p) # FieldManager(q)
      BY <2>2, ManagersDiffer
    <3> QED
      BY <1>0, <1>2, <3>1 DEF PatchIndex, Api!ForceApply
  <2> QED
    BY <2>1, <2>2
<1>3. ASSUME NEW p \in Platform, PatchFails(p) \/ \E piid \in Piid : BeginPatch(p, piid)
      PROVE  secret'.owner[FieldManager(q)] \subseteq {q}
  BY <1>0, <1>3 DEF PatchFails, BeginPatch
<1>4. ASSUME NEW p \in Platform, NEW piid \in Piid \cup {Unset}, AdminEdits(p, piid)
      PROVE  secret'.owner[FieldManager(q)] \subseteq {q}
  <2>1. FieldManager(q) # Admin
    BY ManagersDiffer
  <2>2. secret'.owner[FieldManager(q)] = secret.owner[FieldManager(q)] \ {p}
    BY <1>0, <1>4, <2>1 DEF AdminEdits, Api!Edit
  <2> QED
    BY <1>0, <2>2
<1>5. CASE AdminDeletes
  BY <1>0, <1>5 DEF AdminDeletes, Api!Absent
<1> QED
  BY <1>1, <1>2, <1>3, <1>4, <1>5 DEF Next

\* For any number of platforms and patches in flight, no registrar field manager ever owns
\* another platform's entry.
THEOREM KeysKept == Spec => [](TypeOK /\ ManagersKeepToTheirKey)
<1>1. ASSUME Init PROVE ManagersKeepToTheirKey
  <2>1. secret.owner = [m \in Manager |-> {}]
    BY <1>1 DEF Init, Api!Absent
  <2>2. \A p \in Platform : secret.owner[FieldManager(p)] = {}
    BY <2>1, ManagersDiffer
  <2> QED
    BY <2>2 DEF ManagersKeepToTheirKey
<1> QED
  BY <1>1, TypeInit, TypeNext, KeyNext, PTL DEF Spec

\* The index and the patches in flight keep their types.
THEOREM TypeCorrect == Spec => []TypeOK
BY KeysKept, PTL

\* A patch writes the entry of its own platform and no other.
LEMMA PatchRecords ==
  ASSUME TypeOK, ManagersKeepToTheirKey, NEW p \in Platform, PatchIndex(p)
  PROVE  Map!Record(p)
<1>1. DOMAIN Patch(p) = {p} /\ Patch(p)[p] = patching[p]
  BY DEF Patch
<1>2. Api!Abandoned(secret, FieldManager(p), {p}) = {}
  BY DEF Api!Abandoned, ManagersKeepToTheirKey
<1>3. secret'.value = [q \in Platform |-> IF q = p THEN patching[p] ELSE secret.value[q]]
  BY <1>1, <1>2 DEF PatchIndex, Api!ForceApply
<1>4. secret'.value = [secret.value EXCEPT ![p] = patching[p]]
  BY <1>3 DEF TypeOK
<1> QED
  BY <1>4 DEF PatchIndex, Map!Record

\* A patch records one entry, as nobody but the platform's manager owns it.
LEMMA MapNext ==
  ASSUME TypeOK, ManagersKeepToTheirKey, [Next]_vars
  PROVE  [Map!Next]_(Map!mapVars)
<1>1. CASE UNCHANGED vars
  BY <1>1 DEF vars, Map!mapVars
<1>2. ASSUME NEW p \in Platform, PatchIndex(p) PROVE Map!Next
  BY <1>2, PatchRecords DEF Map!Next
<1>3. ASSUME NEW p \in Platform, PatchFails(p) PROVE Map!Next
  BY <1>3 DEF PatchFails, Map!GiveUp, Map!Next
<1>4. ASSUME NEW p \in Platform, NEW piid \in Piid, BeginPatch(p, piid) PROVE Map!Next
  BY <1>4 DEF BeginPatch, Map!Ask, Map!Next
<1>5. ASSUME NEW p \in Platform, NEW piid \in Piid \cup {Unset}, AdminEdits(p, piid)
      PROVE  Map!Next
  BY <1>5 DEF AdminEdits, Api!Edit, Map!Administer, Map!Next
<1>6. CASE AdminDeletes
  BY <1>6 DEF AdminDeletes, Api!Absent, Map!Wipe, Map!Next
<1> QED
  BY <1>1, <1>2, <1>3, <1>4, <1>5, <1>6 DEF Next

\* The index with its field owners implements the plain map: registrations of different
\* platforms never touch each other's entries.
THEOREM Refinement == Spec => ImplementsMap
<1>1. Init => Map!Init
  BY DEF Init, Map!Init, Api!Absent
<1> QED
  BY <1>1, KeysKept, MapNext, PTL DEF Spec, ImplementsMap, Map!Spec

=============================================================================
