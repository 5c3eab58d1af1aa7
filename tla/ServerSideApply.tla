--------------------------- MODULE ServerSideApply ---------------------------
(***************************************************************************)
(* What the Kubernetes API server does to one object, as far as this       *)
(* repository relies on it: an object has a value per field and remembers  *)
(* which fields each field manager has set.                                *)
(*                                                                         *)
(* The API server is not part of the repository; this is how the code uses *)
(* it: every write is a forced server-side apply, and administrators edit  *)
(* the same objects with kubectl.                                          *)
(***************************************************************************)
CONSTANTS
    Field,      \* the fields of the object
    Manager,    \* everybody who writes it
    Unset       \* the value of a field that is not there

Absent == [value |-> [f \in Field |-> Unset], owner |-> [m \in Manager |-> {}]]

OwnedByOthers(o, m) == UNION {o.owner[n] : n \in Manager \ {m}}

\* The fields a manager owned alone and leaves out of its next apply: they are removed.
Abandoned(o, m, given) == (o.owner[m] \ given) \ OwnedByOthers(o, m)

\* Manager m applies, with force, the fields in the domain of patch: it owns them from now
\* on, alone if it changed their value, and loses those it used to apply.
ForceApply(o, m, patch) ==
    LET given   == DOMAIN patch
        changed == {f \in given : o.value[f] # patch[f]}
    IN  [value |-> [f \in Field |-> IF f \in given THEN patch[f]
                                    ELSE IF f \in Abandoned(o, m, given) THEN Unset
                                    ELSE o.value[f]],
         owner |-> [n \in Manager |-> IF n = m THEN given ELSE o.owner[n] \ changed]]

\* Manager m applies the fields of patch through `stringData`: the API server copies them into
\* the data and forgets who did, so that nobody owns them and a later apply abandons nothing.
ApplyStringData(o, m, patch) ==
    [o EXCEPT !.value = [f \in Field |-> IF f \in DOMAIN patch THEN patch[f] ELSE @[f]]]

\* Manager m edits one field in place, or removes it.
Edit(o, m, f, v) ==
    [value |-> [o.value EXCEPT ![f] = v],
     owner |-> [n \in Manager |-> IF n = m /\ v # Unset THEN o.owner[n] \cup {f}
                                  ELSE o.owner[n] \ {f}]]

=============================================================================
