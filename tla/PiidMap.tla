------------------------------- MODULE PiidMap -------------------------------
(***************************************************************************)
(* What the PIID index promises: a map from platforms to PIIDs into which  *)
(* each registration records its own platform's PIID, and nothing else.    *)
(***************************************************************************)
CONSTANTS Platform, Piid, Unset

VARIABLES
    entries,    \* the PIID recorded for each platform
    wanted      \* the PIID a registration in flight is about to record

mapVars == <<entries, wanted>>

Init ==
    /\ entries = [p \in Platform |-> Unset]
    /\ wanted = [p \in Platform |-> Unset]

\* A registration comes to its last step.
Ask(p, piid) ==
    /\ wanted[p] = Unset
    /\ wanted' = [wanted EXCEPT ![p] = piid]
    /\ UNCHANGED entries

\* Its entry is recorded.
Record(p) ==
    /\ wanted[p] # Unset
    /\ entries' = [entries EXCEPT ![p] = wanted[p]]
    /\ wanted' = [wanted EXCEPT ![p] = Unset]

\* It fails.
GiveUp(p) ==
    /\ wanted[p] # Unset
    /\ wanted' = [wanted EXCEPT ![p] = Unset]
    /\ UNCHANGED entries

\* An administrator changes or removes one entry, or all of them.
Administer(p, piid) ==
    /\ entries' = [entries EXCEPT ![p] = piid]
    /\ UNCHANGED wanted

Wipe ==
    /\ entries' = [p \in Platform |-> Unset]
    /\ UNCHANGED wanted

Next ==
    \/ \E p \in Platform : Record(p) \/ GiveUp(p)
    \/ \E p \in Platform, piid \in Piid : Ask(p, piid)
    \/ \E p \in Platform, piid \in Piid \cup {Unset} : Administer(p, piid)
    \/ Wipe

Spec == Init /\ [][Next]_mapVars

=============================================================================
