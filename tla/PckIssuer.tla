------------------------------ MODULE PckIssuer ------------------------------
(***************************************************************************)
(* What the registrar promises about the -pck secrets, with nothing said   *)
(* of events, runs, pauses and restarts.                                   *)
(*                                                                         *)
(* The issuer takes notice of platform-data secrets when it likes, may     *)
(* forget any of it at any time, and issues certificates only for inputs   *)
(* it knows, each labelled with the fingerprint of these very inputs.  It  *)
(* never replaces a -pck secret that is good for them.                     *)
(***************************************************************************)
CONSTANTS
    Platform,   \* QE IDs of the platforms
    Data,       \* valid registration inputs
    Malformed,  \* secret contents that cannot be registered
    NoSecret,   \* the secret does not exist
    Damaged     \* a -pck secret that the registrar cannot use

VARIABLES
    platformData,  \* the platform-data secrets
    pck,           \* the -pck secrets
    known          \* the inputs of each platform the issuer may still act on

issuerVars == <<platformData, pck, known>>

PckSecrets == [certificates : Data, fingerprint : Data, expired : BOOLEAN]

\* The -pck secret is there, made from these inputs, and not expired.
GoodFor(secret, data) ==
    /\ secret \in PckSecrets
    /\ secret.fingerprint = data
    /\ ~secret.expired

-----------------------------------------------------------------------------

\* The issuer learns at most what a platform-data secret says now.
Learns(p) == known'[p] \subseteq known[p] \cup ({platformData[p]} \cap Data)

\* It reads some secrets, and forgets what it has no more use for.
Observe ==
    /\ known' \in [Platform -> SUBSET Data]
    /\ \A p \in Platform : Learns(p)
    /\ UNCHANGED <<platformData, pck>>

\* It issues certificates for inputs it knows.
Issue(p) ==
    /\ \E d \in known[p] :
        /\ ~GoodFor(pck[p], d)
        /\ pck' = [pck EXCEPT ![p] = [certificates |-> d, fingerprint |-> d,
                                      expired |-> FALSE]]
    /\ known' \in [Platform -> SUBSET Data]
    /\ \A q \in Platform : known'[q] \subseteq known[q]
    /\ UNCHANGED platformData

\* Nodes and administrators write platform-data secrets.
Submit(p, contents) ==
    /\ platformData' = [platformData EXCEPT ![p] = contents]
    /\ UNCHANGED <<pck, known>>

\* Others delete or damage a -pck secret.
Damage(p, remains) ==
    /\ pck' = [pck EXCEPT ![p] = remains]
    /\ UNCHANGED <<platformData, known>>

\* The certificates pass their expiration time.
Expires(p) ==
    /\ pck[p] \in PckSecrets
    /\ pck' = [pck EXCEPT ![p].expired = TRUE]
    /\ UNCHANGED <<platformData, known>>

-----------------------------------------------------------------------------

Start ==
    /\ platformData \in [Platform -> Data \cup {Malformed, NoSecret}]
    /\ pck = [p \in Platform |-> NoSecret]
    /\ known = [p \in Platform |-> {}]

Step ==
    \/ Observe
    \/ \E p \in Platform :
        \/ Issue(p)
        \/ \E contents \in Data \cup {Malformed, NoSecret} : Submit(p, contents)
        \/ \E remains \in {NoSecret, Damaged} : Damage(p, remains)
        \/ Expires(p)

IssuerSpec == Start /\ [][Step]_issuerVars

=============================================================================
