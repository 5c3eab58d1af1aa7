------------------------------ MODULE PcsClient ------------------------------
(***************************************************************************)
(* What the PCS client makes of the answers of Intel PCS: the checks of    *)
(* pcs_client.rs on PCK certificates, issuer chains and TCB Info.          *)
(*                                                                         *)
(* An answer consists of texts.  What a text is parsed to is a parameter:  *)
(* a certificate is the key it certifies, the key it is signed with and a  *)
(* PIID; TCB Info is the key it is signed with, a type and an FMSPC, in    *)
(* one case.                                                               *)
(***************************************************************************)
EXTENDS Integers, Sequences, Functions

CONSTANTS
    Certificate,    \* texts for certificates
    TcbDocument,    \* texts for TCB Info
    Read,           \* what each text is parsed to
    Malformed,      \* what a text that cannot be parsed is parsed to
    NotAvailable,   \* the text for a PCK certificate that PCS does not have
    NoPiid          \* the PIID of a certificate that has none

SelfSigned(cert) == Read[cert].signer = Read[cert].key

\* The root is taken to come last, as PCS sends it.
LastIsRoot(chain) == 2

\* Which of the two certificates is the root.
RootIndex(chain) == IF SelfSigned(chain[1]) THEN 1 ELSE 2

Root(chain) == chain[RootIndex(chain)]

Issuer(chain) == chain[3 - RootIndex(chain)]

\* decode_and_validate_issuer_chain: two certificates, just one of them self-signed, and the
\* other one signed by it.
ChainIsValid(chain) ==
    /\ Len(chain) = 2
    /\ \A i \in DOMAIN chain : Read[chain[i]] # Malformed
    /\ SelfSigned(chain[1]) # SelfSigned(chain[2])
    /\ Read[Issuer(chain)].signer = Read[Root(chain)].key

-----------------------------------------------------------------------------

\* What is kept of the first i entries.
KeptOf(entries) ==
    LET kept[i \in 0..Len(entries)] ==
            IF i = 0 THEN <<>>
            ELSE IF entries[i] = NotAvailable THEN kept[i - 1]
            ELSE Append(kept[i - 1], entries[i])
    IN  kept

\* The entries that are kept.
Filtered(entries) == KeptOf(entries)[Len(entries)]

\* Every certificate passes verify_certificate.
Verifies(entries, chain) ==
    \A i \in DOMAIN entries :
        Read[entries[i]] # Malformed /\ Read[entries[i]].signer = Read[Issuer(chain)].key

\* The PIID of the last certificate.
PiidOfLast(certs) == Read[certs[Len(certs)]].piid

\* extract_piid, from the first certificate.
ExtractPiid(certs) == Read[certs[1]].piid

\* filter_and_verify_pck_certs: every certificate that is available is signed by the issuer of
\* the chain, there is at least one, and the first has a PIID.
CertsAreValid(entries, chain) ==
    /\ ChainIsValid(chain)
    /\ Filtered(entries) # <<>>
    /\ Verifies(Filtered(entries), chain)
    /\ ExtractPiid(Filtered(entries)) # NoPiid

\* validate_fmspc: the answer to the first request is taken up only with an FMSPC to go on with.
ValidFmspc(fmspc) == fmspc # Malformed

-----------------------------------------------------------------------------

\* validate_tcb_info
ValidTcbInfo(document) == Read[document] # Malformed /\ Read[document].tcb_type = 0

\* Each chain has a root, whichever.
AnyRoot(chain, pckChain) == ChainIsValid(chain) /\ ChainIsValid(pckChain)

\* Both chains have the same root.
SameRoot(chain, pckChain) ==
    ChainIsValid(chain) /\ ChainIsValid(pckChain) /\ Root(chain) = Root(pckChain)

\* The FMSPC in the document is not compared.
SignedForAny(document, chain, fmspc) == Read[document].signer = Read[Issuer(chain)].key

\* verify_tcb_info_signature: the document is signed by the signer of TCB Info, and is for the
\* FMSPC that was asked for.
SignedFor(document, chain, fmspc) ==
    /\ Read[document].signer = Read[Issuer(chain)].key
    /\ Read[document].fmspc = fmspc

\* validate_tcb_info and verify_tcb_info.
TcbInfoIsValid(document, chain, pckChain, fmspc) ==
    ValidTcbInfo(document) /\ SameRoot(chain, pckChain) /\ SignedFor(document, chain, fmspc)

=============================================================================
