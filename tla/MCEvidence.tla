----------------------------- MODULE MCEvidence -----------------------------
(***************************************************************************)
(* An instance of Evidence for TLC: two roots; an issuer and a TCB signer  *)
(* under the first, an issuer under the second; PCK certificates of both,  *)
(* one without a PIID.  The bytes 0 to 4 are numbers, 22 is neither.       *)
(***************************************************************************)
EXTENDS Evidence, TLC

CONSTANTS x, y, f, g

MCFmspc == {f, g}

root1 == 6
root2 == 7
issuer1 == 8
issuer2 == 9
signer1 == 10
leafX == 11
leafY == 12
leafNo == 13
leaf2 == 14
badCert == 15

MCCertificate == root1..badCert

tcb == 16
tcbOther == 17
tcbType == 18
tcb2 == 19
tcbRoot == 20
badTcb == 21

MCTcbDocument == tcb..badTcb

MCCharacter == 5..badTcb

Cert(key, signer, piid) == [key |-> key, signer |-> signer, piid |-> piid]

Tcb(signer, fmspc, tcb_type) == [signer |-> signer, fmspc |-> fmspc, tcb_type |-> tcb_type]

MCRead ==
    root1 :> Cert(root1, root1, NoPiid) @@ root2 :> Cert(root2, root2, NoPiid)
        @@ issuer1 :> Cert(issuer1, root1, NoPiid) @@ issuer2 :> Cert(issuer2, root2, NoPiid)
        @@ signer1 :> Cert(signer1, root1, NoPiid)
        @@ leafX :> Cert(leafX, issuer1, x) @@ leafY :> Cert(leafY, issuer1, y)
        @@ leafNo :> Cert(leafNo, issuer1, NoPiid) @@ leaf2 :> Cert(leaf2, issuer2, y)
        @@ badCert :> Malformed
        @@ tcb :> Tcb(signer1, f, 0) @@ tcbOther :> Tcb(signer1, g, 0) @@ tcbType :> Tcb(signer1, f, 1)
        @@ tcb2 :> Tcb(issuer2, f, 0) @@ tcbRoot :> Tcb(root1, f, 0) @@ badTcb :> Malformed

Seqs(S, n) == [1..n -> S]

\* Every chain of two certificates, and some that are too short or too long.
MCChain ==
    Seqs({root1, root2, issuer1, issuer2, signer1, badCert}, 2)
        \cup {<<>>, <<root1>>, <<issuer1, root1, signer1>>}

\* Up to two entries, and one more than the blob has room for.
MCEntries ==
    LET entries == {leafX, leafY, leafNo, leaf2, badCert, NotAvailable}
    IN  {<<>>} \cup Seqs(entries, 1) \cup Seqs(entries, 2) \cup Seqs({leafX}, Base)

MCAnswer == [fmspc : MCFmspc \cup {Malformed}, chain : MCChain, entries : MCEntries]

\* Chains of TCB Info, good and bad ones.
MCTcbChain == Seqs({root1, root2, issuer2, signer1}, 2)

MCTcbAnswer == [chain : MCTcbChain, document : MCTcbDocument]

MCTime == {0, 22}

MCNoise == {1, 4, root1, 22}

=============================================================================
