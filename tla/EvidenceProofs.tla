--------------------------- MODULE EvidenceProofs ---------------------------
(***************************************************************************)
(* Proofs about Evidence, for any certificates and documents and any       *)
(* answers of PCS: answers are judged for what they are, and what the      *)
(* node, the index and the secret have of a platform belongs together.     *)
(* The latter holds as long as the secret is changed by others in the      *)
(* DamagedForms only: a blob cut off at any byte, one extended by any byte *)
(* of Noise, one with such a byte in its header, or in its text if the     *)
(* byte is no text.  Nothing is claimed of a secret in which somebody      *)
(* replaced text by other text, or the blob by another good one.           *)
(***************************************************************************)
EXTENDS Evidence, CacheBlobProofs

-----------------------------------------------------------------------------
(***************************************************************************)
(* The checks of the PCS client.                                           *)
(***************************************************************************)

\* A valid chain is one of a root and an issuer, found wherever they are.
LEMMA ChainLemma ==
    ASSUME NEW chain \in Seq(Certificate), ChainIsValid(chain)
    PROVE  /\ Root(chain) \in Certificate /\ Issuer(chain) \in Certificate
           /\ IsChain(chain, Root(chain), Issuer(chain))
<1>1. Len(chain) = 2 /\ DOMAIN chain = 1..2
  BY DEF ChainIsValid
<1>2. chain[1] \in Certificate /\ chain[2] \in Certificate /\ chain = <<chain[1], chain[2]>>
  BY <1>1
<1>3. Read[chain[1]] # Malformed /\ Read[chain[2]] # Malformed
  BY <1>1 DEF ChainIsValid
<1>4. CASE SelfSigned(chain[1])
  <2>1. Root(chain) = chain[1] /\ Issuer(chain) = chain[2]
    BY <1>4 DEF Root, Issuer, RootIndex
  <2> QED
    BY <1>2, <1>3, <1>4, <2>1 DEF ChainIsValid, IsChain
<1>5. CASE ~SelfSigned(chain[1])
  <2>1. Root(chain) = chain[2] /\ Issuer(chain) = chain[1]
    BY <1>5 DEF Root, Issuer, RootIndex
  <2>2. SelfSigned(chain[2])
    BY <1>5 DEF ChainIsValid, SelfSigned
  <2> QED
    BY <1>2, <1>3, <1>5, <2>1, <2>2 DEF ChainIsValid, IsChain
<1> QED
  BY <1>4, <1>5

\* The certificates of a root and an issuer are a valid chain, in either order, and are told
\* apart.
LEMMA IsChainLemma ==
    ASSUME NEW chain, NEW root, NEW issuer, IsChain(chain, root, issuer)
    PROVE  ChainIsValid(chain) /\ Root(chain) = root /\ Issuer(chain) = issuer
<1>1. /\ SelfSigned(root) /\ ~SelfSigned(issuer)
      /\ Read[root] # Malformed /\ Read[issuer] # Malformed
      /\ Read[issuer].signer = Read[root].key
  BY DEF IsChain
<1>2. CASE chain = <<root, issuer>>
  <2>1. Len(chain) = 2 /\ DOMAIN chain = 1..2 /\ chain[1] = root /\ chain[2] = issuer
    BY <1>2
  <2>2. RootIndex(chain) = 1 /\ Root(chain) = root /\ Issuer(chain) = issuer
    BY <1>1, <2>1 DEF RootIndex, Root, Issuer
  <2>3. SelfSigned(chain[1]) # SelfSigned(chain[2])
    BY <1>1, <2>1 DEF SelfSigned
  <2>4. \A i \in DOMAIN chain : Read[chain[i]] # Malformed
    <3>1. \A i \in 1..2 : i = 1 \/ i = 2
      OBVIOUS
    <3> QED
      BY <1>1, <2>1, <3>1
  <2> QED
    BY <1>1, <2>1, <2>2, <2>3, <2>4 DEF ChainIsValid
<1>3. CASE chain = <<issuer, root>>
  <2>1. Len(chain) = 2 /\ DOMAIN chain = 1..2 /\ chain[1] = issuer /\ chain[2] = root
    BY <1>3
  <2>2. RootIndex(chain) = 2 /\ Root(chain) = root /\ Issuer(chain) = issuer
    BY <1>1, <2>1 DEF RootIndex, Root, Issuer
  <2>3. SelfSigned(chain[1]) # SelfSigned(chain[2])
    BY <1>1, <2>1 DEF SelfSigned
  <2>4. \A i \in DOMAIN chain : Read[chain[i]] # Malformed
    <3>1. \A i \in 1..2 : i = 1 \/ i = 2
      OBVIOUS
    <3> QED
      BY <1>1, <2>1, <3>1
  <2> QED
    BY <1>1, <2>1, <2>2, <2>3, <2>4 DEF ChainIsValid
<1> QED
  BY <1>2, <1>3 DEF IsChain

-----------------------------------------------------------------------------
(***************************************************************************)
(* The certificates that are kept.                                         *)
(***************************************************************************)

Entry == Certificate \cup {NotAvailable}

\* What KeptOf is defined to be.
LEMMA KeptLemma ==
    ASSUME NEW entries \in Seq(Entry)
    PROVE  /\ \A i \in 0..Len(entries) : KeptOf(entries)[i] \in Seq(Entry)
           /\ KeptOf(entries)[0] = <<>>
           /\ \A i \in 1..Len(entries) :
                KeptOf(entries)[i] =
                    IF entries[i] = NotAvailable THEN KeptOf(entries)[i - 1]
                    ELSE Append(KeptOf(entries)[i - 1], entries[i])
<1> DEFINE n == Len(entries)
           next(i, s) == IF entries[i] = NotAvailable THEN s ELSE Append(s, entries[i])
           step == [p \in Nat \X Seq(Entry) |-> IF p[1] \in 1..n THEN next(p[1], p[2]) ELSE <<>>]
<1>1. n \in Nat
  OBVIOUS
<1>2. <<>> \in Seq(Entry)
  OBVIOUS
<1>3. ASSUME NEW i \in 1..n, NEW s \in Seq(Entry) PROVE next(i, s) \in Seq(Entry)
  <2>1. entries[i] \in Entry
    OBVIOUS
  <2> QED
    BY <2>1, AppendProperties
<1> HIDE DEF n, next
<1>4. step \in [Nat \X Seq(Entry) -> Seq(Entry)]
  BY <1>2, <1>3
<1>5. ASSUME NEW i \in 1..n, NEW s \in Seq(Entry) PROVE step[<<i, s>>] = next(i, s)
  <2>1. i \in Nat
    BY <1>1
  <2>2. <<i, s>> \in Nat \X Seq(Entry) /\ <<i, s>>[1] = i /\ <<i, s>>[2] = s
    BY <2>1
  <2> QED
    BY <2>2
<1> HIDE DEF step
<1>6. PICK f : RecursUpto(f, n, Seq(Entry), <<>>, step)
  BY <1>1, <1>2, <1>4, RecursionLemma
<1>7. /\ f \in [0..n -> Seq(Entry)]
      /\ f = [i \in 0..n |-> IF i = 0 THEN <<>> ELSE step[<<i, f[i - 1]>>]]
  BY <1>6 DEF RecursUpto
<1>8. ASSUME NEW i \in 1..n PROVE f[i] = next(i, f[i - 1])
  <2>1. i \in 0..n /\ i - 1 \in 0..n /\ i # 0
    BY <1>1
  <2>2. f[i - 1] \in Seq(Entry) /\ f[i] = step[<<i, f[i - 1]>>]
    BY <1>7, <2>1
  <2> QED
    BY <1>5, <2>2
<1>9. f[0] = <<>>
  BY <1>1, <1>7
<1>10. f = [i \in 0..n |-> IF i = 0 THEN <<>> ELSE next(i, f[i - 1])]
  <2>1. ASSUME NEW i \in 0..n PROVE f[i] = IF i = 0 THEN <<>> ELSE next(i, f[i - 1])
    BY <1>1, <1>8, <1>9
  <2> QED
    BY <1>7, <2>1
<1> DEFINE g == KeptOf(entries)
<1>11. g = [i \in 0..n |-> IF i = 0 THEN <<>> ELSE next(i, g[i - 1])]
  BY <1>10 DEF KeptOf, n, next
<1> HIDE DEF g
<1>12. g[0] = <<>>
  BY <1>1, <1>11
<1>13. ASSUME NEW i \in 1..n PROVE g[i] = next(i, g[i - 1])
  <2>1. i \in 0..n /\ i # 0
    BY <1>1
  <2> QED
    BY <1>11, <2>1
<1> DEFINE T == {i \in Nat : i <= n => g[i] \in Seq(Entry)}
<1>14. 0 \in T
  BY <1>2, <1>12
<1>15. ASSUME NEW i \in Nat, i \in T PROVE i + 1 \in T
  <2> SUFFICES ASSUME i + 1 <= n PROVE g[i + 1] \in Seq(Entry)
    OBVIOUS
  <2>1. i + 1 \in 1..n /\ (i + 1) - 1 = i /\ i <= n
    BY <1>1
  <2>2. g[i] \in Seq(Entry)
    BY <1>15, <2>1
  <2> QED
    BY <1>3, <1>13, <2>1, <2>2
<1> HIDE DEF T
<1>16. Nat \subseteq T
  BY <1>14, <1>15, InductionLemma
<1>17. \A i \in 0..n : g[i] \in Seq(Entry)
  BY <1>16 DEF T
<1> QED
  BY <1>12, <1>13, <1>17 DEF g, n, next

\* The first i entries that are kept: those that are available, the first of these first.
KeptWell(entries, kept, i) ==
    /\ kept \in Seq(Certificate)
    /\ \A j \in 1..Len(kept) : \E k \in 1..i : entries[k] = kept[j] /\ entries[k] # NotAvailable
    /\ \A k \in 1..i : entries[k] # NotAvailable => \E j \in 1..Len(kept) : kept[j] = entries[k]
    /\ kept # <<>> =>
        \E k \in 1..i :
            /\ kept[1] = entries[k] /\ entries[k] # NotAvailable
            /\ \A l \in 1..(k - 1) : entries[l] = NotAvailable

\* One more entry is kept if it is available.
LEMMA KeptStep ==
    ASSUME NEW entries \in Seq(Entry), NEW kept, NEW i \in Nat, i + 1 \in DOMAIN entries,
           KeptWell(entries, kept, i)
    PROVE  KeptWell(entries, IF entries[i + 1] = NotAvailable THEN kept
                             ELSE Append(kept, entries[i + 1]), i + 1)
<1> DEFINE e == entries[i + 1]
<1>1. e \in Entry /\ (e # NotAvailable => e \in Certificate)
  BY DEF Entry
<1>2. i + 1 \in 1..(i + 1) /\ (\A k \in 1..i : k \in 1..(i + 1))
      /\ (\A k \in 1..(i + 1) : k \in 1..i \/ k = i + 1)
  OBVIOUS
<1>3. kept \in Seq(Certificate) /\ Len(kept) \in Nat
  BY DEF KeptWell
<1>4. CASE e = NotAvailable
  BY <1>2, <1>4 DEF KeptWell
<1>5. CASE e # NotAvailable
  <2> DEFINE more == Append(kept, e)
  <2>1. /\ more \in Seq(Certificate) /\ Len(more) = Len(kept) + 1
        /\ \A j \in 1..Len(kept) : more[j] = kept[j]
        /\ more[Len(kept) + 1] = e
    BY <1>1, <1>3, <1>5, AppendProperties
  <2> HIDE DEF more
  <2>2. /\ \A j \in 1..Len(more) : j \in 1..Len(kept) \/ j = Len(kept) + 1
        /\ \A j \in 1..Len(kept) : j \in 1..Len(more)
        /\ Len(kept) + 1 \in 1..Len(more)
    BY <1>3, <2>1
  <2>3. ASSUME NEW j \in 1..Len(more)
        PROVE  \E k \in 1..(i + 1) : entries[k] = more[j] /\ entries[k] # NotAvailable
    <3>1. CASE j \in 1..Len(kept)
      <4>1. PICK k \in 1..i : entries[k] = kept[j] /\ entries[k] # NotAvailable
        BY <3>1 DEF KeptWell
      <4> QED
        BY <1>2, <2>1, <3>1, <4>1
    <3>2. CASE j = Len(kept) + 1
      BY <1>2, <1>5, <2>1, <3>2
    <3> QED
      BY <2>2, <3>1, <3>2
  <2>4. ASSUME NEW k \in 1..(i + 1), entries[k] # NotAvailable
        PROVE  \E j \in 1..Len(more) : more[j] = entries[k]
    <3>1. CASE k \in 1..i
      <4>1. PICK j \in 1..Len(kept) : kept[j] = entries[k]
        BY <2>4, <3>1 DEF KeptWell
      <4> QED
        BY <2>1, <2>2, <4>1
    <3>2. CASE k = i + 1
      BY <2>1, <2>2, <3>2
    <3> QED
      BY <1>2, <3>1, <3>2
  <2>5. \E k \in 1..(i + 1) :
            /\ more[1] = entries[k] /\ entries[k] # NotAvailable
            /\ \A l \in 1..(k - 1) : entries[l] = NotAvailable
    <3>1. CASE kept = <<>>
      <4>1. Len(kept) = 0
        BY <3>1
      <4>2. more[1] = e
        BY <2>1, <4>1
      <4>3. ASSUME NEW l \in 1..((i + 1) - 1) PROVE entries[l] = NotAvailable
        <5>1. l \in 1..i
          OBVIOUS
        <5>2. entries[l] # NotAvailable => \E j \in 1..Len(kept) : kept[j] = entries[l]
          BY <5>1 DEF KeptWell
        <5>3. 1..Len(kept) = {}
          BY <4>1
        <5> QED
          BY <5>2, <5>3
      <4> QED
        BY <1>2, <1>5, <4>2, <4>3
    <3>2. CASE kept # <<>>
      <4>1. PICK k \in 1..i :
                /\ kept[1] = entries[k] /\ entries[k] # NotAvailable
                /\ \A l \in 1..(k - 1) : entries[l] = NotAvailable
        BY <3>2 DEF KeptWell
      <4>2. 1 \in 1..Len(kept)
        BY <1>3, <3>2, EmptySeq
      <4>3. more[1] = kept[1]
        BY <2>1, <4>2
      <4> QED
        BY <1>2, <4>1, <4>3
    <3> QED
      BY <3>1, <3>2
  <2>6. KeptWell(entries, more, i + 1)
    BY <2>1, <2>3, <2>4, <2>5 DEF KeptWell
  <2> QED
    BY <1>5, <2>6 DEF more
<1> QED
  BY <1>4, <1>5

\* Filtered keeps the entries that are available, and the first of them first.
THEOREM FilteredKeeps ==
    ASSUME NEW entries \in Seq(Entry)
    PROVE  /\ Filtered(entries) \in Seq(Certificate)
           /\ Range(Filtered(entries)) = Range(entries) \ {NotAvailable}
           /\ Filtered(entries) # <<>> =>
                \E i \in DOMAIN entries :
                    /\ Filtered(entries)[1] = entries[i] /\ entries[i] # NotAvailable
                    /\ \A j \in 1..(i - 1) : entries[j] = NotAvailable
<1> DEFINE n == Len(entries)
           T == {i \in Nat : i <= n => KeptWell(entries, KeptOf(entries)[i], i)}
<1>1. n \in Nat /\ DOMAIN entries = 1..n
  OBVIOUS
<1> HIDE DEF n
<1>2. 0 \in T
  <2>1. KeptOf(entries)[0] = <<>>
    BY KeptLemma
  <2>2. <<>> \in Seq(Certificate) /\ Len(<<>>) = 0 /\ 1..0 = {}
    OBVIOUS
  <2>3. KeptWell(entries, <<>>, 0)
    BY <2>2 DEF KeptWell
  <2> QED
    BY <2>1, <2>3
<1>3. ASSUME NEW i \in Nat, i \in T PROVE i + 1 \in T
  <2> SUFFICES ASSUME i + 1 <= n PROVE KeptWell(entries, KeptOf(entries)[i + 1], i + 1)
    OBVIOUS
  <2>1. i + 1 \in 1..n /\ (i + 1) - 1 = i /\ i + 1 \in DOMAIN entries
    BY <1>1
  <2>2. KeptWell(entries, KeptOf(entries)[i], i)
    BY <1>1, <1>3
  <2>3. KeptOf(entries)[i + 1] =
            IF entries[i + 1] = NotAvailable THEN KeptOf(entries)[i]
            ELSE Append(KeptOf(entries)[i], entries[i + 1])
    BY <2>1, KeptLemma DEF n
  <2> QED
    BY <2>1, <2>2, <2>3, KeptStep
<1> HIDE DEF T
<1>4. Nat \subseteq T
  BY <1>2, <1>3, InductionLemma
<1>5. KeptWell(entries, Filtered(entries), n)
  BY <1>1, <1>4 DEF T, Filtered, n
<1>6. Filtered(entries) \in Seq(Certificate)
  BY <1>5 DEF KeptWell
<1>7. Range(Filtered(entries)) = {Filtered(entries)[j] : j \in 1..Len(Filtered(entries))}
  BY <1>6, RangeEquality
<1>8. Range(entries) = {entries[k] : k \in 1..n}
  BY RangeEquality DEF n
<1>9. Range(Filtered(entries)) = Range(entries) \ {NotAvailable}
  <2> DEFINE s == Filtered(entries)
  <2>1. /\ \A j \in 1..Len(s) : \E k \in 1..n : entries[k] = s[j] /\ entries[k] # NotAvailable
        /\ \A k \in 1..n : entries[k] # NotAvailable => \E j \in 1..Len(s) : s[j] = entries[k]
    BY <1>5 DEF KeptWell
  <2>2. Range(s) = {s[j] : j \in 1..Len(s)}
    BY <1>7
  <2> HIDE DEF s
  <2>3. ASSUME NEW cert \in Range(s) PROVE cert \in Range(entries) /\ cert # NotAvailable
    <3>1. PICK j \in 1..Len(s) : cert = s[j]
      BY <2>2
    <3> QED
      BY <1>8, <2>1, <3>1
  <2>4. ASSUME NEW cert \in Range(entries), cert # NotAvailable PROVE cert \in Range(s)
    <3>1. PICK k \in 1..n : cert = entries[k]
      BY <1>8
    <3>2. PICK j \in 1..Len(s) : s[j] = entries[k]
      BY <2>1, <2>4, <3>1
    <3> QED
      BY <2>2, <3>1, <3>2
  <2> QED
    BY <2>3, <2>4 DEF s
<1>10. Filtered(entries) # <<>> =>
                \E i \in DOMAIN entries :
                    /\ Filtered(entries)[1] = entries[i] /\ entries[i] # NotAvailable
                    /\ \A j \in 1..(i - 1) : entries[j] = NotAvailable
  BY <1>1, <1>5 DEF KeptWell
<1> QED
  BY <1>6, <1>9, <1>10

-----------------------------------------------------------------------------
(***************************************************************************)
(* The checks on the answers let through what is good, and all of it.      *)
(***************************************************************************)

\* What answers consist of, and that they are something.
LEMMA AnswerTypes ==
    /\ \A a \in Answer : /\ a.fmspc \in Fmspc \cup {Malformed}
                         /\ a.chain \in Seq(Certificate)
                         /\ a.entries \in Seq(Entry)
    /\ \A t \in TcbAnswer : t.chain \in Seq(Certificate) /\ t.document \in TcbDocument
    /\ Malformed \notin Fmspc
    /\ Nothing \notin Answer /\ Nothing \notin TcbAnswer /\ Nothing \notin PckSecrets
  BY AnswerAssumption DEF Entry

\* What the two loops over the certificates make of a valid chain and its entries.
LEMMA CertsLemma ==
    ASSUME NEW chain \in Seq(Certificate), ChainIsValid(chain), NEW entries \in Seq(Entry)
    PROVE  /\ Verifies(Filtered(entries), chain) <=>
                  Range(entries) \subseteq IssuedBy(Issuer(chain)) \cup {NotAvailable}
           /\ Filtered(entries) # <<>> /\ ExtractPiid(Filtered(entries)) # NoPiid <=>
                  \E i \in DOMAIN entries :
                      /\ entries[i] # NotAvailable
                      /\ Read[entries[i]].piid # NoPiid
                      /\ \A j \in 1..(i - 1) : entries[j] = NotAvailable
<1> DEFINE kept == Filtered(entries)
           n == Len(entries)
           IsFirst(i) == /\ i \in 1..n /\ entries[i] # NotAvailable
                         /\ \A j \in 1..(i - 1) : entries[j] = NotAvailable
<1>1. /\ kept \in Seq(Certificate) /\ Range(kept) = Range(entries) \ {NotAvailable}
      /\ kept # <<>> => \E i \in DOMAIN entries : kept[1] = entries[i] /\ IsFirst(i)
  BY FilteredKeeps, SMTT(30)
<1>2. n \in Nat /\ DOMAIN entries = 1..n
  OBVIOUS
<1>3. /\ Range(kept) = {kept[j] : j \in DOMAIN kept}
      /\ Range(entries) = {entries[j] : j \in 1..n}
  BY <1>1, <1>2, RangeEquality
<1> HIDE DEF kept, n
<1>4. \A cert \in Range(kept) : cert \in Certificate
  BY <1>1, RangeOfSeq
<1>5. Verifies(kept, chain) <=> Range(kept) \subseteq IssuedBy(Issuer(chain))
  <2>1. Verifies(kept, chain) <=>
            \A cert \in Range(kept) :
                Read[cert] # Malformed /\ Read[cert].signer = Read[Issuer(chain)].key
    BY <1>3 DEF Verifies
  <2> QED
    BY <1>4, <2>1 DEF IssuedBy
<1>6. Range(kept) \subseteq IssuedBy(Issuer(chain))
        <=> Range(entries) \subseteq IssuedBy(Issuer(chain)) \cup {NotAvailable}
  <2> DEFINE good == IssuedBy(Issuer(chain))
  <2>1. Range(kept) \subseteq good <=> Range(entries) \subseteq good \cup {NotAvailable}
    <3> HIDE DEF good
    <3> QED
      BY <1>1
  <2> QED
    BY <2>1
<1>7. \A i, k : IsFirst(i) /\ IsFirst(k) => i = k
  <2> SUFFICES ASSUME NEW i, NEW k, IsFirst(i), IsFirst(k) PROVE i = k
    OBVIOUS
  <2>1. ~(i < k)
    BY <1>2
  <2>2. ~(k < i)
    BY <1>2
  <2> QED
    BY <1>2, <2>1, <2>2
<1>8. ASSUME NEW i, IsFirst(i) PROVE kept # <<>> /\ kept[1] = entries[i]
  <2>1. entries[i] \in Range(kept)
    BY <1>1, <1>3, <1>8
  <2>2. kept # <<>>
    <3>1. PICK j \in DOMAIN kept : kept[j] = entries[i]
      BY <1>3, <2>1
    <3> QED
      BY <3>1
  <2>3. PICK k : kept[1] = entries[k] /\ IsFirst(k)
    BY <1>1, <2>2
  <2> HIDE DEF IsFirst
  <2> QED
    BY <1>7, <1>8, <2>2, <2>3
<1>9. kept # <<>> /\ ExtractPiid(kept) # NoPiid <=>
          \E i \in DOMAIN entries : IsFirst(i) /\ Read[entries[i]].piid # NoPiid
  <2> HIDE DEF IsFirst
  <2>1. ASSUME kept # <<>>, ExtractPiid(kept) # NoPiid
        PROVE  \E i \in DOMAIN entries : IsFirst(i) /\ Read[entries[i]].piid # NoPiid
    BY <1>1, <2>1 DEF ExtractPiid
  <2>2. ASSUME NEW i \in DOMAIN entries, IsFirst(i), Read[entries[i]].piid # NoPiid
        PROVE  kept # <<>> /\ ExtractPiid(kept) # NoPiid
    BY <1>8, <2>2 DEF ExtractPiid
  <2> QED
    BY <2>1, <2>2
<1>10. kept # <<>> /\ ExtractPiid(kept) # NoPiid <=>
                  \E i \in DOMAIN entries :
                      /\ entries[i] # NotAvailable
                      /\ Read[entries[i]].piid # NoPiid
                      /\ \A j \in 1..(i - 1) : entries[j] = NotAvailable
  BY <1>2, <1>9
<1> QED
  BY <1>5, <1>6, <1>10 DEF kept

\* filter_and_verify_pck_certs accepts the good answers to the first request, and no others.
THEOREM CertsAreJudged ==
    ASSUME NEW a \in Answer
    PROVE  ValidFmspc(a.fmspc) /\ CertsAreValid(a.entries, a.chain) <=> Genuine(a)
<1>1. /\ a.chain \in Seq(Certificate) /\ a.entries \in Seq(Entry)
      /\ ValidFmspc(a.fmspc) <=> a.fmspc \in Fmspc
  BY AnswerTypes DEF ValidFmspc
<1>2. ASSUME ValidFmspc(a.fmspc), CertsAreValid(a.entries, a.chain)
      PROVE  Genuine(a)
  <2>1. ChainIsValid(a.chain)
    BY <1>2 DEF CertsAreValid
  <2>2. /\ Root(a.chain) \in Certificate /\ Issuer(a.chain) \in Certificate
        /\ IsChain(a.chain, Root(a.chain), Issuer(a.chain))
    BY <1>1, <2>1, ChainLemma
  <2> QED
    BY <1>1, <1>2, <2>1, <2>2, CertsLemma DEF CertsAreValid, Genuine
<1>3. ASSUME Genuine(a)
      PROVE  ValidFmspc(a.fmspc) /\ CertsAreValid(a.entries, a.chain)
  <2>1. PICK root, issuer \in Certificate :
            /\ IsChain(a.chain, root, issuer)
            /\ Range(a.entries) \subseteq IssuedBy(issuer) \cup {NotAvailable}
    BY <1>3 DEF Genuine
  <2>2. ChainIsValid(a.chain) /\ Issuer(a.chain) = issuer
    BY <2>1, IsChainLemma
  <2> QED
    BY <1>1, <1>3, <2>1, <2>2, CertsLemma DEF CertsAreValid, Genuine
<1> QED
  BY <1>2, <1>3

\* validate_tcb_info and verify_tcb_info accept the answers to the second request that match the
\* first, and no others.
THEOREM TcbInfoIsJudged ==
    ASSUME NEW a \in Answer, NEW t \in TcbAnswer
    PROVE  TcbInfoIsValid(t.document, t.chain, a.chain, a.fmspc) <=> GenuineTcbInfo(t, a)
<1>1. a.chain \in Seq(Certificate) /\ t.chain \in Seq(Certificate)
  BY AnswerTypes
<1>2. ASSUME TcbInfoIsValid(t.document, t.chain, a.chain, a.fmspc)
      PROVE  GenuineTcbInfo(t, a)
  <2>1. ChainIsValid(a.chain) /\ ChainIsValid(t.chain) /\ Root(t.chain) = Root(a.chain)
    BY <1>2 DEF TcbInfoIsValid, SameRoot
  <2>2. /\ Root(a.chain) \in Certificate /\ Issuer(a.chain) \in Certificate
        /\ IsChain(a.chain, Root(a.chain), Issuer(a.chain))
    BY <1>1, <2>1, ChainLemma
  <2>3. Issuer(t.chain) \in Certificate /\ IsChain(t.chain, Root(a.chain), Issuer(t.chain))
    BY <1>1, <2>1, ChainLemma
  <2> QED
    BY <1>2, <2>2, <2>3 DEF GenuineTcbInfo, TcbInfoIsValid, ValidTcbInfo, SignedFor
<1>3. ASSUME GenuineTcbInfo(t, a)
      PROVE  TcbInfoIsValid(t.document, t.chain, a.chain, a.fmspc)
  <2>1. PICK root, issuer, signer \in Certificate :
            /\ IsChain(a.chain, root, issuer) /\ IsChain(t.chain, root, signer)
            /\ Read[t.document] # Malformed
            /\ Read[t.document].signer = Read[signer].key
            /\ Read[t.document].fmspc = a.fmspc
            /\ Read[t.document].tcb_type = 0
    BY <1>3 DEF GenuineTcbInfo
  <2>2. /\ ChainIsValid(a.chain) /\ Root(a.chain) = root
        /\ ChainIsValid(t.chain) /\ Root(t.chain) = root /\ Issuer(t.chain) = signer
    BY <2>1, IsChainLemma
  <2> QED
    BY <2>1, <2>2 DEF TcbInfoIsValid, ValidTcbInfo, SameRoot, SignedFor
<1> QED
  BY <1>2, <1>3

\* What is packed from good answers fits together, and has room but for the certificates.
LEMMA PackedLemma ==
    ASSUME answer \in Answer, tcbAnswer \in TcbAnswer, Genuine(answer),
           GenuineTcbInfo(tcbAnswer, answer)
    PROVE  /\ Packed \in Texts
           /\ FitsTogether(Packed, answer.fmspc)
           /\ Kept \in Seq(Certificate) /\ Kept[1] \in Certificate
           /\ Len(Kept) < Capacity[LengthLen] => \A name \in DOMAIN Packed : Encodable(Packed[name])
<1>1. /\ answer.chain \in Seq(Certificate) /\ answer.entries \in Seq(Entry)
      /\ tcbAnswer.document \in TcbDocument
  BY AnswerTypes
<1>2. CertsAreValid(answer.entries, answer.chain)
  BY CertsAreJudged
<1>3. /\ ChainIsValid(answer.chain) /\ Kept # <<>> /\ Verifies(Kept, answer.chain)
  BY <1>2 DEF CertsAreValid, Kept
<1>4. Kept \in Seq(Certificate) /\ Range(Kept) = Range(answer.entries) \ {NotAvailable}
  BY <1>1, FilteredKeeps DEF Kept
<1>5. Kept[1] \in Certificate
  BY <1>3, <1>4, EmptySeq
<1>6. Packed = [cpu_svn |-> <<CpuSvn>>, tcb_info |-> <<tcbAnswer.document>>,
                cert_chain |-> answer.chain, pck_certs |-> Kept]
  BY DEF Packed
<1>7. Packed \in Texts
  <2>1. CpuSvn \in Character /\ tcbAnswer.document \in Character /\ Certificate \subseteq Character
    BY <1>1, TextAssumption
  <2>2. answer.chain \in Seq(Character) /\ Kept \in Seq(Character)
    BY <1>1, <1>4, <2>1, SeqMonotonic
  <2>3. <<CpuSvn>> \in Seq(Character) /\ <<tcbAnswer.document>> \in Seq(Character)
    BY <2>1
  <2> QED
    BY <1>6, <2>2, <2>3 DEF Texts
<1>8. PICK root, issuer, signer \in Certificate :
          /\ IsChain(answer.chain, root, issuer) /\ IsChain(tcbAnswer.chain, root, signer)
          /\ Read[tcbAnswer.document] # Malformed
          /\ Read[tcbAnswer.document].signer = Read[signer].key
          /\ Read[tcbAnswer.document].fmspc = answer.fmspc
          /\ Read[tcbAnswer.document].tcb_type = 0
  BY DEF GenuineTcbInfo
<1>9. Issuer(answer.chain) = issuer
  BY <1>8, IsChainLemma
<1>10. Range(answer.entries) \subseteq IssuedBy(issuer) \cup {NotAvailable}
  BY <1>1, <1>3, <1>9, CertsLemma DEF Kept
<1>11. Range(Kept) \subseteq IssuedBy(issuer)
  BY <1>4, <1>10
<1>12. IsChain(<<root, signer>>, root, signer)
  BY <1>8 DEF IsChain
<1>13. FitsTogether(Packed, answer.fmspc)
  <2>1. /\ Packed.cert_chain = answer.chain /\ Packed.pck_certs = Kept
        /\ Packed.tcb_info = <<tcbAnswer.document>>
    BY <1>6
  <2> QED
    BY <1>1, <1>3, <1>8, <1>11, <1>12, <2>1 DEF FitsTogether
<1>14. ASSUME Len(Kept) < Capacity[LengthLen]
       PROVE  \A name \in DOMAIN Packed : Encodable(Packed[name])
  <2>1. Capacity[LengthLen] \in Nat /\ Capacity[LengthLen] > 4
    <3>1. Capacity[LengthLen] >= Base /\ Base \in Nat /\ Base > 4 /\ Capacity[LengthLen] \in Nat
      BY LengthsLemma, RoomLemma, CapacityLemma, FormatAssumption DEF SgxQplCacheMulticerts
    <3> QED
      BY <3>1
  <2>2. Len(answer.chain) = 2
    BY <1>3 DEF ChainIsValid
  <2>3. Len(<<CpuSvn>>) = 1 /\ Len(<<tcbAnswer.document>>) = 1
    OBVIOUS
  <2>4. /\ Encodable(<<CpuSvn>>) /\ Encodable(<<tcbAnswer.document>>)
        /\ Encodable(answer.chain) /\ Encodable(Kept)
    BY <1>14, <2>1, <2>2, <2>3 DEF Encodable
  <2>5. DOMAIN Packed = {"cpu_svn", "tcb_info", "cert_chain", "pck_certs"}
    BY <1>6
  <2>6. /\ Encodable(Packed["cpu_svn"]) /\ Encodable(Packed["tcb_info"])
        /\ Encodable(Packed["cert_chain"]) /\ Encodable(Packed["pck_certs"])
    BY <1>6, <2>4
  <2> QED
    BY <2>5, <2>6
<1> QED
  BY <1>4, <1>5, <1>7, <1>13, <1>14

-----------------------------------------------------------------------------
(***************************************************************************)
(* A damaged blob.                                                         *)
(***************************************************************************)

\* Where the fields of a blob that parses are.
LEMMA PlacesLemma ==
    ASSUME NEW blob \in Seq(Byte), Parses(blob)
    PROVE  /\ Ends(blob)[4] = Len(blob) /\ HeaderLen <= Len(blob)
           /\ \A k \in 0..4 : Ends(blob)[k] \in Nat /\ HeaderLen <= Ends(blob)[k]
                              /\ Ends(blob)[k] <= Len(blob)
           /\ \A j, k \in 0..4 : j <= k => Ends(blob)[j] <= Ends(blob)[k]
           /\ \A k \in 1..4 : Ends(blob)[k - 1] + LengthLen <= Ends(blob)[k]
<1>1. Ends(blob)[4] = Len(blob) /\ HeaderLen <= Len(blob) /\ Len(blob) \in Nat /\ HeaderLen \in Nat
  BY LengthsLemma DEF Parses, HeaderIsValid
<1>2. Ends(blob)[0] = HeaderLen /\ \A k \in 0..4 : Ends(blob)[k] \in Nat
  BY EndsDefined
<1>3. \A k \in 0..4 : Ends(blob)[k] <= Len(blob)
  <2>1. 4 \in 0..4 /\ Ends(blob)[4] <= Len(blob)
    BY <1>1
  <2> QED
    BY <1>1, <2>1, EndsLemma
<1>4. \A k \in 0..4 : \A j \in 0..k : Ends(blob)[j] <= Ends(blob)[k]
  BY <1>3, EndsLemma
<1>5. \A j, k \in 0..4 : j <= k => j \in 0..k
  OBVIOUS
<1>6. \A j, k \in 0..4 : j <= k => Ends(blob)[j] <= Ends(blob)[k]
  BY <1>4, <1>5
<1>7. \A k \in 0..4 : 0 \in 0..4 /\ 0 <= k
  OBVIOUS
<1>8. \A k \in 0..4 : HeaderLen <= Ends(blob)[k]
  BY <1>2, <1>6, <1>7
<1>9. \A k \in 1..4 : Ends(blob)[k - 1] + LengthLen <= Ends(blob)[k]
  <2>1. 4 \in 0..4 /\ Ends(blob)[4] <= Len(blob)
    BY <1>1
  <2> QED
    BY <2>1, EndsLemma
<1> QED
  BY <1>1, <1>2, <1>3, <1>6, <1>8, <1>9

\* A blob of the same length that differs in its header only has the same fields.
LEMMA HeaderLemma ==
    ASSUME NEW blob \in Seq(Byte), Parses(blob), NEW other \in Seq(Byte), Len(other) = Len(blob),
           \A i \in (HeaderLen + 1)..Len(blob) : other[i] = blob[i]
    PROVE  Fields(other) = Fields(blob)
<1>1. /\ Ends(blob)[4] = Len(blob)
      /\ \A k \in 0..4 : Ends(blob)[k] \in Nat /\ HeaderLen <= Ends(blob)[k]
                         /\ Ends(blob)[k] <= Len(blob)
      /\ \A k \in 1..4 : Ends(blob)[k - 1] + LengthLen <= Ends(blob)[k]
  BY PlacesLemma
<1>2. HeaderLen \in Nat /\ LengthLen \in Nat /\ Len(blob) \in Nat
  BY LengthsLemma
<1>3. \A k \in 1..4 : k \in 0..4 /\ k - 1 \in 0..4
  OBVIOUS
<1>4. ASSUME NEW k \in 1..4, NEW i \in 1..LengthLen
      PROVE  other[Ends(blob)[k - 1] + i] = blob[Ends(blob)[k - 1] + i]
  <2> DEFINE m == Ends(blob)[k - 1]
             n == Ends(blob)[k]
  <2>1. m \in Nat /\ n \in Nat /\ HeaderLen <= m /\ m + LengthLen <= n /\ n <= Len(blob)
    BY <1>1, <1>3
  <2> HIDE DEF m, n
  <2>2. m + i \in (HeaderLen + 1)..Len(blob)
    BY <1>2, <2>1
  <2> QED
    BY <2>2 DEF m
<1>5. \A k \in 0..4 : Ends(other)[k] = Ends(blob)[k]
  <2>1. 4 \in 0..4 /\ Ends(blob)[4] <= Len(blob) /\ Ends(blob)[4] <= Len(other)
    BY <1>1, <1>2
  <2> QED
    BY <1>4, <2>1, SameEnds
<1>6. ASSUME NEW k \in 1..4 PROVE Field(other, k) = Field(blob, k)
  <2> DEFINE m == Ends(blob)[k - 1] + LengthLen
             n == Ends(blob)[k]
             s == SubSeq(other, m + 1, n)
             t == SubSeq(blob, m + 1, n)
  <2>1. m \in Nat /\ n \in Nat /\ HeaderLen <= m /\ m <= n /\ n <= Len(blob) /\ n <= Len(other)
    <3> DEFINE e == Ends(blob)[k - 1]
    <3>1. k \in 1..4 /\ k \in 0..4 /\ k - 1 \in 0..4
      BY <1>3
    <3>2. e \in Nat /\ HeaderLen <= e
      BY <1>1, <3>1
    <3>3. n \in Nat /\ n <= Len(blob) /\ e + LengthLen <= n
      BY <1>1, <3>1
    <3> HIDE DEF e, n
    <3>4. m = e + LengthLen
      BY DEF e
    <3> HIDE DEF m
    <3> QED
      BY <1>2, <3>2, <3>3, <3>4
  <2>2. Field(other, k) = s /\ Field(blob, k) = t
    BY <1>3, <1>5 DEF Field
  <2> HIDE DEF m, n
  <2>3. /\ s \in Seq(Byte) /\ t \in Seq(Byte) /\ Len(s) = n - m /\ Len(t) = n - m
        /\ \A i \in 1..(n - m) : s[i] = other[m + i] /\ t[i] = blob[m + i]
    BY <2>1, PieceLemma
  <2>4. \A i \in 1..(n - m) : m + i \in (HeaderLen + 1)..Len(blob)
    BY <1>2, <2>1
  <2> HIDE DEF s, t
  <2>5. \A i \in 1..(n - m) : s[i] = t[i]
    BY <2>3, <2>4
  <2>6. s = t
    BY <2>3, <2>5, SeqEqual
  <2> QED
    BY <2>2, <2>6
<1>7. /\ Field(other, 1) = Field(blob, 1) /\ Field(other, 2) = Field(blob, 2)
      /\ Field(other, 3) = Field(blob, 3) /\ Field(other, 4) = Field(blob, 4)
  BY <1>6
<1> QED
  BY <1>7 DEF Fields

\* A blob that has a byte that is no text in its text does not parse.
LEMMA TextLemma ==
    ASSUME NEW blob \in Seq(Byte), Parses(blob), NEW i \in TextOf(blob),
           NEW byte \in Byte \ Character
    PROVE  ~Parses([blob EXCEPT ![i] = byte])
<1> DEFINE other == [blob EXCEPT ![i] = byte]
<1>1. i \in 1..Len(blob) /\ Len(blob) \in Nat
  BY DEF TextOf
<1>2. /\ other \in Seq(Byte) /\ Len(other) = Len(blob)
      /\ \A j \in 1..Len(blob) : other[j] = IF j = i THEN byte ELSE blob[j]
  BY <1>1, ExceptSeq
<1> HIDE DEF other
<1>3. PICK k \in 1..4 : i \in (Ends(blob)[k - 1] + LengthLen + 1)..Ends(blob)[k]
  BY DEF TextOf
<1>4. /\ Ends(blob)[4] = Len(blob)
      /\ \A j \in 0..4 : Ends(blob)[j] \in Nat /\ Ends(blob)[j] <= Len(blob)
      /\ \A j, l \in 0..4 : j <= l => Ends(blob)[j] <= Ends(blob)[l]
      /\ \A j \in 1..4 : Ends(blob)[j - 1] + LengthLen <= Ends(blob)[j]
  BY PlacesLemma
<1>5. LengthLen \in Nat
  BY LengthsLemma
<1>6. \A j \in 1..4 : j \in 0..4 /\ j - 1 \in 0..4
  OBVIOUS
<1>7. ASSUME NEW j \in 1..4, NEW l \in 1..LengthLen
      PROVE  other[Ends(blob)[j - 1] + l] = blob[Ends(blob)[j - 1] + l]
  <2> DEFINE m == Ends(blob)[j - 1]
  <2>1. m \in Nat /\ m + LengthLen <= Ends(blob)[j] /\ Ends(blob)[j] <= Len(blob)
        /\ Ends(blob)[j] \in Nat
    BY <1>4, <1>6
  <2>2. m + l \in 1..Len(blob)
    BY <1>1, <1>5, <2>1, SMTT(30)
  <2>3. m + l # i
    <3>1. CASE j <= k
      <4>1. j - 1 <= k - 1 /\ j - 1 \in 0..4 /\ k - 1 \in 0..4
        BY <3>1
      <4>2. m <= Ends(blob)[k - 1] /\ Ends(blob)[k - 1] \in Nat
        BY <1>4, <4>1
      <4> HIDE DEF m
      <4> QED
        BY <1>3, <1>5, <2>1, <4>2
    <3>2. CASE k < j
      <4>1. k <= j - 1 /\ k \in 0..4 /\ j - 1 \in 0..4
        BY <3>2
      <4>2. Ends(blob)[k] <= m /\ Ends(blob)[k] \in Nat
        BY <1>4, <4>1
      <4> HIDE DEF m
      <4> QED
        BY <1>1, <1>3, <1>5, <2>1, <4>2
    <3> QED
      BY <3>1, <3>2
  <2> QED
    BY <1>2, <2>2, <2>3
<1>8. \A j \in 0..4 : Ends(other)[j] = Ends(blob)[j]
  <2>1. 4 \in 0..4 /\ Ends(blob)[4] <= Len(blob) /\ Ends(blob)[4] <= Len(other)
    BY <1>1, <1>2, <1>4
  <2> QED
    BY <1>2, <1>7, <2>1, SameEnds
<1> DEFINE m == Ends(blob)[k - 1] + LengthLen
           n == Ends(blob)[k]
           text == Field(other, k)
<1>9. m \in Nat /\ n \in Nat /\ i \in (m + 1)..n
  <2>1. k \in 0..4 /\ k - 1 \in 0..4
    BY <1>6
  <2>2. Ends(blob)[k - 1] \in Nat /\ n \in Nat
    BY <1>4, <2>1
  <2>3. m \in Nat
    BY <1>5, <2>2
  <2> QED
    BY <1>3, <2>2, <2>3
<1>10. /\ text \in Seq(Byte) /\ Len(text) = n - m
       /\ \A j \in 1..Len(text) : text[j] = other[m + j]
  <2>1. Ends(other)[4] <= Len(other)
    BY <1>1, <1>2, <1>4, <1>8
  <2>2. Ends(other)[k] = n /\ Ends(other)[k - 1] + LengthLen = m
    BY <1>6, <1>8
  <2>3. /\ text \in Seq(Byte)
        /\ Len(text) = Ends(other)[k] - Ends(other)[k - 1] - LengthLen
        /\ \A j \in 1..Len(text) : text[j] = other[Ends(other)[k - 1] + LengthLen + j]
    <3> HIDE DEF other, text
    <3>1. other \in Seq(Byte)
      BY <1>2
    <3>2. text = Field(other, k)
      BY DEF text
    <3> QED
      BY ONLY <2>1, <3>1, <3>2, k \in 1..4, FieldLemma
  <2>4. n - Ends(other)[k - 1] - LengthLen = n - m
    <3>1. Ends(other)[k - 1] \in Nat /\ Ends(other)[k - 1] + LengthLen = m
      BY <1>4, <1>6, <1>8
    <3> HIDE DEF m, n, other
    <3> QED
      BY ONLY <1>5, <1>9, <3>1
  <2> QED
    BY <2>2, <2>3, <2>4
<1> HIDE DEF m, n, text
<1>11. i - m \in 1..Len(text) /\ m + (i - m) = i
  BY <1>1, <1>9, <1>10
<1>12. text[i - m] = byte
  BY <1>1, <1>2, <1>10, <1>11
<1>13. byte \in Range(text)
  BY <1>10, <1>11, <1>12, RangeEquality
<1>14. ~(Range(Field(other, k)) \subseteq Character)
  BY <1>13 DEF text
<1> QED
  BY <1>14 DEF Parses, other

\* A blob that is damaged in one of the DamagedForms and parses all the same has the same fields.
LEMMA DamageLemma ==
    ASSUME NEW blob \in Seq(Byte), Parses(blob), NEW form \in DamagedForms(blob)
    PROVE  form \in Seq(Byte) /\ (Parses(form) => Fields(form) = Fields(blob))
<1>1. Noise \subseteq Byte
  BY BlobAssumption
<1>2. Len(blob) \in Nat /\ DOMAIN blob = 1..Len(blob) /\ HeaderLen \in Nat /\ HeaderLen <= Len(blob)
      /\ Ends(blob)[4] = Len(blob)
  BY LengthsLemma, PlacesLemma
<1>3. ASSUME NEW length \in 0..(Len(blob) - 1), form = SubSeq(blob, 1, length)
      PROVE  form \in Seq(Byte) /\ ~Parses(form)
  <2>1. length \in Nat /\ 0 \in Nat /\ 0 <= length /\ length <= Len(blob) /\ length < Len(blob)
        /\ 0 + 1 = 1 /\ length - 0 = length
    BY <1>2
  <2>2. /\ form \in Seq(Byte) /\ Len(form) = length
        /\ \A i \in 1..length : form[i] = blob[0 + i]
    BY <1>3, <2>1, PieceLemma
  <2>3. \A i \in 1..length : blob[i] = form[i]
    BY <2>2
  <2>4. StartsWith(blob, form)
    BY <2>1, <2>2, <2>3 DEF StartsWith
  <2>5. ASSUME Parses(form) PROVE FALSE
    <3>1. Ends(form)[4] = Len(form)
      BY <2>5 DEF Parses
    <3>2. Len(blob) = Len(form)
      BY <1>2, <2>2, <2>4, <3>1, CutLemma
    <3> QED
      BY <2>1, <2>2, <3>2
  <2> QED
    BY <2>2, <2>5
<1>4. ASSUME NEW byte \in Noise, form = Append(blob, byte)
      PROVE  form \in Seq(Byte) /\ ~Parses(form)
  <2>1. /\ form \in Seq(Byte) /\ Len(form) = Len(blob) + 1
        /\ \A i \in 1..Len(blob) : form[i] = blob[i]
    BY <1>1, <1>4, AppendProperties
  <2>2. StartsWith(form, blob)
    BY <1>2, <2>1 DEF StartsWith
  <2>3. ASSUME Parses(form) PROVE FALSE
    <3>1. Ends(form)[4] = Len(form)
      BY <2>3 DEF Parses
    <3>2. Len(form) = Len(blob)
      BY <1>2, <2>1, <2>2, <3>1, CutLemma
    <3> QED
      BY <1>2, <2>1, <3>2
  <2> QED
    BY <2>1, <2>3
<1>5. ASSUME NEW i \in 1..HeaderLen, NEW byte \in Noise, form = [blob EXCEPT ![i] = byte]
      PROVE  form \in Seq(Byte) /\ Fields(form) = Fields(blob)
  <2>1. i \in 1..Len(blob) /\ byte \in Byte
    BY <1>1, <1>2
  <2>2. /\ form \in Seq(Byte) /\ Len(form) = Len(blob)
        /\ \A j \in 1..Len(blob) : form[j] = IF j = i THEN byte ELSE blob[j]
    BY <1>5, <2>1, ExceptSeq
  <2>3. \A j \in (HeaderLen + 1)..Len(blob) : form[j] = blob[j]
    BY <1>2, <2>2
  <2> QED
    BY <2>2, <2>3, HeaderLemma
<1>6. ASSUME NEW i \in TextOf(blob), NEW byte \in Noise \ Character,
             form = [blob EXCEPT ![i] = byte]
      PROVE  form \in Seq(Byte) /\ ~Parses(form)
  <2>1. i \in 1..Len(blob) /\ byte \in Byte \ Character
    BY <1>1, <1>2 DEF TextOf
  <2>2. form \in Seq(Byte)
    BY <1>6, <2>1, ExceptSeq
  <2> QED
    BY <1>6, <2>1, <2>2, TextLemma
<1> QED
  BY <1>3, <1>4, <1>5, <1>6 DEF DamagedForms

-----------------------------------------------------------------------------
(***************************************************************************)
(* The registration.                                                       *)
(***************************************************************************)

\* The registration has the answers it goes on with, and judged them rightly.
RegistrationInv ==
    /\ at \in {"idle", "certified", "verified", "refused", "stored", "done"}
    /\ at = "idle" => answer = Nothing /\ tcbAnswer = Nothing
    /\ at # "idle" => answer \in Answer
    /\ at = "certified" => tcbAnswer = Nothing
    /\ at \in {"verified", "stored", "done"} => tcbAnswer \in TcbAnswer
    /\ tcbAnswer \in TcbAnswer \cup {Nothing}
    /\ AnswersAreJudged
    /\ OnlyMatchingAnswersStored

\* Nothing has been answered at first.
LEMMA RegistrationInit == Init => RegistrationInv
BY DEF Init, RegistrationInv, AnswersAreJudged, OnlyMatchingAnswersStored

\* Every step judges the answer it looks at.
LEMMA RegistrationStep == RegistrationInv /\ [Next]_vars => RegistrationInv'
<1> SUFFICES ASSUME RegistrationInv, [Next]_vars PROVE RegistrationInv'
  OBVIOUS
<1>1. ASSUME NEW a \in Answer, FetchPckCerts(a) PROVE RegistrationInv'
  <2>1. at = "idle" /\ answer' = a /\ tcbAnswer' = Nothing
    BY <1>1 DEF FetchPckCerts, RegistrationInv
  <2>2. \/ at' = "certified" /\ Genuine(a)
        \/ at' = "refused" /\ ~Genuine(a)
    BY <1>1, CertsAreJudged DEF FetchPckCerts
  <2>3. AnswersAreJudged'
    BY <2>1, <2>2 DEF AnswersAreJudged
  <2>4. OnlyMatchingAnswersStored'
    BY <2>2 DEF OnlyMatchingAnswersStored
  <2> QED
    BY <2>1, <2>2, <2>3, <2>4 DEF RegistrationInv
<1>2. ASSUME NEW t \in TcbAnswer, FetchTcbInfo(t) PROVE RegistrationInv'
  <2>1. at = "certified" /\ tcbAnswer' = t /\ answer' = answer /\ answer \in Answer
    BY <1>2 DEF FetchTcbInfo, RegistrationInv
  <2>2. \/ at' = "verified" /\ GenuineTcbInfo(t, answer)
        \/ at' = "refused" /\ ~GenuineTcbInfo(t, answer)
    BY <1>2, <2>1, TcbInfoIsJudged DEF FetchTcbInfo
  <2>3. Genuine(answer)
    BY <2>1 DEF RegistrationInv, AnswersAreJudged
  <2>4. t # Nothing
    BY AnswerTypes
  <2>5. AnswersAreJudged'
    BY <2>1, <2>2, <2>3, <2>4 DEF AnswersAreJudged
  <2>6. OnlyMatchingAnswersStored'
    BY <2>1, <2>2 DEF OnlyMatchingAnswersStored
  <2> QED
    BY <2>1, <2>2, <2>5, <2>6 DEF RegistrationInv
<1>3. ASSUME NEW expiration \in Time, StorePck(expiration) PROVE RegistrationInv'
  <2>1. at = "verified" /\ answer' = answer /\ tcbAnswer' = tcbAnswer
    BY <1>3 DEF StorePck
  <2>2. /\ answer \in Answer /\ tcbAnswer \in TcbAnswer
        /\ Genuine(answer) /\ GenuineTcbInfo(tcbAnswer, answer)
    BY <2>1 DEF RegistrationInv, AnswersAreJudged, OnlyMatchingAnswersStored
  <2>3. Len(Kept) \in Nat /\ Capacity[LengthLen] \in Nat
    <3>1. Kept \in Seq(Certificate)
      BY <2>2, PackedLemma
    <3>2. LengthLen \in Nat
      BY LengthsLemma
    <3>3. Capacity[LengthLen] \in Nat
      BY <3>2, CapacityLemma
    <3> QED
      BY <3>1, <3>3, LenProperties
  <2>4. \/ at' = "stored"
        \/ at' = "refused" /\ Len(Kept) >= Capacity[LengthLen]
    <3>1. CASE \A name \in DOMAIN Packed : Encodable(Packed[name])
      BY <1>3, <3>1 DEF StorePck
    <3>2. CASE ~\A name \in DOMAIN Packed : Encodable(Packed[name])
      <4>1. at' = "refused"
        BY <1>3, <3>2 DEF StorePck
      <4>2. ~(Len(Kept) < Capacity[LengthLen])
        BY <2>2, <3>2, PackedLemma
      <4> QED
        BY <2>3, <4>1, <4>2
    <3> QED
      BY <3>1, <3>2
  <2>5. Kept' = Kept
    BY <2>1 DEF Kept
  <2>6. AnswersAreJudged'
    BY <2>1, <2>2, <2>4, <2>5 DEF AnswersAreJudged
  <2>7. OnlyMatchingAnswersStored'
    BY <2>1, <2>2 DEF OnlyMatchingAnswersStored
  <2> QED
    BY <2>1, <2>2, <2>4, <2>6, <2>7 DEF RegistrationInv
<1>4. CASE StorePiid
  BY <1>4 DEF StorePiid, RegistrationInv, AnswersAreJudged, OnlyMatchingAnswersStored
<1>5. CASE EndRun
  BY <1>5 DEF EndRun, RegistrationInv, AnswersAreJudged, OnlyMatchingAnswersStored
<1>6. CASE Damage \/ ToCache \/ UNCHANGED vars
  <2>1. at' = at /\ answer' = answer /\ tcbAnswer' = tcbAnswer
    BY <1>6 DEF Damage, ToCache, vars
  <2> QED
    BY <2>1 DEF RegistrationInv, AnswersAreJudged, OnlyMatchingAnswersStored, Kept
<1> QED
  BY <1>1, <1>2, <1>3, <1>4, <1>5, <1>6 DEF Next

\* An answer of PCS is taken up if it is good and refused if it is not.
THEOREM AnswersJudged == Spec => []AnswersAreJudged
<1>1. RegistrationInv => AnswersAreJudged
  BY DEF RegistrationInv
<1> QED
  BY <1>1, RegistrationInit, RegistrationStep, PTL DEF Spec

\* Whatever PCS answers, what is stored for a platform comes from answers that belong together.
THEOREM AnswersMatch == Spec => []OnlyMatchingAnswersStored
<1>1. RegistrationInv => OnlyMatchingAnswersStored
  BY DEF RegistrationInv
<1> QED
  BY <1>1, RegistrationInit, RegistrationStep, PTL DEF Spec

-----------------------------------------------------------------------------
(***************************************************************************)
(* The secret, the index and the cache.                                    *)
(***************************************************************************)

\* The secret that is written first has what the registration packed, as long as its blob
\* parses.
StoredIsPacked ==
    /\ at \in {"certified", "verified"} => secret = Nothing
    /\ at = "stored" =>
        /\ secret # Nothing
        /\ Packed \in Texts
        /\ \A name \in DOMAIN Packed : Encodable(Packed[name])
        /\ Parses(secret.blob) => Fields(secret.blob) = Packed

\* A blob that parses fits together.
SecretFits ==
    /\ secret = Nothing \/ secret \in PckSecrets
    /\ secret # Nothing /\ Parses(secret.blob) =>
        /\ Fields(secret.blob) \in Texts
        /\ FitsTogether(Fields(secret.blob), secret.fmspc)

\* The index has a PIID for a secret only, and the one of its blob.
IndexFits ==
    index # Nothing =>
        /\ secret # Nothing
        /\ \E cert \in Certificate : index = Read[cert].piid
        /\ Parses(secret.blob) => index = Read[Fields(secret.blob).pck_certs[1]].piid

\* The cache has evidence for a secret only, and for its FMSPC.
CacheIsFitting ==
    cache # Nothing => secret # Nothing /\ cache \in Texts /\ FitsTogether(cache, secret.fmspc)

BlobInv == StoredIsPacked /\ SecretFits /\ IndexFits /\ CacheIsFitting

\* There is no secret at first.
LEMMA BlobInit == Init => BlobInv
BY DEF Init, BlobInv, StoredIsPacked, SecretFits, IndexFits, CacheIsFitting

\* What is stored is what was packed.
LEMMA StoreStep ==
    ASSUME RegistrationInv, BlobInv, NEW expiration \in Time, StorePck(expiration)
    PROVE  BlobInv'
<1>1. at = "verified" /\ answer' = answer /\ tcbAnswer' = tcbAnswer /\ index' = index
      /\ cache' = cache
  BY DEF StorePck
<1>2. /\ answer \in Answer /\ tcbAnswer \in TcbAnswer
      /\ Genuine(answer) /\ GenuineTcbInfo(tcbAnswer, answer)
  BY <1>1 DEF RegistrationInv, AnswersAreJudged, OnlyMatchingAnswersStored
<1>3. secret = Nothing /\ index = Nothing /\ cache = Nothing
  BY <1>1 DEF BlobInv, StoredIsPacked, IndexFits, CacheIsFitting
<1>4. IndexFits' /\ CacheIsFitting'
  BY <1>1, <1>3 DEF IndexFits, CacheIsFitting
<1>5. Packed' = Packed
  BY <1>1 DEF Packed, Kept
<1>6. CASE at' = "refused" /\ secret' = secret
  BY <1>3, <1>4, <1>6 DEF BlobInv, StoredIsPacked, SecretFits
<1>7. CASE /\ \A name \in DOMAIN Packed : Encodable(Packed[name])
           /\ secret' = [fmspc |-> answer.fmspc, blob |-> Build(expiration, Packed)]
           /\ at' = "stored"
  <2>1. Packed \in Texts /\ FitsTogether(Packed, answer.fmspc) /\ answer.fmspc \in Fmspc
    BY <1>2, PackedLemma DEF Genuine
  <2>2. expiration \in Nat /\ expiration < Capacity[ExpirationLen]
    <3>1. expiration \in 0..(Capacity[ExpirationLen] - 1)
      BY BlobAssumption
    <3>2. Capacity[ExpirationLen] \in Nat
      BY LengthsLemma, CapacityLemma
    <3> QED
      BY <3>1, <3>2
  <2> DEFINE blob == Build(expiration, Packed)
  <2>3. blob \in Seq(Byte) /\ Parses(blob) /\ Fields(blob) = Packed
    BY <1>7, <2>1, <2>2, BuiltIsParsed
  <2>4. secret' = [fmspc |-> answer.fmspc, blob |-> blob]
    BY <1>7
  <2> HIDE DEF blob
  <2>5. secret' \in PckSecrets /\ secret'.blob = blob /\ secret'.fmspc = answer.fmspc
    BY <2>1, <2>3, <2>4 DEF PckSecrets
  <2>6. secret' # Nothing
    BY <2>5, AnswerTypes
  <2>7. SecretFits'
    BY <2>1, <2>3, <2>5 DEF SecretFits
  <2>8. StoredIsPacked'
    BY <1>5, <1>7, <2>1, <2>3, <2>5, <2>6 DEF StoredIsPacked
  <2> QED
    BY <1>4, <2>7, <2>8 DEF BlobInv
<1> QED
  BY <1>6, <1>7 DEF StorePck

\* The PIID in the index is that of the blob that was stored before.
LEMMA StorePiidStep == ASSUME RegistrationInv, BlobInv, StorePiid PROVE BlobInv'
<1>1. /\ at = "stored" /\ at' = "done" /\ secret' = secret /\ cache' = cache
      /\ index' = Read[Kept[1]].piid
  BY DEF StorePiid, ExtractPiid
<1>2. /\ answer \in Answer /\ tcbAnswer \in TcbAnswer
      /\ Genuine(answer) /\ GenuineTcbInfo(tcbAnswer, answer)
  BY <1>1 DEF RegistrationInv, AnswersAreJudged, OnlyMatchingAnswersStored
<1>3. Kept[1] \in Certificate
  BY <1>2, PackedLemma
<1>4. secret # Nothing /\ (Parses(secret.blob) => Fields(secret.blob) = Packed)
  BY <1>1 DEF BlobInv, StoredIsPacked
<1>5. Packed.pck_certs = Kept
  BY DEF Packed
<1>6. IndexFits'
  BY <1>1, <1>3, <1>4, <1>5 DEF IndexFits
<1>7. StoredIsPacked'
  BY <1>1 DEF StoredIsPacked
<1> QED
  BY <1>1, <1>6, <1>7 DEF BlobInv, SecretFits, CacheIsFitting

\* A damaged blob that parses is as good as it was.
LEMMA DamageStep == ASSUME BlobInv, Damage PROVE BlobInv'
<1>1. PICK form \in DamagedForms(secret.blob) : secret' = [secret EXCEPT !.blob = form]
  BY DEF Damage
<1>2. /\ secret # Nothing /\ secret \in PckSecrets /\ Parses(secret.blob)
      /\ UNCHANGED <<at, answer, tcbAnswer, index, cache>>
  BY DEF Damage, BlobInv, SecretFits
<1>3. secret.blob \in Seq(Byte) /\ secret.fmspc \in Fmspc
  BY <1>2 DEF PckSecrets
<1>4. form \in Seq(Byte) /\ (Parses(form) => Fields(form) = Fields(secret.blob))
  BY <1>2, <1>3, DamageLemma
<1>5. /\ secret' \in PckSecrets /\ secret'.blob = form /\ secret'.fmspc = secret.fmspc
  BY <1>1, <1>2, <1>4 DEF PckSecrets
<1>6. secret' # Nothing
  BY <1>5, AnswerTypes
<1>7. Packed' = Packed
  BY <1>2 DEF Packed, Kept
<1>8. StoredIsPacked'
  BY <1>2, <1>4, <1>5, <1>6, <1>7 DEF BlobInv, StoredIsPacked
<1>9. SecretFits'
  BY <1>2, <1>4, <1>5 DEF BlobInv, SecretFits
<1>10. IndexFits'
  BY <1>2, <1>4, <1>5, <1>6 DEF BlobInv, IndexFits
<1>11. CacheIsFitting'
  BY <1>2, <1>5, <1>6 DEF BlobInv, CacheIsFitting
<1> QED
  BY <1>8, <1>9, <1>10, <1>11 DEF BlobInv

\* Every step leaves evidence that fits together.
LEMMA BlobStep == RegistrationInv /\ BlobInv /\ [Next]_vars => BlobInv'
<1> SUFFICES ASSUME RegistrationInv, BlobInv, [Next]_vars PROVE BlobInv'
  OBVIOUS
<1> USE DEF BlobInv
<1>1. ASSUME NEW a \in Answer, FetchPckCerts(a) PROVE BlobInv'
  <2>1. /\ secret = Nothing /\ secret' = secret /\ index' = index /\ cache' = cache
        /\ at' \in {"certified", "refused"}
    BY <1>1 DEF FetchPckCerts
  <2> QED
    BY <2>1 DEF StoredIsPacked, SecretFits, IndexFits, CacheIsFitting
<1>2. ASSUME NEW t \in TcbAnswer, FetchTcbInfo(t) PROVE BlobInv'
  <2>1. /\ at = "certified" /\ secret' = secret /\ index' = index /\ cache' = cache
        /\ at' \in {"verified", "refused"}
    BY <1>2 DEF FetchTcbInfo
  <2> QED
    BY <2>1 DEF StoredIsPacked, SecretFits, IndexFits, CacheIsFitting
<1>3. ASSUME NEW expiration \in Time, StorePck(expiration) PROVE BlobInv'
  BY <1>3, StoreStep
<1>4. CASE StorePiid
  BY <1>4, StorePiidStep
<1>5. CASE EndRun
  BY <1>5 DEF EndRun, StoredIsPacked, SecretFits, IndexFits, CacheIsFitting
<1>6. CASE Damage
  BY <1>6, DamageStep
<1>7. CASE ToCache
  <2>1. /\ secret # Nothing /\ Parses(secret.blob) /\ cache' = Fields(secret.blob)
        /\ UNCHANGED <<at, answer, tcbAnswer, secret, index>>
    BY <1>7 DEF ToCache
  <2>2. Packed' = Packed
    BY <2>1 DEF Packed, Kept
  <2> QED
    BY <2>1, <2>2 DEF StoredIsPacked, SecretFits, IndexFits, CacheIsFitting
<1>8. CASE UNCHANGED vars
  <2>1. UNCHANGED <<at, answer, tcbAnswer, secret, index, cache>>
    BY <1>8 DEF vars
  <2>2. Packed' = Packed
    BY <2>1 DEF Packed, Kept
  <2> QED
    BY <2>1, <2>2 DEF StoredIsPacked, SecretFits, IndexFits, CacheIsFitting
<1> QED
  BY <1>1, <1>2, <1>3, <1>4, <1>5, <1>6, <1>7, <1>8 DEF Next

\* Both invariants together.
LEMMA EvidenceInvariant == Spec => [](RegistrationInv /\ BlobInv)
BY RegistrationInit, RegistrationStep, BlobInit, BlobStep, PTL DEF Spec

\* Answers, secret, index and cache are what they are declared to be.
THEOREM TypeCorrect == Spec => []TypeOK
<1>1. RegistrationInv /\ BlobInv => TypeOK
  BY DEF RegistrationInv, BlobInv, SecretFits, IndexFits, CacheIsFitting, TypeOK
<1> QED
  BY <1>1, EvidenceInvariant, PTL

\* Whatever PCS answers, what is in the node's cache fits together, if the blob in the secret is
\* damaged in none but the DamagedForms: write_certificate_from_secret takes what parses.
THEOREM CacheFits == Spec => []CachedEvidenceFits
<1>1. RegistrationInv /\ BlobInv => CachedEvidenceFits
  BY DEF BlobInv, CacheIsFitting, CachedEvidenceFits
<1> QED
  BY <1>1, EvidenceInvariant, PTL

\* What parse_cache_blob takes was built by build_cache_blob, and it takes what was.
THEOREM BlobsParse == Spec => []OnlyBuiltBlobsParse
<1>1. RegistrationInv /\ BlobInv => OnlyBuiltBlobsParse
  <2> SUFFICES ASSUME BlobInv, secret # Nothing
               PROVE  /\ Parses(secret.blob) =>
                            secret.blob = Build(Expiration(secret.blob), Fields(secret.blob))
                      /\ at = "stored" /\ ~Parses(secret.blob) =>
                            \A expiration \in Time : secret.blob # Build(expiration, Packed)
    BY DEF OnlyBuiltBlobsParse
  <2>1. secret.blob \in Seq(Byte)
    BY DEF BlobInv, SecretFits, PckSecrets
  <2>2. Parses(secret.blob) => secret.blob = Build(Expiration(secret.blob), Fields(secret.blob))
    BY <2>1, ParsedIsBuilt
  <2>3. ASSUME at = "stored", NEW expiration \in Time, secret.blob = Build(expiration, Packed)
        PROVE  Parses(secret.blob)
    <3>1. Packed \in Texts /\ \A name \in DOMAIN Packed : Encodable(Packed[name])
      BY <2>3 DEF BlobInv, StoredIsPacked
    <3>2. expiration \in 0..(Capacity[ExpirationLen] - 1)
      BY BlobAssumption
    <3>3. Capacity[ExpirationLen] \in Nat
      BY LengthsLemma, CapacityLemma
    <3>4. expiration \in Nat /\ expiration < Capacity[ExpirationLen]
      BY <3>2, <3>3
    <3> QED
      BY <2>3, <3>1, <3>4, BuiltIsParsed
  <2> QED
    BY <2>2, <2>3
<1> QED
  BY <1>1, EvidenceInvariant, PTL

\* The PIID in the index is that of the first certificate the node gets, if the blob in the
\* secret is damaged in none but the DamagedForms.
THEOREM IndexNames == Spec => []IndexNamesCertificate
<1>1. RegistrationInv /\ BlobInv => IndexNamesCertificate
  BY DEF BlobInv, IndexFits, IndexNamesCertificate
<1> QED
  BY <1>1, EvidenceInvariant, PTL

=============================================================================
