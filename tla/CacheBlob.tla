------------------------------ MODULE CacheBlob ------------------------------
(***************************************************************************)
(* The QPL cache blob: build_cache_blob, and parse_cache_blob that reads   *)
(* it back.                                                                *)
(*                                                                         *)
(* A blob is a sequence of bytes, text is a sequence of some of them.  How *)
(* many numbers a byte may be, which bytes are text, and how many bytes    *)
(* there are to a number are parameters.                                   *)
(***************************************************************************)
EXTENDS Integers, Sequences, Functions

CONSTANTS
    Base,           \* 256, how many numbers a byte may be
    Character,      \* the bytes of valid text
    VersionLen, FlagsLen, ExpirationLen, LengthLen  \* 2, 4, 8 and 4

Byte == 0..(Base - 1)

CacheVersion == 1

SgxQplCacheMulticerts == 4

ASSUME FormatAssumption ==
    /\ Base \in Nat /\ Base > SgxQplCacheMulticerts
    /\ Character \subseteq Byte
    /\ {VersionLen, FlagsLen, ExpirationLen, LengthLen} \subseteq Nat \ {0}

HeaderLen == VersionLen + FlagsLen + ExpirationLen

\* The fields after the header, four texts.
Texts ==
    [cpu_svn : Seq(Character), tcb_info : Seq(Character),
     cert_chain : Seq(Character), pck_certs : Seq(Character)]

-----------------------------------------------------------------------------

\* How many numbers there are to so many bytes.
Capacity[len \in Nat] == IF len = 0 THEN 1 ELSE Base * Capacity[len - 1]

\* n.to_le_bytes()
ToBytes(n, len) == [i \in 1..len |-> (n \div Capacity[i - 1]) % Base]

\* The numbers that the first i bytes make.
Values(bytes) ==
    LET value[i \in 0..Len(bytes)] ==
            IF i = 0 THEN 0 ELSE value[i - 1] + bytes[i] * Capacity[i - 1]
    IN  value

\* from_le_bytes
FromBytes(bytes) == Values(bytes)[Len(bytes)]

\* write_field refuses a field whose length has no room in its prefix.
Encodable(text) == Len(text) < Capacity[LengthLen]

WriteField(text) == ToBytes(Len(text), LengthLen) \o text

Build(expiration, fields) ==
    ToBytes(CacheVersion, VersionLen)
        \o ToBytes(SgxQplCacheMulticerts, FlagsLen)
        \o ToBytes(expiration, ExpirationLen)
        \o WriteField(fields.cpu_svn)
        \o WriteField(fields.tcb_info)
        \o WriteField(fields.cert_chain)
        \o WriteField(fields.pck_certs)

-----------------------------------------------------------------------------

\* How much of the blob is consumed after a field that starts after the first `taken` bytes,
\* one more than there is if it is truncated.
Consumed(blob, taken) ==
    LET start == taken + LengthLen
        end == start + FromBytes(SubSeq(blob, taken + 1, start))
    IN  IF start > Len(blob) \/ end > Len(blob) THEN Len(blob) + 1 ELSE end

\* How much is consumed after the header and each of the fields.
Ends(blob) ==
    LET end[i \in 0..4] == IF i = 0 THEN HeaderLen ELSE Consumed(blob, end[i - 1])
    IN  end

\* The i-th field of a blob that is not truncated.
Field(blob, i) == SubSeq(blob, Ends(blob)[i - 1] + LengthLen + 1, Ends(blob)[i])

Fields(blob) ==
    [cpu_svn |-> Field(blob, 1), tcb_info |-> Field(blob, 2),
     cert_chain |-> Field(blob, 3), pck_certs |-> Field(blob, 4)]

HeaderIsValid(blob) ==
    /\ Len(blob) >= HeaderLen
    /\ FromBytes(SubSeq(blob, 1, VersionLen)) = CacheVersion
    /\ FromBytes(SubSeq(blob, VersionLen + 1, VersionLen + FlagsLen)) = SgxQplCacheMulticerts

\* The fields need not be text.
ParsesAnyBytes(blob) == HeaderIsValid(blob) /\ Ends(blob)[4] = Len(blob)

\* What follows the last field is ignored.
ParsesLeniently(blob) ==
    /\ HeaderIsValid(blob)
    /\ Ends(blob)[4] <= Len(blob)
    /\ \A i \in 1..4 : Range(Field(blob, i)) \subseteq Character

\* parse_cache_blob succeeds: the blob has its version and flags, four fields of valid text,
\* and nothing else.
Parses(blob) ==
    /\ HeaderIsValid(blob)
    /\ Ends(blob)[4] = Len(blob)
    /\ \A i \in 1..4 : Range(Field(blob, i)) \subseteq Character

\* The expiration time of a blob.
Expiration(blob) == FromBytes(SubSeq(blob, VersionLen + FlagsLen + 1, HeaderLen))

=============================================================================
