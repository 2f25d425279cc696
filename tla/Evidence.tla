------------------------------ MODULE Evidence ------------------------------
(***************************************************************************)
(* The hash chain of a session's evidence (domain/evidence.go and          *)
(* AppendEvidence, VerifyEvidenceChain of domain/session.go), as operators *)
(* on a trail: a sequence of EvidenceRecords.                              *)
(***************************************************************************)
EXTENDS Integers, Sequences

CONSTANTS
    Values,         \* payloads of evidence records
    Encodable,      \* the payloads encoding/json can marshal
    Hashes,         \* values of EvidenceHash
    NoHash,         \* EvidenceHash("")
    Hash(_, _)      \* SHA-256 of a record's canonical form and a previous hash

EvidenceRecord == [value : Values, prev : Hashes, hash : Hashes]

computeEvidenceHash(v, prev) ==
    IF v \in Encodable THEN Hash(v, prev) ELSE NoHash

\* The hash the next record of a trail is chained to.
unchained(trail) == NoHash      \* mutant
anchor(trail) ==
    IF trail = <<>> THEN NoHash ELSE trail[Len(trail)].hash

\* The record AppendEvidence adds to a trail for a payload.
chained(trail, v) ==
    [value |-> v, prev |-> anchor(trail),
     hash |-> computeEvidenceHash(v, anchor(trail))]

\* VerifyEvidenceChain returns nil on this trail.  Its previousHash variable
\* is, at record i, the Hash of record i - 1 (which is "" after a record
\* that could not be encoded).
VerifyEvidenceChain(trail) ==
    \A i \in DOMAIN trail :
        LET previousHash == IF i = 1 THEN NoHash ELSE trail[i - 1].hash
        IN  trail[i].hash # NoHash =>
                /\ trail[i].prev = previousHash
                /\ trail[i].hash =
                       computeEvidenceHash(trail[i].value, previousHash)
=============================================================================
