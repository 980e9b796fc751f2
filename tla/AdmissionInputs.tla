--------------------------- MODULE AdmissionInputs ---------------------------
(***************************************************************************)
(* The executable admission input of OIC-ADMISSION-BOUNDARY-001, reduced   *)
(* to what the evaluator of src/oic/admission.py reads.                    *)
(*                                                                         *)
(* A timestamp that strptime accepts is a natural number.  Null is the     *)
(* JSON null of an absent bound; Unnormalized is a string that satisfies   *)
(* the schema's pattern (it ends in Z) and is still not in the normalized  *)
(* spelling.  Identifiers and digests are opaque values: only equality is  *)
(* ever asked of them, except for evidence_id, which is ordered.           *)
(***************************************************************************)
EXTENDS Naturals, Sequences

CONSTANTS
    Null,            \* JSON null in an optional timestamp
    Unnormalized,    \* a timestamp the schema accepts and strptime refuses
    Sources, Versions, Digests, Jurisdictions, Applicabilities, Bases,
    Documents        \* the inputs the evaluator may be handed

Timestamp == Nat \cup {Unnormalized}
Nullable  == Timestamp \cup {Null}

(***************************************************************************)
(* What is wrong with the bytes, or with the decoded object, before any    *)
(* admission rule is consulted.  The classes can occur together.           *)
(*   encoding       not bytes, a byte-order mark, or not UTF-8             *)
(*   json           not JSON, a repeated key, a NaN literal, not an object *)
(*   nonfinite      a number such as 1e400, which decodes to infinity      *)
(*   surrogate      an escaped lone surrogate, which UTF-8 cannot encode   *)
(*   noncanonical   differs from its own canonical serialization           *)
(*   schema         violates ADMISSION-INPUT-v0.1.schema.json otherwise    *)
(*                  than by an evidence object without evidence_digest     *)
(*   ruleset        names a ruleset digest the evaluator does not carry    *)
(***************************************************************************)
WireDefects == {"encoding", "json", "nonfinite", "surrogate", "noncanonical",
                "schema", "ruleset"}

Anchor == [source_id : Sources, content_hash : Digests]

RegistrationRecord ==
    [source_id : Sources, source_version : Versions, source_digest : Digests,
     registered : BOOLEAN,
     availability : {"AVAILABLE", "UNAVAILABLE"},
     freshness : {"FRESH", "STALE", "NOT_OBSERVED"},
     jurisdiction : Jurisdictions,
     applicability_scope : SUBSET Applicabilities,
     effective_from : Timestamp, effective_until : Nullable,
     superseded_at : Nullable, revoked_at : Nullable]

WarrantRecord ==
    [source_id : Sources, source_version : Versions, source_digest : Digests,
     jurisdiction : Jurisdictions,
     applicability_scope : SUBSET Applicabilities,
     effective_from : Timestamp, effective_until : Nullable,
     revoked_at : Nullable,
     status : {"ACTIVE", "SUSPENDED", "REVOKED"}]

\* evidence_digest: present and equal to the digest of the item without it,
\* present and different, or not in the item at all.
EvidenceRecord ==
    [evidence_id : Nat, evidence_digest : {"recomputes", "differs", "missing"},
     source_id : Sources, source_version : Versions, source_digest : Digests,
     authority_basis_ref : Bases,
     jurisdiction : Jurisdictions,
     applicability_scope : SUBSET Applicabilities,
     effective_from : Timestamp, effective_until : Nullable,
     superseded_at : Nullable, revoked_at : Nullable,
     admission_warrant : WarrantRecord]

Document ==
    [wire : SUBSET WireDefects,
     source_anchors : SUBSET Anchor,
     source_registration : RegistrationRecord,
     authority_evidence : Seq(EvidenceRecord),
     evaluation_time : Timestamp,
     jurisdiction : Jurisdictions,
     applicability : Applicabilities]

ASSUME TimestampAssumption == Null \notin Timestamp /\ Unnormalized \notin Nat
ASSUME DocumentsAssumption == Documents \subseteq Document

EvidenceOf(doc) ==
    {doc.authority_evidence[i] : i \in DOMAIN doc.authority_evidence}

Intact(e) == e.evidence_digest = "recomputes"

ViolatesSchema(doc) ==
    \/ "schema" \in doc.wire
    \/ \E e \in EvidenceOf(doc) : e.evidence_digest = "missing"

(***************************************************************************)
(* The frozen vocabulary: the fifteen terminal states in declared order,   *)
(* and the exceptions that end an evaluation without a receipt.            *)
(***************************************************************************)
AdmissionState ==
    {"CANDIDATE_INPUT_INVALID", "AUTHORITY_REGISTRY_UNAVAILABLE",
     "AUTHORITY_EVIDENCE_STALE", "SOURCE_NOT_REGISTERED",
     "SOURCE_VERSION_MISMATCH", "SOURCE_DIGEST_MISMATCH",
     "MISSING_AUTHORITY_EVIDENCE", "OUT_OF_SCOPE", "NOT_YET_EFFECTIVE",
     "EXPIRED", "SUPERSEDED", "REVOKED", "CONFLICTING_AUTHORITY",
     "ADMISSION_NOT_ESTABLISHED", "ADMITTED"}

InputBoundaryError ==
    {"AdmissionEncodingError", "AdmissionJSONError",
     "AdmissionCanonicalFormError", "AdmissionSchemaError",
     "AdmissionRulesetError", "AdmissionEvidenceOrderError",
     "AdmissionEvidenceIntegrityError", "AdmissionTimestampError"}

EvaluatorFault == {"AdmissionEvaluationError", "UnicodeEncodeError"}

Outcome == AdmissionState \cup InputBoundaryError \cup EvaluatorFault

(***************************************************************************)
(* The checks of one evaluation, in the order the code makes them, each    *)
(* with the outcome it ends the evaluation with when it fires.             *)
(***************************************************************************)
Position ==
    [encoding |-> 1, json |-> 2, finite |-> 3, encodable |-> 4,
     canonical |-> 5, schema |-> 6, ruleset |-> 7, evidence_order |-> 8,
     evidence_digest |-> 9, evaluation_time |-> 10, candidate |-> 11,
     availability |-> 12, freshness |-> 13, registered |-> 14,
     evidence_times |-> 15, version |-> 16, digest |-> 17, authority |-> 18,
     scope |-> 19, registration_times |-> 20, not_yet_effective |-> 21,
     expired |-> 22, superseded |-> 23, revoked |-> 24, conflict |-> 25,
     established |-> 26, admitted |-> 27]

Check == DOMAIN Position

Verdict ==
    [encoding |-> "AdmissionEncodingError", json |-> "AdmissionJSONError",
     finite |-> "AdmissionEvaluationError", encodable |-> "UnicodeEncodeError",
     canonical |-> "AdmissionCanonicalFormError",
     schema |-> "AdmissionSchemaError", ruleset |-> "AdmissionRulesetError",
     evidence_order |-> "AdmissionEvidenceOrderError",
     evidence_digest |-> "AdmissionEvidenceIntegrityError",
     evaluation_time |-> "AdmissionTimestampError",
     candidate |-> "CANDIDATE_INPUT_INVALID",
     availability |-> "AUTHORITY_REGISTRY_UNAVAILABLE",
     freshness |-> "AUTHORITY_EVIDENCE_STALE",
     registered |-> "SOURCE_NOT_REGISTERED",
     evidence_times |-> "AdmissionTimestampError",
     version |-> "SOURCE_VERSION_MISMATCH",
     digest |-> "SOURCE_DIGEST_MISMATCH",
     authority |-> "MISSING_AUTHORITY_EVIDENCE", scope |-> "OUT_OF_SCOPE",
     registration_times |-> "AdmissionTimestampError",
     not_yet_effective |-> "NOT_YET_EFFECTIVE", expired |-> "EXPIRED",
     superseded |-> "SUPERSEDED", revoked |-> "REVOKED",
     conflict |-> "CONFLICTING_AUTHORITY",
     established |-> "ADMISSION_NOT_ESTABLISHED", admitted |-> "ADMITTED"]
=============================================================================
