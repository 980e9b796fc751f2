---------------------------- MODULE AdmissionRules ----------------------------
(***************************************************************************)
(* The predicates of src/oic/admission.py on one record, one evidence      *)
(* object and one input document.  Times are instants once parsed; every   *)
(* interval is half-open.                                                  *)
(***************************************************************************)
EXTENDS AdmissionInputs

-----------------------------------------------------------------------------
(* _Lifecycle, for a registration or an evidence body.  A warrant has no   *)
(* superseded_at, and its superseded test is never asked.                  *)

NotYetEffective(record, at) == at < record.effective_from
\* Regression: an interval closed at its end.
ExpiredAfterEnd(record, at) == record.effective_until # Null /\ at > record.effective_until
Expired(record, at) == record.effective_until # Null /\ at >= record.effective_until
Superseded(record, at) == record.superseded_at # Null /\ at >= record.superseded_at
Revoked(record, at) == record.revoked_at # Null /\ at >= record.revoked_at

Covers(record, jurisdiction, applicability) ==
    record.jurisdiction = jurisdiction /\ applicability \in record.applicability_scope

-----------------------------------------------------------------------------
(* _Evidence: an authority-evidence body together with its warrant.        *)

BindsVersion(item, version) ==
    item.source_version = version /\ item.admission_warrant.source_version = version

\* Regression: the warrant's own digest is not compared.
BindsBodyDigest(item, digest) == item.source_digest = digest

BindsDigest(item, digest) ==
    item.source_digest = digest /\ item.admission_warrant.source_digest = digest

ItemCovers(item, jurisdiction, applicability) ==
    /\ Covers(item, jurisdiction, applicability)
    /\ Covers(item.admission_warrant, jurisdiction, applicability)

ItemNotYetEffective(item, at) ==
    NotYetEffective(item, at) \/ NotYetEffective(item.admission_warrant, at)

ItemExpired(item, at) == Expired(item, at) \/ Expired(item.admission_warrant, at)

ItemSuperseded(item, at) == Superseded(item, at)

ItemRevoked(item, at) ==
    \/ Revoked(item, at)
    \/ Revoked(item.admission_warrant, at)
    \/ item.admission_warrant.status = "REVOKED"

\* Independent of the version and digest the registration names.
Operative(item, at, jurisdiction, applicability) ==
    /\ ItemCovers(item, jurisdiction, applicability)
    /\ ~ItemNotYetEffective(item, at)
    /\ ~ItemExpired(item, at)
    /\ ~ItemSuperseded(item, at)
    /\ ~ItemRevoked(item, at)
    /\ item.admission_warrant.status = "ACTIVE"

-----------------------------------------------------------------------------
(* Parsing a record's lifecycle fails on the first unnormalized instant.   *)

LifecycleParses(record) ==
    /\ record.effective_from # Unnormalized
    /\ record.effective_until # Unnormalized
    /\ record.superseded_at # Unnormalized
    /\ record.revoked_at # Unnormalized

ItemParses(item) ==
    /\ LifecycleParses(item)
    /\ item.admission_warrant.effective_from # Unnormalized
    /\ item.admission_warrant.effective_until # Unnormalized
    /\ item.admission_warrant.revoked_at # Unnormalized

\* authority_evidence[i] repeats an earlier id or is not above its predecessor.
\* Ids being distinct, (id, digest) <= (previous id, digest) compares the ids.
OutOfOrder(evidence, i) ==
    \/ \E j \in 1..(i - 1) : evidence[j].evidence_id = evidence[i].evidence_id
    \/ i > 1 /\ evidence[i].evidence_id <= evidence[i - 1].evidence_id
=============================================================================
