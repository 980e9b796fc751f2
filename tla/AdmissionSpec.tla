---------------------------- MODULE AdmissionSpec ----------------------------
(***************************************************************************)
(* What an admission evaluation promises, stated over the input alone: it  *)
(* is decided once, with the verdict of the first check, in the frozen     *)
(* order, whose condition the input satisfies.  There is no narrowing, no  *)
(* loop and no intermediate state here: each condition is a formula about  *)
(* the document, and validity is stated with intervals of instants rather  *)
(* than with the code's lifecycle predicates.                              *)
(***************************************************************************)
EXTENDS AdmissionInputs

VARIABLES doc, outcome

\* An instant has been reached by t.  Null and Unnormalized never are, and
\* nothing is reached by an unnormalized t.
Happened(instant, t) == instant \in IF t = Unnormalized THEN {} ELSE 0..t

\* The two ends of a half-open validity interval.
Started(r, t) == Happened(r.effective_from, t)
Ended(r, t)   == Happened(r.effective_until, t)

Reaches(r, d) ==
    r.jurisdiction = d.jurisdiction /\ d.applicability \in r.applicability_scope

\* Evidence for the source, for the exact registered instance, and in scope.
ForSource(d) == {e \in EvidenceOf(d) : e.source_id = d.source_registration.source_id}

ForVersion(d) ==
    {e \in ForSource(d) :
        \A r \in {e.source_version, e.admission_warrant.source_version} :
            r = d.source_registration.source_version}

ForInstance(d) ==
    {e \in ForVersion(d) :
        \A r \in {e.source_digest, e.admission_warrant.source_digest} :
            r = d.source_registration.source_digest}

InScope(e, d) == Reaches(e, d) /\ Reaches(e.admission_warrant, d)

Warranting(d) == {e \in ForInstance(d) : InScope(e, d)}

Dead(e, t) ==
    \/ Happened(e.revoked_at, t)
    \/ Happened(e.admission_warrant.revoked_at, t)
    \/ e.admission_warrant.status = "REVOKED"

InForce(e, d) ==
    LET t == d.evaluation_time
        w == e.admission_warrant
    IN  /\ InScope(e, d)
        /\ Started(e, t) /\ Started(w, t)
        /\ ~Ended(e, t) /\ ~Ended(w, t)
        /\ ~Happened(e.superseded_at, t) /\ ~Happened(e.revoked_at, t)
        /\ ~Happened(w.revoked_at, t)
        /\ w.status = "ACTIVE"

-----------------------------------------------------------------------------
(* The condition of each check, as a formula about the document.           *)

\* Evidence i is not strictly above every predecessor it is compared with.
Disordered(d, i) ==
    \E j \in 1..(i - 1) :
        \/ d.authority_evidence[j].evidence_id = d.authority_evidence[i].evidence_id
        \/ j = i - 1 /\ d.authority_evidence[i].evidence_id <= d.authority_evidence[j].evidence_id

\* The first defective evidence item, if any, is defective in its order.
OrderBroken(d) ==
    \E i \in DOMAIN d.authority_evidence :
        Disordered(d, i) /\ \A j \in 1..(i - 1) : Intact(d.authority_evidence[j])

DigestBroken(d) == \E i \in DOMAIN d.authority_evidence : ~Intact(d.authority_evidence[i])

AnchorsInvalid(d) ==
    \/ d.source_anchors = {}
    \/ \E a \in d.source_anchors : a.source_id # d.source_registration.source_id

Instants(r) == {r.effective_from, r.effective_until, r.revoked_at}

EvidenceUnparsed(d) ==
    \E e \in ForSource(d) :
        Unnormalized \in Instants(e) \cup Instants(e.admission_warrant) \cup {e.superseded_at}

\* Regression: evidence that is absent counts as evidence that mismatches.
VersionUnbound(d) == ForVersion(d) = {}

VersionMismatch(d) == EvidenceOf(d) # {} /\ ForVersion(d) = {}

DigestMismatch(d) ==
    \/ \E a \in d.source_anchors : a.content_hash # d.source_registration.source_digest
    \/ EvidenceOf(d) # {} /\ ForInstance(d) = {}

OutOfScope(d) == ~Reaches(d.source_registration, d) \/ Warranting(d) = {}

RegistrationUnparsed(d) ==
    LET r == d.source_registration
    IN  Unnormalized \in Instants(r) \cup {r.superseded_at}

NothingStarted(d) ==
    \/ ~Started(d.source_registration, d.evaluation_time)
    \/ \A e \in Warranting(d) :
          ~(Started(e, d.evaluation_time) /\ Started(e.admission_warrant, d.evaluation_time))

AllEnded(d) ==
    \/ Ended(d.source_registration, d.evaluation_time)
    \/ \A e \in Warranting(d) :
          Ended(e, d.evaluation_time) \/ Ended(e.admission_warrant, d.evaluation_time)

AllSuperseded(d) ==
    \/ Happened(d.source_registration.superseded_at, d.evaluation_time)
    \/ \A e \in Warranting(d) : Happened(e.superseded_at, d.evaluation_time)

AllDead(d) ==
    \/ Happened(d.source_registration.revoked_at, d.evaluation_time)
    \/ \A e \in Warranting(d) : Dead(e, d.evaluation_time)

Conflict(d) ==
    \E e, f \in ForSource(d) :
        InForce(e, d) /\ InForce(f, d) /\ e.authority_basis_ref # f.authority_basis_ref

NothingInForce(d) == ~\E e \in Warranting(d) : InForce(e, d)

Fires(d, c) ==
    \/ c = "encoding"  /\ "encoding" \in d.wire
    \/ c = "json"      /\ "json" \in d.wire
    \/ c = "finite"    /\ "nonfinite" \in d.wire
    \/ c = "encodable" /\ "surrogate" \in d.wire
    \/ c = "canonical" /\ "noncanonical" \in d.wire
    \/ c = "schema"    /\ ViolatesSchema(d)
    \/ c = "ruleset"   /\ "ruleset" \in d.wire
    \/ c = "evidence_order"     /\ OrderBroken(d)
    \/ c = "evidence_digest"    /\ DigestBroken(d)
    \/ c = "evaluation_time"    /\ d.evaluation_time = Unnormalized
    \/ c = "candidate"          /\ AnchorsInvalid(d)
    \/ c = "availability" /\ d.source_registration.availability = "UNAVAILABLE"
    \/ c = "freshness"    /\ d.source_registration.freshness = "STALE"
    \/ c = "registered"   /\ ~d.source_registration.registered
    \/ c = "evidence_times"     /\ EvidenceUnparsed(d)
    \/ c = "version"            /\ VersionMismatch(d)
    \/ c = "digest"             /\ DigestMismatch(d)
    \/ c = "authority"          /\ ForInstance(d) = {}
    \/ c = "scope"              /\ OutOfScope(d)
    \/ c = "registration_times" /\ RegistrationUnparsed(d)
    \/ c = "not_yet_effective"  /\ NothingStarted(d)
    \/ c = "expired"            /\ AllEnded(d)
    \/ c = "superseded"         /\ AllSuperseded(d)
    \/ c = "revoked"            /\ AllDead(d)
    \/ c = "conflict"           /\ Conflict(d)
    \/ c = "established"        /\ NothingInForce(d)
    \/ c = "admitted"

DecidedBy(d, c) ==
    /\ Fires(d, c)
    /\ \A b \in Check : Position[b] < Position[c] => ~Fires(d, b)

Init == doc \in Document /\ outcome = "UNDECIDED"

Decision ==
    /\ outcome = "UNDECIDED"
    /\ \E c \in Check : DecidedBy(doc, c) /\ outcome' = Verdict[c]
    /\ UNCHANGED doc

Spec == Init /\ [][Decision]_<<doc, outcome>> /\ WF_<<doc, outcome>>(Decision)
=============================================================================
