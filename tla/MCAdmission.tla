----------------------------- MODULE MCAdmission -----------------------------
(***************************************************************************)
(* Inputs for model checking the evaluator.  The evaluation time is 2; an  *)
(* instant of 1, 2 or 3 is before, exactly at, or after it.  Evidence is   *)
(* every sequence of at most two objects over the catalogue below, each of *)
(* which departs from a complete object in one respect.                    *)
(***************************************************************************)
EXTENDS AdmissionClaims, TLC

MCWarrant ==
    [source_id |-> "s1", source_version |-> "v1", source_digest |-> "d1",
     jurisdiction |-> "j1", applicability_scope |-> {"a1"},
     effective_from |-> 1, effective_until |-> 3, revoked_at |-> Null,
     status |-> "ACTIVE"]

MCItem ==
    [evidence_id |-> 1, evidence_digest |-> "recomputes", source_id |-> "s1",
     source_version |-> "v1", source_digest |-> "d1",
     authority_basis_ref |-> "b1",
     jurisdiction |-> "j1", applicability_scope |-> {"a1"},
     effective_from |-> 1, effective_until |-> 3,
     superseded_at |-> Null, revoked_at |-> 3,
     admission_warrant |-> MCWarrant]

Body(field, value) == field :> value @@ MCItem
Warrant(field, value) == "admission_warrant" :> (field :> value @@ MCWarrant) @@ MCItem

MCItems ==
    {MCItem, Body("evidence_digest", "differs"),
     Body("source_id", "s2"), Warrant("source_id", "s2"),
     Body("source_version", "v2"), Warrant("source_version", "v2"),
     Body("source_digest", "d2"), Warrant("source_digest", "d2"),
     Body("jurisdiction", "j2"), Warrant("applicability_scope", {}),
     Body("effective_from", 2), Warrant("effective_from", 3),
     Body("effective_until", 2), Warrant("effective_until", 1),
     Body("superseded_at", 2), Body("revoked_at", 1), Warrant("revoked_at", 2),
     Warrant("status", "SUSPENDED"), Warrant("status", "REVOKED"),
     Body("authority_basis_ref", "b2"),
     [Body("authority_basis_ref", "b2") EXCEPT !.source_version = "v2"],
     [Body("authority_basis_ref", "b2") EXCEPT !.superseded_at = 2],
     Body("effective_from", Unnormalized), Warrant("revoked_at", Unnormalized),
     [Body("superseded_at", Unnormalized) EXCEPT !.source_id = "s2"]}

Numbered(e, n) == [e EXCEPT !.evidence_id = n]
MCEvidence ==
    {<<>>} \cup {<<e>> : e \in MCItems}
    \cup {<<e, Numbered(f, 2)>> : e, f \in MCItems}

MCRegistration ==
    [source_id |-> "s1", source_version |-> "v1", source_digest |-> "d1",
     registered |-> TRUE, availability |-> "AVAILABLE", freshness |-> "FRESH",
     jurisdiction |-> "j1", applicability_scope |-> {"a1", "a2"},
     effective_from |-> 1, effective_until |-> Null,
     superseded_at |-> Null, revoked_at |-> Null]

Reg(field, value) == field :> value @@ MCRegistration
MCRegistrations ==
    {MCRegistration, Reg("registered", FALSE),
     Reg("availability", "UNAVAILABLE"),
     [Reg("availability", "UNAVAILABLE") EXCEPT !.freshness = "STALE"],
     Reg("freshness", "STALE"), Reg("freshness", "NOT_OBSERVED"),
     Reg("source_version", "v2"), Reg("applicability_scope", {"a2"}),
     Reg("effective_from", 2), Reg("effective_from", 3),
     Reg("effective_until", 2), Reg("superseded_at", 1),
     Reg("revoked_at", 2), Reg("revoked_at", Unnormalized),
     [Reg("revoked_at", 2) EXCEPT !.effective_until = 3]}

MCAnchor == [source_id |-> "s1", content_hash |-> "d1"]
MCAnchorSets ==
    {{}, {MCAnchor, [MCAnchor EXCEPT !.source_id = "s2"]},
     {[MCAnchor EXCEPT !.content_hash = "d2"], MCAnchor}}

MCDocument ==
    [wire |-> {}, source_anchors |-> {MCAnchor},
     source_registration |-> MCRegistration,
     authority_evidence |-> <<>>, evaluation_time |-> 2,
     jurisdiction |-> "j1", applicability |-> "a1"]

MCDocuments ==
    {[MCDocument EXCEPT !.source_registration = r, !.authority_evidence = s] :
        r \in MCRegistrations, s \in MCEvidence}
    \cup {[MCDocument EXCEPT !.source_anchors = a, !.authority_evidence = s] :
        a \in MCAnchorSets, s \in {<<>>} \cup {<<e>> : e \in MCItems}}
    \cup {[MCDocument EXCEPT !.wire = w, !.authority_evidence = <<MCItem>>] :
        w \in SUBSET WireDefects}
    \cup {[MCDocument EXCEPT !.authority_evidence = <<Numbered(e, m), Numbered(f, n)>>] :
        e, f \in {MCItem, Body("evidence_digest", "differs"),
                 Body("evidence_digest", "missing")}, m, n \in 1..2}
    \cup {[MCDocument EXCEPT !.evaluation_time = t, !.authority_evidence = <<e>>] :
        t \in {0, 1, 3, Unnormalized}, e \in MCItems}
=============================================================================
