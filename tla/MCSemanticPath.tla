--------------------------- MODULE MCSemanticPath ---------------------------
(***************************************************************************)
(* Fixtures for the semantic path.  The source holds two literal spans.    *)
(* Every pair of responses of at most two items over the catalogue of      *)
(* items is played before one good interpretation, and every way an        *)
(* interpretation or a fixture can be wrong is played after good           *)
(* extractions.                                                            *)
(***************************************************************************)
EXTENDS SemanticPath

Item(span, type) == [candidate_span |-> span, unit_type |-> type]
Duty   == Item("duty", "obligation")
Advice == Item("duty", "advisory")

MCQuotedIn == [q \in {"must", "other"} |-> IF q = "must" THEN {"duty"} ELSE {}]

Blank == [root |-> {}, candidates |-> <<>>, proposed_assertions |-> <<>>,
          proposed_unresolved_references |-> <<>>, claims_authority |-> FALSE]

Listing(items) == [Blank EXCEPT !.root = {"candidates"}, !.candidates = items]

MCListings ==
    LET items == {Duty, Advice, Item("DUTY", "obligation"), Item("foreign", "obligation"),
                  Item("blank", "obligation"), Malformed}
    IN  {Listing(s) : s \in {<<>>} \cup {<<x>> : x \in items} \cup {<<x, y>> : x, y \in items}}
        \cup {Listing(Malformed), Blank,
              [Listing(<<Duty>>) EXCEPT !.root = {"candidates", "other"}]}

Claim(slot, quote) == [slot |-> slot, proposed_source_quote |-> quote]
Both == <<Claim("action", "must"), Claim("bearer", "must")>>
Interpretation(assertions, references) ==
    [Blank EXCEPT !.root = {"proposed_assertions", "proposed_unresolved_references"},
                  !.proposed_assertions = assertions,
                  !.proposed_unresolved_references = references]

Good == Interpretation(Both, <<"SYN-9">>)

MCInterpretations ==
    {Interpretation(a, r) :
        a \in {Both, Both \o Both, <<Claim("action", "must")>>, <<>>, Malformed,
               <<Malformed>>, <<Claim("bearer", NoQuote)>> \o Both,
               <<Claim("bearer", "other"), Claim("action", NoQuote)>>},
        r \in {<<>>, <<"SYN-9">>, <<"SYN-9", "SYN-8">>, <<Malformed>>}}
    \cup {Blank, [Good EXCEPT !.root = {"proposed_assertions"}],
          [Good EXCEPT !.root = @ \cup {"candidates"}],
          [Good EXCEPT !.claims_authority = TRUE]}

Exchange(request, content) == [request |-> request, content |-> content]
Interpret(content) == Exchange(InterpretationRequest("duty"), content)
Lists(first, second) ==
    <<Exchange(ExtractionRequest, first), Exchange(ExtractionRequest, second)>>
Divergent == Lists(Listing(<<Duty>>), Listing(<<Advice>>))

Frozen(exchanges) ==
    [source_intact |-> TRUE, intact |-> TRUE, well_formed |-> TRUE, exchanges |-> exchanges]

MCFixtures ==
    {Frozen(Append(Lists(f, s), Interpret(Good))) : f, s \in MCListings}
    \cup {Frozen(Append(Divergent, Interpret(c))) : c \in MCInterpretations}
    \cup {Frozen(<<>>), Frozen(Divergent), Frozen(<<Divergent[1]>>),
          Frozen(<<Interpret(Good)>>),
          Frozen(Divergent \o <<Exchange(InterpretationRequest("DUTY"), Good)>>),
          Frozen(Divergent \o <<Interpret(Good), Interpret(Good)>>),
          [Frozen(Divergent) EXCEPT !.source_intact = FALSE],
          [Frozen(Divergent) EXCEPT !.intact = FALSE],
          [Frozen(Divergent) EXCEPT !.well_formed = FALSE]}

-----------------------------------------------------------------------------
MCWarrant ==
    [source_id |-> "vector", source_version |-> "v1", source_digest |-> "d0",
     jurisdiction |-> "j1", applicability_scope |-> {"a1"},
     effective_from |-> 1, effective_until |-> 3, revoked_at |-> Null,
     status |-> "ACTIVE"]

MCEvidence ==
    [evidence_id |-> 1, evidence_digest |-> "recomputes", source_id |-> "vector",
     source_version |-> "v1", source_digest |-> "d0", authority_basis_ref |-> "b1",
     jurisdiction |-> "j1", applicability_scope |-> {"a1"},
     effective_from |-> 1, effective_until |-> Null,
     superseded_at |-> Null, revoked_at |-> Null, admission_warrant |-> MCWarrant]

MCTemplate ==
    [wire |-> {}, source_anchors |-> {},
     source_registration |->
        [source_id |-> "vector", source_version |-> "v1", source_digest |-> "d0",
         registered |-> TRUE, availability |-> "AVAILABLE", freshness |-> "FRESH",
         jurisdiction |-> "j1", applicability_scope |-> {"a1"},
         effective_from |-> 1, effective_until |-> Null,
         superseded_at |-> Null, revoked_at |-> Null],
     authority_evidence |-> <<MCEvidence>>, evaluation_time |-> 2,
     jurisdiction |-> "j1", applicability |-> "a1"]

\* The frozen vector, and vectors that the same script must refuse.
MCTemplates ==
    {MCTemplate,
     [MCTemplate EXCEPT !.evaluation_time = 3],
     [MCTemplate EXCEPT !.evaluation_time = Unnormalized],
     [MCTemplate EXCEPT !.source_registration.freshness = "STALE"],
     [MCTemplate EXCEPT !.authority_evidence = <<MCEvidence, MCEvidence>>],
     [MCTemplate EXCEPT !.authority_evidence =
        <<MCEvidence, [MCEvidence EXCEPT !.evidence_id = 2, !.source_id = "SYNTHETIC-DEMO",
                                         !.authority_basis_ref = "b2"]>>]}
=============================================================================
