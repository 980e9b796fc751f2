---------------------------- MODULE SemanticPath ----------------------------
(***************************************************************************)
(* The bounded semantic path of scripts/demo_bounded_semantic_path.py:     *)
(* two extractions from a frozen replay provider, a review docket, an      *)
(* admission decision over supplied authority, one interpretation of the   *)
(* admitted candidate, and two negative controls, published only if every  *)
(* gate on the way holds.  One action per call the script makes.           *)
(***************************************************************************)
EXTENDS ProviderBoundary, AdmissionInputs

CONSTANTS
    Fixtures,        \* frozen provider outputs, with what is wrong with them
    Templates,       \* synthetic authority, before it is bound to the source
    SourceId, SourceDigest,  \* identity of the demonstration's source
    ExpectedReference,       \* the one reference the fixture must leave open
    Nothing                  \* a local variable not assigned yet

NoSpan == "none"
Request == [stage : {"extract", "interpret", "other"}, span : Spans \cup {NoSpan}]
ExtractionRequest == [stage |-> "extract", span |-> NoSpan]
InterpretationRequest(span) == [stage |-> "interpret", span |-> span]

\* source_intact and intact: the bytes have the digest the script pins.
Fixture ==
    [source_intact : BOOLEAN, intact : BOOLEAN, well_formed : BOOLEAN,
     exchanges : Seq([request : Request, content : Content])]

ASSUME FixturesAssumption == Fixtures \subseteq Fixture
ASSUME TemplatesAssumption ==
    \A t \in Templates :
        /\ t \in Document /\ t.wire = {} /\ t.authority_evidence # <<>>
        /\ t.authority_evidence[1].evidence_digest # "missing"
ASSUME SourceAssumption ==
    SourceId \in Sources /\ SourceDigest \in Digests /\ NoSpan \notin Spans
ASSUME NothingAssumption == Nothing \notin Outcome

VARIABLES
    fixture, template,   \* the inputs; never written
    stage,               \* the call the script makes next, or "done"
    position,            \* FrozenSyntheticProvider._position
    calls,               \* every request the provider was asked, in order
    extractions,         \* the extraction results so far
    docket, authority, receipt, proposal,
    refused,             \* the state evaluated without evidence
    outcome              \* "RUNNING", "PUBLISHED" or the exception raised

inputs  == <<fixture, template>>
results == <<docket, authority, receipt, proposal, refused>>
vars == <<inputs, stage, position, calls, extractions, results, outcome>>

Boundary == INSTANCE AdmissionSpec WITH doc <- authority, outcome <- receipt

candidate == extractions[1][1]

Init ==
    /\ fixture \in Fixtures /\ template \in Templates
    /\ stage = "source"
    /\ position = 0 /\ calls = <<>>
    /\ extractions = <<>>
    /\ docket = Nothing /\ authority = Nothing /\ receipt = Nothing
    /\ proposal = Nothing /\ refused = Nothing
    /\ outcome = "RUNNING"

Stop(error)  == stage' = "done" /\ outcome' = error
HandOn(next)  == stage' = next /\ UNCHANGED outcome

\* A gate of the script: raise when the condition holds, or go on.
Gate(s, broken, error, next) ==
    /\ stage = s
    /\ \/ broken /\ Stop(error)
       \/ ~broken /\ HandOn(next)
    /\ UNCHANGED <<inputs, position, calls, extractions, results>>

-----------------------------------------------------------------------------
(* FrozenSyntheticProvider.complete: the next exchange, if it is for this  *)
(* very request.  A refusal does not advance.                              *)

next_exchange == fixture.exchanges[position + 1]
Exhausted == position >= Len(fixture.exchanges)

Ask(request) == calls' = Append(calls, request)

\* Regression: the position moves before the request is compared.
UnansweredAndCounted(request) ==
    /\ Ask(request)
    /\ ~Exhausted => next_exchange.request # request
    /\ position' = position + 1
    /\ Stop("ModelProviderError")

Unanswered(request) ==
    /\ Ask(request)
    /\ ~Exhausted => next_exchange.request # request
    /\ UNCHANGED position
    /\ Stop("ModelProviderError")

\* Regression: a response that is refused afterwards is not consumed.
AnsweredAndKept(request) ==
    /\ Ask(request)
    /\ ~Exhausted /\ next_exchange.request = request
    /\ position' = IF ExtractionAccepted(next_exchange.content) \/ request.stage = "interpret"
                   THEN position + 1 ELSE position

Answered(request) ==
    /\ Ask(request)
    /\ ~Exhausted /\ next_exchange.request = request
    /\ position' = position + 1

-----------------------------------------------------------------------------
CheckSource == Gate("source", ~fixture.source_intact, "ValueError", "load")

LoadFixture ==
    Gate("load",
         ~fixture.intact \/ ~fixture.well_formed \/ fixture.exchanges = <<>>,
         "ModelProviderError", "extract")

\* propose_candidate_units, called twice with the same source and anchor.
Extract ==
    /\ stage = "extract"
    /\ \/ Unanswered(ExtractionRequest) /\ UNCHANGED extractions
       \/ /\ Answered(ExtractionRequest)
          /\ \E error \in {"CandidateBoundaryError", "CandidateGroundingError"} :
                ExtractionRefusal(next_exchange.content, error) /\ Stop(error)
          /\ UNCHANGED extractions
       \/ /\ Answered(ExtractionRequest)
          /\ ExtractionAccepted(next_exchange.content)
          /\ extractions' = Append(extractions, next_exchange.content.candidates)
          /\ HandOn(IF Len(extractions) = 0 THEN "extract" ELSE "literal")
    /\ UNCHANGED <<inputs, results>>

RequireLiteralSpans ==
    Gate("literal",
         \E i \in DOMAIN extractions : \E c \in ToSet(extractions[i]) :
            c.candidate_span \notin LiteralSpans,
         "ValueError", "docket")

BuildReviewDocket ==
    /\ stage = "docket"
    /\ docket' = Docket(extractions)
    /\ \/ docket'.agreement_state # "DIVERGENT" /\ Stop("ValueError")
       \/ docket'.agreement_state = "DIVERGENT" /\ HandOn("admit")
    /\ UNCHANGED <<inputs, position, calls, extractions, authority, receipt,
                   proposal, refused>>

-----------------------------------------------------------------------------
(* Admission of the first candidate of the first extraction.               *)

SourceAnchor == [source_id |-> SourceId, content_hash |-> SourceDigest]

\* supplied_authority, for any candidate under the demonstration's anchor.
BoundToSource(r) == [r EXCEPT !.source_id = SourceId, !.source_digest = SourceDigest]

SuppliedEvidence(e) ==
    [BoundToSource(e) EXCEPT !.admission_warrant = BoundToSource(e.admission_warrant),
                                !.evidence_digest = "recomputes"]

SuppliedAuthority(t) ==
    [t EXCEPT !.source_anchors = {SourceAnchor},
              !.source_registration = BoundToSource(t.source_registration),
              !.authority_evidence =
                  [t.authority_evidence EXCEPT ![1] = SuppliedEvidence(t.authority_evidence[1])]]

\* An input-boundary error ends the script; so does any other terminal state.
RequireAdmitted(c) ==
    \/ c = "admitted" /\ HandOn("propose")
    \/ c # "admitted" /\ Verdict[c] \in AdmissionState /\ Stop("ValueError")
    \/ Verdict[c] \notin AdmissionState /\ Stop(Verdict[c])

EvaluateAdmission ==
    /\ stage = "admit"
    /\ \/ /\ extractions[1] = <<>>
          /\ Stop("IndexError")
          /\ UNCHANGED <<authority, receipt>>
       \/ /\ extractions[1] # <<>>
          /\ authority' = SuppliedAuthority(template)
          /\ \E c \in Check :
                /\ Boundary!DecidedBy(authority', c)
                /\ receipt' = Verdict[c]
                /\ RequireAdmitted(c)
    /\ UNCHANGED <<inputs, position, calls, extractions, docket, proposal, refused>>

-----------------------------------------------------------------------------
(* propose_interpretation, which the script calls with a binding twice.    *)

\* A receipt, with the candidate it was issued for: both receipts are over the
\* same candidate, so the digests binding_for compares are equal.
binding_for(state) == [candidate |-> candidate, admission_state |-> state]

\* Regression: whatever has a receipt is interpreted.
AdmitsAnyReceipt(binding) == binding.admission_state \in AdmissionState

Admits(binding) == binding.admission_state = "ADMITTED"

RequestFor(binding) == InterpretationRequest(binding.candidate.candidate_span)

\* ProposalInputBoundaryError, before a request is built.
RefusedAtInput(binding) == ~Admits(binding) /\ UNCHANGED <<position, calls>>

\* One attempt, which the provider or the output boundary refuses.
FailedAtProvider(binding) ==
    /\ Admits(binding)
    /\ \/ Unanswered(RequestFor(binding))
       \/ /\ Answered(RequestFor(binding))
          /\ ~ProposalAccepted(next_exchange.content)
          /\ Stop("ProposalBoundaryError")

Proposes(binding) ==
    /\ Admits(binding)
    /\ Answered(RequestFor(binding))
    /\ ProposalAccepted(next_exchange.content)

\* With the binding of the receipt just obtained.
ProposeInterpretation ==
    /\ stage = "propose"
    /\ \/ /\ RefusedAtInput(binding_for(receipt))
          /\ Stop("ProposalInputBoundaryError")
          /\ UNCHANGED proposal
       \/ FailedAtProvider(binding_for(receipt)) /\ UNCHANGED proposal
       \/ /\ Proposes(binding_for(receipt))
          /\ proposal' = Envelope(binding_for(receipt), next_exchange.content)
          /\ HandOn("slots")
    /\ UNCHANGED <<inputs, extractions, docket, authority, receipt, refused>>

RequireAllSlots ==
    Gate("slots", {a.slot : a \in ToSet(proposal.assertions)} # Slots,
         "ValueError", "quotes")

QuoteFound(a) ==
    a.proposed_source_quote # NoQuote
    /\ candidate.candidate_span \in QuotedIn[a.proposed_source_quote]

\* any() stops at the first quote that is missing, or that is null: "None not
\* in str" is a TypeError.
RequireGroundedQuotes ==
    /\ stage = "quotes"
    /\ \/ \E i \in DOMAIN proposal.assertions :
             /\ ~QuoteFound(proposal.assertions[i])
             /\ \A j \in 1..(i - 1) : QuoteFound(proposal.assertions[j])
             /\ Stop(IF proposal.assertions[i].proposed_source_quote = NoQuote
                      THEN "TypeError" ELSE "ValueError")
       \/ /\ \A a \in ToSet(proposal.assertions) : QuoteFound(a)
          /\ HandOn("references")
    /\ UNCHANGED <<inputs, position, calls, extractions, results>>

RequireOpenReference ==
    Gate("references", proposal.references # <<ExpectedReference>>,
         "ValueError", "missing")

-----------------------------------------------------------------------------
(* The negative controls, and publication.                                 *)

WithoutItsEvidence(d) == [d EXCEPT !.authority_evidence = <<>>]
WithoutDigest(e) == [e EXCEPT !.evidence_digest = "missing"]
WithoutADigest(d) ==
    [d EXCEPT !.authority_evidence =
        [d.authority_evidence EXCEPT ![1] = WithoutDigest(d.authority_evidence[1])]]

\* The evidence is removed and the rest evaluated; the script wants a receipt.
MissingAuthority ==
    /\ stage = "missing"
    /\ \E c \in Check :
          /\ Boundary!DecidedBy(WithoutItsEvidence(authority), c)
          /\ \/ /\ Verdict[c] \in AdmissionState
                /\ refused' = Verdict[c]
                /\ HandOn("refuse")
             \/ /\ Verdict[c] \notin AdmissionState
                /\ Stop(Verdict[c])
                /\ UNCHANGED refused
    /\ UNCHANGED <<inputs, position, calls, extractions, docket, authority, receipt, proposal>>

\* An interpretation is asked for on that receipt.  Only the refusal of the
\* input boundary is caught: any other error is the script's, and a proposal
\* raises "missing authority allowed interpretation".
RefuseInterpretation ==
    /\ stage = "refuse"
    /\ \/ RefusedAtInput(binding_for(refused)) /\ HandOn("malformed")
       \/ FailedAtProvider(binding_for(refused))
       \/ Proposes(binding_for(refused)) /\ Stop("ValueError")
    /\ UNCHANGED <<inputs, extractions, results>>

\* An evidence object loses its digest.  The errors of the input boundary are
\* caught; a receipt raises "malformed authority was accepted".
MalformedAuthority ==
    /\ stage = "malformed"
    /\ \E c \in Check :
          /\ Boundary!DecidedBy(WithoutADigest(authority), c)
          /\ \/ Verdict[c] \in InputBoundaryError /\ HandOn("count")
             \/ Verdict[c] \in EvaluatorFault /\ Stop(Verdict[c])
             \/ Verdict[c] \in AdmissionState /\ Stop("ValueError")
    /\ UNCHANGED <<inputs, position, calls, extractions, results>>

\* main compares provider.consumed with 3.
Publish ==
    /\ stage = "count"
    /\ Stop(IF position = 3 THEN "PUBLISHED" ELSE "ValueError")
    /\ UNCHANGED <<inputs, position, calls, extractions, results>>

-----------------------------------------------------------------------------
Next ==
    \/ CheckSource \/ LoadFixture \/ Extract \/ RequireLiteralSpans
    \/ BuildReviewDocket \/ EvaluateAdmission \/ ProposeInterpretation
    \/ RequireAllSlots \/ RequireGroundedQuotes \/ RequireOpenReference
    \/ MissingAuthority \/ RefuseInterpretation \/ MalformedAuthority \/ Publish

Spec == Init /\ [][Next]_vars /\ WF_vars(Next)
-----------------------------------------------------------------------------
TypeOK ==
    /\ fixture \in Fixture /\ template \in Document
    /\ stage \in {"source", "load", "extract", "literal", "docket", "admit", "propose",
                  "slots", "quotes", "references", "missing", "refuse", "malformed", "count",
                  "done"}
    /\ position \in 0..Len(fixture.exchanges)
    /\ calls \in Seq(Request)
    /\ extractions \in Seq(Seq(Candidate)) /\ Len(extractions) <= 2
    /\ authority \in Document \cup {Nothing}
    /\ receipt \in Outcome \cup {Nothing} /\ refused \in Outcome \cup {Nothing}

(***************************************************************************)
(* propose_interpretation refuses a receipt that is not ADMITTED before a  *)
(* request is built (interpretation_proposal.py, its first statement).     *)
(* The script makes two bindings, one from an admission and one from a     *)
(* refusal; the provider is asked to interpret at most once, about the     *)
(* candidate the authority was supplied for, and the supplied authority    *)
(* holds evidence that binds this very source version and digest and is in *)
(* force.                                                                  *)
(***************************************************************************)
InterpretationAuthorized ==
    \A i \in DOMAIN calls :
        calls[i].stage = "interpret" =>
            /\ \A j \in DOMAIN calls : calls[j].stage = "interpret" => j = i
            /\ receipt = "ADMITTED"
            /\ calls[i].span = candidate.candidate_span
            /\ candidate.candidate_span \in LiteralSpans
            /\ authority.source_registration.source_digest = SourceDigest
            /\ \E e \in Boundary!ForInstance(authority) : Boundary!InForce(e, authority)

(***************************************************************************)
(* Exactly one attempt and no retry: the answered requests are those of    *)
(* the first exchanges, in their order; consumed counts them even when     *)
(* the answer is refused afterwards; and a request that was not answered   *)
(* is the last one ever made.                                              *)
(***************************************************************************)
ReplayAccounted ==
    /\ \A i \in 1..position : calls[i] = fixture.exchanges[i].request
    /\ Len(calls) = position \/ (Len(calls) = position + 1 /\ outcome = "ModelProviderError")

(***************************************************************************)
(* The docket compares what the extractions hold and not how they list it: *)
(* it is DIVERGENT exactly when some candidate occurs a different number   *)
(* of times in two of them, and every candidate of either is in it.        *)
(***************************************************************************)
Occurrences(x, s) == Cardinality({i \in DOMAIN s : s[i] = x})

DocketCompares ==
    docket # Nothing =>
        LET ids == docket.candidates_by_id
        IN  /\ \A i \in DOMAIN extractions : ToSet(extractions[i]) \subseteq ids
            /\ docket.agreement_state = "NO_CANDIDATES" <=> ids = {}
            /\ docket.agreement_state = "DIVERGENT" <=>
                 \E x \in ids : \E i, j \in DOMAIN extractions :
                     Occurrences(x, extractions[i]) # Occurrences(x, extractions[j])

(***************************************************************************)
(* The negative controls discriminate: taking the evidence away from an    *)
(* admitted input is answered MISSING_AUTHORITY_EVIDENCE and by nothing    *)
(* else, the interpretation then asked for on that receipt does not reach  *)
(* the provider, and from there on the script can only publish: neither    *)
(* control ends in the exception it raises when it is passed, and exactly  *)
(* three exchanges have been consumed.                                     *)
(***************************************************************************)
ControlsDiscriminate ==
    refused # Nothing =>
        /\ refused = "MISSING_AUTHORITY_EVIDENCE"
        /\ Len(calls) = 3 /\ position = 3
        /\ stage = "done" => outcome = "PUBLISHED"

(***************************************************************************)
(* What is published was produced by this run and by nothing else: two     *)
(* complete extractions of exchanges 1 and 2, exchange 3's assertions with *)
(* their order and repetitions under the binding of the admitted           *)
(* candidate, all slots, only quotes of the admitted span, and the         *)
(* reference still open.                                                   *)
(***************************************************************************)
PublishedIsAccounted ==
    outcome = "PUBLISHED" =>
        LET answer(i) == fixture.exchanges[i].content
        IN  /\ extractions = <<answer(1).candidates, answer(2).candidates>>
            /\ \A i \in 1..2 : \A c \in ToSet(extractions[i]) :
                  c \in Candidate /\ c.candidate_span \in LiteralSpans \ BlankSpans
            /\ calls = <<ExtractionRequest, ExtractionRequest,
                         InterpretationRequest(candidate.candidate_span)>>
            /\ proposal.binding = [candidate |-> answer(1).candidates[1], admission_state |-> "ADMITTED"]
            /\ proposal.assertions = answer(3).proposed_assertions
            /\ ~answer(3).claims_authority
            /\ \A s \in Slots : \E a \in ToSet(proposal.assertions) : a.slot = s
            /\ \A a \in ToSet(proposal.assertions) : QuoteFound(a)
            /\ proposal.references = <<ExpectedReference>>
            /\ refused \notin {Nothing, "ADMITTED"}
=============================================================================
