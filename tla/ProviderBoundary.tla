-------------------------- MODULE ProviderBoundary --------------------------
(***************************************************************************)
(* What crosses from a model provider into the compiler, and what the two  *)
(* boundaries make of it: propose_candidate_units (candidate_extraction.py) *)
(* and propose_interpretation (interpretation_proposal.py).                *)
(*                                                                         *)
(* Text is opaque.  Of a span it matters whether it is blank, whether it   *)
(* occurs in the source fragment letter for letter, and whether it occurs  *)
(* there once both are case-folded and their white space is collapsed.     *)
(***************************************************************************)
EXTENDS Naturals, SequencesExt

CONSTANTS
    Spans,            \* the texts a provider may quote
    BlankSpans,       \* ... that strip to nothing
    LiteralSpans,     \* ... that occur in the source as they stand
    FoldedSpans,      \* ... whose grounding key occurs in the source's
    UnitTypes,        \* the sixteen provisional types
    Slots,            \* the eleven interpretation slots
    Quotes,           \* the texts an assertion may quote
    QuotedIn,         \* for each quote, the spans it literally occurs in
    References,       \* well-formed unresolved references
    Malformed,        \* a JSON value of a shape its contract refuses
    NoQuote           \* a null proposed_source_quote

ASSUME SpansAssumption ==
    /\ LiteralSpans \subseteq FoldedSpans /\ FoldedSpans \subseteq Spans
    /\ BlankSpans \subseteq Spans
ASSUME SlotsAssumption == Slots # {}
ASSUME QuotesAssumption == QuotedIn \in [Quotes -> SUBSET Spans]
ASSUME ShapesAssumption ==
    /\ Malformed \notin [candidate_span : Spans, unit_type : UnitTypes]
    /\ Malformed \notin [slot : Slots, proposed_source_quote : Quotes \cup {NoQuote}]
    /\ Malformed \notin References /\ NoQuote \notin Quotes

(***************************************************************************)
(* A candidate item and a proposed assertion.  An item or assertion with a *)
(* forbidden, removed, unexpected, missing or mistyped field is Malformed: *)
(* every such check raises the boundary's one error.  A list with an item   *)
(* that is not an object is refused before any item is looked at, so the   *)
(* list itself is Malformed then.                                          *)
(***************************************************************************)
Candidate == [candidate_span : Spans, unit_type : UnitTypes]
Assertion == [slot : Slots, proposed_source_quote : Quotes \cup {NoQuote}]

RootKey == {"candidates", "proposed_assertions", "proposed_unresolved_references",
            "other"}

\* A response: its root keys, the arrays under them, and whether a key or a
\* status value that only the institution may hold occurs at any depth.
Content ==
    [root : SUBSET RootKey,
     candidates : Seq(Candidate \cup {Malformed}) \cup {Malformed},
     proposed_assertions : Seq(Assertion \cup {Malformed}) \cup {Malformed},
     proposed_unresolved_references : Seq(References \cup {Malformed}) \cup {Malformed},
     claims_authority : BOOLEAN]

-----------------------------------------------------------------------------
(* The candidate boundary.                                                 *)

CandidatesRefused(c) ==
    \/ ~(c.root \subseteq {"candidates"})
    \/ "candidates" \notin c.root
    \/ c.candidates = Malformed

\* Regression: the blank test is dropped.
GroundedUnlessAbsent(item) == item.candidate_span \in FoldedSpans

\* check_source_grounding
Grounded(item) ==
    /\ item.candidate_span \notin BlankSpans
    /\ item.candidate_span \in FoldedSpans

Accepted(item) == item # Malformed /\ Grounded(item)

\* The first item that is not accepted fails the whole response.
ExtractionRefusal(c, error) ==
    \/ CandidatesRefused(c) /\ error = "CandidateBoundaryError"
    \/ /\ ~CandidatesRefused(c)
       /\ \E i \in DOMAIN c.candidates :
             /\ \A j \in 1..(i - 1) : Accepted(c.candidates[j])
             /\ ~Accepted(c.candidates[i])
             /\ error = IF c.candidates[i] = Malformed THEN "CandidateBoundaryError"
                        ELSE "CandidateGroundingError"

ExtractionAccepted(c) ==
    ~CandidatesRefused(c) /\ \A i \in DOMAIN c.candidates : Accepted(c.candidates[i])

-----------------------------------------------------------------------------
(* The interpretation boundary.  Absent arrays count as empty ones.        *)

ProposalAccepted(c) ==
    /\ c.root \subseteq {"proposed_assertions", "proposed_unresolved_references"}
    /\ ~c.claims_authority
    /\ "proposed_assertions" \in c.root =>
          c.proposed_assertions \in Seq(Assertion)
    /\ "proposed_unresolved_references" \in c.root =>
          c.proposed_unresolved_references \in Seq(References)

\* binding_for and build_proposal_envelope: the payload under the candidate it
\* was asked about.  proposal_id is a digest of all of it, so the record is its
\* own id.
Envelope(binding, c) ==
    [binding |-> binding,
     assertions |-> IF "proposed_assertions" \in c.root
                    THEN c.proposed_assertions ELSE <<>>,
     references |-> IF "proposed_unresolved_references" \in c.root
                    THEN c.proposed_unresolved_references ELSE <<>>]

-----------------------------------------------------------------------------
(* The review docket over a sequence of extractions.  A unit_id is a digest *)
(* of the span, the type and the anchor, so a candidate is its own id.     *)

\* Regression: the ids are compared in the provider's order.
UnsortedIds(extraction) == extraction

\* sorted(candidate_ids): the order is forgotten and repetitions are kept.
CandidateIds(extraction) == ToBag(extraction)

Docket(extractions) ==
    LET sets == [i \in DOMAIN extractions |-> CandidateIds(extractions[i])]
    IN  [agreement_state |->
            IF \A i \in DOMAIN extractions : extractions[i] = <<>> THEN "NO_CANDIDATES"
            ELSE IF \A i, j \in DOMAIN sets : sets[i] = sets[j] THEN "IDENTICAL"
            ELSE "DIVERGENT",
         proposal_sets |-> sets,
         candidates_by_id |-> UNION {ToSet(extractions[i]) : i \in DOMAIN extractions}]
=============================================================================
