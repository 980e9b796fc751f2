-------------------------- MODULE SemanticPathProofs --------------------------
(***************************************************************************)
(* What holds of every run of the bounded semantic path, for any fixtures, *)
(* templates, spans, slots and quotes.                                     *)
(*                                                                         *)
(* The script is a line of gates, and what a gate has established is not   *)
(* in the state once it is passed.  IInv says of each stretch of that line *)
(* what is known on it, and of a published run that it came to the end.    *)
(***************************************************************************)
EXTENDS SemanticPath, FiniteSetTheorems, TLAPS, WellFoundedInduction

-----------------------------------------------------------------------------
(* Answers.                                                                *)

(* A sequence of As and Bs without Bs is a sequence of As. *)
LEMMA OnlyOf ==
    ASSUME NEW A, NEW B, NEW s \in Seq(A \cup B), \A i \in DOMAIN s : s[i] \notin B
    PROVE  s \in Seq(A)
  <1>1. DOMAIN s = 1..Len(s) /\ Len(s) \in Nat /\ s = [i \in 1..Len(s) |-> s[i]]
    OBVIOUS
  <1>2. \A i \in 1..Len(s) : s[i] \in A
    BY <1>1
  <1> QED BY <1>1, <1>2

(* What an accepted extraction returns: candidates, each grounded. *)
LEMMA AcceptedListing ==
    ASSUME NEW c \in Content, ExtractionAccepted(c)
    PROVE  /\ c.candidates \in Seq(Candidate)
           /\ \A x \in ToSet(c.candidates) : x \in Candidate /\ Grounded(x)
  <1>1. c.candidates \in Seq(Candidate \cup {Malformed})
    BY DEF Content, ExtractionAccepted, CandidatesRefused
  <1>2. \A i \in DOMAIN c.candidates : c.candidates[i] # Malformed /\ Grounded(c.candidates[i])
    BY DEF ExtractionAccepted, Accepted
  <1>3. c.candidates \in Seq(Candidate)
    BY <1>1, <1>2, OnlyOf
  <1> QED BY <1>2, <1>3 DEF ToSet

(* The exchange that answers a request. *)
LEMMA ExchangeTypes ==
    ASSUME fixture \in Fixture
    PROVE  /\ Len(fixture.exchanges) \in Nat
           /\ \A i \in 1..Len(fixture.exchanges) : fixture.exchanges[i].content \in Content
  <1> DEFINE Exchange == [request : Request, content : Content]
  <1>1. fixture.exchanges \in Seq(Exchange)
    BY DEF Fixture
  <1>2. \A x \in Exchange : x.content \in Content
    OBVIOUS
  <1> HIDE DEF Exchange
  <1>3. /\ Len(fixture.exchanges) \in Nat
        /\ \A i \in 1..Len(fixture.exchanges) : fixture.exchanges[i] \in Exchange
    BY <1>1
  <1> QED BY <1>2, <1>3

-----------------------------------------------------------------------------
(* The supplied authority, and what its admission means.                   *)

LEMMA SuppliedIsDocument ==
    ASSUME NEW t \in Templates
    PROVE  /\ SuppliedAuthority(t) \in Document
           /\ SuppliedAuthority(t).source_registration.source_digest = SourceDigest
  <1> DEFINE e == t.authority_evidence[1]
             r == BoundToSource(t.source_registration)
             all == [t.authority_evidence EXCEPT ![1] = SuppliedEvidence(e)]
  <1>1. t \in Document /\ t.authority_evidence # <<>>
    BY TemplatesAssumption
  <1>2. t.authority_evidence \in Seq(EvidenceRecord) /\ t.source_registration \in RegistrationRecord
    BY <1>1 DEF Document
  <1>3. 1 \in DOMAIN t.authority_evidence /\ e \in EvidenceRecord
    BY <1>1, <1>2
  <1>4. BoundToSource(e.admission_warrant) \in WarrantRecord
    BY <1>3, SourceAssumption DEF EvidenceRecord, WarrantRecord, BoundToSource
  <1>5. BoundToSource(e) \in EvidenceRecord
    BY <1>3, SourceAssumption DEF EvidenceRecord, BoundToSource
  <1>6. SuppliedEvidence(e) \in EvidenceRecord
    BY <1>4, <1>5 DEF EvidenceRecord, SuppliedEvidence
  <1>7. r \in RegistrationRecord /\ r.source_digest = SourceDigest
    BY <1>2, SourceAssumption DEF RegistrationRecord, BoundToSource
  <1>8. all \in Seq(EvidenceRecord)
    BY <1>2, <1>3, <1>6
  <1>9. SourceAnchor \in Anchor
    BY SourceAssumption DEF SourceAnchor, Anchor
  <1> HIDE DEF all, r
  <1> DEFINE anchors == {SourceAnchor}
             n == [t EXCEPT !.source_anchors = anchors, !.source_registration = r,
                            !.authority_evidence = all]
  <1>10. SuppliedAuthority(t) = n
    BY DEF SuppliedAuthority, all, r
  <1>11. anchors \in SUBSET Anchor
    BY <1>9
  <1> HIDE DEF anchors, e
  <1>12. n \in Document /\ n.source_registration = r
    <2> DEFINE A == SUBSET Anchor
               E == Seq(EvidenceRecord)
               W == SUBSET WireDefects
               R == RegistrationRecord
    <2>1. /\ Document = [wire : W, source_anchors : A, source_registration : R,
                         authority_evidence : E, evaluation_time : Timestamp,
                         jurisdiction : Jurisdictions, applicability : Applicabilities]
          /\ t \in Document /\ anchors \in A /\ r \in R /\ all \in E
      BY <1>1, <1>7, <1>8, <1>11 DEF Document
    <2> HIDE DEF A, E, W, R
    <2> QED BY <2>1
  <1> HIDE DEF n
  <1> QED BY <1>7, <1>10, <1>12

(* The boundary speaks of the checks and evidence of this module. *)
LEMMA SharedVocabulary ==
    /\ Boundary!Check = Check /\ Boundary!Position = Position
    /\ \A d : Boundary!EvidenceOf(d) = EvidenceOf(d)
  <1>1. Boundary!Position = Position
    BY DEF Boundary!Position, Position
  <1> QED BY <1>1 DEF Boundary!Check, Check, Boundary!EvidenceOf, EvidenceOf

LEMMA Checks ==
    /\ Check = {"encoding", "json", "finite", "encodable", "canonical", "schema", "ruleset",
                "evidence_order", "evidence_digest", "evaluation_time", "candidate",
                "availability", "freshness", "registered", "evidence_times", "version",
                "digest", "authority", "scope", "registration_times", "not_yet_effective",
                "expired", "superseded", "revoked", "conflict", "established", "admitted"}
    /\ \A c \in Check : Position[c] \in Nat /\ Verdict[c] \in Outcome
  BY DEF Check, Position, Verdict, Outcome, AdmissionState, InputBoundaryError, EvaluatorFault

(* No check before "admitted" fires on an admitted document. *)
LEMMA AdmittedPassed ==
    ASSUME NEW d, Boundary!DecidedBy(d, "admitted")
    PROVE  \A c \in Check \ {"admitted"} : ~Boundary!Fires(d, c)
  <1>1. \A c \in Check \ {"admitted"} : Position[c] < Position["admitted"]
    BY Checks DEF Position
  <1> QED BY <1>1, SharedVocabulary DEF Boundary!DecidedBy

(* An admitted document has evidence for the exact instance, in force. *)
LEMMA AdmittedHasEvidence ==
    ASSUME NEW d, Boundary!DecidedBy(d, "admitted")
    PROVE  \E e \in Boundary!ForInstance(d) : Boundary!InForce(e, d)
  <1>1. ~Boundary!Fires(d, "established")
    BY AdmittedPassed, Checks
  <1> QED BY <1>1 DEF Boundary!Fires, Boundary!NothingInForce, Boundary!Warranting

(* Some check decides a document, and no other does. *)
LEMMA DecisionTotal ==
    ASSUME NEW d
    PROVE  \E c \in Check : Boundary!DecidedBy(d, c)
  <1> DEFINE Firing == {c \in Check : Boundary!Fires(d, c)}
             Places == {Position[c] : c \in Firing}
  <1>1. Places \subseteq Nat
    BY Checks
  <1>2. Places # {}
    <2>1. Boundary!Fires(d, "admitted") /\ "admitted" \in Check
      BY Checks DEF Boundary!Fires
    <2> QED BY <2>1
  <1>3. PICK x \in Places : \A y \in Places : ~(<<y, x>> \in OpToRel(<, Nat))
    <2> HIDE DEF Places
    <2> QED BY <1>1, <1>2, NatLessThanWellFounded, WFMin
  <1>4. PICK c \in Firing : x = Position[c]
    BY <1>3
  <1>5. ASSUME NEW b \in Check, Position[b] < Position[c], Boundary!Fires(d, b) PROVE FALSE
    <2>1. Position[b] \in Places
      BY <1>5
    <2>2. ~(<<Position[b], Position[c]>> \in OpToRel(<, Nat))
      BY <1>3, <1>4, <2>1
    <2>3. Position[b] \in Nat /\ Position[c] \in Nat
      BY Checks
    <2> QED BY <1>5, <2>2, <2>3 DEF OpToRel
  <1>6. Boundary!DecidedBy(d, c)
    <2> HIDE DEF Places
    <2> QED BY <1>5, SharedVocabulary DEF Boundary!DecidedBy
  <1> QED BY <1>6

LEMMA DecisionUnique ==
    ASSUME NEW d, NEW b \in Check, NEW c \in Check,
           Boundary!DecidedBy(d, b), Boundary!DecidedBy(d, c)
    PROVE  b = c
  <1>1. ~(Position[b] < Position[c]) /\ ~(Position[c] < Position[b])
    BY SharedVocabulary DEF Boundary!DecidedBy
  <1>2. Position[b] = Position[c]
    BY <1>1, Checks
  <1> QED BY <1>2 DEF Check, Position

(* An admitted document without its evidence is decided by the authority check. *)
LEMMA AuthorityDecides ==
    ASSUME NEW d \in Document, Boundary!DecidedBy(d, "admitted")
    PROVE  Boundary!DecidedBy(WithoutItsEvidence(d), "authority")
  <1> DEFINE n == WithoutItsEvidence(d)
             Earlier == {b \in Check : Position[b] < Position["authority"]}
  <1>1. /\ n.authority_evidence = <<>> /\ n.wire = d.wire
        /\ n.source_anchors = d.source_anchors /\ n.evaluation_time = d.evaluation_time
        /\ n.source_registration = d.source_registration
    BY DEF Document, WithoutItsEvidence
  <1> HIDE DEF n
  <1>2. DOMAIN n.authority_evidence = {} /\ EvidenceOf(n) = {}
    BY <1>1 DEF EvidenceOf
  <1>3. Boundary!ForSource(n) = {} /\ Boundary!ForVersion(n) = {} /\ Boundary!ForInstance(n) = {}
    <2>1. Boundary!EvidenceOf(n) = {}
      BY <1>2, SharedVocabulary
    <2> QED BY <2>1 DEF Boundary!ForSource, Boundary!ForVersion, Boundary!ForInstance
  <1>4. Earlier = {"encoding", "json", "finite", "encodable", "canonical", "schema", "ruleset",
                   "evidence_order", "evidence_digest", "evaluation_time", "candidate",
                   "availability", "freshness", "registered", "evidence_times", "version",
                   "digest"}
    BY Checks, SMTT(30) DEF Position
  <1>5. \A b \in Earlier : ~Boundary!Fires(d, b)
    <2>1. Earlier \subseteq Check \ {"admitted"}
      BY <1>4, Checks
    <2> HIDE DEF Earlier
    <2> QED BY <2>1, AdmittedPassed
  <1>6. ~Boundary!OrderBroken(n) /\ ~Boundary!DigestBroken(n)
    BY <1>2 DEF Boundary!OrderBroken, Boundary!DigestBroken
  <1>7. ~Boundary!EvidenceUnparsed(n) /\ ~Boundary!VersionMismatch(n)
    BY <1>2, <1>3, SharedVocabulary, SMTT(30)
       DEF Boundary!EvidenceUnparsed, Boundary!VersionMismatch
  <1>8. ~Boundary!Fires(d, "digest") /\ ~Boundary!Fires(d, "candidate")
    BY <1>4, <1>5
  <1>9. ~Boundary!DigestMismatch(n) /\ ~Boundary!AnchorsInvalid(n)
    BY <1>1, <1>2, <1>8, SharedVocabulary
       DEF Boundary!Fires, Boundary!DigestMismatch, Boundary!AnchorsInvalid
  <1>10. \A b \in Earlier : ~Boundary!Fires(n, b)
    <2>1. ~Boundary!ViolatesSchema(d)
      BY <1>4, <1>5 DEF Boundary!Fires
    <2>2. ~Boundary!ViolatesSchema(n)
      BY <1>1, <1>2, <2>1, SharedVocabulary DEF Boundary!ViolatesSchema
    <2> QED BY <1>1, <1>4, <1>5, <1>6, <1>7, <1>9, <2>2 DEF Boundary!Fires
  <1>11. Boundary!Fires(n, "authority")
    BY <1>3 DEF Boundary!Fires
  <1>12. Boundary!DecidedBy(n, "authority")
    BY <1>10, <1>11, SharedVocabulary DEF Boundary!DecidedBy
  <1> QED BY <1>12 DEF n

LEMMA WithoutEvidence ==
    ASSUME NEW d \in Document, Boundary!DecidedBy(d, "admitted"), NEW c \in Check,
           Boundary!DecidedBy(WithoutItsEvidence(d), c)
    PROVE  Verdict[c] = "MISSING_AUTHORITY_EVIDENCE"
  <1>1. "authority" \in Check
    BY Checks
  <1>2. c = "authority"
    BY <1>1, AuthorityDecides, DecisionUnique
  <1> QED BY <1>2 DEF Verdict

(* An admitted document, one evidence object of which loses its digest, is *)
(* decided by the schema.                                                  *)
LEMMA SchemaDecides ==
    ASSUME NEW d \in Document, Boundary!DecidedBy(d, "admitted")
    PROVE  Boundary!DecidedBy(WithoutADigest(d), "schema")
  <1> DEFINE n == WithoutADigest(d)
             E == d.authority_evidence
             e == E[1]
             left == [E EXCEPT ![1] = WithoutDigest(e)]
  <1>1. E \in Seq(EvidenceRecord) /\ E # <<>>
    <2>1. E \in Seq(EvidenceRecord)
      BY DEF Document
    <2>2. EvidenceOf(d) # {}
      BY AdmittedHasEvidence, SharedVocabulary
         DEF Boundary!ForInstance, Boundary!ForVersion, Boundary!ForSource
    <2> QED BY <2>1, <2>2 DEF EvidenceOf
  <1>2. 1 \in DOMAIN E /\ e \in EvidenceRecord
    BY <1>1
  <1>3. WithoutDigest(e).evidence_digest = "missing"
    BY <1>2 DEF WithoutDigest, EvidenceRecord
  <1>4. 1 \in DOMAIN left /\ left[1] = WithoutDigest(e)
    BY <1>2
  <1> HIDE DEF left, e, E
  <1>5. n.wire = d.wire /\ n.authority_evidence = left
    BY DEF Document, WithoutADigest, left, e, E
  <1> HIDE DEF n
  <1>6. Boundary!Fires(n, "schema")
    <2>1. left[1] \in EvidenceOf(n)
      BY <1>4, <1>5 DEF EvidenceOf
    <2>2. Boundary!ViolatesSchema(n)
      BY <1>3, <1>4, <2>1, SharedVocabulary DEF Boundary!ViolatesSchema
    <2> QED BY <2>2 DEF Boundary!Fires
  <1>7. \A b \in {"encoding", "json", "finite", "encodable", "canonical"} :
           ~Boundary!Fires(n, b)
    <2>1. \A b \in {"encoding", "json", "finite", "encodable", "canonical"} :
             ~Boundary!Fires(d, b)
      BY AdmittedPassed, Checks
    <2> QED BY <1>5, <2>1 DEF Boundary!Fires
  <1>8. \A b \in Check : Position[b] < Position["schema"] =>
           b \in {"encoding", "json", "finite", "encodable", "canonical"}
    BY Checks DEF Position
  <1>9. Boundary!DecidedBy(n, "schema")
    BY <1>6, <1>7, <1>8, SharedVocabulary DEF Boundary!DecidedBy
  <1> QED BY <1>9 DEF n

-----------------------------------------------------------------------------
(* The inductive invariant.                                                *)

BeforeDocket == {"source", "load", "extract", "literal", "docket"}
BothExtracted == {"literal", "docket", "admit", "propose"}
FromReferences == {"references", "missing", "refuse", "malformed", "count"}
Proposed == FromReferences \cup {"slots", "quotes"}
AfterRefusal == {"refuse", "malformed", "count"}

\* How far the provider has been asked, and what for.
Progress ==
    /\ stage \in {"source", "load"} => position = 0 /\ extractions = <<>>
    /\ stage = "extract" => position \in {0, 1} /\ Len(extractions) = position
    /\ stage \in BothExtracted => position = 2 /\ Len(extractions) = 2
    /\ stage \in Proposed => position = 3 /\ Len(extractions) = 2
    /\ Len(extractions) <= position
    /\ stage # "done" => Len(calls) = position /\ outcome = "RUNNING"

\* The extractions are those the first exchanges hold.
Extracted ==
    \A i \in DOMAIN extractions :
        /\ ExtractionAccepted(fixture.exchanges[i].content)
        /\ extractions[i] = fixture.exchanges[i].content.candidates

Docketed ==
    docket = Nothing \/ (stage \notin BeforeDocket /\ docket = Docket(extractions))

AllLiteral ==
    \A i \in DOMAIN extractions : \A c \in ToSet(extractions[i]) : c.candidate_span \in LiteralSpans

\* What the admission gate has established.
AdmittedCandidate ==
    /\ Len(extractions) = 2 /\ extractions[1] # <<>> /\ AllLiteral
    /\ authority = SuppliedAuthority(template) /\ receipt = "ADMITTED"
    /\ Boundary!DecidedBy(authority, "admitted")

\* The provider is asked to extract, twice, and then about the admitted candidate.
Asked ==
    \A i \in DOMAIN calls :
        /\ i \in {1, 2} => calls[i] = ExtractionRequest
        /\ i \notin {1, 2} =>
              /\ i = 3 /\ AdmittedCandidate
              /\ calls[i] = InterpretationRequest(candidate.candidate_span)

Gated ==
    /\ template \in Templates
    /\ stage \in {"docket", "admit"} => AllLiteral
    /\ stage \in {"propose"} \cup Proposed => AdmittedCandidate
    /\ stage \notin AfterRefusal \cup {"done"} => refused = Nothing
    /\ stage \in AfterRefusal => refused = "MISSING_AUTHORITY_EVIDENCE"
    /\ ControlsDiscriminate

\* What the gates on the interpretation have established.
AllSlots == {a.slot : a \in ToSet(proposal.assertions)} = Slots
AllQuotes == \A a \in ToSet(proposal.assertions) : QuoteFound(a)
Interpreted ==
    /\ stage \in Proposed =>
          /\ ProposalAccepted(fixture.exchanges[3].content)
          /\ proposal = Envelope(binding_for(receipt), fixture.exchanges[3].content)
    /\ stage \in Proposed \ {"slots"} => AllSlots
    /\ stage \in FromReferences => AllQuotes
    /\ stage \in FromReferences \ {"references"} => proposal.references = <<ExpectedReference>>

\* A published run came to the end of the line.
Complete ==
    /\ position = 3 /\ Len(calls) = 3 /\ Len(extractions) = 2 /\ AdmittedCandidate
    /\ ProposalAccepted(fixture.exchanges[3].content)
    /\ proposal = Envelope(binding_for(receipt), fixture.exchanges[3].content)
    /\ AllSlots /\ AllQuotes /\ proposal.references = <<ExpectedReference>>
    /\ refused = "MISSING_AUTHORITY_EVIDENCE"

IInv ==
    /\ TypeOK /\ ReplayAccounted /\ Progress /\ Extracted /\ Docketed /\ Asked
    /\ Gated /\ Interpreted
    /\ outcome = "PUBLISHED" => Complete

-----------------------------------------------------------------------------
(* Steps that leave all but the stage and the outcome alone.               *)

Settled == UNCHANGED <<inputs, position, calls, extractions, results>>

(* What a settled step carries over. *)
LEMMA Carried ==
    ASSUME Settled
    PROVE  /\ fixture' = fixture /\ template' = template /\ position' = position
           /\ calls' = calls /\ extractions' = extractions /\ docket' = docket
           /\ authority' = authority /\ receipt' = receipt /\ proposal' = proposal
           /\ refused' = refused
           /\ candidate' = candidate /\ binding_for(receipt)' = binding_for(receipt)
           /\ AllLiteral' = AllLiteral /\ AdmittedCandidate' = AdmittedCandidate
           /\ AllSlots' = AllSlots /\ AllQuotes' = AllQuotes
  <1>1. /\ fixture' = fixture /\ template' = template /\ position' = position
        /\ calls' = calls /\ extractions' = extractions /\ docket' = docket
        /\ authority' = authority /\ receipt' = receipt /\ proposal' = proposal
        /\ refused' = refused
    BY DEF Settled, inputs, results
  <1>2. candidate' = candidate /\ binding_for(receipt)' = binding_for(receipt)
    BY <1>1 DEF candidate, binding_for
  <1>3. AllLiteral' = AllLiteral /\ AllSlots' = AllSlots
    BY <1>1 DEF AllLiteral, AllSlots
  <1>4. AdmittedCandidate' = AdmittedCandidate
    BY <1>1, <1>3 DEF AdmittedCandidate
  <1>5. AllQuotes' = AllQuotes
    BY <1>1, <1>2 DEF AllQuotes, QuoteFound
  <1> QED BY <1>1, <1>2, <1>3, <1>4, <1>5

Stages == {"source", "load", "extract", "literal", "docket", "admit", "propose", "slots",
           "quotes", "references", "missing", "refuse", "malformed", "count", "done"}

(* All of IInv that does not speak of the stage. *)
LEMMA SettledKeeps ==
    ASSUME IInv, Settled, stage' \in Stages
    PROVE  /\ TypeOK' /\ Extracted' /\ Asked' /\ (Complete => Complete')
  <1>1. TypeOK'
    BY Carried DEF IInv, TypeOK, Stages
  <1>2. Extracted'
    BY Carried DEF IInv, Extracted
  <1>3. Asked'
    BY Carried DEF IInv, Asked
  <1>4. Complete => Complete'
    BY Carried DEF Complete
  <1> QED BY <1>1, <1>2, <1>3, <1>4

(* The script gives up at a gate. *)
LEMMA StopPreserves ==
    ASSUME IInv, Settled, stage \notin AfterRefusal \cup {"done"},
           NEW error, error # "PUBLISHED", Stop(error)
    PROVE  IInv'
  <1>1. stage' = "done" /\ outcome' = error
    BY DEF Stop
  <1>2. TypeOK' /\ Extracted' /\ Asked'
    BY <1>1, SettledKeeps DEF Stages
  <1>3. Len(calls) = position /\ ReplayAccounted'
    BY Carried DEF IInv, Progress, ReplayAccounted
  <1>4. Progress'
    BY <1>1, Carried DEF IInv, Progress, BothExtracted, Proposed, FromReferences
  <1>5. Docketed'
    BY <1>1, Carried DEF IInv, Docketed, BeforeDocket
  <1>6. Gated' /\ Interpreted'
    BY <1>1, Carried
       DEF IInv, Gated, Interpreted, Proposed, FromReferences, ControlsDiscriminate, AfterRefusal
  <1> QED BY <1>1, <1>2, <1>3, <1>4, <1>5, <1>6 DEF IInv

(* A gate is passed: what it has established is all that is new. *)
LEMMA GatePreserves ==
    ASSUME IInv, Settled, NEW next \in Stages, HandOn(next),
           \/ stage = "source" /\ next = "load"
           \/ stage = "load" /\ next = "extract"
           \/ stage = "literal" /\ next = "docket" /\ AllLiteral
           \/ stage = "slots" /\ next = "quotes" /\ AllSlots
           \/ stage = "quotes" /\ next = "references" /\ AllQuotes
           \/ /\ stage = "references" /\ next = "missing"
              /\ proposal.references = <<ExpectedReference>>
           \/ stage = "refuse" /\ next = "malformed"
           \/ stage = "malformed" /\ next = "count"
    PROVE  IInv'
  <1>1. stage' = next /\ outcome' = outcome
    BY DEF HandOn
  <1>2. TypeOK' /\ Extracted' /\ Asked'
    BY <1>1, SettledKeeps
  <1>3. ReplayAccounted'
    BY <1>1, Carried DEF IInv, ReplayAccounted
  <1>4. Progress'
    BY <1>1, Carried DEF IInv, Progress, BothExtracted, Proposed, FromReferences
  <1>5. Docketed'
    BY <1>1, Carried DEF IInv, Docketed, BeforeDocket
  <1>6. Gated'
    BY <1>1, Carried
       DEF IInv, Gated, Proposed, FromReferences, ControlsDiscriminate, AfterRefusal
  <1>7. Interpreted'
    BY <1>1, Carried DEF IInv, Interpreted, Proposed, FromReferences
  <1>8. outcome # "PUBLISHED"
    BY DEF IInv, Progress
  <1> QED BY <1>1, <1>2, <1>3, <1>4, <1>5, <1>6, <1>7, <1>8 DEF IInv

LEMMA CheckSourcePreserves == IInv /\ CheckSource => IInv'
  BY StopPreserves, GatePreserves DEF CheckSource, Gate, Settled, Stages, AfterRefusal

LEMMA LoadFixturePreserves == IInv /\ LoadFixture => IInv'
  BY StopPreserves, GatePreserves DEF LoadFixture, Gate, Settled, Stages, AfterRefusal

LEMMA RequireLiteralSpansPreserves == IInv /\ RequireLiteralSpans => IInv'
  BY StopPreserves, GatePreserves DEF RequireLiteralSpans, Gate, Settled, Stages, AfterRefusal,
     AllLiteral

LEMMA RequireAllSlotsPreserves == IInv /\ RequireAllSlots => IInv'
  BY StopPreserves, GatePreserves DEF RequireAllSlots, Gate, Settled, Stages, AfterRefusal, AllSlots

LEMMA RequireGroundedQuotesPreserves == IInv /\ RequireGroundedQuotes => IInv'
  <1> SUFFICES ASSUME IInv, RequireGroundedQuotes PROVE IInv'
    OBVIOUS
  <1>1. stage = "quotes" /\ Settled
    BY DEF RequireGroundedQuotes, Settled
  <1>2. CASE \E error \in {"TypeError", "ValueError"} : Stop(error)
    BY <1>1, <1>2, StopPreserves DEF AfterRefusal
  <1>3. CASE AllQuotes /\ HandOn("references")
    BY <1>1, <1>3, GatePreserves DEF Stages
  <1> QED BY <1>2, <1>3 DEF RequireGroundedQuotes, AllQuotes

LEMMA RequireOpenReferencePreserves == IInv /\ RequireOpenReference => IInv'
  BY StopPreserves, GatePreserves DEF RequireOpenReference, Gate, Settled, Stages, AfterRefusal

(* An interpretation on the refused receipt is refused at the input.       *)
LEMMA RefusalRefuses ==
    ASSUME IInv, RefuseInterpretation
    PROVE  HandOn("malformed") /\ UNCHANGED <<position, calls>>
  <1>1. refused = "MISSING_AUTHORITY_EVIDENCE"
    BY DEF RefuseInterpretation, IInv, Gated, AfterRefusal
  <1>2. ~Admits(binding_for(refused))
    BY <1>1 DEF Admits, binding_for
  <1> QED BY <1>2 DEF RefuseInterpretation, RefusedAtInput, FailedAtProvider, Proposes

LEMMA RefuseInterpretationPreserves == IInv /\ RefuseInterpretation => IInv'
  <1> SUFFICES ASSUME IInv, RefuseInterpretation PROVE IInv'
    OBVIOUS
  <1>1. stage = "refuse" /\ Settled /\ HandOn("malformed")
    BY RefusalRefuses DEF RefuseInterpretation, Settled
  <1> QED BY <1>1, GatePreserves DEF Stages

(* The authority at the controls is the admitted one. *)
LEMMA ControlledIsAdmitted ==
    ASSUME IInv, stage \in FromReferences
    PROVE  authority \in Document /\ Boundary!DecidedBy(authority, "admitted")
  BY SuppliedIsDocument DEF IInv, Gated, Proposed, AdmittedCandidate

(* The authority without a digest is refused by the input boundary.        *)
LEMMA MalformedIsRefused ==
    ASSUME IInv, MalformedAuthority
    PROVE  HandOn("count")
  <1>1. stage = "malformed"
    BY DEF MalformedAuthority
  <1>2. Boundary!DecidedBy(WithoutADigest(authority), "schema") /\ "schema" \in Check
    BY <1>1, ControlledIsAdmitted, SchemaDecides, Checks DEF FromReferences
  <1>3. Verdict["schema"] \notin EvaluatorFault \cup AdmissionState
    BY DEF Verdict, EvaluatorFault, AdmissionState
  <1>4. \A c \in Check : Boundary!DecidedBy(WithoutADigest(authority), c) => c = "schema"
    BY <1>2, DecisionUnique
  <1> QED BY <1>3, <1>4 DEF MalformedAuthority

LEMMA MalformedAuthorityPreserves == IInv /\ MalformedAuthority => IInv'
  BY GatePreserves, MalformedIsRefused DEF MalformedAuthority, Settled, Stages

LEMMA PublishPreserves == IInv /\ Publish => IInv'
  <1> SUFFICES ASSUME IInv, Publish PROVE IInv'
    OBVIOUS
  <1>1. stage = "count" /\ Settled /\ position = 3
    BY DEF IInv, Publish, Settled, Progress, Proposed, FromReferences
  <1>2. stage' = "done" /\ outcome' = "PUBLISHED"
    BY <1>1 DEF Publish, Stop
  <1>3. TypeOK' /\ Extracted' /\ Asked' /\ (Complete => Complete')
    BY <1>1, <1>2, SettledKeeps DEF Stages
  <1>4. Complete
    BY <1>1
       DEF IInv, Complete, Progress, Gated, Interpreted, Proposed, FromReferences, AfterRefusal
  <1>5. ReplayAccounted'
    BY <1>1, Carried DEF IInv, Progress, ReplayAccounted
  <1>6. Progress'
    BY <1>1, <1>2, Carried DEF IInv, Progress, BothExtracted, Proposed, FromReferences
  <1>7. Docketed'
    BY <1>1, <1>2, Carried DEF IInv, Docketed, BeforeDocket
  <1>8. Gated' /\ Interpreted'
    BY <1>1, <1>2, Carried
       DEF IInv, Gated, Interpreted, Proposed, FromReferences, ControlsDiscriminate, AfterRefusal
  <1> QED BY <1>3, <1>4, <1>5, <1>6, <1>7, <1>8 DEF IInv

-----------------------------------------------------------------------------
(* Steps that record a result.                                             *)

(* A request that is appended is typed if it asks for a span. *)
LEMMA AskedTypes ==
    ASSUME TypeOK, NEW request \in Request, Ask(request)
    PROVE  /\ calls' \in Seq(Request) /\ Len(calls') = Len(calls) + 1
           /\ DOMAIN calls' = 1..(Len(calls) + 1) /\ DOMAIN calls = 1..Len(calls)
           /\ \A i \in DOMAIN calls : calls'[i] = calls[i]
           /\ calls'[Len(calls) + 1] = request
  <1>1. calls \in Seq(Request) /\ calls' = Append(calls, request)
    BY DEF TypeOK, Ask
  <1> QED BY <1>1

LEMMA RequestTypes ==
    /\ ExtractionRequest \in Request
    /\ \A span \in Spans : InterpretationRequest(span) \in Request
  BY DEF ExtractionRequest, InterpretationRequest, Request

(* Position and calls after a request that found its exchange. *)
LEMMA AnsweredCounts ==
    ASSUME TypeOK, ReplayAccounted, Len(calls) = position, NEW request \in Request,
           Answered(request), UNCHANGED fixture
    PROVE  /\ position' = position + 1 /\ position' \in 0..Len(fixture.exchanges)
           /\ Len(calls') = position' /\ calls' \in Seq(Request)
           /\ next_exchange = fixture.exchanges[position'] /\ next_exchange.content \in Content
           /\ ReplayAccounted'
  <1>1. position \in Nat /\ Len(fixture.exchanges) \in Nat
    BY ExchangeTypes DEF TypeOK
  <1>2. position' = position + 1 /\ position < Len(fixture.exchanges)
    BY <1>1 DEF Answered, Exhausted
  <1>3. /\ calls' \in Seq(Request) /\ Len(calls') = Len(calls) + 1
        /\ DOMAIN calls = 1..Len(calls)
        /\ \A i \in DOMAIN calls : calls'[i] = calls[i]
        /\ calls'[Len(calls) + 1] = request
    BY AskedTypes DEF Answered
  <1>4. position' \in 1..Len(fixture.exchanges) /\ next_exchange.content \in Content
    BY <1>1, <1>2, ExchangeTypes, SMTT(30) DEF next_exchange, TypeOK
  <1>5. request = fixture.exchanges[position'].request
    BY <1>2 DEF Answered, next_exchange
  <1>6. \A i \in 1..position' : calls'[i] = fixture.exchanges[i].request
    <2> SUFFICES ASSUME NEW i \in 1..position' PROVE calls'[i] = fixture.exchanges[i].request
      OBVIOUS
    <2>1. CASE i = position'
      BY <1>2, <1>3, <1>5, <2>1
    <2>2. CASE i # position'
      <3>1. i \in 1..position /\ i \in DOMAIN calls
        BY <1>1, <1>2, <1>3, <2>2
      <3> QED BY <1>3, <3>1 DEF ReplayAccounted
    <2> QED BY <2>1, <2>2
  <1> QED BY <1>1, <1>2, <1>3, <1>4, <1>6 DEF ReplayAccounted, next_exchange

(* Position and calls after a request that found none, which ends the script. *)
LEMMA UnansweredCounts ==
    ASSUME TypeOK, ReplayAccounted, Len(calls) = position, NEW request \in Request,
           Unanswered(request), UNCHANGED fixture
    PROVE  /\ position' = position /\ calls' \in Seq(Request) /\ Len(calls') = position + 1
           /\ stage' = "done" /\ outcome' = "ModelProviderError" /\ ReplayAccounted'
  <1>1. position \in Nat
    BY ExchangeTypes DEF TypeOK
  <1>2. position' = position /\ stage' = "done" /\ outcome' = "ModelProviderError"
    BY DEF Unanswered, Stop
  <1>3. /\ calls' \in Seq(Request) /\ Len(calls') = Len(calls) + 1
        /\ DOMAIN calls = 1..Len(calls)
        /\ \A i \in DOMAIN calls : calls'[i] = calls[i]
    BY AskedTypes DEF Unanswered
  <1> QED BY <1>1, <1>2, <1>3 DEF ReplayAccounted

(* One more extraction. *)
LEMMA ExtractPreserves == IInv /\ Extract => IInv'
  <1> SUFFICES ASSUME IInv, Extract PROVE IInv'
    OBVIOUS
  <1>1. /\ stage = "extract" /\ position \in {0, 1} /\ Len(extractions) = position
        /\ Len(calls) = position /\ TypeOK /\ ReplayAccounted /\ outcome = "RUNNING"
    BY DEF IInv, Extract, Progress
  <1>2. ExtractionRequest \in Request /\ UNCHANGED <<inputs, results>>
    BY RequestTypes DEF Extract
  <1>3. /\ fixture' = fixture /\ template' = template /\ docket' = docket
        /\ authority' = authority /\ receipt' = receipt /\ proposal' = proposal
        /\ refused' = refused
    BY <1>2 DEF inputs, results
  <1>4. docket = Nothing /\ refused = Nothing
    BY <1>1 DEF IInv, Docketed, BeforeDocket, Gated, AfterRefusal
  <1>5. ASSUME Ask(ExtractionRequest) PROVE Asked'
    <2>1. /\ DOMAIN calls' = 1..(position + 1) /\ DOMAIN calls = 1..position
          /\ \A i \in DOMAIN calls : calls'[i] = calls[i]
          /\ calls'[position + 1] = ExtractionRequest
      BY <1>1, <1>2, <1>5, AskedTypes
    <2>2. \A i \in DOMAIN calls' : i \in {1, 2} /\ calls'[i] = ExtractionRequest
      BY <1>1, <2>1 DEF IInv, Asked
    <2> QED BY <2>2 DEF Asked
  <1>6. CASE stage' = "done" /\ UNCHANGED extractions /\ outcome' # "PUBLISHED"
             /\ (Unanswered(ExtractionRequest) \/ Answered(ExtractionRequest))
    <2>1. /\ position' \in {position, position + 1} /\ position' \in 0..Len(fixture.exchanges)
          /\ calls' \in Seq(Request) /\ ReplayAccounted'
      BY <1>1, <1>2, <1>3, <1>6, UnansweredCounts, AnsweredCounts DEF TypeOK
    <2>2. TypeOK'
      BY <1>1, <1>3, <1>6, <2>1 DEF TypeOK
    <2>3. Progress'
      BY <1>1, <1>6, <2>1 DEF Progress, BothExtracted, Proposed, FromReferences
    <2>4. Extracted'
      BY <1>3, <1>6 DEF IInv, Extracted
    <2>5. Docketed' /\ Gated' /\ Interpreted'
      BY <1>3, <1>4, <1>6 DEF IInv, Docketed, Gated, Interpreted, Proposed, FromReferences,
                                   AfterRefusal, ControlsDiscriminate
    <2>6. Asked'
      BY <1>5, <1>6 DEF Unanswered, Answered
    <2> QED BY <1>6, <2>1, <2>2, <2>3, <2>4, <2>5, <2>6 DEF IInv
  <1>7. CASE /\ Answered(ExtractionRequest) /\ ExtractionAccepted(next_exchange.content)
             /\ extractions' = Append(extractions, next_exchange.content.candidates)
             /\ HandOn(IF Len(extractions) = 0 THEN "extract" ELSE "literal")
    <2> DEFINE found == next_exchange.content
    <2>1. /\ position' = position + 1 /\ position' \in 0..Len(fixture.exchanges)
          /\ Len(calls') = position' /\ calls' \in Seq(Request)
          /\ found = fixture.exchanges[position'].content /\ found \in Content /\ ReplayAccounted'
      BY <1>1, <1>2, <1>3, <1>7, AnsweredCounts
    <2>2. found.candidates \in Seq(Candidate) /\ extractions \in Seq(Seq(Candidate))
      BY <1>1, <1>7, <2>1, AcceptedListing DEF TypeOK
    <2>3. /\ extractions' \in Seq(Seq(Candidate)) /\ Len(extractions') = position'
          /\ DOMAIN extractions' = 1..position' /\ DOMAIN extractions = 1..position
          /\ extractions'[position'] = found.candidates
          /\ \A i \in DOMAIN extractions : extractions'[i] = extractions[i]
      BY <1>1, <1>7, <2>1, <2>2
    <2>4. /\ outcome' = outcome
          /\ stage' = IF position = 0 THEN "extract" ELSE "literal"
      BY <1>1, <1>7 DEF HandOn
    <2>5. TypeOK'
      BY <1>1, <1>3, <2>1, <2>3, <2>4 DEF TypeOK
    <2>6. Progress'
      BY <1>1, <2>1, <2>3, <2>4 DEF Progress, BothExtracted, Proposed, FromReferences
    <2>7. Extracted'
      <3> SUFFICES ASSUME NEW i \in 1..position'
                   PROVE  /\ ExtractionAccepted(fixture.exchanges[i].content)
                          /\ extractions'[i] = fixture.exchanges[i].content.candidates
        BY <1>3, <2>3 DEF Extracted
      <3>1. CASE i = position'
        BY <1>7, <2>1, <2>3, <3>1
      <3>2. CASE i # position'
        <4>1. i \in DOMAIN extractions
          BY <1>1, <2>1, <2>3, <3>2
        <4> QED BY <2>3, <4>1 DEF IInv, Extracted
      <3> QED BY <3>1, <3>2
    <2>8. Docketed' /\ Gated' /\ Interpreted'
      BY <1>3, <1>4, <2>4 DEF IInv, Docketed, Gated, Interpreted, Proposed, FromReferences,
                                   AfterRefusal, ControlsDiscriminate
    <2>9. Asked'
      BY <1>5, <1>7 DEF Answered
    <2> QED BY <1>1, <2>1, <2>4, <2>5, <2>6, <2>7, <2>8, <2>9 DEF IInv
  <1>8. CASE Unanswered(ExtractionRequest) /\ UNCHANGED extractions
    BY <1>6, <1>8 DEF Unanswered, Stop
  <1>9. CASE /\ Answered(ExtractionRequest) /\ UNCHANGED extractions
             /\ \E error \in {"CandidateBoundaryError", "CandidateGroundingError"} : Stop(error)
    BY <1>6, <1>9 DEF Stop
  <1> QED BY <1>7, <1>8, <1>9 DEF Extract

(* Two requests so far, and both were for extractions. *)
LEMMA AskedTwice ==
    ASSUME IInv, stage \in BothExtracted, UNCHANGED calls
    PROVE  Asked'
  <1>1. calls \in Seq(Request) /\ Len(calls) = 2
    BY DEF IInv, TypeOK, Progress, BothExtracted
  <1>2. DOMAIN calls = {1, 2}
    BY <1>1
  <1> QED BY <1>2 DEF IInv, Asked

LEMMA BuildReviewDocketPreserves == IInv /\ BuildReviewDocket => IInv'
  <1> SUFFICES ASSUME IInv, BuildReviewDocket PROVE IInv'
    OBVIOUS
  <1>1. /\ stage = "docket" /\ fixture' = fixture /\ template' = template
        /\ position' = position /\ calls' = calls /\ extractions' = extractions
        /\ authority' = authority /\ receipt' = receipt /\ proposal' = proposal
        /\ refused' = refused /\ docket' = Docket(extractions)
    BY DEF BuildReviewDocket, inputs
  <1>2. \/ stage' = "done" /\ outcome' = "ValueError"
        \/ stage' = "admit" /\ outcome' = "RUNNING"
    BY <1>1 DEF BuildReviewDocket, Stop, HandOn, IInv, Progress
  <1>3. TypeOK' /\ Extracted'
    BY <1>1, <1>2 DEF IInv, TypeOK, Extracted
  <1>4. Asked'
    BY <1>1, AskedTwice DEF BothExtracted
  <1>5. ReplayAccounted'
    BY <1>1 DEF IInv, ReplayAccounted, Progress
  <1>6. Progress'
    BY <1>1, <1>2 DEF IInv, Progress, BothExtracted, Proposed, FromReferences
  <1>7. Docketed'
    BY <1>1, <1>2 DEF Docketed, BeforeDocket
  <1>8. AllLiteral /\ AllLiteral' = AllLiteral
    BY <1>1 DEF IInv, Gated, AllLiteral
  <1>9. Gated' /\ Interpreted'
    BY <1>1, <1>2, <1>8
       DEF IInv, Gated, Interpreted, Proposed, FromReferences, AfterRefusal, ControlsDiscriminate
  <1> QED BY <1>2, <1>3, <1>4, <1>5, <1>6, <1>7, <1>9 DEF IInv

LEMMA EvaluateAdmissionPreserves == IInv /\ EvaluateAdmission => IInv'
  <1> SUFFICES ASSUME IInv, EvaluateAdmission PROVE IInv'
    OBVIOUS
  <1>1. /\ stage = "admit" /\ fixture' = fixture /\ template' = template
        /\ position' = position /\ calls' = calls /\ extractions' = extractions
        /\ docket' = docket /\ proposal' = proposal /\ refused' = refused
    BY DEF EvaluateAdmission, inputs
  <1>2. AllLiteral /\ AllLiteral' = AllLiteral /\ Len(extractions) = 2 /\ refused = Nothing
    BY <1>1 DEF IInv, Gated, AllLiteral, Progress, BothExtracted, AfterRefusal
  <1>3. /\ authority' \in Document \cup {Nothing} /\ receipt' \in Outcome \cup {Nothing}
        /\ \/ stage' = "done" /\ outcome' # "PUBLISHED"
           \/ stage' = "propose" /\ outcome' = "RUNNING" /\ AdmittedCandidate'
    <2>1. CASE extractions[1] = <<>>
      BY <1>1, <2>1 DEF EvaluateAdmission, Stop, IInv, TypeOK
    <2>2. CASE extractions[1] # <<>>
      <3>1. PICK c \in Check : /\ Boundary!DecidedBy(authority', c) /\ receipt' = Verdict[c]
                               /\ RequireAdmitted(c) /\ authority' = SuppliedAuthority(template)
        BY <2>2 DEF EvaluateAdmission
      <3>2. authority' \in Document /\ receipt' \in Outcome /\ outcome = "RUNNING"
        <4>1. template \in Templates
          BY DEF IInv, Gated
        <4> QED BY <1>1, <3>1, <4>1, SuppliedIsDocument, Checks DEF IInv, Progress
      <3>3. CASE c = "admitted" /\ HandOn("propose")
        <4>1. Boundary!DecidedBy(authority', "admitted") /\ receipt' = "ADMITTED"
          BY <3>1, <3>3 DEF Verdict
        <4>2. AdmittedCandidate'
          BY <1>1, <1>2, <2>2, <3>1, <4>1 DEF AdmittedCandidate
        <4> QED BY <3>2, <3>3, <4>2 DEF HandOn
      <3>4. CASE \/ Verdict[c] \notin AdmissionState /\ Stop(Verdict[c])
                 \/ Stop("ValueError")
        BY <3>1, <3>2, <3>4, Checks
           DEF Stop, Outcome, AdmissionState, InputBoundaryError, EvaluatorFault
      <3> QED BY <3>1, <3>3, <3>4 DEF RequireAdmitted
    <2> QED BY <2>1, <2>2
  <1>4. TypeOK' /\ Extracted'
    BY <1>1, <1>3 DEF IInv, TypeOK, Extracted
  <1>5. Asked'
    BY <1>1, AskedTwice DEF BothExtracted
  <1>6. ReplayAccounted'
    BY <1>1 DEF IInv, ReplayAccounted, Progress
  <1>7. Progress'
    BY <1>1, <1>3 DEF IInv, Progress, BothExtracted, Proposed, FromReferences
  <1>8. Docketed'
    BY <1>1, <1>3 DEF IInv, Docketed, BeforeDocket
  <1>9. Gated' /\ Interpreted'
    BY <1>1, <1>2, <1>3
       DEF IInv, Gated, Interpreted, Proposed, FromReferences, AfterRefusal, ControlsDiscriminate
  <1> QED BY <1>3, <1>4, <1>5, <1>6, <1>7, <1>8, <1>9 DEF IInv

(* The one request for an interpretation. *)
LEMMA ProposeInterpretationPreserves == IInv /\ ProposeInterpretation => IInv'
  <1> SUFFICES ASSUME IInv, ProposeInterpretation PROVE IInv'
    OBVIOUS
  <1> DEFINE request == InterpretationRequest(candidate.candidate_span)
  <1>1. /\ stage = "propose" /\ fixture' = fixture /\ template' = template
        /\ extractions' = extractions /\ authority' = authority /\ receipt' = receipt
        /\ docket' = docket /\ refused' = refused
    BY DEF ProposeInterpretation, inputs
  <1>2. /\ position = 2 /\ Len(extractions) = 2 /\ Len(calls) = 2 /\ TypeOK
        /\ ReplayAccounted /\ outcome = "RUNNING" /\ AdmittedCandidate /\ refused = Nothing
    BY <1>1 DEF IInv, Progress, BothExtracted, Gated, AfterRefusal
  <1>3. request \in Request
    <2>1. extractions \in Seq(Seq(Candidate)) /\ extractions[1] # <<>>
      BY <1>2 DEF TypeOK, AdmittedCandidate
    <2>2. extractions[1] \in Seq(Candidate)
      BY <1>2, <2>1
    <2>3. candidate \in Candidate
      BY <2>1, <2>2 DEF candidate
    <2>4. candidate.candidate_span \in Spans
      BY <2>3 DEF Candidate
    <2> QED BY <2>4, RequestTypes
  <1>4. candidate' = candidate /\ binding_for(receipt)' = binding_for(receipt)
    BY <1>1 DEF candidate, binding_for
  <1>5. AdmittedCandidate'
    BY <1>1, <1>2 DEF AdmittedCandidate, AllLiteral
  <1>6. ASSUME Ask(request) PROVE Asked'
    <2>1. /\ DOMAIN calls' = 1..3 /\ DOMAIN calls = 1..2
          /\ \A i \in DOMAIN calls : calls'[i] = calls[i] /\ calls'[3] = request
      BY <1>2, <1>3, <1>6, AskedTypes
    <2>2. /\ \A i \in DOMAIN calls' : i \in {1, 2} => calls'[i] = ExtractionRequest
          /\ \A i \in DOMAIN calls' : i \notin {1, 2} => i = 3 /\ calls'[i] = request
      BY <2>1 DEF IInv, Asked
    <2> QED BY <1>4, <1>5, <2>2 DEF Asked
  <1>7. CASE /\ stage' = "done" /\ outcome' # "PUBLISHED" /\ UNCHANGED proposal
             /\ Unanswered(request) \/ Answered(request)
    <2>1. /\ position' \in {2, 3} /\ position' \in 0..Len(fixture.exchanges)
          /\ calls' \in Seq(Request) /\ ReplayAccounted'
      BY <1>1, <1>2, <1>3, <1>7, UnansweredCounts, AnsweredCounts DEF TypeOK
    <2>2. TypeOK'
      BY <1>1, <1>2, <1>7, <2>1 DEF TypeOK
    <2>3. Progress'
      BY <1>1, <1>2, <1>7, <2>1 DEF Progress, BothExtracted, Proposed, FromReferences
    <2>4. Extracted' /\ Docketed'
      BY <1>1, <1>7 DEF IInv, Extracted, Docketed, BeforeDocket
    <2>5. Gated' /\ Interpreted'
      BY <1>1, <1>2, <1>7
         DEF IInv, Gated, Interpreted, Proposed, FromReferences, AfterRefusal, ControlsDiscriminate
    <2>6. Asked'
      BY <1>6, <1>7 DEF Unanswered, Answered
    <2> QED BY <1>7, <2>1, <2>2, <2>3, <2>4, <2>5, <2>6 DEF IInv
  <1>8. CASE /\ Answered(request) /\ ProposalAccepted(next_exchange.content)
             /\ proposal' = Envelope(binding_for(receipt), next_exchange.content)
             /\ HandOn("slots")
    <2>1. /\ position' = 3 /\ position' \in 0..Len(fixture.exchanges)
          /\ Len(calls') = 3 /\ calls' \in Seq(Request)
          /\ next_exchange = fixture.exchanges[3] /\ ReplayAccounted'
      <3>1. /\ position' = position + 1 /\ position' \in 0..Len(fixture.exchanges)
            /\ Len(calls') = position' /\ calls' \in Seq(Request)
            /\ next_exchange = fixture.exchanges[position'] /\ ReplayAccounted'
        BY <1>1, <1>2, <1>3, <1>8, AnsweredCounts
      <3>2. position' = 3
        BY <1>2, <3>1
      <3> QED BY <3>1, <3>2
    <2>2. stage' = "slots" /\ outcome' = "RUNNING"
      BY <1>2, <1>8 DEF HandOn
    <2>3. TypeOK'
      BY <1>1, <1>2, <2>1, <2>2 DEF TypeOK
    <2>4. Progress'
      BY <1>1, <1>2, <2>1, <2>2 DEF Progress, BothExtracted, Proposed, FromReferences
    <2>5. Extracted' /\ Docketed'
      BY <1>1, <2>2 DEF IInv, Extracted, Docketed, BeforeDocket
    <2>6. Gated'
      BY <1>1, <1>2, <1>5, <2>2
         DEF IInv, Gated, Proposed, FromReferences, AfterRefusal, ControlsDiscriminate
    <2>7. Interpreted'
      BY <1>1, <1>4, <1>8, <2>1, <2>2 DEF Interpreted, Proposed, FromReferences
    <2>8. Asked'
      BY <1>6, <1>8 DEF Answered
    <2> QED BY <2>1, <2>2, <2>3, <2>4, <2>5, <2>6, <2>7, <2>8 DEF IInv
  <1>9. CASE Unanswered(request) /\ UNCHANGED proposal
    BY <1>7, <1>9 DEF Unanswered, Stop
  <1>10. CASE Answered(request) /\ UNCHANGED proposal /\ Stop("ProposalBoundaryError")
    BY <1>7, <1>10 DEF Stop
  <1>11. RequestFor(binding_for(receipt)) = request /\ Admits(binding_for(receipt))
    BY <1>2 DEF RequestFor, Admits, binding_for, AdmittedCandidate
  <1>12. CASE FailedAtProvider(binding_for(receipt)) /\ UNCHANGED proposal
    BY <1>9, <1>10, <1>11, <1>12 DEF FailedAtProvider
  <1>13. CASE /\ Proposes(binding_for(receipt)) /\ HandOn("slots")
              /\ proposal' = Envelope(binding_for(receipt), next_exchange.content)
    BY <1>8, <1>11, <1>13 DEF Proposes
  <1> QED BY <1>11, <1>12, <1>13 DEF ProposeInterpretation, RefusedAtInput

(* The authority without its evidence is refused for want of it.           *)
LEMMA MissingIsRefused ==
    ASSUME IInv, MissingAuthority
    PROVE  HandOn("refuse") /\ refused' = "MISSING_AUTHORITY_EVIDENCE"
  <1>1. authority \in Document /\ Boundary!DecidedBy(authority, "admitted")
    BY ControlledIsAdmitted DEF MissingAuthority, FromReferences
  <1>2. \A c \in Check : Boundary!DecidedBy(WithoutItsEvidence(authority), c) =>
                             Verdict[c] = "MISSING_AUTHORITY_EVIDENCE"
    BY <1>1, WithoutEvidence
  <1> QED BY <1>2 DEF MissingAuthority, AdmissionState

LEMMA MissingAuthorityPreserves == IInv /\ MissingAuthority => IInv'
  <1> SUFFICES ASSUME IInv, MissingAuthority PROVE IInv'
    OBVIOUS
  <1>1. /\ stage = "missing" /\ fixture' = fixture /\ template' = template
        /\ position' = position /\ calls' = calls /\ extractions' = extractions
        /\ docket' = docket /\ authority' = authority /\ receipt' = receipt
        /\ proposal' = proposal /\ stage' = "refuse" /\ outcome' = outcome
    BY MissingIsRefused DEF MissingAuthority, inputs, HandOn
  <1>2. position = 3 /\ Len(calls) = 3 /\ outcome = "RUNNING" /\ AdmittedCandidate
    BY <1>1 DEF IInv, Progress, Gated, Proposed, FromReferences
  <1>3. refused' = "MISSING_AUTHORITY_EVIDENCE"
    BY MissingIsRefused
  <1>4. candidate' = candidate /\ binding_for(receipt)' = binding_for(receipt)
    BY <1>1 DEF candidate, binding_for
  <1>5. AdmittedCandidate' /\ AllSlots' = AllSlots /\ AllQuotes' = AllQuotes
    BY <1>1, <1>2, <1>4 DEF AdmittedCandidate, AllLiteral, AllSlots, AllQuotes, QuoteFound
  <1>6. TypeOK' /\ Extracted' /\ Docketed'
    BY <1>1, <1>3 DEF IInv, TypeOK, Extracted, Docketed, BeforeDocket, Outcome, AdmissionState
  <1>7. Asked'
    BY <1>1, <1>4, <1>5 DEF IInv, Asked
  <1>8. ReplayAccounted'
    BY <1>1 DEF IInv, ReplayAccounted
  <1>9. Progress'
    BY <1>1, <1>2 DEF IInv, Progress, BothExtracted, Proposed, FromReferences
  <1>10. Gated'
    BY <1>1, <1>2, <1>3, <1>5
       DEF IInv, Gated, Proposed, FromReferences, AfterRefusal, ControlsDiscriminate
  <1>11. Interpreted'
    BY <1>1, <1>4, <1>5 DEF IInv, Interpreted, Proposed, FromReferences
  <1> QED BY <1>1, <1>2, <1>6, <1>7, <1>8, <1>9, <1>10, <1>11 DEF IInv

-----------------------------------------------------------------------------
(* The theorems.                                                           *)

LEMMA Initially == Init => IInv
  <1> SUFFICES ASSUME Init PROVE IInv
    OBVIOUS
  <1>1. fixture \in Fixture /\ template \in Document /\ template \in Templates
    BY FixturesAssumption, TemplatesAssumption DEF Init
  <1>2. /\ stage = "source" /\ position = 0 /\ calls = <<>> /\ extractions = <<>>
        /\ docket = Nothing /\ authority = Nothing /\ receipt = Nothing /\ refused = Nothing
        /\ outcome = "RUNNING"
    BY DEF Init
  <1>3. Len(fixture.exchanges) \in Nat
    BY <1>1, ExchangeTypes
  <1>4. TypeOK
    BY <1>1, <1>2, <1>3 DEF TypeOK
  <1>5. ReplayAccounted /\ Extracted /\ Asked
    BY <1>2 DEF ReplayAccounted, Extracted, Asked
  <1>6. Progress /\ Docketed /\ Gated /\ Interpreted
    BY <1>1, <1>2 DEF Progress, Docketed, Gated, Interpreted, BothExtracted, Proposed,
                      FromReferences, AfterRefusal, ControlsDiscriminate
  <1> QED BY <1>2, <1>4, <1>5, <1>6 DEF IInv

LEMMA StepPreserves == IInv /\ [Next]_vars => IInv'
  <1> SUFFICES ASSUME IInv, [Next]_vars PROVE IInv'
    OBVIOUS
  <1>1. CASE UNCHANGED vars
    <2>1. Settled /\ stage' = stage /\ outcome' = outcome
      BY <1>1 DEF vars, Settled
    <2>2. TypeOK' /\ Extracted' /\ Asked' /\ (Complete => Complete')
      BY <2>1, SettledKeeps DEF IInv, TypeOK, Stages
    <2>3. ReplayAccounted' /\ Progress' /\ Docketed' /\ Gated' /\ Interpreted'
      BY <2>1, Carried DEF IInv, ReplayAccounted, Progress, Docketed, Gated, Interpreted,
                               ControlsDiscriminate
    <2> QED BY <2>1, <2>2, <2>3 DEF IInv
  <1>2. CASE Next
    BY <1>2, CheckSourcePreserves, LoadFixturePreserves, ExtractPreserves,
       RequireLiteralSpansPreserves, BuildReviewDocketPreserves, EvaluateAdmissionPreserves,
       ProposeInterpretationPreserves, RequireAllSlotsPreserves,
       RequireGroundedQuotesPreserves, RequireOpenReferencePreserves,
       MissingAuthorityPreserves, RefuseInterpretationPreserves,
       MalformedAuthorityPreserves, PublishPreserves
       DEF Next
  <1> QED BY <1>1, <1>2

(* The state of the path is well formed, and everything IInv says of it. *)
THEOREM PathInvariance == Spec => []IInv
  BY Initially, StepPreserves, PTL DEF Spec

(* Requests, results and position have their types, whatever the provider *)
(* answers.                                                                *)
THEOREM PathTypes == Spec => []TypeOK
  <1>1. IInv => TypeOK
    BY DEF IInv
  <1> QED BY PathInvariance, <1>1, PTL

(* The provider's own count is that of the requests it answered, in order, *)
(* and nothing is asked after a request that was not answered.             *)
THEOREM EveryCallAccounted == Spec => []ReplayAccounted
  <1>1. IInv => ReplayAccounted
    BY DEF IInv
  <1> QED BY PathInvariance, <1>1, PTL

(* The provider is asked to interpret once at most, and only a candidate   *)
(* that the supplied authority admits, by evidence that is in force: of    *)
(* the two bindings the script makes, the seam lets one through.           *)
THEOREM OnlyAdmittedInterpreted == Spec => []InterpretationAuthorized
  <1>1. IInv => InterpretationAuthorized
    <2> SUFFICES ASSUME IInv, NEW i \in DOMAIN calls, calls[i].stage = "interpret"
                 PROVE  /\ \A j \in DOMAIN calls : calls[j].stage = "interpret" => j = i
                        /\ receipt = "ADMITTED"
                        /\ calls[i].span = candidate.candidate_span
                        /\ candidate.candidate_span \in LiteralSpans
                        /\ authority.source_registration.source_digest = SourceDigest
                        /\ \E e \in Boundary!ForInstance(authority) : Boundary!InForce(e, authority)
      BY DEF InterpretationAuthorized
    <2>1. calls[i] # ExtractionRequest
      BY DEF ExtractionRequest
    <2>2. AdmittedCandidate /\ calls[i] = InterpretationRequest(candidate.candidate_span)
      BY <2>1 DEF IInv, Asked
    <2>6. \A j \in DOMAIN calls : calls[j].stage = "interpret" => j = i
      <3>1. ExtractionRequest.stage # "interpret"
        BY DEF ExtractionRequest
      <3>2. \A j \in DOMAIN calls : calls[j].stage = "interpret" => j = 3
        BY <3>1 DEF IInv, Asked
      <3> QED BY <3>2
    <2>3. calls[i].span = candidate.candidate_span
      BY <2>2 DEF InterpretationRequest
    <2>4. candidate.candidate_span \in LiteralSpans
      <3>1. extractions \in Seq(Seq(Candidate)) /\ Len(extractions) = 2 /\ extractions[1] # <<>>
        BY <2>2 DEF AdmittedCandidate, IInv, TypeOK
      <3>2. 1 \in DOMAIN extractions /\ extractions[1] \in Seq(Candidate)
        BY <3>1
      <3>3. candidate \in ToSet(extractions[1])
        BY <3>1, <3>2 DEF candidate, ToSet
      <3> QED BY <2>2, <3>2, <3>3 DEF AdmittedCandidate, AllLiteral
    <2>5. authority.source_registration.source_digest = SourceDigest
      BY <2>2, SuppliedIsDocument DEF AdmittedCandidate, IInv, Gated
    <2> QED BY <2>2, <2>3, <2>4, <2>5, <2>6, AdmittedHasEvidence DEF AdmittedCandidate
  <1> QED BY PathInvariance, <1>1, PTL

(* Taking the evidence from an admitted document is answered by the missing *)
(* authority and by nothing else, asking for an interpretation of it does  *)
(* not reach the provider, and a script that came so far publishes.        *)
THEOREM ControlsSayWhatTheyPlanted == Spec => []ControlsDiscriminate
  <1>1. IInv => ControlsDiscriminate
    BY DEF IInv, Gated
  <1> QED BY PathInvariance, <1>1, PTL

(* Occurrences in a sequence are counted from zero. *)
LEMMA OccurrencesCount ==
    ASSUME NEW S, NEW s \in Seq(S), NEW x
    PROVE  x \in ToSet(s) <=> Occurrences(x, s) # 0
  <1> DEFINE places == {i \in DOMAIN s : s[i] = x}
  <1>1. DOMAIN s = 1..Len(s) /\ Len(s) \in Nat
    OBVIOUS
  <1>2. IsFiniteSet(places)
    <2>1. IsFiniteSet(1..Len(s)) /\ places \subseteq 1..Len(s)
      BY <1>1, FS_Interval
    <2> HIDE DEF places
    <2> QED BY <2>1, FS_Subset
  <1>3. Cardinality(places) = 0 <=> places = {}
    BY <1>2, FS_EmptySet
  <1> QED BY <1>3 DEF Occurrences, ToSet

(* Two bags of candidate ids differ in how often some candidate occurs. *)
LEMMA BagsDiffer ==
    ASSUME NEW S, NEW s \in Seq(S), NEW t \in Seq(S)
    PROVE  CandidateIds(s) # CandidateIds(t) <=>
              \E x \in ToSet(s) \cup ToSet(t) : Occurrences(x, s) # Occurrences(x, t)
  <1>1. \A r : CandidateIds(r) = [x \in ToSet(r) |-> Occurrences(x, r)]
    BY DEF CandidateIds, ToBag, Range, ToSet, Occurrences
  <1>2. ASSUME CandidateIds(s) = CandidateIds(t), NEW x \in ToSet(s) \cup ToSet(t)
        PROVE  Occurrences(x, s) = Occurrences(x, t)
    <2>1. ToSet(s) = ToSet(t)
      BY <1>1, <1>2
    <2> QED BY <1>1, <1>2, <2>1
  <1>3. ASSUME \A x \in ToSet(s) \cup ToSet(t) : Occurrences(x, s) = Occurrences(x, t)
        PROVE  CandidateIds(s) = CandidateIds(t)
    <2>1. ToSet(s) = ToSet(t)
      BY <1>3, OccurrencesCount
    <2> QED BY <1>1, <1>3, <2>1
  <1> QED BY <1>2, <1>3

(* The docket compares what the extractions hold, with its repetitions,    *)
(* and loses no candidate, for any number of candidates.                   *)
THEOREM DocketIsFaithful == Spec => []DocketCompares
  <1>1. IInv => DocketCompares
    <2> SUFFICES ASSUME IInv, docket # Nothing PROVE DocketCompares
      BY DEF DocketCompares
    <2> DEFINE ids == docket.candidates_by_id
               sets == [i \in DOMAIN extractions |-> CandidateIds(extractions[i])]
               Differ(x, i, j) == Occurrences(x, extractions[i]) # Occurrences(x, extractions[j])
               Empty == \A i \in DOMAIN extractions : extractions[i] = <<>>
    <2>1. /\ docket = Docket(extractions)
          /\ extractions \in Seq(Seq(Candidate))
      BY DEF IInv, Docketed, TypeOK
    <2>2. \A i \in DOMAIN extractions : extractions[i] \in Seq(Candidate)
      BY <2>1
    <2>3. ids = UNION {ToSet(extractions[i]) : i \in DOMAIN extractions}
      BY <2>1 DEF Docket
    <2>4. docket.agreement_state =
            IF Empty THEN "NO_CANDIDATES"
            ELSE IF \A i, j \in DOMAIN sets : sets[i] = sets[j] THEN "IDENTICAL" ELSE "DIVERGENT"
      BY <2>1 DEF Docket
    <2>5. Empty <=> ids = {}
      <3>1. \A i \in DOMAIN extractions : extractions[i] = <<>> <=> ToSet(extractions[i]) = {}
        <4> SUFFICES ASSUME NEW i \in DOMAIN extractions
                     PROVE  extractions[i] = <<>> <=> ToSet(extractions[i]) = {}
          OBVIOUS
        <4>1. extractions[i] \in Seq(Candidate)
          BY <2>2
        <4>2. extractions[i] # <<>> => extractions[i][1] \in ToSet(extractions[i])
          BY <4>1 DEF ToSet
        <4> QED BY <4>1, <4>2 DEF ToSet
      <3> QED BY <2>3, <3>1
    <2>6. \A i, j \in DOMAIN extractions :
             sets[i] # sets[j] <=> \E x \in ids : Differ(x, i, j)
      <3> SUFFICES ASSUME NEW i \in DOMAIN extractions, NEW j \in DOMAIN extractions
                   PROVE  sets[i] # sets[j] <=> \E x \in ids : Differ(x, i, j)
        OBVIOUS
      <3>1. sets[i] # sets[j] <=>
              \E x \in ToSet(extractions[i]) \cup ToSet(extractions[j]) : Differ(x, i, j)
        BY <2>2, BagsDiffer
      <3>2. \A x : Differ(x, i, j) => x \in ToSet(extractions[i]) \cup ToSet(extractions[j])
        BY <2>2, OccurrencesCount
      <3>3. ToSet(extractions[i]) \cup ToSet(extractions[j]) \subseteq ids
        BY <2>3
      <3> QED BY <3>1, <3>2, <3>3
    <2>7. \A i \in DOMAIN extractions : ToSet(extractions[i]) \subseteq ids
      BY <2>3
    <2>8. docket.agreement_state = "NO_CANDIDATES" <=> ids = {}
      BY <2>4, <2>5
    <2>9. docket.agreement_state = "DIVERGENT" <=>
             \E x \in ids : \E i, j \in DOMAIN extractions : Differ(x, i, j)
      <3>1. DOMAIN sets = DOMAIN extractions
        OBVIOUS
      <3>2. CASE Empty
        BY <2>4, <2>5, <3>2
      <3>3. CASE ~Empty
        BY <2>4, <2>6, <3>1, <3>3
      <3> QED BY <3>2, <3>3
    <2> QED BY <2>7, <2>8, <2>9 DEF DocketCompares
  <1> QED BY PathInvariance, <1>1, PTL

(* What is published was produced by this run, from the exchanges the      *)
(* provider holds and under the authority that was supplied.               *)
THEOREM PublishedWasProduced == Spec => []PublishedIsAccounted
  <1>1. IInv => PublishedIsAccounted
    <2> SUFFICES ASSUME IInv, outcome = "PUBLISHED" PROVE PublishedIsAccounted
      BY DEF PublishedIsAccounted
    <2> DEFINE answer(i) == fixture.exchanges[i].content
    <2>1. Complete /\ AdmittedCandidate
      BY DEF IInv, Complete
    <2>2. extractions \in Seq(Seq(Candidate)) /\ Len(extractions) = 2 /\ DOMAIN extractions = {1, 2}
      BY <2>1 DEF IInv, TypeOK, Complete
    <2>3. extractions = <<answer(1).candidates, answer(2).candidates>>
      BY <2>2 DEF IInv, Extracted
    <2>4. \A i \in 1..2 : \A c \in ToSet(extractions[i]) :
             c \in Candidate /\ c.candidate_span \in LiteralSpans \ BlankSpans
      <3> SUFFICES ASSUME NEW i \in 1..2, NEW c \in ToSet(extractions[i])
                   PROVE  c \in Candidate /\ c.candidate_span \in LiteralSpans \ BlankSpans
        OBVIOUS
      <3>1. i \in DOMAIN extractions /\ i \in 1..Len(fixture.exchanges)
        BY <2>1, <2>2, ExchangeTypes DEF IInv, TypeOK, Complete
      <3>2. /\ answer(i) \in Content /\ ExtractionAccepted(answer(i))
            /\ extractions[i] = answer(i).candidates
        BY <3>1, ExchangeTypes DEF IInv, TypeOK, Extracted
      <3>3. c \in Candidate /\ Grounded(c)
        BY <3>2, AcceptedListing
      <3>4. c.candidate_span \in LiteralSpans
        BY <2>1, <3>1 DEF AdmittedCandidate, AllLiteral
      <3> QED BY <3>3, <3>4 DEF Grounded
    <2>5. calls = <<ExtractionRequest, ExtractionRequest,
                    InterpretationRequest(candidate.candidate_span)>>
      <3>1. calls \in Seq(Request) /\ Len(calls) = 3
        BY <2>1 DEF IInv, TypeOK, Complete
      <3>2. /\ calls[1] = ExtractionRequest /\ calls[2] = ExtractionRequest
            /\ calls[3] = InterpretationRequest(candidate.candidate_span)
        BY <3>1 DEF IInv, Asked
      <3> QED BY <3>1, <3>2
    <2>6. /\ proposal.binding = [candidate |-> extractions[1][1], admission_state |-> "ADMITTED"]
          /\ extractions[1] = answer(1).candidates
      BY <2>1, <2>2, <2>3 DEF Complete, AdmittedCandidate, Envelope, binding_for, candidate
    <2>7. proposal.assertions = answer(3).proposed_assertions
      <3>1. proposal.assertions # <<>>
        BY <2>1, SlotsAssumption DEF Complete, AllSlots, ToSet
      <3> QED BY <2>1, <3>1 DEF Complete, Envelope
    <2>8. ~answer(3).claims_authority
      BY <2>1 DEF Complete, ProposalAccepted
    <2>9. /\ \A x \in Slots : \E a \in ToSet(proposal.assertions) : a.slot = x
          /\ \A a \in ToSet(proposal.assertions) : QuoteFound(a)
          /\ proposal.references = <<ExpectedReference>>
      BY <2>1 DEF Complete, AllSlots, AllQuotes
    <2>10. refused \notin {Nothing, "ADMITTED"}
      BY <2>1, NothingAssumption DEF Complete, Outcome, AdmissionState
    <2> QED BY <2>3, <2>4, <2>5, <2>6, <2>7, <2>8, <2>9, <2>10 DEF PublishedIsAccounted
  <1> QED BY PathInvariance, <1>1, PTL
-----------------------------------------------------------------------------
(* What a run comes to is decided by its inputs.                           *)

(***************************************************************************)
(* What the controls of demonstrate do, each with the branch the script    *)
(* has for the other answer: evaluating the authority without its evidence *)
(* neither raises nor admits; propose_interpretation on that receipt is    *)
(* refused at the input, so "missing authority allowed interpretation" is  *)
(* not raised and no provider error either; and the authority without a    *)
(* digest raises an error of the input boundary, so that "malformed        *)
(* authority was accepted" is not raised.                                  *)
(***************************************************************************)
ControlsRefuse ==
    [][/\ stage = "missing" => stage' = "refuse" /\ refused' = "MISSING_AUTHORITY_EVIDENCE"
       /\ stage = "refuse" => stage' = "malformed" /\ UNCHANGED <<position, calls>>
       /\ stage = "malformed" => stage' = "count"]_vars

\* Each of the three documents the script has evaluated is decided.
AlwaysDecided ==
    \A d \in {SuppliedAuthority(template), WithoutItsEvidence(authority),
                WithoutADigest(authority)} :
        \E c \in Check : Boundary!DecidedBy(d, c)

(* No run stands still at its admission or at a control, and every control *)
(* of every run goes the way the script demands.                           *)
THEOREM ControlsAlwaysAnswer == Spec => []AlwaysDecided /\ ControlsRefuse
  <1>1. AlwaysDecided
    BY DecisionTotal DEF AlwaysDecided
  <1>2. IInv /\ [Next]_vars =>
          [/\ stage = "missing" => stage' = "refuse" /\ refused' = "MISSING_AUTHORITY_EVIDENCE"
           /\ stage = "refuse" => stage' = "malformed" /\ UNCHANGED <<position, calls>>
           /\ stage = "malformed" => stage' = "count"]_vars
    <2> SUFFICES ASSUME IInv, Next
                 PROVE  /\ stage = "missing" =>
                              stage' = "refuse" /\ refused' = "MISSING_AUTHORITY_EVIDENCE"
                        /\ stage = "refuse" =>
                              stage' = "malformed" /\ UNCHANGED <<position, calls>>
                        /\ stage = "malformed" => stage' = "count"
      OBVIOUS
    <2>1. stage = "missing" => MissingAuthority
      BY DEF Next, CheckSource, LoadFixture, Extract, RequireLiteralSpans, BuildReviewDocket,
             EvaluateAdmission, ProposeInterpretation, RequireAllSlots, RequireGroundedQuotes,
             RequireOpenReference, RefuseInterpretation, MalformedAuthority, Publish, Gate
    <2>2. stage = "refuse" => RefuseInterpretation
      BY DEF Next, CheckSource, LoadFixture, Extract, RequireLiteralSpans, BuildReviewDocket,
             EvaluateAdmission, ProposeInterpretation, RequireAllSlots, RequireGroundedQuotes,
             RequireOpenReference, MissingAuthority, MalformedAuthority, Publish, Gate
    <2>3. stage = "malformed" => MalformedAuthority
      BY DEF Next, CheckSource, LoadFixture, Extract, RequireLiteralSpans, BuildReviewDocket,
             EvaluateAdmission, ProposeInterpretation, RequireAllSlots, RequireGroundedQuotes,
             RequireOpenReference, MissingAuthority, RefuseInterpretation, Publish, Gate
    <2> QED BY <2>1, <2>2, <2>3, MissingIsRefused, RefusalRefuses, MalformedIsRefused DEF HandOn
  <1> QED BY PathInvariance, <1>1, <1>2, PTL DEF Spec, ControlsRefuse

Answer(i) == fixture.exchanges[i].content
Both == <<Answer(1).candidates, Answer(2).candidates>>
First == Answer(1).candidates[1]
Reply == Envelope(Nothing, Answer(3))

\* The inputs are the pinned ones, and the frozen provider has an acceptable
\* answer to every request, in the order they are made.
Replayable ==
    /\ fixture.source_intact /\ fixture.intact /\ fixture.well_formed
    /\ Len(fixture.exchanges) >= 3
    /\ \A i \in {1, 2} : /\ fixture.exchanges[i].request = ExtractionRequest
                         /\ ExtractionAccepted(Answer(i))
    /\ fixture.exchanges[3].request = InterpretationRequest(First.candidate_span)
    /\ ProposalAccepted(Answer(3))

\* The two extractions differ, in spans the source has letter for letter.
Disputed ==
    /\ Both[1] # <<>> /\ Docket(Both).agreement_state = "DIVERGENT"
    /\ \A i \in {1, 2} : \A c \in ToSet(Both[i]) : c.candidate_span \in LiteralSpans

\* The interpretation fills every slot, quotes the admitted span only, and
\* leaves the one reference open.
Complies ==
    /\ {a.slot : a \in ToSet(Reply.assertions)} = Slots
    /\ \A a \in ToSet(Reply.assertions) :
          /\ a.proposed_source_quote # NoQuote
          /\ First.candidate_span \in QuotedIn[a.proposed_source_quote]
    /\ Reply.references = <<ExpectedReference>>

Deserved ==
    /\ Replayable /\ Disputed /\ Complies
    /\ Boundary!DecidedBy(SuppliedAuthority(template), "admitted")

\* What the gates have established that IInv does not remember.
Examined ==
    /\ stage \notin {"source", "done"} => fixture.source_intact
    /\ stage \notin {"source", "load", "done"} => fixture.intact /\ fixture.well_formed
    /\ stage \in {"admit", "propose"} \cup Proposed =>
          Docket(extractions).agreement_state = "DIVERGENT"

\* How a run ends: published, if its inputs deserve it, and not otherwise.
Fair ==
    /\ outcome = "PUBLISHED" => Deserved
    /\ stage = "done" /\ Deserved => outcome = "PUBLISHED"

(* What an extraction accepts it does not refuse. *)
LEMMA AcceptedIsNotRefused ==
    ASSUME NEW c, ExtractionAccepted(c), NEW error
    PROVE  ~ExtractionRefusal(c, error)
  BY DEF ExtractionAccepted, ExtractionRefusal

(* The exchange that is due, when the provider has three. *)
LEMMA DueExchange ==
    ASSUME IInv, Len(fixture.exchanges) >= 3, position \in {0, 1, 2}
    PROVE  ~Exhausted /\ next_exchange = fixture.exchanges[position + 1]
  <1>1. Len(fixture.exchanges) \in Nat
    BY ExchangeTypes DEF IInv, TypeOK
  <1> QED BY <1>1 DEF Exhausted, next_exchange

(* Both extractions are done. *)
LEMMA ExtractionsAreBoth ==
    ASSUME IInv, Len(extractions) = 2
    PROVE  extractions = Both /\ DOMAIN extractions = {1, 2}
  <1>1. extractions \in Seq(Seq(Candidate)) /\ DOMAIN extractions = {1, 2}
    BY DEF IInv, TypeOK
  <1>2. extractions = <<extractions[1], extractions[2]>>
    BY <1>1
  <1>3. extractions[1] = Answer(1).candidates /\ extractions[2] = Answer(2).candidates
    BY <1>1 DEF IInv, Extracted, Answer
  <1> QED BY <1>1, <1>2, <1>3 DEF Both

(* The proposal is the reply, under the binding of the admitted candidate. *)
LEMMA ProposalIsReply ==
    ASSUME IInv, stage \in Proposed
    PROVE  /\ proposal.assertions = Reply.assertions /\ proposal.references = Reply.references
           /\ candidate = First
  <1>1. Len(extractions) = 2
    BY DEF IInv, Progress
  <1>2. candidate = First
    BY <1>1, ExtractionsAreBoth DEF candidate, First, Both
  <1>3. proposal = Envelope(binding_for(receipt), Answer(3))
    BY DEF IInv, Interpreted, Answer
  <1> QED BY <1>2, <1>3 DEF Reply, Envelope

(* On inputs that deserve it no call of the script gives up. *)
LEMMA DeservedGoesOn ==
    ASSUME IInv, Deserved, Next, stage # "count"
    PROVE  stage' # "done"
  <1> SUFFICES ASSUME stage' = "done" PROVE FALSE
    OBVIOUS
  <1>1. ~CheckSource
    BY DEF CheckSource, Gate, HandOn, Deserved, Replayable
  <1>2. ~LoadFixture
    <2>1. fixture.exchanges # <<>>
      BY DEF Deserved, Replayable
    <2> QED BY <2>1 DEF LoadFixture, Gate, HandOn, Deserved, Replayable
  <1>3. ~Extract
    <2> SUFFICES ASSUME Extract PROVE FALSE
      OBVIOUS
    <2>1. position \in {0, 1} /\ Len(fixture.exchanges) >= 3
      BY DEF Extract, IInv, Progress, Deserved, Replayable
    <2>2. ~Exhausted /\ next_exchange.request = ExtractionRequest
          /\ ExtractionAccepted(next_exchange.content)
      <3>1. position + 1 \in {1, 2}
        BY <2>1
      <3> QED BY <2>1, <3>1, DueExchange DEF Deserved, Replayable, Answer
    <2>3. ~Unanswered(ExtractionRequest)
      BY <2>2 DEF Unanswered
    <2>4. \A error : ~ExtractionRefusal(next_exchange.content, error)
      BY <2>2, AcceptedIsNotRefused
    <2> QED BY <2>3, <2>4 DEF Extract, HandOn
  <1>4. stage \in {"literal", "docket", "admit", "propose"} \cup Proposed => Len(extractions) = 2
    BY DEF IInv, Progress, BothExtracted
  <1>5. ~RequireLiteralSpans
    <2> SUFFICES ASSUME RequireLiteralSpans PROVE FALSE
      OBVIOUS
    <2>1. stage = "literal"
      BY DEF RequireLiteralSpans, Gate
    <2>2. extractions = Both /\ DOMAIN extractions = {1, 2}
      BY <1>4, <2>1, ExtractionsAreBoth
    <2>3. \A i \in DOMAIN extractions : \A c \in ToSet(extractions[i]) :
             c.candidate_span \in LiteralSpans
      BY <2>2 DEF Deserved, Disputed
    <2> QED BY <2>3 DEF RequireLiteralSpans, Gate, HandOn
  <1>6. ~BuildReviewDocket
    <2> SUFFICES ASSUME BuildReviewDocket PROVE FALSE
      OBVIOUS
    <2>1. stage = "docket"
      BY DEF BuildReviewDocket
    <2>2. docket' = Docket(Both)
      BY <1>4, <2>1, ExtractionsAreBoth DEF BuildReviewDocket
    <2> QED BY <2>2 DEF BuildReviewDocket, HandOn, Deserved, Disputed
  <1>7. ~EvaluateAdmission
    <2> SUFFICES ASSUME EvaluateAdmission PROVE FALSE
      OBVIOUS
    <2>1. stage = "admit"
      BY DEF EvaluateAdmission
    <2>2. extractions[1] # <<>>
      BY <1>4, <2>1, ExtractionsAreBoth DEF Deserved, Disputed
    <2>3. PICK c \in Check : /\ Boundary!DecidedBy(SuppliedAuthority(template), c)
                             /\ RequireAdmitted(c)
      BY <2>2 DEF EvaluateAdmission
    <2>4. "admitted" \in Check /\ Boundary!DecidedBy(SuppliedAuthority(template), "admitted")
      BY Checks DEF Deserved
    <2>5. c = "admitted"
      BY <2>3, <2>4, DecisionUnique
    <2>6. Verdict[c] \in AdmissionState
      BY <2>5 DEF Verdict, AdmissionState
    <2> QED BY <2>3, <2>5, <2>6 DEF RequireAdmitted, HandOn
  <1>8. ~ProposeInterpretation
    <2> SUFFICES ASSUME ProposeInterpretation PROVE FALSE
      OBVIOUS
    <2>1. stage = "propose" /\ position = 2 /\ Len(fixture.exchanges) >= 3
      BY DEF ProposeInterpretation, IInv, Progress, BothExtracted, Deserved, Replayable
    <2>2. candidate = First
      BY <1>4, <2>1, ExtractionsAreBoth DEF candidate, First, Both
    <2>3. ~Exhausted /\ next_exchange = fixture.exchanges[3]
      BY <2>1, DueExchange
    <2>4. /\ next_exchange.request = InterpretationRequest(candidate.candidate_span)
          /\ ProposalAccepted(next_exchange.content)
      BY <2>2, <2>3 DEF Deserved, Replayable, Answer
    <2>5. /\ RequestFor(binding_for(receipt)) = InterpretationRequest(candidate.candidate_span)
          /\ Admits(binding_for(receipt))
      BY <2>1 DEF RequestFor, Admits, binding_for, IInv, Gated, AdmittedCandidate
    <2>6. ~FailedAtProvider(binding_for(receipt)) /\ ~RefusedAtInput(binding_for(receipt))
      BY <2>3, <2>4, <2>5 DEF FailedAtProvider, RefusedAtInput, Unanswered
    <2> QED BY <2>6 DEF ProposeInterpretation, HandOn
  <1>9. ~RequireAllSlots
    <2> SUFFICES ASSUME RequireAllSlots PROVE FALSE
      OBVIOUS
    <2>1. stage \in Proposed
      BY DEF RequireAllSlots, Gate, Proposed
    <2>2. {a.slot : a \in ToSet(proposal.assertions)} = Slots
      BY <2>1, ProposalIsReply DEF Deserved, Complies
    <2> QED BY <2>2 DEF RequireAllSlots, Gate, HandOn
  <1>10. ~RequireGroundedQuotes
    <2> SUFFICES ASSUME RequireGroundedQuotes PROVE FALSE
      OBVIOUS
    <2>1. stage \in Proposed
      BY DEF RequireGroundedQuotes, Proposed
    <2>2. \A a \in ToSet(proposal.assertions) : QuoteFound(a)
      BY <2>1, ProposalIsReply DEF Deserved, Complies, QuoteFound
    <2>3. \A i \in DOMAIN proposal.assertions : QuoteFound(proposal.assertions[i])
      BY <2>2 DEF ToSet
    <2> QED BY <2>3 DEF RequireGroundedQuotes, HandOn
  <1>11. ~RequireOpenReference
    <2> SUFFICES ASSUME RequireOpenReference PROVE FALSE
      OBVIOUS
    <2>1. stage \in Proposed
      BY DEF RequireOpenReference, Gate, Proposed, FromReferences
    <2>2. proposal.references = <<ExpectedReference>>
      BY <2>1, ProposalIsReply DEF Deserved, Complies
    <2> QED BY <2>2 DEF RequireOpenReference, Gate, HandOn
  <1>12. ~MissingAuthority /\ ~RefuseInterpretation /\ ~MalformedAuthority /\ ~Publish
    BY MissingIsRefused, RefusalRefuses, MalformedIsRefused DEF Publish, HandOn
  <1> QED BY <1>1, <1>2, <1>3, <1>5, <1>6, <1>7, <1>8, <1>9, <1>10, <1>11, <1>12 DEF Next

(* A run that comes to its last call deserved to. *)
LEMMA CountedIsDeserved ==
    ASSUME IInv, Examined, stage = "count"
    PROVE  Deserved
  <1>1. /\ Len(extractions) = 2 /\ position = 3 /\ Len(calls) = 3 /\ AdmittedCandidate
        /\ ProposalAccepted(Answer(3)) /\ AllSlots /\ AllQuotes
        /\ proposal.references = <<ExpectedReference>>
    BY DEF IInv, Progress, Gated, Interpreted, Proposed, FromReferences, Answer
  <1>2. extractions = Both /\ DOMAIN extractions = {1, 2}
    BY <1>1, ExtractionsAreBoth
  <1>3. proposal.assertions = Reply.assertions /\ proposal.references = Reply.references
        /\ candidate = First
    BY ProposalIsReply DEF Proposed, FromReferences
  <1>4. Len(fixture.exchanges) >= 3
    BY <1>1, ExchangeTypes DEF IInv, TypeOK
  <1>5. calls \in Seq(Request) /\ DOMAIN calls = 1..3
    BY <1>1 DEF IInv, TypeOK
  <1>6. /\ fixture.exchanges[1].request = ExtractionRequest
        /\ fixture.exchanges[2].request = ExtractionRequest
        /\ fixture.exchanges[3].request = InterpretationRequest(candidate.candidate_span)
    <2>1. \A i \in 1..3 : calls[i] = fixture.exchanges[i].request
      BY <1>1 DEF IInv, ReplayAccounted
    <2> QED BY <1>5, <2>1 DEF IInv, Asked
  <1>7. Replayable
    <2>1. fixture.source_intact /\ fixture.intact /\ fixture.well_formed
      BY DEF Examined
    <2>2. \A i \in {1, 2} : ExtractionAccepted(Answer(i))
      BY <1>2 DEF IInv, Extracted, Answer
    <2> QED BY <1>1, <1>3, <1>4, <1>6, <2>1, <2>2 DEF Replayable
  <1>8. Disputed
    <2>1. Docket(Both).agreement_state = "DIVERGENT"
      BY <1>2 DEF Examined, Proposed, FromReferences
    <2> QED BY <1>1, <1>2, <2>1 DEF Disputed, AdmittedCandidate, AllLiteral
  <1>9. Complies
    BY <1>1, <1>3 DEF Complies, AllSlots, AllQuotes, QuoteFound
  <1> QED BY <1>1, <1>7, <1>8, <1>9 DEF Deserved, AdmittedCandidate

(* The inputs do not change. *)
LEMMA InputsStay == [Next]_vars => UNCHANGED inputs /\ Deserved' = Deserved
  <1> SUFFICES ASSUME [Next]_vars PROVE UNCHANGED inputs /\ Deserved' = Deserved
    OBVIOUS
  <1>1. UNCHANGED inputs
    BY DEF Next, vars, CheckSource, LoadFixture, Extract, RequireLiteralSpans,
           BuildReviewDocket, EvaluateAdmission, ProposeInterpretation, RequireAllSlots,
           RequireGroundedQuotes, RequireOpenReference, MissingAuthority,
           RefuseInterpretation, MalformedAuthority, Publish, Gate
  <1>2. fixture' = fixture /\ template' = template
    BY <1>1 DEF inputs
  <1>3. /\ Replayable' = Replayable /\ Disputed' = Disputed /\ Complies' = Complies
    BY <1>2 DEF Replayable, Disputed, Complies, Reply, First, Both, Answer
  <1> QED BY <1>1, <1>2, <1>3 DEF Deserved

(* A gate that is passed was examined. *)
LEMMA StepExamines == IInv /\ Examined /\ [Next]_vars => Examined'
  <1> SUFFICES ASSUME IInv, Examined, [Next]_vars PROVE Examined'
    OBVIOUS
  <1>0. fixture' = fixture
    BY InputsStay DEF inputs
  <1>1. CASE UNCHANGED vars
    BY <1>1 DEF vars, Examined, results, inputs
  <1>2. CASE stage' = "done"
    BY <1>2 DEF Examined, Proposed, FromReferences
  <1>3. CASE CheckSource /\ stage' # "done"
    BY <1>0, <1>3 DEF CheckSource, Gate, Stop, HandOn, Examined, Proposed, FromReferences
  <1>4. CASE LoadFixture /\ stage' # "done"
    BY <1>0, <1>4 DEF LoadFixture, Gate, Stop, HandOn, Examined, Proposed, FromReferences
  <1>5. CASE Extract /\ stage' # "done"
    <2>1. stage = "extract" /\ stage' \in {"extract", "literal"}
      BY <1>5 DEF Extract, Unanswered, Stop, HandOn
    <2> QED BY <1>0, <2>1 DEF Examined, Proposed, FromReferences
  <1>6. CASE RequireLiteralSpans /\ stage' # "done"
    BY <1>0, <1>6 DEF RequireLiteralSpans, Gate, Stop, HandOn, Examined, Proposed, FromReferences
  <1>7. CASE BuildReviewDocket /\ stage' # "done"
    <2>1. /\ stage = "docket" /\ stage' = "admit" /\ extractions' = extractions
          /\ Docket(extractions).agreement_state = "DIVERGENT"
      BY <1>7 DEF BuildReviewDocket, Stop, HandOn
    <2>2. Docket(extractions)' = Docket(extractions)
      BY <2>1
    <2> QED BY <1>0, <2>1, <2>2 DEF Examined, Proposed, FromReferences
  <1>8. CASE /\ stage' # "done"
             /\ \/ EvaluateAdmission \/ ProposeInterpretation \/ RequireAllSlots
                \/ RequireGroundedQuotes \/ RequireOpenReference \/ MissingAuthority
                \/ RefuseInterpretation \/ MalformedAuthority \/ Publish
    <2>1. stage \in {"admit", "propose"} \cup Proposed /\ extractions' = extractions
      BY <1>8 DEF EvaluateAdmission, ProposeInterpretation, RequireAllSlots,
                  RequireGroundedQuotes, RequireOpenReference, MissingAuthority,
                  RefuseInterpretation, MalformedAuthority, Publish, Gate, Proposed,
                  FromReferences
    <2>2. /\ fixture.source_intact /\ fixture.intact /\ fixture.well_formed
          /\ Docket(extractions).agreement_state = "DIVERGENT"
      BY <2>1 DEF Examined, Proposed, FromReferences
    <2>3. Docket(extractions)' = Docket(extractions)
      BY <2>1
    <2> QED BY <1>0, <2>2, <2>3 DEF Examined
  <1> QED BY <1>1, <1>2, <1>3, <1>4, <1>5, <1>6, <1>7, <1>8 DEF Next

(* Only the last call publishes, and it does. *)
LEMMA StepIsFair == IInv /\ Examined /\ Fair /\ [Next]_vars => Fair'
  <1> SUFFICES ASSUME IInv, Examined, Fair, [Next]_vars PROVE Fair'
    OBVIOUS
  <1>0. Deserved' = Deserved
    BY InputsStay
  <1>1. CASE UNCHANGED vars
    BY <1>0, <1>1 DEF vars, Fair
  <1>2. CASE Publish
    <2>1. stage = "count" /\ position = 3
      BY <1>2 DEF Publish, IInv, Progress, Proposed, FromReferences
    <2>2. Deserved /\ outcome' = "PUBLISHED"
      BY <1>2, <2>1, CountedIsDeserved DEF Publish, Stop
    <2> QED BY <1>0, <2>2 DEF Fair
  <1>3. CASE Next /\ ~Publish
    <2>1. stage # "count"
      BY <1>3 DEF Next, CheckSource, LoadFixture, Extract, RequireLiteralSpans,
             BuildReviewDocket, EvaluateAdmission, ProposeInterpretation, RequireAllSlots,
             RequireGroundedQuotes, RequireOpenReference, MissingAuthority,
             RefuseInterpretation, MalformedAuthority, Gate
    <2>2. Deserved => stage' # "done"
      BY <1>3, <2>1, DeservedGoesOn
    <2>3. outcome' = "PUBLISHED" => FALSE
      <3>1. outcome = "RUNNING"
        BY <1>3 DEF IInv, Progress, Next, CheckSource, LoadFixture, Extract,
               RequireLiteralSpans, BuildReviewDocket, EvaluateAdmission,
               ProposeInterpretation, RequireAllSlots, RequireGroundedQuotes,
               RequireOpenReference, MissingAuthority, RefuseInterpretation,
               MalformedAuthority, Gate
      <3>2. \A c \in Check : Verdict[c] # "PUBLISHED"
        BY Checks DEF Outcome, AdmissionState, InputBoundaryError, EvaluatorFault
      <3>3. ~EvaluateAdmission \/ outcome' # "PUBLISHED"
        BY <3>1, <3>2 DEF EvaluateAdmission, RequireAdmitted, Stop, HandOn
      <3>4. ~(MissingAuthority \/ RefuseInterpretation \/ MalformedAuthority)
            \/ outcome' # "PUBLISHED"
        BY <3>1, MissingIsRefused, RefusalRefuses, MalformedIsRefused DEF HandOn
      <3>5. ~(\/ CheckSource \/ LoadFixture \/ RequireLiteralSpans \/ RequireAllSlots
              \/ RequireOpenReference) \/ outcome' # "PUBLISHED"
        BY <3>1 DEF CheckSource, LoadFixture, RequireLiteralSpans, RequireAllSlots,
                    RequireOpenReference, Gate, Stop, HandOn
      <3>6. ~(Extract \/ BuildReviewDocket \/ ProposeInterpretation \/ RequireGroundedQuotes)
            \/ outcome' # "PUBLISHED"
        BY <3>1 DEF Extract, BuildReviewDocket, ProposeInterpretation, RequireGroundedQuotes,
                    FailedAtProvider, Unanswered, Stop, HandOn
      <3> QED BY <1>3, <3>3, <3>4, <3>5, <3>6 DEF Next
    <2> QED BY <1>0, <2>2, <2>3 DEF Fair
  <1> QED BY <1>1, <1>2, <1>3

(***************************************************************************)
(* main of the script publishes if and only if its inputs deserve it:      *)
(* nothing that is published lacks a condition, no run whose inputs meet   *)
(* all of them is refused, and the conditions are those of Deserved, which *)
(* speaks of the fixture and of the template and of no step of the run.    *)
(***************************************************************************)
THEOREM PublishedExactlyWhenDeserved == Spec => []Fair
  <1>1. Init => Examined /\ Fair
    BY DEF Init, Examined, Fair, Proposed, FromReferences
  <1>2. IInv /\ Examined /\ Fair /\ [Next]_vars => Examined' /\ Fair'
    BY StepExamines, StepIsFair
  <1> QED BY PathInvariance, <1>1, <1>2, PTL DEF Spec
-----------------------------------------------------------------------------
(* The script cannot go on for ever: each call takes it to a later stage,  *)
(* but for the first extraction, which is followed by the second.          *)
Rank == [ source |-> 15, load |-> 14, extract |-> 13, literal |-> 11, docket |-> 10, admit |-> 9,
          propose |-> 8, slots |-> 7, quotes |-> 6, references |-> 5, missing |-> 4,
          refuse |-> 3, malformed |-> 2, count |-> 1, done |-> 0 ]

Ahead == IF stage = "extract" THEN Rank[stage] - Len(extractions) ELSE Rank[stage]

AheadBounded == Ahead \in 0..15
EveryStepCounts == [][Ahead' < Ahead]_vars

LEMMA AheadIsBounded ==
    ASSUME IInv
    PROVE  /\ Ahead \in 0..15
           /\ stage # "done" => Ahead > 0
           /\ stage = "extract" => Len(extractions) \in {0, 1}
  <1>1. stage \in DOMAIN Rank
    BY DEF IInv, TypeOK, Rank
  <1>2. stage = "extract" => Len(extractions) \in {0, 1}
    BY DEF IInv, Progress
  <1>3. CASE stage = "extract"
    <2> DEFINE n == Len(extractions)
    <2>1. n \in {0, 1} /\ Ahead = 13 - n
      BY <1>2, <1>3 DEF Ahead, Rank
    <2> HIDE DEF n
    <2> QED BY <1>2, <1>3, <2>1
  <1>4. CASE stage # "extract"
    <2>1. Ahead = Rank[stage]
      BY <1>4 DEF Ahead
    <2> QED BY <1>1, <1>4, <2>1 DEF Rank
  <1> QED BY <1>3, <1>4

(* A call that stops the script leaves nothing ahead of it. *)
LEMMA StopShortens ==
    ASSUME IInv, stage # "done", NEW error, Stop(error)
    PROVE  Ahead' < Ahead
  <1>1. Ahead' = 0
    BY DEF Stop, Ahead, Rank
  <1> QED BY <1>1, AheadIsBounded

(* A call that hands on leaves less. *)
LEMMA HandOnShortens ==
    ASSUME IInv, NEW next, HandOn(next), stage # "extract", stage # "done",
           next \in DOMAIN Rank,
           Rank[next] < Rank[stage],
           next # "extract" \/ extractions' = <<>>
    PROVE  Ahead' < Ahead
  <1>1. Ahead = Rank[stage]
    BY DEF Ahead
  <1>2. stage' = next
    BY DEF HandOn
  <1>3. Ahead' = Rank[next]
    <2>1. CASE next # "extract"
      BY <1>2, <2>1 DEF Ahead
    <2>2. CASE next = "extract" /\ extractions' = <<>>
      <3>1. Len(extractions') = 0
        BY <2>2
      <3> QED BY <1>2, <2>2, <3>1 DEF Ahead, Rank
    <2> QED BY <2>1, <2>2
  <1> QED BY <1>1, <1>3

LEMMA ExtractShortens ==
    ASSUME IInv, Extract
    PROVE  Ahead' < Ahead
  <1>1. stage = "extract" /\ extractions \in Seq(Seq(Candidate)) /\ Len(extractions) \in {0, 1}
    BY AheadIsBounded DEF Extract, IInv, TypeOK
  <1>2. CASE stage' = "done"
    BY <1>1, <1>2, AheadIsBounded DEF Ahead, Rank
  <1>3. CASE /\ extractions' = Append(extractions, next_exchange.content.candidates)
             /\ stage' = IF Len(extractions) = 0 THEN "extract" ELSE "literal"
    <2> DEFINE n == Len(extractions)
               m == Len(extractions')
    <2>1. m = n + 1 /\ n \in {0, 1}
      BY <1>1, <1>3
    <2>2. Ahead = 13 - n
      BY <1>1 DEF Ahead, Rank
    <2>3. Ahead' = IF n = 0 THEN 13 - m ELSE 11
      BY <1>3 DEF Ahead, Rank
    <2> HIDE DEF n, m
    <2> QED BY <2>1, <2>2, <2>3
  <1> QED BY <1>2, <1>3 DEF Extract, Unanswered, Stop, HandOn

LEMMA GateShortens ==
    ASSUME IInv, NEW s, NEW broken, NEW error, NEW next, Gate(s, broken, error, next),
           s # "extract", s # "done", next \in DOMAIN Rank, Rank[next] < Rank[s],
           next # "extract" \/ extractions = <<>>
    PROVE  Ahead' < Ahead
  <1>1. stage = s /\ extractions' = extractions
    BY DEF Gate
  <1>2. CASE Stop(error)
    BY <1>1, <1>2, StopShortens
  <1>3. CASE HandOn(next)
    BY <1>1, <1>3, HandOnShortens
  <1> QED BY <1>2, <1>3 DEF Gate

LEMMA StepShortens ==
    ASSUME IInv, Next
    PROVE  Ahead' < Ahead
  <1>1. CASE CheckSource
    BY <1>1, GateShortens DEF CheckSource, Rank
  <1>2. CASE LoadFixture
    <2>1. extractions = <<>>
      BY <1>2 DEF LoadFixture, Gate, IInv, Progress
    <2> QED BY <1>2, <2>1, GateShortens DEF LoadFixture, Rank
  <1>3. CASE Extract
    BY <1>3, ExtractShortens
  <1>4. CASE RequireLiteralSpans
    <2> DEFINE unlocated == \E i \in DOMAIN extractions : \E c \in ToSet(extractions[i]) :
                               c.candidate_span \notin LiteralSpans
    <2>1. Gate("literal", unlocated, "ValueError", "docket")
      BY <1>4 DEF RequireLiteralSpans
    <2> HIDE DEF unlocated
    <2> QED BY <2>1, GateShortens DEF Rank
  <1>5. CASE BuildReviewDocket
    BY <1>5, StopShortens, HandOnShortens DEF BuildReviewDocket, Rank
  <1>6. CASE EvaluateAdmission
    <2>1. stage = "admit" /\ ((\E error : Stop(error)) \/ HandOn("propose"))
      BY <1>6 DEF EvaluateAdmission, RequireAdmitted
    <2> QED BY <2>1, StopShortens, HandOnShortens DEF Rank
  <1>7. CASE ProposeInterpretation
    <2>1. stage = "propose" /\ ((\E error : Stop(error)) \/ HandOn("slots"))
      BY <1>7 DEF ProposeInterpretation, FailedAtProvider, Unanswered
    <2> QED BY <2>1, StopShortens, HandOnShortens DEF Rank
  <1>8. CASE RequireAllSlots
    BY <1>8, GateShortens DEF RequireAllSlots, Rank
  <1>9. CASE RequireGroundedQuotes
    <2>1. stage = "quotes" /\ ((\E error : Stop(error)) \/ HandOn("references"))
      BY <1>9 DEF RequireGroundedQuotes
    <2> QED BY <2>1, StopShortens, HandOnShortens DEF Rank
  <1>10. CASE RequireOpenReference
    BY <1>10, GateShortens DEF RequireOpenReference, Rank
  <1>11. CASE MissingAuthority
    BY <1>11, MissingIsRefused, HandOnShortens DEF MissingAuthority, Rank
  <1>12. CASE MalformedAuthority
    BY <1>12, MalformedIsRefused, HandOnShortens DEF MalformedAuthority, Rank
  <1>13. CASE RefuseInterpretation
    BY <1>13, RefusalRefuses, HandOnShortens DEF RefuseInterpretation, Rank
  <1>14. CASE Publish
    <2>1. stage = "count" /\ \E error : Stop(error)
      BY <1>14 DEF Publish
    <2> QED BY <2>1, StopShortens
  <1> QED BY <1>1, <1>2, <1>3, <1>4, <1>5, <1>6, <1>7, <1>8, <1>9, <1>10, <1>11, <1>12, <1>13,
         <1>14 DEF Next

(***************************************************************************)
(* scripts/demo_bounded_semantic_path.py: the script ends after at most    *)
(* fifteen of its calls, whatever the fixture and the authority are and    *)
(* wherever it is refused: the provider is never asked without end.        *)
(***************************************************************************)
THEOREM PathRunsOut == Spec => []AheadBounded /\ EveryStepCounts
  <1>1. IInv => AheadBounded
    BY AheadIsBounded DEF AheadBounded
  <1>2. IInv /\ [Next]_vars => [Ahead' < Ahead]_vars
    BY StepShortens
  <1> QED BY PathInvariance, <1>1, <1>2, PTL DEF Spec, EveryStepCounts
=============================================================================
