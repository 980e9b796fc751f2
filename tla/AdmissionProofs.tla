--------------------------- MODULE AdmissionProofs ---------------------------
(***************************************************************************)
(* Theorems about the staged evaluator, for every set of documents.        *)
(*                                                                         *)
(* The argument: an evaluation that has come to check c has met no earlier *)
(* check whose declarative condition (AdmissionSpec!Fires) holds of the    *)
(* document, and the narrowed sets are what the conditions speak about.    *)
(* So the check that ends the evaluation is the first that fires, which is *)
(* the refinement, and everything ADMITTED guarantees follows from the     *)
(* document alone.                                                         *)
(***************************************************************************)
EXTENDS Admission, TLAPS, WellFoundedInduction

-----------------------------------------------------------------------------
(* Documents and instants.                                                 *)

(* The parts of a document have their types. *)
LEMMA DocumentParts ==
    ASSUME NEW d \in Document
    PROVE  /\ d.evaluation_time \in Timestamp
           /\ d.source_registration \in RegistrationRecord
           /\ d.authority_evidence \in Seq(EvidenceRecord)
           /\ EvidenceOf(d) \subseteq EvidenceRecord
           /\ d.source_anchors \subseteq Anchor
           /\ d.wire \subseteq WireDefects
BY DEF Document, EvidenceOf

(* Exactly the evidence array of a document decides whether it has any. *)
LEMMA EvidencePresent ==
    ASSUME NEW d \in Document
    PROVE  d.authority_evidence # <<>> <=> EvidenceOf(d) # {}
<1>1. d.authority_evidence \in Seq(EvidenceRecord)
  BY DocumentParts
<1>2. DOMAIN d.authority_evidence = 1..Len(d.authority_evidence)
  BY <1>1
<1>3. d.authority_evidence # <<>> <=> Len(d.authority_evidence) # 0
  BY <1>1
<1>4. CASE Len(d.authority_evidence) = 0
  BY <1>2, <1>3, <1>4 DEF EvidenceOf
<1>5. CASE Len(d.authority_evidence) # 0
  <2>1. 1 \in DOMAIN d.authority_evidence
    BY <1>1, <1>2, <1>5
  <2> QED
    BY <2>1, <1>3, <1>5 DEF EvidenceOf
<1> QED
  BY <1>4, <1>5

-----------------------------------------------------------------------------
(* Type correctness.                                                       *)

(* An evaluation starts with well-typed state. *)
LEMMA InitTypeOK == Init => TypeOK
<1> SUFFICES ASSUME Init PROVE TypeOK
  OBVIOUS
<1>1. doc \in Document
  BY DocumentsAssumption DEF Init
<1>2. doc.authority_evidence \in Seq(EvidenceRecord)
  BY <1>1, DocumentParts
<1>3. index \in 1..(Len(evidence) + 1)
  BY <1>2 DEF Init, evidence
<1>4. check \in Check \cup {"done"}
  BY DEF Init, Check, Position
<1> QED
  BY <1>1, <1>3, <1>4 DEF Init, TypeOK

(* Every verdict is an outcome. *)
LEMMA VerdictType == \A c \in Check : Verdict[c] \in Outcome
BY DEF Check, Position, Verdict, Outcome, AdmissionState, InputBoundaryError,
       EvaluatorFault

(* A check that fires or hands on, and writes nothing else, keeps the types. *)
LEMMA QuietStepType ==
    ASSUME TypeOK, UNCHANGED <<doc, index, narrowing>>,
           check' \in Check \cup {"done"}, outcome' \in Outcome \cup {Undecided}
    PROVE  TypeOK'
BY DEF TypeOK, narrowing, evidence

(* The names of the checks. *)
LEMMA CheckNames ==
    Check = {"encoding", "json", "finite", "encodable", "canonical", "schema",
             "ruleset", "evidence_order", "evidence_digest", "evaluation_time",
             "candidate", "availability", "freshness", "registered",
             "evidence_times", "version", "digest", "authority", "scope",
             "registration_times", "not_yet_effective", "expired",
             "superseded", "revoked", "conflict", "established", "admitted"}
BY DEF Check, Position

LEMMA ByteBoundaryTypeOK == TypeOK /\ ByteBoundary => TypeOK'
<1> SUFFICES ASSUME TypeOK, ByteBoundary PROVE TypeOK'
  OBVIOUS
<1> USE CheckNames, VerdictType
<1>1. CASE RequireEncoding
  BY <1>1, QuietStepType DEF RequireEncoding, Test, TestThen, Decide, HandOn, TypeOK
<1>2. CASE RequireJSON
  BY <1>2, QuietStepType DEF RequireJSON, Test, TestThen, Decide, HandOn, TypeOK
<1>3. CASE RequireFinite
  BY <1>3, QuietStepType DEF RequireFinite, Test, TestThen, Decide, HandOn, TypeOK
<1>4. CASE RequireEncodable
  BY <1>4, QuietStepType DEF RequireEncodable, Test, TestThen, Decide, HandOn, TypeOK
<1>5. CASE RequireCanonical
  BY <1>5, QuietStepType DEF RequireCanonical, Test, TestThen, Decide, HandOn, TypeOK
<1>6. CASE RequireSchemaValid
  BY <1>6, QuietStepType DEF RequireSchemaValid, Test, TestThen, Decide, HandOn, TypeOK
<1>7. CASE RequireFrozenRuleset
  BY <1>7, QuietStepType DEF RequireFrozenRuleset, Test, TestThen, Decide, HandOn, TypeOK
<1>8. CASE RequireEvidenceIntegrity
  <2>1. evidence \in Seq(EvidenceRecord) /\ evidence' = evidence
    BY <1>8, DocumentParts DEF RequireEvidenceIntegrity, TypeOK, evidence
  <2>2. index' \in 1..(Len(evidence) + 1)
    BY <1>8, <2>1 DEF RequireEvidenceIntegrity, TypeOK
  <2>3. check' \in Check \cup {"done"} /\ outcome' \in Outcome \cup {Undecided}
    BY <1>8 DEF RequireEvidenceIntegrity, Decide, HandOn, TypeOK
  <2> QED
    BY <1>8, <2>1, <2>2, <2>3 DEF RequireEvidenceIntegrity, TypeOK, narrowing
<1> QED
  BY <1>1, <1>2, <1>3, <1>4, <1>5, <1>6, <1>7, <1>8 DEF ByteBoundary

LEMMA EvaluateStateTypeOK == TypeOK /\ EvaluateState => TypeOK'
<1> SUFFICES ASSUME TypeOK, EvaluateState PROVE TypeOK'
  OBVIOUS
<1> USE CheckNames, VerdictType
<1>1. CASE ParseEvaluationTime
  BY <1>1, QuietStepType DEF ParseEvaluationTime, Test, TestThen, Decide, HandOn, TypeOK
<1>2. CASE CheckCandidate
  BY <1>2, QuietStepType DEF CheckCandidate, Test, TestThen, Decide, HandOn, TypeOK
<1>3. CASE CheckAvailability
  BY <1>3, QuietStepType DEF CheckAvailability, Test, TestThen, Decide, HandOn, TypeOK
<1>4. CASE CheckFreshness
  BY <1>4, QuietStepType DEF CheckFreshness, Test, TestThen, Decide, HandOn, TypeOK
<1>5. CASE CheckRegistered
  BY <1>5, QuietStepType DEF CheckRegistered, Test, TestThen, Decide, HandOn, TypeOK
<1>6. CASE CheckAuthority
  BY <1>6, QuietStepType DEF CheckAuthority, Test, TestThen, Decide, HandOn, TypeOK
<1>7. CASE ParseRegistrationTimes
  BY <1>7, QuietStepType DEF ParseRegistrationTimes, Test, TestThen, Decide, HandOn, TypeOK
<1>8. CASE CheckNotYetEffective
  BY <1>8, QuietStepType DEF CheckNotYetEffective, Test, TestThen, Decide, HandOn, TypeOK
<1>9. CASE CheckExpired
  BY <1>9, QuietStepType DEF CheckExpired, Test, TestThen, Decide, HandOn, TypeOK
<1>10. CASE CheckSuperseded
  BY <1>10, QuietStepType DEF CheckSuperseded, Test, TestThen, Decide, HandOn, TypeOK
<1>11. CASE CheckRevoked
  BY <1>11, QuietStepType DEF CheckRevoked, Test, TestThen, Decide, HandOn, TypeOK
<1>12. CASE CheckConflict
  BY <1>12, QuietStepType DEF CheckConflict, Test, TestThen, Decide, HandOn, TypeOK
<1>13. CASE CheckEstablished
  BY <1>13, QuietStepType DEF CheckEstablished, Test, TestThen, Decide, HandOn, TypeOK
<1>14. CASE CollectRelevant
  BY <1>14 DEF CollectRelevant, TestThen, Decide, HandOn, TypeOK, evidence
<1>15. CASE CheckVersion
  BY <1>15 DEF CheckVersion, TestThen, Decide, HandOn, TypeOK, evidence
<1>16. CASE CheckDigest
  BY <1>16 DEF CheckDigest, TestThen, Decide, HandOn, TypeOK, evidence
<1>17. CASE CheckScope
  BY <1>17 DEF CheckScope, TestThen, Decide, HandOn, TypeOK, evidence
<1>18. CASE Admit
  BY <1>18, QuietStepType DEF Admit, Decide, TypeOK
<1> QED
  BY <1>1, <1>2, <1>3, <1>4, <1>5, <1>6, <1>7, <1>8, <1>9, <1>10, <1>11, <1>12, <1>13, <1>14, <1>15, <1>16, <1>17, <1>18 DEF EvaluateState

(* The evaluator's state is always well typed. *)
THEOREM TypeCorrect == Spec => []TypeOK
<1>1. TypeOK /\ [Next]_vars => TypeOK'
  BY ByteBoundaryTypeOK, EvaluateStateTypeOK, QuietStepType DEF Next, vars, TypeOK
<1> QED
  BY InitTypeOK, <1>1, PTL DEF Spec

-----------------------------------------------------------------------------
(* The code's predicates are the declarative conditions.                   *)

(* Comparing a parsed instant is membership in the instants up to t. *)
LEMMA InstantReached ==
    ASSUME NEW x \in Nullable, x # Unnormalized, NEW t \in Nat
    PROVE  /\ (x # Null /\ t >= x) <=> Promise!Happened(x, t)
           /\ x # Null => (t < x <=> ~Promise!Happened(x, t))
<1>1. t # Unnormalized
  BY TimestampAssumption
<1>2. CASE x = Null
  <2>1. Null \notin 0..t
    BY TimestampAssumption DEF Timestamp
  <2> QED
    BY <1>1, <1>2, <2>1 DEF Promise!Happened
<1>3. CASE x \in Nat
  <2>1. x # Null
    BY <1>3, TimestampAssumption DEF Timestamp
  <2>2. t >= x <=> x \in 0..t
    BY <1>3
  <2>3. t < x <=> ~(x \in 0..t)
    BY <1>3
  <2> QED
    BY <1>1, <2>1, <2>2, <2>3 DEF Promise!Happened
<1> QED
  BY <1>2, <1>3 DEF Nullable, Timestamp

(* A record whose lifecycle fields have been parsed. *)
ParsedFields(r) ==
    /\ r.effective_from \in Nat
    /\ r.effective_until \in Nullable \ {Unnormalized}
    /\ r.revoked_at \in Nullable \ {Unnormalized}

(* On a parsed record the lifecycle tests agree with the intervals. *)
LEMMA LifecycleAgrees ==
    ASSUME NEW r, ParsedFields(r), NEW t \in Nat
    PROVE  /\ NotYetEffective(r, t) <=> ~Promise!Started(r, t)
           /\ Expired(r, t) <=> Promise!Ended(r, t)
           /\ Revoked(r, t) <=> Promise!Happened(r.revoked_at, t)
<1>1. r.effective_from \in Nullable /\ r.effective_from # Unnormalized /\ r.effective_from # Null
  BY TimestampAssumption DEF ParsedFields, Nullable, Timestamp
<1>2. t < r.effective_from <=> ~Promise!Happened(r.effective_from, t)
  BY <1>1, InstantReached
<1>3. (r.effective_until # Null /\ t >= r.effective_until) <=> Promise!Happened(r.effective_until, t)
  BY InstantReached DEF ParsedFields
<1>4. (r.revoked_at # Null /\ t >= r.revoked_at) <=> Promise!Happened(r.revoked_at, t)
  BY InstantReached DEF ParsedFields
<1> QED
  BY <1>2, <1>3, <1>4 DEF NotYetEffective, Expired, Revoked, Promise!Started, Promise!Ended

(* A superseded_at that has been parsed, likewise. *)
LEMMA SupersededAgrees ==
    ASSUME NEW r, r.superseded_at \in Nullable \ {Unnormalized}, NEW t \in Nat
    PROVE  Superseded(r, t) <=> Promise!Happened(r.superseded_at, t)
BY InstantReached DEF Superseded

(* The types of an evidence object and of its warrant that the rules use. *)
LEMMA ItemFields ==
    ASSUME NEW e \in EvidenceRecord
    PROVE  /\ e.effective_from \in Timestamp /\ e.effective_until \in Nullable
           /\ e.superseded_at \in Nullable /\ e.revoked_at \in Nullable
           /\ e.admission_warrant.effective_from \in Timestamp
           /\ e.admission_warrant.effective_until \in Nullable
           /\ e.admission_warrant.revoked_at \in Nullable
           /\ e.evidence_id \in Nat
BY DEF EvidenceRecord, WarrantRecord

(* Parsing an object succeeds exactly when none of its instants is unnormalized. *)
LEMMA ItemParsed ==
    ASSUME NEW e \in EvidenceRecord
    PROVE  /\ ItemParses(e) <=>
              Unnormalized \notin Promise!Instants(e) \cup Promise!Instants(e.admission_warrant)
                                  \cup {e.superseded_at}
           /\ ItemParses(e) => /\ ParsedFields(e) /\ ParsedFields(e.admission_warrant)
                               /\ e.superseded_at \in Nullable \ {Unnormalized}
BY ItemFields DEF ItemParses, LifecycleParses, Promise!Instants, ParsedFields, Timestamp

(* Scope containment of an object and its warrant. *)
LEMMA ScopeAgrees ==
    ASSUME NEW e, NEW d
    PROVE  /\ Covers(e, d.jurisdiction, d.applicability) <=> Promise!Reaches(e, d)
           /\ ItemCovers(e, d.jurisdiction, d.applicability) <=> Promise!InScope(e, d)
BY DEF Covers, ItemCovers, Promise!Reaches, Promise!InScope

(* On a parsed object every predicate of the code agrees with its promise. *)
LEMMA ItemAgrees ==
    ASSUME NEW e \in EvidenceRecord, ItemParses(e), NEW d, d.evaluation_time \in Nat
    PROVE  LET t == d.evaluation_time
               w == e.admission_warrant
           IN  /\ ItemNotYetEffective(e, t) <=> ~(Promise!Started(e, t) /\ Promise!Started(w, t))
               /\ ItemExpired(e, t) <=> Promise!Ended(e, t) \/ Promise!Ended(w, t)
               /\ ItemSuperseded(e, t) <=> Promise!Happened(e.superseded_at, t)
               /\ ItemRevoked(e, t) <=> Promise!Dead(e, t)
               /\ Operative(e, t, d.jurisdiction, d.applicability) <=> Promise!InForce(e, d)
<1> DEFINE t == d.evaluation_time
           w == e.admission_warrant
<1>1. ParsedFields(e) /\ ParsedFields(w) /\ e.superseded_at \in Nullable \ {Unnormalized}
  BY ItemParsed
<1>2. /\ NotYetEffective(e, t) <=> ~Promise!Started(e, t)
      /\ Expired(e, t) <=> Promise!Ended(e, t)
      /\ Revoked(e, t) <=> Promise!Happened(e.revoked_at, t)
  BY <1>1, LifecycleAgrees
<1>3. /\ NotYetEffective(w, t) <=> ~Promise!Started(w, t)
      /\ Expired(w, t) <=> Promise!Ended(w, t)
      /\ Revoked(w, t) <=> Promise!Happened(w.revoked_at, t)
  BY <1>1, LifecycleAgrees
<1>4. Superseded(e, t) <=> Promise!Happened(e.superseded_at, t)
  BY <1>1, SupersededAgrees
<1>5. /\ ItemNotYetEffective(e, t) <=> ~(Promise!Started(e, t) /\ Promise!Started(w, t))
      /\ ItemExpired(e, t) <=> Promise!Ended(e, t) \/ Promise!Ended(w, t)
      /\ ItemSuperseded(e, t) <=> Promise!Happened(e.superseded_at, t)
      /\ ItemRevoked(e, t) <=> Promise!Dead(e, t)
  BY <1>2, <1>3, <1>4 DEF ItemNotYetEffective, ItemExpired, ItemSuperseded, ItemRevoked, Promise!Dead
<1>6. w.status = "ACTIVE" => w.status # "REVOKED"
  OBVIOUS
<1>7. Operative(e, t, d.jurisdiction, d.applicability) <=> Promise!InForce(e, d)
  BY <1>5, <1>6, ScopeAgrees DEF Operative, Promise!InForce, Promise!Dead
<1> QED
  BY <1>5, <1>7

-----------------------------------------------------------------------------
(* The first check that fires.                                             *)

(* The promise and the evaluator share their vocabulary. *)
LEMMA SharedVocabulary ==
    /\ Promise!Check = Check /\ Promise!Position = Position /\ Promise!Verdict = Verdict
    /\ \A d : Promise!EvidenceOf(d) = EvidenceOf(d)
<1>1. Promise!Position = Position
  BY DEF Promise!Position, Position
<1>2. Promise!Verdict = Verdict
  BY DEF Promise!Verdict, Verdict
<1> QED
  BY <1>1, <1>2 DEF Promise!Check, Check, Promise!EvidenceOf, EvidenceOf

(* Positions tell the checks apart. *)
LEMMA PositionsDistinct ==
    /\ \A c \in Check : Position[c] \in 1..27
    /\ \A b, c \in Check : Position[b] = Position[c] => b = c
BY DEF Check, Position

(* A check that fires when none before it did has decided the document. *)
LEMMA FirstToFire ==
    ASSUME NEW d, NEW c \in Check, Promise!Fires(d, c),
           \A b \in Check : Position[b] < Position[c] => ~Promise!Fires(d, b)
    PROVE  Promise!DecidedBy(d, c)
BY SharedVocabulary DEF Promise!DecidedBy

(* A document is decided by at most one check. *)
THEOREM DecisionUnique ==
    \A d : \A b, c \in Check :
        Promise!DecidedBy(d, b) /\ Promise!DecidedBy(d, c) => b = c
<1> SUFFICES ASSUME NEW d, NEW b \in Check, NEW c \in Check,
                    Promise!DecidedBy(d, b), Promise!DecidedBy(d, c)
             PROVE  b = c
  OBVIOUS
<1>1. Position[b] \in Nat /\ Position[c] \in Nat
  BY PositionsDistinct
<1>2. ~(Position[b] < Position[c]) /\ ~(Position[c] < Position[b])
  BY SharedVocabulary DEF Promise!DecidedBy
<1>3. Position[b] = Position[c]
  BY <1>1, <1>2
<1> QED
  BY <1>3, PositionsDistinct

(***************************************************************************)
(* evaluate_admission_bytes leaves no document without an answer: some     *)
(* check decides it, whatever its parts.  With DecisionUnique, exactly one *)
(* does, so the ladder of returns is a function of the document.           *)
(***************************************************************************)
THEOREM DecisionTotal == \A d : \E c \in Check : Promise!DecidedBy(d, c)
<1> SUFFICES ASSUME NEW d PROVE \E c \in Check : Promise!DecidedBy(d, c)
  OBVIOUS
<1> DEFINE Firing == {c \in Check : Promise!Fires(d, c)}
           Places == {Position[c] : c \in Firing}
<1>1. Places \subseteq Nat
  BY PositionsDistinct
<1>2. Places # {}
  <2>1. Promise!Fires(d, "admitted")
    BY DEF Promise!Fires
  <2>2. "admitted" \in Check
    BY CheckNames
  <2> QED
    BY <2>1, <2>2
<1>3. PICK x \in Places : \A y \in Places : ~(<<y, x>> \in OpToRel(<, Nat))
  <2> HIDE DEF Places
  <2> QED
    BY <1>1, <1>2, NatLessThanWellFounded, WFMin
<1>4. PICK c \in Firing : x = Position[c]
  BY <1>3
<1>5. ASSUME NEW b \in Check, Position[b] < Position[c] PROVE ~Promise!Fires(d, b)
  <2> SUFFICES ASSUME Promise!Fires(d, b) PROVE FALSE
    OBVIOUS
  <2>1. Position[b] \in Places
    OBVIOUS
  <2>2. ~(<<Position[b], Position[c]>> \in OpToRel(<, Nat))
    BY <1>3, <1>4, <2>1
  <2>3. Position[b] \in Nat /\ Position[c] \in Nat
    BY PositionsDistinct
  <2> QED
    BY <1>5, <2>2, <2>3 DEF OpToRel
<1>6. Promise!DecidedBy(d, c)
  <2> HIDE DEF Places
  <2> QED
    BY <1>5, FirstToFire
<1> QED
  BY <1>6

(* What each check's condition says, one check at a time. *)
LEMMA FiresMeans ==
    ASSUME NEW d
    PROVE  /\ Promise!Fires(d, "encoding") <=> "encoding" \in d.wire
           /\ Promise!Fires(d, "json") <=> "json" \in d.wire
           /\ Promise!Fires(d, "finite") <=> "nonfinite" \in d.wire
           /\ Promise!Fires(d, "encodable") <=> "surrogate" \in d.wire
           /\ Promise!Fires(d, "canonical") <=> "noncanonical" \in d.wire
           /\ Promise!Fires(d, "schema") <=> ViolatesSchema(d)
           /\ Promise!Fires(d, "ruleset") <=> "ruleset" \in d.wire
           /\ Promise!Fires(d, "evidence_order") <=> Promise!OrderBroken(d)
           /\ Promise!Fires(d, "evidence_digest") <=> Promise!DigestBroken(d)
           /\ Promise!Fires(d, "evaluation_time") <=> d.evaluation_time = Unnormalized
           /\ Promise!Fires(d, "candidate") <=> Promise!AnchorsInvalid(d)
           /\ Promise!Fires(d, "availability") <=> d.source_registration.availability = "UNAVAILABLE"
           /\ Promise!Fires(d, "freshness") <=> d.source_registration.freshness = "STALE"
           /\ Promise!Fires(d, "registered") <=> ~d.source_registration.registered
           /\ Promise!Fires(d, "evidence_times") <=> Promise!EvidenceUnparsed(d)
           /\ Promise!Fires(d, "version") <=> Promise!VersionMismatch(d)
           /\ Promise!Fires(d, "digest") <=> Promise!DigestMismatch(d)
           /\ Promise!Fires(d, "authority") <=> Promise!ForInstance(d) = {}
           /\ Promise!Fires(d, "scope") <=> Promise!OutOfScope(d)
           /\ Promise!Fires(d, "registration_times") <=> Promise!RegistrationUnparsed(d)
           /\ Promise!Fires(d, "not_yet_effective") <=> Promise!NothingStarted(d)
           /\ Promise!Fires(d, "expired") <=> Promise!AllEnded(d)
           /\ Promise!Fires(d, "superseded") <=> Promise!AllSuperseded(d)
           /\ Promise!Fires(d, "revoked") <=> Promise!AllDead(d)
           /\ Promise!Fires(d, "conflict") <=> Promise!Conflict(d)
           /\ Promise!Fires(d, "established") <=> Promise!NothingInForce(d)
           /\ Promise!Fires(d, "admitted") <=> TRUE
BY DEF Promise!Fires, Promise!ViolatesSchema, ViolatesSchema, Promise!EvidenceOf, EvidenceOf

-----------------------------------------------------------------------------
(* The conditions of the checks after parsing.                             *)

(* Evidence for the source parses exactly when its check does not fire. *)
LEMMA EvidenceTimesAgree ==
    ASSUME NEW d \in Document
    PROVE  Promise!EvidenceUnparsed(d) <=> \E e \in Promise!ForSource(d) : ~ItemParses(e)
BY ItemParsed, DocumentParts, SharedVocabulary DEF Promise!EvidenceUnparsed, Promise!ForSource

LEMMA RegistrationTimesAgree ==
    ASSUME NEW d \in Document
    PROVE  /\ Promise!RegistrationUnparsed(d) <=> ~LifecycleParses(d.source_registration)
           /\ LifecycleParses(d.source_registration) =>
                 /\ ParsedFields(d.source_registration)
                 /\ d.source_registration.superseded_at \in Nullable \ {Unnormalized}
<1>1. d.source_registration \in RegistrationRecord
  BY DocumentParts
<1>2. /\ d.source_registration.effective_from \in Timestamp
      /\ d.source_registration.effective_until \in Nullable
      /\ d.source_registration.superseded_at \in Nullable
      /\ d.source_registration.revoked_at \in Nullable
  BY <1>1 DEF RegistrationRecord
<1> QED
  BY <1>2 DEF Promise!RegistrationUnparsed, LifecycleParses, Promise!Instants, ParsedFields, Timestamp

(* Narrowing in two passes is selecting by the conjunction. *)
LEMMA NarrowingAgrees ==
    ASSUME NEW d
    PROVE  /\ Promise!ForVersion(d) =
                {e \in Promise!ForSource(d) : BindsVersion(e, d.source_registration.source_version)}
           /\ Promise!ForInstance(d) =
                {e \in Promise!ForVersion(d) : BindsDigest(e, d.source_registration.source_digest)}
           /\ Promise!Warranting(d) =
                {e \in Promise!ForInstance(d) : ItemCovers(e, d.jurisdiction, d.applicability)}
           /\ Promise!Warranting(d) \subseteq Promise!ForSource(d)
BY ScopeAgrees DEF Promise!ForVersion, Promise!ForInstance, Promise!Warranting,
   BindsVersion, BindsDigest

(* With every relevant instant parsed, the lifecycle and conflict conditions *)
(* of the code are those of the promise.                                   *)
LEMMA LifecycleChecksAgree ==
    ASSUME NEW d \in Document, d.evaluation_time # Unnormalized,
           ~Promise!EvidenceUnparsed(d), ~Promise!RegistrationUnparsed(d)
    PROVE  LET r == d.source_registration
               t == d.evaluation_time
               W == Promise!Warranting(d)
           IN  /\ Promise!NothingStarted(d) <=>
                    NotYetEffective(r, t) \/ \A e \in W : ItemNotYetEffective(e, t)
               /\ Promise!AllEnded(d) <=> Expired(r, t) \/ \A e \in W : ItemExpired(e, t)
               /\ Promise!AllSuperseded(d) <=>
                    Superseded(r, t) \/ \A e \in W : ItemSuperseded(e, t)
               /\ Promise!AllDead(d) <=> Revoked(r, t) \/ \A e \in W : ItemRevoked(e, t)
               /\ Promise!Conflict(d) <=>
                    \E e, f \in {g \in Promise!ForSource(d) : Operative(g, t, d.jurisdiction, d.applicability)} :
                        e.authority_basis_ref # f.authority_basis_ref
               /\ Promise!NothingInForce(d) <=>
                    ~\E e \in W : Operative(e, t, d.jurisdiction, d.applicability)
<1> DEFINE r == d.source_registration
           t == d.evaluation_time
           W == Promise!Warranting(d)
<1>1. t \in Nat
  BY DocumentParts DEF Timestamp
<1>2. /\ NotYetEffective(r, t) <=> ~Promise!Started(r, t)
      /\ Expired(r, t) <=> Promise!Ended(r, t)
      /\ Revoked(r, t) <=> Promise!Happened(r.revoked_at, t)
      /\ Superseded(r, t) <=> Promise!Happened(r.superseded_at, t)
  BY <1>1, RegistrationTimesAgree, LifecycleAgrees, SupersededAgrees
<1>3. \A e \in Promise!ForSource(d) : e \in EvidenceRecord /\ ItemParses(e)
  BY EvidenceTimesAgree, DocumentParts, SharedVocabulary DEF Promise!ForSource
<1>4. \A e \in Promise!ForSource(d) :
        LET w == e.admission_warrant
        IN  /\ ItemNotYetEffective(e, t) <=> ~(Promise!Started(e, t) /\ Promise!Started(w, t))
            /\ ItemExpired(e, t) <=> Promise!Ended(e, t) \/ Promise!Ended(w, t)
            /\ ItemSuperseded(e, t) <=> Promise!Happened(e.superseded_at, t)
            /\ ItemRevoked(e, t) <=> Promise!Dead(e, t)
            /\ Operative(e, t, d.jurisdiction, d.applicability) <=> Promise!InForce(e, d)
  BY <1>1, <1>3, ItemAgrees
<1>5. W \subseteq Promise!ForSource(d)
  BY NarrowingAgrees
<1>6. Promise!NothingStarted(d) <=>
        NotYetEffective(r, t) \/ \A e \in W : ItemNotYetEffective(e, t)
  BY <1>2, <1>4, <1>5 DEF Promise!NothingStarted
<1>7. Promise!AllEnded(d) <=> Expired(r, t) \/ \A e \in W : ItemExpired(e, t)
  BY <1>2, <1>4, <1>5 DEF Promise!AllEnded
<1>8. Promise!AllSuperseded(d) <=> Superseded(r, t) \/ \A e \in W : ItemSuperseded(e, t)
  BY <1>2, <1>4, <1>5 DEF Promise!AllSuperseded
<1>9. Promise!AllDead(d) <=> Revoked(r, t) \/ \A e \in W : ItemRevoked(e, t)
  BY <1>2, <1>4, <1>5 DEF Promise!AllDead
<1>10. Promise!Conflict(d) <=>
        \E e, f \in {g \in Promise!ForSource(d) : Operative(g, t, d.jurisdiction, d.applicability)} :
            e.authority_basis_ref # f.authority_basis_ref
  BY <1>4 DEF Promise!Conflict
<1>11. Promise!NothingInForce(d) <=>
        ~\E e \in W : Operative(e, t, d.jurisdiction, d.applicability)
  BY <1>4, <1>5 DEF Promise!NothingInForce
<1> QED
  BY <1>6, <1>7, <1>8, <1>9, <1>10, <1>11

-----------------------------------------------------------------------------
(* The inductive invariant.                                                *)

LEMMA DoneIsNoCheck == "done" \notin Check /\ Undecided \notin Outcome
BY CheckNames DEF Undecided, Outcome, AdmissionState, InputBoundaryError, EvaluatorFault

(* It holds before the first check. *)
LEMMA InitIInv == Init => IInv
<1> SUFFICES ASSUME Init PROVE IInv
  OBVIOUS
<1>1. TypeOK
  BY InitTypeOK
<1>2. check = "encoding" /\ check \in Check /\ index = 1 /\ outcome = Undecided
  BY CheckNames DEF Init
<1>3. \A c \in Check : ~Past(c)
  BY <1>2, PositionsDistinct DEF Past, Position
<1>4. Narrowed
  BY <1>3, CheckNames DEF Narrowed
<1>5. EvidenceSoFar
  BY <1>2 DEF EvidenceSoFar
<1> QED
  BY <1>1, <1>2, <1>3, <1>4, <1>5 DEF IInv, NothingFired, DecidedByFirst

(* A check, before which nothing fires, that ends the evaluation if its    *)
(* condition holds and otherwise hands on to the check in the next         *)
(* position, preserves the invariant once the narrowed sets are right.     *)
LEMMA CheckStep ==
    ASSUME IInv, TypeOK', UNCHANGED doc, Narrowed', EvidenceSoFar',
           check # "done",
           NEW c \in Check, NEW n \in Check, Position[n] = Position[c] + 1,
           \A b \in Check : Position[b] < Position[c] => ~Promise!Fires(doc, b),
           \/ Promise!Fires(doc, c) /\ check' = "done" /\ outcome' = Verdict[c]
           \/ ~Promise!Fires(doc, c) /\ check' = n /\ UNCHANGED outcome
    PROVE  IInv'
<1>1. \A b \in Check : Position[b] < Position[c] => ~Promise!Fires(doc, b)
  OBVIOUS
<1>2. outcome = Undecided
  BY DEF IInv
<1>3. CASE Promise!Fires(doc, c) /\ check' = "done" /\ outcome' = Verdict[c]
  <2>1. Promise!DecidedBy(doc, c)
    BY <1>1, <1>3, FirstToFire
  <2>3. DecidedByFirst'
    BY <1>3, <2>1 DEF DecidedByFirst
  <2>4. NothingFired'
    BY <1>3 DEF NothingFired, Past
  <2>5. outcome' # Undecided
    BY <1>3, VerdictType, DoneIsNoCheck
  <2> QED
    BY <1>3, <2>3, <2>4, <2>5 DEF IInv, Undecided
<1>4. CASE ~Promise!Fires(doc, c) /\ check' = n /\ UNCHANGED outcome
  <2>1. \A b \in Check : Position[b] < Position[n] => ~Promise!Fires(doc, b)
    <3> SUFFICES ASSUME NEW b \in Check, Position[b] < Position[n]
                 PROVE  ~Promise!Fires(doc, b)
      OBVIOUS
    <3>1. Position[b] < Position[c] \/ Position[b] = Position[c]
      BY PositionsDistinct
    <3> QED
      BY <3>1, <1>1, <1>4, PositionsDistinct
  <2>2. NothingFired'
    BY <2>1, <1>4 DEF NothingFired, Past
  <2>3. check' # "done" /\ outcome' = Undecided
    BY <1>2, <1>4, DoneIsNoCheck
  <2>4. DecidedByFirst'
    BY <2>3 DEF DecidedByFirst
  <2> QED
    BY <2>2, <2>3, <2>4 DEF IInv, Undecided
<1> QED
  BY <1>3, <1>4

(* Only these four checks write a narrowed set. *)
NarrowingCheck == {"evidence_times", "version", "digest", "scope"}

(* A check that narrows nothing leaves the narrowed sets right. *)
LEMMA QuietNarrowed ==
    ASSUME Narrowed, UNCHANGED <<doc, narrowing>>,
           NEW c \in Check \ NarrowingCheck, NEW n \in Check,
           check = c, Position[n] = Position[c] + 1, check' \in {n, "done"}
    PROVE  Narrowed'
<1>1. NarrowingCheck \subseteq Check
  BY CheckNames DEF NarrowingCheck
<1>2. ASSUME NEW x \in NarrowingCheck, Past(x)' PROVE Past(x)
  <2>1. Position[x] < Position[n]
    BY <1>2 DEF Past
  <2>2. Position[x] < Position[c]
    BY <1>1, <2>1, PositionsDistinct
  <2> QED
    BY <2>2, DoneIsNoCheck DEF Past
<1> QED
  BY <1>2 DEF Narrowed, narrowing, NarrowingCheck

(* A check that writes only the control variables preserves the invariant. *)
LEMMA QuietStep ==
    ASSUME IInv, UNCHANGED <<doc, index, narrowing>>,
           NEW c \in Check \ NarrowingCheck, NEW n \in Check,
           check = c, Position[n] = Position[c] + 1,
           \/ Promise!Fires(doc, c) /\ check' = "done" /\ outcome' = Verdict[c]
           \/ ~Promise!Fires(doc, c) /\ check' = n /\ UNCHANGED outcome
    PROVE  IInv'
<1>1. TypeOK'
  BY QuietStepType, VerdictType DEF IInv, TypeOK
<1>2. Narrowed'
  BY QuietNarrowed DEF IInv
<1>3. EvidenceSoFar'
  BY DEF IInv, EvidenceSoFar, OutOfOrder, evidence
<1>4. /\ check # "done"
      /\ \A b \in Check : Position[b] < Position[c] => ~Promise!Fires(doc, b)
  BY DoneIsNoCheck DEF IInv, NothingFired, Past
<1> QED
  BY <1>1, <1>2, <1>3, <1>4, CheckStep

-----------------------------------------------------------------------------
(* Every action preserves it.                                              *)

(* The loop over the evidence: order is decided before integrity, item by  *)
(* item, and leaving the loop establishes both for every item.             *)
LEMMA EvidenceLoopStep == IInv /\ RequireEvidenceIntegrity => IInv'
<1> SUFFICES ASSUME IInv, RequireEvidenceIntegrity PROVE IInv'
  OBVIOUS
<1>1. /\ evidence \in Seq(EvidenceRecord) /\ evidence = doc.authority_evidence
      /\ index \in 1..(Len(evidence) + 1)
  BY DocumentParts DEF IInv, TypeOK, evidence
<1>2. DOMAIN evidence = 1..Len(evidence)
  BY <1>1
<1>3. TypeOK'
  BY ByteBoundaryTypeOK DEF IInv, ByteBoundary
<1>4. Narrowed'
  BY DEF RequireEvidenceIntegrity, Decide, HandOn, Narrowed, Past, Position
<1>5. \A i \in DOMAIN evidence : OutOfOrder(evidence, i) <=> Promise!Disordered(doc, i)
  BY <1>1, <1>2 DEF OutOfOrder, Promise!Disordered
<1>6. /\ check = "evidence_order" /\ check # "done"
      /\ \A b \in Check : Position[b] < Position["evidence_order"] => ~Promise!Fires(doc, b)
  BY DEF RequireEvidenceIntegrity, IInv, NothingFired, Past
<1>7. CASE index \in DOMAIN evidence /\ OutOfOrder(evidence, index)
  <2>1. Promise!OrderBroken(doc)
    BY <1>1, <1>2, <1>5, <1>7
       DEF IInv, EvidenceSoFar, Promise!OrderBroken, Promise!Intact, Intact
  <2> QED
    BY <1>6, <1>7, <2>1, QuietStep, FiresMeans, CheckNames
       DEF RequireEvidenceIntegrity, Decide, Position, NarrowingCheck
<1>8. CASE index \in DOMAIN evidence /\ ~OutOfOrder(evidence, index) /\ ~Intact(evidence[index])
  <2>1. Promise!DigestBroken(doc)
    BY <1>1, <1>8 DEF Promise!DigestBroken, Promise!Intact, Intact
  <2>2. ~Promise!OrderBroken(doc)
    <3> SUFFICES ASSUME NEW i \in DOMAIN evidence, Promise!Disordered(doc, i),
                        \A j \in 1..(i - 1) : Intact(evidence[j])
                 PROVE  FALSE
      BY <1>1 DEF Promise!OrderBroken, Promise!Intact, Intact
    <3>1. ~(i \in 1..(index - 1)) /\ i # index
      BY <1>5, <1>8 DEF IInv, EvidenceSoFar
    <3> QED
      BY <1>1, <1>2, <1>8, <3>1
  <2>3. \A b \in Check : Position[b] < Position["evidence_digest"] => ~Promise!Fires(doc, b)
    BY <1>6, <2>2, FiresMeans, PositionsDistinct, CheckNames DEF Position
  <2>4. EvidenceSoFar'
    BY <1>8 DEF RequireEvidenceIntegrity, IInv, EvidenceSoFar, OutOfOrder, evidence
  <2> QED
    BY <1>3, <1>4, <1>6, <1>8, <2>1, <2>3, <2>4, CheckStep, FiresMeans, CheckNames
       DEF RequireEvidenceIntegrity, Decide, Position
<1>9. CASE index \in DOMAIN evidence /\ ~OutOfOrder(evidence, index) /\ Intact(evidence[index])
  <2>1. index' = index + 1 /\ UNCHANGED <<check, outcome, doc, narrowing>>
    BY <1>9 DEF RequireEvidenceIntegrity
  <2>2. EvidenceSoFar'
    <3>1. \A i \in 1..(index' - 1) : i \in 1..(index - 1) \/ i = index
      BY <1>1, <2>1
    <3>2. \A i \in 1..(index' - 1) : ~OutOfOrder(evidence, i) /\ Intact(evidence[i])
      BY <1>9, <3>1 DEF IInv, EvidenceSoFar
    <3> QED
      BY <2>1, <3>2 DEF EvidenceSoFar, OutOfOrder, Intact, evidence
  <2> QED
    BY <1>3, <1>4, <2>1, <2>2 DEF IInv, NothingFired, Past, DecidedByFirst
<1>10. CASE index \notin DOMAIN evidence
  <2>1. index = Len(evidence) + 1
    BY <1>1, <1>2, <1>10
  <2>2. \A i \in DOMAIN evidence : ~OutOfOrder(evidence, i) /\ Intact(evidence[i])
    BY <1>1, <1>2, <2>1 DEF IInv, EvidenceSoFar
  <2>3. ~Promise!OrderBroken(doc) /\ ~Promise!DigestBroken(doc)
    BY <1>1, <1>5, <2>2 DEF Promise!OrderBroken, Promise!DigestBroken, Promise!Intact, Intact
  <2>4. \A b \in Check : Position[b] < Position["evidence_digest"] => ~Promise!Fires(doc, b)
    BY <1>6, <2>3, FiresMeans, PositionsDistinct, CheckNames DEF Position
  <2>5. EvidenceSoFar'
    <3>1. UNCHANGED <<index, doc>>
      BY <1>10 DEF RequireEvidenceIntegrity, HandOn
    <3> QED BY <3>1 DEF IInv, EvidenceSoFar, OutOfOrder, evidence
  <2> QED
    BY <1>3, <1>4, <1>6, <1>10, <2>3, <2>4, <2>5, CheckStep, FiresMeans, CheckNames
       DEF RequireEvidenceIntegrity, HandOn, Position
<1> QED
  BY <1>7, <1>8, <1>9, <1>10

LEMMA ByteBoundaryStep == IInv /\ ByteBoundary => IInv'
<1> SUFFICES ASSUME IInv, ByteBoundary PROVE IInv'
  OBVIOUS
<1> USE QuietStep, FiresMeans, CheckNames DEF Test, TestThen, Decide, HandOn, Position, NarrowingCheck
<1>1. CASE RequireEncoding
  BY <1>1 DEF RequireEncoding
<1>2. CASE RequireJSON
  BY <1>2 DEF RequireJSON
<1>3. CASE RequireFinite
  BY <1>3 DEF RequireFinite
<1>4. CASE RequireEncodable
  BY <1>4 DEF RequireEncodable
<1>5. CASE RequireCanonical
  BY <1>5 DEF RequireCanonical
<1>6. CASE RequireSchemaValid
  BY <1>6 DEF RequireSchemaValid
<1>7. CASE RequireFrozenRuleset
  BY <1>7 DEF RequireFrozenRuleset
<1>8. CASE RequireEvidenceIntegrity
  BY <1>8, EvidenceLoopStep
<1> QED
  BY <1>1, <1>2, <1>3, <1>4, <1>5, <1>6, <1>7, <1>8 DEF ByteBoundary

(* What an evaluation knows when it comes to a check. *)
LEMMA Known ==
    ASSUME IInv, check # "done", NEW c \in Check, Position[c] < Position[check]
    PROVE  ~Promise!Fires(doc, c)
BY DEF IInv, NothingFired, Past

(* From the version check on, the evidence for the source is parsed and at hand. *)
LEMMA RelevantKnown ==
    ASSUME IInv, check # "done", Position["evidence_times"] < Position[check]
    PROVE  relevant = Promise!ForSource(doc)
BY DEF IInv, Narrowed, Past

(* From the lifecycle checks on, every relevant instant is parsed. *)
LEMMA LifecycleKnown ==
    ASSUME IInv, check # "done", Position["registration_times"] < Position[check]
    PROVE  /\ doc \in Document
           /\ at # Unnormalized
           /\ ~Promise!EvidenceUnparsed(doc) /\ ~Promise!RegistrationUnparsed(doc)
           /\ relevant = Promise!ForSource(doc) /\ scoped = Promise!Warranting(doc)
<1>1. check \in Check /\ Position[check] \in Nat
  <2>1. check \in Check
    BY DEF IInv, TypeOK
  <2> QED
    BY <2>1, PositionsDistinct
<1>2. \A c \in {"evaluation_time", "evidence_times", "version", "digest", "scope", "registration_times"} :
        c \in Check /\ Position[c] \in Nat /\ Position[c] <= Position["registration_times"]
  BY CheckNames DEF Position
<1>3. \A c \in {"evaluation_time", "evidence_times", "version", "digest", "scope", "registration_times"} :
        Past(c) /\ ~Promise!Fires(doc, c)
  BY <1>1, <1>2, Known DEF Past
<1>4. relevant = Promise!ForSource(doc) /\ scoped = Promise!Warranting(doc)
  BY <1>3 DEF IInv, Narrowed
<1> QED
  BY <1>3, <1>4, FiresMeans DEF IInv, TypeOK, at

(* The four checks that narrow the evidence. *)
LEMMA CollectRelevantStep == IInv /\ CollectRelevant => IInv'
<1> SUFFICES ASSUME IInv, CollectRelevant PROVE IInv'
  OBVIOUS
<1>1. TypeOK'
  BY EvaluateStateTypeOK DEF IInv, EvaluateState
<1>2. check = "evidence_times" /\ check # "done" /\ doc \in Document /\ UNCHANGED <<doc, index>>
  BY DEF CollectRelevant, TestThen, IInv, TypeOK
<1>3. relevant' = Promise!ForSource(doc)
  BY SharedVocabulary DEF CollectRelevant, Promise!ForSource, registration
<1>4. check' \in {"version", "done"}
  BY DEF CollectRelevant, TestThen, Decide, HandOn
<1>5. Narrowed'
  BY <1>2, <1>3, <1>4 DEF Narrowed, Past, Position, Promise!ForSource
<1>6. EvidenceSoFar'
  BY <1>2 DEF IInv, EvidenceSoFar, OutOfOrder, evidence
<1>7. \/ Promise!Fires(doc, "evidence_times") /\ check' = "done" /\ outcome' = Verdict["evidence_times"]
      \/ ~Promise!Fires(doc, "evidence_times") /\ check' = "version" /\ UNCHANGED outcome
  BY <1>2, <1>3, EvidenceTimesAgree, FiresMeans DEF CollectRelevant, TestThen, Decide, HandOn
<1> QED
  BY <1>1, <1>2, <1>5, <1>6, <1>7, CheckStep, CheckNames, Known DEF Position

LEMMA CheckVersionStep == IInv /\ CheckVersion => IInv'
<1> SUFFICES ASSUME IInv, CheckVersion PROVE IInv'
  OBVIOUS
<1>1. TypeOK'
  BY EvaluateStateTypeOK DEF IInv, EvaluateState
<1>2. check = "version" /\ check # "done" /\ doc \in Document /\ UNCHANGED <<doc, index, relevant>>
  BY DEF CheckVersion, TestThen, IInv, TypeOK
<1>3. relevant = Promise!ForSource(doc)
  BY <1>2, RelevantKnown DEF Position
<1>4. version_bound' = Promise!ForVersion(doc)
  BY <1>3, NarrowingAgrees DEF CheckVersion, registration
<1>5. check' \in {"digest", "done"}
  BY DEF CheckVersion, TestThen, Decide, HandOn
<1>6. Narrowed'
  BY <1>2, <1>3, <1>4, <1>5 DEF Narrowed, Past, Position
<1>7. EvidenceSoFar'
  BY <1>2 DEF IInv, EvidenceSoFar, OutOfOrder, evidence
<1>8. Promise!VersionMismatch(doc) <=> evidence # <<>> /\ version_bound' = {}
  BY <1>2, <1>4, EvidencePresent, SharedVocabulary DEF Promise!VersionMismatch, evidence
<1>9. \/ Promise!Fires(doc, "version") /\ check' = "done" /\ outcome' = Verdict["version"]
      \/ ~Promise!Fires(doc, "version") /\ check' = "digest" /\ UNCHANGED outcome
  BY <1>8, FiresMeans DEF CheckVersion, TestThen, Decide, HandOn
<1> QED
  BY <1>1, <1>2, <1>6, <1>7, <1>9, CheckStep, CheckNames, Known DEF Position

LEMMA CheckDigestStep == IInv /\ CheckDigest => IInv'
<1> SUFFICES ASSUME IInv, CheckDigest PROVE IInv'
  OBVIOUS
<1>1. TypeOK'
  BY EvaluateStateTypeOK DEF IInv, EvaluateState
<1>2. /\ check = "digest" /\ check # "done" /\ doc \in Document
      /\ UNCHANGED <<doc, index, relevant, version_bound>>
  BY DEF CheckDigest, TestThen, IInv, TypeOK
<1>3. relevant = Promise!ForSource(doc) /\ version_bound = Promise!ForVersion(doc)
  BY <1>2 DEF IInv, Narrowed, Past, Position
<1>4. bound' = Promise!ForInstance(doc)
  BY <1>3, NarrowingAgrees DEF CheckDigest, registration
<1>5. check' \in {"authority", "done"}
  BY DEF CheckDigest, TestThen, Decide, HandOn
<1>6. Narrowed'
  BY <1>2, <1>3, <1>4, <1>5 DEF Narrowed, Past, Position
<1>7. EvidenceSoFar'
  BY <1>2 DEF IInv, EvidenceSoFar, OutOfOrder, evidence
<1>8. Promise!DigestMismatch(doc) <=>
        \/ \E a \in doc.source_anchors : a.content_hash # registration.source_digest
        \/ evidence # <<>> /\ bound' = {}
  BY <1>2, <1>4, EvidencePresent, SharedVocabulary DEF Promise!DigestMismatch, evidence, registration
<1>9. \/ Promise!Fires(doc, "digest") /\ check' = "done" /\ outcome' = Verdict["digest"]
      \/ ~Promise!Fires(doc, "digest") /\ check' = "authority" /\ UNCHANGED outcome
  BY <1>8, FiresMeans DEF CheckDigest, TestThen, Decide, HandOn
<1> QED
  BY <1>1, <1>2, <1>6, <1>7, <1>9, CheckStep, CheckNames, Known DEF Position

LEMMA CheckScopeStep == IInv /\ CheckScope => IInv'
<1> SUFFICES ASSUME IInv, CheckScope PROVE IInv'
  OBVIOUS
<1>1. TypeOK'
  BY EvaluateStateTypeOK DEF IInv, EvaluateState
<1>2. /\ check = "scope" /\ check # "done" /\ doc \in Document
      /\ UNCHANGED <<doc, index, relevant, version_bound, bound>>
  BY DEF CheckScope, TestThen, IInv, TypeOK
<1>3. /\ relevant = Promise!ForSource(doc) /\ version_bound = Promise!ForVersion(doc)
      /\ bound = Promise!ForInstance(doc)
  BY <1>2 DEF IInv, Narrowed, Past, Position
<1>4. scoped' = Promise!Warranting(doc)
  BY <1>3, NarrowingAgrees DEF CheckScope
<1>5. check' \in {"registration_times", "done"}
  BY DEF CheckScope, TestThen, Decide, HandOn
<1>6. Narrowed'
  BY <1>2, <1>3, <1>4, <1>5 DEF Narrowed, Past, Position
<1>7. EvidenceSoFar'
  BY <1>2 DEF IInv, EvidenceSoFar, OutOfOrder, evidence
<1>8. Promise!OutOfScope(doc) <=>
        ~Covers(registration, doc.jurisdiction, doc.applicability) \/ scoped' = {}
  BY <1>4, ScopeAgrees DEF Promise!OutOfScope, registration
<1>9. \/ Promise!Fires(doc, "scope") /\ check' = "done" /\ outcome' = Verdict["scope"]
      \/ ~Promise!Fires(doc, "scope") /\ check' = "registration_times" /\ UNCHANGED outcome
  BY <1>8, FiresMeans DEF CheckScope, TestThen, Decide, HandOn
<1> QED
  BY <1>1, <1>2, <1>6, <1>7, <1>9, CheckStep, CheckNames, Known DEF Position

(* The checks that only read. *)
LEMMA EvaluateStateStep == IInv /\ EvaluateState => IInv'
<1> SUFFICES ASSUME IInv, EvaluateState PROVE IInv'
  OBVIOUS
<1> USE QuietStep, FiresMeans, CheckNames DEF Test, TestThen, Decide, HandOn, Position, NarrowingCheck
<1>1. CASE ParseEvaluationTime
  BY <1>1 DEF ParseEvaluationTime, at
<1>2. CASE CheckCandidate
  BY <1>2 DEF CheckCandidate, registration, Promise!AnchorsInvalid
<1>3. CASE CheckAvailability
  BY <1>3 DEF CheckAvailability, registration
<1>4. CASE CheckFreshness
  <2>1. registration.availability # "UNAVAILABLE"
    BY <1>4, Known DEF CheckFreshness, registration
  <2>2. doc.source_registration \in RegistrationRecord
    BY DocumentParts DEF IInv, TypeOK
  <2>3. registration.availability = "AVAILABLE"
    BY <2>1, <2>2 DEF RegistrationRecord, registration
  <2> QED
    BY <1>4, <2>3 DEF CheckFreshness, registration
<1>5. CASE CheckRegistered
  BY <1>5 DEF CheckRegistered, registration
<1>6. CASE CollectRelevant
  BY <1>6, CollectRelevantStep
<1>7. CASE CheckVersion
  BY <1>7, CheckVersionStep
<1>8. CASE CheckDigest
  BY <1>8, CheckDigestStep
<1>9. CASE CheckAuthority
  <2>1. bound = Promise!ForInstance(doc)
    BY <1>9, SMTT(30) DEF CheckAuthority, IInv, Narrowed, Past
  <2> QED
    BY <1>9, <2>1, SMTT(30) DEF CheckAuthority
<1>10. CASE CheckScope
  BY <1>10, CheckScopeStep
<1>11. CASE ParseRegistrationTimes
  <2>1. Promise!RegistrationUnparsed(doc) <=> ~LifecycleParses(registration)
    BY RegistrationTimesAgree DEF IInv, TypeOK, registration
  <2> QED
    BY <1>11, <2>1 DEF ParseRegistrationTimes
<1> DEFINE lifecycle == /\ doc \in Document
                        /\ at # Unnormalized
                        /\ ~Promise!EvidenceUnparsed(doc) /\ ~Promise!RegistrationUnparsed(doc)
                        /\ relevant = Promise!ForSource(doc) /\ scoped = Promise!Warranting(doc)
<1>12. CASE CheckNotYetEffective
  <2>1. lifecycle
    BY <1>12, LifecycleKnown DEF CheckNotYetEffective
  <2>2. Promise!NothingStarted(doc) <=>
          NotYetEffective(registration, at) \/ \A e \in scoped : ItemNotYetEffective(e, at)
    BY <2>1, LifecycleChecksAgree DEF at, registration
  <2> QED
    BY <1>12, <2>2 DEF CheckNotYetEffective
<1>13. CASE CheckExpired
  <2>1. lifecycle
    BY <1>13, LifecycleKnown DEF CheckExpired
  <2>2. Promise!AllEnded(doc) <=> Expired(registration, at) \/ \A e \in scoped : ItemExpired(e, at)
    BY <2>1, LifecycleChecksAgree DEF at, registration
  <2> QED
    BY <1>13, <2>2 DEF CheckExpired
<1>14. CASE CheckSuperseded
  <2>1. lifecycle
    BY <1>14, LifecycleKnown DEF CheckSuperseded
  <2>2. Promise!AllSuperseded(doc) <=>
          Superseded(registration, at) \/ \A e \in scoped : ItemSuperseded(e, at)
    BY <2>1, LifecycleChecksAgree DEF at, registration
  <2> QED
    BY <1>14, <2>2 DEF CheckSuperseded
<1>15. CASE CheckRevoked
  <2>1. lifecycle
    BY <1>15, LifecycleKnown DEF CheckRevoked
  <2>2. Promise!AllDead(doc) <=> Revoked(registration, at) \/ \A e \in scoped : ItemRevoked(e, at)
    BY <2>1, LifecycleChecksAgree DEF at, registration
  <2> QED
    BY <1>15, <2>2 DEF CheckRevoked
<1>16. CASE CheckConflict
  <2>1. lifecycle
    BY <1>16, LifecycleKnown DEF CheckConflict
  <2>2. Promise!Conflict(doc) <=>
          \E e, f \in {g \in relevant : Operative(g, at, doc.jurisdiction, doc.applicability)} :
              e.authority_basis_ref # f.authority_basis_ref
    BY <2>1, LifecycleChecksAgree DEF at
  <2> QED
    BY <1>16, <2>2 DEF CheckConflict
<1>17. CASE CheckEstablished
  <2>1. lifecycle
    BY <1>17, LifecycleKnown DEF CheckEstablished
  <2>2. Promise!NothingInForce(doc) <=>
          ~\E e \in scoped : Operative(e, at, doc.jurisdiction, doc.applicability)
    BY <2>1, LifecycleChecksAgree DEF at
  <2> QED
    BY <1>17, <2>2 DEF CheckEstablished
<1>18. CASE Admit
  <2>1. /\ TypeOK' /\ Narrowed' /\ EvidenceSoFar'
    BY <1>18, EvaluateStateTypeOK DEF Admit, EvaluateState, IInv, Narrowed, Past, EvidenceSoFar,
       OutOfOrder, evidence
  <2>2. Promise!DecidedBy(doc, "admitted")
    BY <1>18, Known, FirstToFire DEF Admit
  <2>3. check' = "done" /\ outcome' = Verdict["admitted"] /\ outcome' # Undecided /\ UNCHANGED doc
    BY <1>18 DEF Admit, Verdict, Undecided
  <2> QED
    BY <2>1, <2>2, <2>3 DEF IInv, NothingFired, Past, DecidedByFirst, Undecided
<1> QED
  BY <1>1, <1>2, <1>3, <1>4, <1>5, <1>6, <1>7, <1>8, <1>9, <1>10, <1>11, <1>12,
     <1>13, <1>14, <1>15, <1>16, <1>17, <1>18 DEF EvaluateState

(* The invariant holds throughout. *)
THEOREM Invariance == Spec => []IInv
<1>1. IInv /\ UNCHANGED vars => IInv'
  BY QuietStepType DEF vars, narrowing, IInv, TypeOK, NothingFired, EvidenceSoFar, Narrowed,
     DecidedByFirst, Past, OutOfOrder, evidence
<1>2. IInv /\ [Next]_vars => IInv'
  BY <1>1, ByteBoundaryStep, EvaluateStateStep DEF Next
<1> QED
  BY InitIInv, <1>2, PTL DEF Spec

-----------------------------------------------------------------------------
(* What follows from the invariant.                                        *)

(* An admitted document fires no check but the last. *)
LEMMA AdmittedPassedAll ==
    ASSUME IInv, outcome = "ADMITTED"
    PROVE  \A c \in Check \ {"admitted"} : ~Promise!Fires(doc, c)
<1>1. check = "done"
  BY DEF IInv, Undecided
<1>2. PICK c \in Check : Promise!DecidedBy(doc, c) /\ outcome = Verdict[c]
  BY <1>1 DEF IInv, DecidedByFirst
<1>3. c = "admitted"
  BY <1>2, CheckNames DEF Verdict
<1>4. \A b \in Check \ {"admitted"} : Position[b] < Position["admitted"]
  BY CheckNames DEF Position
<1> QED
  BY <1>2, <1>3, <1>4, SharedVocabulary DEF Promise!DecidedBy

(* A bound that is null or ahead has not been reached. *)
LEMMA NotReached ==
    ASSUME NEW x \in Nullable, x # Unnormalized, NEW t \in Nat, ~Promise!Happened(x, t)
    PROVE  x = Null \/ t < x
BY InstantReached DEF Nullable, Timestamp

(* Admission is sound: every condition the contract names holds of the     *)
(* admitted document, and all of those on evidence and warrant of a single *)
(* evidence object (admission.py, evaluate_admission_bytes).               *)
THEOREM AdmissionSound == Spec => []Soundness
<1>1. IInv => Soundness
  <2> SUFFICES ASSUME IInv, outcome = "ADMITTED" PROVE Soundness
    BY DEF Soundness
  <2> DEFINE r == doc.source_registration
             t == doc.evaluation_time
  <2>1. \A c \in Check \ {"admitted"} : ~Promise!Fires(doc, c)
    BY AdmittedPassedAll
  <2>2. doc \in Document
    BY DEF IInv, TypeOK
  <2>3. /\ doc.wire = {}
    <3>1. doc.wire \subseteq WireDefects
      BY <2>2, DocumentParts
    <3>2. "schema" \notin doc.wire
      BY <2>1, FiresMeans, CheckNames DEF ViolatesSchema
    <3> QED
      BY <2>1, <3>1, <3>2, FiresMeans, CheckNames DEF WireDefects
  <2>4. /\ ~Promise!DigestBroken(doc) /\ t # Unnormalized /\ ~Promise!AnchorsInvalid(doc)
        /\ r.availability # "UNAVAILABLE" /\ r.freshness # "STALE" /\ r.registered
        /\ ~Promise!EvidenceUnparsed(doc) /\ ~Promise!DigestMismatch(doc)
        /\ ~Promise!OutOfScope(doc) /\ ~Promise!RegistrationUnparsed(doc)
        /\ ~Promise!NothingStarted(doc) /\ ~Promise!AllEnded(doc)
        /\ ~Promise!AllSuperseded(doc) /\ ~Promise!AllDead(doc)
        /\ ~Promise!NothingInForce(doc)
    BY <2>1, FiresMeans, CheckNames
  <2>5. t \in Nat /\ r \in RegistrationRecord
    BY <2>2, <2>4, DocumentParts DEF Timestamp
  <2>6. r.availability = "AVAILABLE"
    BY <2>4, <2>5 DEF RegistrationRecord
  <2>7. Covers(r, doc.jurisdiction, doc.applicability)
    BY <2>4, ScopeAgrees DEF Promise!OutOfScope
  <2>8. ParsedFields(r) /\ r.superseded_at \in Nullable \ {Unnormalized}
    BY <2>2, <2>4, RegistrationTimesAgree
  <2>9. /\ Promise!Started(r, t) /\ ~Promise!Ended(r, t)
        /\ ~Promise!Happened(r.superseded_at, t) /\ ~Promise!Happened(r.revoked_at, t)
    BY <2>4 DEF Promise!NothingStarted, Promise!AllEnded, Promise!AllSuperseded, Promise!AllDead
  <2>10. ASSUME NEW x, ParsedFields(x), Promise!Started(x, t), ~Promise!Ended(x, t),
                ~Promise!Happened(x.revoked_at, t)
         PROVE  Within(x, t)
    <3>1. ~NotYetEffective(x, t)
      BY <2>5, <2>10, LifecycleAgrees
    <3>2. x.effective_from \in Nat
      BY <2>10 DEF ParsedFields
    <3>3. x.effective_from <= t
      BY <2>5, <3>1, <3>2 DEF NotYetEffective
    <3>4. (x.effective_until = Null \/ t < x.effective_until) /\ (x.revoked_at = Null \/ t < x.revoked_at)
      BY <2>5, <2>10, NotReached DEF ParsedFields, Promise!Ended
    <3> QED
      BY <3>3, <3>4 DEF Within
  <2>11. Within(r, t) /\ (r.superseded_at = Null \/ t < r.superseded_at)
    BY <2>5, <2>8, <2>9, <2>10, NotReached
  <2>12. \A a \in doc.source_anchors :
           a = [source_id |-> r.source_id, content_hash |-> r.source_digest]
    <3>1. doc.source_anchors \subseteq Anchor
      BY <2>2, DocumentParts
    <3>2. \A a \in doc.source_anchors :
            a.source_id = r.source_id /\ a.content_hash = r.source_digest
      BY <2>4 DEF Promise!AnchorsInvalid, Promise!DigestMismatch
    <3> QED
      BY <3>1, <3>2 DEF Anchor
  <2>13. PICK e \in Promise!Warranting(doc) : Promise!InForce(e, doc)
    BY <2>4 DEF Promise!NothingInForce
  <2>14. e \in Promise!ForSource(doc) /\ e \in EvidenceOf(doc) /\ e \in EvidenceRecord
    BY <2>2, NarrowingAgrees, SharedVocabulary, DocumentParts DEF Promise!ForSource
  <2>15. ItemParses(e)
    BY <2>2, <2>4, <2>14, EvidenceTimesAgree
  <2>16. /\ ParsedFields(e) /\ ParsedFields(e.admission_warrant)
         /\ e.superseded_at \in Nullable \ {Unnormalized}
    BY <2>14, <2>15, ItemParsed
  <2>17. Within(e, t) /\ Within(e.admission_warrant, t) /\ (e.superseded_at = Null \/ t < e.superseded_at)
    BY <2>5, <2>10, <2>13, <2>16, NotReached DEF Promise!InForce
  <2>18. Intact(e)
    BY <2>4, <2>14 DEF Promise!DigestBroken, Promise!Intact, Intact, EvidenceOf
  <2>19. /\ e.source_id = r.source_id
         /\ {e.source_version, e.admission_warrant.source_version} = {r.source_version}
         /\ {e.source_digest, e.admission_warrant.source_digest} = {r.source_digest}
    BY <2>13, <2>14 DEF Promise!Warranting, Promise!ForInstance, Promise!ForVersion, Promise!ForSource
  <2>20. /\ {e.jurisdiction, e.admission_warrant.jurisdiction} = {doc.jurisdiction}
         /\ doc.applicability \in e.applicability_scope \cap e.admission_warrant.applicability_scope
         /\ e.admission_warrant.status = "ACTIVE"
    BY <2>13 DEF Promise!InForce, Promise!InScope, Promise!Reaches
  <2>21. Establishes(e, doc)
    BY <2>17, <2>18, <2>19, <2>20 DEF Establishes
  <2> QED
    BY <2>3, <2>4, <2>6, <2>7, <2>11, <2>12, <2>14, <2>21 DEF Soundness, registration, at
<1> QED
  BY Invariance, <1>1, PTL

(* No authority in force over the same source and scope disputes an        *)
(* admission, whatever version or digest it speaks to.                     *)
THEOREM AdmissionUndisputed == Spec => []Undisputed
<1>1. IInv => Undisputed
  <2> SUFFICES ASSUME IInv, outcome = "ADMITTED" PROVE Undisputed
    BY DEF Undisputed
  <2>1. doc \in Document
    BY DEF IInv, TypeOK
  <2>2. /\ doc.evaluation_time # Unnormalized /\ ~Promise!EvidenceUnparsed(doc)
        /\ ~Promise!RegistrationUnparsed(doc) /\ ~Promise!Conflict(doc)
    BY AdmittedPassedAll, FiresMeans, CheckNames
  <2>3. ~\E e, f \in {g \in Promise!ForSource(doc) :
                       Operative(g, doc.evaluation_time, doc.jurisdiction, doc.applicability)} :
          e.authority_basis_ref # f.authority_basis_ref
    BY <2>1, <2>2, LifecycleChecksAgree
  <2> QED
    BY <2>3, SharedVocabulary DEF Undisputed, Promise!ForSource, at, registration
<1> QED
  BY Invariance, <1>1, PTL

(* No lifecycle check is decided by an empty set of evidence, and every    *)
(* instant it compares has been parsed (admission.py, _all).               *)
THEOREM LifecycleChecksGrounded == Spec => []LifecycleNeverVacuous
<1>1. IInv => LifecycleNeverVacuous
  <2> SUFFICES ASSUME IInv, check \in {"not_yet_effective", "expired", "superseded", "revoked"}
               PROVE  LifecycleNeverVacuous
    BY DEF LifecycleNeverVacuous
  <2>1. check # "done" /\ Position["registration_times"] < Position[check] /\ Position["scope"] < Position[check]
    BY DEF Position
  <2>2. /\ doc \in Document /\ at # Unnormalized
        /\ ~Promise!EvidenceUnparsed(doc) /\ ~Promise!RegistrationUnparsed(doc)
        /\ relevant = Promise!ForSource(doc) /\ scoped = Promise!Warranting(doc)
    BY <2>1, LifecycleKnown
  <2>3. ~Promise!OutOfScope(doc)
    BY <2>1, Known, FiresMeans, CheckNames
  <2>4. scoped # {}
    BY <2>2, <2>3 DEF Promise!OutOfScope
  <2> QED
    BY <2>2, <2>4, EvidenceTimesAgree, RegistrationTimesAgree DEF LifecycleNeverVacuous, registration
<1> QED
  BY Invariance, <1>1, PTL

(* Every step is made by an undecided evaluation and leaves the document. *)
LEMMA EveryStep == Next => check # "done" /\ UNCHANGED doc
BY DEF Next, ByteBoundary, EvaluateState, RequireEncoding, RequireJSON, RequireFinite,
   RequireEncodable, RequireCanonical, RequireSchemaValid, RequireFrozenRuleset,
   RequireEvidenceIntegrity, ParseEvaluationTime, CheckCandidate, CheckAvailability,
   CheckFreshness, CheckRegistered, CollectRelevant, CheckVersion, CheckDigest,
   CheckAuthority, CheckScope, ParseRegistrationTimes, CheckNotYetEffective, CheckExpired,
   CheckSuperseded, CheckRevoked, CheckConflict, CheckEstablished, Admit, Test, TestThen

(* Both specifications speak of the same documents. *)
LEMMA SharedDocument == Promise!Document = Document
BY DEF Promise!Document, Document, Promise!WireDefects, WireDefects, Promise!Anchor, Anchor,
   Promise!RegistrationRecord, RegistrationRecord, Promise!EvidenceRecord, EvidenceRecord,
   Promise!WarrantRecord, WarrantRecord, Promise!Timestamp, Timestamp, Promise!Nullable, Nullable

(* The evaluator implements the declarative specification: it starts where *)
(* that one starts, and each of its steps decides by the first check that  *)
(* fires or changes nothing that one sees.                                 *)
THEOREM EvaluatorImplementsPromise ==
    Spec => Promise!Init /\ [][Promise!Decision]_<<doc, outcome>>
<1>1. Init => Promise!Init
  BY InitTypeOK, SharedDocument DEF Init, TypeOK, Promise!Init, Undecided
<1>2. IInv /\ IInv' /\ [Next]_vars => [Promise!Decision]_<<doc, outcome>>
  <2> SUFFICES ASSUME IInv, IInv', Next, UNCHANGED doc, outcome' # outcome
               PROVE  Promise!Decision
    BY EveryStep DEF vars
  <2>1. outcome = Undecided
    BY EveryStep DEF IInv
  <2>2. check' = "done"
    BY <2>1 DEF IInv, Undecided
  <2>3. PICK c \in Check : Promise!DecidedBy(doc, c)' /\ outcome' = Verdict[c]
    BY <2>2 DEF IInv, DecidedByFirst
  <2>4. Promise!DecidedBy(doc, c)
    BY <2>3
  <2> QED
    BY <2>1, <2>3, <2>4, SharedVocabulary DEF Promise!Decision, Undecided
<1> QED
  BY Invariance, <1>1, <1>2, PTL DEF Spec

-----------------------------------------------------------------------------
(* An evaluation cannot go on for ever: it has the checks that are due     *)
(* ahead of it, and the evidence that the loop has not come to.            *)
Ahead ==
    IF check = "done" THEN 0
    ELSE (27 - Position[check]) + (Len(evidence) + 2 - index)

\* A step takes the loop one item on, or goes to a later check, or decides.
Onwards ==
    /\ check # "done" /\ UNCHANGED doc
    /\ \/ check' = check /\ index' = index + 1 /\ index \in DOMAIN evidence
       \/ UNCHANGED index /\ check' = "done"
       \/ UNCHANGED index /\ check' \in Check /\ Position[check] < Position[check']

LEMMA ByteBoundaryOnwards == ByteBoundary => Onwards
<1> SUFFICES ASSUME ByteBoundary PROVE Onwards
  OBVIOUS
<1> USE CheckNames DEF Test, TestThen, Decide, HandOn, Position, Onwards
<1>1. CASE RequireEncoding
  BY <1>1 DEF RequireEncoding
<1>2. CASE RequireJSON
  BY <1>2 DEF RequireJSON
<1>3. CASE RequireFinite
  BY <1>3 DEF RequireFinite
<1>4. CASE RequireEncodable
  BY <1>4 DEF RequireEncodable
<1>5. CASE RequireCanonical
  BY <1>5 DEF RequireCanonical
<1>6. CASE RequireSchemaValid
  BY <1>6 DEF RequireSchemaValid
<1>7. CASE RequireFrozenRuleset
  BY <1>7 DEF RequireFrozenRuleset
<1>8. CASE RequireEvidenceIntegrity
  BY <1>8 DEF RequireEvidenceIntegrity
<1> QED
  BY <1>1, <1>2, <1>3, <1>4, <1>5, <1>6, <1>7, <1>8 DEF ByteBoundary

LEMMA EvaluateStateOnwards == EvaluateState => Onwards
<1> SUFFICES ASSUME EvaluateState PROVE Onwards
  OBVIOUS
<1> USE CheckNames DEF Test, TestThen, Decide, HandOn, Position, Onwards
<1>1. CASE ParseEvaluationTime
  BY <1>1 DEF ParseEvaluationTime
<1>2. CASE CheckCandidate
  BY <1>2 DEF CheckCandidate
<1>3. CASE CheckAvailability
  BY <1>3 DEF CheckAvailability
<1>4. CASE CheckFreshness
  BY <1>4 DEF CheckFreshness
<1>5. CASE CheckRegistered
  BY <1>5 DEF CheckRegistered
<1>6. CASE CollectRelevant
  BY <1>6 DEF CollectRelevant
<1>7. CASE CheckVersion
  BY <1>7 DEF CheckVersion
<1>8. CASE CheckDigest
  BY <1>8 DEF CheckDigest
<1>9. CASE CheckAuthority
  BY <1>9 DEF CheckAuthority
<1>10. CASE CheckScope
  BY <1>10 DEF CheckScope
<1>11. CASE ParseRegistrationTimes
  BY <1>11 DEF ParseRegistrationTimes
<1>12. CASE CheckNotYetEffective
  BY <1>12 DEF CheckNotYetEffective
<1>13. CASE CheckExpired
  BY <1>13 DEF CheckExpired
<1>14. CASE CheckSuperseded
  BY <1>14 DEF CheckSuperseded
<1>15. CASE CheckRevoked
  BY <1>15 DEF CheckRevoked
<1>16. CASE CheckConflict
  BY <1>16 DEF CheckConflict
<1>17. CASE CheckEstablished
  BY <1>17 DEF CheckEstablished
<1>18. CASE Admit
  BY <1>18 DEF Admit
<1> QED
  BY <1>1, <1>2, <1>3, <1>4, <1>5, <1>6, <1>7, <1>8, <1>9, <1>10, <1>11, <1>12, <1>13,
     <1>14, <1>15, <1>16, <1>17, <1>18 DEF EvaluateState

LEMMA AheadIsBounded ==
    ASSUME TypeOK
    PROVE  Len(evidence) \in Nat /\ Ahead \in 0..27 + Len(evidence)
<1> DEFINE n == Len(evidence)
<1>1. n \in Nat /\ index \in 1..(n + 1)
  BY DocumentParts DEF TypeOK, evidence
<1>2. Ahead = IF check = "done" THEN 0 ELSE (27 - Position[check]) + (n + 2 - index)
  BY DEF Ahead
<1> HIDE DEF n
<1>3. CASE check = "done"
  BY <1>1, <1>2, <1>3 DEF n
<1>4. CASE check # "done"
  <2>1. Position[check] \in 1..27
    BY <1>4, PositionsDistinct DEF TypeOK
  <2>2. Ahead \in 0..27 + n
    BY <1>1, <1>2, <1>4, <2>1
  <2> QED
    BY <1>1, <2>2 DEF n
<1> QED
  BY <1>3, <1>4

(* What the arithmetic of the three kinds of step comes to. *)
LEMMA Shorter ==
    ASSUME NEW n \in Nat, NEW i \in 1..(n + 1), NEW p \in 1..27, NEW q \in 1..27
    PROVE  /\ i \in 1..n => (27 - p) + (n + 2 - (i + 1)) < (27 - p) + (n + 2 - i)
           /\ 0 < (27 - p) + (n + 2 - i)
           /\ p < q => (27 - q) + (n + 2 - i) < (27 - p) + (n + 2 - i)
OBVIOUS

LEMMA StepShortens ==
    ASSUME TypeOK, Next
    PROVE  Ahead' < Ahead
<1> DEFINE n == Len(evidence)
           p == Position[check]
           q == Position[check']
<1>1. Onwards
  BY ByteBoundaryOnwards, EvaluateStateOnwards DEF Next
<1>2. n \in Nat /\ index \in 1..(n + 1) /\ DOMAIN evidence = 1..n
  BY DocumentParts DEF TypeOK, evidence
<1>3. check \in Check /\ check # "done" /\ p \in 1..27
  BY <1>1, PositionsDistinct DEF Onwards, TypeOK
<1>4. Ahead = (27 - p) + (n + 2 - index)
  BY <1>3 DEF Ahead
<1>5. Ahead' = IF check' = "done" THEN 0 ELSE (27 - q) + (n + 2 - index')
  BY <1>1 DEF Onwards, Ahead, evidence
<1>6. CASE check' = check /\ index' = index + 1 /\ index \in DOMAIN evidence
  <2>1. Ahead' = (27 - p) + (n + 2 - (index + 1))
    <3>1. q = p
      BY <1>6
    <3> HIDE DEF n, p, q
    <3> QED
      BY <1>3, <1>5, <1>6, <3>1
  <2>2. (27 - p) + (n + 2 - (index + 1)) < (27 - p) + (n + 2 - index)
    <3> HIDE DEF n, p, q
    <3> QED
      BY <1>2, <1>3, <1>6, Shorter
  <2> HIDE DEF n, p, q
  <2> QED
    BY <1>4, <2>1, <2>2
<1>7. CASE index' = index /\ check' = "done"
  <2> HIDE DEF n, p, q
  <2>1. Ahead' = 0
    BY <1>5, <1>7
  <2>2. 0 < (27 - p) + (n + 2 - index)
    BY <1>2, <1>3, Shorter
  <2> QED
    BY <1>4, <2>1, <2>2
<1>8. CASE index' = index /\ check' \in Check /\ Position[check] < Position[check']
  <2>1. q \in 1..27 /\ p < q /\ check' # "done"
    BY <1>8, PositionsDistinct, DoneIsNoCheck
  <2> HIDE DEF n, p, q
  <2>2. Ahead' = (27 - q) + (n + 2 - index)
    BY <1>5, <1>8, <2>1
  <2>3. (27 - q) + (n + 2 - index) < (27 - p) + (n + 2 - index)
    BY <1>2, <1>3, <2>1, Shorter
  <2> QED
    BY <1>4, <2>2, <2>3
<1> QED
  BY <1>1, <1>6, <1>7, <1>8 DEF Onwards

AheadBounded == Ahead \in 0..27 + Len(evidence)
EveryStepCounts == [][Ahead' < Ahead]_vars

(***************************************************************************)
(* evaluate_admission_bytes: an evaluation answers within 27 steps and one *)
(* for each evidence object, each of which brings it nearer to its answer. *)
(* That every document is decided, which ImplementsSpec asks for, needs    *)
(* besides this only that an undecided evaluation has a step to take.      *)
(***************************************************************************)
THEOREM EvaluationsRunOut == Spec => []AheadBounded /\ EveryStepCounts
<1>1. TypeOK => AheadBounded
  BY AheadIsBounded DEF AheadBounded
<1>2. TypeOK /\ [Next]_vars => [Ahead' < Ahead]_vars
  BY StepShortens
<1> QED
  BY TypeCorrect, <1>1, <1>2, PTL DEF Spec, EveryStepCounts

-----------------------------------------------------------------------------
(* One document, evaluated at two instants.                                *)

(* The document a caller submits for evaluation at t. *)
At(d, t) == [d EXCEPT !.evaluation_time = t]

\* Two documents that differ in nothing but their evaluation time.
SameBut(x, y) ==
    /\ x.wire = y.wire /\ x.source_anchors = y.source_anchors
    /\ x.source_registration = y.source_registration
    /\ x.authority_evidence = y.authority_evidence
    /\ x.jurisdiction = y.jurisdiction /\ x.applicability = y.applicability

LEMMA AtParts ==
    ASSUME NEW d \in Document, NEW t \in Nat
    PROVE  SameBut(At(d, t), d) /\ At(d, t).evaluation_time = t
BY DEF Document, At, SameBut

(* What has happened by t has happened by any later instant. *)
LEMMA HappenedStays ==
    ASSUME NEW i, NEW t \in Nat, NEW u \in Nat, t <= u, Promise!Happened(i, t)
    PROVE  Promise!Happened(i, u)
<1>1. t # Unnormalized /\ u # Unnormalized
  BY TimestampAssumption
<1>2. i \in 0..t
  BY <1>1 DEF Promise!Happened
<1>3. i \in 0..u
  BY <1>2
<1> QED
  BY <1>1, <1>3 DEF Promise!Happened

(* The evidence that warrants a document does not depend on the instant. *)
LEMMA SameWarranting ==
    ASSUME NEW x, NEW y, SameBut(x, y)
    PROVE  /\ Promise!ForSource(x) = Promise!ForSource(y)
           /\ Promise!ForVersion(x) = Promise!ForVersion(y)
           /\ Promise!ForInstance(x) = Promise!ForInstance(y)
           /\ Promise!Warranting(x) = Promise!Warranting(y)
           /\ Promise!EvidenceOf(x) = Promise!EvidenceOf(y)
<1>1. Promise!EvidenceOf(x) = Promise!EvidenceOf(y)
  BY DEF Promise!EvidenceOf, SameBut
<1>2. Promise!ForSource(x) = Promise!ForSource(y)
  BY <1>1 DEF Promise!ForSource, SameBut
<1>3. Promise!ForVersion(x) = Promise!ForVersion(y)
  BY <1>2 DEF Promise!ForVersion, SameBut
<1>4. Promise!ForInstance(x) = Promise!ForInstance(y)
  BY <1>3 DEF Promise!ForInstance, SameBut
<1>5. \A e : Promise!InScope(e, x) <=> Promise!InScope(e, y)
  BY DEF Promise!InScope, Promise!Reaches, SameBut
<1>6. Promise!Warranting(x) = Promise!Warranting(y)
  BY <1>4, <1>5 DEF Promise!Warranting
<1> QED
  BY <1>1, <1>2, <1>3, <1>4, <1>6

(* Nor do the checks up to the registration's own timestamps. *)
LEMMA EarlyChecksTimeless ==
    ASSUME NEW x, NEW y, SameBut(x, y),
           x.evaluation_time # Unnormalized, y.evaluation_time # Unnormalized,
           NEW c \in Check, Position[c] <= 20, Promise!Fires(x, c)
    PROVE  Promise!Fires(y, c)
<1> USE SameWarranting
<1>1. c \notin {"not_yet_effective", "expired", "superseded", "revoked", "conflict",
               "established", "admitted"}
  BY DEF Position
<1>2. CASE c \in {"encoding", "json", "finite", "encodable", "canonical", "schema", "ruleset"}
  BY <1>2 DEF Promise!Fires, Promise!ViolatesSchema, SameBut
<1>3. CASE c = "evidence_order"
  <2>1. \A i : Promise!Disordered(x, i) <=> Promise!Disordered(y, i)
    BY DEF Promise!Disordered, SameBut
  <2>2. Promise!OrderBroken(x) <=> Promise!OrderBroken(y)
    BY <2>1 DEF Promise!OrderBroken, SameBut
  <2> QED
    BY <1>3, <2>2, FiresMeans
<1>4. CASE c = "evidence_digest"
  BY <1>4 DEF Promise!Fires, Promise!DigestBroken, SameBut
<1>5. CASE c = "evaluation_time"
  BY <1>5, FiresMeans
<1>6. CASE c = "candidate"
  BY <1>6 DEF Promise!Fires, Promise!AnchorsInvalid, SameBut
<1>7. CASE c \in {"availability", "freshness", "registered"}
  BY <1>7 DEF Promise!Fires, SameBut
<1>8. CASE c = "evidence_times"
  BY <1>8 DEF Promise!Fires, Promise!EvidenceUnparsed
<1>9. CASE c = "version"
  BY <1>9 DEF Promise!Fires, Promise!VersionMismatch
<1>10. CASE c = "digest"
  BY <1>10 DEF Promise!Fires, Promise!DigestMismatch, SameBut
<1>11. CASE c = "authority"
  BY <1>11 DEF Promise!Fires
<1>12. CASE c = "scope"
  BY <1>12 DEF Promise!Fires, Promise!OutOfScope, Promise!Reaches, SameBut
<1>13. CASE c = "registration_times"
  BY <1>13 DEF Promise!Fires, Promise!RegistrationUnparsed, SameBut
<1> QED
  BY <1>1, <1>2, <1>3, <1>4, <1>5, <1>6, <1>7, <1>8, <1>9, <1>10, <1>11, <1>12, <1>13,
     CheckNames

(* An ended, superseded or dead warrant stays so, and a start is not undone. *)
LEMMA DatesOnlyPass ==
    ASSUME NEW x, NEW y, SameBut(x, y),
           x.evaluation_time \in Nat, y.evaluation_time \in Nat,
           x.evaluation_time <= y.evaluation_time
    PROVE  /\ Promise!NothingStarted(y) => Promise!NothingStarted(x)
           /\ Promise!AllEnded(x) => Promise!AllEnded(y)
           /\ Promise!AllSuperseded(x) => Promise!AllSuperseded(y)
           /\ Promise!AllDead(x) => Promise!AllDead(y)
<1> DEFINE t == x.evaluation_time
           u == y.evaluation_time
<1>1. \A i : Promise!Happened(i, t) => Promise!Happened(i, u)
  BY HappenedStays
<1>2. Promise!Warranting(x) = Promise!Warranting(y) /\ x.source_registration = y.source_registration
  BY SameWarranting DEF SameBut
<1>3. \A r : /\ Promise!Started(r, t) => Promise!Started(r, u)
             /\ Promise!Ended(r, t) => Promise!Ended(r, u)
             /\ Promise!Dead(r, t) => Promise!Dead(r, u)
  BY <1>1 DEF Promise!Started, Promise!Ended, Promise!Dead
<1>4. Promise!NothingStarted(y) => Promise!NothingStarted(x)
  BY <1>2, <1>3 DEF Promise!NothingStarted
<1>5. Promise!AllEnded(x) => Promise!AllEnded(y)
  BY <1>2, <1>3 DEF Promise!AllEnded
<1>6. Promise!AllSuperseded(x) => Promise!AllSuperseded(y)
  BY <1>1, <1>2 DEF Promise!AllSuperseded
<1>7. Promise!AllDead(x) => Promise!AllDead(y)
  BY <1>1, <1>2, <1>3 DEF Promise!AllDead
<1> QED
  BY <1>4, <1>5, <1>6, <1>7

(* A check that fires bounds the position of the one that decides. *)
LEMMA DecidedNoLater ==
    ASSUME NEW d, NEW b \in Check, NEW c \in Check,
           Promise!DecidedBy(d, b), Promise!Fires(d, c)
    PROVE  Position[b] <= Position[c]
<1>1. ~(Position[c] < Position[b])
  BY SharedVocabulary DEF Promise!DecidedBy
<1> QED
  BY <1>1, PositionsDistinct

(***************************************************************************)
(* _evaluate_state reads evaluation_time in its lifecycle checks only.  So *)
(* the same document evaluated later is refused by the same check if it    *)
(* was refused before the lifecycle was consulted; it never goes back to   *)
(* NOT_YET_EFFECTIVE; and what has EXPIRED stays EXPIRED.  A SUPERSEDED    *)
(* document can only come to be reported EXPIRED, and a REVOKED one        *)
(* EXPIRED or SUPERSEDED, those being asked first: no evaluation at a      *)
(* later instant admits what has lapsed.                                   *)
(***************************************************************************)
THEOREM TimeNeverRestores ==
    ASSUME NEW d \in Document, NEW t \in Nat, NEW u \in Nat, t <= u,
           NEW b \in Check, Promise!DecidedBy(At(d, t), b),
           NEW c \in Check, Promise!DecidedBy(At(d, u), c)
    PROVE  /\ Position[b] <= Position["registration_times"] => c = b
           /\ Position[b] > Position["not_yet_effective"] =>
                 Position[c] > Position["not_yet_effective"]
           /\ b = "expired" => c = "expired"
           /\ b = "superseded" => c \in {"expired", "superseded"}
           /\ b = "revoked" => c \in {"expired", "superseded", "revoked"}
<1> DEFINE x == At(d, t)
           y == At(d, u)
<1>1. /\ SameBut(x, y) /\ SameBut(y, x)
      /\ x.evaluation_time = t /\ y.evaluation_time = u
  BY AtParts DEF SameBut
<1>2. Promise!DecidedBy(x, b) /\ Promise!DecidedBy(y, c)
  OBVIOUS
<1> HIDE DEF x, y
<1>3. Promise!Fires(x, b) /\ Promise!Fires(y, c)
  BY <1>2 DEF Promise!DecidedBy
<1>4. t # Unnormalized /\ u # Unnormalized
  BY TimestampAssumption
<1>5. Position[b] \in 1..27 /\ Position[c] \in 1..27
  BY PositionsDistinct
<1>6. /\ \A a \in Check : Promise!Fires(x, a) => Position[b] <= Position[a]
      /\ \A a \in Check : Promise!Fires(y, a) => Position[c] <= Position[a]
  BY <1>2, DecidedNoLater
<1>7. Position[b] <= 20 => Promise!Fires(y, b)
  BY <1>1, <1>3, <1>4, EarlyChecksTimeless
<1>8. Position[c] <= 20 => Promise!Fires(x, c)
  BY <1>1, <1>3, <1>4, EarlyChecksTimeless
<1>9. Position[b] <= 20 \/ Position[c] <= 20 => Position[b] = Position[c]
  BY <1>5, <1>6, <1>7, <1>8
<1>10. Position[b] <= 20 => c = b
  BY <1>9, PositionsDistinct
<1>11. /\ Promise!Fires(y, "not_yet_effective") => Promise!Fires(x, "not_yet_effective")
       /\ Promise!Fires(x, "expired") => Promise!Fires(y, "expired")
       /\ Promise!Fires(x, "superseded") => Promise!Fires(y, "superseded")
       /\ Promise!Fires(x, "revoked") => Promise!Fires(y, "revoked")
  BY <1>1, DatesOnlyPass, FiresMeans
<1>12. /\ Position["registration_times"] = 20 /\ Position["not_yet_effective"] = 21
       /\ Position["expired"] = 22 /\ Position["superseded"] = 23 /\ Position["revoked"] = 24
       /\ {"not_yet_effective", "expired", "superseded", "revoked"} \subseteq Check
  BY CheckNames DEF Position
<1>13. Position[b] > 21 => Position[c] > 21
  <2> SUFFICES ASSUME Position[b] > 21, Position[c] = 21 PROVE FALSE
    BY <1>5, <1>9
  <2>1. c = "not_yet_effective"
    BY <1>12, PositionsDistinct
  <2>2. Position[b] <= 21
    BY <1>3, <1>6, <1>11, <1>12, <2>1
  <2> QED
    BY <1>5, <2>2
<1>14. /\ Position[c] = 22 => c = "expired"
       /\ Position[c] = 23 => c = "superseded"
       /\ Position[c] = 24 => c = "revoked"
  BY <1>12, PositionsDistinct
<1>15. ASSUME b = "expired" PROVE c = "expired"
  <2>1. Position[c] <= 22
    BY <1>3, <1>6, <1>11, <1>12, <1>15
  <2> QED
    BY <1>5, <1>12, <1>13, <1>14, <1>15, <2>1
<1>16. ASSUME b = "superseded" PROVE c \in {"expired", "superseded"}
  <2>1. Position[c] <= 23
    BY <1>3, <1>6, <1>11, <1>12, <1>16
  <2>2. Position[c] = 22 \/ Position[c] = 23
    BY <1>5, <1>12, <1>13, <1>16, <2>1
  <2> QED
    BY <1>14, <2>2
<1>17. ASSUME b = "revoked" PROVE c \in {"expired", "superseded", "revoked"}
  <2>1. Position[c] <= 24
    BY <1>3, <1>6, <1>11, <1>12, <1>17
  <2>2. Position[c] = 22 \/ Position[c] = 23 \/ Position[c] = 24
    BY <1>5, <1>12, <1>13, <1>17, <2>1
  <2> QED
    BY <1>14, <2>2
<1> QED
  BY <1>10, <1>12, <1>13, <1>15, <1>16, <1>17
=============================================================================
