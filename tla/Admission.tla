------------------------------ MODULE Admission ------------------------------
(***************************************************************************)
(* evaluate_admission_bytes of src/oic/admission.py as a machine: one step *)
(* per check, in the code's order.  check names the check about to be      *)
(* made.  A check either ends the evaluation with its Verdict or hands on  *)
(* to the next one, having narrowed the evidence as the local variables of *)
(* _evaluate_state do: relevant, version_bound, bound, scoped.             *)
(***************************************************************************)
EXTENDS AdmissionRules

VARIABLES
    doc,            \* the input; never written
    check,          \* the check to be made next, or "done"
    index,          \* loop position in _require_evidence_integrity
    relevant,       \* evidence for the registered source, lifecycles parsed
    version_bound,  \* relevant evidence bound to the registered version
    bound,          \* ... and to the registered digest
    scoped,         \* ... and covering the requested scope
    outcome         \* "UNDECIDED", a terminal state, or an exception

narrowing == <<relevant, version_bound, bound, scoped>>
vars == <<doc, check, index, narrowing, outcome>>

Undecided == "UNDECIDED"

registration == doc.source_registration
evidence     == doc.authority_evidence
at           == doc.evaluation_time

Init ==
    /\ doc \in Documents
    /\ check = "encoding"
    /\ index = 1
    /\ relevant = {} /\ version_bound = {} /\ bound = {} /\ scoped = {}
    /\ outcome = Undecided

-----------------------------------------------------------------------------
(* The shape of every check: it fires and decides, or the next one is due. *)

\* Regression: the check's name is recorded in place of its verdict.
DecideByName(c) == check' = "done" /\ outcome' = c

Decide(c) == check' = "done" /\ outcome' = Verdict[c]

HandOn(next) == check' = next /\ UNCHANGED outcome

TestThen(c, fires, next) ==
    /\ check = c
    /\ \/ fires /\ Decide(c)
       \/ ~fires /\ HandOn(next)

Test(c, fires, next) ==
    TestThen(c, fires, next) /\ UNCHANGED <<doc, index, narrowing>>

-----------------------------------------------------------------------------
(* The byte boundary.                                                      *)

RequireEncoding  == Test("encoding", "encoding" \in doc.wire, "json")
RequireJSON      == Test("json", "json" \in doc.wire, "finite")

\* canonical_json: json.dumps(allow_nan=False), then encode("utf-8").
RequireFinite    == Test("finite", "nonfinite" \in doc.wire, "encodable")
RequireEncodable == Test("encodable", "surrogate" \in doc.wire, "canonical")

RequireCanonical == Test("canonical", "noncanonical" \in doc.wire, "schema")
RequireSchemaValid   == Test("schema", ViolatesSchema(doc), "ruleset")
RequireFrozenRuleset == Test("ruleset", "ruleset" \in doc.wire, "evidence_order")

\* One iteration: id order first, then the recomputed digest of the same item.
RequireEvidenceIntegrity ==
    /\ check = "evidence_order"
    /\ \/ /\ index \in DOMAIN evidence
          /\ OutOfOrder(evidence, index)
          /\ Decide("evidence_order")
          /\ UNCHANGED index
       \/ /\ index \in DOMAIN evidence
          /\ ~OutOfOrder(evidence, index)
          /\ ~Intact(evidence[index])
          /\ Decide("evidence_digest")
          /\ UNCHANGED index
       \/ /\ index \in DOMAIN evidence
          /\ ~OutOfOrder(evidence, index)
          /\ Intact(evidence[index])
          /\ index' = index + 1
          /\ UNCHANGED <<check, outcome>>
       \/ /\ index \notin DOMAIN evidence
          /\ HandOn("evaluation_time")
          /\ UNCHANGED index
    /\ UNCHANGED <<doc, narrowing>>

-----------------------------------------------------------------------------
(* _evaluate_state: the frozen ordered evaluation.                         *)

ParseEvaluationTime == Test("evaluation_time", at = Unnormalized, "candidate")

CheckCandidate ==
    Test("candidate",
         \/ doc.source_anchors = {}
         \/ \E a \in doc.source_anchors : a.source_id # registration.source_id,
         "availability")

CheckAvailability ==
    Test("availability", registration.availability = "UNAVAILABLE", "freshness")

CheckFreshness ==
    Test("freshness",
         registration.availability = "AVAILABLE" /\ registration.freshness = "STALE",
         "registered")

CheckRegistered == Test("registered", ~registration.registered, "evidence_times")

\* Only evidence for the registered source is looked at, and only now parsed.
CollectRelevant ==
    LET applicable == {e \in EvidenceOf(doc) : e.source_id = registration.source_id}
    IN  /\ TestThen("evidence_times", \E e \in applicable : ~ItemParses(e), "version")
        /\ relevant' = applicable
        /\ UNCHANGED <<doc, index, version_bound, bound, scoped>>

CheckVersion ==
    /\ version_bound' = {e \in relevant : BindsVersion(e, registration.source_version)}
    /\ TestThen("version", evidence # <<>> /\ version_bound' = {}, "digest")
    /\ UNCHANGED <<doc, index, relevant, bound, scoped>>

\* The candidate's anchors first, then the evidence (a local computed on the
\* way to an early return is dead, so computing it sooner changes nothing).
CheckDigest ==
    /\ bound' = {e \in version_bound : BindsDigest(e, registration.source_digest)}
    /\ TestThen("digest",
                \/ \E a \in doc.source_anchors : a.content_hash # registration.source_digest
                \/ evidence # <<>> /\ bound' = {},
                "authority")
    /\ UNCHANGED <<doc, index, relevant, version_bound, scoped>>

CheckAuthority == Test("authority", bound = {}, "scope")

\* Regression: only the registration's own scope is tested.
CheckRegistrationScope ==
    /\ scoped' = {e \in bound : ItemCovers(e, doc.jurisdiction, doc.applicability)}
    /\ TestThen("scope", ~Covers(registration, doc.jurisdiction, doc.applicability),
                "registration_times")
    /\ UNCHANGED <<doc, index, relevant, version_bound, bound>>

CheckScope ==
    /\ scoped' = {e \in bound : ItemCovers(e, doc.jurisdiction, doc.applicability)}
    /\ TestThen("scope",
                \/ ~Covers(registration, doc.jurisdiction, doc.applicability)
                \/ scoped' = {},
                "registration_times")
    /\ UNCHANGED <<doc, index, relevant, version_bound, bound>>

ParseRegistrationTimes ==
    Test("registration_times", ~LifecycleParses(registration), "not_yet_effective")

CheckNotYetEffective ==
    Test("not_yet_effective",
         NotYetEffective(registration, at) \/ \A e \in scoped : ItemNotYetEffective(e, at),
         "expired")

CheckExpired ==
    Test("expired",
         Expired(registration, at) \/ \A e \in scoped : ItemExpired(e, at),
         "superseded")

CheckSuperseded ==
    Test("superseded",
         Superseded(registration, at) \/ \A e \in scoped : ItemSuperseded(e, at),
         "revoked")

CheckRevoked ==
    Test("revoked",
         Revoked(registration, at) \/ \A e \in scoped : ItemRevoked(e, at),
         "conflict")

\* Regression: only the authorities that reached the scoped set are compared.
CheckScopedConflict ==
    LET operative == {e \in scoped : Operative(e, at, doc.jurisdiction, doc.applicability)}
    IN  Test("conflict",
             \E e, f \in operative : e.authority_basis_ref # f.authority_basis_ref,
             "established")

\* Every relevant authority is compared, whatever version it speaks to.
CheckConflict ==
    LET operative == {e \in relevant : Operative(e, at, doc.jurisdiction, doc.applicability)}
    IN  Test("conflict",
             \E e, f \in operative : e.authority_basis_ref # f.authority_basis_ref,
             "established")

CheckEstablished ==
    Test("established",
         ~\E e \in scoped : Operative(e, at, doc.jurisdiction, doc.applicability),
         "admitted")

Admit ==
    /\ check = "admitted"
    /\ Decide("admitted")
    /\ UNCHANGED <<doc, index, narrowing>>

-----------------------------------------------------------------------------
ByteBoundary ==
    \/ RequireEncoding \/ RequireJSON \/ RequireFinite \/ RequireEncodable
    \/ RequireCanonical \/ RequireSchemaValid \/ RequireFrozenRuleset
    \/ RequireEvidenceIntegrity

EvaluateState ==
    \/ ParseEvaluationTime \/ CheckCandidate \/ CheckAvailability
    \/ CheckFreshness \/ CheckRegistered \/ CollectRelevant \/ CheckVersion
    \/ CheckDigest \/ CheckAuthority \/ CheckScope \/ ParseRegistrationTimes
    \/ CheckNotYetEffective \/ CheckExpired \/ CheckSuperseded \/ CheckRevoked
    \/ CheckConflict \/ CheckEstablished \/ Admit

Next == ByteBoundary \/ EvaluateState

Spec == Init /\ [][Next]_vars /\ WF_vars(Next)

-----------------------------------------------------------------------------
(* Types, and what an evaluation guarantees.                               *)

TypeOK ==
    /\ doc \in Document
    /\ check \in Check \cup {"done"}
    /\ index \in 1..(Len(evidence) + 1)
    /\ {relevant, version_bound, bound, scoped} \subseteq SUBSET EvidenceOf(doc)
    /\ outcome \in Outcome \cup {Undecided}

(***************************************************************************)
(* Admission is sound: ADMITTED is only ever decided when one evidence     *)
(* object, together with its own warrant, binds the registered source,     *)
(* version and digest, covers the requested scope and is in force at the   *)
(* evaluation time, for a registered, available, current registration that *)
(* covers the scope itself.  The conditions are met by the same object     *)
(* although the code establishes them in separate narrowing passes.        *)
(***************************************************************************)
Within(r, t) ==
    /\ r.effective_from <= t
    /\ r.effective_until = Null \/ t < r.effective_until
    /\ r.revoked_at = Null \/ t < r.revoked_at

Establishes(e, d) ==
    LET w == e.admission_warrant
        r == d.source_registration
    IN  /\ Intact(e)
        /\ e.source_id = r.source_id
        /\ {e.source_version, w.source_version} = {r.source_version}
        /\ {e.source_digest, w.source_digest} = {r.source_digest}
        /\ {e.jurisdiction, w.jurisdiction} = {d.jurisdiction}
        /\ d.applicability \in e.applicability_scope \cap w.applicability_scope
        /\ Within(e, d.evaluation_time) /\ Within(w, d.evaluation_time)
        /\ e.superseded_at = Null \/ d.evaluation_time < e.superseded_at
        /\ w.status = "ACTIVE"

Soundness ==
    outcome = "ADMITTED" =>
        /\ doc.wire = {}
        /\ registration.registered /\ registration.availability = "AVAILABLE"
        /\ registration.freshness # "STALE"
        /\ Covers(registration, doc.jurisdiction, doc.applicability)
        /\ Within(registration, at)
        /\ registration.superseded_at = Null \/ at < registration.superseded_at
        /\ \A a \in doc.source_anchors :
              a = [source_id |-> registration.source_id,
                   content_hash |-> registration.source_digest]
        /\ \E e \in EvidenceOf(doc) : Establishes(e, doc)

(***************************************************************************)
(* Nothing in force disputes an admission: whenever ADMITTED is decided,   *)
(* every evidence object for the source that is in force in the requested  *)
(* scope rests on one and the same authority basis, also the evidence that *)
(* binds another version or digest and never reached the scoped set.       *)
(***************************************************************************)
Undisputed ==
    outcome = "ADMITTED" =>
        \A e, f \in EvidenceOf(doc) :
            /\ e.source_id = registration.source_id
            /\ f.source_id = registration.source_id
            /\ Operative(e, at, doc.jurisdiction, doc.applicability)
            /\ Operative(f, at, doc.jurisdiction, doc.applicability)
            => e.authority_basis_ref = f.authority_basis_ref

(***************************************************************************)
(* _all raises AdmissionEvaluationError on an empty set and says "the      *)
(* caller has already established that the set is non-empty": no lifecycle *)
(* check is ever reached without evidence in scope, every instant of which *)
(* has been parsed, so none of them can be decided by an empty set.        *)
(***************************************************************************)
LifecycleNeverVacuous ==
    check \in {"not_yet_effective", "expired", "superseded", "revoked"} =>
        /\ scoped # {}
        /\ \A e \in relevant : ItemParses(e)
        /\ LifecycleParses(registration) /\ at # Unnormalized

(***************************************************************************)
(* The staged evaluation implements the declarative one: it is decided     *)
(* exactly once, by the first check whose condition the input satisfies.   *)
(***************************************************************************)
Promise == INSTANCE AdmissionSpec
ImplementsSpec == Promise!Spec

(***************************************************************************)
(* The inductive invariant: no check that has been passed fires, every     *)
(* local variable that has been computed holds the evidence the            *)
(* declarative conditions speak about, and a decided evaluation was        *)
(* decided by the first check that fires.                                  *)
(***************************************************************************)
Past(c) == check # "done" /\ Position[c] < Position[check]

NothingFired == \A c \in Check : Past(c) => ~Promise!Fires(doc, c)

EvidenceSoFar ==
    \A i \in 1..(index - 1) : ~OutOfOrder(evidence, i) /\ Intact(evidence[i])

Narrowed ==
    /\ Past("evidence_times") => relevant = Promise!ForSource(doc)
    /\ Past("version") => version_bound = Promise!ForVersion(doc)
    /\ Past("digest") => bound = Promise!ForInstance(doc)
    /\ Past("scope") => scoped = Promise!Warranting(doc)

DecidedByFirst ==
    check = "done" =>
        \E c \in Check : Promise!DecidedBy(doc, c) /\ outcome = Verdict[c]

IInv ==
    /\ TypeOK
    /\ check # "done" <=> outcome = Undecided
    /\ NothingFired
    /\ EvidenceSoFar
    /\ Narrowed
    /\ DecidedByFirst
=============================================================================
