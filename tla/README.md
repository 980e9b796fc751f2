# Verification of the Open Institutional Compiler core

This directory holds the TLA+ models of this repository's running code, the TLC
configurations that check them on small instances, and the TLAPS proofs that some of
what they check holds for every instance. It is written for somebody who has the
repository at hand. Paths without a directory (`admission.py`) are in `src/oic/`;
scripts are named with `scripts/`.

1. [The system](#1-the-system)
2. [Modules and how they correspond to the code](#2-modules-and-how-they-correspond-to-the-code)
3. [Runs, bounds and what they show](#3-runs-bounds-and-what-they-show)
4. [Fairness](#4-fairness)
5. [Proofs](#5-proofs)
6. [Where the code and its documents disagree](#6-where-the-code-and-its-documents-disagree)
7. [What is left out, and why](#7-what-is-left-out-and-why)
8. [Plan](#8-plan)

To repeat a run or a proof:

    tlc -workers 2 -config MCQuarantine.cfg MCQuarantine
    tlapm QuarantineProofs.tla

`PROJECT.json` is the index: the components, the runs, a mutation of the model for each
checked property that the property must catch, the source lines each definition stands
for, the findings, the hazards and the theorems.

## 1. The system

The repository turns governing sources (statutes, policies) into machine controls and
holds every step of that to evidence. What runs today is not a compiler. It is a set of
small programs that decide, acquire, freeze and verify, with no server and no thread
between them; they meet in files. The hard behaviours are therefore of three sorts:

- *decisions with many conditions*, in which the order of the conditions matters and a
  quantifier over an empty or a wrong set would quietly admit something;
- *files written step by step*, by a process that may fail or be killed at any step, be
  started again with other inputs, or overlap with another one;
- *files read step by step* while somebody may edit them.

There is no cache, no pool and no message queue; the only timeouts are those of HTTP
requests and of `git`, and nothing is retried.

### Components

| Component | State | Operations | Met through | Module |
| --- | --- | --- | --- | --- |
| Admission evaluator `admission.py` | none; local variables that narrow the evidence | `evaluate_admission_bytes` | bytes in, a receipt or an exception out | `Admission` |
| Candidate extraction `candidate_extraction.py` | none | `extract_candidates`, grounding, unit IDs | calls the provider | `ProviderBoundary` |
| Interpretation proposal `interpretation_proposal.py` | none | `propose_interpretation` | needs an `ADMITTED` receipt, calls the provider | `ProviderBoundary` |
| Review docket `review_docket.py` | none | `build_review_docket` | compares extraction results | `ProviderBoundary` |
| Frozen synthetic provider `frozen_synthetic_provider.py` | position in the fixture | `complete`, `consumed` | called by both seams | `SemanticPath` |
| Bounded path `scripts/demo_bounded_semantic_path.py` | the results so far | `demonstrate`, `main` | composes the five above | `SemanticPath` |
| Preflight acquisition `scripts/acquire_canada_preflight.py` | quarantine, receipts, `.part` files | one invocation, source by source | shared directories, origin servers | `Quarantine` |
| Corpus freezer `scripts/freeze_canada_corpus.py` | committed and internal bytes, receipts, index, record, ledgers | one freeze | rights matrix, origin servers | `CorpusFreeze` |
| Freeze verifier `scripts/verify_canada_freeze.py` | what it has read so far | `verify`, `main` | reads what the freezer wrote, and the rights | `CorpusFreeze`, `FreezeVerifier` |
| Manifest verification `manifests.py`, `hashing.py`, `paths.py` | none | `verify_all`, `verify_manifest` | reads the working tree | `VerifyManifest` |
| Bootstrap baseline `baseline.py` | none | `verify_bootstrap_baseline` | reads Git objects through `git` | `VerifyManifest` |
| Command line `cli.py`, `errors.py` | none | `verify-manifest`, `verify-bootstrap`, `validate-schema`; others | exit codes | `VerifyManifest`, `SchemaRegistry` (in part) |
| Schema validation `schemas.py` | a registry of loaded schemas | `validate_schema_directory` | reads schema files | `SchemaRegistry` |
| Rights evidence capture `scripts/capture_canada_rights_evidence.py` | captured evidence, ledger | one capture | origin servers | planned |
| Code-start gate `scripts/verify_code_start_gate.py` | what it has read so far | one verdict | reads committed files, lists `src/oic` | `CodeStartGate` |
| Semantic conformance rules `tests/contract/semantic_conformance.py` | none | rules over IR documents | contract tests | planned |
| Doctor `doctor.py` | none | probes | prints | not modelled |
| Infrastructure falsification `scripts/falsify_infrastructure.py` | none | starts services | docker | not modelled |
| Renderers `tools/render_*.py` | none | JSON to Markdown | compares with a file | not modelled |
| Schemas, fixtures, adapters, documents | data | none | read by the above | not modelled |

### What makes each of them right

**Admission evaluator.** Fifteen decision steps after a byte boundary, each of which
ends the evaluation or hands on to the next with less evidence (`relevant`,
`version_bound`, `bound`, `scoped`). `ADMITTED` is what remains when no step answers.
It is right when the outcome is that of the first declarative condition that holds,
when `ADMITTED` is only reached because *one* evidence object with *its own* warrant
establishes everything, when no dispute over the basis was lost by narrowing, and when
no lifecycle step quantifies over an empty set. The hard cases are instants exactly at
an end point, documents with two defects, and evidence for another source or version.

**Extraction, interpretation, docket, provider, bounded path.** A provider is
untrusted. It is asked three times; whatever it answers is refused or taken as it
stands. The path is right when it is asked to interpret only a candidate that supplied
authority admits, when each answer that was handed out is counted even if it is then
refused, when the docket compares what the extractions hold and not how they list it,
when the negative controls refuse for the reason they planted, and when publication
implies all of that.

**Preflight acquisition.** It streams each document to a `.part` file, compares it with
an expected digest and with the artifact of an earlier run, commits or reuses, and then
replaces the receipt. It is right when a receipt is backed by an artifact, when an
artifact is never replaced, when exit 0 means that all that was asked for is there, and
when no `.part` file is left behind. Invocations may overlap on the same directories; a
transfer may end early and look complete; the process may be killed between the
artifact and its receipt; the document may have changed since the last run.

**Corpus freezer and verifier.** The freezer takes the rights matrix once, acquires the
cleared sources one after another, stores bytes and a receipt of each, and at the end
writes the index, the record and two ledgers. It deletes nothing. Together with the
verifier it is right when bytes are only where their clearance put them, when a package
that verifies was acquired under the rights as they are now, whatever mixture of runs
wrote it, and when exit 0 of the freezer means that the verifier passes. The rights may
be revised at any time; a freeze may fail or be killed at every write. The verifier
itself takes no lock: it reads six kinds of file one after another while a freezer may
be writing them. It is right when, left alone, it says what the package deserves at
once; when a pass rests on acquisitions even if the files it read were never together on
the disk; and when it takes more than one write to deceive it.

**Manifest and baseline verification.** Read-only, entry by entry, with three looks at
each file (`stat`, then `exists` and `is_file`, then the bytes). It is right when every
status reports something that was true at some time of the run, when exit 0 and 3 mean
that every listed entry matched, and when an undisturbed run gives exactly the exit code
its inputs deserve.

**Schema validation.** A directory is discovered, loaded file by file, entered in a
registry under identifiers *and* bare file names, and every reference is looked up there.
Two directories may hold files of one name, two files may claim one identifier, and a
relative reference means another thing in a document with an identifier than in one
without. An identifier may itself be relative and then be the bare name of another file.
It is right when, where nothing is ambiguous, each file gets the verdict its author
expects, and when status 0 means a closed set of valid schemas. The code keeps the second
with one exception: a document's own fragment is looked up under what the document goes
by, and may be found in another file that is registered under the same key.

**Code-start gate.** It reads the evidence documents and source bytes, lists the
production paths from the index and from the disk, judges all of that, and then reads the
bounded record and lists the paths once more. Records become dictionaries, in which a
later one of the same identifier replaces an earlier one. It is right when an undisturbed
run passes exactly the trees that conform, when only a file it reads twice can be torn by
one edit, and when a production path that was never admitted cannot hide from the
listings while it is there all the time.

The hazards these properties are for are listed one by one, each at its source line,
under `hazards` in `PROJECT.json`.

## 2. Modules and how they correspond to the code

    AdmissionInputs ── AdmissionRules ── Admission ── AdmissionClaims ── MCAdmission
          │      └──── AdmissionSpec ───────┘   └──── AdmissionProofs
          │                  │ INSTANCE (what a receipt may say)
          └─ SemanticPath ───┘ ── MCSemanticPath, SemanticPathProofs
               └ ProviderBoundary
    Quarantine ── MCQuarantine, QuarantineProofs
          │ INSTANCE (what a lone operator promises)
          └─ AcquisitionStore
    CorpusFreeze ── MCCorpusFreeze, CorpusFreezeProofs
          └─ FreezeVerifier ── MCFreezeVerifier, FreezeVerifierProofs
    VerifyManifest ── MCVerifyManifest, VerifyManifestProofs
    SchemaRegistry ── MCSchemaRegistry, SchemaRegistryProofs
    CodeStartGate ── MCCodeStartGate, CodeStartGateProofs

Modules follow one convention. Constants and their named assumptions come first, then
the variables, one action per step of the code, `Next`, the specification, and the
properties. An operator whose comment begins with "Regression:" is a plausible defect of
the definition below it. It is no part of the specification; each of them belongs to a
property that fails when it takes the definition's place.

### Admission: `AdmissionInputs`, `AdmissionRules`, `Admission`, `AdmissionSpec`, `AdmissionClaims`

`AdmissionInputs` declares a document as the evaluator sees it once decoded: the
registration, the anchors, a sequence of evidence objects with their warrants, the
evaluation time and scope. `wire` is the set of defects its bytes have (encoding, JSON,
a non-finite number, a lone surrogate, spelling, schema, ruleset). The digest of an evidence
object recomputes, differs or is missing, which is a defect against the schema and not
against the evidence. An instant is a natural number or `Unnormalized`, a string that the schema accepts and `_instant`
refuses. `Verdict` maps each check to what it decides, `Position` gives the order.

`AdmissionRules` translates the predicates on one evidence object (`Covers`,
`BindsVersion`, `ItemExpired`, `Operative`, ...). `Admission` is the machine: `check`
is the next check in `evaluate_admission_bytes` and `_evaluate_state`, the four sets are
the local variables of the same names, and `index` is the loop variable of
`_require_evidence_integrity`.

`AdmissionSpec` is the abstract specification: one variable besides the document, one
step, and for each check a condition over the *whole* document (`Fires`), written from
the intent of the rule (an authority is in force if it has begun and has not ended)
rather than from the comparisons of the code. The outcome is the verdict of the first
check that fires. `Admission!ImplementsSpec` says that the machine implements it; the
refinement mapping is the identity on `doc` and `outcome`.

`AdmissionClaims` states a sentence of the documents that the code does not keep.

### Semantic path: `ProviderBoundary`, `SemanticPath`

`ProviderBoundary` has the pure parts of the two seams and of the docket: which answers
are refused and with which exception (`ExtractionRefusal`, `CandidatesRefused`,
`ProposalAccepted`), the grounding comparison (`Grounded`), the proposal (`Envelope`)
and the docket (`Docket`). A span is a member of a small set whose subsets say whether
it occurs in the source literally, or after case folding and collapsing of white space.

`SemanticPath` is the script: one action per call of `demonstrate` and `main`, in order.
`position` is the provider's own, `calls` records every request made of it.
`propose_interpretation` is called with a binding (`binding_for`) twice, by
`ProposeInterpretation` with the receipt of the admission and by `RefuseInterpretation`
with that of the negative control; both go through its own gate on an `ADMITTED` receipt
(`Admits`) and, where that lets them pass, reach the provider. The script's two "must have
been refused" exceptions are branches of the controls like any other. The admission decision is taken from `AdmissionSpec`, which the evaluator is proved to
implement, instantiated with the authority document the script binds.

### Acquisition: `Quarantine`

Any number of processes (`run[p]`) over one quarantine and one receipts directory.
`Start` parses and validates a command line; `Open`, `Stream`, `Verify`, `Compare`,
`Commit`, `WriteReceipt` and `ReplaceReceipt` are `acquire_one`, the three parts of
`stream_to_quarantine` and the two of `atomic_write_bytes`. Each may end the invocation
where the code may raise; `part` says that the temporary file exists, and a `finally`
clause is the reset of it. `Publish` changes a remote document, `Kill` ends a process
without any clean-up. `raced` is a history variable: the sources whose artifact was ever
replaced by a different one.

`AcquisitionStore` is what the two directories promise to their readers: an artifact is
deposited once and never changed, and a receipt describes the artifact that is there, or
none. It has no process, temporary file, failure or restart. `Quarantine!ImplementsStore`
says that an operator who runs one invocation at a time gets that, through every failure,
kill and rerun; the refinement mapping is the identity on `quarantine` and `receipts`.

### Freeze: `CorpusFreeze`

One freezer process, restarted up to `MaxStarts` times, and the rights matrix, which
`Revise` may replace at any time. `Start` is `main` up to the rights snapshot, and
`Acquire`, `StoreBytes`, `StoreReceipt`, `WriteIndex`, `WriteRecord` and `WriteSums`
write the files of the package in the code's order. `Verifies` is the verdict of
`verify_canada_freeze.py` on the package and the rights as they are; `acquired` is a
history variable of all acquisitions.

### Freeze verifier: `FreezeVerifier`

The composition of the freezer with the verifier as a process of its own. `verifier` holds
what has been read: `ReadIndex`, `ReadRights`, `ReadSums` for the two ledgers,
`ListReceipts`, and then for each entry of the index as it was read `CheckReceipt`,
`TakeInternal` (which internal file the glob yields) and `CheckBytes`; `Report` is the
exit status. `Beside` is any step of `CorpusFreeze` in between, and `Checkout` takes the
package where `.local/` does not exist. `watch` is a history variable: how often the
package or the rights were written during the verification, whether any moment of it
would have verified, and how many freezes were stopped. `Verifies` of `CorpusFreeze` is
the abstract verdict that `QuietVerdict` holds the process to.

### Verification: `VerifyManifest`

`oic verify-manifest` and `verify-bootstrap`. `pending` is what is left of the selected
reports, `lines` of the entries of the present one, `results` and `reports` are the
statuses so far. `ResolveCommit`, `ReadRecord`, `VerifyEntry` and `ConcludeBaseline` are
`baseline.py`, with a failing `git` at each call. `FindManifest`, `StatFails` and
`OpenManifest` find and parse a manifest, `CheckRow` is a row of `SOURCE_MANIFEST.csv`,
`CheckEntry`, `FindFile` and `HashFile` are the three looks at an entry of `SHA256SUMS`,
`ConcludeManifest` aggregates, and `Finish` is the exit code. `Edit` replaces or deletes
a file meanwhile. `held` is a history variable (what each path has held during the run),
and so are `listed` (what each manifest listed) and `faulty` (a read or git call has failed).
`Deserved` is the declarative verdict: the exit code that a world holding still deserves.

### Schemas: `SchemaRegistry`

`run` is the validation: the files discovered, the documents loaded, the registry, the
issues of each file. `Discover`, `Load`, `Register`, `Validate` and `Report` are the
loops of `validate_schema_directory` one file at a time, in the order of the relative
paths, and `Continue` goes from one loop to the next; `Edit` changes a file meanwhile. A
document is its identifier, whether the metaschema accepts it, whether it is nested too
deeply to be walked, its references and the parts they may point to. An identifier may be
a bare file name, and joining a name with an identifier (`SiblingOf`) may give either. A
validation ends with one of the three exit codes, or with one of the tracebacks that
nothing in the code catches (`Traceback`): JSON that `json.loads` gives up on
(`Overwhelming`), a document that is too deep, a reference that `urlsplit` refuses. `Target` follows the lookup of the `referencing` library; `Meant`
says, in terms of the documents and not of the registry, what an author means by a
reference.

### Code-start gate: `CodeStartGate`

`gate` is the verifier and `tree` what it reads. `ReadEvidence` and `ReadSource` are
`load_and_validate`, document by document and source by source; `ListTracked`, `ListDisk`
and `CheckMissing` are the two listings of production paths and the look at each admitted
path; `Judge` is everything decided from what was read; `ReadBounded` is the bounded
record, after which the paths are listed again, and `HashGate` is the last digest.
`EditDocument`, `EditSource` and `MovePath` change the tree meanwhile. A document is the
answers that the code's questions get from it. `Conforms` says of a tree at once what the
verifier finds out in pieces; `watch` is a history variable: edits, moves, whether any
tree of the run conformed, and the paths that were out of place throughout.

## 3. Runs, bounds and what they show

| Run | Checks | Distinct states |
| --- | --- | --- |
| `admission` | `TypeOK`, `Soundness`, `Undisputed`, `LifecycleNeverVacuous`, `ImplementsSpec` | 192 798 |
| `semantic_path` | `TypeOK`, `InterpretationAuthorized`, `ReplayAccounted`, `DocketCompares`, `ControlsDiscriminate`, `PublishedIsAccounted` | 58 222 |
| `quarantine_alone` | `TypeOK`, `NoPartLeaks`, `ExitZeroIsComplete`, `ImplementsStore`, `InvocationsEnd` | 320 994 |
| `quarantine_overlap` | `ReceiptBacked`, `MismatchMeansRace`, `AgreeingLengthsMeanComplete` | 541 894 |
| `freeze` | `TypeOK`, `StoredAsCleared`, `VerifiedWasAcquired`, `ExitZeroVerifies`, `RequestsFollowSnapshot`, `FreezesEnd` | 320 620 |
| `manifest` | `TypeOK`, `StatusesWitnessed`, `UnfailedMatched`, `QuietVerdict`, `VerificationEnds` | 1 576 000 |
| `freeze_verified` | `TypesBeside`, `PassedWasAcquired`, `OneWriteNeverTears`, `RecordMisleadsAfterTwoStops`, `QuietVerdict` | 3 283 643 |
| `code_start_gate` | `QuietVerdict`, `OneEditTearsOnlyDoubleReads`, `StandingIntruderIsFound` | 889 552 |
| `schemas` | `FileVerdicts`, `ExitZeroIsSound` | 9 589 522 |
| three `claim_*` runs | one documented sentence each, expected to be violated | see section 6 |

Deadlock is not checked (`CHECK_DEADLOCK FALSE`) because every one of these programs
ends, and a state in which all have ended has no successor. That they do end is a
liveness property of its own in the runs of `Quarantine`, `CorpusFreeze` and
`VerifyManifest`, and part of `ImplementsSpec`, which includes the fairness of the
single abstract step, for `Admission`.

**`admission`.** The evaluation time is 2, instants are 1 to 3: before, exactly at and
after. Evidence is every sequence of at most two of 25 objects that each depart from a
complete one in one respect (two or three respects where only a combination is
interesting), under 15 registrations. In addition: anchor sets that drift, each of the
subsets of the seven wire defects, evidence in the wrong order or twice, and evaluation
times at and beyond both ends. Two objects are enough for what a check can confuse:
every condition either is existential, or compares two objects (order, conflict), or
holds of all, which one further object refutes. The proofs of section 5 remove the
bound.

**`semantic_path`.** Every pair of extraction responses of at most two items over five
candidate shapes and a malformed one, before a good interpretation; 32 combinations of
assertions and references, and four answers of a wrong shape, after good extractions;
fixtures that are exhausted early, have an exchange too many, or differ from their pinned
digest; and six authorities, five of which must be refused: expired at the very instant,
with an instant that does not parse, stale, with evidence out of order, and disputed by a
second basis for the demonstration's own source. The script makes three calls, so responses longer than two
items only repeat what two do.

**`quarantine_alone`.** One process, two sources, two starts; documents that fit, one
that is too large, a transfer that is cut short; command lines for metadata only, a
download, a pinned download, an unknown source, a repeated one, and a digest without a
download. Two starts are what a rerun needs in order to meet an artifact, a receipt or
an orphan of an earlier run. `ExitZeroIsComplete` and `ImplementsStore` are stated of an
operator who runs one invocation at a time; that nothing is overwritten, which
`ImplementsStore` includes, is refuted of two by `claim_OverwriteProhibited`.

**`quarantine_overlap`.** Two processes of two starts each on one source, with symmetry
over the processes (no liveness property is checked here). What is left of the receipt's
promise when invocations overlap: it is backed by an artifact, it differs from that
artifact only if both invocations committed one, and equal lengths still mean that the
transfer was complete. Sources do not interact except by order, so one is enough.

**`freeze`.** Two sources, one of which stands for CA-3, whose target may not be the
provenance URL; ten rights matrices (each source cleared either way or blocked, a
permission missing, another suffix, targets at the provenance URL); three bodies, one
of another media type; two starts, with a revision at any moment and a failure or a kill
at every step. Two starts are what it takes to mix the files of two runs.
`ExitZeroVerifies` is an equivalence. Exit 0 of the freezer means a package that
verifies *exactly when* none of three leftovers is in the way: the receipt of a source
that has since been blocked, a target at the provenance URL, or an older internal file
under a suffix that sorts first.

**`manifest`.** 37 worlds: one in which all matches, and those that deviate from it in
one respect in the tree, either manifest, or the repository. Every selection of reports
with and without `--allow-incomplete`, at most two edits at any moments, and any of the
reads and git calls failing. Two edits are what it takes to delete and restore a file
between two of the three looks the code takes at it.

**`freeze_verified`.** One source, cleared either way or blocked, two bodies (symmetric),
three starts of the freezer with a failure, a kill or a revision of the rights at every
step, and one verification at any time, before or after the package went to another
checkout. The verifier handles each entry by itself, and what it compares across entries
(coverage) one source can violate in both directions. Three starts are what a freeze
record of one run needs to survive beside the index of another in a package that
verifies; with two, `RecordMisleadsAfterTwoStops` would be vacuous. The counts of writes
and stops saturate at two, which the properties do not look beyond.

**`code_start_gate`.** Two sources instead of four (`SourceCount`), one of them CA-3; every
tree that departs from a conforming one in one document, one file or the paths, and every
pairing of twelve source lists with seven lists of receipts. Either one edit of a
document or source file, or up to six moves of paths. Six is tight: with six moves an
intruder does get through, and `StandingIntruderIsFound` says that fewer do not suffice.
Edits and moves are not mixed, because the properties speak of one or the other.

**`schemas`.** Three files, two of which share a bare name; two absolute identifiers and a
relative one that is the bare name of the other file; sixteen documents besides what is
unreadable, no JSON, no object or too much for the parser, in *every* content of the
directory, with one edit at any moment. Two files are what it takes to be ambiguous, and
a third to be referred to or not.

Each property of these runs has a mutation of a modelled definition in `PROJECT.json`
under which the same run refutes it: a replaced rather than compared artifact, a digest
compared only with a new artifact, an interpretation gate that asks for a receipt and not for its state,
a manifest without entries that passes, and so on.

## 4. Fairness

Safety properties need none. For the rest:

- `Admission`, `SemanticPath`: `WF_vars(Next)`. A function call that is running goes on.
- `Quarantine`: `WF_vars(Step(p))` for each process. Each request has a timeout and the
  number of bytes is bounded, so every step returns, with a result or an exception.
  Nothing makes anybody start the utility, publish, or kill a process.
- `CorpusFreeze`: `WF_vars(Step)`, for the same reason; `Revise`, `Start` and `Kill`
  are not fair.
- `VerifyManifest`: `WF_vars(Verify)`. git is called with a timeout and each other
  step is a local read; `Edit` is not fair.
- `FreezeVerifier`, `CodeStartGate` and `SchemaRegistry` state no fairness: what they
  promise is about the verdict and not about reaching it. That they cannot go on for ever
  is proved without fairness, whatever is written beside them (`ReadsRunOut`,
  `GateRunsOut`, `ValidationsRunOut`).

No fairness is assumed of the outcome of a step: a request may fail every time, which
ends the run, and no property needs it to succeed.

## 5. Proofs

`tlapm` 1.4.5 checks every theorem to the last leaf, with SMT (Z3), Zenon and, for the
temporal steps, LS4. The theorems hold for all values of the constants that satisfy the
named assumptions of the modules, and TLC evaluates the assumptions in the passing runs:

- `AdmissionInputs`: `Null` and `Unnormalized` are distinct from the instants, and every
  document is well typed.
- `Quarantine`: the sources, which a registry lists, are finite; their IDs are numbers
  (their order is all that is used), bodies have a size, a receipt is not the marker for an absent one, and what is left of a transfer that
  was cut short is smaller than the body (`CutShortAssumption`, without which equal
  lengths would tell nothing).
- `CorpusFreeze`: sources and suffixes are numbers, the sources of a rights matrix are
  finite, each body has one suffix, each rights
  matrix is well typed, and no file, entry or ledger line is the marker for an absent one.
- `VerifyManifest`: the markers for absent, unreadable and malformed things differ from
  the things; worlds, commands and the texts of manifests are well typed; every line of
  `SHA256SUMS` carries a digest, which its parser demands.
- `ProviderBoundary` and `SemanticPath`: spans, slots, quotes, shapes, fixtures and
  templates are well typed, spans that match literally also match folded, an authority
  document of the demonstration has some evidence and nothing wrong on the wire, the
  demonstration's source is one of the sources, and the markers differ from the values.
  The first evidence object of such a document has a digest: the script replaces it by the
  one that recomputes, and its removal is what the second control plants.
- `SchemaRegistry`: files and documents are well typed, the files of a directory are
  finite and ordered, and the markers differ from the values they stand beside. Names and
  identifiers may coincide.
- `CodeStartGate`: the Canadian source is not synthetic, lists are sequences of records,
  no admitted path is a cache artifact, trees are well typed, and `Absent` is no content.

`MaxStarts`, `MaxEdits` and `MaxMoves` are arbitrary natural numbers in the proofs, so no
theorem depends on a bound.

| Module | Obligations | Theorems |
| --- | --- | --- |
| `AdmissionProofs` | 1438 | `TypeCorrect`, `Invariance`, `AdmissionSound`, `AdmissionUndisputed`, `LifecycleChecksGrounded`, `EvaluatorImplementsPromise`, `DecisionUnique`, `EvaluationsRunOut`, `DecisionTotal`, `TimeNeverRestores` |
| `SemanticPathProofs` | 1586 | `PathInvariance`, `PathTypes`, `OnlyAdmittedInterpreted`, `EveryCallAccounted`, `DocketIsFaithful`, `ControlsSayWhatTheyPlanted`, `PublishedWasProduced`, `PathRunsOut`, `ControlsAlwaysAnswer`, `PublishedExactlyWhenDeserved` |
| `QuarantineProofs` | 1262 | `QuarantineTypes`, `ReceiptsAreBacked`, `OnlyRacesMismatch`, `NoPartIsLeft`, `LengthsTellCutShort`, `AloneNeverOverwrites`, `ExitZeroKeepsItsWord`, `AloneImplementsStore`, `OnlyEarlierFindersReplace`, `InvocationsRunOut` |
| `CorpusFreezeProofs` | 976 | `FreezeTypes`, `BytesStayWhereCleared`, `VerifiedPackageIsAuthorized`, `OnlyPermittedRequests`, `ExitZeroMeansVerified`, `FreezesRunOut` |
| `FreezeVerifierProofs` | 2466 | `VerifierTypes`, `PassRestsOnAcquisitions`, `ReadsComeToTheVerdict`, `TwoStopsMislead`, `OneWriteMisleadsNobody`, `ReadsRunOut`, `CheckoutsKeepThePromises` |
| `VerifyManifestProofs` | 2427 | `VerificationTypes`, `NoStatusIsInvented`, `NothingUnverifiedPasses`, `StillWorldGetsItsVerdict`, `VerificationsRunOut`, `OneEditTearsNoVerdict` |
| `CodeStartGateProofs` | 2391 | `GateTypes`, `QuietVerdictIsRight`, `SixMovesHideAnIntruder`, `OneEditTearsOnlyWhatIsReadTwice`, `GateRunsOut` |
| `SchemaRegistryProofs` | 1316 | `RegistryTypes`, `VerdictsAreDeserved`, `StatusZeroIsEarned`, `AbortsHaveCauses`, `ValidationsRunOut` |

**Admission.** `Soundness` is not inductive: when `Admit` is reached, what the earlier
checks established is nowhere in the state. `IInv` records it: no check that has been
passed fires (`NothingFired`), each narrowed set is the evidence its declarative
condition speaks about (`Narrowed`), the evidence read so far is in order and intact
(`EvidenceSoFar`), and a decision was made by the first check that fires
(`DecidedByFirst`). The lemmas before it show that the comparisons of the code say what
the declarative conditions say (`LifecycleAgrees`, `ScopeAgrees`, `ItemAgrees`), which is
where the half-open intervals are argued. `AdmissionSound` and `AdmissionUndisputed`
then follow from the conditions of the last two checks, and
`EvaluatorImplementsPromise` from `DecidedByFirst`: each step is a stutter or the one
decision that `AdmissionSpec` allows. That refinement is proved for safety
(`Init /\ [][Next]_vars`); its fairness half is checked by TLC, except that an evaluation
cannot go on without deciding (`EvaluationsRunOut`).

`DecisionTotal` takes the check that fires earliest: at least `admitted`, the return at
the end of `_evaluate_state`, fires for everything, and the positions are natural numbers.
With `DecisionUnique`, the ladder of returns is a function of the document.
`TimeNeverRestores` compares two evaluations of one document. The conditions of the checks
up to `registration_times` do not mention the evaluation time (`EarlyChecksTimeless`); an
instant that has come stays come (`HappenedStays`), so that the condition of each lifecycle
refusal but NOT_YET_EFFECTIVE, once true, stays true (`DatesOnlyPass`), and a document that
has such a condition is decided no later in the ladder than by it (`DecidedNoLater`).

**Semantic path.** The script is straight-line code, and its invariant says of each stage
what the gates before it have left behind: which results there are (`Progress`), what they
were made from (`Extracted`, `Docketed`, `Gated`, `Interpreted`), which request the
provider answered with which exchange (`Asked`), and what a published run consists of
(`Complete`). Two lemmas carry the negative controls: an admitted document stripped of its
evidence is decided by exactly one check (`WithoutEvidence`), and one whose evidence has
lost its digest by the schema (`WithoutADigest`). For the docket, bags that count one
candidate differently have different digests (`BagsDiffer`). `OnlyAdmittedInterpreted`
rests on the gate of `propose_interpretation` itself, which both calls go through: the
second one, on the receipt of the control, could reach the provider if that gate asked for
less.

Two theorems say what the script does with its inputs rather than what it leaves behind.
`ControlsAlwaysAnswer`: neither of the two exceptions that would blame the evaluator
("missing authority allowed interpretation", "malformed authority was accepted") is ever
raised. Both are branches of the model, taken when the control's interpretation is
proposed or its document gets a receipt, and what the theorem shows is that no admitted
document leads there. `PublishedExactlyWhenDeserved`: `Deserved` speaks of the fixture and the template
alone, without any step (the exchanges are there for each slot in turn, the two
extractions differ as bags, the interpretation complies, the authority is admitted), and a
run is published exactly if its inputs are `Deserved`. Each gate either finds a condition
that fails or adds one to those `Examined`, and a deserving run fails at none
(`DeservedGoesOn`).

**Quarantine.** `MismatchMeansRace` needs to know what a process under way has done:
`HasCommitted` (one that is about to write its receipt has an artifact, which is the body
it carries unless a race replaced it) and `CarriesBody` (a body whose length agrees with
its header was not cut short). Both speak of *other* processes as well: a commit by one
disturbs what another one knows, and `raced` is what repairs it. The theorems about one
process alone add `FoundAbsent`, that what it found absent is absent still when it
commits, and `OnCourse`, that each source it has done has the receipt and the artifact
exit 0 speaks of.

With one process the directories implement `AcquisitionStore`. A commit is a `Deposit`,
because nothing has filled the place it found empty (`FoundAbsent`); a written receipt is
a `Describe`, because with nothing raced (`NoneRaced`) the process carries the body that
is there, and because the length it declares is that of some body (`HeadersAreLengths`);
every other step leaves the store alone. Of any number of processes
`OnlyEarlierFindersReplace` says what remains of that. Once an artifact is there, only a
process that found the place empty before can replace it, each of these at most once, and
no process joins them: overwriting ends with the invocations that overlapped at the first
commit.

**Corpus freeze.** Every entry, of the freeze under way and of the index in the package,
stands for an acquisition made under its terms (`EntriesAcquired`), and the source under
way was acquired under the terms of the snapshot (`UnderWay`). `VerifiedWasAcquired`
then follows from the verifier's comparison of the entry with the rights as they are,
however many revisions lie between. `ExitZeroVerifies` needs the package described after
each write: which files a source that is done has (`Written`), and what they all are at
the end (`Ended`), from where both directions of the equivalence are argued source by
source.

**Freeze verifier.** Four arguments, each stronger than the one before. What it remembers
of the index was acquired (`Remembered`), and what it has compared agrees unless it failed
(`SoFar`): that is all a torn pass is worth. With nothing written, what it read is there
still (`ReadsArePresent`) and it has failed exactly if something it took is wrong
(`FailedIsWrong`). With one write, `WouldPass` says at every moment what the rest of the
verification will come to: the verifier's own steps carry it out, and a write either
leaves it as it was, which was the verdict on the package before the write, or comes
before the read and makes it the verdict on the package after it. The freeze record is
determined by how each source was frozen, which the ledgers' lines tell as well; an
invariant over the number of stops (`Unstopped`, `StoppedOnce`) then says with which files
the record can disagree.

A checkout elsewhere lacks the internal bytes, which are not committed. `CheckoutExcuses`
says what that does to the verdict: a package that verified still does, and one that did
not may come to, but only by the absence of an internal file that the verifier's glob
takes and the index does not name (`Mistaken`). The promises about clearance and
authorization speak of what is there, and hold in every checkout.

**Manifest verification.** `InOrder` ties the stage to the report and the entry it is
concerned with, and `held` to the tree: a status is witnessed because the step that
reports it looks at the tree as it is at that moment. `Accounted` says that what
is listed, what is still pending, the results and the reports fit together, up to the exit
code. For a world
that stands still, `Judged`, `Reached` and `Made` tie each result, the place the command
has come to and each report to what the tree deserves; `Stops`, `FirstStop` and `Gaps` say
what that is without following the steps.

`OneEditTearsNoVerdict` is about an edit between two reads. The tree `T` at the start and
the tree as it is differ in one path at most, and whatever a path was seen to hold, it
holds in one of the two (`Since`). If the edited path was seen to match what it holds now,
all entries match in the tree at the end; otherwise all of them matched in `T`. Two entries
that list the edited path with two digests could fall on both sides, and the theorem
excludes them. It does not extend to a second edit: TLC refutes the same formula for two
edits (tried with `MaxEdits` = 2, not kept as a run), so a pass of a tree that is being
edited can be one that no tree deserved.

**Code-start gate.** An intruder that stands from the first step to the last escapes both
four listings only by moves: out of the index and onto the disk before one, and back
before the next, two moves each time (`Dodged`, `Standing`). For the quiet verdict the process has found what the tree says
(`Faithful`, `Found`), and behind its judgement the evidence holds (`Granted`); the lemma
`SourcesAgree` shows that dictionaries made from lists, where the last record of an id
counts, come to the declarative `SourcesConform`.

For one edit, the invariant says of the tree before it or of the tree after it that it
explains every answer the verifier has had: what was read is what that tree says
(`ReadOf`), and what is still to be read will be what it says (`AheadOf`). Before the edit
the one tree there is does both. The edit of a file that has been read leaves the old
tree as the explanation, the edit of one that has not makes the new tree one. The only
files that can fall on both sides are the profile, which is read once as a record and
once as text, and a source that two records name; the property excludes exactly these. A tree that
explains a pass conforms.

**Schema registry.** A file that was discovered has been loaded or has an issue (`Read`); a
key of the registry belongs to a file that bears it, and once a loop has come to a file,
its keys belong to somebody (`Entered`). Among the files judged so far an issue has a
cause, and a cause an issue; an identifier is repeated if an *earlier* file declares it
(`Charged`). At the report, `HolderBears` and `BornIsHeld` say that a lookup finds some
file that bears the key, and `PlainResolves` that for an unambiguous document this is the
file its author means. `StatusZeroIsEarned` is about all documents, whatever names and
identifiers they share, with the exception its statement names.

What ends in a traceback has a cause of its own: `TracebacksHaveCauses` says that a report
has come past no document that is too deep or has a reference that cannot be split, that
each of the two tracebacks of the validation loop has loaded one, and that of a directory
nobody edits a validation ends in a traceback exactly if one of these or content the
parser gives up on is there (`Hopeless`). It speaks of the causes that are modelled; the
libraries may have others.

**Running out.** Each program has a measure of what is ahead of it, and a theorem that
bounds it and says that every step of the program lowers it, while nothing but another
start raises it. With N sources, files or evidence objects:

| Theorem | At most |
| --- | --- |
| `EvaluationsRunOut` | 27 + N steps of an evaluation |
| `PathRunsOut` | 15 calls of the script |
| `InvocationsRunOut` | 6N + 6 steps of an invocation, whatever other processes do |
| `FreezesRunOut` | 3N + 4 steps of a freeze, whatever is revised |
| `ReadsRunOut` | 3N + 6 steps of a verification, whatever freezes do beside it |
| `ValidationsRunOut` | 3N + 4 steps of a validation, whatever is edited |
| `VerificationsRunOut` | 1 + 3(L + R) steps of a verification, for L lines in the manifests at its start and R reports, whatever is edited |
| `GateRunsOut` | seven evidence steps, one for each source the code-start source list turns out to have, and eleven more, whatever is edited (a lexicographic measure: the length of the list is not known before it is read) |

These are the safety half of `InvocationsEnd`, `FreezesEnd`, `VerificationEnds` and the
fairness of `ImplementsSpec`. What TLC adds is that the step which fairness asks for is
enabled until the end.

**Only model-checked.** Liveness and everything with `ENABLED` (all `...End` properties and
the fairness half of `ImplementsSpec`), beyond what running out says of them; and what a
definition computes by induction over data. No module declares a RECURSIVE operator. The type
invariants of `SchemaRegistry` and `CodeStartGate` are proved and in no run; that of
`FreezeVerifier` is both.

## 6. Where the code and its documents disagree

Three sentences of the repository are stated as properties that a run refutes. Each
counterexample is a behaviour of the model that the code has.

| Run | The document says | The code does |
| --- | --- | --- |
| `claim_WarrantNamesTheSource` | `design/admission-boundary-001/ADMISSION-CONTRACT-v0.1.md`:24: the warrant's delegation covers the exact source identity | `admission.py`:571 compares version, digest and scope; the warrant's `source_id` is never read |
| `claim_OverwriteProhibited` | `scripts/acquire_canada_preflight.py`:379: overwrite prohibited | two overlapping invocations may both find no artifact and both commit one |
| `claim_NoReferenceAborts` | `schemas.py`:357: an unusable `$ref` must never abort the run | `urlsplit` at :330 stands before the `try` and raises `ValueError` for `http://[`; the command ends in a traceback and reports no file |

Nine more were met while modelling and have no run of their own:

- `admission.py`:487 says that an instant that is not normalized is refused at the input
  boundary. Only the instants an evaluation comes to are parsed; a receipt may be issued
  over others.
- `admission.py`:864 says that defective bytes are an `AdmissionInputBoundaryError`.
  `1e400` ends in `AdmissionEvaluationError`, a lone surrogate in `UnicodeEncodeError`.
- `candidate_extraction.py`:209 speaks of a literal contiguous span, never fuzzy. Case and
  white space are folded, and the provider's spelling is kept.
- `tests/contract/test_canada_acquisition_freeze.py`:205 says that committed bytes exist
  only for repository dispositions. After a disposition is narrowed, a new freeze
  completes and verifies with the old bytes in `sources/`.
- `design/admission-boundary-001/STATE-INPUT-MAPPING-v0.1.json` gives a state as soon as
  *any* applicable record deviates: `SOURCE_VERSION_MISMATCH` (:39) and
  `SOURCE_DIGEST_MISMATCH` (:46), `NOT_YET_EFFECTIVE` (:67), `EXPIRED` (:74), and, worded
  with "an applicable" or without a quantifier, `SUPERSEDED` (:81) and `REVOKED` (:88).
  `admission.py` narrows instead. It refuses a version or a digest only if *no* evidence
  binds it (:673, :680; of the candidate's anchors, one is enough), and a lifecycle
  condition has to hold of the registration or of *all* evidence in scope (:697 to :706).
  The model follows the code.
- `manifests.py`:279 describes a file that is deleted between the existence check and the
  read as `MISSING_FILE`. If it disappears after the `exists()` of `hash_file`
  (`hashing.py`:116), `is_file()` and the read make it `UNREADABLE`. The model has both
  outcomes (`FindFile`, `HashFile`), and both are failures.
- A manifest that is not UTF-8 raises `UnicodeDecodeError` from `manifests.py`:409, which
  nothing maps: the command ends with status 1 and a traceback, where the table in
  `cli.py` keeps 2 for a manifest that cannot be read (`Undecodable` in the model).
- The docstring of `hash_file` (`hashing.py`:111) promises `ManifestEntryMissingError` for
  a path that is not a regular file; the code raises `ConfigurationError` for it (:121),
  and the manifest calls it `UNREADABLE`. `HashFile` follows the code.
- `schemas.py`:253 catches `JSONDecodeError` only. JSON with an integer of too many digits
  (a plain `ValueError`) or nested too deeply (`RecursionError`) ends the whole validation
  in a traceback, where a file that cannot be parsed is meant to be one issue of the
  report (`Overwhelming` and `deep` in the model; `AbortsHaveCauses`).

## 7. What is left out, and why

**Abstractions.**

- A body stands for its digest, or its two digests and its length: the hash functions are
  taken to be injective on the bodies of an instance.
- A storage classification is determined by its disposition (`AreaOf`) and is not modelled
  apart from it. The code picks the area by the classification
  (`scripts/freeze_canada_corpus.py`:201), and neither the freezer nor the verifier compares
  it with the disposition; that the two agree is asserted of the committed matrix by
  `tests/contract/test_canada_rights_clearance.py`:173. Of a matrix in which they do not,
  `StoredAsCleared` and `ExitZeroVerifies` say nothing: a deviating classification would be
  a fourth obstruction beside the three that the latter names.
- Validation of URLs, redirects, media types, paths and digests is one refusal or one
  outcome per entry. Which strings are refused is a matter of pure string functions, and
  no property tells two refusals of the same kind apart.
- A model response is its decoded shape: root keys, items, and whether one of the
  recursive key and token checks finds a claim of authority in it.
- A proposal stands for its own identifier, and a candidate for its deterministic unit ID.
- The files of a tree are replaced whole and never rewritten in place: a read sees one
  state of a file. For the package this is what `atomic_write` does. Manifests are parsed once and so are only deleted, never
  edited, while they are being read.
- In `SchemaRegistry`, identifiers of subschemas, identifiers that are not strings and
  relative references of several path segments are left out, a JSON pointer is one of the
  parts it may point to, and how `referencing` and the metaschema come to an answer is
  external. So are exceptions of these libraries other than the three in `Traceback`.
- In `CodeStartGate` the text of a document is abstracted to its answers. A read that fails
  in a way `main` does not catch ends in status 1 like one that it catches, and both are
  the verdict "fail".
- A killed process has exit 9. Power loss, after which a renamed file may be empty, is
  not modelled: the code flushes and syncs a file before it renames it.
- Wording, layout of receipts and reports, notes and logging are left out.

**Components.** Rights evidence capture and the semantic conformance rules are planned and
not modelled yet. `doctor.py`
probes the local tool chain and keeps no state; `falsify_infrastructure.py` starts
external services and inspects their answers; the renderers format documents;
`compiler/`, `platform/`, `ui/` and `adapters/` hold contracts and placeholders without
program code. JSON Schema evaluation, `git`, HTTP and the file system are external and
appear as the outcomes the code distinguishes.

## 8. Plan

Done, in this order: the admission evaluator and its declarative specification with the
refinement; the semantic path over it; the acquisition utility; the freezer and
verifier; manifest and baseline verification; the verifier as a process beside the
freezer; the code-start gate; the schema registry; and the proofs of section 5.

What is left to model:

1. Rights evidence capture, as a variant of `CorpusFreeze` whose failures are recorded in
   the ledger rather than raised, and its link to the rights matrix that the freezer
   takes: no source is cleared on evidence that was not captured.
2. The semantic conformance rules, as operators over small Institutional IR documents.

Where a run is needed for them, a `claim_*` run whose disagreement is simple gives way,
and its sentence stays in section 6.

What is left to prove: liveness, which stays with TLC; of the rest, every property that a
passing run checks is stated by a theorem. A second freeze that overlaps the first is in no
model: `VerifiedPackageIsAuthorized` speaks of freezes one after another, and which of its
parts would survive an overlap is worth finding out.
