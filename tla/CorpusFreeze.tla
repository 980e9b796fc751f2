---------------------------- MODULE CorpusFreeze ----------------------------
(***************************************************************************)
(* scripts/freeze_canada_corpus.py and scripts/verify_canada_freeze.py.    *)
(* The freezer reads the rights matrix once, acquires every cleared source *)
(* in order and stores its bytes and its receipt as it goes, and at the    *)
(* end writes the index, the freeze record and the two hash ledgers.  It   *)
(* may fail at any of those steps or be killed between two of them, and    *)
(* deletes nothing.  Meanwhile the rights may be revised.  The verifier    *)
(* reads the package and the rights as they are at that time.              *)
(*                                                                         *)
(* A body stands for its length and its two digests, and a storage         *)
(* classification for its disposition, which determines it.                *)
(***************************************************************************)
EXTENDS Naturals, FiniteSets

CONSTANTS
    Sources,     \* source units; their order is that of source_id
    Canonical,   \* ... whose target may not be the provenance URL: CA-3
    URLs, Bodies,
    Suffixes,    \* file name suffixes; their order is the alphabetical one
    SuffixOf,    \* the suffix a body's media type and signature give it
    Matrices,    \* rights matrices the owner may publish
    MaxStarts,   \* bound on how often the freezer is started
    Absent       \* no such file, entry or value

Repository == "CLEAR_REPOSITORY_FREEZE"
Internal   == "CLEAR_INTERNAL_FREEZE_ONLY"
Blocked    == "BLOCKED_PENDING_CLEARANCE"
Cleared    == {Repository, Internal}

\* permitted: acquisition_permitted, and both permissions are SUPPORTED.
Record ==
    [disposition : Cleared \cup {Blocked}, permitted : BOOLEAN,
     target : URLs, provenance : URLs, suffix : Suffixes]

ASSUME SourcesAssumption ==
    /\ Sources \subseteq Nat /\ IsFiniteSet(Sources)
    /\ Suffixes \subseteq Nat /\ Canonical \subseteq Sources
ASSUME BodiesAssumption ==
    SuffixOf \in [Bodies -> Suffixes] /\ Absent \notin Bodies \cup Suffixes \cup Nat
ASSUME MatricesAssumption == Matrices \subseteq [Sources -> Record] /\ MaxStarts \in Nat

VARIABLES
    rights,     \* RIGHTS-CLEARANCE-v0.1.json
    bytes,      \* sources/ and .local/canada-freeze-internal/
    receipts,   \* receipts/
    index,      \* INDEX.json
    narrative,  \* ACQUISITION-FREEZE-v0.1.json
    sums,       \* SHA256SUMS and SHA512SUMS
    freezer,    \* the freezer's process
    acquired    \* history: every acquisition made

vars == <<rights, bytes, receipts, index, narrative, sums, freezer, acquired>>

Areas == {"sources", "internal"}
Algorithms == {"sha256", "sha512"}
\* The code asks the record's storage classification, which follows from the disposition in
\* the committed rights matrix and is not modelled apart from it.
AreaOf(disposition) == IF disposition = Repository THEN "sources" ELSE "internal"

Receipt == [target : URLs, body : Bodies]
Entry == [target : URLs, body : Bodies, disposition : Cleared, suffix : Suffixes]
Entries == [Sources -> Entry \cup {Absent}]
\* A ledger's line for a source; path is Absent for "(INTERNAL_ONLY)".
Line == [path : Suffixes \cup {Absent}, body : Bodies]
Ledger == [Sources -> Line \cup {Absent}]
Narrative ==
    [disposition : {"COMPLETE", "PARTIAL", "BLOCKED"},
     blocked : SUBSET Sources, committed : SUBSET Sources, internal : SUBSET Sources]
Index == [entries : Entries, summary : Narrative]
ASSUME FilesAssumption ==
    /\ Absent \notin Receipt /\ Absent \notin Entry
    /\ Absent \notin Index /\ Absent \notin Ledger /\ Absent \notin Line

Acquisition == [source : Sources, target : URLs, disposition : Cleared, body : Bodies]

Phase == {"idle", "acquire", "bytes", "receipt", "record", "sha256", "sha512", "exited"}
\* todo: sources not done yet.  source, body: the one being acquired, and its
\* bytes.  exit: main's status, 1 after an uncaught exception, 9 when killed.
Freezer ==
    [phase : Phase, starts : 0..MaxStarts, snapshot : Matrices,
     todo : SUBSET Sources, source : Sources \cup {Absent}, body : Bodies \cup {Absent},
     entries : Entries, exit : {Absent, 0, 1, 2, 9}]

NoEntries == [s \in Sources |-> Absent]
NoFiles == [s \in Sources |-> [x \in Suffixes |-> Absent]]

Init ==
    /\ rights \in Matrices
    /\ bytes = [a \in Areas |-> NoFiles]
    /\ receipts = NoEntries
    /\ index = Absent /\ narrative = Absent
    /\ sums = [a \in Algorithms |-> Absent]
    /\ freezer = [phase |-> "idle", starts |-> 0, snapshot |-> rights, todo |-> {},
                  source |-> Absent, body |-> Absent, entries |-> NoEntries, exit |-> Absent]
    /\ acquired = {}

package == <<bytes, receipts, index, narrative, sums>>

Current == freezer.source
Terms == freezer.snapshot[Current]   \* the rights record acquired under
EntryOf(terms, b) ==
    [target |-> terms.target, body |-> b,
     disposition |-> terms.disposition, suffix |-> terms.suffix]
LineOf(e) ==
    [path |-> IF e.disposition = Repository THEN e.suffix ELSE Absent, body |-> e.body]

Having(entries, dispositions) ==
    {s \in Sources : entries[s] # Absent /\ entries[s].disposition \in dispositions}

Advance(to) == freezer' = [freezer EXCEPT !.phase = to]
Exit(code) ==
    freezer' = [freezer EXCEPT !.phase = "exited", !.exit = code,
                               !.todo = {}, !.source = Absent, !.body = Absent,
                               !.entries = NoEntries]
Fail == Exit(2)
-----------------------------------------------------------------------------
\* The owner publishes another rights matrix.
Revise ==
    /\ rights' \in Matrices \ {rights}
    /\ UNCHANGED <<package, freezer, acquired>>

Start ==
    /\ freezer.phase \in {"idle", "exited"} /\ freezer.starts < MaxStarts
    /\ freezer' = [phase |-> "acquire", starts |-> freezer.starts + 1,
                   snapshot |-> rights,
                   todo |-> {s \in Sources : rights[s].disposition \in Cleared},
                   source |-> Absent, body |-> Absent, entries |-> NoEntries, exit |-> Absent]
    /\ UNCHANGED <<rights, package, acquired>>

Received(s, b) ==
    LET terms == freezer.snapshot[s]
    IN  /\ SuffixOf[b] = terms.suffix
        /\ acquired' = acquired \cup
              {[source |-> s, target |-> terms.target,
                disposition |-> terms.disposition, body |-> b]}
        /\ freezer' = [freezer EXCEPT !.phase = "bytes", !.source = s, !.body = b]

\* The next source in order of source_id.
IsNext(s) == s \in freezer.todo /\ \A t \in freezer.todo : s <= t

\* Regression: the record's permissions are not looked at.
AcquireUngated ==
    /\ freezer.phase = "acquire" /\ freezer.todo # {}
    /\ \/ Fail /\ UNCHANGED acquired
       \/ \E s \in Sources, b \in Bodies : IsNext(s) /\ Received(s, b)
    /\ UNCHANGED <<rights, package>>

\* Regression: a request that failed counts as one that returned nothing.
AcquireOrSkip ==
    /\ freezer.phase = "acquire" /\ freezer.todo # {}
    /\ \E s \in Sources :
          /\ IsNext(s)
          /\ \/ /\ freezer' = [freezer EXCEPT !.phase = "bytes", !.source = s]
                /\ UNCHANGED acquired
             \/ freezer.snapshot[s].permitted /\ \E b \in Bodies : Received(s, b)
    /\ UNCHANGED <<rights, package>>

\* acquire: any body the target may serve now, if it passes for the expected
\* media type.  The request may also fail, whatever the record permits: with
\* status 1 when the body breaks off as an IncompleteRead, which is not caught.
Acquire ==
    /\ freezer.phase = "acquire" /\ freezer.todo # {}
    /\ \/ \E code \in {1, 2} : Exit(code) /\ UNCHANGED acquired
       \/ \E s \in Sources, b \in Bodies :
            LET terms == freezer.snapshot[s]
            IN  /\ IsNext(s)
                /\ terms.disposition # Blocked /\ terms.permitted
                /\ s \in Canonical => terms.target # terms.provenance
                /\ Received(s, b)
    /\ UNCHANGED <<rights, package>>

\* Regression: the area is chosen by the rights as they are now.
StoreByPresentRights ==
    /\ freezer.phase = "bytes"
    /\ \/ Fail /\ UNCHANGED bytes
       \/ /\ bytes' = [bytes EXCEPT
                ![AreaOf(rights[Current].disposition)][Current][Terms.suffix] = freezer.body]
          /\ Advance("receipt")
    /\ UNCHANGED <<rights, receipts, index, narrative, sums, acquired>>

StoreBytes ==
    /\ freezer.phase = "bytes"
    /\ \/ Fail /\ UNCHANGED bytes
       \/ /\ bytes' = [bytes EXCEPT
                ![AreaOf(Terms.disposition)][Current][Terms.suffix] = freezer.body]
          /\ Advance("receipt")
    /\ UNCHANGED <<rights, receipts, index, narrative, sums, acquired>>

\* Regression: the source is not struck off.
StoreReceiptAgain ==
    /\ freezer.phase = "receipt"
    /\ \/ Fail /\ UNCHANGED receipts
       \/ /\ receipts' = [receipts EXCEPT
                ![Current] = [target |-> Terms.target, body |-> freezer.body]]
          /\ freezer' = [freezer EXCEPT
                !.phase = "acquire", !.source = Absent, !.body = Absent,
                !.entries = [@ EXCEPT ![Current] = EntryOf(Terms, freezer.body)]]
    /\ UNCHANGED <<rights, bytes, index, narrative, sums, acquired>>

StoreReceipt ==
    /\ freezer.phase = "receipt"
    /\ \/ Fail /\ UNCHANGED receipts
       \/ /\ receipts' = [receipts EXCEPT
                ![Current] = [target |-> Terms.target, body |-> freezer.body]]
          /\ freezer' = [freezer EXCEPT
                !.phase = "acquire", !.todo = @ \ {Current},
                !.source = Absent, !.body = Absent,
                !.entries = [@ EXCEPT ![Current] = EntryOf(Terms, freezer.body)]]
    /\ UNCHANGED <<rights, bytes, index, narrative, sums, acquired>>

Summary(entries, matrix) ==
    LET blocked == {s \in Sources : matrix[s].disposition = Blocked}
    IN  [disposition |-> CASE blocked = {} -> "COMPLETE"
                           [] blocked # {} /\ Having(entries, Cleared) # {} -> "PARTIAL"
                           [] OTHER -> "BLOCKED",
         blocked |-> blocked, committed |-> Having(entries, {Repository}),
         internal |-> Having(entries, {Internal})]

WriteIndex ==
    /\ freezer.phase = "acquire" /\ freezer.todo = {}
    /\ \/ Fail /\ UNCHANGED index
       \/ /\ index' = [entries |-> freezer.entries,
                       summary |-> Summary(freezer.entries, freezer.snapshot)]
          /\ Advance("record")
    /\ UNCHANGED <<rights, bytes, receipts, narrative, sums, acquired>>

\* Regression: a freeze record that is there is kept.
WriteRecordOnce ==
    /\ freezer.phase = "record"
    /\ \/ Fail /\ UNCHANGED narrative
       \/ /\ narrative' = IF narrative = Absent
                          THEN Summary(freezer.entries, freezer.snapshot) ELSE narrative
          /\ Advance("sha256")
    /\ UNCHANGED <<rights, bytes, receipts, index, sums, acquired>>

WriteRecord ==
    /\ freezer.phase = "record"
    /\ \/ Fail /\ UNCHANGED narrative
       \/ narrative' = Summary(freezer.entries, freezer.snapshot) /\ Advance("sha256")
    /\ UNCHANGED <<rights, bytes, receipts, index, sums, acquired>>

WriteSums(a) ==
    /\ freezer.phase = a
    /\ \/ Fail /\ UNCHANGED sums
       \/ /\ sums' = [sums EXCEPT ![a] = [s \in Sources |->
                        IF freezer.entries[s] = Absent THEN Absent
                        ELSE LineOf(freezer.entries[s])]]
          /\ IF a = "sha256" THEN Advance("sha512")
             ELSE Exit(0)
    /\ UNCHANGED <<rights, bytes, receipts, index, narrative, acquired>>

\* The process is killed.
Kill ==
    /\ freezer.phase \notin {"idle", "exited"}
    /\ Exit(9)
    /\ UNCHANGED <<rights, package, acquired>>

Step ==
    \/ Acquire \/ StoreBytes \/ StoreReceipt \/ WriteIndex \/ WriteRecord
    \/ \E a \in Algorithms : WriteSums(a)

Next == Revise \/ Start \/ Step \/ Kill

\* A request has a timeout and every other step is local; nobody need start
\* the freezer or revise the rights.
Spec == Init /\ [][Next]_vars /\ WF_vars(Step)
-----------------------------------------------------------------------------
\* The internal file the verifier takes: the first one of any suffix.
Candidates(s) == {x \in Suffixes : bytes["internal"][s][x] # Absent}
First(s) == CHOOSE x \in Candidates(s) : \A y \in Candidates(s) : x <= y

BytesAgree(s, e) ==
    IF e.disposition = Repository THEN bytes["sources"][s][e.suffix] = e.body
    ELSE Candidates(s) # {} => bytes["internal"][s][First(s)] = e.body

\* Regression: the entry's target and disposition are taken from the package.
PackageAgrees(s, e) ==
    /\ receipts[s] = [target |-> e.target, body |-> e.body]
    /\ BytesAgree(s, e)
    /\ \A a \in Algorithms : sums[a][s] = LineOf(e)

EntryAgrees(s, e) ==
    /\ rights[s].disposition = e.disposition
    /\ rights[s].target = e.target /\ e.target # rights[s].provenance
    /\ receipts[s] = [target |-> e.target, body |-> e.body]
    /\ BytesAgree(s, e)
    /\ \A a \in Algorithms : sums[a][s] = LineOf(e)

\* A cleared source has an entry, and a blocked one has none.
Coverage(s) == index.entries[s] # Absent <=> rights[s].disposition \in Cleared

\* Regression: receipts that no entry accounts for are passed over.
VerifiesEntries ==
    /\ index # Absent /\ \A a \in Algorithms : sums[a] # Absent
    /\ \A s \in Sources :
          /\ Coverage(s)
          /\ index.entries[s] # Absent => EntryAgrees(s, index.entries[s])

\* The verifier, run on the package as it stands, would report no failure.
Verifies ==
    /\ index # Absent /\ \A a \in Algorithms : sums[a] # Absent
    /\ \A s \in Sources :
          /\ Coverage(s)
          /\ receipts[s] # Absent => index.entries[s] # Absent
          /\ index.entries[s] # Absent => EntryAgrees(s, index.entries[s])
-----------------------------------------------------------------------------
TypeOK ==
    /\ rights \in Matrices
    /\ bytes \in [Areas -> [Sources -> [Suffixes -> Bodies \cup {Absent}]]]
    /\ receipts \in [Sources -> Receipt \cup {Absent}]
    /\ index \in Index \cup {Absent} /\ narrative \in Narrative \cup {Absent}
    /\ sums \in [Algorithms -> Ledger \cup {Absent}]
    /\ freezer \in Freezer
    /\ acquired \subseteq Acquisition

(***************************************************************************)
(* "Bytes are preserved exactly as received", and where they may be: every *)
(* committed body was acquired from its source under a record that cleared *)
(* it for the repository, and every internal one under a record that did   *)
(* not, however the rights were revised while a freeze was under way.      *)
(***************************************************************************)
StoredAsCleared ==
    \A a \in Areas, s \in Sources, x \in Suffixes : bytes[a][s][x] # Absent =>
        \E q \in acquired : /\ q.source = s /\ q.body = bytes[a][s][x]
                           /\ AreaOf(q.disposition) = a /\ SuffixOf[q.body] = x

(***************************************************************************)
(* A package that verifies is vouched for by an acquisition under the      *)
(* rights as they are now: each cleared source's bytes came from the       *)
(* record's target, under the record's disposition, whatever mixture of    *)
(* runs, failures and kills wrote the files.                               *)
(***************************************************************************)
VerifiedWasAcquired ==
    Verifies => \A s \in Sources : rights[s].disposition \in Cleared =>
        [source |-> s, target |-> rights[s].target,
         disposition |-> rights[s].disposition,
         body |-> index.entries[s].body] \in acquired

\* What an earlier run, or the rights matrix, put in the way of a package.
Obstructed(s) ==
    \/ rights[s].disposition = Blocked /\ receipts[s] # Absent
    \/ rights[s].disposition \in Cleared /\ rights[s].target = rights[s].provenance
    \/ /\ rights[s].disposition = Internal
       /\ \E x \in Candidates(s) : x < rights[s].suffix

(***************************************************************************)
(* What exit 0 of the freezer tells its operator, when the rights have not *)
(* been revised since: the package verifies, unless a source stands in the *)
(* way that the freezer does not look for.  A blocked source that was once *)
(* frozen still has its receipt; a target is the provenance URL, which the *)
(* freezer refuses for CA-3 and the verifier for every source; or an older *)
(* internal file of another suffix comes first.  The record agrees with    *)
(* the index.                                                              *)
(***************************************************************************)
ExitZeroVerifies ==
    freezer.exit = 0 /\ freezer.snapshot = rights =>
        /\ Verifies <=> \A s \in Sources : ~Obstructed(s)
        /\ narrative = index.summary

(***************************************************************************)
(* "A source whose rights disposition is BLOCKED_PENDING_CLEARANCE is      *)
(* never requested" of the rights a run started with, and no source is     *)
(* requested twice in a run: each acquisition is of a source that the      *)
(* snapshot permits, from its target there, which for CA-3 is never the    *)
(* provenance URL.                                                         *)
(***************************************************************************)
RequestsFollowSnapshot ==
    [][\A q \in acquired' \ acquired :
          /\ freezer.snapshot[q.source].permitted
          /\ freezer.snapshot[q.source].disposition = q.disposition
          /\ freezer.snapshot[q.source].target = q.target
          /\ q.source \in Canonical => q.target # freezer.snapshot[q.source].provenance
          /\ freezer.entries[q.source] = Absent]_vars

(***************************************************************************)
(* A freeze ends: a source that cannot be acquired fails it.               *)
(***************************************************************************)
FreezesEnd == freezer.phase = "acquire" ~> freezer.phase = "exited"

(***************************************************************************)
(* The inductive strengthening: the source under way was acquired under    *)
(* the terms of the snapshot, and every entry stands for an acquisition.   *)
(***************************************************************************)
EntriesAcquired(entries) ==
    \A s \in Sources : entries[s] # Absent =>
        [source |-> s, target |-> entries[s].target,
         disposition |-> entries[s].disposition, body |-> entries[s].body] \in acquired

UnderWay ==
    /\ \A s \in freezer.todo :
          freezer.snapshot[s].disposition \in Cleared /\ freezer.entries[s] = Absent
    /\ freezer.phase \in {"bytes", "receipt"} =>
          /\ Current \in freezer.todo /\ freezer.body \in Bodies
          /\ SuffixOf[freezer.body] = Terms.suffix
          /\ [source |-> Current, target |-> Terms.target,
              disposition |-> Terms.disposition, body |-> freezer.body] \in acquired

IInv ==
    /\ TypeOK /\ StoredAsCleared /\ UnderWay
    /\ EntriesAcquired(freezer.entries)
    /\ index # Absent => EntriesAcquired(index.entries)
=============================================================================
