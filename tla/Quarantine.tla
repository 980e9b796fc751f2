----------------------------- MODULE Quarantine -----------------------------
(***************************************************************************)
(* scripts/acquire_canada_preflight.py: invocations of the acquisition     *)
(* utility that share the quarantine and receipt directories.  Each one    *)
(* takes its selected sources in order, streams every body to a temporary  *)
(* .part file, commits it to the quarantine or reuses what is there, and   *)
(* then replaces the source's receipt.  Meanwhile the remote documents may *)
(* change, a transfer may end early, and an invocation may be killed.      *)
(*                                                                         *)
(* A body stands for its own SHA-256 digest.                               *)
(***************************************************************************)
EXTENDS Naturals, FiniteSets

CONSTANTS
    Invocations,   \* processes that may run the utility
    Sources,       \* registry sources; their order is that of source_id
    Ids,           \* source IDs a command line may name
    Bodies,        \* byte strings
    Published,     \* ... that a source may serve in full
    CutShort,      \* for each body, what an early end of file leaves of it
    Size,          \* bytes in a body
    MaxBytes,      \* MAX_DOWNLOAD_BYTES
    Requests,      \* command lines, as parsed
    MaxStarts,     \* bound on how often a process starts the utility
    Absent         \* no such file, no such header, no expected digest

Command ==
    [repeated : BOOLEAN,               \* an ID is given more than once
     selected : SUBSET Ids, download : BOOLEAN,
     expected : [Ids -> Bodies \cup {Absent}]]

ASSUME SourcesAssumption ==
    Sources \subseteq Ids /\ Ids \subseteq Nat /\ IsFiniteSet(Sources)
ASSUME BodiesAssumption ==
    /\ Published \subseteq Bodies /\ Absent \notin Bodies \cup Nat
    /\ CutShort \in [Bodies -> SUBSET Bodies] /\ Size \in [Bodies -> Nat]
    /\ MaxBytes \in Nat /\ MaxStarts \in Nat
ASSUME CutShortAssumption ==
    \A b \in Bodies : \A c \in CutShort[b] : Size[c] < Size[b]
ASSUME RequestsAssumption == Requests \subseteq Command

VARIABLES
    remote,      \* what each source serves at present
    quarantine,  \* the artifact of each source
    receipts,    \* the receipt of each source
    run,         \* the state of each process
    orphans,     \* .part files whose process was killed
    raced        \* sources whose artifact was replaced by a different one

vars == <<remote, quarantine, receipts, run, orphans, raced>>

Receipt ==
    [downloaded : BOOLEAN, sha256 : Bodies \cup {Absent},
     actual_byte_length : Nat \cup {Absent},
     content_length_header : Nat \cup {Absent}]
ASSUME ReceiptAssumption == Absent \notin Receipt

Phase == {"idle", "open", "stream", "verify", "compare", "commit",
          "receipt", "record", "exited"}

\* todo: selected sources not done yet.  source, header, body: the one being
\* acquired, its Content-Length, and its bytes.  part: a .part file exists.
\* exit: main's status, 1 after an uncaught exception, 9 when killed.
Run ==
    [phase : Phase, starts : 0..MaxStarts,
     command : Command, todo : SUBSET Sources,
     source : Sources \cup {Absent}, header : Nat \cup {Absent},
     body : Bodies \cup {Absent}, part : BOOLEAN,
     exit : {Absent, 0, 1, 2, 9}]

NoCommand == [repeated |-> FALSE, selected |-> {}, download |-> FALSE,
              expected |-> [s \in Ids |-> Absent]]

Init ==
    /\ remote \in [Sources -> Published]
    /\ quarantine = [s \in Sources |-> Absent]
    /\ receipts = [s \in Sources |-> Absent]
    /\ run = [p \in Invocations |->
                [phase |-> "idle", starts |-> 0, command |-> NoCommand, todo |-> {},
                 source |-> Absent, header |-> Absent, body |-> Absent,
                 part |-> FALSE, exit |-> Absent]]
    /\ orphans = 0 /\ raced = {}

files == <<quarantine, receipts, raced>>
world == <<remote, orphans>>

\* Process p is in state r.
Become(p, r) == run' = [run EXCEPT ![p] = r]
Advance(p, to) == Become(p, [run[p] EXCEPT !.phase = to])

\* Regression: the .part of a transfer that failed is left behind.
FailAndLeave(p, code) ==
    Become(p, [run[p] EXCEPT !.phase = "exited", !.exit = code])

\* An exception: every .part is unlinked on its way out, and main exits.
Fail(p, code) ==
    Become(p, [run[p] EXCEPT !.phase = "exited", !.exit = code, !.part = FALSE])

-----------------------------------------------------------------------------
Publish(s) ==
    /\ \E b \in Published : b # remote[s] /\ remote' = [remote EXCEPT ![s] = b]
    /\ UNCHANGED <<files, run, orphans>>

\* Regression: an ID the registry does not hold is not refused.
ValidIfDistinct(c) ==
    /\ ~c.repeated /\ c.selected # {}
    /\ \A s \in Ids : c.expected[s] # Absent => c.download /\ s \in c.selected

\* expected_digests, validate_selection and source_by_id
Valid(c) ==
    /\ ~c.repeated /\ c.selected # {} /\ c.selected \subseteq Sources
    /\ \A s \in Ids : c.expected[s] # Absent => c.download /\ s \in c.selected

Start(p) ==
    /\ run[p].phase \in {"idle", "exited"} /\ run[p].starts < MaxStarts
    /\ \E c \in Requests :
          Become(p, [phase |-> IF Valid(c) THEN "open" ELSE "exited",
                     starts |-> run[p].starts + 1, command |-> c,
                     todo |-> IF Valid(c) THEN c.selected ELSE {},
                     source |-> Absent, header |-> Absent, body |-> Absent,
                     part |-> FALSE, exit |-> IF Valid(c) THEN Absent ELSE 2])
    /\ UNCHANGED <<files, world>>

\* acquire_one up to the accepted response.  The request may fail, be
\* redirected outside the allowlist, or be answered with another status, media
\* type or length than it may be.
Open(p) ==
    /\ run[p].phase = "open"
    /\ \/ Fail(p, 2)
       \/ \E s \in run[p].todo :
            /\ \A t \in run[p].todo : s <= t
            /\ \E header \in {Absent, Size[remote[s]]} :
                  /\ run[p].command.download =>
                        header = Absent \/ Size[remote[s]] <= MaxBytes
                  /\ Become(p, [run[p] EXCEPT
                        !.phase = IF run[p].command.download THEN "stream" ELSE "receipt",
                        !.source = s, !.header = header,
                        !.body = IF run[p].command.download THEN remote[s] ELSE Absent,
                        !.part = run[p].command.download])
    /\ UNCHANGED <<files, world>>

(***************************************************************************)
(* stream_to_quarantine.  A read that times out or breaks ends the run     *)
(* (with exit 1 when it is an IncompleteRead, which nothing catches); a    *)
(* connection that is closed early looks like the end of the body, and     *)
(* content_length is not consulted again.                                  *)
(***************************************************************************)
Stream(p) ==
    /\ run[p].phase = "stream"
    /\ \/ \E code \in {1, 2} : Fail(p, code)
       \/ \E received \in {run[p].body} \cup CutShort[run[p].body] :
            /\ Size[received] <= MaxBytes
            /\ Become(p, [run[p] EXCEPT !.phase = "verify", !.body = received])
    /\ UNCHANGED <<files, world>>

\* Regression: an artifact that is there is taken for the one received.
VerifyAndReuse(p) ==
    LET r == run[p]
        expected == r.command.expected[r.source]
    IN  /\ r.phase = "verify"
        /\ \/ expected \notin {Absent, r.body} /\ Fail(p, 2)
           \/ /\ expected \in {Absent, r.body}
              /\ Become(p, [run[p] EXCEPT
                    !.phase = IF quarantine[r.source] = Absent THEN "commit" ELSE "receipt",
                    !.part = quarantine[r.source] = Absent])
        /\ UNCHANGED <<files, world>>

\* Regression: the received bytes always replace the artifact.
VerifyAndReplace(p) ==
    LET r == run[p]
        expected == r.command.expected[r.source]
    IN  /\ r.phase = "verify"
        /\ \/ expected \notin {Absent, r.body} /\ Fail(p, 2)
           \/ expected \in {Absent, r.body} /\ Advance(p, "commit")
        /\ UNCHANGED <<files, world>>

\* Regression: an expected digest is only compared with a new artifact.
VerifyIfNew(p) ==
    LET r == run[p]
        expected == r.command.expected[r.source]
    IN  /\ r.phase = "verify"
        /\ \/ quarantine[r.source] = Absent /\ expected \notin {Absent, r.body} /\ Fail(p, 2)
           \/ /\ quarantine[r.source] # Absent \/ expected \in {Absent, r.body}
              /\ Advance(p, IF quarantine[r.source] = Absent THEN "commit" ELSE "compare")
        /\ UNCHANGED <<files, world>>

\* The expected digest, and then target.exists().
Verify(p) ==
    LET r == run[p]
        expected == r.command.expected[r.source]
    IN  /\ r.phase = "verify"
        /\ \/ expected \notin {Absent, r.body} /\ Fail(p, 2)
           \/ /\ expected \in {Absent, r.body}
              /\ Advance(p, IF quarantine[r.source] = Absent THEN "commit" ELSE "compare")
        /\ UNCHANGED <<files, world>>

\* Regression: an artifact that differs is fetched again until it agrees.
CompareAndRetry(p) ==
    /\ run[p].phase = "compare"
    /\ Become(p, [run[p] EXCEPT
          !.phase = IF quarantine[run[p].source] = run[p].body THEN "receipt" ELSE "open",
          !.part = FALSE])
    /\ UNCHANGED <<files, world>>

\* The artifact that exists is read again, and reused or left alone.
Compare(p) ==
    /\ run[p].phase = "compare"
    /\ \/ quarantine[run[p].source] # run[p].body /\ Fail(p, 2)
       \/ /\ quarantine[run[p].source] = run[p].body
          /\ Become(p, [run[p] EXCEPT !.phase = "receipt", !.part = FALSE])
    /\ UNCHANGED <<files, world>>

\* part_path.replace(target): whatever has appeared there since is replaced.
Replace(p) ==
    LET s == run[p].source
    IN  /\ quarantine' = [quarantine EXCEPT ![s] = run[p].body]
        /\ raced' = IF quarantine[s] \in {Absent, run[p].body} THEN raced ELSE raced \cup {s}
        /\ Become(p, [run[p] EXCEPT !.phase = "receipt", !.part = FALSE])

\* Regression: a replace that fails is passed over.
CommitIfPossible(p) ==
    /\ run[p].phase = "commit"
    /\ \/ /\ Become(p, [run[p] EXCEPT !.phase = "receipt", !.part = FALSE])
          /\ UNCHANGED files
       \/ Replace(p) /\ UNCHANGED receipts
    /\ UNCHANGED world

Commit(p) ==
    /\ run[p].phase = "commit"
    /\ \/ Fail(p, 2) /\ UNCHANGED files
       \/ Replace(p) /\ UNCHANGED receipts
    /\ UNCHANGED world

\* Regression: the declared length is recorded as the actual one.
MakeDeclaredReceipt(r) ==
    [downloaded |-> r.command.download, sha256 |-> r.body,
     actual_byte_length |-> r.header, content_length_header |-> r.header]

MakeReceipt(r) ==
    [downloaded |-> r.command.download, sha256 |-> r.body,
     actual_byte_length |-> IF r.body = Absent THEN Absent ELSE Size[r.body],
     content_length_header |-> r.header]

\* atomic_write_bytes: a .part is written and flushed, then it is the receipt.
WriteReceipt(p) ==
    /\ run[p].phase = "receipt"
    /\ \/ Fail(p, 2)
       \/ Become(p, [run[p] EXCEPT !.phase = "record", !.part = TRUE])
    /\ UNCHANGED <<files, world>>

ReplaceReceipt(p) ==
    /\ run[p].phase = "record"
    /\ \/ Fail(p, 2) /\ UNCHANGED receipts
       \/ LET left == run[p].todo \ {run[p].source}
          IN  /\ receipts' = [receipts EXCEPT ![run[p].source] = MakeReceipt(run[p])]
              /\ Become(p, [run[p] EXCEPT
                    !.phase = IF left = {} THEN "exited" ELSE "open",
                    !.exit = IF left = {} THEN 0 ELSE Absent,
                    !.todo = left, !.part = FALSE])
    /\ UNCHANGED <<quarantine, raced, world>>

\* The process is killed: no finally clause runs.
Kill(p) ==
    /\ run[p].phase \notin {"idle", "exited"}
    /\ Become(p, [run[p] EXCEPT !.phase = "exited", !.exit = 9, !.part = FALSE])
    /\ orphans' = IF run[p].part THEN orphans + 1 ELSE orphans
    /\ UNCHANGED <<files, remote>>

Step(p) ==
    \/ Open(p) \/ Stream(p) \/ Verify(p) \/ Compare(p) \/ Commit(p)
    \/ WriteReceipt(p) \/ ReplaceReceipt(p)

Next ==
    \/ \E s \in Sources : Publish(s)
    \/ \E p \in Invocations : Start(p) \/ Step(p) \/ Kill(p)

\* Every request has a timeout and every other step is local, so a process
\* that runs keeps taking steps.  Nobody need start it.
Spec == Init /\ [][Next]_vars /\ \A p \in Invocations : WF_vars(Step(p))
-----------------------------------------------------------------------------
TypeOK ==
    /\ remote \in [Sources -> Published]
    /\ quarantine \in [Sources -> Bodies \cup {Absent}]
    /\ receipts \in [Sources -> Receipt \cup {Absent}]
    /\ run \in [Invocations -> Run]
    /\ orphans \in Nat /\ raced \subseteq Sources

Acquired(s) == receipts[s] # Absent /\ receipts[s].downloaded

(***************************************************************************)
(* ACQUISITION-PLAN-v0.1.md: "A successful downloaded receipt is written   *)
(* only after its quarantine artifact is committed."  However invocations  *)
(* overlap, fail and are killed, a receipt that says downloaded has an     *)
(* artifact beside it, and only such a receipt has a digest and a length.  *)
(***************************************************************************)
ReceiptBacked ==
    \A s \in Sources : receipts[s] # Absent =>
        /\ receipts[s].downloaded => quarantine[s] # Absent
        /\ receipts[s].downloaded <=> receipts[s].sha256 # Absent
        /\ receipts[s].downloaded <=> receipts[s].actual_byte_length # Absent

(***************************************************************************)
(* The only way for a receipt to record another digest than its artifact's *)
(* is that two invocations found no artifact and both committed one:       *)
(* reuse, refusal, failure and a kill never separate the two.              *)
(***************************************************************************)
MismatchMeansRace ==
    \A s \in Sources : Acquired(s) /\ s \notin raced => receipts[s].sha256 = quarantine[s]

(***************************************************************************)
(* No .part file outlives an invocation that was not killed: each exit,    *)
(* wherever it is raised, unlinks the one that is there (the finally       *)
(* clauses of stream_to_quarantine and atomic_write_bytes).                *)
(***************************************************************************)
NoPartLeaks ==
    \A p \in Invocations :
        run[p].part => run[p].phase \in {"stream", "verify", "compare", "commit", "record"}

(***************************************************************************)
(* The transfer is never compared with its Content-Length, so one that was *)
(* cut short can be committed; but a receipt whose two lengths agree is    *)
(* never one of those.                                                     *)
(***************************************************************************)
AgreeingLengthsMeanComplete ==
    \A s \in Sources :
        Acquired(s) /\ receipts[s].actual_byte_length = receipts[s].content_length_header =>
            receipts[s].sha256 \in Published

(***************************************************************************)
(* "existing quarantine artifact differs; overwrite prohibited": once a    *)
(* source has an artifact, no step changes it.                             *)
(***************************************************************************)
OverwriteProhibited ==
    [][\A s \in Sources : quarantine[s] # Absent => quarantine'[s] = quarantine[s]]_vars

(***************************************************************************)
(* What exit 0 tells the operator who ran the utility alone: every source  *)
(* that was asked for has a receipt of this kind of run, and after a       *)
(* download the artifact is what the receipt says and what was expected.   *)
(***************************************************************************)
ExitZeroIsComplete ==
    \A p \in Invocations : run[p].exit = 0 =>
        \A s \in run[p].command.selected :
            /\ receipts[s] # Absent
            /\ receipts[s].downloaded = run[p].command.download
            /\ run[p].command.download =>
                 /\ quarantine[s] = receipts[s].sha256
                 /\ run[p].command.expected[s] \in {Absent, quarantine[s]}

Store == INSTANCE AcquisitionStore

(***************************************************************************)
(* An invocation that runs alone keeps its directories as a store that is  *)
(* written once: nobody who reads them sees an artifact change, a receipt  *)
(* without its artifact or one that describes another, although each step  *)
(* can fail or be killed and the next invocation finds what that left.     *)
(***************************************************************************)
ImplementsStore == Store!Spec

(***************************************************************************)
(* There is no retry: an invocation ends, whatever the remote does.        *)
(***************************************************************************)
InvocationsEnd ==
    \A p \in Invocations : run[p].phase # "idle" ~> run[p].phase = "exited"

(***************************************************************************)
(* The inductive strengthening: what a process that is under way knows of  *)
(* the bytes it carries, and of the artifact they went into.               *)
(***************************************************************************)
CarriesBody(r) ==
    /\ r.phase \notin {"idle", "open", "exited"} => r.source \in r.todo
    /\ r.phase \in {"stream", "verify", "compare", "commit"} =>
          r.command.download /\ r.body \in Bodies
    /\ r.phase = "stream" => r.body \in Published /\ r.header \in {Absent, Size[r.body]}
    /\ r.phase \in {"verify", "compare", "commit", "receipt", "record"} =>
          (r.body \in Bodies /\ r.header = Size[r.body] => r.body \in Published)
    /\ r.phase \in {"receipt", "record"} => (r.command.download <=> r.body # Absent)

HasCommitted(r) ==
    r.phase \in {"receipt", "record"} /\ r.command.download =>
        /\ quarantine[r.source] # Absent
        /\ r.source \notin raced => quarantine[r.source] = r.body

IInv ==
    /\ TypeOK /\ ReceiptBacked /\ MismatchMeansRace /\ NoPartLeaks
    /\ AgreeingLengthsMeanComplete
    /\ \A p \in Invocations : CarriesBody(run[p]) /\ HasCommitted(run[p])

\* And of a process that runs alone: what it found absent is absent still.
FoundAbsent == \A p \in Invocations :
    run[p].phase = "commit" => quarantine[run[p].source] = Absent
=============================================================================
