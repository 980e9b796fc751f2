--------------------------- MODULE VerifyManifest ---------------------------
(***************************************************************************)
(* `oic verify-manifest` (cli.py): the bootstrap baseline, read from Git   *)
(* objects (baseline.py), and the manifests of the working tree, read      *)
(* entry by entry (manifests.py), aggregated to one exit code.  It writes  *)
(* nothing; the tree it reads may be edited meanwhile, a file at a time    *)
(* and each by replacement, a read may fail, and so may git.               *)
(*                                                                         *)
(* A body stands for its digest.  SHA256SUMS records no sizes.             *)
(***************************************************************************)
EXTENDS Naturals, Sequences

CONSTANTS
    Paths,       \* names safe_join accepts
    Refused,     \* ... and refuses
    Bodies, Size,
    Governing,   \* the body with the digest GOVERNING_TDD_SHA256
    TDD,         \* TDD_PDF_RELPATH
    NoDigest, BadDigest,  \* nothing recorded; not a well-formed SHA-256 digest
    Garbled,     \* a line or record that names no path
    Absent,      \* no such file, blob or size
    Obstacle,    \* what is there is not a regular file, or cannot be examined
    Unreadable,  \* a manifest that is there and cannot be read as its format
    Undecodable, \* a manifest that is there and is not UTF-8
    Worlds, Commands,
    MaxEdits     \* bound on the edits of files during a verification

File == Bodies \cup {Absent, Obstacle}
Digest == Bodies \cup {NoDigest, BadDigest}
Entry == [path : Paths \cup Refused, digest : Digest, bytes : Nat \cup {Absent}]
Text == Seq(Entry \cup {Garbled})

\* The current-tree manifests, and the file either name may stand for.
Manifest == {"sums", "sources"}
ManifestFile == Text \cup {Absent, Unreadable, Undecodable}

\* What the --ref names: whether it is BOOTSTRAP_COMMIT itself, its manifest
\* and the governing digest declared there, and its blobs.
Repository ==
    [resolves : BOOLEAN, pinned : BOOLEAN, files : Text \cup {Absent, Unreadable},
     governing : Digest, blobs : [Paths -> Bodies \cup {Absent}]]

World == [tree : [Paths -> File], manifests : [Manifest -> ManifestFile], repo : Repository]

\* known: the manifest that is named has a format of its own ("--kind" cannot
\* make one of BOOTSTRAP_MANIFEST.json).
Command ==
    [mode : {"all", "one", "none"}, manifest : Manifest, known : BOOLEAN,
     allow_incomplete : BOOLEAN]

ASSUME BodiesAssumption ==
    /\ Governing \in Bodies /\ TDD \in Paths /\ Size \in [Bodies -> Nat]
    /\ Paths \cap Refused = {}
    /\ {NoDigest, BadDigest, Absent, Obstacle} \cap Bodies = {} /\ Absent \notin Nat
    /\ NoDigest # BadDigest /\ Absent \notin {NoDigest, BadDigest, Obstacle}
ASSUME TextsAssumption ==
    /\ Garbled \notin Entry /\ {Absent, Unreadable, Undecodable} \cap Text = {}
    /\ Absent # Unreadable /\ Undecodable \notin {Absent, Unreadable}
ASSUME WorldsAssumption == Worlds \subseteq World /\ Commands \subseteq Command

\* A line of SHA256SUMS is stripped and split at its first space, so that one
\* which names a path has something for a digest.
HasDigest(e) == e = Garbled \/ e.digest # NoDigest
ASSUME SumsAssumption ==
    \A w \in Worlds : w.manifests["sums"] \notin {Absent, Unreadable, Undecodable} =>
        \A i \in DOMAIN w.manifests["sums"] : HasDigest(w.manifests["sums"][i])
ASSUME EditsAssumption == MaxEdits \in Nat

EntryStatus ==
    {"PASS", "MISSING_FILE", "HASH_MISMATCH", "UNSAFE_PATH", "UNREADABLE",
     "MISSING_HASH", "MALFORMED_HASH", "RECORDED_NOT_VERIFIED"}
BlobStatus == {"PASS", "MISSING_BLOB", "HASH_MISMATCH", "SIZE_MISMATCH", "MALFORMED_ENTRY"}
VerificationStatus == {"PASS", "INCOMPLETE", "FAIL"}
ASSUME StatusAssumption == Absent \notin VerificationStatus
Incomplete == {"MISSING_HASH", "RECORDED_NOT_VERIFIED"}
Failing == EntryStatus \ (Incomplete \cup {"PASS"})

Report == {"baseline", "sums", "sources"}
Result == [entry : Entry \cup {Garbled}, status : EntryStatus \cup BlobStatus]

VARIABLES
    tree, manifests,   \* the working tree
    repo, command,     \* never written
    stage,             \* what the verification does next, or "done"
    pending,           \* the reports to be made, in order
    lines,             \* what is left to do for the first of them
    results,           \* the entries of each report, with their statuses
    reports,           \* the status of each report made
    exit,
    \* History: what each path has held, what each report was made from, and
    \* whether anything was edited or failed.
    held, listed, edits, faulty

world == <<tree, manifests, held, edits>>
inputs == <<repo, command>>
vars == <<world, inputs, stage, pending, lines, results, reports, exit, listed, faulty>>

Init ==
    /\ \E w \in Worlds : tree = w.tree /\ manifests = w.manifests /\ repo = w.repo
    /\ command \in Commands
    /\ stage = "begin"
    /\ pending = CASE command.mode = "all" -> <<"baseline", "sums", "sources">>
                   [] command.mode = "one" -> <<command.manifest>>
                   [] command.mode = "none" -> <<"baseline">>
    /\ lines = <<>> /\ results = [r \in Report |-> {}]
    /\ reports = [r \in Report |-> Absent] /\ exit = Absent
    /\ held = {<<p, tree[p]>> : p \in Paths} /\ listed = [r \in Report |-> {}]
    /\ edits = 0 /\ faulty = FALSE
-----------------------------------------------------------------------------
(* The working tree is edited while it is being verified.                  *)

Edit ==
    /\ stage # "done" /\ edits < MaxEdits
    /\ edits' = edits + 1
    /\ \/ /\ \E p \in Paths, f \in File :
                tree' = [tree EXCEPT ![p] = f] /\ held' = held \cup {<<p, f>>}
          /\ UNCHANGED manifests
       \/ /\ \E m \in Manifest : manifests' = [manifests EXCEPT ![m] = Absent]
          /\ UNCHANGED <<tree, held>>
    /\ UNCHANGED <<inputs, stage, pending, lines, results, reports, exit, listed, faulty>>
-----------------------------------------------------------------------------
Goto(s) == stage' = s /\ UNCHANGED exit
Abort(code) == stage' = "done" /\ exit' = code

\* An error of the category OPERATOR.
UsageError == Abort(2)

Sound == UNCHANGED faulty
Fault == faulty' = TRUE

current == Head(pending)
entry == Head(lines)

\* The report is made from these lines.
Load(text, s) ==
    /\ lines' = text
    /\ listed' = [listed EXCEPT ![current] = {text[i] : i \in DOMAIN text}]
    /\ Goto(s)

\* The result of the entry that is due.
Settle(status, s) ==
    /\ results' = [results EXCEPT ![current] = @ \cup {[entry |-> entry, status |-> status]}]
    /\ lines' = Tail(lines)
    /\ Goto(s)

Conclude(status) ==
    /\ reports' = [reports EXCEPT ![current] = status]
    /\ pending' = Tail(pending)
    /\ Goto("begin")
-----------------------------------------------------------------------------
(* verify_bootstrap_baseline                                               *)

\* _resolve_commit.  git may be missing, time out or fail to start.
ResolveCommit ==
    /\ stage = "begin" /\ pending # <<>> /\ current = "baseline"
    /\ \/ ~repo.resolves /\ UsageError /\ Sound
       \/ UsageError /\ Fault
       \/ repo.resolves /\ Goto("record") /\ Sound
    /\ UNCHANGED <<world, inputs, pending, lines, results, reports, listed>>

\* The declared digest of the TDD is verified like one more record, and an
\* absent one is malformed like a record without digest.
Governor == [path |-> TDD, digest |-> repo.governing, bytes |-> Absent]

ReadRecord ==
    /\ stage = "record"
    /\ \/ repo.files \in {Absent, Unreadable} /\ UsageError /\ Sound /\ UNCHANGED <<lines, listed>>
       \/ UsageError /\ Fault /\ UNCHANGED <<lines, listed>>
       \/ /\ repo.files \notin {Absent, Unreadable}
          /\ Load(Append(repo.files, Governor), "blob") /\ Sound
    /\ UNCHANGED <<world, inputs, pending, results, reports>>

\* git knows a blob by any name; one that safe_join would refuse is in no tree.
BlobAt(path) == IF path \in Paths THEN repo.blobs[path] ELSE Absent

MalformedRecord(e) == e = Garbled \/ e.digest \in {NoDigest, BadDigest}

\* Regression: a blob of the right length passes.
BlobStatusBySize(e) ==
    CASE MalformedRecord(e) -> "MALFORMED_ENTRY"
      [] ~MalformedRecord(e) /\ BlobAt(e.path) = Absent -> "MISSING_BLOB"
      [] OTHER -> IF e.bytes = Size[BlobAt(e.path)] \/ BlobAt(e.path) = e.digest
                  THEN "PASS" ELSE "HASH_MISMATCH"

\* _verify_entry_bytes, when git answers
BlobStatusOf(e) ==
    CASE MalformedRecord(e) -> "MALFORMED_ENTRY"
      [] ~MalformedRecord(e) /\ BlobAt(e.path) = Absent -> "MISSING_BLOB"
      [] OTHER -> CASE e.bytes \notin {Absent, Size[BlobAt(e.path)]} -> "SIZE_MISMATCH"
                    [] e.bytes \in {Absent, Size[BlobAt(e.path)]} ->
                         IF BlobAt(e.path) = e.digest THEN "PASS" ELSE "HASH_MISMATCH"

\* git cat-file may not run, and any status but 0 counts as an absent blob.
VerifyEntry ==
    /\ stage = "blob" /\ lines # <<>>
    /\ \/ Settle(BlobStatusOf(entry), "blob") /\ Sound
       \/ ~MalformedRecord(entry) /\ Settle("MISSING_BLOB", "blob") /\ Fault
       \/ ~MalformedRecord(entry) /\ UsageError /\ Fault /\ UNCHANGED <<lines, results>>
    /\ UNCHANGED <<world, inputs, pending, reports, listed>>

\* BOOTSTRAP_COMMIT itself must declare the governing digest.
Ungoverned == repo.pinned /\ repo.governing \in Bodies \ {Governing}

ConcludeBaseline ==
    /\ stage = "blob" /\ lines = <<>>
    /\ Conclude(IF Ungoverned \/ \E q \in results["baseline"] : q.status # "PASS"
                THEN "FAIL" ELSE "PASS")
    /\ UNCHANGED <<world, inputs, lines, results, listed, faulty>>
-----------------------------------------------------------------------------
(* verify_all and verify_manifest                                          *)

\* verify_all reports a known manifest that is absent, and goes on.
FindManifest ==
    /\ stage = "begin" /\ pending # <<>> /\ current \in Manifest
    /\ \/ /\ command.mode = "all" /\ manifests[current] = Absent
          /\ Conclude("FAIL")
       \/ /\ command.mode = "one" \/ manifests[current] # Absent
          /\ Goto("open") /\ UNCHANGED <<reports, pending>>
    /\ UNCHANGED <<world, inputs, lines, results, listed, faulty>>

\* Path.exists raises what is not "not found", and nothing catches it.
StatFails ==
    /\ stage \in {"begin", "open"} /\ pending # <<>> /\ current \in Manifest
    /\ Abort(1) /\ Fault
    /\ UNCHANGED <<world, inputs, pending, lines, results, reports, listed>>

\* A manifest that is absent, of no known format, without header or unreadable
\* is a usage error.  One that is not UTF-8 is not caught: a traceback, and 1.
OpenManifest ==
    /\ stage = "open"
    /\ \/ /\ \/ command.mode = "one" /\ ~command.known
             \/ manifests[current] \in {Absent, Unreadable}
          /\ UsageError /\ Sound /\ UNCHANGED <<lines, listed>>
       \/ UsageError /\ Fault /\ UNCHANGED <<lines, listed>>
       \/ /\ command.mode = "one" => command.known
          /\ \/ /\ manifests[current] = Undecodable
                /\ Abort(1) /\ UNCHANGED <<lines, listed>>
             \/ /\ manifests[current] \notin {Absent, Unreadable, Undecodable}
                /\ Load(manifests[current], "entry")
          /\ Sound
    /\ UNCHANGED <<world, inputs, pending, results, reports>>

RowStatus(e) ==
    CASE e.digest = NoDigest -> "MISSING_HASH" [] e.digest = BadDigest -> "MALFORMED_HASH"
      [] OTHER -> "RECORDED_NOT_VERIFIED"

\* A row of SOURCE_MANIFEST.csv: its document is not in the tree.
CheckRow ==
    /\ stage = "entry" /\ lines # <<>> /\ current = "sources"
    /\ Settle(RowStatus(entry), "entry")
    /\ UNCHANGED <<world, inputs, pending, reports, listed, faulty>>

\* safe_join refuses the name.
Unsafe(e) == e # Garbled /\ e.path \in Refused

\* _check_file, up to the stat.
CheckEntry ==
    /\ stage = "entry" /\ lines # <<>> /\ current = "sums"
    /\ \/ /\ entry = Garbled
          /\ Settle("UNREADABLE", "entry") /\ Sound
       \/ /\ Unsafe(entry)
          /\ Settle("UNSAFE_PATH", "entry") /\ Sound
       \/ /\ entry # Garbled /\ ~Unsafe(entry) /\ entry.digest \notin Bodies
          /\ Settle(IF entry.digest = NoDigest THEN "MISSING_HASH" ELSE "MALFORMED_HASH", "entry")
          /\ Sound
       \/ /\ entry # Garbled /\ ~Unsafe(entry) /\ entry.digest \in Bodies
          /\ \/ tree[entry.path] = Absent /\ Settle("MISSING_FILE", "entry") /\ Sound
             \/ tree[entry.path] = Obstacle /\ Settle("UNREADABLE", "entry") /\ Sound
             \/ Settle("UNREADABLE", "entry") /\ Fault
             \/ /\ tree[entry.path] \in Bodies
                /\ Goto("exists") /\ Sound /\ UNCHANGED <<lines, results>>
    /\ UNCHANGED <<world, inputs, pending, reports, listed>>

\* Regression: a file found missing is reported, and hashed all the same.
FindOrRead ==
    /\ stage = "exists"
    /\ \/ tree[entry.path] = Absent /\ Settle("MISSING_FILE", "read")
       \/ tree[entry.path] # Absent /\ Goto("read") /\ UNCHANGED <<lines, results>>
    /\ UNCHANGED <<world, inputs, pending, reports, listed, faulty>>

\* hash_file: path.exists()
FindFile ==
    /\ stage = "exists"
    /\ \/ tree[entry.path] = Absent /\ Settle("MISSING_FILE", "entry")
       \/ tree[entry.path] = Obstacle /\ Settle("UNREADABLE", "entry")
       \/ tree[entry.path] \in Bodies /\ Goto("read") /\ UNCHANGED <<lines, results>>
    /\ UNCHANGED <<world, inputs, pending, reports, listed, faulty>>

\* Regression: a file that cannot be read is passed over as if it were missing.
HashReadable ==
    /\ stage = "read"
    /\ \/ tree[entry.path] \notin Bodies /\ Settle("MISSING_FILE", "entry") /\ Sound
       \/ Settle("MISSING_FILE", "entry") /\ Fault
       \/ /\ tree[entry.path] \in Bodies
          /\ Settle(IF tree[entry.path] = entry.digest THEN "PASS" ELSE "HASH_MISMATCH", "entry")
          /\ Sound
    /\ UNCHANGED <<world, inputs, pending, reports, listed>>

\* hash_file: path.is_file(), and the bytes
HashFile ==
    /\ stage = "read"
    /\ \/ tree[entry.path] \notin Bodies /\ Settle("UNREADABLE", "entry") /\ Sound
       \/ Settle("UNREADABLE", "entry") /\ Fault
       \/ /\ tree[entry.path] \in Bodies
          /\ Settle(IF tree[entry.path] = entry.digest THEN "PASS" ELSE "HASH_MISMATCH", "entry")
          /\ Sound
    /\ UNCHANGED <<world, inputs, pending, reports, listed>>

\* Regression: a manifest without entries passes.
AggregateEntries(statuses) ==
    CASE statuses \cap Failing # {} -> "FAIL"
      [] statuses \cap Failing = {} /\ statuses \cap Incomplete # {} -> "INCOMPLETE"
      [] OTHER -> "PASS"

\* _aggregate; the absence of entries is a forced note
Aggregate(statuses) ==
    CASE statuses \cap Failing # {} -> "FAIL"
      [] statuses \cap Failing = {} /\ (statuses \cap Incomplete # {} \/ statuses = {}) ->
           "INCOMPLETE"
      [] OTHER -> "PASS"

\* Regression: verify_all does not go on to the next manifest.
ConcludeAgain ==
    /\ stage = "entry" /\ lines = <<>>
    /\ reports' = [reports EXCEPT ![current] = Aggregate({q.status : q \in results[current]})]
    /\ Goto("begin")
    /\ UNCHANGED <<world, inputs, pending, lines, results, listed, faulty>>

ConcludeManifest ==
    /\ stage = "entry" /\ lines = <<>>
    /\ Conclude(Aggregate({q.status : q \in results[current]}))
    /\ UNCHANGED <<world, inputs, lines, results, listed, faulty>>
-----------------------------------------------------------------------------
\* worst_status and _manifest_exit_code
ExitCode ==
    LET statuses == {reports[r] : r \in Report}
    IN  CASE "FAIL" \in statuses -> 1
          [] "FAIL" \notin statuses /\ "INCOMPLETE" \in statuses ->
               IF command.allow_incomplete THEN 0 ELSE 3
          [] OTHER -> 0

Finish ==
    /\ stage = "begin" /\ pending = <<>>
    /\ Abort(ExitCode)
    /\ UNCHANGED <<world, inputs, pending, lines, results, reports, listed, faulty>>

Verify ==
    \/ ResolveCommit \/ ReadRecord \/ VerifyEntry \/ ConcludeBaseline
    \/ FindManifest \/ StatFails \/ OpenManifest \/ CheckRow \/ CheckEntry \/ FindFile
    \/ HashFile \/ ConcludeManifest \/ Finish

Next == Edit \/ Verify

\* git has a timeout, and every other step is a local read: each returns,
\* with an answer or with a failure.
Spec == Init /\ [][Next]_vars /\ WF_vars(Verify)
-----------------------------------------------------------------------------
(* Every variable has its type.  The names of TypeOK's ranges are the      *)
(* statuses of manifests.py and baseline.py and the exit codes of cli.py.  *)
TypeOK ==
    /\ tree \in [Paths -> File] /\ repo \in Repository /\ command \in Command
    /\ manifests \in [Manifest -> ManifestFile]
    /\ stage \in {"begin", "record", "blob", "open", "entry", "exists", "read", "done"}
    /\ pending \in Seq(Report) /\ lines \in Text
    /\ results \in [Report -> SUBSET Result]
    /\ reports \in [Report -> VerificationStatus \cup {Absent}]
    /\ exit \in {Absent, 0, 1, 2, 3} /\ (stage = "done" <=> exit # Absent)
    /\ held \subseteq Paths \X File /\ listed \in [Report -> SUBSET (Entry \cup {Garbled})]
    /\ edits \in 0..MaxEdits /\ faulty \in BOOLEAN
    /\ stage \notin {"begin", "done"} => pending # <<>>
    /\ stage \in {"exists", "read"} => lines # <<>>

\* What a status says of an entry of SHA256SUMS is something the path held
\* while the verification ran, or a read of it failed.  UNREADABLE is also
\* said of a file deleted between exists() and the read.
SumWitnessed(q) ==
    LET was(files) == \E f \in files : <<q.entry.path, f>> \in held
    IN  CASE q.status = "PASS" -> was({q.entry.digest})
          [] q.status = "HASH_MISMATCH" -> was(Bodies \ {q.entry.digest})
          [] q.status = "MISSING_FILE" -> was({Absent})
          [] q.status = "UNREADABLE" -> q.entry = Garbled \/ faulty \/ was({Absent, Obstacle})
          [] OTHER -> Unsafe(q.entry) \/ q.entry.digest \notin Bodies

\* ... and of a record of the baseline, something of its blob, or git failed.
BlobWitnessed(q) ==
    LET blob == BlobAt(q.entry.path)
    IN  CASE q.status = "PASS" -> blob = q.entry.digest
          [] q.status = "HASH_MISMATCH" -> blob \in Bodies \ {q.entry.digest}
          [] q.status = "SIZE_MISMATCH" -> blob \in Bodies /\ Size[blob] # q.entry.bytes
          [] q.status = "MISSING_BLOB" -> faulty \/ blob = Absent
          [] OTHER -> MalformedRecord(q.entry)

\* However the tree is edited between the stat, the two checks of hash_file
\* and the read, no status is invented: each reports a moment of the run.
\* (_check_file, _verify_entry_bytes)
StatusesWitnessed ==
    /\ \A q \in results["sums"] : SumWitnessed(q)
    /\ \A q \in results["baseline"] : BlobWitnessed(q)

Selected ==
    CASE command.mode = "all" -> Report
      [] command.mode = "one" -> {command.manifest}
      [] command.mode = "none" -> {"baseline"}

\* An exit of 0 or 3 means that every selected report was made, from every
\* entry it lists, and that each entry of SHA256SUMS and each blob matched its
\* digest; and 0 never covers for evidence that is only recorded, unless
\* --allow-incomplete asked for it.  (worst_status, _manifest_exit_code)
UnfailedMatched ==
    exit \in {0, 3} =>
        /\ \A r \in Report : reports[r] # Absent <=> r \in Selected
        /\ \A r \in Report : {q.entry : q \in results[r]} = listed[r]
        /\ \A e \in listed["sums"] : e # Garbled /\ <<e.path, e.digest>> \in held
        /\ \A e \in listed["baseline"] : e # Garbled /\ BlobAt(e.path) = e.digest
        /\ \/ exit = 0 /\ command.allow_incomplete
           \/ exit = 0 <=> /\ "sources" \notin Selected
                           /\ "sums" \in Selected => listed["sums"] # {}

\* What the command should say of a world that holds still.
Stop(r) ==
    IF r = "baseline" THEN IF ~repo.resolves \/ repo.files \in {Absent, Unreadable} THEN 2 ELSE 0
    ELSE CASE command.mode = "one" /\ (~command.known \/ manifests[r] = Absent) -> 2
           [] manifests[r] = Unreadable -> 2
           [] manifests[r] = Undecodable /\ (command.mode = "one" => command.known) -> 1
           [] OTHER -> 0
Stops == {r \in Selected : Stop(r) # 0}
FirstStop ==
    CHOOSE r \in Stops : \/ r = "baseline"
                         \/ r = "sums" /\ "baseline" \notin Stops
                         \/ Stops = {"sources"}

Matches(r) ==
    CASE r = "baseline" ->
           /\ repo.pinned => repo.governing = Governing
           /\ repo.governing = BlobAt(TDD)
           /\ \A i \in DOMAIN repo.files :
                LET e == repo.files[i]
                IN  /\ e # Garbled /\ e.path \in Paths /\ e.digest \in Bodies
                    /\ repo.blobs[e.path] = e.digest /\ e.bytes \in {Absent, Size[e.digest]}
      [] r = "sums" ->
           /\ manifests[r] # Absent
           /\ \A i \in DOMAIN manifests[r] :
                LET e == manifests[r][i]
                IN  e # Garbled /\ e.path \in Paths /\ e.digest \in Bodies /\ tree[e.path] = e.digest
      [] r = "sources" ->
           /\ manifests[r] # Absent
           /\ \A i \in DOMAIN manifests[r] : manifests[r][i].digest # BadDigest
Gaps == "sources" \in Selected \/ ("sums" \in Selected /\ manifests["sums"] = <<>>)

Deserved ==
    IF Stops # {} THEN Stop(FirstStop)
    ELSE IF \E r \in Selected : ~Matches(r) THEN 1
    ELSE IF Gaps /\ ~command.allow_incomplete THEN 3 ELSE 0

\* A verification nobody edits under and nothing fails in says exactly that:
\* the first report that cannot be made decides, then any mismatch, then any
\* gap in the evidence.  (_command_verify_manifest, verify_all)
QuietVerdict == (stage = "done" /\ edits = 0 /\ ~faulty) => exit = Deserved

\* Every verification ends: each step takes an entry, a stage or a report.
VerificationEnds == <>(stage = "done")
=============================================================================
