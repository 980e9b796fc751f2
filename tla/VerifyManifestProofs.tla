------------------------ MODULE VerifyManifestProofs ------------------------
(***************************************************************************)
(* What holds of every verification, for any paths, bodies, worlds and     *)
(* commands, any number of edits and any failures: its state stays well    *)
(* formed, no status it reports is invented, and nothing that was not      *)
(* verified passes.                                                        *)
(***************************************************************************)
EXTENDS VerifyManifest, TLAPS

Status == EntryStatus \cup BlobStatus

\* What is being verified agrees with the stage, and held with the tree.
InOrder ==
    /\ stage \in {"record", "blob"} => current = "baseline"
    /\ stage \in {"open", "entry"} => current \in Manifest
    /\ stage \in {"exists", "read"} =>
          /\ current = "sums" /\ entry # Garbled
          /\ entry.path \in Paths /\ entry.digest \in Bodies
    /\ \A p \in Paths : <<p, tree[p]>> \in held

IInv == TypeOK /\ InOrder /\ StatusesWitnessed

LEMMA HeadAndTail ==
    ASSUME NEW S, NEW s \in Seq(S), s # <<>>
    PROVE  Head(s) \in S /\ Tail(s) \in Seq(S)
  OBVIOUS

\* The members of a text are entries.
LEMMA MembersOfText ==
    ASSUME NEW text \in Text
    PROVE  {text[i] : i \in DOMAIN text} \subseteq Entry \cup {Garbled}
  BY DEF Text

\* A witness of an entry of SHA256SUMS stays one.
LEMMA SumStaysWitnessed ==
    ASSUME NEW q \in Result, SumWitnessed(q), held \subseteq held', faulty => faulty'
    PROVE  SumWitnessed(q)'
  BY DEF SumWitnessed

LEMMA BlobStaysWitnessed ==
    ASSUME NEW q \in Result, BlobWitnessed(q), UNCHANGED repo, faulty => faulty'
    PROVE  BlobWitnessed(q)'
  BY DEF BlobWitnessed, BlobAt

LEMMA StatusesStayWitnessed ==
    ASSUME IInv, UNCHANGED <<repo, results>>, held \subseteq held', faulty => faulty'
    PROVE  StatusesWitnessed'
  <1>1. \A r \in Report : results[r] \subseteq Result
    BY DEF IInv, TypeOK
  <1>2. results["sums"] \subseteq Result /\ results["baseline"] \subseteq Result
    BY <1>1 DEF Report
  <1> QED BY <1>2, SumStaysWitnessed, BlobStaysWitnessed DEF IInv, StatusesWitnessed

LEMMA FaultsAreKept ==
    ASSUME TypeOK, Sound \/ Fault
    PROVE  faulty' \in BOOLEAN /\ (faulty => faulty')
  <1>1. faulty \in BOOLEAN
    BY DEF TypeOK
  <1>2. CASE Sound
    BY <1>1, <1>2, Zenon DEF Sound
  <1>3. CASE Fault
    BY <1>3, Zenon DEF Fault
  <1> QED BY <1>2, <1>3

LEMMA Initially == Init => IInv
  <1> SUFFICES ASSUME Init PROVE IInv
    OBVIOUS
  <1>1. PICK w \in Worlds : tree = w.tree /\ manifests = w.manifests /\ repo = w.repo
    BY DEF Init
  <1>2. w \in World /\ command \in Command
    BY WorldsAssumption DEF Init
  <1>3. pending \in Seq(Report)
    <2>1. command.mode \in {"all", "one", "none"} /\ command.manifest \in Report
      BY <1>2 DEF Command, Manifest, Report
    <2>2. CASE command.mode = "all"
      <3>1. pending = <<"baseline", "sums", "sources">>
        BY <2>2 DEF Init
      <3> QED BY <3>1 DEF Report
    <2>3. CASE command.mode = "one"
      <3>1. pending = <<command.manifest>>
        BY <2>3 DEF Init
      <3> QED BY <2>1, <3>1
    <2>4. CASE command.mode = "none"
      <3>1. pending = <<"baseline">>
        BY <2>4 DEF Init
      <3> QED BY <3>1 DEF Report
    <2> QED BY <2>1, <2>2, <2>3, <2>4
  <1>4. /\ tree \in [Paths -> File] /\ repo \in Repository
        /\ manifests \in [Manifest -> ManifestFile]
    BY <1>1, <1>2 DEF World
  <1>5. TypeOK
    <2>1. lines \in Text /\ edits \in 0..MaxEdits
      BY EditsAssumption DEF Init, Text
    <2>2. held \subseteq Paths \X File
      BY <1>4 DEF Init
    <2>3. /\ results \in [Report -> SUBSET Result]
          /\ reports \in [Report -> VerificationStatus \cup {Absent}]
          /\ listed \in [Report -> SUBSET (Entry \cup {Garbled})]
      BY DEF Init
    <2> QED BY <1>2, <1>3, <1>4, <2>1, <2>2, <2>3 DEF Init, TypeOK
  <1>6. InOrder /\ StatusesWitnessed
    BY DEF Init, InOrder, StatusesWitnessed, Report
  <1> QED BY <1>5, <1>6 DEF IInv

LEMMA EditPreserves == IInv /\ Edit => IInv'
  <1> SUFFICES ASSUME IInv, Edit PROVE IInv'
    OBVIOUS
  <1>1. edits' \in 0..MaxEdits
    BY EditsAssumption DEF IInv, TypeOK, Edit
  <1>2. /\ tree' \in [Paths -> File] /\ held' \subseteq Paths \X File /\ held \subseteq held'
        /\ \A p \in Paths : <<p, tree'[p]>> \in held'
    BY DEF IInv, TypeOK, InOrder, Edit
  <1>3. manifests' \in [Manifest -> ManifestFile]
    BY DEF IInv, TypeOK, Edit, ManifestFile
  <1>4. TypeOK'
    BY <1>1, <1>2, <1>3 DEF IInv, TypeOK, Edit, inputs
  <1>5. InOrder'
    BY <1>2 DEF IInv, InOrder, Edit, inputs, current, entry
  <1>6. StatusesWitnessed'
    BY <1>2, StatusesStayWitnessed DEF Edit, inputs
  <1> QED BY <1>4, <1>5, <1>6 DEF IInv
-----------------------------------------------------------------------------
(* The steps that report nothing of an entry.                              *)

LEMMA AbortPreserves ==
    ASSUME IInv, NEW code \in {0, 1, 2, 3}, Abort(code), faulty' \in BOOLEAN, faulty => faulty',
           UNCHANGED <<world, inputs, pending, lines, results, reports, listed>>
    PROVE  IInv'
  <1>1. TypeOK'
    BY BodiesAssumption DEF IInv, TypeOK, Abort, world, inputs
  <1>2. InOrder'
    BY DEF IInv, InOrder, Abort, world
  <1>3. StatusesWitnessed'
    BY StatusesStayWitnessed DEF world, inputs
  <1> QED BY <1>1, <1>2, <1>3 DEF IInv

LEMMA GotoPreserves ==
    ASSUME IInv, stage # "done", pending # <<>>, NEW s \in {"record", "blob", "open", "entry", "exists", "read"},
           Goto(s), UNCHANGED <<world, inputs, pending, results, reports, faulty>>,
           lines' \in Text, listed' \in [Report -> SUBSET (Entry \cup {Garbled})],
           s \in {"record", "blob"} => current = "baseline",
           s \in {"open", "entry"} => current \in Manifest,
           s \in {"exists", "read"} =>
               /\ UNCHANGED lines /\ lines # <<>>
               /\ current = "sums" /\ entry # Garbled
               /\ entry.path \in Paths /\ entry.digest \in Bodies
    PROVE  IInv'
  <1>1. TypeOK'
    BY DEF IInv, TypeOK, Goto, world, inputs
  <1>2. InOrder'
    BY DEF IInv, InOrder, Goto, world, current, entry
  <1>3. StatusesWitnessed'
    BY StatusesStayWitnessed DEF world, inputs
  <1> QED BY <1>1, <1>2, <1>3 DEF IInv

LEMMA ConcludePreserves ==
    ASSUME IInv, stage # "done", pending # <<>>, NEW status \in VerificationStatus, Conclude(status),
           UNCHANGED <<world, inputs, lines, results, listed, faulty>>
    PROVE  IInv'
  <1>1. current \in Report /\ pending' \in Seq(Report)
    BY HeadAndTail DEF IInv, TypeOK, Conclude, current
  <1>2. TypeOK'
    BY <1>1 DEF IInv, TypeOK, Conclude, Goto, world, inputs
  <1>3. InOrder'
    BY DEF IInv, InOrder, Conclude, Goto, world
  <1>4. StatusesWitnessed'
    BY StatusesStayWitnessed DEF world, inputs
  <1> QED BY <1>2, <1>3, <1>4 DEF IInv
-----------------------------------------------------------------------------
(* The steps that settle an entry.                                         *)

LEMMA SettlePreserves ==
    ASSUME IInv, stage \notin {"begin", "done"}, lines # <<>>, NEW status \in Status,
           NEW s \in {"blob", "entry"}, Settle(status, s), s = "blob" => current = "baseline",
           s = "entry" => current \in Manifest,
           faulty' \in BOOLEAN, faulty => faulty',
           UNCHANGED <<world, inputs, pending, reports, listed>>,
           NEW q, q = [entry |-> entry, status |-> status],
           current = "sums" => SumWitnessed(q)', current = "baseline" => BlobWitnessed(q)'
    PROVE  IInv'
  <1>1. pending # <<>> /\ current \in Report
    BY HeadAndTail DEF IInv, TypeOK, current
  <1>2. entry \in Entry \cup {Garbled} /\ lines' \in Text
    BY HeadAndTail DEF IInv, TypeOK, Text, Settle, entry
  <1>3. q \in Result
    BY <1>2 DEF Result, Status
  <1>4. results' = [results EXCEPT ![current] = @ \cup {q}]
    BY DEF Settle
  <1>5. results' \in [Report -> SUBSET Result]
    BY <1>1, <1>3, <1>4 DEF IInv, TypeOK
  <1>6. TypeOK'
    BY <1>1, <1>2, <1>5 DEF IInv, TypeOK, Settle, Goto, world, inputs
  <1>7. InOrder'
    BY DEF IInv, InOrder, Settle, Goto, world, current
  <1>8. StatusesWitnessed'
    <2>1. \A r \in Report : results[r] \subseteq Result
      BY DEF IInv, TypeOK
    <2>2. /\ results'["sums"] = IF current = "sums" THEN results["sums"] \cup {q} ELSE results["sums"]
          /\ results'["baseline"] =
               IF current = "baseline" THEN results["baseline"] \cup {q} ELSE results["baseline"]
      BY <1>4, <1>1 DEF IInv, TypeOK, Report
    <2>3. \A p \in results["sums"] : SumWitnessed(p)'
      BY <2>1, SumStaysWitnessed DEF IInv, StatusesWitnessed, Report, world
    <2>4. \A p \in results["baseline"] : BlobWitnessed(p)'
      BY <2>1, BlobStaysWitnessed DEF IInv, StatusesWitnessed, Report, inputs
    <2>5. ASSUME NEW p \in results'["sums"] PROVE SumWitnessed(p)'
      BY <2>2, <2>3
    <2>6. ASSUME NEW p \in results'["baseline"] PROVE BlobWitnessed(p)'
      BY <2>2, <2>4
    <2> QED BY <2>5, <2>6 DEF StatusesWitnessed
  <1> QED BY <1>6, <1>7, <1>8 DEF IInv

LEMMA LoadPreserves ==
    ASSUME IInv, stage # "done", pending # <<>>, NEW text \in Text, NEW s \in {"blob", "entry"},
           Load(text, s), s = "blob" => current = "baseline",
           s = "entry" => current \in Manifest,
           UNCHANGED <<world, inputs, pending, results, reports, faulty>>
    PROVE  IInv'
  <1>1. {text[i] : i \in DOMAIN text} \in SUBSET (Entry \cup {Garbled})
    BY MembersOfText
  <1>2. lines' \in Text /\ listed' \in [Report -> SUBSET (Entry \cup {Garbled})]
    BY <1>1 DEF IInv, TypeOK, Load
  <1> QED BY <1>2, GotoPreserves DEF Load
-----------------------------------------------------------------------------
(* verify_bootstrap_baseline                                               *)

LEMMA ResolveCommitPreserves == IInv /\ ResolveCommit => IInv'
  <1> SUFFICES ASSUME IInv, ResolveCommit PROVE IInv'
    OBVIOUS
  <1>1. CASE UsageError
    <2>1. faulty' \in BOOLEAN /\ (faulty => faulty')
      BY FaultsAreKept DEF IInv, ResolveCommit
    <2> QED BY <1>1, <2>1, AbortPreserves DEF ResolveCommit, UsageError
  <1>2. CASE Goto("record") /\ Sound
    <2>1. lines' \in Text /\ listed' \in [Report -> SUBSET (Entry \cup {Garbled})]
      BY DEF IInv, TypeOK, ResolveCommit
    <2> QED BY <1>2, <2>1, GotoPreserves DEF ResolveCommit, Sound
  <1> QED BY <1>1, <1>2 DEF ResolveCommit

LEMMA ReadRecordPreserves == IInv /\ ReadRecord => IInv'
  <1> SUFFICES ASSUME IInv, ReadRecord PROVE IInv'
    OBVIOUS
  <1>1. stage = "record" /\ pending # <<>> /\ current = "baseline"
    BY DEF IInv, TypeOK, InOrder, ReadRecord
  <1>2. CASE UsageError /\ UNCHANGED <<lines, listed>>
    <2>1. faulty' \in BOOLEAN /\ (faulty => faulty')
      BY FaultsAreKept DEF IInv, ReadRecord
    <2> QED BY <1>2, <2>1, AbortPreserves DEF ReadRecord, UsageError
  <1>3. CASE /\ repo.files \notin {Absent, Unreadable}
             /\ Load(Append(repo.files, Governor), "blob") /\ Sound
    <2>1. repo \in Repository
      BY DEF IInv, TypeOK
    <2>2. repo.files \in Text /\ Governor \in Entry
      BY <1>3, <2>1, BodiesAssumption DEF Repository, Governor, Entry
    <2>3. Append(repo.files, Governor) \in Text
      BY <2>2 DEF Text
    <2> QED BY <1>1, <1>3, <2>3, LoadPreserves DEF ReadRecord, Sound
  <1> QED BY <1>2, <1>3 DEF ReadRecord

\* The status of a record is one, and says something of its blob.
LEMMA BlobStatusWitnessed ==
    ASSUME TypeOK, NEW e \in Entry \cup {Garbled}
    PROVE  /\ BlobStatusOf(e) \in Status
           /\ BlobWitnessed([entry |-> e, status |-> BlobStatusOf(e)])
  <1>1. BlobAt(e.path) \in Bodies \cup {Absent}
    BY DEF TypeOK, Repository, BlobAt
  <1>2. CASE MalformedRecord(e)
    <2>1. BlobStatusOf(e) = "MALFORMED_ENTRY"
      BY <1>2 DEF BlobStatusOf
    <2> QED BY <1>2, <2>1 DEF Status, BlobStatus, BlobWitnessed
  <1>3. CASE ~MalformedRecord(e) /\ BlobAt(e.path) = Absent
    <2>1. BlobStatusOf(e) = "MISSING_BLOB"
      BY <1>3 DEF BlobStatusOf
    <2> QED BY <1>3, <2>1 DEF Status, BlobStatus, BlobWitnessed
  <1>4. CASE ~MalformedRecord(e) /\ BlobAt(e.path) # Absent
    <2>1. CASE e.bytes \notin {Absent, Size[BlobAt(e.path)]}
      <3>1. BlobStatusOf(e) = "SIZE_MISMATCH"
        BY <1>4, <2>1 DEF BlobStatusOf
      <3> QED BY <1>1, <1>4, <2>1, <3>1 DEF Status, BlobStatus, BlobWitnessed
    <2>2. CASE e.bytes \in {Absent, Size[BlobAt(e.path)]}
      <3>1. BlobStatusOf(e) = IF BlobAt(e.path) = e.digest THEN "PASS" ELSE "HASH_MISMATCH"
        BY <1>4, <2>2 DEF BlobStatusOf
      <3> QED BY <1>1, <1>4, <3>1 DEF Status, BlobStatus, BlobWitnessed
    <2> QED BY <2>1, <2>2
  <1> QED BY <1>2, <1>3, <1>4

LEMMA VerifyEntryPreserves == IInv /\ VerifyEntry => IInv'
  <1> SUFFICES ASSUME IInv, VerifyEntry PROVE IInv'
    OBVIOUS
  <1>1. /\ stage = "blob" /\ current = "baseline" /\ lines # <<>>
        /\ entry \in Entry \cup {Garbled}
    BY HeadAndTail DEF IInv, TypeOK, InOrder, Text, VerifyEntry, entry
  <1>2. faulty' \in BOOLEAN /\ (faulty => faulty')
    <2>1. Sound \/ Fault
      BY DEF VerifyEntry
    <2> QED BY <2>1, FaultsAreKept DEF IInv
  <1>3. UNCHANGED <<world, inputs, pending, reports, listed>>
    BY DEF VerifyEntry
  <1>4. CASE Settle(BlobStatusOf(entry), "blob") /\ Sound
    <2>1. PICK q : q = [entry |-> entry, status |-> BlobStatusOf(entry)]
      OBVIOUS
    <2>2. BlobStatusOf(entry) \in Status /\ BlobWitnessed(q)
      BY <1>1, <2>1, BlobStatusWitnessed DEF IInv
    <2>3. q \in Result
      BY <1>1, <2>1, <2>2 DEF Result, Status
    <2>4. BlobWitnessed(q)'
      BY <1>2, <1>3, <2>2, <2>3, BlobStaysWitnessed DEF inputs
    <2> QED BY <1>1, <1>2, <1>3, <1>4, <2>1, <2>2, <2>4, SettlePreserves
  <1>5. CASE Settle("MISSING_BLOB", "blob") /\ Fault
    <2>1. PICK q : q = [entry |-> entry, status |-> "MISSING_BLOB"]
      OBVIOUS
    <2>2. BlobWitnessed(q)' /\ "MISSING_BLOB" \in Status
      BY <1>5, <2>1 DEF BlobWitnessed, Fault, Status, BlobStatus
    <2> QED BY <1>1, <1>2, <1>3, <1>5, <2>1, <2>2, SettlePreserves
  <1>6. CASE UsageError /\ UNCHANGED <<lines, results>>
    BY <1>2, <1>3, <1>6, AbortPreserves DEF UsageError
  <1> QED BY <1>4, <1>5, <1>6 DEF VerifyEntry

LEMMA ConcludeBaselinePreserves == IInv /\ ConcludeBaseline => IInv'
  <1> SUFFICES ASSUME IInv, ConcludeBaseline PROVE IInv'
    OBVIOUS
  <1>1. stage = "blob" /\ pending # <<>>
    BY DEF IInv, TypeOK, ConcludeBaseline
  <1>2. PICK status \in {"FAIL", "PASS"} : Conclude(status)
    BY DEF ConcludeBaseline
  <1> QED BY <1>1, <1>2, ConcludePreserves DEF ConcludeBaseline, VerificationStatus
-----------------------------------------------------------------------------

(* verify_all and verify_manifest                                          *)

LEMMA FindManifestPreserves == IInv /\ FindManifest => IInv'
  <1> SUFFICES ASSUME IInv, FindManifest PROVE IInv'
    OBVIOUS
  <1>1. CASE Conclude("FAIL")
    BY <1>1, ConcludePreserves DEF FindManifest, VerificationStatus
  <1>2. CASE Goto("open") /\ UNCHANGED <<reports, pending>>
    <2>1. lines' \in Text /\ listed' \in [Report -> SUBSET (Entry \cup {Garbled})]
      BY DEF IInv, TypeOK, FindManifest
    <2> QED BY <1>2, <2>1, GotoPreserves DEF FindManifest
  <1> QED BY <1>1, <1>2 DEF FindManifest

LEMMA StatFailsPreserves == IInv /\ StatFails => IInv'
  <1> SUFFICES ASSUME IInv, StatFails PROVE IInv'
    OBVIOUS
  <1>1. faulty' \in BOOLEAN /\ (faulty => faulty')
    BY FaultsAreKept DEF IInv, StatFails
  <1> QED BY <1>1, AbortPreserves DEF StatFails

LEMMA OpenManifestPreserves == IInv /\ OpenManifest => IInv'
  <1> SUFFICES ASSUME IInv, OpenManifest PROVE IInv'
    OBVIOUS
  <1>1. stage = "open" /\ pending # <<>>
    BY DEF IInv, TypeOK, OpenManifest
  <1>2. faulty' \in BOOLEAN /\ (faulty => faulty')
    <2>1. Sound \/ Fault
      BY DEF OpenManifest
    <2> QED BY <2>1, FaultsAreKept DEF IInv
  <1>3. UNCHANGED <<world, inputs, pending, results, reports>>
    BY DEF OpenManifest
  <1>4. CASE (UsageError \/ Abort(1)) /\ UNCHANGED <<lines, listed>>
    BY <1>2, <1>3, <1>4, AbortPreserves DEF UsageError
  <1>5. CASE /\ manifests[current] \notin {Absent, Unreadable, Undecodable}
             /\ Load(manifests[current], "entry") /\ Sound
    <2>1. current \in Manifest
      BY <1>1 DEF IInv, InOrder
    <2>2. manifests[current] \in Text
      BY <1>5, <2>1 DEF IInv, TypeOK, ManifestFile
    <2> QED BY <1>1, <1>3, <1>5, <2>1, <2>2, LoadPreserves DEF Sound
  <1> QED BY <1>4, <1>5 DEF OpenManifest

\* An entry that is due in stage "entry" and what CheckRow and CheckEntry have
\* in common.
LEMMA EntryDue ==
    ASSUME IInv, stage \in {"entry", "exists", "read"}, lines # <<>>
    PROVE  /\ pending # <<>> /\ current \in Manifest
           /\ entry \in Entry \cup {Garbled}
  BY HeadAndTail DEF IInv, TypeOK, InOrder, Text, Manifest, entry

LEMMA CheckRowPreserves == IInv /\ CheckRow => IInv'
  <1> SUFFICES ASSUME IInv, CheckRow PROVE IInv'
    OBVIOUS
  <1>1. PICK status \in {"MISSING_HASH", "MALFORMED_HASH", "RECORDED_NOT_VERIFIED"} :
          Settle(status, "entry")
    BY DEF CheckRow, RowStatus
  <1>2. PICK q : q = [entry |-> entry, status |-> status]
    OBVIOUS
  <1>3. status \in Status
    BY DEF Status, EntryStatus
  <1>4. faulty' \in BOOLEAN /\ (faulty => faulty')
    BY FaultsAreKept DEF IInv, CheckRow, Sound
  <1>5. stage = "entry" /\ lines # <<>> /\ current = "sources"
    BY DEF CheckRow
  <1>6. UNCHANGED <<world, inputs, pending, reports, listed>>
    BY DEF CheckRow
  <1> QED BY <1>1, <1>2, <1>3, <1>4, <1>5, <1>6, SettlePreserves DEF Manifest

\* A status of an entry of SHA256SUMS that is witnessed when it is given.
LEMMA SettleSumPreserves ==
    ASSUME IInv, stage \in {"entry", "exists", "read"}, lines # <<>>, current = "sums",
           NEW status \in EntryStatus, Settle(status, "entry"),
           NEW q, q = [entry |-> entry, status |-> status], SumWitnessed(q)', Sound \/ Fault,
           UNCHANGED <<world, inputs, pending, reports, listed>>
    PROVE  IInv'
  <1>1. faulty' \in BOOLEAN /\ (faulty => faulty')
    BY FaultsAreKept DEF IInv
  <1>2. status \in Status
    BY DEF Status
  <1> QED BY <1>1, <1>2, SettlePreserves DEF Manifest

LEMMA CheckEntryPreserves == IInv /\ CheckEntry => IInv'
  <1> SUFFICES ASSUME IInv, CheckEntry PROVE IInv'
    OBVIOUS
  <1>1. /\ stage = "entry" /\ lines # <<>> /\ current = "sums" /\ pending # <<>>
        /\ entry \in Entry \cup {Garbled}
    BY EntryDue DEF CheckEntry
  <1>2. UNCHANGED <<world, inputs, pending, reports, listed>>
    BY DEF CheckEntry
  <1>3. ASSUME NEW status \in EntryStatus, Settle(status, "entry"), Sound \/ Fault,
               SumWitnessed([entry |-> Head(lines), status |-> status])
        PROVE  IInv'
    <2>1. PICK q : q = [entry |-> entry, status |-> status]
      OBVIOUS
    <2>2. q \in Result
      BY <1>1, <2>1 DEF Result
    <2>3. faulty' \in BOOLEAN /\ (faulty => faulty')
      BY <1>3, FaultsAreKept DEF IInv
    <2>4. SumWitnessed(q)'
      BY <1>2, <1>3, <2>1, <2>2, <2>3, SumStaysWitnessed DEF world, entry
    <2> QED BY <1>1, <1>2, <1>3, <2>1, <2>4, SettleSumPreserves
  <1>4. CASE entry = Garbled /\ Settle("UNREADABLE", "entry") /\ Sound
    <2>1. SumWitnessed([entry |-> Head(lines), status |-> "UNREADABLE"])
      BY <1>4 DEF SumWitnessed, entry
    <2> QED BY <1>3, <1>4, <2>1 DEF EntryStatus
  <1>5. CASE Unsafe(entry) /\ Settle("UNSAFE_PATH", "entry") /\ Sound
    <2>1. SumWitnessed([entry |-> Head(lines), status |-> "UNSAFE_PATH"])
      BY <1>5 DEF SumWitnessed, entry
    <2> QED BY <1>3, <1>5, <2>1 DEF EntryStatus
  <1>6. CASE /\ entry.digest \notin Bodies /\ Sound
             /\ Settle(IF entry.digest = NoDigest THEN "MISSING_HASH" ELSE "MALFORMED_HASH", "entry")
    <2>1. PICK status \in {"MISSING_HASH", "MALFORMED_HASH"} : Settle(status, "entry")
      BY <1>6
    <2>2. SumWitnessed([entry |-> Head(lines), status |-> status])
      BY <1>6 DEF SumWitnessed, entry
    <2> QED BY <1>3, <1>6, <2>1, <2>2 DEF EntryStatus
  <1>7. CASE entry # Garbled /\ ~Unsafe(entry) /\ entry.digest \in Bodies
    <2>1. entry.path \in Paths /\ <<entry.path, tree[entry.path]>> \in held
      BY <1>1, <1>7 DEF Unsafe, Entry, IInv, InOrder
    <2>2. CASE tree[entry.path] = Absent /\ Settle("MISSING_FILE", "entry") /\ Sound
      <3>1. SumWitnessed([entry |-> Head(lines), status |-> "MISSING_FILE"])
        BY <2>1, <2>2 DEF SumWitnessed, entry
      <3> QED BY <1>3, <2>2, <3>1 DEF EntryStatus
    <2>3. CASE tree[entry.path] = Obstacle /\ Settle("UNREADABLE", "entry") /\ Sound
      <3>1. SumWitnessed([entry |-> Head(lines), status |-> "UNREADABLE"])
        BY <2>1, <2>3 DEF SumWitnessed, entry
      <3> QED BY <1>3, <2>3, <3>1 DEF EntryStatus
    <2>4. CASE Settle("UNREADABLE", "entry") /\ Fault
      <3>1. PICK q : q = [entry |-> entry, status |-> "UNREADABLE"]
        OBVIOUS
      <3>2. SumWitnessed(q)' /\ "UNREADABLE" \in EntryStatus
        BY <2>4, <3>1 DEF SumWitnessed, Fault, EntryStatus
      <3> QED BY <1>1, <1>2, <2>4, <3>1, <3>2, SettleSumPreserves
    <2>5. CASE Goto("exists") /\ Sound /\ UNCHANGED <<lines, results>>
      <3>1. lines' \in Text /\ listed' \in [Report -> SUBSET (Entry \cup {Garbled})]
        BY <1>2, <2>5 DEF IInv, TypeOK
      <3> QED BY <1>1, <1>2, <1>7, <2>1, <2>5, <3>1, GotoPreserves DEF Sound
    <2> QED BY <1>7, <2>2, <2>3, <2>4, <2>5 DEF CheckEntry, Unsafe
  <1> QED BY <1>4, <1>5, <1>6, <1>7 DEF CheckEntry

LEMMA FindFilePreserves == IInv /\ FindFile => IInv'
  <1> SUFFICES ASSUME IInv, FindFile PROVE IInv'
    OBVIOUS
  <1>1. /\ stage = "exists" /\ lines # <<>> /\ current = "sums" /\ pending # <<>>
        /\ entry \in Entry \cup {Garbled} /\ entry # Garbled
        /\ entry.path \in Paths /\ entry.digest \in Bodies
    BY EntryDue DEF FindFile, IInv, TypeOK, InOrder
  <1>2. UNCHANGED <<world, inputs, pending, reports, listed, faulty>>
    BY DEF FindFile
  <1>3. <<entry.path, tree[entry.path]>> \in held
    BY <1>1 DEF IInv, InOrder
  <1>4. ASSUME NEW status \in EntryStatus, Settle(status, "entry"),
               SumWitnessed([entry |-> Head(lines), status |-> status])
        PROVE  IInv'
    <2>1. PICK q : q = [entry |-> entry, status |-> status]
      OBVIOUS
    <2>2. q \in Result
      BY <1>1, <2>1 DEF Result
    <2>3. SumWitnessed(q)'
      BY <1>2, <1>4, <2>1, <2>2, SumStaysWitnessed DEF world, entry
    <2> QED BY <1>1, <1>2, <1>4, <2>1, <2>3, SettleSumPreserves DEF Sound
  <1>5. CASE tree[entry.path] = Absent /\ Settle("MISSING_FILE", "entry")
    <2>1. SumWitnessed([entry |-> Head(lines), status |-> "MISSING_FILE"])
      BY <1>3, <1>5 DEF SumWitnessed, entry
    <2> QED BY <1>4, <1>5, <2>1 DEF EntryStatus
  <1>6. CASE tree[entry.path] = Obstacle /\ Settle("UNREADABLE", "entry")
    <2>1. SumWitnessed([entry |-> Head(lines), status |-> "UNREADABLE"])
      BY <1>3, <1>6 DEF SumWitnessed, entry
    <2> QED BY <1>4, <1>6, <2>1 DEF EntryStatus
  <1>7. CASE Goto("read") /\ UNCHANGED <<lines, results>>
    <2>1. lines' \in Text /\ listed' \in [Report -> SUBSET (Entry \cup {Garbled})]
      BY <1>2, <1>7 DEF IInv, TypeOK
    <2> QED BY <1>1, <1>2, <1>7, <2>1, GotoPreserves
  <1> QED BY <1>5, <1>6, <1>7 DEF FindFile

LEMMA HashFilePreserves == IInv /\ HashFile => IInv'
  <1> SUFFICES ASSUME IInv, HashFile PROVE IInv'
    OBVIOUS
  <1>1. /\ stage = "read" /\ lines # <<>> /\ current = "sums" /\ pending # <<>>
        /\ entry \in Entry \cup {Garbled} /\ entry # Garbled
        /\ entry.path \in Paths /\ entry.digest \in Bodies
    BY EntryDue DEF HashFile, IInv, TypeOK, InOrder
  <1>2. UNCHANGED <<world, inputs, pending, reports, listed>>
    BY DEF HashFile
  <1>3. <<entry.path, tree[entry.path]>> \in held /\ tree[entry.path] \in File
    BY <1>1 DEF IInv, TypeOK, InOrder
  <1>4. ASSUME NEW status \in EntryStatus, Settle(status, "entry"), Sound,
               SumWitnessed([entry |-> Head(lines), status |-> status])
        PROVE  IInv'
    <2>1. PICK q : q = [entry |-> entry, status |-> status]
      OBVIOUS
    <2>2. q \in Result
      BY <1>1, <2>1 DEF Result
    <2>3. SumWitnessed(q)'
      BY <1>2, <1>4, <2>1, <2>2, SumStaysWitnessed DEF world, entry, Sound
    <2> QED BY <1>1, <1>2, <1>4, <2>1, <2>3, SettleSumPreserves
  <1>5. CASE tree[entry.path] \notin Bodies /\ Settle("UNREADABLE", "entry") /\ Sound
    <2>1. SumWitnessed([entry |-> Head(lines), status |-> "UNREADABLE"])
      BY <1>3, <1>5 DEF SumWitnessed, File, entry
    <2> QED BY <1>4, <1>5, <2>1 DEF EntryStatus
  <1>6. CASE Settle("UNREADABLE", "entry") /\ Fault
    <2>1. PICK q : q = [entry |-> entry, status |-> "UNREADABLE"]
      OBVIOUS
    <2>2. SumWitnessed(q)' /\ "UNREADABLE" \in EntryStatus
      BY <1>6, <2>1 DEF SumWitnessed, Fault, EntryStatus
    <2> QED BY <1>1, <1>2, <1>6, <2>1, <2>2, SettleSumPreserves
  <1>7. CASE /\ tree[entry.path] \in Bodies /\ Sound
             /\ Settle(IF tree[entry.path] = entry.digest THEN "PASS" ELSE "HASH_MISMATCH", "entry")
    <2>1. CASE tree[entry.path] = entry.digest
      <3>1. SumWitnessed([entry |-> Head(lines), status |-> "PASS"])
        BY <1>3, <2>1 DEF SumWitnessed, entry
      <3> QED BY <1>4, <1>7, <2>1, <3>1 DEF EntryStatus
    <2>2. CASE tree[entry.path] # entry.digest
      <3>1. SumWitnessed([entry |-> Head(lines), status |-> "HASH_MISMATCH"])
        BY <1>3, <1>7, <2>2 DEF SumWitnessed, entry
      <3> QED BY <1>4, <1>7, <2>2, <3>1 DEF EntryStatus
    <2> QED BY <2>1, <2>2
  <1> QED BY <1>5, <1>6, <1>7 DEF HashFile

LEMMA ConcludeManifestPreserves == IInv /\ ConcludeManifest => IInv'
  <1> SUFFICES ASSUME IInv, ConcludeManifest PROVE IInv'
    OBVIOUS
  <1>1. stage = "entry" /\ pending # <<>>
    BY DEF IInv, TypeOK, ConcludeManifest
  <1>2. PICK status \in VerificationStatus : Conclude(status)
    BY DEF ConcludeManifest, Aggregate, VerificationStatus
  <1> QED BY <1>1, <1>2, ConcludePreserves DEF ConcludeManifest

LEMMA FinishPreserves == IInv /\ Finish => IInv'
  <1> SUFFICES ASSUME IInv, Finish PROVE IInv'
    OBVIOUS
  <1>1. PICK code \in {0, 1, 3} : Abort(code)
    BY DEF Finish, ExitCode
  <1>2. faulty' \in BOOLEAN /\ (faulty => faulty')
    BY FaultsAreKept DEF IInv, Finish, Sound
  <1> QED BY <1>1, <1>2, AbortPreserves DEF Finish

LEMMA StepPreserves == IInv /\ [Next]_vars => IInv'
  <1> SUFFICES ASSUME IInv, [Next]_vars PROVE IInv'
    OBVIOUS
  <1>1. CASE UNCHANGED vars
    BY <1>1 DEF IInv, TypeOK, InOrder, StatusesWitnessed, SumWitnessed, BlobWitnessed, BlobAt,
                current, entry, vars, world, inputs
  <1>2. CASE Edit
    BY <1>2, EditPreserves
  <1>3. CASE Verify
    BY <1>3, ResolveCommitPreserves, ReadRecordPreserves, VerifyEntryPreserves,
       ConcludeBaselinePreserves, FindManifestPreserves, StatFailsPreserves,
       OpenManifestPreserves, CheckRowPreserves, CheckEntryPreserves, FindFilePreserves,
       HashFilePreserves, ConcludeManifestPreserves, FinishPreserves DEF Verify
  <1> QED BY <1>1, <1>2, <1>3 DEF Next
-----------------------------------------------------------------------------
\* Every variable keeps its type, for any world and command.
THEOREM VerificationTypes == Spec => []TypeOK
  <1>1. IInv => TypeOK
    BY DEF IInv
  <1> QED BY Initially, StepPreserves, <1>1, PTL DEF Spec

\* No status is invented: whatever is edited, deleted or fails in between, each
\* status of SHA256SUMS is true of something its path held during the run, and
\* each status of the baseline of its blob, or a read failed.
THEOREM NoStatusIsInvented == Spec => []StatusesWitnessed
  <1>1. IInv => StatusesWitnessed
    BY DEF IInv
  <1> QED BY Initially, StepPreserves, <1>1, PTL DEF Spec

-----------------------------------------------------------------------------
(***************************************************************************)
(* That exit 0 and 3 cover every entry.  It takes a second invariant: how  *)
(* the reports that are due, those made, the entries listed and the        *)
(* results so far add up.                                                  *)
(***************************************************************************)
Queues ==
    {<<>>, <<"baseline">>, <<"sums">>, <<"sources">>, <<"sums", "sources">>,
     <<"baseline", "sums", "sources">>}

Members(s) == {s[i] : i \in DOMAIN s}
Due == Members(pending)
Entries(r) == {q.entry : q \in results[r]}

\* A selected report is due or made, and no other.
Queued ==
    /\ pending \in Queues /\ Due \subseteq Selected
    /\ \A r \in Report : reports[r] # Absent <=> r \in Selected \ Due

\* A report that is due and not begun.
Ahead(r) == r \in Due /\ stage # "done" /\ (stage \in {"begin", "record", "open"} \/ r # current)

\* Nothing is known of the reports ahead, and never of one not selected.
Fresh ==
    \A r \in Report :
        (r \in Selected => Ahead(r)) => results[r] = {} /\ listed[r] = {}

\* Of the present report, each entry listed is settled or left to do.
Counted ==
    stage \in {"blob", "entry", "exists", "read"} =>
        Entries(current) \cup Members(lines) = listed[current]

\* The statuses that an entry of each report can have.
Fits(r, q) ==
    /\ q.status = "PASS" => q.entry # Garbled
    /\ r = "baseline" => q.status \notin Incomplete
    /\ r = "sums" => q.status \in Failing \cup {"PASS"}
    /\ r = "sources" => q.status \in Incomplete \cup {"MALFORMED_HASH"}

Fitting == \A r \in Report : \A q \in results[r] : Fits(r, q)

\* What a report that did not fail stands for.
Supported(r, status) ==
    status # "FAIL" =>
        /\ Entries(r) = listed[r]
        /\ r # "sources" => \A q \in results[r] : q.status = "PASS"
        /\ status = "PASS" <=> (r = "baseline" \/ (r = "sums" /\ results[r] # {}))

Backed == \A r \in Report : reports[r] # Absent => Supported(r, reports[r])

Digested ==
    /\ \A e \in listed["sums"] : HasDigest(e)
    /\ manifests["sums"] \notin {Absent, Unreadable, Undecodable} =>
         \A e \in Members(manifests["sums"]) : HasDigest(e)

Concluded == exit \in {0, 3} => pending = <<>> /\ exit = ExitCode

Accounted == Queued /\ Fresh /\ Counted /\ Fitting /\ Backed /\ Digested /\ Concluded
JInv == IInv /\ Accounted

LEMMA QueueSplits ==
    ASSUME NEW queue \in Queues, queue # <<>>
    PROVE  /\ Tail(queue) \in Queues /\ Head(queue) \notin Members(Tail(queue))
           /\ Members(queue) = {Head(queue)} \cup Members(Tail(queue))
           /\ Members(queue) \subseteq Report
  <1>1. ASSUME NEW r \in Report, queue = <<r>>
        PROVE  /\ Tail(queue) \in Queues /\ Head(queue) \notin Members(Tail(queue))
               /\ Members(queue) = {Head(queue)} \cup Members(Tail(queue))
               /\ Members(queue) \subseteq Report
    <2>1. Tail(queue) = <<>> /\ Head(queue) = r
      BY <1>1
    <2>2. Members(queue) = {r} /\ Members(<<>>) = {}
      BY <1>1 DEF Members
    <2> QED BY <2>1, <2>2 DEF Queues
  <1>2. CASE queue = <<"sums", "sources">>
    <2>1. Tail(queue) = <<"sources">> /\ Head(queue) = "sums"
      BY <1>2
    <2>2. Members(queue) = {"sums", "sources"} /\ Members(<<"sources">>) = {"sources"}
      BY <1>2 DEF Members
    <2> QED BY <2>1, <2>2 DEF Queues, Report
  <1>3. CASE queue = <<"baseline", "sums", "sources">>
    <2>1. Tail(queue) = <<"sums", "sources">> /\ Head(queue) = "baseline"
      BY <1>3
    <2>2. /\ Members(queue) = {"baseline", "sums", "sources"}
          /\ Members(<<"sums", "sources">>) = {"sums", "sources"}
      BY <1>3 DEF Members
    <2> QED BY <2>1, <2>2 DEF Queues, Report
  <1> QED BY <1>1, <1>2, <1>3 DEF Queues, Report

LEMMA LinesSplit ==
    ASSUME NEW text \in Text, text # <<>>
    PROVE  Members(text) = {Head(text)} \cup Members(Tail(text))
  <1>1. text \in Seq(Entry \cup {Garbled}) /\ Len(text) \in Nat \ {0}
    BY DEF Text
  <1>2. /\ DOMAIN text = 1..Len(text) /\ DOMAIN Tail(text) = 1..(Len(text) - 1)
        /\ Head(text) = text[1]
        /\ \A i \in 1..(Len(text) - 1) : Tail(text)[i] = text[i + 1]
    BY <1>1
  <1>3. ASSUME NEW i \in DOMAIN text, i # 1
        PROVE  i - 1 \in DOMAIN Tail(text) /\ Tail(text)[i - 1] = text[i]
    BY <1>1, <1>2, <1>3
  <1>4. ASSUME NEW i \in DOMAIN Tail(text)
        PROVE  i + 1 \in DOMAIN text /\ Tail(text)[i] = text[i + 1]
    BY <1>1, <1>2
  <1>5. 1 \in DOMAIN text
    BY <1>1, <1>2
  <1> QED BY <1>2, <1>3, <1>4, <1>5 DEF Members

\* The report that is due is selected, not made, and comes only once.
LEMMA CurrentIsDue ==
    ASSUME JInv, pending # <<>>
    PROVE  /\ current \in Report /\ current \in Due /\ current \in Selected
           /\ reports[current] = Absent /\ Due \subseteq Report
           /\ Members(Tail(pending)) = Due \ {current} /\ Tail(pending) \in Queues
  <1>1. pending \in Queues /\ Due \subseteq Selected
    BY DEF JInv, Accounted, Queued
  <1>2. /\ Tail(pending) \in Queues /\ current \notin Members(Tail(pending))
        /\ Due = {current} \cup Members(Tail(pending)) /\ Due \subseteq Report
    BY <1>1, QueueSplits DEF Due, current
  <1> QED BY <1>1, <1>2 DEF JInv, Accounted, Queued

LEMMA NoExitYet ==
    ASSUME TypeOK, stage # "done"
    PROVE  exit \notin {0, 3}
  BY BodiesAssumption DEF TypeOK

LEMMA AccountedInitially == Init => Accounted
  <1> SUFFICES ASSUME Init PROVE Accounted
    OBVIOUS
  <1>1. PICK w \in Worlds : manifests = w.manifests
    BY DEF Init
  <1>2. command.mode \in {"all", "one", "none"} /\ command.manifest \in Manifest
    BY WorldsAssumption DEF Init, Command
  <1>3. pending \in Queues /\ Due = Selected
    <2>1. CASE command.mode = "all"
      <3>1. pending = <<"baseline", "sums", "sources">>
        BY <2>1 DEF Init
      <3>2. Due = {"baseline", "sums", "sources"}
        BY <3>1 DEF Due, Members
      <3> QED BY <2>1, <3>1, <3>2 DEF Queues, Selected, Report
    <2>2. CASE command.mode = "one"
      <3>1. pending = <<command.manifest>>
        BY <2>2 DEF Init
      <3>2. Due = {command.manifest}
        BY <3>1 DEF Due, Members
      <3> QED BY <1>2, <2>2, <3>1, <3>2 DEF Queues, Selected, Manifest
    <2>3. CASE command.mode = "none"
      <3>1. pending = <<"baseline">>
        BY <2>3 DEF Init
      <3>2. Due = {"baseline"}
        BY <3>1 DEF Due, Members
      <3> QED BY <2>3, <3>1, <3>2 DEF Queues, Selected
    <2> QED BY <1>2, <2>1, <2>2, <2>3
  <1>4. Queued /\ Fresh /\ Counted /\ Fitting /\ Backed
    BY <1>3 DEF Init, Queued, Fresh, Counted, Fitting, Backed
  <1>5. Digested
    BY <1>1, SumsAssumption DEF Init, Digested, Members, Report
  <1>6. Concluded
    BY BodiesAssumption DEF Init, Concluded
  <1> QED BY <1>4, <1>5, <1>6 DEF Accounted

LEMMA EditIsAccounted == JInv /\ Edit => Accounted'
  <1> SUFFICES ASSUME JInv, Edit PROVE Accounted'
    OBVIOUS
  <1>1. UNCHANGED <<inputs, stage, pending, lines, results, reports, exit, listed>>
    BY DEF Edit
  <1>2. UNCHANGED <<Due, Selected, ExitCode, current>>
    BY <1>1 DEF Due, Selected, ExitCode, current, inputs
  <1>4. Queued' /\ Fitting' /\ Backed'
    BY <1>1, <1>2 DEF JInv, Accounted, Queued, Fitting, Backed, Supported, Entries
  <1>5. Fresh' /\ Counted' /\ Concluded'
    BY <1>1, <1>2 DEF JInv, Accounted, Fresh, Ahead, Counted, Entries, Concluded
  <1>3. Digested'
    <2>1. manifests'["sums"] \in {Absent, manifests["sums"]}
      BY DEF Edit, JInv, IInv, TypeOK, Manifest
    <2> QED BY <1>1, <2>1 DEF JInv, Accounted, Digested
  <1> QED BY <1>3, <1>4, <1>5 DEF Accounted

LEMMA AbortIsAccounted ==
    ASSUME JInv, stage # "done", NEW code \in {0, 1, 2, 3}, Abort(code),
           code \in {0, 3} => pending = <<>> /\ code = ExitCode,
           UNCHANGED <<world, inputs, pending, lines, results, reports, listed>>
    PROVE  Accounted'
  <1>1. UNCHANGED <<Due, Selected, ExitCode>>
    BY DEF Due, Selected, ExitCode, inputs
  <1>2. Queued' /\ Fitting' /\ Backed'
    BY <1>1 DEF JInv, Accounted, Queued, Fitting, Backed, Supported, Entries
  <1>3. Fresh' /\ Counted' /\ Digested'
    BY <1>1 DEF JInv, Accounted, Fresh, Ahead, Counted, Digested, Abort, world
  <1>4. Concluded'
    BY <1>1 DEF Concluded, Abort
  <1> QED BY <1>2, <1>3, <1>4 DEF Accounted

\* The stages in which the present report has entries.
Running == {"blob", "entry", "exists", "read"}

LEMMA GotoIsAccounted ==
    ASSUME JInv, stage # "done", NEW s \in {"record", "open"} \cup Running, Goto(s),
           (stage = "begin" /\ s \notin Running) \/ (stage \in Running /\ s \in Running),
           UNCHANGED <<world, inputs, pending, lines, results, reports, listed>>
    PROVE  Accounted'
  <1>1. UNCHANGED <<Due, Selected, current, exit>> /\ stage' = s
    BY DEF Due, Selected, current, inputs, Goto
  <1>2. Queued' /\ Fitting' /\ Backed' /\ Digested'
    BY <1>1 DEF JInv, Accounted, Queued, Fitting, Backed, Supported, Entries, Digested, world
  <1>3. Fresh' /\ Counted'
    BY <1>1 DEF JInv, Accounted, Fresh, Ahead, Counted, Entries, Running
  <1>4. Concluded'
    BY <1>1, NoExitYet DEF JInv, IInv, Concluded
  <1> QED BY <1>2, <1>3, <1>4 DEF Accounted

LEMMA LoadIsAccounted ==
    ASSUME JInv, stage \in {"record", "open"}, NEW text \in Text, NEW s \in Running, Load(text, s),
           current = "sums" => \A e \in Members(text) : HasDigest(e),
           UNCHANGED <<world, inputs, pending, results, reports>>
    PROVE  Accounted'
  <1>1. UNCHANGED <<Due, Selected, current, exit>> /\ stage' = s /\ lines' = text
    BY DEF Due, Selected, current, inputs, Goto, Load
  <1>2. pending # <<>>
    BY DEF JInv, IInv, TypeOK
  <1>3. /\ current \in Report /\ current \in Due /\ reports[current] = Absent
        /\ Due \subseteq Report
    BY <1>2, CurrentIsDue
  <1>4. /\ listed'[current] = Members(text)
        /\ \A r \in Report \ {current} : listed'[r] = listed[r]
    BY <1>3 DEF JInv, IInv, TypeOK, Load, Members
  <1>5. results[current] = {}
    BY <1>3 DEF JInv, Accounted, Fresh, Ahead
  <1>6. Queued' /\ Fitting'
    BY <1>1 DEF JInv, Accounted, Queued, Fitting
  <1>7. Fresh'
    BY <1>1, <1>4, <1>2, CurrentIsDue DEF JInv, Accounted, Fresh, Ahead, Running
  <1>8. Counted'
    BY <1>1, <1>4, <1>5 DEF Counted, Entries
  <1>9. Backed'
    BY <1>3, <1>4 DEF JInv, Accounted, Backed, Supported, Entries
  <1>10. Digested'
    BY <1>4 DEF JInv, Accounted, Digested, Report, world
  <1>11. Concluded'
    BY <1>1, NoExitYet DEF JInv, IInv, Concluded
  <1> QED BY <1>6, <1>7, <1>8, <1>9, <1>10, <1>11 DEF Accounted

LEMMA SettleIsAccounted ==
    ASSUME JInv, stage \in Running, lines # <<>>, NEW status, NEW s \in Running, Settle(status, s),
           Fits(current, [entry |-> entry, status |-> status]),
           UNCHANGED <<world, inputs, pending, reports, listed>>
    PROVE  Accounted'
  <1> DEFINE q == [entry |-> entry, status |-> status]
  <1>1. /\ UNCHANGED <<Due, Selected, current, exit>> /\ stage' = s /\ lines' = Tail(lines)
        /\ results' = [results EXCEPT ![current] = @ \cup {q}]
    BY DEF Due, Selected, current, inputs, Goto, Settle
  <1>2. pending # <<>>
    BY DEF JInv, IInv, TypeOK, Running
  <1>3. /\ current \in Report /\ current \in Due /\ current \in Selected
        /\ reports[current] = Absent
    BY <1>2, CurrentIsDue
  <1>4. /\ results'[current] = results[current] \cup {q}
        /\ \A r \in Report \ {current} : results'[r] = results[r]
    BY <1>1, <1>3 DEF JInv, IInv, TypeOK
  <1>5. Queued' /\ Digested'
    BY <1>1 DEF JInv, Accounted, Queued, Digested, world
  <1>6. Fresh'
    BY <1>1, <1>3, <1>4 DEF JInv, Accounted, Fresh, Ahead, Running
  <1>7. Counted'
    <2>1. Members(lines) = {entry} \cup Members(lines')
      BY <1>1, LinesSplit DEF JInv, IInv, TypeOK, entry
    <2>2. Entries(current)' = Entries(current) \cup {entry}
      BY <1>1, <1>4 DEF Entries
    <2>3. Entries(current) \cup Members(lines) = listed[current]
      BY DEF JInv, Accounted, Counted, Running
    <2> QED BY <1>1, <2>1, <2>2, <2>3 DEF Counted
  <1>8. Fitting'
    BY <1>4 DEF JInv, Accounted, Fitting
  <1>9. Backed'
    BY <1>3, <1>4 DEF JInv, Accounted, Backed, Supported, Entries
  <1>10. Concluded'
    BY <1>1, NoExitYet DEF JInv, IInv, Concluded, Running
  <1> QED BY <1>5, <1>6, <1>7, <1>8, <1>9, <1>10 DEF Accounted

LEMMA ConcludeIsAccounted ==
    ASSUME JInv, stage # "done", pending # <<>>, NEW status \in VerificationStatus, Conclude(status),
           Supported(current, status),
           UNCHANGED <<world, inputs, lines, results, listed>>
    PROVE  Accounted'
  <1>1. /\ UNCHANGED <<Selected, exit>> /\ stage' = "begin"
        /\ pending' = Tail(pending) /\ reports' = [reports EXCEPT ![current] = status]
    BY DEF Selected, inputs, Goto, Conclude
  <1>2. /\ current \in Report /\ current \in Selected /\ Due \subseteq Report
        /\ Due' = Due \ {current} /\ pending' \in Queues
    BY <1>1, CurrentIsDue DEF Due
  <1>3. /\ reports'[current] = status /\ status # Absent
        /\ \A r \in Report \ {current} : reports'[r] = reports[r]
    BY <1>1, <1>2, StatusAssumption DEF JInv, IInv, TypeOK
  <1>4. Queued'
    BY <1>1, <1>2, <1>3 DEF JInv, Accounted, Queued
  <1>5. Fresh'
    <2> SUFFICES ASSUME NEW r \in Report, r \in Selected => r \in Due \ {current}
                 PROVE  results[r] = {} /\ listed[r] = {}
      BY <1>1, <1>2 DEF Fresh, Ahead
    <2> QED BY DEF JInv, Accounted, Fresh, Ahead
  <1>6. Counted' /\ Fitting' /\ Digested'
    BY <1>1 DEF JInv, Accounted, Counted, Fitting, Digested, world
  <1>7. Backed'
    BY <1>3 DEF JInv, Accounted, Backed, Supported, Entries
  <1>8. Concluded'
    BY <1>1, NoExitYet DEF JInv, IInv, Concluded
  <1> QED BY <1>4, <1>5, <1>6, <1>7, <1>8 DEF Accounted

-----------------------------------------------------------------------------
(* The steps of both parts.                                                *)

LEMMA AllSettled ==
    ASSUME JInv, stage \in {"blob", "entry"}, lines = <<>>
    PROVE  Entries(current) = listed[current]
  <1>1. Entries(current) \cup Members(lines) = listed[current]
    BY DEF JInv, Accounted, Counted
  <1>2. Members(lines) = {}
    BY DEF Members
  <1> QED BY <1>1, <1>2

LEMMA BaselineIsAccounted ==
    ASSUME JInv, ResolveCommit \/ ReadRecord \/ VerifyEntry \/ ConcludeBaseline
    PROVE  Accounted'
  <1>1. CASE ResolveCommit
    <2>1. CASE UsageError
      BY <1>1, <2>1, AbortIsAccounted DEF ResolveCommit, UsageError
    <2>2. CASE Goto("record")
      <3>1. /\ stage = "begin" /\ stage # "done"
            /\ UNCHANGED <<world, inputs, pending, lines, results, reports, listed>>
        BY <1>1 DEF ResolveCommit
      <3> QED BY <2>2, <3>1, GotoIsAccounted DEF Running
    <2>3. UsageError \/ Goto("record")
      BY <1>1 DEF ResolveCommit
    <2> QED BY <2>1, <2>2, <2>3
  <1>2. CASE ReadRecord
    <2>1. CASE UsageError /\ UNCHANGED <<lines, listed>>
      BY <1>2, <2>1, AbortIsAccounted DEF ReadRecord, UsageError
    <2>2. CASE repo.files \notin {Absent, Unreadable} /\ Load(Append(repo.files, Governor), "blob")
      <3>1. repo \in Repository /\ current = "baseline"
        BY <1>2 DEF ReadRecord, JInv, IInv, TypeOK, InOrder
      <3>2. repo.files \in Text /\ Governor \in Entry
        BY <2>2, <3>1, BodiesAssumption DEF Repository, Governor, Entry
      <3>3. Append(repo.files, Governor) \in Text
        BY <3>2 DEF Text
      <3> QED BY <1>2, <2>2, <3>1, <3>3, LoadIsAccounted DEF ReadRecord, Running
    <2> QED BY <1>2, <2>1, <2>2 DEF ReadRecord
  <1>3. CASE VerifyEntry
    <2>1. stage \in Running /\ stage # "done" /\ current = "baseline" /\ lines # <<>>
      BY <1>3 DEF VerifyEntry, Running, JInv, IInv, InOrder
    <2>2. ASSUME NEW status, Settle(status, "blob"), status = "PASS" => entry # Garbled,
                 status \notin Incomplete
          PROVE  Accounted'
      <3>1. Fits(current, [entry |-> entry, status |-> status])
        BY <2>1, <2>2 DEF Fits
      <3> QED BY <1>3, <2>1, <2>2, <3>1, SettleIsAccounted DEF VerifyEntry, Running
    <2>3. /\ BlobStatusOf(entry) = "PASS" => entry # Garbled
          /\ BlobStatusOf(entry) \notin Incomplete /\ "MISSING_BLOB" \notin Incomplete
      BY DEF BlobStatusOf, MalformedRecord, Incomplete
    <2>4. CASE UsageError /\ UNCHANGED <<lines, results>>
      BY <1>3, <2>1, <2>4, AbortIsAccounted DEF VerifyEntry, UsageError
    <2> QED BY <1>3, <2>2, <2>3, <2>4 DEF VerifyEntry
  <1>4. CASE ConcludeBaseline
    <2> DEFINE status == IF Ungoverned \/ \E q \in results["baseline"] : q.status # "PASS"
                         THEN "FAIL" ELSE "PASS"
    <2>1. current = "baseline" /\ stage # "done" /\ pending # <<>> /\ lines = <<>>
      BY <1>4 DEF ConcludeBaseline, JInv, IInv, TypeOK, InOrder
    <2>2. Entries("baseline") = listed["baseline"]
      <3>1. stage = "blob"
        BY <1>4 DEF ConcludeBaseline
      <3> QED BY <2>1, <3>1, AllSettled
    <2>3. Supported(current, status) /\ status \in VerificationStatus
      BY <2>1, <2>2 DEF Supported, VerificationStatus
    <2>4. Conclude(status) /\ UNCHANGED <<world, inputs, lines, results, listed>>
      BY <1>4 DEF ConcludeBaseline
    <2> HIDE DEF status
    <2> QED BY <2>1, <2>3, <2>4, ConcludeIsAccounted
  <1> QED BY <1>1, <1>2, <1>3, <1>4

LEMMA FindingIsAccounted ==
    ASSUME JInv, FindManifest \/ StatFails \/ OpenManifest
    PROVE  Accounted'
  <1>1. CASE FindManifest
    <2>1. CASE Conclude("FAIL")
      <3>1. "FAIL" \in VerificationStatus /\ Supported(current, "FAIL")
        BY DEF Supported, VerificationStatus
      <3>2. stage # "done" /\ pending # <<>> /\ UNCHANGED <<world, inputs, lines, results, listed>>
        BY <1>1 DEF FindManifest
      <3> QED BY <2>1, <3>1, <3>2, ConcludeIsAccounted
    <2>2. CASE Goto("open") /\ UNCHANGED <<reports, pending>>
      <3>1. /\ stage = "begin" /\ stage # "done"
            /\ UNCHANGED <<world, inputs, lines, results, listed>>
        BY <1>1 DEF FindManifest
      <3> QED BY <2>2, <3>1, GotoIsAccounted DEF Running
    <2> QED BY <1>1, <2>1, <2>2 DEF FindManifest
  <1>2. CASE StatFails
    BY <1>2, AbortIsAccounted DEF StatFails
  <1>3. CASE OpenManifest
    <2>1. stage = "open" /\ UNCHANGED <<world, inputs, pending, results, reports>>
      BY <1>3 DEF OpenManifest
    <2>2. CASE (UsageError \/ Abort(1)) /\ UNCHANGED <<lines, listed>>
      BY <2>1, <2>2, AbortIsAccounted DEF UsageError
    <2>3. CASE /\ manifests[current] \notin {Absent, Unreadable, Undecodable}
               /\ Load(manifests[current], "entry")
      <3>1. current \in Manifest /\ manifests[current] \in Text
        BY <2>1, <2>3 DEF JInv, IInv, InOrder, TypeOK, ManifestFile
      <3>2. current = "sums" => \A e \in Members(manifests[current]) : HasDigest(e)
        BY <2>3 DEF JInv, Accounted, Digested
      <3> QED BY <2>1, <2>3, <3>1, <3>2, LoadIsAccounted DEF Running
    <2> QED BY <1>3, <2>2, <2>3 DEF OpenManifest
  <1> QED BY <1>1, <1>2, <1>3

LEMMA RowIsAccounted == JInv /\ CheckRow => Accounted'
  <1> SUFFICES ASSUME JInv, CheckRow PROVE Accounted'
    OBVIOUS
  <1>1. RowStatus(entry) \in {"MISSING_HASH", "MALFORMED_HASH", "RECORDED_NOT_VERIFIED"}
    BY DEF RowStatus
  <1>2. Fits(current, [entry |-> entry, status |-> RowStatus(entry)])
    BY <1>1 DEF Fits, Incomplete, CheckRow
  <1> QED BY <1>2, SettleIsAccounted DEF CheckRow, Running

\* An entry of SHA256SUMS has a digest, so that none is passed over for want of one.
LEMMA SumIsAccounted ==
    ASSUME JInv, CheckEntry \/ FindFile \/ HashFile
    PROVE  Accounted'
  <1>1. /\ stage \in {"entry", "exists", "read"} /\ stage \in Running /\ stage # "done"
        /\ current = "sums" /\ lines # <<>>
    BY DEF CheckEntry, FindFile, HashFile, Running, JInv, IInv, InOrder, TypeOK
  <1>2. UNCHANGED <<world, inputs, pending, reports, listed>>
    BY DEF CheckEntry, FindFile, HashFile
  <1>3. HasDigest(entry)
    <2>1. entry \in Members(lines)
      BY <1>1, LinesSplit DEF JInv, IInv, TypeOK, entry
    <2>2. Members(lines) \subseteq listed["sums"]
      BY <1>1 DEF JInv, Accounted, Counted
    <2> QED BY <2>1, <2>2 DEF JInv, Accounted, Digested
  <1>4. ASSUME NEW status \in Failing \cup {"PASS"}, Settle(status, "entry"),
               status = "PASS" => entry # Garbled
        PROVE  Accounted'
    <2>1. Fits(current, [entry |-> entry, status |-> status])
      BY <1>1, <1>4 DEF Fits
    <2> QED BY <1>1, <1>2, <1>4, <2>1, SettleIsAccounted DEF Running
  <1>5. ASSUME NEW s \in {"exists", "read"}, Goto(s), UNCHANGED <<lines, results>>
        PROVE  Accounted'
    BY <1>1, <1>2, <1>5, GotoIsAccounted DEF Running
  <1>6. {"UNREADABLE", "UNSAFE_PATH", "MALFORMED_HASH", "MISSING_FILE", "HASH_MISMATCH"}
            \subseteq Failing
    BY DEF Failing, EntryStatus, Incomplete
  <1>7. CASE CheckEntry
    <2>1. CASE /\ entry # Garbled /\ ~Unsafe(entry) /\ entry.digest \notin Bodies
               /\ Settle(IF entry.digest = NoDigest THEN "MISSING_HASH" ELSE "MALFORMED_HASH", "entry")
      BY <1>3, <1>4, <1>6, <2>1 DEF HasDigest
    <2>2. CASE \E status \in {"UNREADABLE", "UNSAFE_PATH", "MISSING_FILE"} : Settle(status, "entry")
      BY <1>4, <1>6, <2>2
    <2>3. CASE Goto("exists") /\ UNCHANGED <<lines, results>>
      BY <1>5, <2>3
    <2> QED BY <1>7, <2>1, <2>2, <2>3 DEF CheckEntry
  <1>8. CASE FindFile
    BY <1>4, <1>5, <1>6, <1>8 DEF FindFile
  <1>9. CASE HashFile
    <2>1. entry # Garbled
      BY <1>9 DEF HashFile, JInv, IInv, InOrder
    <2>2. \/ Settle("UNREADABLE", "entry")
          \/ Settle(IF tree[entry.path] = entry.digest THEN "PASS" ELSE "HASH_MISMATCH", "entry")
      BY <1>9 DEF HashFile
    <2> QED BY <1>4, <1>6, <2>1, <2>2
  <1> QED BY <1>7, <1>8, <1>9

LEMMA ConcludeManifestIsAccounted == JInv /\ ConcludeManifest => Accounted'
  <1> SUFFICES ASSUME JInv, ConcludeManifest PROVE Accounted'
    OBVIOUS
  <1> DEFINE statuses == {q.status : q \in results[current]}
  <1>1. current \in Manifest /\ stage # "done" /\ pending # <<>> /\ lines = <<>>
    BY DEF ConcludeManifest, JInv, IInv, TypeOK, InOrder
  <1>2. Entries(current) = listed[current]
    BY <1>1, AllSettled DEF ConcludeManifest
  <1>3. \A q \in results[current] : Fits(current, q)
    BY <1>1 DEF JInv, Accounted, Fitting, Manifest, Report
  <1>4. Aggregate(statuses) \in VerificationStatus
    BY DEF Aggregate, VerificationStatus
  <1>5. ASSUME Aggregate(statuses) # "FAIL"
        PROVE  statuses \cap Failing = {}
    BY <1>5 DEF Aggregate
  <1>6. CASE current = "sums"
    <2>1. ASSUME Aggregate(statuses) # "FAIL"
          PROVE  statuses \subseteq {"PASS"} /\ statuses \cap Incomplete = {}
      BY <1>3, <1>5, <1>6, <2>1 DEF Fits, Incomplete
    <2>2. statuses = {} <=> results[current] = {}
      OBVIOUS
    <2>3. ASSUME Aggregate(statuses) # "FAIL"
          PROVE  Aggregate(statuses) = "PASS" <=> results[current] # {}
      BY <1>5, <2>1, <2>2, <2>3 DEF Aggregate
    <2> QED BY <1>1, <1>2, <1>4, <1>6, <2>1, <2>3, ConcludeIsAccounted
            DEF ConcludeManifest, Supported
  <1>7. CASE current = "sources"
    <2>1. ASSUME Aggregate(statuses) # "FAIL"
          PROVE  Aggregate(statuses) # "PASS"
      <3>1. statuses \subseteq Incomplete
        BY <1>3, <1>5, <1>7, <2>1 DEF Fits, Failing, EntryStatus, Incomplete
      <3>2. statuses \cap Incomplete # {} \/ statuses = {}
        BY <3>1
      <3> QED BY <1>5, <2>1, <3>2 DEF Aggregate
    <2> QED BY <1>1, <1>2, <1>4, <1>7, <2>1, ConcludeIsAccounted DEF ConcludeManifest, Supported
  <1> QED BY <1>1, <1>6, <1>7 DEF Manifest

LEMMA FinishIsAccounted == JInv /\ Finish => Accounted'
  <1> SUFFICES ASSUME JInv, Finish PROVE Accounted'
    OBVIOUS
  <1>1. ExitCode \in {0, 1, 2, 3}
    BY DEF ExitCode
  <1> QED BY <1>1, AbortIsAccounted DEF Finish

LEMMA StepIsAccounted == JInv /\ [Next]_vars => JInv'
  <1> SUFFICES ASSUME JInv, [Next]_vars PROVE JInv'
    OBVIOUS
  <1>1. IInv'
    BY StepPreserves DEF JInv
  <1>2. CASE UNCHANGED vars
    <2>1. UNCHANGED <<Due, Selected, ExitCode, current>>
      BY <1>2 DEF Due, Selected, ExitCode, current, vars, inputs
    <2>2. Queued' /\ Fitting' /\ Backed' /\ Digested'
      BY <1>2, <2>1 DEF JInv, Accounted, Queued, Fitting, Backed, Supported, Entries, Digested,
                        vars, world
    <2>3. Fresh' /\ Counted' /\ Concluded'
      BY <1>2, <2>1 DEF JInv, Accounted, Fresh, Ahead, Counted, Entries, Concluded, vars
    <2> QED BY <1>1, <2>2, <2>3 DEF JInv, Accounted
  <1>3. CASE Next
    BY <1>1, <1>3, EditIsAccounted, BaselineIsAccounted, FindingIsAccounted, RowIsAccounted,
       SumIsAccounted, ConcludeManifestIsAccounted, FinishIsAccounted DEF Next, Verify, JInv
  <1> QED BY <1>2, <1>3

\* When no report failed, they add up to what the exit code promises.
LEMMA ExitKeepsItsWord == JInv => UnfailedMatched
  <1> SUFFICES ASSUME JInv, exit \in {0, 3} PROVE UnfailedMatched
    BY DEF UnfailedMatched
  <1>1. pending = <<>> /\ exit = ExitCode
    BY DEF JInv, Accounted, Concluded
  <1>2. \A r \in Report : reports[r] # Absent <=> r \in Selected
    BY <1>1 DEF JInv, Accounted, Queued, Due, Members
  <1>3. \A r \in Report : reports[r] # "FAIL"
    BY <1>1 DEF ExitCode
  <1>4. ASSUME NEW r \in Report
        PROVE  Entries(r) = listed[r]
    BY <1>2, <1>3, <1>4 DEF JInv, Accounted, Backed, Supported, Fresh, Entries
  <1>5. ASSUME NEW r \in {"sums", "baseline"}, NEW q \in results[r]
        PROVE  q.status = "PASS" /\ q.entry # Garbled
    <2>1. r \in Report /\ r # "sources"
      BY DEF Report
    <2>2. reports[r] # Absent
      BY <1>2, <2>1 DEF JInv, Accounted, Fresh
    <2>3. q.status = "PASS"
      BY <1>3, <2>1, <2>2 DEF JInv, Accounted, Backed, Supported
    <2> QED BY <2>1, <2>3 DEF JInv, Accounted, Fitting, Fits
  <1>6. \A e \in listed["sums"] : e # Garbled /\ <<e.path, e.digest>> \in held
    <2>1. ASSUME NEW e \in listed["sums"]
          PROVE  e # Garbled /\ <<e.path, e.digest>> \in held
      <3>1. PICK q \in results["sums"] : q.entry = e
        BY <1>4 DEF Entries, Report
      <3>2. SumWitnessed(q) /\ q.status = "PASS" /\ e # Garbled
        BY <1>5, <3>1 DEF JInv, IInv, StatusesWitnessed
      <3> QED BY <3>1, <3>2 DEF SumWitnessed
    <2> QED BY <2>1
  <1>7. \A e \in listed["baseline"] : e # Garbled /\ BlobAt(e.path) = e.digest
    <2>1. ASSUME NEW e \in listed["baseline"]
          PROVE  e # Garbled /\ BlobAt(e.path) = e.digest
      <3>1. PICK q \in results["baseline"] : q.entry = e
        BY <1>4 DEF Entries, Report
      <3>2. BlobWitnessed(q) /\ q.status = "PASS" /\ e # Garbled
        BY <1>5, <3>1 DEF JInv, IInv, StatusesWitnessed
      <3> QED BY <3>1, <3>2 DEF BlobWitnessed
    <2> QED BY <2>1
  <1>8. (\E r \in Report : reports[r] = "INCOMPLETE") <=>
            "sources" \in Selected \/ ("sums" \in Selected /\ listed["sums"] = {})
    <2>1. ASSUME NEW r \in Report, r \in Selected
          PROVE  reports[r] = "INCOMPLETE" <=> r = "sources" \/ (r = "sums" /\ results[r] = {})
      <3>1. reports[r] \in {"PASS", "INCOMPLETE"}
        BY <1>2, <1>3, <2>1 DEF JInv, IInv, TypeOK, VerificationStatus
      <3>2. reports[r] = "PASS" <=> (r = "baseline" \/ (r = "sums" /\ results[r] # {}))
        BY <1>2, <1>3, <2>1 DEF JInv, Accounted, Backed, Supported
      <3> QED BY <3>1, <3>2 DEF Report
    <2>2. results["sums"] = {} <=> listed["sums"] = {}
      BY <1>4 DEF Entries, Report
    <2>3. ASSUME NEW r \in Report, r \notin Selected
          PROVE  reports[r] # "INCOMPLETE"
      BY <1>2, <2>3, StatusAssumption DEF VerificationStatus
    <2>4. "sums" \in Report /\ "sources" \in Report
      BY DEF Report
    <2> QED BY <2>1, <2>2, <2>3, <2>4
  <1>9. exit = IF \E r \in Report : reports[r] = "INCOMPLETE"
               THEN IF command.allow_incomplete THEN 0 ELSE 3
               ELSE 0
    BY <1>1, <1>3 DEF ExitCode
  <1>10. \/ exit = 0 /\ command.allow_incomplete
         \/ exit = 0 <=> /\ "sources" \notin Selected
                         /\ "sums" \in Selected => listed["sums"] # {}
    BY <1>8, <1>9
  <1> QED BY <1>2, <1>4, <1>6, <1>7, <1>10 DEF UnfailedMatched, Entries

\* Exit 0 and 3 cover every entry (worst_status, _manifest_exit_code): each
\* selected report was made from all that it lists, and all of it matched,
\* whatever was edited and whatever failed while the verification ran.
THEOREM NothingUnverifiedPasses == Spec => []UnfailedMatched
  <1>1. Init => JInv
    BY Initially, AccountedInitially DEF JInv
  <1> QED BY <1>1, StepIsAccounted, ExitKeepsItsWord, PTL DEF Spec

-----------------------------------------------------------------------------
(* One edit while the tree is being verified.                              *)

\* T is the tree the verification began with; one edit moves one path.
Since(T) ==
    /\ edits = 0 => tree = T
    /\ edits <= 1 =>
          /\ \E p \in Paths : \A q \in Paths \ {p} : tree[q] = T[q]
          /\ \A q \in Paths, f \in File : <<q, f>> \in held => f \in {T[q], tree[q]}

\* An exit that tells of no mismatch is true of a whole tree: the one the
\* verification began with, or the one it left.
Whole(T) ==
    LET S == listed["sums"] \ {Garbled}
    IN  /\ exit \in {0, 3} /\ edits <= 1
        /\ \A e, f \in S : e.path = f.path => e.digest = f.digest
        => \/ \A e \in S : T[e.path] = e.digest
           \/ \A e \in S : tree[e.path] = e.digest

LEMMA SinceInitially ==
    ASSUME NEW T, Init, tree = T, TypeOK
    PROVE  Since(T)
  <1>1. TDD \in Paths
    BY BodiesAssumption
  <1>2. \A q \in Paths, f \in File : <<q, f>> \in held => f = tree[q]
    BY DEF Init
  <1> QED BY <1>1, <1>2 DEF Since

LEMMA EditStaysSince ==
    ASSUME NEW T, TypeOK, Since(T), Edit
    PROVE  Since(T)'
  <1>1. edits' = edits + 1 /\ edits \in Nat
    BY EditsAssumption DEF Edit, TypeOK
  <1> SUFFICES ASSUME edits = 0
               PROVE  /\ \E p \in Paths : \A q \in Paths \ {p} : tree'[q] = T[q]
                      /\ \A q \in Paths, f \in File : <<q, f>> \in held' => f \in {T[q], tree'[q]}
    BY <1>1 DEF Since
  <1>2. /\ tree = T /\ tree \in [Paths -> File]
        /\ \A q \in Paths, f \in File : <<q, f>> \in held => f = T[q]
    BY DEF Since, TypeOK
  <1>3. CASE UNCHANGED <<tree, held>>
    BY <1>2, <1>3, BodiesAssumption
  <1>4. CASE \E p \in Paths, f \in File :
               tree' = [tree EXCEPT ![p] = f] /\ held' = held \cup {<<p, f>>}
    <2>1. PICK p \in Paths, f \in File :
             tree' = [tree EXCEPT ![p] = f] /\ held' = held \cup {<<p, f>>}
      BY <1>4
    <2>2. \A q \in Paths : tree'[q] = IF q = p THEN f ELSE T[q]
      BY <1>2, <2>1
    <2>3. ASSUME NEW q \in Paths, NEW g \in File, <<q, g>> \in held'
          PROVE  g \in {T[q], tree'[q]}
      BY <1>2, <2>1, <2>2, <2>3
    <2> QED BY <2>2, <2>3
  <1> QED BY <1>3, <1>4 DEF Edit

LEMMA StepStaysSince ==
    ASSUME NEW T, TypeOK, Since(T), [Next]_vars
    PROVE  Since(T)'
  <1>1. CASE UNCHANGED world
    BY <1>1 DEF world, Since
  <1>2. CASE Verify
    <2>1. UNCHANGED world
      BY <1>2 DEF Verify, ResolveCommit, ReadRecord, VerifyEntry, ConcludeBaseline,
             FindManifest, StatFails, OpenManifest, CheckRow, CheckEntry, FindFile, HashFile,
             ConcludeManifest, Finish
    <2> QED BY <1>1, <2>1
  <1>3. CASE UNCHANGED vars
    BY <1>1, <1>3 DEF vars
  <1> QED BY <1>2, <1>3, EditStaysSince DEF Next

LEMMA SinceIsWhole ==
    ASSUME NEW T, TypeOK, UnfailedMatched, Since(T)
    PROVE  Whole(T)
  <1> DEFINE S == listed["sums"] \ {Garbled}
  <1> SUFFICES ASSUME exit \in {0, 3}, edits <= 1,
                      \A e, f \in S : e.path = f.path => e.digest = f.digest
               PROVE  \/ \A e \in S : T[e.path] = e.digest
                      \/ \A e \in S : tree[e.path] = e.digest
    BY DEF Whole
  <1>1. S \subseteq Entry
    BY DEF TypeOK, Report
  <1>2. \A e \in S : <<e.path, e.digest>> \in held
    BY DEF UnfailedMatched
  <1>3. \A e \in S : e.path \in Paths /\ e.digest \in File
    BY <1>2 DEF TypeOK
  <1>4. \A e \in S : e.digest \in {T[e.path], tree[e.path]}
    BY <1>2, <1>3 DEF Since
  <1>5. PICK p \in Paths : \A q \in Paths \ {p} : tree[q] = T[q]
    BY DEF Since
  <1> HIDE DEF S
  <1>6. CASE \E e \in S : e.path = p /\ e.digest = tree[p]
    <2>1. \A e \in S : e.path = p => e.digest = tree[p]
      BY <1>6
    <2>2. \A e \in S : tree[e.path] = e.digest
      BY <1>3, <1>4, <1>5, <2>1
    <2> QED BY <2>2
  <1>7. CASE ~\E e \in S : e.path = p /\ e.digest = tree[p]
    <2>1. \A e \in S : T[e.path] = e.digest
      BY <1>3, <1>4, <1>5, <1>7
    <2> QED BY <2>1
  <1> QED BY <1>6, <1>7

(***************************************************************************)
(* _check_file reads the files of SHA256SUMS one after another, without a  *)
(* snapshot.  A single edit meanwhile tears no verdict all the same: an    *)
(* exit of 0 or 3 says that every entry matched in the tree that was there *)
(* at first, or that every entry matches in the tree that is there at the  *)
(* end, unless the manifest lists one path with two digests.  The second   *)
(* edit is the one that can bring about a verdict no tree ever deserved.   *)
(***************************************************************************)
THEOREM OneEditTearsNoVerdict ==
    ASSUME NEW T
    PROVE  Spec /\ tree = T => []Whole(T)
  <1> DEFINE Begun == tree = T
  <1>1. Init /\ Begun /\ TypeOK => Since(T)
    BY SinceInitially
  <1>2. TypeOK /\ Since(T) /\ [Next]_vars => Since(T)'
    BY StepStaysSince
  <1>3. TypeOK /\ UnfailedMatched /\ Since(T) => Whole(T)
    BY SinceIsWhole
  <1> HIDE DEF Begun
  <1>4. Spec /\ Begun => []Whole(T)
    BY VerificationTypes, NothingUnverifiedPasses, <1>1, <1>2, <1>3, PTL DEF Spec
  <1> QED BY <1>4 DEF Begun

-----------------------------------------------------------------------------
(***************************************************************************)
(* A verification nobody edits under and nothing fails in.  Of such a one  *)
(* every status says whether the entry is bad, and every report made was   *)
(* not stopped and has the status that its text deserves.                  *)
(***************************************************************************)
Still == edits = 0 /\ ~faulty

TextOf(r) == IF r = "baseline" THEN Append(repo.files, Governor) ELSE manifests[r]

BadRecord(e) ==
    ~ /\ e # Garbled /\ e.path \in Paths /\ e.digest \in Bodies
      /\ repo.blobs[e.path] = e.digest /\ e.bytes \in {Absent, Size[e.digest]}
BadLine(e) ==
    ~(e # Garbled /\ e.path \in Paths /\ e.digest \in Bodies /\ tree[e.path] = e.digest)
Bad(r, e) ==
    \/ r = "baseline" /\ BadRecord(e)
    \/ r = "sums" /\ BadLine(e)
    \/ r = "sources" /\ e.digest = BadDigest

Fails(q) == q.status \notin Incomplete \cup {"PASS"}

Loadable(r) ==
    IF r = "baseline" THEN repo.files \notin {Absent, Unreadable}
    ELSE manifests[r] \notin {Absent, Unreadable, Undecodable}

\* The status that a report deserves.
Earned(r) ==
    IF ~Matches(r) THEN "FAIL"
    ELSE IF r = "sources" \/ (r = "sums" /\ manifests["sums"] = <<>>) THEN "INCOMPLETE" ELSE "PASS"

Judged == \A r \in Report : \A q \in results[r] : Fails(q) <=> Bad(r, q.entry)
Reached ==
    /\ stage = "record" => repo.resolves
    /\ stage = "open" => command.mode = "one" \/ manifests[current] # Absent
    /\ stage \in Running =>
          Stop(current) = 0 /\ Loadable(current) /\ listed[current] = Members(TextOf(current))
    /\ stage \in {"exists", "read"} => tree[entry.path] \in Bodies
Made == \A r \in Report : reports[r] # Absent => Stop(r) = 0 /\ reports[r] = Earned(r)
Ended == stage = "done" => exit = Deserved

StillInv == Judged /\ Reached /\ Made /\ Ended
QInv == JInv /\ (Still => StillInv)

LEMMA NothingMoves ==
    ASSUME UNCHANGED <<world, inputs>>
    PROVE  /\ \A r : Stop(r)' = Stop(r) /\ TextOf(r)' = TextOf(r) /\ Earned(r)' = Earned(r)
           /\ \A r : Loadable(r)' <=> Loadable(r)
           /\ \A r, e : Bad(r, e)' <=> Bad(r, e)
           /\ Deserved' = Deserved
  <1>1. UNCHANGED <<repo, command, tree, manifests>>
    BY DEF world, inputs
  <1>2. \A r : Stop(r)' = Stop(r)
    BY <1>1 DEF Stop
  <1>3. \A r : Matches(r)' <=> Matches(r)
    BY <1>1 DEF Matches, BlobAt
  <1>4. UNCHANGED <<Selected, Gaps>>
    BY <1>1 DEF Selected, Gaps
  <1>5. Stops' = Stops
    BY <1>2, <1>4 DEF Stops
  <1>6. Stop(FirstStop)' = Stop(FirstStop)
    BY <1>1, <1>5 DEF FirstStop, Stop
  <1>7. Deserved' = Deserved
    BY <1>1, <1>3, <1>4, <1>5, <1>6 DEF Deserved
  <1>8. \A r : TextOf(r)' = TextOf(r) /\ (Loadable(r)' <=> Loadable(r))
    BY <1>1 DEF TextOf, Governor, Loadable
  <1>9. \A r : Earned(r)' = Earned(r)
    BY <1>1, <1>3 DEF Earned
  <1>10. \A r, e : Bad(r, e)' <=> Bad(r, e)
    BY <1>1 DEF Bad, BadRecord, BadLine
  <1> QED BY <1>2, <1>7, <1>8, <1>9, <1>10

LEMMA StillBefore ==
    ASSUME Verify, Still', TypeOK
    PROVE  Still /\ UNCHANGED <<world, inputs>> /\ ~Fault
  <1>1. UNCHANGED <<world, inputs>>
    BY DEF Verify, ResolveCommit, ReadRecord, VerifyEntry, ConcludeBaseline, FindManifest,
           StatFails, OpenManifest, CheckRow, CheckEntry, FindFile, HashFile, ConcludeManifest,
           Finish
  <1>2. Sound \/ Fault
    BY DEF Verify, ResolveCommit, ReadRecord, VerifyEntry, ConcludeBaseline, FindManifest,
           StatFails, OpenManifest, CheckRow, CheckEntry, FindFile, HashFile, ConcludeManifest,
           Finish, Sound
  <1>3. ~faulty'
    BY DEF Still
  <1>4. ~Fault
    BY <1>3 DEF Fault
  <1>5. ~faulty
    BY <1>2, <1>3, <1>4 DEF Sound
  <1>6. edits = 0
    BY <1>1 DEF Still, world
  <1> QED BY <1>1, <1>4, <1>5, <1>6 DEF Still

LEMMA AbortStill ==
    ASSUME StillInv, NEW code, Abort(code), code = Deserved,
           UNCHANGED <<world, inputs, results, reports>>
    PROVE  StillInv'
  <1>1. stage' = "done" /\ exit' = code
    BY DEF Abort
  <1>2. Judged' /\ Made'
    BY NothingMoves DEF StillInv, Judged, Made
  <1>3. Reached' /\ Ended'
    BY <1>1, NothingMoves DEF Reached, Ended, Running
  <1> QED BY <1>2, <1>3 DEF StillInv

LEMMA GotoStill ==
    ASSUME StillInv, NEW s \in {"record", "open"} \cup Running, Goto(s), Reached',
           UNCHANGED <<world, inputs, results, reports>>
    PROVE  StillInv'
  <1>1. Judged' /\ Made'
    BY NothingMoves DEF StillInv, Judged, Made
  <1>2. Ended'
    BY DEF Goto, Ended, Running
  <1> QED BY <1>1, <1>2 DEF StillInv

\* The first report that cannot be made decides.
LEMMA StoppedHere ==
    ASSUME JInv, Made, pending # <<>>, Stop(current) # 0
    PROVE  Deserved = Stop(current)
  <1>1. /\ current \in Selected /\ Due \subseteq Selected /\ pending \in Queues
        /\ \A r \in Report : reports[r] # Absent <=> r \in Selected \ Due
    BY CurrentIsDue DEF JInv, Accounted, Queued
  <1>2. Selected \subseteq Report
    BY DEF JInv, IInv, TypeOK, Command, Selected, Report, Manifest
  <1>3. Stops \subseteq Due /\ current \in Stops
    BY <1>1, <1>2 DEF Stops, Made
  <1>4. \/ current = "baseline"
        \/ current = "sums" /\ Due \subseteq {"sums", "sources"}
        \/ current = "sources" /\ Due = {"sources"}
    <2>1. CASE \E r \in Report : pending = <<r>>
      <3>1. PICK r \in Report : pending = <<r>>
        BY <2>1
      <3>2. current = r /\ Due = {r}
        BY <3>1 DEF current, Due, Members
      <3> QED BY <3>2 DEF Report
    <2>2. CASE pending = <<"sums", "sources">>
      <3>1. current = "sums" /\ Due = {"sums", "sources"}
        BY <2>2 DEF current, Due, Members
      <3> QED BY <3>1
    <2>3. CASE pending = <<"baseline", "sums", "sources">>
      BY <2>3 DEF current
    <2> QED BY <1>1, <2>1, <2>2, <2>3 DEF Queues, Report
  <1>5. FirstStop = current
    <2>1. CASE current = "baseline"
      BY <1>3, <2>1 DEF FirstStop
    <2>2. CASE current = "sums" /\ Due \subseteq {"sums", "sources"}
      BY <1>3, <2>2 DEF FirstStop
    <2>3. CASE current = "sources" /\ Due = {"sources"}
      <3>1. Stops = {"sources"}
        BY <1>3, <2>3
      <3> QED BY <2>3, <3>1 DEF FirstStop
    <2> QED BY <1>4, <2>1, <2>2, <2>3
  <1> QED BY <1>3, <1>5 DEF Deserved

\* When all reports were made, their statuses decide.
LEMMA AllMade ==
    ASSUME JInv, Made, pending = <<>>
    PROVE  Deserved = ExitCode
  <1>1. \A r \in Report : reports[r] # Absent <=> r \in Selected
    BY DEF JInv, Accounted, Queued, Due, Members
  <1>2. Selected \subseteq Report
    BY DEF JInv, IInv, TypeOK, Command, Selected, Report, Manifest
  <1>3. \A r \in Selected : Stop(r) = 0 /\ reports[r] = Earned(r)
    BY <1>1, <1>2 DEF Made
  <1>4. Stops = {}
    BY <1>3 DEF Stops
  <1>5. (\E r \in Report : reports[r] = "FAIL") <=> \E r \in Selected : ~Matches(r)
    BY <1>1, <1>2, <1>3, StatusAssumption DEF Earned, VerificationStatus
  <1>6. ASSUME \A r \in Selected : Matches(r)
        PROVE  (\E r \in Report : reports[r] = "INCOMPLETE") <=> Gaps
    BY <1>1, <1>2, <1>3, <1>6, StatusAssumption DEF Earned, VerificationStatus, Gaps, Report
  <1>7. ExitCode = IF \E r \in Report : reports[r] = "FAIL" THEN 1
                   ELSE IF \E r \in Report : reports[r] = "INCOMPLETE"
                   THEN IF command.allow_incomplete THEN 0 ELSE 3
                   ELSE 0
    BY DEF ExitCode
  <1> QED BY <1>4, <1>5, <1>6, <1>7 DEF Deserved

\* What the code does with the entry that is due says whether it is bad.
LEMMA SettleStill ==
    ASSUME JInv, StillInv, stage \in Running, NEW status, NEW s \in {"blob", "entry"},
           Settle(status, s), status \notin Incomplete \cup {"PASS"} <=> Bad(current, entry),
           UNCHANGED <<world, inputs, pending, reports, listed>>
    PROVE  StillInv'
  <1> DEFINE q == [entry |-> entry, status |-> status]
  <1>1. /\ UNCHANGED <<current>> /\ stage' = s
        /\ results' = [results EXCEPT ![current] = results[current] \cup {q}]
    BY DEF current, Goto, Settle
  <1>2. current \in Report
    BY CurrentIsDue DEF JInv, IInv, TypeOK, Running
  <1>3. /\ results'[current] = results[current] \cup {q}
        /\ \A r \in Report \ {current} : results'[r] = results[r]
    BY <1>1, <1>2 DEF JInv, IInv, TypeOK
  <1>4. Fails(q) <=> Bad(current, q.entry)
    BY DEF Fails
  <1> HIDE DEF q
  <1>5. ASSUME NEW r \in Report, NEW p \in results'[r]
        PROVE  Fails(p) <=> Bad(r, p.entry)'
    <2>1. Fails(p) <=> Bad(r, p.entry)
      <3>1. CASE r = current /\ p = q
        BY <1>4, <3>1
      <3>2. CASE ~(r = current /\ p = q)
        <4>1. p \in results[r]
          BY <1>3, <1>5, <3>2
        <4> QED BY <4>1 DEF StillInv, Judged
      <3> QED BY <3>1, <3>2
    <2> QED BY <2>1, NothingMoves
  <1>6. Judged'
    BY <1>5 DEF Judged, Fails
  <1>7. Made'
    BY NothingMoves DEF StillInv, Made
  <1>8. Reached'
    <2>1. Stop(current) = 0 /\ Loadable(current) /\ listed[current] = Members(TextOf(current))
      BY DEF StillInv, Reached
    <2>2. /\ Stop(current)' = 0 /\ Loadable(current)'
          /\ listed'[current'] = Members(TextOf(current)')
      BY <1>1, <2>1, NothingMoves DEF Stop, Loadable, TextOf, world, inputs, Governor
    <2> QED BY <1>1, <2>2 DEF Reached
  <1>9. Ended'
    BY <1>1 DEF Ended
  <1> QED BY <1>6, <1>7, <1>8, <1>9 DEF StillInv

LEMMA ConcludeStill ==
    ASSUME JInv, StillInv, pending # <<>>, NEW status, Conclude(status),
           Stop(current) = 0, status = Earned(current),
           UNCHANGED <<world, inputs, results>>
    PROVE  StillInv'
  <1>1. stage' = "begin" /\ reports' = [reports EXCEPT ![current] = status]
    BY DEF Goto, Conclude
  <1>2. current \in Report
    BY CurrentIsDue
  <1>3. /\ reports'[current] = status
        /\ \A r \in Report \ {current} : reports'[r] = reports[r]
    BY <1>1, <1>2 DEF JInv, IInv, TypeOK
  <1>4. \A r \in Report : reports'[r] # Absent => Stop(r) = 0 /\ reports'[r] = Earned(r)
    BY <1>3 DEF StillInv, Made
  <1>5. Made'
    BY <1>4, NothingMoves DEF Made
  <1>6. Judged'
    BY NothingMoves DEF StillInv, Judged
  <1>7. Reached' /\ Ended'
    BY <1>1 DEF Reached, Ended, Running
  <1> QED BY <1>5, <1>6, <1>7 DEF StillInv

LEMMA LoadStill ==
    ASSUME JInv, StillInv, pending # <<>>, NEW s \in {"blob", "entry"}, Load(TextOf(current), s),
           Stop(current) = 0, Loadable(current),
           UNCHANGED <<world, inputs, pending, results, reports>>
    PROVE  StillInv'
  <1>1. stage' = s /\ UNCHANGED current
    BY DEF Load, Goto, current
  <1>2. current \in Report
    BY CurrentIsDue
  <1>3. listed'[current] = Members(TextOf(current))
    BY <1>2 DEF Load, Members, JInv, IInv, TypeOK
  <1>4. /\ Stop(current)' = 0 /\ Loadable(current)'
        /\ listed'[current'] = Members(TextOf(current)')
    BY <1>1, <1>3 DEF Stop, Loadable, TextOf, world, inputs, Governor
  <1>5. Reached'
    BY <1>1, <1>4 DEF Reached
  <1>6. Judged' /\ Made' /\ Ended'
    BY <1>1, NothingMoves DEF StillInv, Judged, Made, Ended
  <1> QED BY <1>5, <1>6 DEF StillInv

\* What a report is made from decides whether it matches.
LEMMA TextDecides ==
    ASSUME TypeOK, NEW r \in Report, Loadable(r)
    PROVE  /\ TextOf(r) \in Text
           /\ Matches(r) <=>
                 /\ \A e \in Members(TextOf(r)) : ~Bad(r, e)
                 /\ r = "baseline" => ~Ungoverned
  <1>1. CASE r = "baseline"
    <2> DEFINE n == Len(repo.files)
    <2>1. /\ repo \in Repository /\ repo.files \in Text /\ Governor \in Entry
          /\ repo.governing \in Digest
      BY <1>1, BodiesAssumption DEF TypeOK, Repository, Loadable, Governor, Entry
    <2>2. /\ TextOf(r) = Append(repo.files, Governor) /\ TextOf(r) \in Text
          /\ n \in Nat /\ DOMAIN repo.files = 1..n /\ DOMAIN TextOf(r) = 1..(n + 1)
          /\ TextOf(r)[n + 1] = Governor /\ \A i \in 1..n : TextOf(r)[i] = repo.files[i]
      BY <1>1, <2>1 DEF TextOf, Text
    <2>3. Members(TextOf(r)) = Members(repo.files) \cup {Governor}
      <3>1. \A i \in 1..(n + 1) : i = n + 1 \/ i \in 1..n
        BY <2>2
      <3>2. n + 1 \in 1..(n + 1) /\ 1..n \subseteq 1..(n + 1)
        BY <2>2
      <3> HIDE DEF n
      <3> QED BY <2>2, <3>1, <3>2 DEF Members
    <2>4. \A e : Bad(r, e) <=> BadRecord(e)
      BY <1>1 DEF Bad
    <2>5. ~BadRecord(Governor) <=> repo.governing = BlobAt(TDD)
      <3>1. /\ Governor.path = TDD /\ Governor.digest = repo.governing
            /\ Governor.bytes = Absent /\ TDD \in Paths /\ Governor # Garbled
        BY <2>1, BodiesAssumption, TextsAssumption DEF Governor
      <3>2. BlobAt(TDD) = repo.blobs[TDD] /\ repo.blobs[TDD] \in Bodies \cup {Absent}
        BY <2>1, <3>1 DEF BlobAt, Repository
      <3>3. repo.governing \in Bodies \/ repo.governing \notin Bodies \cup {Absent}
        BY <2>1, BodiesAssumption DEF Digest
      <3> QED BY <3>1, <3>2, <3>3 DEF BadRecord
    <2>6. ASSUME ~BadRecord(Governor)
          PROVE  ~Ungoverned <=> (repo.pinned => repo.governing = Governing)
      <3>1. repo.governing \in Bodies
        BY <2>6 DEF BadRecord, Governor
      <3> QED BY <3>1 DEF Ungoverned
    <2>7. Matches(r) <=> /\ repo.pinned => repo.governing = Governing
                         /\ repo.governing = BlobAt(TDD)
                         /\ \A e \in Members(repo.files) : ~BadRecord(e)
      BY <1>1 DEF Matches, BadRecord, Members
    <2> QED BY <1>1, <2>2, <2>3, <2>4, <2>5, <2>6, <2>7
  <1>2. CASE r = "sums"
    <2>1. TextOf(r) = manifests[r] /\ manifests[r] \in Text /\ manifests[r] # Absent
      BY <1>2 DEF TextOf, Loadable, TypeOK, Manifest, ManifestFile
    <2>2. Matches(r) <=> \A e \in Members(manifests[r]) : ~BadLine(e)
      BY <1>2, <2>1 DEF Matches, BadLine, Members
    <2> QED BY <1>2, <2>1, <2>2 DEF Bad
  <1>3. CASE r = "sources"
    <2>1. TextOf(r) = manifests[r] /\ manifests[r] \in Text /\ manifests[r] # Absent
      BY <1>3 DEF TextOf, Loadable, TypeOK, Manifest, ManifestFile
    <2>2. Matches(r) <=> \A e \in Members(manifests[r]) : e.digest # BadDigest
      BY <1>3, <2>1 DEF Matches, Members
    <2> QED BY <1>3, <2>1, <2>2 DEF Bad
  <1> QED BY <1>1, <1>2, <1>3 DEF Report

\* Of a report whose entries are all settled, the statuses say whether it matches.
LEMMA StatusesDecide ==
    ASSUME JInv, StillInv, stage \in {"blob", "entry"}, lines = <<>>
    PROVE  /\ Stop(current) = 0 /\ current \in Report /\ pending # <<>> /\ Loadable(current)
           /\ Matches(current) <=> /\ \A q \in results[current] : ~Fails(q)
                                   /\ current = "baseline" => ~Ungoverned
           /\ results[current] = {} <=> TextOf(current) = <<>>
  <1>1. /\ Stop(current) = 0 /\ Loadable(current) /\ listed[current] = Members(TextOf(current))
        /\ pending # <<>>
    BY DEF StillInv, Reached, Running, JInv, IInv, TypeOK
  <1>2. current \in Report
    BY <1>1, CurrentIsDue
  <1>3. Entries(current) = Members(TextOf(current))
    BY <1>1, AllSettled
  <1>4. (\A e \in Entries(current) : ~Bad(current, e)) <=> \A q \in results[current] : ~Fails(q)
    BY <1>2 DEF StillInv, Judged, Entries
  <1>5. TextOf(current) \in Text
    BY <1>1, <1>2, TextDecides DEF JInv, IInv
  <1>6. Members(TextOf(current)) = {} <=> TextOf(current) = <<>>
    <2>1. CASE TextOf(current) = <<>>
      BY <2>1 DEF Members
    <2>2. CASE TextOf(current) # <<>>
      BY <1>5, <2>2, LinesSplit
    <2> QED BY <2>1, <2>2
  <1>7. results[current] = {} <=> Entries(current) = {}
    BY DEF Entries
  <1> QED BY <1>1, <1>2, <1>3, <1>4, <1>6, <1>7, TextDecides DEF JInv, IInv

-----------------------------------------------------------------------------
(* The steps of a verification that is left alone.                         *)

LEMMA BaselineStill ==
    ASSUME JInv, StillInv, ~Fault, UNCHANGED <<world, inputs>>,
           ResolveCommit \/ ReadRecord \/ VerifyEntry \/ ConcludeBaseline
    PROVE  StillInv'
  <1>1. CASE ResolveCommit
    <2>1. /\ stage = "begin" /\ pending # <<>> /\ current = "baseline"
          /\ UNCHANGED <<world, inputs, pending, lines, results, reports, listed>>
      BY <1>1 DEF ResolveCommit
    <2>2. CASE ~repo.resolves /\ UsageError
      <3>1. Stop(current) = 2
        BY <2>1, <2>2 DEF Stop
      <3>2. Deserved = 2
        BY <2>1, <3>1, StoppedHere DEF StillInv
      <3> QED BY <2>1, <2>2, <3>2, AbortStill DEF UsageError
    <2>3. CASE repo.resolves /\ Goto("record")
      <3>1. Reached'
        BY <2>1, <2>3 DEF Reached, Goto, Running, inputs
      <3> QED BY <2>1, <2>3, <3>1, GotoStill
    <2> QED BY <1>1, <2>2, <2>3 DEF ResolveCommit
  <1>2. CASE ReadRecord
    <2>1. /\ stage = "record" /\ pending # <<>> /\ current = "baseline" /\ repo.resolves
          /\ UNCHANGED <<world, inputs, pending, results, reports>>
      BY <1>2 DEF ReadRecord, JInv, IInv, TypeOK, InOrder, StillInv, Reached
    <2>2. CASE repo.files \in {Absent, Unreadable} /\ UsageError
      <3>1. Stop(current) = 2
        BY <2>1, <2>2 DEF Stop
      <3>2. Deserved = 2
        BY <2>1, <3>1, StoppedHere DEF StillInv
      <3> QED BY <2>1, <2>2, <3>2, AbortStill DEF UsageError
    <2>3. CASE repo.files \notin {Absent, Unreadable} /\ Load(Append(repo.files, Governor), "blob")
      <3>1. Stop(current) = 0 /\ Loadable(current) /\ TextOf(current) = Append(repo.files, Governor)
        BY <2>1, <2>3 DEF Stop, Loadable, TextOf
      <3> QED BY <2>1, <2>3, <3>1, LoadStill
    <2> QED BY <1>2, <2>2, <2>3 DEF ReadRecord
  <1>3. CASE VerifyEntry
    <2>1. /\ stage = "blob" /\ stage \in Running /\ current = "baseline" /\ lines # <<>>
          /\ UNCHANGED <<world, inputs, pending, reports, listed>>
      BY <1>3 DEF VerifyEntry, Running, JInv, IInv, InOrder
    <2>2. Settle(BlobStatusOf(entry), "blob")
      BY <1>3 DEF VerifyEntry
    <2>3. BlobStatusOf(entry) \notin Incomplete \cup {"PASS"} <=> BadRecord(entry)
      <3>1. /\ repo \in Repository /\ Size \in [Bodies -> Nat] /\ Absent \notin Bodies
            /\ NoDigest \notin Bodies /\ BadDigest \notin Bodies
        BY BodiesAssumption DEF JInv, IInv, TypeOK
      <3>2. entry = Garbled \/ entry \in Entry
        BY <2>1, HeadAndTail DEF JInv, IInv, TypeOK, Text, entry
      <3>3. entry # Garbled => entry.digest \in Bodies \cup {NoDigest, BadDigest}
        BY <3>2 DEF Entry, Digest
      <3>4. CASE MalformedRecord(entry)
        BY <3>1, <3>4 DEF BlobStatusOf, BadRecord, MalformedRecord, Incomplete
      <3>5. CASE ~MalformedRecord(entry)
        <4>1. entry # Garbled /\ entry.digest \in Bodies
          BY <3>3, <3>5 DEF MalformedRecord
        <4>2. CASE BlobAt(entry.path) = Absent
          BY <3>1, <3>5, <4>1, <4>2 DEF BlobStatusOf, BadRecord, BlobAt, Incomplete
        <4>3. CASE BlobAt(entry.path) # Absent
          <5>1. entry.path \in Paths /\ BlobAt(entry.path) = repo.blobs[entry.path]
            BY <4>3 DEF BlobAt
          <5>2. BlobStatusOf(entry) =
                   IF entry.bytes \notin {Absent, Size[repo.blobs[entry.path]]} THEN "SIZE_MISMATCH"
                   ELSE IF repo.blobs[entry.path] = entry.digest THEN "PASS" ELSE "HASH_MISMATCH"
            BY <3>5, <4>3, <5>1 DEF BlobStatusOf
          <5> QED BY <4>1, <5>1, <5>2 DEF BadRecord, Incomplete
        <4> QED BY <4>2, <4>3
      <3> QED BY <3>4, <3>5
    <2>4. BlobStatusOf(entry) \notin Incomplete \cup {"PASS"} <=> Bad(current, entry)
      BY <2>1, <2>3 DEF Bad
    <2> QED BY <2>1, <2>2, <2>4, SettleStill
  <1>4. CASE ConcludeBaseline
    <2> DEFINE failing == Ungoverned \/ \E q \in results["baseline"] : q.status # "PASS"
    <2>1. /\ stage = "blob" /\ lines = <<>> /\ current = "baseline"
          /\ UNCHANGED <<world, inputs, lines, results, listed>>
          /\ Conclude(IF failing THEN "FAIL" ELSE "PASS")
      BY <1>4 DEF ConcludeBaseline, JInv, IInv, InOrder
    <2>2. /\ Stop(current) = 0 /\ current \in Report /\ pending # <<>>
          /\ Matches(current) <=> /\ \A q \in results[current] : ~Fails(q)
                                  /\ current = "baseline" => ~Ungoverned
      BY <2>1, StatusesDecide
    <2>3. \A q \in results["baseline"] : Fails(q) <=> q.status # "PASS"
      <3>1. \A q \in results["baseline"] : q.status \notin Incomplete
        BY DEF JInv, Accounted, Fitting, Fits, Report
      <3> QED BY <3>1 DEF Fails
    <2>4. Matches(current) <=> ~failing
      BY <2>1, <2>2, <2>3
    <2>5. (IF failing THEN "FAIL" ELSE "PASS") = Earned(current)
      BY <2>1, <2>4 DEF Earned
    <2> HIDE DEF failing
    <2> QED BY <2>1, <2>2, <2>5, ConcludeStill
  <1> QED BY <1>1, <1>2, <1>3, <1>4

\* verify_all and verify_manifest
LEMMA FindingStill ==
    ASSUME JInv, StillInv, ~Fault, UNCHANGED <<world, inputs>>,
           FindManifest \/ StatFails \/ OpenManifest
    PROVE  StillInv'
  <1>1. CASE FindManifest
    <2>1. /\ stage = "begin" /\ pending # <<>> /\ current \in Manifest
          /\ UNCHANGED <<world, inputs, lines, results, listed>>
      BY <1>1 DEF FindManifest
    <2>2. CASE command.mode = "all" /\ manifests[current] = Absent /\ Conclude("FAIL")
      <3>1. Stop(current) = 0
        BY <2>1, <2>2, TextsAssumption DEF Stop, Manifest
      <3>2. ~Matches(current)
        BY <2>1, <2>2 DEF Matches, Manifest
      <3>3. "FAIL" = Earned(current)
        BY <3>2 DEF Earned
      <3> QED BY <2>1, <2>2, <3>1, <3>3, ConcludeStill
    <2>3. CASE /\ command.mode = "one" \/ manifests[current] # Absent
               /\ Goto("open") /\ UNCHANGED <<reports, pending>>
      <3>1. UNCHANGED <<current, command, manifests>>
        BY <2>1, <2>3 DEF current, inputs, world
      <3>2. Reached'
        BY <2>3, <3>1 DEF Reached, Goto, Running
      <3> QED BY <2>1, <2>3, <3>2, GotoStill
    <2> QED BY <1>1, <2>2, <2>3 DEF FindManifest
  <1>2. CASE StatFails
    BY <1>2 DEF StatFails
  <1>3. CASE OpenManifest
    <2>1. /\ stage = "open" /\ pending # <<>> /\ current \in Manifest /\ current # "baseline"
          /\ command.mode = "one" \/ manifests[current] # Absent
          /\ UNCHANGED <<world, inputs, pending, results, reports>>
      BY <1>3 DEF OpenManifest, JInv, IInv, TypeOK, InOrder, StillInv, Reached, Manifest
    <2>2. ASSUME NEW code \in {1, 2}, Abort(code), Stop(current) = code
          PROVE  StillInv'
      <3>1. Deserved = code
        BY <2>1, <2>2, StoppedHere DEF StillInv
      <3> QED BY <2>1, <2>2, <3>1, AbortStill
    <2>3. CASE /\ \/ command.mode = "one" /\ ~command.known
                  \/ manifests[current] \in {Absent, Unreadable}
               /\ UsageError
      <3>1. Stop(current) = 2
        BY <2>1, <2>3, TextsAssumption DEF Stop
      <3> QED BY <2>2, <2>3, <3>1 DEF UsageError
    <2>4. CASE /\ command.mode = "one" => command.known
               /\ manifests[current] = Undecodable /\ Abort(1)
      <3>1. Stop(current) = 1
        BY <2>1, <2>4, TextsAssumption DEF Stop
      <3> QED BY <2>2, <2>4, <3>1
    <2>5. CASE /\ command.mode = "one" => command.known
               /\ manifests[current] \notin {Absent, Unreadable, Undecodable}
               /\ Load(manifests[current], "entry")
      <3>1. Stop(current) = 0 /\ Loadable(current) /\ TextOf(current) = manifests[current]
        BY <2>1, <2>5 DEF Stop, Loadable, TextOf
      <3> QED BY <2>1, <2>5, <3>1, LoadStill
    <2> QED BY <1>3, <2>3, <2>4, <2>5 DEF OpenManifest
  <1> QED BY <1>1, <1>2, <1>3

\* verify_source_manifest
LEMMA RowStill ==
    ASSUME JInv, StillInv, CheckRow
    PROVE  StillInv'
  <1>1. /\ stage \in Running /\ current = "sources" /\ Settle(RowStatus(entry), "entry")
        /\ UNCHANGED <<world, inputs, pending, reports, listed>>
    BY DEF CheckRow, Running
  <1>2. RowStatus(entry) \notin Incomplete \cup {"PASS"} <=> entry.digest = BadDigest
    BY BodiesAssumption DEF RowStatus, Incomplete
  <1>3. RowStatus(entry) \notin Incomplete \cup {"PASS"} <=> Bad(current, entry)
    BY <1>1, <1>2 DEF Bad
  <1> QED BY <1>1, <1>3, SettleStill

\* _check_file and hash_file: in a tree that holds still, the second look at a
\* file finds what the first one found.
LEMMA SumStill ==
    ASSUME JInv, StillInv, ~Fault, CheckEntry \/ FindFile \/ HashFile
    PROVE  StillInv'
  <1>1. /\ stage \in {"entry", "exists", "read"} /\ stage \in Running
        /\ current = "sums" /\ lines # <<>>
    BY DEF CheckEntry, FindFile, HashFile, Running, JInv, IInv, InOrder, TypeOK
  <1>2. UNCHANGED <<world, inputs, pending, reports, listed>>
    BY DEF CheckEntry, FindFile, HashFile
  <1>3. HasDigest(entry) /\ entry \in Entry \cup {Garbled}
    <2>1. entry \in Members(lines)
      BY <1>1, LinesSplit DEF JInv, IInv, TypeOK, entry
    <2>2. Members(lines) \subseteq listed["sums"]
      BY <1>1 DEF JInv, Accounted, Counted
    <2> QED BY <1>1, <2>1, <2>2, EntryDue DEF JInv, IInv, Accounted, Digested
  <1>4. entry # Garbled => /\ entry.path \in Paths \cup Refused /\ entry.digest # NoDigest
                           /\ Unsafe(entry) <=> entry.path \notin Paths
    BY <1>3, BodiesAssumption DEF Entry, HasDigest, Unsafe
  <1>5. {"UNREADABLE", "UNSAFE_PATH", "MALFORMED_HASH", "MISSING_FILE", "HASH_MISMATCH"}
            \cap (Incomplete \cup {"PASS"}) = {}
    BY DEF Incomplete
  <1>6. ASSUME NEW status, Settle(status, "entry"),
               status \notin Incomplete \cup {"PASS"} <=> BadLine(entry)
        PROVE  StillInv'
    <2>1. status \notin Incomplete \cup {"PASS"} <=> Bad(current, entry)
      BY <1>1, <1>6 DEF Bad
    <2> QED BY <1>1, <1>2, <1>6, <2>1, SettleStill
  <1>7. ASSUME NEW s \in {"exists", "read"}, Goto(s), UNCHANGED <<lines, results>>,
               tree[entry.path] \in Bodies
        PROVE  StillInv'
    <2>1. /\ Stop(current) = 0 /\ Loadable(current) /\ listed[current] = Members(TextOf(current))
      BY <1>1 DEF StillInv, Reached
    <2>2. UNCHANGED <<current, entry, tree, listed>> /\ stage' = s
      BY <1>2, <1>7 DEF current, entry, world, Goto
    <2>3. /\ Stop(current)' = 0 /\ Loadable(current)'
          /\ listed'[current'] = Members(TextOf(current)')
      BY <1>2, <2>1, <2>2 DEF Stop, Loadable, TextOf, world, inputs, Governor
    <2>4. Reached'
      BY <1>7, <2>2, <2>3 DEF Reached
    <2> QED BY <1>2, <1>7, <2>4, GotoStill DEF Running
  <1>8. CASE CheckEntry
    <2>1. CASE entry = Garbled /\ Settle("UNREADABLE", "entry")
      BY <1>5, <1>6, <2>1 DEF BadLine
    <2>2. CASE Unsafe(entry) /\ Settle("UNSAFE_PATH", "entry")
      BY <1>4, <1>5, <1>6, <2>2 DEF BadLine, Unsafe
    <2>3. CASE /\ entry # Garbled /\ ~Unsafe(entry) /\ entry.digest \notin Bodies
               /\ Settle(IF entry.digest = NoDigest THEN "MISSING_HASH" ELSE "MALFORMED_HASH", "entry")
      BY <1>4, <1>5, <1>6, <2>3 DEF BadLine
    <2>4. CASE tree[entry.path] = Absent /\ Settle("MISSING_FILE", "entry") /\ entry.digest \in Bodies
      BY <1>5, <1>6, <2>4, BodiesAssumption DEF BadLine
    <2>5. CASE tree[entry.path] = Obstacle /\ Settle("UNREADABLE", "entry") /\ entry.digest \in Bodies
      BY <1>5, <1>6, <2>5, BodiesAssumption DEF BadLine
    <2>6. CASE tree[entry.path] \in Bodies /\ Goto("exists") /\ UNCHANGED <<lines, results>>
      BY <1>7, <2>6
    <2> QED BY <1>8, <2>1, <2>2, <2>3, <2>4, <2>5, <2>6 DEF CheckEntry
  <1>9. ASSUME stage \in {"exists", "read"}
        PROVE  /\ tree[entry.path] \in Bodies /\ tree[entry.path] \notin {Absent, Obstacle}
               /\ BadLine(entry) <=> tree[entry.path] # entry.digest
    <2>1. /\ entry # Garbled /\ entry.path \in Paths /\ entry.digest \in Bodies
          /\ tree[entry.path] \in Bodies
      BY <1>9 DEF JInv, IInv, InOrder, StillInv, Reached
    <2> QED BY <2>1, BodiesAssumption DEF BadLine
  <1>10. CASE FindFile
    <2>1. Goto("read") /\ UNCHANGED <<lines, results>> /\ tree[entry.path] \in Bodies
      BY <1>9, <1>10 DEF FindFile
    <2> QED BY <1>7, <2>1
  <1>11. CASE HashFile
    <2>1. /\ Settle(IF tree[entry.path] = entry.digest THEN "PASS" ELSE "HASH_MISMATCH", "entry")
          /\ BadLine(entry) <=> tree[entry.path] # entry.digest
      BY <1>9, <1>11 DEF HashFile
    <2> QED BY <1>5, <1>6, <2>1
  <1> QED BY <1>8, <1>10, <1>11

\* _aggregate
LEMMA ConcludeManifestStill ==
    ASSUME JInv, StillInv, ConcludeManifest
    PROVE  StillInv'
  <1> DEFINE statuses == {q.status : q \in results[current]}
  <1>1. /\ stage = "entry" /\ lines = <<>> /\ current \in Manifest
        /\ Conclude(Aggregate(statuses)) /\ UNCHANGED <<world, inputs, lines, results, listed>>
    BY DEF ConcludeManifest, JInv, IInv, InOrder
  <1>2. /\ Stop(current) = 0 /\ current \in Report /\ pending # <<>>
        /\ Matches(current) <=> \A q \in results[current] : ~Fails(q)
        /\ results[current] = {} <=> manifests[current] = <<>>
    BY <1>1, StatusesDecide DEF TextOf, Manifest
  <1>3. \A q \in results[current] : q \in Result /\ Fits(current, q)
    BY <1>2 DEF JInv, IInv, TypeOK, Accounted, Fitting
  <1>4. \A q \in results[current] : Fails(q) <=> q.status \in Failing
    BY <1>1, <1>3 DEF Fits, Fails, Failing, EntryStatus, Incomplete, Manifest
  <1>5. Matches(current) <=> statuses \cap Failing = {}
    BY <1>2, <1>4
  <1>6. statuses = {} <=> results[current] = {}
    OBVIOUS
  <1>7. CASE current = "sums"
    <2>1. statuses \cap Incomplete = {}
      BY <1>3, <1>7 DEF Fits, Failing, Incomplete
    <2> QED BY <1>1, <1>2, <1>5, <1>6, <1>7, <2>1, ConcludeStill DEF Earned, Aggregate
  <1>8. CASE current = "sources"
    <2>1. Matches(current) => statuses \cap Incomplete # {} \/ statuses = {}
      BY <1>3, <1>5, <1>8 DEF Fits, Failing, EntryStatus, Incomplete
    <2>2. Aggregate(statuses) = Earned(current)
      BY <1>5, <1>8, <2>1 DEF Earned, Aggregate
    <2> HIDE DEF statuses
    <2> QED BY <1>1, <1>2, <2>2, ConcludeStill
  <1> QED BY <1>1, <1>7, <1>8 DEF Manifest

LEMMA FinishStill ==
    ASSUME JInv, StillInv, Finish
    PROVE  StillInv'
  <1>1. ExitCode = Deserved
    BY AllMade DEF Finish, StillInv
  <1> QED BY <1>1, AbortStill DEF Finish

LEMMA StepIsStill == QInv /\ [Next]_vars => QInv'
  <1> SUFFICES ASSUME QInv, [Next]_vars PROVE QInv'
    OBVIOUS
  <1>1. JInv /\ JInv'
    BY StepIsAccounted DEF QInv
  <1>2. CASE UNCHANGED vars
    <2>1. UNCHANGED <<world, inputs, stage, exit, results, reports, lines, listed, pending, faulty>>
      BY <1>2 DEF vars
    <2>2. UNCHANGED <<current, entry, tree, repo, command, manifests, edits>>
      BY <2>1 DEF current, entry, world, inputs
    <2>3. ASSUME StillInv
          PROVE  StillInv'
      <3>1. Judged' /\ Made' /\ Ended'
        BY <2>1, <2>3, NothingMoves DEF StillInv, Judged, Made, Ended
      <3>2. Reached'
        BY <2>1, <2>2, <2>3 DEF StillInv, Reached, Stop, Loadable, TextOf, Governor
      <3> QED BY <3>1, <3>2 DEF StillInv
    <2>4. Still' => Still
      BY <2>1, <2>2 DEF Still
    <2> QED BY <1>1, <2>3, <2>4 DEF QInv
  <1>3. CASE Edit
    <2>1. edits' # 0
      BY <1>1, <1>3, EditsAssumption DEF Edit, JInv, IInv, TypeOK
    <2> QED BY <1>1, <2>1 DEF QInv, Still
  <1>4. CASE Verify
    <2>1. ASSUME Still'
          PROVE  StillInv'
      <3>1. Still /\ UNCHANGED <<world, inputs>> /\ ~Fault
        BY <1>1, <1>4, <2>1, StillBefore DEF JInv, IInv
      <3>2. StillInv
        BY <3>1 DEF QInv
      <3> QED BY <1>1, <1>4, <3>1, <3>2, BaselineStill, FindingStill, RowStill, SumStill,
                 ConcludeManifestStill, FinishStill DEF Verify
    <2> QED BY <1>1, <2>1 DEF QInv
  <1> QED BY <1>2, <1>3, <1>4 DEF Next

\* With nobody editing and nothing failing, the exit code is the one the world
\* deserves (_command_verify_manifest, verify_all): the first report that
\* cannot be made decides, then any mismatch, then any gap in the evidence.
THEOREM StillWorldGetsItsVerdict == Spec => []QuietVerdict
  <1>1. Init => QInv
    <2> SUFFICES ASSUME Init PROVE QInv
      OBVIOUS
    <2>1. JInv
      BY Initially, AccountedInitially DEF JInv
    <2>2. /\ stage = "begin"
          /\ \A r \in Report : results[r] = {} /\ reports[r] = Absent
      BY DEF Init
    <2>3. Judged /\ Reached /\ Made /\ Ended
      BY <2>2 DEF Judged, Reached, Made, Ended, Running
    <2> QED BY <2>1, <2>3 DEF QInv, StillInv
  <1>2. QInv => QuietVerdict
    BY DEF QInv, Still, StillInv, Ended, QuietVerdict
  <1> QED BY <1>1, <1>2, StepIsStill, PTL DEF Spec

-----------------------------------------------------------------------------
(***************************************************************************)
(* A verification cannot go on for ever.  What it still has to do is a     *)
(* number: three steps for each line that is left and for each report.     *)
(***************************************************************************)
LinesOf(r) == IF Loadable(r) THEN Len(TextOf(r)) ELSE 0
Cost(r) == 3 * LinesOf(r) + 3

\* Of a report that waits, all of it; of the present one, what is left.
Waiting(r) == IF r \in Due /\ (stage = "begin" \/ r # current) THEN Cost(r) ELSE 0
Present ==
    CASE stage \in {"record", "open"} -> Cost(current) - 1
      [] stage \in {"blob", "entry"} -> 3 * Len(lines) + 1
      [] stage = "exists" -> 3 * Len(lines)
      [] stage = "read" -> 3 * Len(lines) - 1
      [] OTHER -> 0

Work ==
    IF stage = "done" THEN 0
    ELSE 1 + Present + Waiting("baseline") + Waiting("sums") + Waiting("sources")

LEMMA LinesAreCounted ==
    ASSUME TypeOK, NEW r \in Report
    PROVE  LinesOf(r) \in Nat /\ Cost(r) \in Nat /\ Cost(r) >= 3
  <1>1. CASE r = "baseline"
    <2>1. Governor \in Entry \cup {Garbled} /\ repo.files \in Text \cup {Absent, Unreadable}
      BY <1>1, BodiesAssumption DEF TypeOK, Repository, Governor, Entry
    <2>2. Loadable(r) => TextOf(r) \in Seq(Entry \cup {Garbled})
      BY <1>1, <2>1 DEF Loadable, TextOf, Text
    <2> QED BY <2>2 DEF LinesOf, Cost
  <1>2. CASE r # "baseline"
    <2>1. r \in Manifest
      BY <1>2 DEF Report, Manifest
    <2>2. Loadable(r) => TextOf(r) \in Seq(Entry \cup {Garbled})
      BY <1>2, <2>1 DEF Loadable, TextOf, TypeOK, ManifestFile, Text
    <2> QED BY <2>2 DEF LinesOf, Cost
  <1> QED BY <1>1, <1>2

WorkCounted ==
    /\ \A r \in Report : LinesOf(r) \in Nat /\ Cost(r) \in Nat /\ Waiting(r) \in Nat
    /\ Present \in Nat /\ Work \in Nat
    /\ stage # "done" => Work >= 1
    /\ stage \notin {"begin", "done"} => Present >= 1

LEMMA WorkIsCounted ==
    ASSUME JInv
    PROVE  WorkCounted
  <1>0. TypeOK
    BY DEF JInv, IInv
  <1>1. \A r \in Report : Waiting(r) \in Nat
    BY <1>0, LinesAreCounted DEF Waiting
  <1>2. Len(lines) \in Nat /\ (stage \in {"exists", "read"} => Len(lines) >= 1)
    BY <1>0 DEF TypeOK, Text
  <1>3. stage \notin {"begin", "done"} => current \in Report
    BY <1>0, CurrentIsDue DEF TypeOK
  <1>4. Present \in Nat /\ (stage \notin {"begin", "done"} => Present >= 1)
    BY <1>0, <1>2, <1>3, LinesAreCounted DEF Present, TypeOK
  <1> QED BY <1>0, <1>1, <1>4, LinesAreCounted DEF WorkCounted, Work, Report

LEMMA WorkIsCountedNext == JInv' => WorkCounted'
  BY WorkIsCounted, PTL

LEMMA AbortShortens ==
    ASSUME JInv, stage # "done", NEW code, Abort(code)
    PROVE  Work' < Work
  BY WorkIsCounted DEF WorkCounted, Work, Abort

\* A step within a report.
LEMMA WithinShortens ==
    ASSUME JInv, JInv', stage \notin {"begin", "done"}, stage' \notin {"begin", "done"},
           UNCHANGED <<world, inputs, pending>>, Present' < Present
    PROVE  Work' < Work
  <1>1. current' = current /\ Due' = Due
    BY DEF current, Due
  <1>2. \A r \in Report : Cost(r)' = Cost(r)
    BY NothingMoves DEF Cost, LinesOf
  <1>3. \A r \in Report : Waiting(r)' = Waiting(r)
    BY <1>1, <1>2 DEF Waiting
  <1>4. \A r \in Report : Waiting(r) \in Nat
    BY WorkIsCounted, WorkIsCountedNext DEF WorkCounted
  <1>5. Present \in Nat /\ Present' \in Nat
    BY WorkIsCounted, WorkIsCountedNext DEF WorkCounted
  <1> QED BY <1>3, <1>4, <1>5 DEF Work, Report

\* One report has less left, the others what they had.
LEMMA OneReportShortens ==
    ASSUME stage # "done", NEW c \in Report, Present \in Nat, Present' \in Nat,
           \A r \in Report : Waiting(r) \in Nat,
           \A r \in Report \ {c} : Waiting(r)' = Waiting(r),
           Waiting(c)' \in Nat, Present' + Waiting(c)' < Present + Waiting(c)
    PROVE  Work' < Work
  <1> DEFINE a == Waiting("baseline")
             b == Waiting("sums")
             d == Waiting("sources")
             p == Present
             e == Waiting("baseline")'
             f == Waiting("sums")'
             g == Waiting("sources")'
             q == Present'
             before == Work
             after == Work'
  <1>1. before = 1 + p + a + b + d /\ (after = 0 \/ after = 1 + q + e + f + g)
    BY DEF Work
  <1>2. a \in Nat /\ b \in Nat /\ d \in Nat /\ p \in Nat /\ q \in Nat
    BY DEF Report
  <1>3. \/ f = b /\ g = d /\ e \in Nat /\ q + e < p + a
        \/ e = a /\ g = d /\ f \in Nat /\ q + f < p + b
        \/ e = a /\ f = b /\ g \in Nat /\ q + g < p + d
    <2>1. CASE c = "baseline"
      BY <2>1 DEF Report
    <2>2. CASE c = "sums"
      BY <2>2 DEF Report
    <2>3. CASE c = "sources"
      BY <2>3 DEF Report
    <2> QED BY <2>1, <2>2, <2>3 DEF Report
  <1> HIDE DEF a, b, d, p, e, f, g, q, before, after
  <1>4. after < before
    BY <1>1, <1>2, <1>3
  <1> QED BY <1>4 DEF before, after

\* The next report is begun.
LEMMA BeginningShortens ==
    ASSUME JInv, JInv', stage = "begin", pending # <<>>, stage' \in {"record", "open"},
           UNCHANGED <<world, inputs, pending>>
    PROVE  Work' < Work
  <1>1. current' = current /\ Due' = Due /\ current \in Report /\ current \in Due
    BY CurrentIsDue DEF current, Due
  <1>2. \A r \in Report : Cost(r)' = Cost(r) /\ Cost(r) \in Nat
    BY NothingMoves, LinesAreCounted DEF Cost, LinesOf, JInv, IInv
  <1>3. /\ \A r \in Report \ {current} : Waiting(r)' = Waiting(r)
        /\ Waiting(current)' = 0 /\ Waiting(current) = Cost(current)
    BY <1>1, <1>2 DEF Waiting
  <1>4. Present = 0 /\ Present' = Cost(current) - 1
    BY <1>1, <1>2 DEF Present
  <1>5. \A r \in Report : Waiting(r) \in Nat
    BY WorkIsCounted, WorkIsCountedNext DEF WorkCounted
  <1>6. Present \in Nat /\ Present' \in Nat
    BY WorkIsCounted, WorkIsCountedNext DEF WorkCounted
  <1> PICK c \in Report : c = current
    BY <1>1
  <1> DEFINE n == Cost(c)
  <1>7. /\ Present' = n - 1 /\ Present = 0 /\ Waiting(c)' = 0 /\ Waiting(c) = n /\ n \in Nat
        /\ \A r \in Report \ {c} : Waiting(r)' = Waiting(r)
    BY <1>1, <1>2, <1>3, <1>4
  <1> HIDE DEF n
  <1>8. Waiting(c)' \in Nat /\ Present' + Waiting(c)' < Present + Waiting(c)
    BY <1>7
  <1> QED BY <1>5, <1>6, <1>7, <1>8, OneReportShortens

LEMMA ConclusionShortens ==
    ASSUME JInv, JInv', stage # "done", pending # <<>>, NEW status, Conclude(status),
           UNCHANGED <<world, inputs>>
    PROVE  Work' < Work
  <1>0. PICK c \in Report : c = current
    BY CurrentIsDue
  <1>1. Due' = Due \ {c} /\ c \in Due /\ stage' = "begin"
    BY <1>0, CurrentIsDue DEF Conclude, Goto, Due
  <1>2. \A r \in Report : Cost(r)' = Cost(r) /\ Cost(r) \in Nat /\ Cost(r) >= 3
    BY NothingMoves, LinesAreCounted DEF Cost, LinesOf, JInv, IInv
  <1>3. /\ \A r \in Report \ {c} : Waiting(r)' = Waiting(r)
        /\ Waiting(c)' = 0 /\ Waiting(c) = IF stage = "begin" THEN Cost(c) ELSE 0
    BY <1>0, <1>1, <1>2 DEF Waiting
  <1>4. /\ Present' = 0 /\ Present \in Nat
        /\ stage = "begin" => Present = 0
        /\ stage # "begin" => Present >= 1
    BY <1>1, WorkIsCounted DEF WorkCounted, Present
  <1>5. \A r \in Report : Waiting(r) \in Nat
    BY WorkIsCounted, WorkIsCountedNext DEF WorkCounted
  <1>6. Waiting(c) + Present >= 1
    BY <1>2, <1>3, <1>4
  <1>7. Waiting(c)' \in Nat /\ Present' \in Nat /\ Present' + Waiting(c)' < Present + Waiting(c)
    BY <1>3, <1>4, <1>5, <1>6
  <1> QED BY <1>3, <1>4, <1>5, <1>7, OneReportShortens

LEMMA SettlingShortens ==
    ASSUME JInv, JInv', stage \in {"blob", "entry", "exists", "read"}, lines # <<>>,
           NEW status, NEW s \in {"blob", "entry"}, Settle(status, s),
           UNCHANGED <<world, inputs, pending>>
    PROVE  Work' < Work
  <1>1. lines \in Seq(Entry \cup {Garbled})
    BY DEF JInv, IInv, TypeOK, Text
  <1>2. stage' = s /\ Len(lines') = Len(lines) - 1 /\ Len(lines) \in Nat
    BY <1>1 DEF Settle, Goto
  <1>3. Present' < Present
    BY <1>2 DEF Present
  <1> QED BY <1>2, <1>3, WithinShortens

LEMMA LoadingShortens ==
    ASSUME JInv, JInv', stage \in {"record", "open"}, NEW s \in {"blob", "entry"},
           Loadable(current), Load(TextOf(current), s), UNCHANGED <<world, inputs, pending>>
    PROVE  Work' < Work
  <1>1. current \in Report
    BY CurrentIsDue DEF JInv, IInv, TypeOK
  <1>2. Len(lines') = LinesOf(current) /\ LinesOf(current) \in Nat /\ stage' = s
    BY <1>1, LinesAreCounted DEF Load, LinesOf, Goto, JInv, IInv
  <1>3. Present' < Present
    BY <1>2 DEF Present, Cost
  <1> QED BY <1>2, <1>3, WithinShortens

LEMMA BaselineShortens ==
    ASSUME JInv, JInv', ResolveCommit \/ ReadRecord \/ VerifyEntry \/ ConcludeBaseline
    PROVE  Work' < Work
  <1>1. CASE ResolveCommit
    <2>1. CASE UsageError
      BY <1>1, <2>1, AbortShortens DEF ResolveCommit, UsageError
    <2>2. CASE Goto("record")
      BY <1>1, <2>2, BeginningShortens DEF ResolveCommit, Goto
    <2> QED BY <1>1, <2>1, <2>2 DEF ResolveCommit
  <1>2. CASE ReadRecord
    <2>1. CASE UsageError
      BY <1>2, <2>1, AbortShortens DEF ReadRecord, UsageError
    <2>2. CASE ~UsageError
      <3>1. current = "baseline"
        BY <1>2 DEF ReadRecord, JInv, IInv, InOrder
      <3>2. Loadable(current) /\ Load(TextOf(current), "blob")
        BY <1>2, <2>2, <3>1 DEF ReadRecord, Loadable, TextOf
      <3> QED BY <1>2, <3>2, LoadingShortens DEF ReadRecord
    <2> QED BY <2>1, <2>2
  <1>3. CASE VerifyEntry
    <2>1. CASE UsageError
      BY <1>3, <2>1, AbortShortens DEF VerifyEntry, UsageError
    <2>2. CASE \E status : Settle(status, "blob")
      BY <1>3, <2>2, SettlingShortens DEF VerifyEntry
    <2> QED BY <1>3, <2>1, <2>2 DEF VerifyEntry
  <1>4. CASE ConcludeBaseline
    <2>1. pending # <<>>
      BY <1>4 DEF ConcludeBaseline, JInv, IInv, TypeOK
    <2> QED BY <1>4, <2>1, ConclusionShortens DEF ConcludeBaseline
  <1> QED BY <1>1, <1>2, <1>3, <1>4

LEMMA FindingShortens ==
    ASSUME JInv, JInv', FindManifest \/ StatFails \/ OpenManifest
    PROVE  Work' < Work
  <1>1. CASE FindManifest
    <2>1. CASE Conclude("FAIL")
      BY <1>1, <2>1, ConclusionShortens DEF FindManifest
    <2>2. CASE Goto("open") /\ UNCHANGED pending
      BY <1>1, <2>2, BeginningShortens DEF FindManifest, Goto
    <2> QED BY <1>1, <2>1, <2>2 DEF FindManifest
  <1>2. CASE StatFails
    BY <1>2, AbortShortens DEF StatFails
  <1>3. CASE OpenManifest
    <2>1. CASE \E code : Abort(code)
      BY <1>3, <2>1, AbortShortens DEF OpenManifest
    <2>2. CASE ~\E code : Abort(code)
      <3>1. current \in Manifest
        BY <1>3 DEF OpenManifest, JInv, IInv, InOrder
      <3>2. Loadable(current) /\ Load(TextOf(current), "entry")
        BY <1>3, <2>2, <3>1 DEF OpenManifest, UsageError, Loadable, TextOf, Manifest
      <3> QED BY <1>3, <3>2, LoadingShortens DEF OpenManifest
    <2> QED BY <2>1, <2>2
  <1> QED BY <1>1, <1>2, <1>3

LEMMA CheckingShortens ==
    ASSUME JInv, JInv', CheckRow \/ CheckEntry \/ FindFile \/ HashFile
    PROVE  Work' < Work
  <1>0. /\ stage \in {"entry", "exists", "read"} /\ lines # <<>>
        /\ UNCHANGED <<world, inputs, pending>>
    BY DEF CheckRow, CheckEntry, FindFile, HashFile, JInv, IInv, TypeOK
  <1>1. CASE \E status : Settle(status, "entry")
    BY <1>0, <1>1, SettlingShortens
  <1>2. CASE /\ UNCHANGED lines
             /\ \/ stage = "entry" /\ Goto("exists")
                \/ stage = "exists" /\ Goto("read")
    <2>1. Len(lines) \in Nat /\ Len(lines') = Len(lines) /\ stage' \in {"exists", "read"}
      BY <1>2 DEF JInv, IInv, TypeOK, Text, Goto
    <2>2. Present' < Present
      BY <1>2, <2>1 DEF Present, Goto
    <2> QED BY <1>0, <2>1, <2>2, WithinShortens
  <1> QED BY <1>1, <1>2 DEF CheckRow, CheckEntry, FindFile, HashFile

LEMMA VerifyShortens ==
    ASSUME JInv, JInv', Verify
    PROVE  Work' < Work
  <1>1. CASE ConcludeManifest
    <2>1. pending # <<>>
      BY <1>1 DEF ConcludeManifest, JInv, IInv, TypeOK
    <2> QED BY <1>1, <2>1, ConclusionShortens DEF ConcludeManifest
  <1>2. CASE Finish
    BY <1>2, AbortShortens DEF Finish
  <1> QED BY <1>1, <1>2, BaselineShortens, FindingShortens, CheckingShortens DEF Verify

\* An edit can only take lines away: that of a manifest is its deletion.
LEMMA EditAddsNothing ==
    ASSUME JInv, JInv', Edit
    PROVE  Work' <= Work
  <1>0. TypeOK /\ TypeOK'
    BY DEF JInv, IInv
  <1>1. \A r \in Report : TextOf(r)' = TextOf(r) \/ ~Loadable(r)'
    BY <1>0 DEF Edit, inputs, TextOf, Governor, Loadable, TypeOK, Report, Manifest
  <1>2. \A r \in Report : Loadable(r)' => Loadable(r)
    BY <1>0 DEF Edit, inputs, Loadable, TypeOK, Report, Manifest
  <1>3. ASSUME NEW r \in Report
        PROVE  Cost(r) \in Nat /\ Cost(r)' \in Nat /\ Cost(r)' <= Cost(r)
    <2>1. LinesOf(r) \in Nat /\ LinesOf(r)' \in Nat
      BY WorkIsCounted, WorkIsCountedNext DEF WorkCounted
    <2>2. LinesOf(r)' <= LinesOf(r)
      BY <1>1, <1>2, <2>1 DEF LinesOf
    <2> QED BY <2>1, <2>2 DEF Cost
  <1>4. UNCHANGED <<stage, pending, lines>> /\ current' = current /\ Due' = Due
    BY DEF Edit, current, Due
  <1>5. \A r \in Report :
           Waiting(r) \in Nat /\ Waiting(r)' \in Nat /\ Waiting(r)' <= Waiting(r)
    BY <1>3, <1>4 DEF Waiting
  <1>6. stage \notin {"begin", "done"} => current \in Report
    BY <1>0, CurrentIsDue DEF TypeOK
  <1>7. Present \in Nat /\ Present' \in Nat /\ Present' <= Present
    <2>1. Present \in Nat /\ Present' \in Nat
      BY WorkIsCounted, WorkIsCountedNext DEF WorkCounted
    <2>2. CASE stage \in {"record", "open"}
      <3>1. PICK c \in Report : c = current /\ c = current'
        BY <1>4, <1>6, <2>2
      <3>2. Present = Cost(c) - 1 /\ Present' = Cost(c)' - 1
        BY <1>4, <2>2, <3>1 DEF Present
      <3> QED BY <1>3, <2>1, <3>2
    <2>3. CASE stage \notin {"record", "open"}
      BY <1>4, <2>1, <2>3 DEF Present
    <2> QED BY <2>1, <2>2, <2>3
  <1> QED BY <1>4, <1>5, <1>7 DEF Work, Report

\* Every step of the verification counts, and none of an editor adds to it.
EveryStepCounts ==
    [][(Verify => Work' < Work) /\ Work' <= Work]_vars

(***************************************************************************)
(* _command_verify_manifest: from its start a verification takes at most   *)
(* 1 + 3 * (lines + reports) steps, for the lines of the texts there are   *)
(* then, however the tree is edited under it and whatever fails.  With the *)
(* weak fairness of Verify this is why VerificationEnds.                   *)
(***************************************************************************)
THEOREM VerificationsRunOut == Spec => [](Work \in Nat) /\ EveryStepCounts
  <1>1. Init => JInv
    BY Initially, AccountedInitially DEF JInv
  <1>2. JInv => Work \in Nat
    BY WorkIsCounted, WorkIsCountedNext DEF WorkCounted
  <1>3. ASSUME JInv, JInv', [Next]_vars
        PROVE  (Verify => Work' < Work) /\ Work' <= Work
    <2>1. Verify => Work' < Work
      BY <1>3, VerifyShortens
    <2>2. Work \in Nat /\ Work' \in Nat
      BY <1>3, WorkIsCounted, WorkIsCountedNext DEF WorkCounted
    <2>3. CASE UNCHANGED vars
      <3>1. \A r : Loadable(r)' = Loadable(r) /\ TextOf(r)' = TextOf(r)
        BY <2>3 DEF vars, world, inputs, Loadable, TextOf, Governor
      <3>2. \A r : Cost(r)' = Cost(r)
        BY <3>1 DEF Cost, LinesOf
      <3>3. current' = current /\ Due' = Due
        BY <2>3 DEF vars, current, Due
      <3>4. Work' = Work
        BY <2>3, <3>2, <3>3 DEF vars, Work, Waiting, Present
      <3> QED BY <2>1, <2>2, <3>4
    <2> QED BY <1>3, <2>1, <2>2, <2>3, EditAddsNothing DEF Next
  <1>4. JInv /\ JInv' /\ [Next]_vars => [(Verify => Work' < Work) /\ Work' <= Work]_vars
    BY <1>3
  <1> QED BY <1>1, <1>2, <1>4, StepIsAccounted, PTL DEF Spec, EveryStepCounts

=============================================================================
