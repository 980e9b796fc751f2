------------------------- MODULE CorpusFreezeProofs -------------------------
(***************************************************************************)
(* What holds of every freeze, for any sources, rights matrices and        *)
(* bodies and for any number of starts, failures and kills: files and      *)
(* process stay well formed, bytes stay where they were cleared for, a     *)
(* package that verifies was acquired under the present rights, and a      *)
(* freeze that ends with status 0 has written one that does.               *)
(***************************************************************************)
EXTENDS CorpusFreeze, FiniteSetTheorems, TLAPS, WellFoundedInduction

\* The files and the history are as they were.
Settled == UNCHANGED <<rights, package, acquired>>

LEMMA ExitShape ==
    ASSUME TypeOK, NEW code \in {0, 1, 2, 9}, Exit(code)
    PROVE  /\ freezer' \in Freezer
           /\ freezer'.todo = {} /\ freezer'.phase = "exited"
           /\ freezer'.entries = NoEntries
  <1>1. NoEntries \in Entries
    BY DEF NoEntries, Entries
  <1> QED BY <1>1 DEF TypeOK, Exit, Freezer, Phase

LEMMA ExitUnderWay ==
    ASSUME TypeOK, NEW code \in {0, 1, 2, 9}, Exit(code)
    PROVE  UnderWay' /\ EntriesAcquired(freezer.entries)'
  <1>1. freezer'.todo = {} /\ freezer'.phase = "exited" /\ freezer'.entries = NoEntries
    BY ExitShape
  <1> QED BY <1>1 DEF UnderWay, EntriesAcquired, NoEntries

LEMMA ExitPreserves ==
    ASSUME IInv, NEW code \in {0, 1, 2, 9}, Exit(code), Settled
    PROVE  IInv'
  <1>1. freezer' \in Freezer
    BY ExitShape DEF IInv
  <1>2. UnderWay' /\ EntriesAcquired(freezer.entries)'
    BY ExitUnderWay DEF IInv
  <1>3. TypeOK'
    BY <1>1 DEF IInv, TypeOK, Settled, package
  <1>4. StoredAsCleared'
    BY DEF IInv, StoredAsCleared, Settled, package
  <1>5. (index # Absent => EntriesAcquired(index.entries))'
    BY DEF IInv, EntriesAcquired, Settled, package
  <1> QED BY <1>2, <1>3, <1>4, <1>5 DEF IInv

LEMMA Initially == Init => IInv
  <1> SUFFICES ASSUME Init PROVE IInv
    OBVIOUS
  <1>1. NoEntries \in Entries
    BY DEF NoEntries, Entries
  <1>2. freezer \in Freezer
    BY <1>1, MatricesAssumption DEF Init, Freezer, Phase
  <1>3. TypeOK
    BY <1>2 DEF Init, TypeOK, NoFiles, NoEntries
  <1>4. StoredAsCleared /\ UnderWay /\ EntriesAcquired(freezer.entries)
    BY DEF Init, StoredAsCleared, UnderWay, EntriesAcquired, NoFiles, NoEntries
  <1> QED BY <1>3, <1>4 DEF IInv, Init

LEMMA RevisePreserves == IInv /\ Revise => IInv'
  BY DEF IInv, Revise, TypeOK, StoredAsCleared, UnderWay, EntriesAcquired, package,
         Current, Terms

LEMMA StartPreserves == IInv /\ Start => IInv'
  <1> SUFFICES ASSUME IInv, Start PROVE IInv'
    OBVIOUS
  <1>1. NoEntries \in Entries
    BY DEF NoEntries, Entries
  <1>2. freezer.starts + 1 \in 0..MaxStarts
    BY MatricesAssumption DEF IInv, TypeOK, Start, Freezer
  <1>3. freezer' \in Freezer
    BY <1>1, <1>2 DEF IInv, TypeOK, Start, Freezer, Phase
  <1>4. TypeOK'
    BY <1>3 DEF IInv, TypeOK, Start, package
  <1>5. UnderWay' /\ EntriesAcquired(freezer.entries)'
    BY DEF Start, UnderWay, EntriesAcquired, NoEntries
  <1>6. StoredAsCleared' /\ (index # Absent => EntriesAcquired(index.entries))'
    BY DEF IInv, StoredAsCleared, EntriesAcquired, Start, package
  <1> QED BY <1>4, <1>5, <1>6 DEF IInv

LEMMA ReceivedPreserves ==
    ASSUME IInv, NEW s \in Sources, NEW b \in Bodies, IsNext(s), Received(s, b),
           freezer.phase = "acquire", UNCHANGED <<rights, package>>
    PROVE  IInv'
  <1> DEFINE terms == freezer.snapshot[s]
             q == [source |-> s, target |-> terms.target,
                   disposition |-> terms.disposition, body |-> b]
  <1>1. s \in freezer.todo /\ terms.disposition \in Cleared
    BY DEF IInv, UnderWay, IsNext
  <1>2. terms \in Record
    BY MatricesAssumption DEF IInv, TypeOK, Freezer
  <1>3. q \in Acquisition
    BY <1>1, <1>2 DEF Record, Acquisition
  <1>4. acquired' = acquired \cup {q} /\ SuffixOf[b] = terms.suffix
    BY DEF Received
  <1>5. freezer' \in Freezer
    BY DEF IInv, TypeOK, Received, Freezer, Phase
  <1>6. /\ freezer'.phase = "bytes" /\ freezer'.source = s /\ freezer'.body = b
        /\ freezer'.todo = freezer.todo /\ freezer'.snapshot = freezer.snapshot
        /\ freezer'.entries = freezer.entries
    BY DEF IInv, TypeOK, Received, Freezer
  <1>7. TypeOK'
    BY <1>3, <1>4, <1>5 DEF IInv, TypeOK, package
  <1>8. StoredAsCleared'
    BY <1>4 DEF IInv, StoredAsCleared, package
  <1>9. UnderWay'
    BY <1>1, <1>4, <1>6 DEF IInv, UnderWay, Current, Terms
  <1>10. EntriesAcquired(freezer.entries)' /\ (index # Absent => EntriesAcquired(index.entries))'
    BY <1>4, <1>6 DEF IInv, EntriesAcquired, package
  <1> QED BY <1>7, <1>8, <1>9, <1>10 DEF IInv

LEMMA AcquirePreserves == IInv /\ Acquire => IInv'
  <1> SUFFICES ASSUME IInv, Acquire PROVE IInv'
    OBVIOUS
  <1>1. CASE \E code \in {1, 2} : Exit(code) /\ UNCHANGED acquired
    <2>1. PICK code \in {1, 2} : Exit(code) /\ UNCHANGED acquired
      BY <1>1
    <2>2. Settled
      BY <2>1 DEF Settled, Acquire
    <2> QED BY <2>1, <2>2, ExitPreserves
  <1>2. CASE \E s \in Sources, b \in Bodies : IsNext(s) /\ Received(s, b)
    BY <1>2, ReceivedPreserves DEF Acquire
  <1> QED BY <1>1, <1>2 DEF Acquire

LEMMA StoreBytesPreserves == IInv /\ StoreBytes => IInv'
  <1> SUFFICES ASSUME IInv, StoreBytes PROVE IInv'
    OBVIOUS
  <1>1. CASE Fail /\ UNCHANGED bytes
    <2>1. Settled
      BY <1>1 DEF Settled, StoreBytes, package
    <2> QED BY <1>1, <2>1, ExitPreserves DEF Fail
  <1>2. CASE ~(Fail /\ UNCHANGED bytes)
    <2> DEFINE area == AreaOf(Terms.disposition)
               s == Current
               x == Terms.suffix
               q == [source |-> s, target |-> Terms.target,
                     disposition |-> Terms.disposition, body |-> freezer.body]
    <2>1. /\ freezer.phase = "bytes" /\ Advance("receipt")
          /\ bytes' = [bytes EXCEPT ![area][s][x] = freezer.body]
      BY <1>2 DEF StoreBytes
    <2>2. s \in freezer.todo /\ s \in Sources /\ freezer.body \in Bodies
      BY <2>1 DEF IInv, UnderWay, TypeOK, Freezer
    <2>3. q \in acquired /\ SuffixOf[q.body] = x
      BY <2>1 DEF IInv, UnderWay
    <2>4. Terms \in Record /\ x \in Suffixes /\ area \in Areas
      BY <2>2, MatricesAssumption DEF IInv, TypeOK, Freezer, Terms, Record, AreaOf, Areas
    <2>5. bytes' \in [Areas -> [Sources -> [Suffixes -> Bodies \cup {Absent}]]]
      BY <2>1, <2>2, <2>4 DEF IInv, TypeOK
    <2>6. freezer' \in Freezer
      BY <2>1 DEF IInv, TypeOK, Advance, Freezer, Phase
    <2>7. TypeOK'
      BY <2>5, <2>6 DEF IInv, TypeOK, StoreBytes
    <2>8. StoredAsCleared'
      <3> SUFFICES ASSUME NEW a \in Areas, NEW t \in Sources, NEW y \in Suffixes,
                          bytes'[a][t][y] # Absent
                   PROVE  \E p \in acquired : /\ p.source = t /\ p.body = bytes'[a][t][y]
                                              /\ AreaOf(p.disposition) = a
                                              /\ SuffixOf[p.body] = y
        BY DEF StoredAsCleared, StoreBytes
      <3>1. CASE a = area /\ t = s /\ y = x
        <4>1. bytes'[a][t][y] = freezer.body
          BY <2>1, <2>2, <2>4, <3>1 DEF IInv, TypeOK
        <4> QED BY <2>3, <3>1, <4>1
      <3>2. CASE ~(a = area /\ t = s /\ y = x)
        <4>1. bytes'[a][t][y] = bytes[a][t][y]
          BY <2>1, <2>2, <2>4, <3>2 DEF IInv, TypeOK
        <4> QED BY <4>1 DEF IInv, StoredAsCleared
      <3> QED BY <3>1, <3>2
    <2>9. UnderWay' /\ EntriesAcquired(freezer.entries)'
      BY <2>1 DEF IInv, TypeOK, Freezer, UnderWay, EntriesAcquired, StoreBytes, Advance,
                  Current, Terms
    <2>10. (index # Absent => EntriesAcquired(index.entries))'
      BY DEF IInv, EntriesAcquired, StoreBytes
    <2> QED BY <2>7, <2>8, <2>9, <2>10 DEF IInv
  <1> QED BY <1>1, <1>2

LEMMA StoreReceiptPreserves == IInv /\ StoreReceipt => IInv'
  <1> SUFFICES ASSUME IInv, StoreReceipt PROVE IInv'
    OBVIOUS
  <1>1. CASE Fail /\ UNCHANGED receipts
    <2>1. Settled
      BY <1>1 DEF Settled, StoreReceipt, package
    <2> QED BY <1>1, <2>1, ExitPreserves DEF Fail
  <1>2. CASE ~(Fail /\ UNCHANGED receipts)
    <2> DEFINE s == Current
               e == EntryOf(Terms, freezer.body)
               entries == [freezer.entries EXCEPT ![s] = e]
    <2>1. /\ freezer.phase = "receipt"
          /\ receipts' = [receipts EXCEPT ![s] = [target |-> Terms.target, body |-> freezer.body]]
          /\ freezer' = [freezer EXCEPT
                !.phase = "acquire", !.todo = @ \ {s},
                !.source = Absent, !.body = Absent, !.entries = entries]
      BY <1>2 DEF StoreReceipt
    <2>2. s \in freezer.todo /\ s \in Sources /\ freezer.body \in Bodies
      BY <2>1 DEF IInv, UnderWay, TypeOK, Freezer
    <2>3. Terms \in Record /\ Terms.disposition \in Cleared
      BY <2>2, MatricesAssumption DEF IInv, TypeOK, UnderWay, Freezer, Terms
    <2>4. e \in Entry
      BY <2>2, <2>3 DEF Record, Entry, EntryOf
    <2>5. entries \in Entries
      BY <2>2, <2>4 DEF IInv, TypeOK, Freezer, Entries
    <2>6. freezer' \in Freezer
      BY <2>1, <2>5 DEF IInv, TypeOK, Freezer, Phase
    <2>7. receipts' \in [Sources -> Receipt \cup {Absent}]
      BY <2>1, <2>2, <2>3 DEF IInv, TypeOK, Record, Receipt
    <2>8. TypeOK'
      BY <2>6, <2>7 DEF IInv, TypeOK, StoreReceipt
    <2>9. /\ freezer'.phase = "acquire" /\ freezer'.todo = freezer.todo \ {s}
          /\ freezer'.snapshot = freezer.snapshot /\ freezer'.entries = entries
      BY <2>1 DEF IInv, TypeOK, Freezer
    <2>10. UnderWay'
      BY <2>2, <2>9 DEF IInv, TypeOK, Freezer, Entries, UnderWay
    <2>11. EntriesAcquired(freezer.entries)'
      <3> SUFFICES ASSUME NEW t \in Sources, entries[t] # Absent
                   PROVE  [source |-> t, target |-> entries[t].target,
                           disposition |-> entries[t].disposition,
                           body |-> entries[t].body] \in acquired
        BY <2>9 DEF EntriesAcquired, StoreReceipt
      <3>1. CASE t = s
        <4>1. entries[t] = e
          BY <2>2, <3>1 DEF IInv, TypeOK, Freezer, Entries
        <4>2. /\ e.target = Terms.target /\ e.disposition = Terms.disposition
              /\ e.body = freezer.body
          BY DEF EntryOf
        <4> QED BY <2>1, <3>1, <4>1, <4>2 DEF IInv, UnderWay
      <3>2. CASE t # s
        <4>1. entries[t] = freezer.entries[t]
          BY <2>2, <3>2 DEF IInv, TypeOK, Freezer, Entries
        <4> QED BY <4>1 DEF IInv, EntriesAcquired
      <3> QED BY <3>1, <3>2
    <2>12. StoredAsCleared' /\ (index # Absent => EntriesAcquired(index.entries))'
      BY DEF IInv, StoredAsCleared, EntriesAcquired, StoreReceipt
    <2> QED BY <2>8, <2>10, <2>11, <2>12 DEF IInv
  <1> QED BY <1>1, <1>2

LEMMA SummaryType ==
    ASSUME NEW entries \in Entries, NEW matrix \in Matrices
    PROVE  Summary(entries, matrix) \in Narrative
  BY DEF Summary, Narrative, Having

\* What a step of the freezer that touches only its phase leaves as it was.
LEMMA AdvancePreserves ==
    ASSUME TypeOK, UnderWay, EntriesAcquired(freezer.entries), UNCHANGED acquired,
           NEW to \in Phase \ {"bytes", "receipt"}, Advance(to)
    PROVE  freezer' \in Freezer /\ UnderWay' /\ EntriesAcquired(freezer.entries)'
  <1>1. freezer' \in Freezer
    BY DEF TypeOK, Advance, Freezer
  <1>2. /\ freezer'.phase = to /\ freezer'.todo = freezer.todo
        /\ freezer'.snapshot = freezer.snapshot /\ freezer'.entries = freezer.entries
    BY DEF TypeOK, Advance, Freezer
  <1> QED BY <1>1, <1>2 DEF UnderWay, EntriesAcquired

LEMMA WriteIndexPreserves == IInv /\ WriteIndex => IInv'
  <1> SUFFICES ASSUME IInv, WriteIndex PROVE IInv'
    OBVIOUS
  <1>1. CASE Fail /\ UNCHANGED index
    <2>1. Settled
      BY <1>1 DEF Settled, WriteIndex, package
    <2> QED BY <1>1, <2>1, ExitPreserves DEF Fail
  <1>2. CASE ~(Fail /\ UNCHANGED index)
    <2>1. /\ Advance("record")
          /\ index' = [entries |-> freezer.entries,
                       summary |-> Summary(freezer.entries, freezer.snapshot)]
      BY <1>2 DEF WriteIndex
    <2>2. freezer' \in Freezer /\ UnderWay' /\ EntriesAcquired(freezer.entries)'
      BY <2>1, AdvancePreserves DEF IInv, WriteIndex, Phase
    <2>3. index' \in Index
      BY <2>1, SummaryType DEF IInv, TypeOK, Freezer, Index
    <2>4. TypeOK'
      BY <2>2, <2>3 DEF IInv, TypeOK, WriteIndex
    <2>5. StoredAsCleared' /\ EntriesAcquired(index.entries)'
      BY <2>1 DEF IInv, StoredAsCleared, EntriesAcquired, WriteIndex
    <2> QED BY <2>2, <2>4, <2>5 DEF IInv
  <1> QED BY <1>1, <1>2

LEMMA WriteRecordPreserves == IInv /\ WriteRecord => IInv'
  <1> SUFFICES ASSUME IInv, WriteRecord PROVE IInv'
    OBVIOUS
  <1>1. CASE Fail /\ UNCHANGED narrative
    <2>1. Settled
      BY <1>1 DEF Settled, WriteRecord, package
    <2> QED BY <1>1, <2>1, ExitPreserves DEF Fail
  <1>2. CASE ~(Fail /\ UNCHANGED narrative)
    <2>1. Advance("sha256") /\ narrative' = Summary(freezer.entries, freezer.snapshot)
      BY <1>2 DEF WriteRecord
    <2>2. freezer' \in Freezer /\ UnderWay' /\ EntriesAcquired(freezer.entries)'
      BY <2>1, AdvancePreserves DEF IInv, WriteRecord, Phase
    <2>3. narrative' \in Narrative
      BY <2>1, SummaryType DEF IInv, TypeOK, Freezer
    <2>4. TypeOK'
      BY <2>2, <2>3 DEF IInv, TypeOK, WriteRecord
    <2>5. StoredAsCleared' /\ (index # Absent => EntriesAcquired(index.entries))'
      BY DEF IInv, StoredAsCleared, EntriesAcquired, WriteRecord
    <2> QED BY <2>2, <2>4, <2>5 DEF IInv
  <1> QED BY <1>1, <1>2

LEMMA WriteSumsPreserves ==
    ASSUME IInv, NEW a \in Algorithms, WriteSums(a)
    PROVE  IInv'
  <1>1. CASE Fail /\ UNCHANGED sums
    <2>1. Settled
      BY <1>1 DEF Settled, WriteSums, package
    <2> QED BY <1>1, <2>1, ExitPreserves DEF Fail
  <1>2. CASE ~(Fail /\ UNCHANGED sums)
    <2> DEFINE ledger == [s \in Sources |-> IF freezer.entries[s] = Absent THEN Absent
                                            ELSE LineOf(freezer.entries[s])]
    <2>1. /\ sums' = [sums EXCEPT ![a] = ledger]
          /\ Advance("sha512") \/ Exit(0)
      BY <1>2 DEF WriteSums
    <2>2. freezer' \in Freezer /\ UnderWay' /\ EntriesAcquired(freezer.entries)'
      BY <2>1, AdvancePreserves, ExitShape, ExitUnderWay DEF IInv, WriteSums, Phase
    <2>3. ASSUME NEW e \in Entry PROVE LineOf(e) \in Line
      BY DEF LineOf, Line, Entry
    <2>4. ledger \in Ledger
      BY <2>3 DEF IInv, TypeOK, Freezer, Entries, Ledger
    <2>5. sums' \in [Algorithms -> Ledger \cup {Absent}]
      BY <2>1, <2>4 DEF IInv, TypeOK
    <2>6. TypeOK'
      BY <2>2, <2>5 DEF IInv, TypeOK, WriteSums
    <2>7. StoredAsCleared' /\ (index # Absent => EntriesAcquired(index.entries))'
      BY DEF IInv, StoredAsCleared, EntriesAcquired, WriteSums
    <2> QED BY <2>2, <2>6, <2>7 DEF IInv
  <1> QED BY <1>1, <1>2

LEMMA KillPreserves == IInv /\ Kill => IInv'
  BY ExitPreserves DEF Kill, Settled

LEMMA StutterPreserves == IInv /\ UNCHANGED vars => IInv'
  BY DEF IInv, vars, TypeOK, StoredAsCleared, UnderWay, EntriesAcquired, Current, Terms

LEMMA StepPreserves == IInv /\ [Next]_vars => IInv'
  BY RevisePreserves, StartPreserves, AcquirePreserves, StoreBytesPreserves,
     StoreReceiptPreserves, WriteIndexPreserves, WriteRecordPreserves,
     WriteSumsPreserves, KillPreserves, StutterPreserves DEF Next, Step
-----------------------------------------------------------------------------
(***************************************************************************)
(* Every file the freezer writes, and its process, have their types, for   *)
(* any matrices the owner may publish.                                     *)
(***************************************************************************)
THEOREM FreezeTypes == Spec => []TypeOK
  <1>1. IInv => TypeOK
    BY DEF IInv
  <1> QED BY Initially, StepPreserves, <1>1, PTL DEF Spec

(***************************************************************************)
(* Bytes acquired for internal use are never committed, nor the other way  *)
(* round, however often the rights change under a freeze.                  *)
(***************************************************************************)
THEOREM BytesStayWhereCleared == Spec => []StoredAsCleared
  <1>1. IInv => StoredAsCleared
    BY DEF IInv
  <1> QED BY Initially, StepPreserves, <1>1, PTL DEF Spec

(* Each entry of a package that verifies stands for an acquisition. *)
LEMMA VerifiedIsAcquired == IInv => VerifiedWasAcquired
  <1> SUFFICES ASSUME IInv, Verifies, NEW s \in Sources, rights[s].disposition \in Cleared
               PROVE  [source |-> s, target |-> rights[s].target,
                       disposition |-> rights[s].disposition,
                       body |-> index.entries[s].body] \in acquired
    BY DEF VerifiedWasAcquired
  <1>1. index # Absent /\ index.entries[s] # Absent
    BY DEF Verifies, Coverage
  <1>2. EntryAgrees(s, index.entries[s])
    BY <1>1 DEF Verifies
  <1>3. /\ rights[s].target = index.entries[s].target
        /\ rights[s].disposition = index.entries[s].disposition
    BY <1>2 DEF EntryAgrees
  <1> QED BY <1>1, <1>3 DEF IInv, EntriesAcquired

(***************************************************************************)
(* A package that verifies was acquired, source by source, from the        *)
(* targets and under the dispositions of the rights as they are now.       *)
(***************************************************************************)
THEOREM VerifiedPackageIsAuthorized == Spec => []VerifiedWasAcquired
  BY Initially, StepPreserves, VerifiedIsAcquired, PTL DEF Spec

(***************************************************************************)
(* Every acquisition is one that the rights a freeze started with permit,  *)
(* and is the only one of its source in that freeze.                       *)
(***************************************************************************)
THEOREM OnlyPermittedRequests == Spec => RequestsFollowSnapshot
  <1> DEFINE Permitted ==
        \A q \in acquired' \ acquired :
          /\ freezer.snapshot[q.source].permitted
          /\ freezer.snapshot[q.source].disposition = q.disposition
          /\ freezer.snapshot[q.source].target = q.target
          /\ q.source \in Canonical => q.target # freezer.snapshot[q.source].provenance
          /\ freezer.entries[q.source] = Absent
  <1>1. IInv /\ [Next]_vars => [Permitted]_vars
    <2> SUFFICES ASSUME IInv, Next PROVE Permitted
      BY DEF vars
    <2>1. CASE Acquire
      <3> SUFFICES ASSUME NEW q \in acquired' \ acquired
                   PROVE  /\ freezer.snapshot[q.source].permitted
                          /\ freezer.snapshot[q.source].disposition = q.disposition
                          /\ freezer.snapshot[q.source].target = q.target
                          /\ q.source \in Canonical =>
                                q.target # freezer.snapshot[q.source].provenance
                          /\ freezer.entries[q.source] = Absent
        OBVIOUS
      <3>1. PICK s \in Sources, b \in Bodies :
              /\ IsNext(s) /\ freezer.snapshot[s].permitted
              /\ s \in Canonical =>
                    freezer.snapshot[s].target # freezer.snapshot[s].provenance
              /\ Received(s, b)
        BY <2>1 DEF Acquire
      <3>2. q = [source |-> s, target |-> freezer.snapshot[s].target,
                 disposition |-> freezer.snapshot[s].disposition, body |-> b]
        BY <3>1 DEF Received
      <3>3. freezer.entries[s] = Absent
        BY <3>1 DEF IInv, UnderWay, IsNext
      <3> QED BY <3>1, <3>2, <3>3
    <2>2. CASE ~Acquire
      <3>1. acquired' = acquired
        BY <2>2 DEF Next, Step, Revise, Start, StoreBytes, StoreReceipt, WriteIndex,
                    WriteRecord, WriteSums, Kill
      <3> QED BY <3>1
    <2> QED BY <2>1, <2>2
  <1> QED BY Initially, StepPreserves, <1>1, PTL DEF Spec, RequestsFollowSnapshot

-----------------------------------------------------------------------------
(***************************************************************************)
(* What a freeze has written so far: every entry names the terms of the    *)
(* snapshot, the receipt and the bytes; each file written after them says  *)
(* what the entries say.  Nothing the owner does disturbs that, and once   *)
(* the freeze has ended with status 0 it describes the package.            *)
(***************************************************************************)
Writing == {"acquire", "bytes", "receipt", "record", "sha256", "sha512"}

Kept(s, e) ==
    /\ e.target = freezer.snapshot[s].target
    /\ e.disposition = freezer.snapshot[s].disposition
    /\ e.suffix = freezer.snapshot[s].suffix /\ e.disposition \in Cleared
    /\ receipts[s] = [target |-> e.target, body |-> e.body]
    /\ bytes[AreaOf(e.disposition)][s][e.suffix] = e.body

Frozen(entries) == \A s \in Sources : entries[s] # Absent => Kept(s, entries[s])

Complete(entries, todo) ==
    \A s \in Sources \ todo :
        freezer.snapshot[s].disposition \in Cleared => entries[s] # Absent

LedgerOf(entries) ==
    [s \in Sources |-> IF entries[s] = Absent THEN Absent ELSE LineOf(entries[s])]

IndexOf(entries) == [entries |-> entries, summary |-> Summary(entries, freezer.snapshot)]

Written ==
    /\ freezer.exit # Absent => freezer.phase = "exited"
    /\ freezer.phase \in Writing =>
          Frozen(freezer.entries) /\ Complete(freezer.entries, freezer.todo)
    /\ freezer.phase = "receipt" =>
          bytes[AreaOf(Terms.disposition)][Current][Terms.suffix] = freezer.body
    /\ freezer.phase \in {"record", "sha256", "sha512"} =>
          freezer.todo = {} /\ index = IndexOf(freezer.entries)
    /\ freezer.phase \in {"sha256", "sha512"} => narrative = index.summary
    /\ freezer.phase = "sha512" => sums["sha256"] = LedgerOf(freezer.entries)

Ended ==
    freezer.exit = 0 =>
        /\ index # Absent /\ Frozen(index.entries) /\ Complete(index.entries, {})
        /\ narrative = index.summary
        /\ \A a \in Algorithms : sums[a] = LedgerOf(index.entries)

LEMMA LeastExists ==
    ASSUME NEW T, T \subseteq Nat, T # {}
    PROVE  \E x \in T : \A y \in T : x <= y
  <1>1. PICK x \in T : \A y \in T : ~(<<y, x>> \in OpToRel(<, Nat))
    BY NatLessThanWellFounded, WFMin
  <1>2. ASSUME NEW y \in T PROVE x <= y
    <2>1. <<y, x>> \in Nat \X Nat /\ ~(<<y, x>> \in OpToRel(<, Nat))
      BY <1>1
    <2>2. ~(y < x)
      BY <2>1 DEF OpToRel
    <2>3. x \in Nat /\ y \in Nat
      BY <2>1
    <2> QED BY <2>2, <2>3
  <1> QED BY <1>2

(* A freeze that fails or is killed promises nothing. *)
LEMMA StoppedIsWritten ==
    ASSUME TypeOK, NEW code \in {1, 2, 9}, Exit(code)
    PROVE  Written' /\ Ended'
  <1>1. freezer'.phase = "exited" /\ freezer'.exit = code
    BY DEF TypeOK, Exit, Freezer
  <1>2. code # 0
    OBVIOUS
  <1> QED BY <1>1, <1>2 DEF Written, Ended, Writing

LEMMA WrittenInitially == Init => Written /\ Ended
  BY BodiesAssumption DEF Init, Written, Ended, Writing

(* Both speak of the package and of the freezer only. *)
LEMMA SamePackageWritten ==
    ASSUME UNCHANGED <<package, freezer>>
    PROVE  (Written => Written') /\ (Ended => Ended')
  <1>1. UNCHANGED <<bytes, receipts, index, narrative, sums, freezer>>
    BY DEF package
  <1>2. /\ Frozen(freezer.entries) => Frozen(freezer.entries)'
        /\ Frozen(index.entries) => Frozen(index.entries)'
    BY <1>1 DEF Frozen, Kept
  <1>3. /\ Complete(freezer.entries, freezer.todo) => Complete(freezer.entries, freezer.todo)'
        /\ Complete(index.entries, {}) => Complete(index.entries, {})'
    BY <1>1 DEF Complete
  <1>4. /\ IndexOf(freezer.entries)' = IndexOf(freezer.entries)
        /\ LedgerOf(freezer.entries)' = LedgerOf(freezer.entries)
        /\ LedgerOf(index.entries)' = LedgerOf(index.entries)
    BY <1>1 DEF IndexOf, LedgerOf
  <1>5. Written => Written'
    BY <1>1, <1>2, <1>3, <1>4 DEF Written, Terms, Current
  <1>6. Ended => Ended'
    BY <1>1, <1>2, <1>3, <1>4 DEF Ended
  <1> QED BY <1>5, <1>6

LEMMA ReviseWritten == Written /\ Ended /\ Revise => Written' /\ Ended'
  BY SamePackageWritten DEF Revise

LEMMA StartWritten == IInv /\ Written /\ Start => Written' /\ Ended'
  <1> SUFFICES ASSUME IInv, Written, Start PROVE Written' /\ Ended'
    OBVIOUS
  <1>1. /\ freezer'.phase = "acquire" /\ freezer'.exit = Absent /\ freezer'.snapshot = rights
        /\ freezer'.todo = {s \in Sources : rights[s].disposition \in Cleared}
        /\ freezer'.entries = NoEntries
    BY DEF Start
  <1>2. Frozen(freezer.entries)' /\ Complete(freezer.entries, freezer.todo)'
    BY <1>1 DEF Frozen, Complete, NoEntries
  <1>3. Absent # 0
    BY BodiesAssumption
  <1> QED BY <1>1, <1>2, <1>3 DEF Written, Ended

LEMMA AcquireWritten == IInv /\ Written /\ Acquire => Written' /\ Ended'
  <1> SUFFICES ASSUME IInv, Written, Acquire PROVE Written' /\ Ended'
    OBVIOUS
  <1>1. CASE \E code \in {1, 2} : Exit(code)
    BY <1>1, StoppedIsWritten DEF IInv
  <1>2. CASE \E s \in Sources, b \in Bodies : Received(s, b)
    <2>1. PICK s \in Sources, b \in Bodies : Received(s, b)
      BY <1>2
    <2>2. /\ freezer'.phase = "bytes" /\ freezer'.exit = freezer.exit
          /\ freezer'.snapshot = freezer.snapshot /\ freezer'.todo = freezer.todo
          /\ freezer'.entries = freezer.entries
      BY <2>1 DEF Received, IInv, TypeOK, Freezer
    <2>3. freezer.phase = "acquire" /\ freezer.exit = Absent /\ Absent # 0
      BY BodiesAssumption DEF Acquire, Written
    <2>4. Frozen(freezer.entries)' /\ Complete(freezer.entries, freezer.todo)'
      BY <2>2, <2>3 DEF Acquire, package, Written, Writing, Frozen, Kept, Complete
    <2> QED BY <2>2, <2>3, <2>4 DEF Written, Ended
  <1> QED BY <1>1, <1>2 DEF Acquire

LEMMA StoreBytesWritten == IInv /\ Written /\ StoreBytes => Written' /\ Ended'
  <1> SUFFICES ASSUME IInv, Written, StoreBytes PROVE Written' /\ Ended'
    OBVIOUS
  <1>1. CASE Fail
    BY <1>1, StoppedIsWritten DEF IInv, Fail
  <1>2. CASE ~Fail
    <2> DEFINE area == AreaOf(Terms.disposition)
    <2>1. /\ freezer.phase = "bytes" /\ Advance("receipt")
          /\ bytes' = [bytes EXCEPT ![area][Current][Terms.suffix] = freezer.body]
      BY <1>2 DEF StoreBytes
    <2>2. /\ freezer'.phase = "receipt" /\ freezer'.exit = freezer.exit
          /\ freezer'.snapshot = freezer.snapshot /\ freezer'.todo = freezer.todo
          /\ freezer'.entries = freezer.entries /\ freezer'.source = freezer.source
          /\ freezer'.body = freezer.body
      BY <2>1 DEF Advance, IInv, TypeOK, Freezer
    <2>3. freezer.exit = Absent /\ Absent # 0
      BY <2>1, BodiesAssumption DEF Written
    <2>4. /\ Current \in Sources /\ Current \in freezer.todo
          /\ freezer.entries[Current] = Absent
      BY <2>1 DEF IInv, UnderWay, TypeOK, Freezer
    <2>5. area \in Areas /\ Terms.suffix \in Suffixes
      BY <2>4, MatricesAssumption DEF IInv, TypeOK, Freezer, Terms, Record, AreaOf, Areas
    <2>6. bytes'[area][Current][Terms.suffix] = freezer.body
      BY <2>1, <2>4, <2>5 DEF IInv, TypeOK
    <2>7. \A a \in Areas, s \in Sources \ {Current}, x \in Suffixes :
             bytes'[a][s][x] = bytes[a][s][x]
      BY <2>1, <2>4, <2>5 DEF IInv, TypeOK
    <2>8. ASSUME NEW s \in Sources, freezer.entries[s] # Absent
          PROVE  Kept(s, freezer.entries[s])'
      <3>1. Kept(s, freezer.entries[s]) /\ s # Current
        BY <2>1, <2>4, <2>8 DEF Written, Writing, Frozen
      <3>2. freezer.entries[s] \in Entry
        BY <2>8 DEF IInv, TypeOK, Freezer, Entries
      <3>3. AreaOf(freezer.entries[s].disposition) \in Areas
            /\ freezer.entries[s].suffix \in Suffixes
        BY <3>2 DEF Entry, AreaOf, Areas
      <3>4. receipts' = receipts
        BY DEF StoreBytes
      <3> QED BY <2>2, <2>7, <3>1, <3>3, <3>4 DEF Kept
    <2>9. Frozen(freezer.entries)' /\ Complete(freezer.entries, freezer.todo)'
      BY <2>1, <2>2, <2>8 DEF Written, Writing, Frozen, Complete
    <2>10. (bytes[AreaOf(Terms.disposition)][Current][Terms.suffix] = freezer.body)'
      BY <2>2, <2>6 DEF Terms, Current
    <2> QED BY <2>2, <2>3, <2>9, <2>10 DEF Written, Ended
  <1> QED BY <1>1, <1>2

LEMMA StoreReceiptWritten == IInv /\ Written /\ StoreReceipt => Written' /\ Ended'
  <1> SUFFICES ASSUME IInv, Written, StoreReceipt PROVE Written' /\ Ended'
    OBVIOUS
  <1>1. CASE Fail
    BY <1>1, StoppedIsWritten DEF IInv, Fail
  <1>2. CASE ~Fail
    <2> DEFINE s == Current
               e == EntryOf(Terms, freezer.body)
               entries == [freezer.entries EXCEPT ![s] = e]
    <2>1. /\ freezer.phase = "receipt" /\ bytes' = bytes
          /\ receipts' = [receipts EXCEPT ![s] = [target |-> Terms.target, body |-> freezer.body]]
          /\ freezer' = [freezer EXCEPT
                !.phase = "acquire", !.todo = @ \ {s},
                !.source = Absent, !.body = Absent, !.entries = entries]
      BY <1>2 DEF StoreReceipt
    <2>2. /\ freezer'.phase = "acquire" /\ freezer'.exit = freezer.exit
          /\ freezer'.snapshot = freezer.snapshot /\ freezer'.todo = freezer.todo \ {s}
          /\ freezer'.entries = entries
      BY <2>1 DEF IInv, TypeOK, Freezer
    <2>3. freezer.exit = Absent /\ Absent # 0
      BY <2>1, BodiesAssumption DEF Written
    <2>4. s \in Sources /\ s \in freezer.todo /\ Terms.disposition \in Cleared
      BY <2>1 DEF IInv, UnderWay, TypeOK, Freezer, Terms
    <2>5. /\ e.target = Terms.target /\ e.disposition = Terms.disposition
          /\ e.suffix = Terms.suffix /\ e.body = freezer.body
      BY DEF EntryOf
    <2>6. /\ entries[s] = e /\ receipts'[s] = [target |-> e.target, body |-> e.body]
          /\ \A t \in Sources \ {s} : entries[t] = freezer.entries[t] /\ receipts'[t] = receipts[t]
      BY <2>1, <2>4, <2>5 DEF IInv, TypeOK, Freezer, Entries
    <2>7. bytes'[AreaOf(e.disposition)][s][e.suffix] = e.body
      BY <2>1, <2>5 DEF Written
    <2>8. /\ freezer'.entries[s] = e
          /\ \A t \in Sources \ {s} : freezer'.entries[t] = freezer.entries[t]
      BY <2>2, <2>6
    <2> HIDE DEF e, entries
    <2>9. Frozen(freezer.entries)'
      <3> SUFFICES ASSUME NEW t \in Sources, freezer'.entries[t] # Absent
                   PROVE  Kept(t, freezer.entries[t])'
        BY DEF Frozen
      <3>1. CASE t = s
        BY <2>2, <2>4, <2>5, <2>6, <2>7, <2>8, <3>1 DEF Kept, Terms
      <3>2. CASE t # s
        <4>1. Kept(t, freezer.entries[t]) /\ freezer'.entries[t] = freezer.entries[t]
          BY <2>1, <2>8, <3>2 DEF Written, Writing, Frozen
        <4> QED BY <2>1, <2>2, <2>6, <3>2, <4>1 DEF Kept
      <3> QED BY <3>1, <3>2
    <2>10. entries[s] # Absent
      <3>1. Terms \in Record /\ freezer.body \in Bodies
        BY <2>1, <2>4, MatricesAssumption DEF IInv, TypeOK, UnderWay, Freezer, Terms
      <3>2. e \in Entry
        BY <2>4, <3>1 DEF e, EntryOf, Entry, Record
      <3> QED BY <2>6, <3>2, FilesAssumption
    <2>11. Complete(freezer.entries, freezer.todo)'
      BY <2>1, <2>2, <2>6, <2>10 DEF Written, Writing, Complete
    <2> QED BY <2>2, <2>3, <2>9, <2>11 DEF Written, Ended
  <1> QED BY <1>1, <1>2

(* A step that moves the freezer on changes nothing it has kept. *)
LEMMA AdvanceKeeps ==
    ASSUME IInv, Written, NEW to \in Phase, Advance(to), freezer.phase \in Writing,
           UNCHANGED <<bytes, receipts>>
    PROVE  /\ freezer'.phase = to /\ freezer'.exit = Absent /\ freezer'.todo = freezer.todo
           /\ freezer'.snapshot = freezer.snapshot /\ freezer'.entries = freezer.entries
           /\ Frozen(freezer.entries)' /\ Complete(freezer.entries, freezer.todo)'
           /\ Ended'
  <1>1. /\ freezer'.phase = to /\ freezer'.exit = freezer.exit
        /\ freezer'.todo = freezer.todo /\ freezer'.snapshot = freezer.snapshot
        /\ freezer'.entries = freezer.entries
    BY DEF IInv, TypeOK, Advance, Freezer
  <1>2. freezer.exit = Absent /\ Absent # 0
    BY BodiesAssumption DEF Written, Writing
  <1>3. Frozen(freezer.entries)' /\ Complete(freezer.entries, freezer.todo)'
    BY <1>1 DEF Written, Frozen, Kept, Complete
  <1> QED BY <1>1, <1>2, <1>3 DEF Ended

LEMMA WriteIndexWritten == IInv /\ Written /\ WriteIndex => Written' /\ Ended'
  <1> SUFFICES ASSUME IInv, Written, WriteIndex PROVE Written' /\ Ended'
    OBVIOUS
  <1>1. CASE Fail
    BY <1>1, StoppedIsWritten DEF IInv, Fail
  <1>2. CASE ~Fail
    <2>1. Advance("record") /\ index' = IndexOf(freezer.entries) /\ freezer.todo = {}
      BY <1>2 DEF WriteIndex, IndexOf
    <2>2. freezer.phase \in Writing /\ UNCHANGED <<bytes, receipts>>
      BY DEF WriteIndex, Writing
    <2>3. /\ freezer'.phase = "record" /\ freezer'.exit = Absent /\ freezer'.todo = {}
          /\ freezer'.snapshot = freezer.snapshot /\ freezer'.entries = freezer.entries
          /\ Frozen(freezer.entries)' /\ Complete(freezer.entries, freezer.todo)' /\ Ended'
      BY <2>1, <2>2, AdvanceKeeps DEF Phase
    <2>4. (index = IndexOf(freezer.entries))'
      BY <2>1, <2>3 DEF IndexOf
    <2> QED BY <2>3, <2>4 DEF Written
  <1> QED BY <1>1, <1>2

LEMMA WriteRecordWritten == IInv /\ Written /\ WriteRecord => Written' /\ Ended'
  <1> SUFFICES ASSUME IInv, Written, WriteRecord PROVE Written' /\ Ended'
    OBVIOUS
  <1>1. CASE Fail
    BY <1>1, StoppedIsWritten DEF IInv, Fail
  <1>2. CASE ~Fail
    <2>1. /\ freezer.phase = "record" /\ Advance("sha256") /\ index' = index
          /\ narrative' = Summary(freezer.entries, freezer.snapshot)
      BY <1>2 DEF WriteRecord
    <2>2. freezer.phase \in Writing /\ UNCHANGED <<bytes, receipts>>
      BY DEF WriteRecord, Writing
    <2>3. /\ freezer'.phase = "sha256" /\ freezer'.exit = Absent
          /\ freezer'.todo = freezer.todo
          /\ freezer'.snapshot = freezer.snapshot /\ freezer'.entries = freezer.entries
          /\ Frozen(freezer.entries)' /\ Complete(freezer.entries, freezer.todo)' /\ Ended'
      BY <2>1, <2>2, AdvanceKeeps DEF Phase
    <2>4. freezer.todo = {} /\ index = IndexOf(freezer.entries)
      BY <2>1 DEF Written
    <2>5. (index = IndexOf(freezer.entries))'
      BY <2>1, <2>3, <2>4 DEF IndexOf
    <2>6. narrative' = index'.summary
      BY <2>1, <2>4 DEF IndexOf
    <2> QED BY <2>3, <2>4, <2>5, <2>6 DEF Written
  <1> QED BY <1>1, <1>2

LEMMA WriteSumsWritten ==
    ASSUME IInv, Written, NEW a \in Algorithms, WriteSums(a)
    PROVE  Written' /\ Ended'
  <1>1. CASE Fail
    BY <1>1, StoppedIsWritten DEF IInv, Fail
  <1>2. CASE ~Fail
    <2>1. /\ freezer.phase = a /\ UNCHANGED <<bytes, receipts, index, narrative>>
          /\ sums' = [sums EXCEPT ![a] = LedgerOf(freezer.entries)]
          /\ IF a = "sha256" THEN Advance("sha512") ELSE Exit(0)
      BY <1>2 DEF WriteSums, LedgerOf
    <2>2. /\ freezer.todo = {} /\ index = IndexOf(freezer.entries)
          /\ narrative = index.summary
      BY <2>1 DEF Written, Algorithms
    <2>3. /\ sums'[a] = LedgerOf(freezer.entries)
          /\ \A b \in Algorithms \ {a} : sums'[b] = sums[b]
      BY <2>1 DEF IInv, TypeOK
    <2>4. CASE a = "sha256"
      <3>1. Advance("sha512") /\ "sha512" \in Phase /\ freezer.phase \in Writing
        BY <2>1, <2>4 DEF Phase, Writing
      <3>2. /\ freezer'.phase = "sha512" /\ freezer'.exit = Absent
            /\ freezer'.todo = freezer.todo
            /\ freezer'.snapshot = freezer.snapshot /\ freezer'.entries = freezer.entries
            /\ Frozen(freezer.entries)' /\ Complete(freezer.entries, freezer.todo)' /\ Ended'
        BY <2>1, <3>1, AdvanceKeeps
      <3>3. (index = IndexOf(freezer.entries))' /\ (narrative = index.summary)'
        BY <2>1, <2>2, <3>2 DEF IndexOf
      <3>4. (sums["sha256"] = LedgerOf(freezer.entries))'
        BY <2>3, <2>4, <3>2 DEF LedgerOf
      <3> QED BY <2>2, <3>2, <3>3, <3>4 DEF Written
    <2>5. CASE a = "sha512"
      <3>1. /\ freezer'.phase = "exited" /\ freezer'.exit = 0
            /\ freezer'.snapshot = freezer.snapshot
        BY <2>1, <2>5 DEF Exit, IInv, TypeOK, Freezer
      <3>2. /\ Frozen(freezer.entries) /\ Complete(freezer.entries, {})
            /\ sums["sha256"] = LedgerOf(freezer.entries)
        BY <2>1, <2>2, <2>5 DEF Written, Writing
      <3>3. index'.entries = freezer.entries
        BY <2>1, <2>2 DEF IndexOf
      <3>4. index \in Index
        <4>1. Summary(freezer.entries, freezer.snapshot) \in Narrative
          BY SummaryType DEF IInv, TypeOK, Freezer
        <4> QED BY <2>2, <4>1 DEF IndexOf, Index, IInv, TypeOK, Freezer
      <3>5. Frozen(index.entries)'
        BY <2>1, <3>1, <3>2, <3>3 DEF Frozen, Kept
      <3>6. Complete(index.entries, {})'
        BY <3>1, <3>2, <3>3 DEF Complete
      <3>7. \A b \in Algorithms : sums'[b] = LedgerOf(index.entries)'
        BY <2>3, <2>5, <3>2, <3>3 DEF LedgerOf, Algorithms
      <3>8. index' # Absent /\ narrative' = index'.summary
        BY <2>1, <2>2, <3>4, FilesAssumption
      <3> QED BY <3>1, <3>5, <3>6, <3>7, <3>8 DEF Written, Ended, Writing
    <2> QED BY <2>4, <2>5 DEF Algorithms
  <1> QED BY <1>1, <1>2

LEMMA KillWritten == IInv /\ Kill => Written' /\ Ended'
  BY StoppedIsWritten DEF IInv, Kill

LEMMA StutterWritten == Written /\ Ended /\ UNCHANGED vars => Written' /\ Ended'
  BY SamePackageWritten DEF vars, package

LEMMA StepWritten == IInv /\ Written /\ Ended /\ [Next]_vars => Written' /\ Ended'
  BY ReviseWritten, StartWritten, AcquireWritten, StoreBytesWritten, StoreReceiptWritten,
     WriteIndexWritten, WriteRecordWritten, WriteSumsWritten, KillWritten, StutterWritten
     DEF Next, Step

LEMMA FirstIsLeast ==
    ASSUME NEW s, Candidates(s) # {}
    PROVE  First(s) \in Candidates(s) /\ \A x \in Candidates(s) : First(s) <= x
  <1>1. Candidates(s) \subseteq Nat
    BY SourcesAssumption DEF Candidates
  <1>2. \E x \in Candidates(s) : \A y \in Candidates(s) : x <= y
    BY <1>1, LeastExists
  <1> QED BY <1>2 DEF First

(* The package of a freeze that ended under the present rights, entry by entry. *)
LEMMA EntryUnobstructed ==
    ASSUME IInv, Ended, freezer.exit = 0, freezer.snapshot = rights,
           NEW s \in Sources, index.entries[s] # Absent
    PROVE  /\ rights[s].disposition \in Cleared
           /\ EntryAgrees(s, index.entries[s]) <=> ~Obstructed(s)
  <1> DEFINE e == index.entries[s]
  <1>1. /\ e.target = rights[s].target /\ e.disposition = rights[s].disposition
        /\ e.suffix = rights[s].suffix /\ e.disposition \in Cleared
        /\ receipts[s] = [target |-> e.target, body |-> e.body]
        /\ bytes[AreaOf(e.disposition)][s][e.suffix] = e.body
    BY DEF Ended, Frozen, Kept
  <1>2. \A a \in Algorithms : sums[a][s] = LineOf(e)
    BY DEF Ended, LedgerOf
  <1>3. e \in Entry
    BY DEF Ended, IInv, TypeOK, Index, Entries
  <1>4. e.body \in Bodies /\ e.suffix \in Suffixes /\ e.body # Absent
    BY <1>3, BodiesAssumption DEF Entry
  <1>5. AreaOf(e.disposition) \in Areas
    BY DEF AreaOf, Areas
  <1>6. SuffixOf[e.body] = e.suffix
    BY <1>1, <1>4, <1>5 DEF IInv, StoredAsCleared
  <1> HIDE DEF e
  <1>7. CASE e.disposition = Repository
    <2>1. BytesAgree(s, e)
      BY <1>1, <1>7 DEF BytesAgree, AreaOf
    <2>2. Obstructed(s) <=> rights[s].target = rights[s].provenance
      BY <1>1, <1>7 DEF Obstructed, Repository, Internal, Blocked, Cleared
    <2> QED BY <1>1, <1>2, <2>1, <2>2 DEF EntryAgrees, e
  <1>8. CASE e.disposition = Internal
    <2>1. AreaOf(e.disposition) = "internal"
      BY <1>8 DEF AreaOf, Repository, Internal
    <2>2. e.suffix \in Candidates(s)
      BY <1>1, <1>4, <2>1 DEF Candidates
    <2>3. First(s) \in Candidates(s) /\ \A x \in Candidates(s) : First(s) <= x
      BY <2>2, FirstIsLeast
    <2>4. First(s) \in Nat /\ e.suffix \in Nat /\ Candidates(s) \subseteq Nat
      BY <1>4, <2>3, SourcesAssumption DEF Candidates
    <2>5. First(s) \in Suffixes /\ bytes["internal"][s][First(s)] # Absent
      BY <2>3 DEF Candidates
    <2>6. SuffixOf[bytes["internal"][s][First(s)]] = First(s)
      BY <2>5 DEF IInv, StoredAsCleared, Areas
    <2>7. BytesAgree(s, e) <=> First(s) = e.suffix
      BY <1>1, <1>6, <1>8, <2>1, <2>2, <2>6 DEF BytesAgree, Repository, Internal
    <2>8. (\E x \in Candidates(s) : x < e.suffix) <=> First(s) # e.suffix
      BY <2>2, <2>3, <2>4
    <2>9. Obstructed(s) <=> rights[s].target = rights[s].provenance \/ First(s) # e.suffix
      BY <1>1, <1>8, <2>8 DEF Obstructed, Internal, Blocked, Cleared
    <2> QED BY <1>1, <1>2, <2>7, <2>9 DEF EntryAgrees, e
  <1> QED BY <1>1, <1>7, <1>8 DEF Cleared, e

(***************************************************************************)
(* Exit 0 of the freezer under rights not revised since: its package       *)
(* verifies exactly when no source is obstructed, and the freeze record    *)
(* agrees with the index.                                                  *)
(***************************************************************************)
THEOREM ExitZeroMeansVerified == Spec => []ExitZeroVerifies
  <1>1. IInv /\ Written /\ Ended => ExitZeroVerifies
    <2> SUFFICES ASSUME IInv, Ended, freezer.exit = 0, freezer.snapshot = rights
                 PROVE  Verifies <=> \A s \in Sources : ~Obstructed(s)
      BY DEF Ended, ExitZeroVerifies
    <2>1. index # Absent /\ \A a \in Algorithms : sums[a] # Absent
      <3>1. index \in Index /\ index # Absent
        BY DEF IInv, TypeOK, Ended
      <3>2. \A e \in Entry : LineOf(e) \in Line
        BY DEF LineOf, Line, Entry
      <3>3. LedgerOf(index.entries) \in Ledger
        BY <3>1, <3>2 DEF LedgerOf, Ledger, Index, Entries
      <3> QED BY <3>1, <3>3, FilesAssumption DEF Ended
    <2>2. \A s \in Sources : Coverage(s)
      BY EntryUnobstructed DEF Ended, Complete, Coverage
    <2>3. ASSUME NEW s \in Sources, index.entries[s] = Absent
          PROVE  (receipts[s] = Absent) <=> ~Obstructed(s)
      <3>1. rights[s].disposition = Blocked
        BY <2>2, <2>3, MatricesAssumption DEF Coverage, IInv, TypeOK, Record
      <3> QED BY <3>1 DEF Obstructed, Cleared, Blocked, Repository, Internal
    <2>4. ASSUME NEW s \in Sources
          PROVE  (/\ receipts[s] # Absent => index.entries[s] # Absent
                  /\ index.entries[s] # Absent => EntryAgrees(s, index.entries[s]))
                 <=> ~Obstructed(s)
      BY <2>3, EntryUnobstructed
    <2> QED BY <2>1, <2>2, <2>4 DEF Verifies
  <1>2. Init => IInv /\ Written /\ Ended
    BY Initially, WrittenInitially
  <1>3. IInv /\ Written /\ Ended /\ [Next]_vars => (IInv /\ Written /\ Ended)'
    BY StepPreserves, StepWritten
  <1> QED BY <1>1, <1>2, <1>3, PTL DEF Spec

-----------------------------------------------------------------------------
(***************************************************************************)
(* A freeze cannot go on for ever: three steps for each source that is     *)
(* left, and four writes.  Every step takes one of them away.              *)
(***************************************************************************)
StepsLeft(phase) ==
    CASE phase = "acquire" -> 4 [] phase \in {"bytes", "record"} -> 3
      [] phase \in {"receipt", "sha256"} -> 2 [] OTHER -> 1

Ahead(f) ==
    CASE f.phase \in {"idle", "exited"} -> 0
      [] f.phase \in {"acquire", "bytes", "receipt"} ->
            3 * Cardinality(f.todo) + StepsLeft(f.phase)
      [] OTHER -> StepsLeft(f.phase)

LEMMA TodoIsFinite ==
    ASSUME NEW f \in Freezer
    PROVE  /\ IsFiniteSet(f.todo) /\ Cardinality(f.todo) \in Nat
           /\ Cardinality(Sources) \in Nat /\ Cardinality(f.todo) <= Cardinality(Sources)
  BY SourcesAssumption, FS_Subset, FS_CardinalityType DEF Freezer

LEMMA AheadIsBounded ==
    ASSUME NEW f \in Freezer
    PROVE  Ahead(f) \in 0..3 * Cardinality(Sources) + 4
  <1>1. StepsLeft(f.phase) \in 1..4
    BY DEF StepsLeft
  <1>2. QED
    BY <1>1, TodoIsFinite DEF Ahead

LEMMA ExitShortens ==
    ASSUME TypeOK, NEW code \in {0, 1, 2, 9}, Exit(code),
           freezer.phase \notin {"idle", "exited"}
    PROVE  Ahead(freezer') < Ahead(freezer)
  <1>1. Ahead(freezer') = 0
    BY ExitShape DEF Ahead
  <1>2. Cardinality(freezer.todo) \in Nat
    BY TodoIsFinite DEF TypeOK
  <1>3. StepsLeft(freezer.phase) \in 1..4
    BY DEF StepsLeft
  <1>4. QED
    BY <1>1, <1>2, <1>3 DEF Ahead

\* The freezer turns to another phase, with the same sources left.
LEMMA OnwardShortens ==
    ASSUME TypeOK, freezer'.todo = freezer.todo,
           <<freezer.phase, freezer'.phase>> \in
              {<<"acquire", "bytes">>, <<"acquire", "record">>, <<"bytes", "receipt">>,
               <<"record", "sha256">>, <<"sha256", "sha512">>}
    PROVE  Ahead(freezer') < Ahead(freezer)
  <1>1. Cardinality(freezer.todo) \in Nat
    BY TodoIsFinite DEF TypeOK
  <1>2. QED
    BY <1>1 DEF Ahead, StepsLeft

LEMMA AdvanceShape ==
    ASSUME TypeOK, NEW to, Advance(to)
    PROVE  freezer'.todo = freezer.todo /\ freezer'.phase = to
  BY DEF TypeOK, Freezer, Advance

LEMMA StepShortens ==
    ASSUME IInv, IInv', Step
    PROVE  Ahead(freezer') < Ahead(freezer)
  <1>0. TypeOK /\ TypeOK'
    BY DEF IInv
  <1>1. CASE Acquire
    <2>1. CASE \E code \in {1, 2} : Exit(code)
      BY <1>0, <1>1, <2>1, ExitShortens DEF Acquire
    <2>2. CASE \E s \in Sources, b \in Bodies : Received(s, b)
      <3>1. freezer'.todo = freezer.todo /\ freezer'.phase = "bytes"
        BY <1>0, <2>2 DEF TypeOK, Freezer, Received
      <3>2. QED
        BY <1>0, <1>1, <3>1, OnwardShortens DEF Acquire
    <2>3. QED
      BY <1>1, <2>1, <2>2 DEF Acquire
  <1>2. CASE StoreBytes
    <2>1. CASE Fail
      BY <1>0, <1>2, <2>1, ExitShortens DEF StoreBytes, Fail
    <2>2. CASE Advance("receipt")
      BY <1>0, <1>2, <2>2, AdvanceShape, OnwardShortens DEF StoreBytes
    <2>3. QED
      BY <1>2, <2>1, <2>2 DEF StoreBytes
  <1>3. CASE StoreReceipt
    <2>1. CASE Fail
      BY <1>0, <1>3, <2>1, ExitShortens DEF StoreReceipt, Fail
    <2>2. CASE ~Fail
      <3>1. freezer.phase = "receipt" /\ Current \in freezer.todo
        BY <1>3 DEF StoreReceipt, IInv, UnderWay
      <3>2. freezer'.phase = "acquire" /\ freezer'.todo = freezer.todo \ {Current}
        BY <1>0, <1>3, <2>2 DEF StoreReceipt, TypeOK, Freezer
      <3>3. IsFiniteSet(freezer.todo) /\ Cardinality(freezer.todo) \in Nat
        BY <1>0, TodoIsFinite DEF TypeOK
      <3>4. Cardinality(freezer'.todo) = Cardinality(freezer.todo) - 1
        BY <3>1, <3>2, <3>3, FS_RemoveElement
      <3>5. QED
        BY <3>1, <3>2, <3>3, <3>4 DEF Ahead, StepsLeft
    <2>3. QED
      BY <2>1, <2>2
  <1>4. CASE WriteIndex
    <2>1. CASE Fail
      BY <1>0, <1>4, <2>1, ExitShortens DEF WriteIndex, Fail
    <2>2. CASE Advance("record")
      BY <1>0, <1>4, <2>2, AdvanceShape, OnwardShortens DEF WriteIndex
    <2>3. QED
      BY <1>4, <2>1, <2>2 DEF WriteIndex
  <1>5. CASE WriteRecord
    <2>1. CASE Fail
      BY <1>0, <1>5, <2>1, ExitShortens DEF WriteRecord, Fail
    <2>2. CASE Advance("sha256")
      BY <1>0, <1>5, <2>2, AdvanceShape, OnwardShortens DEF WriteRecord
    <2>3. QED
      BY <1>5, <2>1, <2>2 DEF WriteRecord
  <1>6. ASSUME NEW a \in Algorithms, WriteSums(a)
        PROVE  Ahead(freezer') < Ahead(freezer)
    <2>0. freezer.phase = a /\ a \in {"sha256", "sha512"}
      BY <1>6 DEF WriteSums, Algorithms
    <2>1. CASE Fail \/ Exit(0)
      BY <1>0, <2>0, <2>1, ExitShortens DEF Fail
    <2>2. CASE a = "sha256" /\ Advance("sha512")
      BY <1>0, <2>0, <2>2, AdvanceShape, OnwardShortens
    <2>3. QED
      BY <1>6, <2>1, <2>2 DEF WriteSums
  <1>7. QED
    BY <1>1, <1>2, <1>3, <1>4, <1>5, <1>6 DEF Step

LEMMA KillShortens ==
    ASSUME TypeOK, Kill
    PROVE  Ahead(freezer') < Ahead(freezer)
  BY ExitShortens DEF Kill

\* What is bounded, and what lowers and never raises it.
AheadBounded == Ahead(freezer) \in 0..3 * Cardinality(Sources) + 4
EveryStepCounts ==
    [][/\ Step \/ Kill => Ahead(freezer') < Ahead(freezer)
       /\ ~Start => Ahead(freezer') <= Ahead(freezer)]_vars

(***************************************************************************)
(* main: a freeze takes at most 3 * |Sources| + 4 steps, however often the *)
(* rights are revised under it and whatever the targets serve.  With the   *)
(* weak fairness of its steps this is why FreezesEnd.                      *)
(***************************************************************************)
THEOREM FreezesRunOut == Spec => []AheadBounded /\ EveryStepCounts
  <1>1. IInv => AheadBounded
    BY AheadIsBounded DEF AheadBounded, IInv, TypeOK
  <1>2. ASSUME IInv, IInv', [Next]_vars
        PROVE  /\ Step \/ Kill => Ahead(freezer') < Ahead(freezer)
               /\ ~Start => Ahead(freezer') <= Ahead(freezer)
    <2>1. Step \/ Kill => Ahead(freezer') < Ahead(freezer)
      BY <1>2, StepShortens, KillShortens DEF IInv
    <2>2. Ahead(freezer) \in Nat /\ Ahead(freezer') \in Nat
      <3>1. Cardinality(Sources) \in Nat
        BY SourcesAssumption, FS_CardinalityType
      <3>2. QED
        BY <1>2, <3>1, AheadIsBounded DEF IInv, TypeOK
    <2>3. Revise \/ UNCHANGED vars => freezer' = freezer
      BY DEF Revise, vars
    <2>4. QED
      BY <1>2, <2>1, <2>2, <2>3 DEF Next
  <1>3. IInv /\ IInv' /\ [Next]_vars =>
          [/\ Step \/ Kill => Ahead(freezer') < Ahead(freezer)
           /\ ~Start => Ahead(freezer') <= Ahead(freezer)]_vars
    BY <1>2
  <1>4. QED
    BY <1>1, <1>3, Initially, StepPreserves, PTL DEF Spec, EveryStepCounts

=============================================================================
