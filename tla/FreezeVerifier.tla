--------------------------- MODULE FreezeVerifier ---------------------------
(***************************************************************************)
(* scripts/verify_canada_freeze.py as a process of its own beside the      *)
(* freezer of CorpusFreeze.  It reads INDEX.json, the rights and the two   *)
(* ledgers, lists receipts/, and then takes the entries it read one by     *)
(* one: the receipt, the internal file of its choice, the bytes.  Nothing  *)
(* locks the package, so that each read may find another state of it, and  *)
(* the verifier compares what it read then with what it reads now.         *)
(* ACQUISITION-FREEZE-v0.1.json it never opens.                            *)
(*                                                                         *)
(* Every file is replaced atomically and none is deleted while a program   *)
(* runs: a read finds a whole file, and a file that a check found is there *)
(* when it is read.                                                        *)
(***************************************************************************)
EXTENDS CorpusFreeze

VARIABLES
    verifier,  \* the verifier's process, which runs once
    watch      \* history: what happened while it ran

allVars == <<vars, verifier, watch>>

\* index, rights, sums: as they were read.  todo: entries not done yet.
\* found: the suffix of the internal file taken.  exit: main's status.
Verifier ==
    [phase : {"idle", "index", "rights", "sha256", "sha512", "listing",
              "receipt", "glob", "bytes", "exited"},
     index : Index \cup {Absent}, rights : Matrices \cup {Absent},
     sums : [Algorithms -> Ledger \cup {Absent}], todo : SUBSET Sources,
     found : Suffixes \cup {Absent}, failed : BOOLEAN, exit : {Absent, 0, 1, 2}]

\* writes: to the package or the rights during the verification; 2 stands for
\* any more.  whole: at some moment of it the package would have verified.
\* stops: freezes that failed or were killed so far, up to 2.
Watch == [writes : 0..2, whole : BOOLEAN, stops : 0..2]

NoSums == [a \in Algorithms |-> Absent]

InitBeside ==
    /\ Init
    /\ verifier = [phase |-> "idle", index |-> Absent, rights |-> Absent, sums |-> NoSums,
                   todo |-> {}, found |-> Absent, failed |-> FALSE, exit |-> Absent]
    /\ watch = [writes |-> 0, whole |-> FALSE, stops |-> 0]

Running == verifier.phase \notin {"idle", "exited"}

Conclude(code) ==
    verifier' = [verifier EXCEPT !.phase = "exited", !.exit = code, !.sums = NoSums,
                                 !.todo = {}, !.failed = FALSE]
UpTo2(n, more) == IF more /\ n < 2 THEN n + 1 ELSE n
-----------------------------------------------------------------------------
\* Whatever the freezer, the owner or the system does; after the verdict it no
\* longer matters here.
Beside ==
    /\ verifier.phase # "exited" /\ Next
    /\ LET written == Running /\ <<rights, package>>' # <<rights, package>>
           stopped == freezer.exit = Absent /\ freezer'.exit \notin {Absent, 0}
       IN  watch' = [writes |-> UpTo2(watch.writes, written),
                     whole |-> watch.whole \/ (written /\ Verifies'),
                     stops |-> UpTo2(watch.stops, stopped)]
    /\ UNCHANGED verifier

\* The package goes to another checkout, without the files git ignores.
Checkout ==
    /\ verifier.phase = "idle" /\ freezer.phase \in {"idle", "exited"}
    /\ bytes["internal"] # NoFiles /\ bytes' = [bytes EXCEPT !["internal"] = NoFiles]
    /\ UNCHANGED <<rights, receipts, index, narrative, sums, freezer, acquired,
                   verifier, watch>>

StartVerifier ==
    /\ verifier.phase = "idle"
    /\ verifier' = [verifier EXCEPT !.phase = "index"]
    /\ watch' = [watch EXCEPT !.whole = Verifies]
    /\ UNCHANGED vars

ReadIndex ==
    /\ verifier.phase = "index"
    /\ IF index = Absent THEN Conclude(2)
       ELSE verifier' = [verifier EXCEPT !.phase = "rights", !.index = index]

\* Regression: only the records of cleared sources are kept.
ReadClearedRights ==
    /\ verifier.phase = "rights"
    /\ verifier' = [verifier EXCEPT
            !.phase = "sha256",
            !.rights = [s \in {r \in Sources : rights[r].disposition \in Cleared} |-> rights[s]]]

ReadRights ==
    /\ verifier.phase = "rights"
    /\ verifier' = [verifier EXCEPT !.phase = "sha256", !.rights = rights]

ReadSums(a) ==
    /\ verifier.phase = a
    /\ IF sums[a] = Absent THEN Conclude(2)
       ELSE verifier' = [verifier EXCEPT
                !.phase = IF a = "sha256" THEN "sha512" ELSE "listing",
                !.sums[a] = sums[a]]

Listed == {s \in Sources : verifier.index.entries[s] # Absent}

\* A cleared source has an entry, a blocked one none; a receipt has an entry.
ListReceipts ==
    /\ verifier.phase = "listing"
    /\ verifier' = [verifier EXCEPT
            !.phase = "receipt", !.todo = Listed,
            !.failed = \/ Listed # {s \in Sources : verifier.rights[s].disposition \in Cleared}
                       \/ \E s \in Sources \ Listed : receipts[s] # Absent]

\* The entry under way: the first one left in the order of the index.
Now == CHOOSE s \in verifier.todo : \A t \in verifier.todo : s <= t
EntryNow == verifier.index.entries[Now]

Judged(agrees, to) ==
    verifier' = [verifier EXCEPT !.failed = @ \/ ~agrees, !.phase = to]
EntryDone(agrees) ==
    verifier' = [verifier EXCEPT !.failed = @ \/ ~agrees, !.phase = "receipt",
                                 !.todo = @ \ {Now}, !.found = Absent]

TermsAgree(record, e) ==
    /\ record.disposition = e.disposition
    /\ record.target = e.target /\ e.target # record.provenance

\* Regression: the entry is compared with its receipt only.
CheckReceiptOnly ==
    /\ verifier.phase = "receipt" /\ verifier.todo # {}
    /\ IF receipts[Now] = Absent THEN EntryDone(FALSE)
       ELSE Judged(receipts[Now] = [target |-> EntryNow.target, body |-> EntryNow.body],
                   IF EntryNow.disposition = Repository THEN "bytes" ELSE "glob")

CheckReceipt ==
    /\ verifier.phase = "receipt" /\ verifier.todo # {}
    /\ IF receipts[Now] = Absent THEN EntryDone(FALSE)
       ELSE Judged(/\ TermsAgree(verifier.rights[Now], EntryNow)
                   /\ receipts[Now] = [target |-> EntryNow.target, body |-> EntryNow.body],
                   IF EntryNow.disposition = Repository THEN "bytes" ELSE "glob")

\* Regression: the first ledger stands for both.
FirstLedgerAgrees == verifier.sums["sha256"][Now] = LineOf(EntryNow)

LedgersAgree == \A a \in Algorithms : verifier.sums[a][Now] = LineOf(EntryNow)

\* Regression: internal bytes must be present in every checkout.
DemandInternal ==
    /\ verifier.phase = "glob"
    /\ IF Candidates(Now) = {} THEN EntryDone(FALSE)
       ELSE verifier' = [verifier EXCEPT !.phase = "bytes", !.found = First(Now)]

TakeInternal ==
    /\ verifier.phase = "glob"
    /\ IF Candidates(Now) = {} THEN EntryDone(LedgersAgree)
       ELSE verifier' = [verifier EXCEPT !.phase = "bytes", !.found = First(Now)]

CheckBytes ==
    /\ verifier.phase = "bytes"
    /\ EntryDone(LET suffix == IF verifier.found = Absent THEN EntryNow.suffix
                               ELSE verifier.found
                 IN  /\ bytes[AreaOf(EntryNow.disposition)][Now][suffix] = EntryNow.body
                     /\ LedgersAgree)

Report ==
    /\ verifier.phase = "receipt" /\ verifier.todo = {}
    /\ Conclude(IF verifier.failed THEN 1 ELSE 0)

Verify ==
    /\ \/ ReadIndex \/ ReadRights \/ \E a \in Algorithms : ReadSums(a)
       \/ ListReceipts \/ CheckReceipt \/ TakeInternal \/ CheckBytes \/ Report
    /\ UNCHANGED <<vars, watch>>

NextBeside == Beside \/ Checkout \/ StartVerifier \/ Verify

SpecBeside == InitBeside /\ [][NextBeside]_allVars
-----------------------------------------------------------------------------
TypesBeside ==
    /\ TypeOK /\ verifier \in Verifier /\ watch \in Watch

(***************************************************************************)
(* A verification during which nothing was written: status 2 means that    *)
(* the index or a ledger is missing, 0 that the package agrees with itself *)
(* and with the rights, as CorpusFreeze says at once, and 1 anything else. *)
(***************************************************************************)
QuietVerdict ==
    [][verifier'.exit # verifier.exit /\ watch.writes = 0 =>
          verifier'.exit = IF index = Absent \/ \E a \in Algorithms : sums[a] = Absent THEN 2
                           ELSE IF Verifies THEN 0 ELSE 1]_allVars

(***************************************************************************)
(* What remains of a pass that was torn by a freezer writing meanwhile:    *)
(* each source that the rights it read had cleared was acquired from the   *)
(* target and under the disposition they had, as the body the index it     *)
(* read names, though no moment may have seen these files together.        *)
(***************************************************************************)
PassedWasAcquired ==
    verifier.exit = 0 => \A s \in Sources : verifier.rights[s].disposition \in Cleared =>
        [source |-> s, target |-> verifier.rights[s].target,
         disposition |-> verifier.rights[s].disposition,
         body |-> verifier.index.entries[s].body] \in acquired

(***************************************************************************)
(* One write is not enough to tear a pass: every file is read once, or is  *)
(* still there when it is read after it was found.  A verifier that passes *)
(* a package which at no moment verified was overtaken by two writes.      *)
(***************************************************************************)
OneWriteNeverTears ==
    verifier.exit = 0 /\ ~watch.whole => watch.writes = 2

(***************************************************************************)
(* The freeze record, which the verifier does not open, belongs to another *)
(* run than the index of a package that verifies only if two freezes were  *)
(* stopped, one short of its ledgers and one short of its record; one that *)
(* is between index and record counts.                                     *)
(***************************************************************************)
RecordMisleadsAfterTwoStops ==
    Verifies /\ narrative # index.summary =>
        watch.stops + (IF freezer.phase = "record" THEN 1 ELSE 0) >= 2
=============================================================================
