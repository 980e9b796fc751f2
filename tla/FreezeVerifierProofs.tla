------------------------ MODULE FreezeVerifierProofs ------------------------
(***************************************************************************)
(* What holds of a verifier that reads the package while others write, for *)
(* any sources, rights matrices and bodies and any number of freezes: its  *)
(* process stays well formed; a pass, torn or not, rests on acquisitions   *)
(* that were made; a verification during which nothing is written ends in  *)
(* the verdict the package deserves, and one write is not enough to make   *)
(* it pass what never verified; and the freeze record misleads only after  *)
(* two freezes that were stopped.                                          *)
(***************************************************************************)
EXTENDS FreezeVerifier, CorpusFreezeProofs

Reading == {"receipt", "glob", "bytes"}
Holds(s) == TermsAgree(verifier.rights[s], verifier.index.entries[s])
Covered == Listed = {s \in Sources : verifier.rights[s].disposition \in Cleared}

\* What it has read, before it listed receipts/ ...
Remembered ==
    /\ verifier.index # Absent => EntriesAcquired(verifier.index.entries)
    /\ verifier.phase \in {"rights", "sha256", "sha512", "listing"} \cup Reading =>
          verifier.index # Absent
    /\ verifier.phase \in {"sha256", "sha512", "listing"} \cup Reading =>
          verifier.rights \in Matrices

\* ... and what it has found since, unless it failed.
SoFar ==
    /\ verifier.phase \in Reading /\ ~verifier.failed =>
          Covered /\ \A s \in Listed \ verifier.todo : Holds(s)
    /\ verifier.phase \in {"glob", "bytes"} /\ ~verifier.failed => Holds(Now)
    /\ verifier.exit # Absent => verifier.phase = "exited"
    /\ verifier.exit = 0 =>
          verifier.index # Absent /\ Covered /\ \A s \in Listed : Holds(s)

VInv ==
    /\ IInv /\ verifier \in Verifier /\ watch \in Watch
    /\ Remembered /\ SoFar
-----------------------------------------------------------------------------
LEMMA FirstType ==
    ASSUME NEW s, Candidates(s) # {}
    PROVE  First(s) \in Suffixes
  <1>1. Candidates(s) \subseteq Nat
    BY SourcesAssumption DEF Candidates
  <1>2. \E x \in Candidates(s) : \A y \in Candidates(s) : x <= y
    BY <1>1, LeastExists
  <1> QED BY <1>2 DEF First, Candidates

LEMMA UpTo2Type ==
    ASSUME NEW n \in 0..2, NEW more PROVE UpTo2(n, more) \in 0..2
  BY DEF UpTo2

LEMMA AcquiredGrows == [Next]_vars => acquired \subseteq acquired'
  BY DEF Next, Step, Revise, Start, Acquire, Received, StoreBytes, StoreReceipt, WriteIndex,
         WriteRecord, WriteSums, Kill, vars

LEMMA EntriesStayAcquired ==
    ASSUME NEW entries, EntriesAcquired(entries), acquired \subseteq acquired'
    PROVE  \A s \in Sources : entries[s] # Absent =>
              [source |-> s, target |-> entries[s].target,
               disposition |-> entries[s].disposition, body |-> entries[s].body] \in acquired'
  BY DEF EntriesAcquired

-----------------------------------------------------------------------------
LEMMA InitiallyBeside == InitBeside => VInv
  <1> SUFFICES ASSUME InitBeside PROVE VInv
    OBVIOUS
  <1>1. IInv
    BY Initially DEF InitBeside
  <1>2. verifier \in Verifier
    BY DEF InitBeside, Verifier, NoSums
  <1>3. watch \in Watch
    BY DEF InitBeside, Watch
  <1>4. Remembered /\ SoFar
    BY BodiesAssumption DEF InitBeside, Remembered, SoFar, Reading
  <1> QED BY <1>1, <1>2, <1>3, <1>4 DEF VInv

\* Whatever becomes of the package, the verifier knows what it knew.
LEMMA UndisturbedPreserves ==
    ASSUME VInv, IInv', watch' \in Watch, UNCHANGED verifier, acquired \subseteq acquired'
    PROVE  VInv'
  <1>1. verifier' \in Verifier
    BY DEF VInv
  <1>2. (verifier.index # Absent => EntriesAcquired(verifier.index.entries))'
    BY DEF VInv, Remembered, EntriesAcquired
  <1>3. Remembered'
    BY <1>2 DEF VInv, Remembered
  <1>4. SoFar'
    BY DEF VInv, SoFar, Covered, Holds, Listed, Now
  <1> QED BY <1>1, <1>3, <1>4 DEF VInv

LEMMA BesidePreserves == VInv /\ Beside => VInv'
  <1> SUFFICES ASSUME VInv, Beside PROVE VInv'
    OBVIOUS
  <1>1. IInv'
    BY StepPreserves DEF VInv, Beside
  <1>2. acquired \subseteq acquired'
    BY AcquiredGrows DEF Beside
  <1>3. watch' \in Watch
    BY UpTo2Type DEF VInv, Beside, Watch
  <1>4. UNCHANGED verifier
    BY DEF Beside
  <1> QED BY <1>1, <1>2, <1>3, <1>4, UndisturbedPreserves

LEMMA CheckoutPreserves == VInv /\ Checkout => VInv'
  <1> SUFFICES ASSUME VInv, Checkout PROVE VInv'
    OBVIOUS
  <1>1. /\ bytes' = [bytes EXCEPT !["internal"] = NoFiles]
        /\ UNCHANGED <<rights, receipts, index, narrative, sums, freezer, acquired>>
        /\ UNCHANGED verifier /\ UNCHANGED watch
    BY DEF Checkout
  <1>2. TypeOK'
    BY <1>1 DEF VInv, IInv, TypeOK, NoFiles
  <1>3. StoredAsCleared'
    BY <1>1 DEF VInv, IInv, TypeOK, StoredAsCleared, NoFiles, Areas
  <1>4. UnderWay' /\ EntriesAcquired(freezer.entries)'
        /\ (index # Absent => EntriesAcquired(index.entries))'
    BY <1>1 DEF VInv, IInv, UnderWay, EntriesAcquired, Current, Terms
  <1>5. IInv'
    BY <1>2, <1>3, <1>4 DEF IInv
  <1> QED BY <1>1, <1>5, UndisturbedPreserves DEF VInv

LEMMA StartVerifierPreserves == VInv /\ StartVerifier => VInv'
  <1> SUFFICES ASSUME VInv, StartVerifier PROVE VInv'
    OBVIOUS
  <1>1. verifier.phase = "idle" /\ verifier' = [verifier EXCEPT !.phase = "index"]
    BY DEF StartVerifier
  <1>2. watch' \in Watch
    BY DEF VInv, StartVerifier, Watch, Verifies
  <1>3. verifier' \in Verifier
    BY <1>1 DEF VInv, Verifier
  <1>4. IInv'
    BY StutterPreserves DEF VInv, StartVerifier
  <1>5. Remembered'
    BY <1>1 DEF VInv, Remembered, Reading, EntriesAcquired, StartVerifier, vars, Verifier
  <1>6. SoFar'
    BY <1>1 DEF VInv, SoFar, Reading, Verifier, Holds, Covered, Listed
  <1> QED BY <1>2, <1>3, <1>4, <1>5, <1>6 DEF VInv

\* A step of the verifier, which only looks.
LEMMA LookingPreserves ==
    ASSUME VInv, UNCHANGED <<vars, watch>>, verifier' \in Verifier, Remembered', SoFar'
    PROVE  VInv'
  BY StutterPreserves DEF VInv

LEMMA ConcludePreserves ==
    ASSUME VInv, UNCHANGED <<vars, watch>>, NEW code \in {0, 1, 2}, Conclude(code),
           code = 0 => /\ verifier.index # Absent /\ Covered
                       /\ \A s \in Listed : Holds(s)
    PROVE  VInv'
  <1>1. /\ verifier'.phase = "exited" /\ verifier'.exit = code
        /\ verifier'.index = verifier.index /\ verifier'.rights = verifier.rights
    BY DEF VInv, Conclude, Verifier
  <1>2. verifier' \in Verifier
    BY DEF VInv, Conclude, Verifier, NoSums
  <1>3. Remembered'
    BY <1>1 DEF VInv, Remembered, Reading, EntriesAcquired, vars
  <1>4. SoFar'
    BY <1>1 DEF SoFar, Reading, Covered, Listed, Holds
  <1> QED BY <1>2, <1>3, <1>4, LookingPreserves

LEMMA ReadIndexPreserves == VInv /\ ReadIndex /\ UNCHANGED <<vars, watch>> => VInv'
  <1> SUFFICES ASSUME VInv, ReadIndex, UNCHANGED <<vars, watch>> PROVE VInv'
    OBVIOUS
  <1>1. CASE index = Absent
    BY <1>1, ConcludePreserves DEF ReadIndex
  <1>2. CASE index # Absent
    <2>1. verifier' = [verifier EXCEPT !.phase = "rights", !.index = index]
      BY <1>2 DEF ReadIndex
    <2>2. verifier' \in Verifier
      BY <2>1 DEF VInv, IInv, TypeOK, Verifier
    <2>3. verifier'.phase = "rights" /\ verifier'.index = index /\ verifier'.exit = verifier.exit
      BY <2>1 DEF VInv, Verifier
    <2>4. verifier.exit = Absent
      BY DEF VInv, SoFar, ReadIndex
    <2>5. Remembered'
      BY <1>2, <2>3 DEF VInv, IInv, Remembered, Reading, EntriesAcquired, vars
    <2>6. SoFar'
      BY <2>3, <2>4, BodiesAssumption DEF SoFar, Reading
    <2> QED BY <2>2, <2>5, <2>6, LookingPreserves
  <1> QED BY <1>1, <1>2

LEMMA ReadRightsPreserves == VInv /\ ReadRights /\ UNCHANGED <<vars, watch>> => VInv'
  <1> SUFFICES ASSUME VInv, ReadRights, UNCHANGED <<vars, watch>> PROVE VInv'
    OBVIOUS
  <1>1. verifier' = [verifier EXCEPT !.phase = "sha256", !.rights = rights]
    BY DEF ReadRights
  <1>2. verifier' \in Verifier
    BY <1>1 DEF VInv, IInv, TypeOK, Verifier
  <1>3. /\ verifier'.phase = "sha256" /\ verifier'.rights = rights
        /\ verifier'.index = verifier.index /\ verifier'.exit = verifier.exit
    BY <1>1 DEF VInv, Verifier
  <1>4. verifier.exit = Absent
    BY DEF VInv, SoFar, ReadRights
  <1>5. Remembered'
    BY <1>3 DEF VInv, IInv, TypeOK, Remembered, Reading, EntriesAcquired, vars, ReadRights
  <1>6. SoFar'
    BY <1>3, <1>4, BodiesAssumption DEF SoFar, Reading
  <1> QED BY <1>2, <1>5, <1>6, LookingPreserves

LEMMA ReadSumsPreserves ==
    ASSUME VInv, NEW a \in Algorithms, ReadSums(a), UNCHANGED <<vars, watch>>
    PROVE  VInv'
  <1>1. CASE sums[a] = Absent
    BY <1>1, ConcludePreserves DEF ReadSums
  <1>2. CASE sums[a] # Absent
    <2> DEFINE next == IF a = "sha256" THEN "sha512" ELSE "listing"
    <2>1. verifier' = [verifier EXCEPT !.phase = next, !.sums[a] = sums[a]]
      BY <1>2 DEF ReadSums
    <2>2. verifier' \in Verifier
      BY <2>1 DEF VInv, IInv, TypeOK, Verifier
    <2>3. /\ verifier'.phase = next /\ verifier'.rights = verifier.rights
          /\ verifier'.index = verifier.index /\ verifier'.exit = verifier.exit
      BY <2>1 DEF VInv, Verifier
    <2>4. verifier.phase \in {"sha256", "sha512"} /\ verifier.exit = Absent
      BY DEF VInv, SoFar, ReadSums, Algorithms
    <2>5. Remembered'
      BY <2>3, <2>4 DEF VInv, Remembered, Reading, EntriesAcquired, vars
    <2>6. SoFar'
      BY <2>3, <2>4, BodiesAssumption DEF SoFar, Reading
    <2> QED BY <2>2, <2>5, <2>6, LookingPreserves
  <1> QED BY <1>1, <1>2

LEMMA ListReceiptsPreserves == VInv /\ ListReceipts /\ UNCHANGED <<vars, watch>> => VInv'
  <1> SUFFICES ASSUME VInv, ListReceipts, UNCHANGED <<vars, watch>> PROVE VInv'
    OBVIOUS
  <1> DEFINE failed == \/ ~Covered
                       \/ \E s \in Sources \ Listed : receipts[s] # Absent
  <1>1. verifier' = [verifier EXCEPT !.phase = "receipt", !.todo = Listed, !.failed = failed]
    BY DEF ListReceipts, Covered
  <1>2. failed \in BOOLEAN /\ Listed \subseteq Sources
    BY DEF Listed
  <1> HIDE DEF failed
  <1>3. verifier' \in Verifier
    BY <1>1, <1>2 DEF VInv, Verifier
  <1>4. /\ verifier'.phase = "receipt" /\ verifier'.todo = Listed /\ verifier'.failed = failed
        /\ verifier'.rights = verifier.rights /\ verifier'.index = verifier.index
        /\ verifier'.exit = verifier.exit
    BY <1>1 DEF VInv, Verifier
  <1>5. verifier.phase = "listing" /\ verifier.exit = Absent
    BY DEF VInv, SoFar, ListReceipts
  <1>6. Remembered'
    BY <1>4, <1>5 DEF VInv, Remembered, Reading, EntriesAcquired, vars
  <1>7. Covered' <=> Covered
    BY <1>4 DEF Covered, Listed
  <1>8. Listed' = Listed
    BY <1>4 DEF Listed
  <1>9. SoFar'
    BY <1>4, <1>5, <1>7, <1>8, BodiesAssumption DEF SoFar, Reading, failed
  <1> QED BY <1>3, <1>6, <1>9, LookingPreserves

\* What a step from entry to entry leaves alone.
LEMMA SameReading ==
    ASSUME verifier'.index = verifier.index, verifier'.rights = verifier.rights
    PROVE  /\ Covered' <=> Covered
           /\ Listed' = Listed
           /\ \A s : Holds(s)' <=> Holds(s)
  BY DEF Covered, Listed, Holds

LEMMA EntryDonePreserves ==
    ASSUME VInv, UNCHANGED <<vars, watch>>, NEW agrees \in BOOLEAN, EntryDone(agrees),
           verifier.phase \in Reading, agrees /\ ~verifier.failed => Holds(Now)
    PROVE  VInv'
  <1>1. verifier' \in Verifier
    BY DEF VInv, EntryDone, Verifier
  <1>2. /\ verifier'.phase = "receipt" /\ verifier'.todo = verifier.todo \ {Now}
        /\ verifier'.failed = (verifier.failed \/ ~agrees)
        /\ verifier'.rights = verifier.rights /\ verifier'.index = verifier.index
        /\ verifier'.exit = verifier.exit
    BY DEF VInv, EntryDone, Verifier
  <1>3. verifier.exit = Absent
    BY DEF VInv, SoFar, Reading
  <1>4. Remembered'
    BY <1>2 DEF VInv, Remembered, Reading, EntriesAcquired, vars
  <1>5. ASSUME ~verifier'.failed
        PROVE  Covered' /\ \A s \in Listed' \ verifier'.todo : Holds(s)'
    BY <1>2, <1>5, SameReading DEF VInv, SoFar
  <1>6. SoFar'
    BY <1>2, <1>3, <1>5, BodiesAssumption DEF SoFar, Reading
  <1> QED BY <1>1, <1>4, <1>6, LookingPreserves

LEMMA CheckReceiptPreserves == VInv /\ CheckReceipt /\ UNCHANGED <<vars, watch>> => VInv'
  <1> SUFFICES ASSUME VInv, CheckReceipt, UNCHANGED <<vars, watch>> PROVE VInv'
    OBVIOUS
  <1>1. CASE receipts[Now] = Absent
    BY <1>1, EntryDonePreserves DEF CheckReceipt, Reading
  <1>2. CASE receipts[Now] # Absent
    <2> DEFINE agrees ==
          /\ TermsAgree(verifier.rights[Now], EntryNow)
          /\ receipts[Now] = [target |-> EntryNow.target, body |-> EntryNow.body]
               to == IF EntryNow.disposition = Repository THEN "bytes" ELSE "glob"
    <2>1. Judged(agrees, to) /\ verifier.phase = "receipt"
      BY <1>2 DEF CheckReceipt
    <2>2. agrees \in BOOLEAN /\ to \in {"glob", "bytes"} /\ (agrees => Holds(Now))
      BY DEF Holds, EntryNow
    <2> HIDE DEF agrees, to
    <2>3. verifier' \in Verifier
      BY <2>1, <2>2 DEF VInv, Judged, Verifier
    <2>4. /\ verifier'.phase = to /\ verifier'.todo = verifier.todo
          /\ verifier'.failed = (verifier.failed \/ ~agrees)
          /\ verifier'.rights = verifier.rights /\ verifier'.index = verifier.index
          /\ verifier'.exit = verifier.exit
      BY <2>1 DEF VInv, Judged, Verifier
    <2>5. verifier.exit = Absent
      BY <2>1 DEF VInv, SoFar
    <2>6. Remembered'
      BY <2>1, <2>2, <2>4 DEF VInv, Remembered, Reading, EntriesAcquired, vars
    <2>7. Now' = Now
      BY <2>4 DEF Now
    <2>8. ASSUME ~verifier'.failed
          PROVE  Covered' /\ (\A s \in Listed' \ verifier'.todo : Holds(s)') /\ Holds(Now)'
      BY <2>1, <2>2, <2>4, <2>7, <2>8, SameReading DEF VInv, SoFar, Reading, Holds
    <2>9. SoFar'
      BY <2>2, <2>4, <2>5, <2>8, BodiesAssumption DEF SoFar
    <2> QED BY <2>3, <2>6, <2>9, LookingPreserves
  <1> QED BY <1>1, <1>2

LEMMA TakeInternalPreserves == VInv /\ TakeInternal /\ UNCHANGED <<vars, watch>> => VInv'
  <1> SUFFICES ASSUME VInv, TakeInternal, UNCHANGED <<vars, watch>> PROVE VInv'
    OBVIOUS
  <1>1. CASE Candidates(Now) = {}
    <2>1. EntryDone(LedgersAgree) /\ LedgersAgree \in BOOLEAN
      BY <1>1 DEF TakeInternal, LedgersAgree
    <2> QED BY <2>1, EntryDonePreserves DEF TakeInternal, Reading, VInv, SoFar
  <1>2. CASE Candidates(Now) # {}
    <2>1. verifier' = [verifier EXCEPT !.phase = "bytes", !.found = First(Now)]
      BY <1>2 DEF TakeInternal
    <2>2. verifier' \in Verifier
      BY <1>2, <2>1, FirstType DEF VInv, Verifier
    <2>3. /\ verifier'.phase = "bytes" /\ verifier'.todo = verifier.todo
          /\ verifier'.failed = verifier.failed
          /\ verifier'.rights = verifier.rights /\ verifier'.index = verifier.index
          /\ verifier'.exit = verifier.exit
      BY <2>1 DEF VInv, Verifier
    <2>4. verifier.phase = "glob" /\ verifier.exit = Absent
      BY DEF VInv, SoFar, TakeInternal
    <2>5. Remembered'
      BY <2>3, <2>4 DEF VInv, Remembered, Reading, EntriesAcquired, vars
    <2>6. Now' = Now
      BY <2>3 DEF Now
    <2>7. SoFar'
      BY <2>3, <2>4, <2>6, SameReading, BodiesAssumption DEF VInv, SoFar, Reading, Holds
    <2> QED BY <2>2, <2>5, <2>7, LookingPreserves
  <1> QED BY <1>1, <1>2

LEMMA CheckBytesPreserves == VInv /\ CheckBytes /\ UNCHANGED <<vars, watch>> => VInv'
  <1> SUFFICES ASSUME VInv, CheckBytes, UNCHANGED <<vars, watch>> PROVE VInv'
    OBVIOUS
  <1>1. PICK agrees \in BOOLEAN : EntryDone(agrees)
    BY DEF CheckBytes
  <1> QED BY <1>1, EntryDonePreserves DEF CheckBytes, Reading, VInv, SoFar

LEMMA ReportPreserves == VInv /\ Report /\ UNCHANGED <<vars, watch>> => VInv'
  <1> SUFFICES ASSUME VInv, Report, UNCHANGED <<vars, watch>> PROVE VInv'
    OBVIOUS
  <1>1. CASE verifier.failed
    BY <1>1, ConcludePreserves DEF Report
  <1>2. CASE ~verifier.failed
    <2>1. verifier.index # Absent /\ Covered /\ \A s \in Listed : Holds(s)
      BY <1>2 DEF VInv, Remembered, SoFar, Report, Reading
    <2> QED BY <1>2, <2>1, ConcludePreserves DEF Report
  <1> QED BY <1>1, <1>2

LEMMA VerifyPreserves == VInv /\ Verify => VInv'
  BY ReadIndexPreserves, ReadRightsPreserves, ReadSumsPreserves, ListReceiptsPreserves,
     CheckReceiptPreserves, TakeInternalPreserves, CheckBytesPreserves, ReportPreserves
     DEF Verify

LEMMA StutterBesidePreserves == VInv /\ UNCHANGED allVars => VInv'
  <1> SUFFICES ASSUME VInv, UNCHANGED allVars PROVE VInv'
    OBVIOUS
  <1>1. IInv' /\ UNCHANGED verifier /\ watch' \in Watch /\ acquired \subseteq acquired'
    BY StutterPreserves DEF VInv, allVars, vars
  <1> QED BY <1>1, UndisturbedPreserves

LEMMA StepBesidePreserves == VInv /\ [NextBeside]_allVars => VInv'
  BY BesidePreserves, CheckoutPreserves, StartVerifierPreserves, VerifyPreserves,
     StutterBesidePreserves DEF NextBeside
-----------------------------------------------------------------------------
(***************************************************************************)
(* The package, the freezer and the verifier keep their types while they   *)
(* run beside one another, and whichever checkout the verifier runs in.    *)
(***************************************************************************)
THEOREM VerifierTypes == SpecBeside => []TypesBeside
  <1>1. VInv => TypesBeside
    BY DEF VInv, IInv, TypesBeside
  <1> QED BY InitiallyBeside, StepBesidePreserves, <1>1, PTL DEF SpecBeside

(***************************************************************************)
(* Each source that a pass counts as cleared was acquired from the target  *)
(* and under the disposition the verifier read of it, however many writes  *)
(* of however many freezes came between its reads.                         *)
(***************************************************************************)
THEOREM PassRestsOnAcquisitions == SpecBeside => []PassedWasAcquired
  <1>1. VInv => PassedWasAcquired
    <2> SUFFICES ASSUME VInv, verifier.exit = 0, NEW s \in Sources,
                        verifier.rights[s].disposition \in Cleared
                 PROVE  [source |-> s, target |-> verifier.rights[s].target,
                         disposition |-> verifier.rights[s].disposition,
                         body |-> verifier.index.entries[s].body] \in acquired
      BY DEF PassedWasAcquired
    <2>1. verifier.index # Absent /\ s \in Listed /\ Holds(s)
      BY DEF VInv, SoFar, Covered
    <2>2. /\ verifier.rights[s].target = verifier.index.entries[s].target
          /\ verifier.rights[s].disposition = verifier.index.entries[s].disposition
      BY <2>1 DEF Holds, TermsAgree
    <2> QED BY <2>1, <2>2 DEF VInv, Remembered, EntriesAcquired, Listed
  <1> QED BY InitiallyBeside, StepBesidePreserves, <1>1, PTL DEF SpecBeside
-----------------------------------------------------------------------------
(* A checkout without the files that git ignores.                          *)

\* The internal file the verifier would take of an entry is not its bytes.
Mistaken(s) ==
    /\ index.entries[s] # Absent /\ index.entries[s].disposition = Internal
    /\ Candidates(s) # {} /\ bytes["internal"][s][First(s)] # index.entries[s].body

\* Leaving the internal files behind fails no package that verified, and is
\* what makes one verify only if an internal file was in its way.
CheckoutExcuses ==
    [][Checkout => /\ Verifies => Verifies'
                   /\ Verifies' /\ ~Verifies => \E s \in Sources : Mistaken(s)]_allVars

LEMMA CheckoutOnlyExcuses ==
    ASSUME VInv, Checkout
    PROVE  /\ Verifies => Verifies'
           /\ Verifies' /\ ~Verifies => \E s \in Sources : Mistaken(s)
  <1>1. /\ bytes' = [bytes EXCEPT !["internal"] = NoFiles]
        /\ UNCHANGED <<rights, receipts, index, sums>>
    BY DEF Checkout
  <1>2. bytes \in [Areas -> [Sources -> [Suffixes -> Bodies \cup {Absent}]]]
    BY DEF VInv, IInv, TypeOK
  <1>3. /\ bytes'["sources"] = bytes["sources"]
        /\ \A s \in Sources : Candidates(s)' = {}
    BY <1>1, <1>2 DEF Areas, NoFiles, Candidates
  <1>4. \A s \in Sources : \A e : BytesAgree(s, e)' <=>
           (e.disposition = Repository => BytesAgree(s, e))
    BY <1>3 DEF BytesAgree
  <1>5. \A s \in Sources : \A e : EntryAgrees(s, e) <=> EntryAgrees(s, e)' /\ BytesAgree(s, e)
    BY <1>1, <1>4 DEF EntryAgrees
  <1>6. \A s \in Sources : Coverage(s)' <=> Coverage(s)
    BY <1>1 DEF Coverage
  <1>7. Verifies => Verifies'
    BY <1>1, <1>5, <1>6 DEF Verifies
  <1>8. ASSUME Verifies', ~Verifies PROVE \E s \in Sources : Mistaken(s)
    <2>1. PICK s \in Sources :
             index.entries[s] # Absent /\ ~BytesAgree(s, index.entries[s])
      BY <1>1, <1>5, <1>6, <1>8 DEF Verifies
    <2>2. index # Absent
      BY <1>1, <1>8 DEF Verifies
    <2>3. index.entries[s] \in Entry
      BY <2>1, <2>2 DEF VInv, IInv, TypeOK, Index, Entries
    <2>4. BytesAgree(s, index.entries[s])'
      <3>1. EntryAgrees(s, index.entries[s])'
        BY <1>1, <1>8, <2>1 DEF Verifies
      <3> QED BY <3>1 DEF EntryAgrees
    <2>5. index.entries[s].disposition # Repository
      BY <1>1, <1>4, <2>1, <2>4
    <2>6. index.entries[s].disposition = Internal
      BY <2>3, <2>5 DEF Entry, Cleared
    <2> QED BY <2>1, <2>5, <2>6 DEF Mistaken, BytesAgree
  <1> QED BY <1>7, <1>8

(***************************************************************************)
(* INTERNAL_ONLY bytes are not committed, so that a package is verified    *)
(* without them elsewhere (scripts/verify_canada_freeze.py takes the first *)
(* file its glob finds, if there is one).  In any checkout the bytes that  *)
(* are there were cleared for where they are, and a package that verifies  *)
(* was acquired under the rights; none comes to fail by being checked out, *)
(* and one that fails may come to verify so, if the internal file that     *)
(* would have been taken is not the one its index names.                   *)
(***************************************************************************)
THEOREM CheckoutsKeepThePromises ==
    SpecBeside => []StoredAsCleared /\ []VerifiedWasAcquired /\ CheckoutExcuses
  <1>1. VInv => StoredAsCleared /\ VerifiedWasAcquired
    BY VerifiedIsAcquired DEF VInv, IInv
  <1>2. VInv /\ [NextBeside]_allVars =>
           [Checkout => /\ Verifies => Verifies'
                        /\ Verifies' /\ ~Verifies => \E s \in Sources : Mistaken(s)]_allVars
    BY CheckoutOnlyExcuses
  <1> QED BY InitiallyBeside, StepBesidePreserves, <1>1, <1>2, PTL
          DEF SpecBeside, CheckoutExcuses
-----------------------------------------------------------------------------
(***************************************************************************)
(* A verification during which nothing was written: what was read is what  *)
(* is there, and "failed" says which entries taken so far do not agree.    *)
(***************************************************************************)
ReceiptAgrees(s) ==
    /\ TermsAgree(rights[s], index.entries[s])
    /\ receipts[s] = [target |-> index.entries[s].target, body |-> index.entries[s].body]

Wrong ==
    \/ ~Covered \/ \E s \in Sources \ Listed : receipts[s] # Absent
    \/ \E s \in Listed \ verifier.todo : ~EntryAgrees(s, index.entries[s])

ReadsArePresent ==
    /\ verifier.phase \in {"rights", "sha256", "sha512", "listing"} \cup Reading =>
          index # Absent /\ verifier.index = index
    /\ verifier.phase \in {"sha256", "sha512", "listing"} \cup Reading =>
          verifier.rights = rights
    /\ verifier.phase \in {"sha512", "listing"} \cup Reading =>
          sums["sha256"] # Absent /\ verifier.sums["sha256"] = sums["sha256"]
    /\ verifier.phase \in {"listing"} \cup Reading =>
          sums["sha512"] # Absent /\ verifier.sums["sha512"] = sums["sha512"]

FailedIsWrong ==
    /\ verifier.phase \in Reading => verifier.todo \subseteq Listed
    /\ verifier.phase = "receipt" => (verifier.failed <=> Wrong)
    /\ verifier.phase \in {"glob", "bytes"} =>
          /\ verifier.todo # {}
          /\ verifier.failed <=> Wrong \/ ~ReceiptAgrees(Now)
    /\ verifier.phase = "glob" => EntryNow.disposition # Repository
    /\ verifier.phase = "bytes" =>
          IF EntryNow.disposition = Repository THEN verifier.found = Absent
          ELSE Candidates(Now) # {} /\ verifier.found = First(Now)
    /\ verifier.phase \notin {"bytes", "exited"} => verifier.found = Absent

Quiet == watch.writes = 0 => ReadsArePresent /\ FailedIsWrong
QInv == VInv /\ Quiet

LEMMA NowIsDue ==
    ASSUME VInv, verifier.todo # {}
    PROVE  Now \in verifier.todo /\ Now \in Sources
  <1>1. verifier.todo \subseteq Sources /\ verifier.todo \subseteq Nat
    BY SourcesAssumption DEF VInv, Verifier
  <1>2. \E s \in verifier.todo : \A t \in verifier.todo : s <= t
    BY <1>1, LeastExists
  <1> QED BY <1>1, <1>2 DEF Now

\* An entry agrees when its receipt, its bytes and its ledger lines do.
LEMMA AgreementSplits ==
    ASSUME ReadsArePresent, verifier.phase \in Reading
    PROVE  /\ EntryNow = index.entries[Now]
           /\ EntryAgrees(Now, index.entries[Now]) <=>
                 ReceiptAgrees(Now) /\ BytesAgree(Now, EntryNow) /\ LedgersAgree
  <1>1. \A a \in Algorithms : verifier.sums[a] = sums[a]
    BY DEF ReadsArePresent, Algorithms
  <1>2. EntryNow = index.entries[Now]
    BY DEF ReadsArePresent, EntryNow
  <1> QED BY <1>1, <1>2 DEF EntryAgrees, ReceiptAgrees, TermsAgree, LedgersAgree

LEMMA QuietInitially == InitBeside => Quiet
  BY DEF InitBeside, Quiet, ReadsArePresent, FailedIsWrong, Reading

\* Nothing the verifier reads has changed.
LEMMA UndisturbedStaysQuiet ==
    ASSUME Quiet, watch'.writes = 0 => watch.writes = 0 /\ UNCHANGED <<rights, package>>,
           UNCHANGED verifier
    PROVE  Quiet'
  <1> SUFFICES ASSUME watch'.writes = 0 PROVE (ReadsArePresent /\ FailedIsWrong)'
    BY DEF Quiet
  <1>1. /\ ReadsArePresent /\ FailedIsWrong
        /\ UNCHANGED <<rights, bytes, receipts, index, sums, verifier>>
    BY DEF Quiet, package
  <1>2. ReadsArePresent'
    BY <1>1 DEF ReadsArePresent
  <1>3. /\ Wrong' <=> Wrong
        /\ Listed' = Listed /\ Now' = Now /\ EntryNow' = EntryNow
        /\ (Candidates(Now) # {})' <=> Candidates(Now) # {}
        /\ First(Now)' = First(Now) /\ (ReceiptAgrees(Now)' <=> ReceiptAgrees(Now))
    BY <1>1 DEF Wrong, Covered, Listed, Now, EntryNow, EntryAgrees, BytesAgree, Candidates, First,
                ReceiptAgrees, TermsAgree
  <1>4. FailedIsWrong'
    BY <1>1, <1>3 DEF FailedIsWrong
  <1> QED BY <1>2, <1>4

LEMMA BesideStaysQuiet == QInv /\ Beside => Quiet'
  <1> SUFFICES ASSUME QInv, Beside PROVE Quiet'
    OBVIOUS
  <1>1. UNCHANGED verifier /\ watch.writes \in 0..2
    BY DEF Beside, QInv, VInv, Watch
  <1>2. CASE Running
    <2>1. watch'.writes = UpTo2(watch.writes, Running /\ <<rights, package>>' # <<rights, package>>)
      BY DEF Beside
    <2>2. watch'.writes = 0 => watch.writes = 0 /\ UNCHANGED <<rights, package>>
      BY <1>1, <1>2, <2>1 DEF UpTo2
    <2> QED BY <1>1, <2>2, UndisturbedStaysQuiet DEF QInv
  <1>3. CASE ~Running
    <2>1. verifier.phase = "idle"
      BY <1>3 DEF Beside, Running
    <2>2. watch'.writes = 0 => watch.writes = 0
      BY <1>1, <1>3 DEF Beside, UpTo2
    <2> QED BY <1>1, <2>1, <2>2 DEF QInv, Quiet, ReadsArePresent, FailedIsWrong, Reading
  <1> QED BY <1>2, <1>3

LEMMA StartStaysQuiet == QInv /\ (Checkout \/ StartVerifier) => Quiet'
  <1> SUFFICES ASSUME QInv, Checkout \/ StartVerifier PROVE Quiet'
    OBVIOUS
  <1>1. verifier'.phase \in {"idle", "index"} /\ verifier'.found = verifier.found
    BY DEF QInv, VInv, Verifier, Checkout, StartVerifier
  <1>2. verifier.phase = "idle" /\ watch'.writes = watch.writes
    BY DEF QInv, VInv, Watch, Checkout, StartVerifier
  <1> QED BY <1>1, <1>2 DEF QInv, Quiet, ReadsArePresent, FailedIsWrong, Reading

\* What the step of a verifier that is not disturbed may rely on.
LEMMA ConcludeStaysQuiet ==
    ASSUME QInv, NEW code, Conclude(code)
    PROVE  Quiet'
  <1>1. verifier'.phase = "exited"
    BY DEF QInv, VInv, Verifier, Conclude
  <1> QED BY <1>1 DEF Quiet, ReadsArePresent, FailedIsWrong, Reading

LEMMA ReadingStaysQuiet ==
    ASSUME QInv, UNCHANGED <<vars, watch>>, ReadIndex \/ ReadRights \/ \E a \in Algorithms : ReadSums(a)
    PROVE  Quiet'
  <1>1. CASE \E code \in {2} : Conclude(code)
    BY <1>1, ConcludeStaysQuiet
  <1>2. CASE ReadIndex /\ ~Conclude(2)
    <2>1. index # Absent /\ verifier' = [verifier EXCEPT !.phase = "rights", !.index = index]
      BY <1>2 DEF ReadIndex
    <2>2. /\ verifier'.phase = "rights" /\ verifier'.index = index
          /\ verifier'.found = verifier.found /\ verifier.phase = "index"
      BY <1>2, <2>1 DEF QInv, VInv, Verifier, ReadIndex
    <2> QED BY <2>1, <2>2 DEF QInv, Quiet, ReadsArePresent, FailedIsWrong, Reading, vars
  <1>3. CASE ReadRights
    <2>1. /\ verifier'.phase = "sha256" /\ verifier'.index = verifier.index
          /\ verifier'.rights = rights
          /\ verifier'.found = verifier.found /\ verifier.phase = "rights"
      BY <1>3 DEF QInv, VInv, Verifier, ReadRights
    <2> QED BY <2>1 DEF QInv, Quiet, ReadsArePresent, FailedIsWrong, Reading, vars
  <1>4. ASSUME NEW a \in Algorithms, ReadSums(a), ~Conclude(2)
        PROVE  Quiet'
    <2>1. /\ sums[a] # Absent /\ verifier.phase = a
          /\ verifier' = [verifier EXCEPT
                !.phase = IF a = "sha256" THEN "sha512" ELSE "listing", !.sums[a] = sums[a]]
      BY <1>4 DEF ReadSums
    <2>2. /\ verifier'.phase = IF a = "sha256" THEN "sha512" ELSE "listing"
          /\ verifier'.index = verifier.index /\ verifier'.rights = verifier.rights
          /\ verifier'.found = verifier.found
          /\ verifier'.sums = [verifier.sums EXCEPT ![a] = sums[a]]
      BY <2>1 DEF QInv, VInv, Verifier
    <2>3. /\ verifier'.sums[a] = sums[a]
          /\ \A b \in Algorithms \ {a} : verifier'.sums[b] = verifier.sums[b]
      BY <2>2 DEF QInv, VInv, Verifier
    <2>4. CASE a = "sha256"
      BY <2>1, <2>2, <2>3, <2>4 DEF QInv, Quiet, ReadsArePresent, FailedIsWrong, Reading, vars
    <2>5. CASE a = "sha512"
      <3>1. verifier'.sums["sha256"] = verifier.sums["sha256"]
        BY <2>3, <2>5 DEF Algorithms
      <3> QED BY <2>1, <2>2, <2>3, <2>5, <3>1
              DEF QInv, Quiet, ReadsArePresent, FailedIsWrong, Reading, vars
    <2> QED BY <2>4, <2>5 DEF Algorithms
  <1> QED BY <1>1, <1>2, <1>3, <1>4

LEMMA ListingStaysQuiet ==
    ASSUME QInv, UNCHANGED <<vars, watch>>, ListReceipts
    PROVE  Quiet'
  <1> DEFINE failed == ~Covered \/ \E s \in Sources \ Listed : receipts[s] # Absent
  <1>1. verifier' = [verifier EXCEPT !.phase = "receipt", !.todo = Listed, !.failed = failed]
    BY DEF ListReceipts, Covered
  <1>2. /\ verifier'.phase = "receipt" /\ verifier'.todo = Listed
        /\ verifier'.failed <=> failed
        /\ verifier'.rights = verifier.rights /\ verifier'.index = verifier.index
        /\ verifier'.found = verifier.found /\ verifier'.sums = verifier.sums
        /\ verifier.phase = "listing"
    BY <1>1 DEF QInv, VInv, Verifier, ListReceipts
  <1>3. (Covered' <=> Covered) /\ Listed' = Listed
    BY <1>2, SameReading
  <1>4. verifier'.failed <=> Wrong'
    BY <1>2, <1>3 DEF Wrong, vars
  <1>5. (watch.writes = 0 => ReadsArePresent /\ FailedIsWrong) /\ watch' = watch
    BY DEF QInv, Quiet
  <1>6. ReadsArePresent => ReadsArePresent'
    BY <1>2 DEF ReadsArePresent, Reading, vars
  <1>7. FailedIsWrong => FailedIsWrong'
    BY <1>2, <1>3, <1>4 DEF FailedIsWrong, Reading
  <1> QED BY <1>5, <1>6, <1>7 DEF Quiet


\* One more entry is done: "failed" takes up whether it agrees.
LEMMA EntryDoneStaysQuiet ==
    ASSUME QInv, UNCHANGED <<vars, watch>>, verifier.phase \in Reading, verifier.todo # {},
           NEW agrees \in BOOLEAN, EntryDone(agrees),
           watch.writes = 0 =>
              (verifier.failed \/ ~agrees <=> Wrong \/ ~EntryAgrees(Now, index.entries[Now]))
    PROVE  Quiet'
  <1> SUFFICES ASSUME watch.writes = 0 PROVE (ReadsArePresent /\ FailedIsWrong)'
    BY DEF Quiet
  <1>1. ReadsArePresent /\ FailedIsWrong
    BY DEF QInv, Quiet
  <1>2. /\ verifier'.phase = "receipt" /\ verifier'.todo = verifier.todo \ {Now}
        /\ verifier'.failed <=> verifier.failed \/ ~agrees
        /\ verifier'.rights = verifier.rights /\ verifier'.index = verifier.index
        /\ verifier'.found = Absent /\ verifier'.sums = verifier.sums
    BY DEF QInv, VInv, Verifier, EntryDone
  <1>3. (Covered' <=> Covered) /\ Listed' = Listed
    BY <1>2, SameReading
  <1>4. Now \in verifier.todo /\ verifier.todo \subseteq Listed
    BY <1>1, NowIsDue DEF QInv, FailedIsWrong
  <1>5. Listed' \ verifier'.todo = (Listed \ verifier.todo) \cup {Now}
    BY <1>2, <1>3, <1>4
  <1>6. \A s : EntryAgrees(s, index.entries[s])' <=> EntryAgrees(s, index.entries[s])
    BY DEF EntryAgrees, BytesAgree, Candidates, First, vars
  <1>7. Wrong' <=> Wrong \/ ~EntryAgrees(Now, index.entries[Now])
    BY <1>3, <1>5, <1>6 DEF Wrong, vars
  <1>8. ReadsArePresent'
    BY <1>1, <1>2 DEF ReadsArePresent, Reading, vars
  <1>9. FailedIsWrong'
    BY <1>2, <1>3, <1>4, <1>7 DEF FailedIsWrong, Reading
  <1> QED BY <1>8, <1>9

LEMMA CheckReceiptStaysQuiet ==
    ASSUME QInv, UNCHANGED <<vars, watch>>, CheckReceipt
    PROVE  Quiet'
  <1>1. verifier.phase = "receipt" /\ verifier.todo # {}
    BY DEF CheckReceipt
  <1>2. ASSUME watch.writes = 0
        PROVE  /\ ReadsArePresent /\ FailedIsWrong
               /\ verifier.rights = rights /\ EntryNow = index.entries[Now]
               /\ Now \in Listed /\ index.entries[Now] \in Entry
    <2>1. ReadsArePresent /\ FailedIsWrong
      BY <1>2 DEF QInv, Quiet
    <2>2. /\ verifier.rights = rights /\ index # Absent /\ verifier.index = index
          /\ verifier.todo \subseteq Listed
      BY <1>1, <2>1 DEF ReadsArePresent, FailedIsWrong, Reading
    <2>3. EntryNow = index.entries[Now] /\ Now \in Listed
      BY <1>1, <2>2, NowIsDue DEF QInv, EntryNow
    <2>4. index \in Index
      BY <2>2 DEF QInv, VInv, IInv, TypeOK
    <2>5. index.entries[Now] \in Entry
      BY <2>2, <2>3, <2>4 DEF Listed, Index, Entries
    <2> QED BY <2>1, <2>2, <2>3, <2>5
  <1>3. CASE receipts[Now] = Absent
    <2>1. EntryDone(FALSE)
      BY <1>3 DEF CheckReceipt
    <2>2. watch.writes = 0 => ~EntryAgrees(Now, index.entries[Now])
      BY <1>2, <1>3, FilesAssumption DEF EntryAgrees, Receipt, Entry
    <2> QED BY <1>1, <2>1, <2>2, EntryDoneStaysQuiet DEF Reading
  <1>4. CASE receipts[Now] # Absent
    <2> DEFINE agrees ==
          /\ TermsAgree(verifier.rights[Now], EntryNow)
          /\ receipts[Now] = [target |-> EntryNow.target, body |-> EntryNow.body]
               to == IF EntryNow.disposition = Repository THEN "bytes" ELSE "glob"
    <2>1. Judged(agrees, to)
      BY <1>4 DEF CheckReceipt
    <2>2. /\ verifier'.phase = to /\ verifier'.todo = verifier.todo
          /\ verifier'.failed <=> verifier.failed \/ ~agrees
          /\ verifier'.rights = verifier.rights /\ verifier'.index = verifier.index
          /\ verifier'.found = verifier.found /\ verifier'.sums = verifier.sums
      BY <2>1 DEF QInv, VInv, Judged, Verifier
    <2>3. to \in {"glob", "bytes"} /\ (to = "glob" <=> EntryNow.disposition # Repository)
      OBVIOUS
    <2>4. watch.writes = 0 => (agrees <=> ReceiptAgrees(Now))
      BY <1>2 DEF ReceiptAgrees
    <2> HIDE DEF agrees, to
    <2>5. /\ (Covered' <=> Covered) /\ Listed' = Listed /\ Now' = Now /\ EntryNow' = EntryNow
          /\ ReceiptAgrees(Now)' <=> ReceiptAgrees(Now)
      <3>1. Now' = Now
        BY <2>2 DEF Now
      <3>2. EntryNow' = EntryNow
        BY <2>2, <3>1 DEF EntryNow
      <3> QED BY <2>2, <3>1, <3>2, SameReading DEF ReceiptAgrees, vars
    <2>6. \A s : EntryAgrees(s, index.entries[s])' <=> EntryAgrees(s, index.entries[s])
      BY DEF EntryAgrees, BytesAgree, Candidates, First, vars
    <2>7. Wrong' <=> Wrong
      BY <2>2, <2>5, <2>6 DEF Wrong, vars
    <2>8. ASSUME watch.writes = 0 PROVE ReadsArePresent'
      BY <1>1, <1>2, <2>2, <2>3, <2>8 DEF ReadsArePresent, Reading, vars
    <2>9. ASSUME watch.writes = 0 PROVE FailedIsWrong'
      <3>1. FailedIsWrong /\ verifier.todo \subseteq Listed /\ (verifier.failed <=> Wrong)
            /\ verifier.found = Absent
        BY <1>1, <1>2, <2>9 DEF FailedIsWrong, Reading
      <3>2. verifier'.todo # {} /\ verifier'.todo \subseteq Listed'
            /\ (verifier'.failed <=> Wrong' \/ ~ReceiptAgrees(Now)')
        BY <1>1, <2>2, <2>4, <2>5, <2>7, <2>9, <3>1
      <3> QED BY <2>2, <2>3, <2>5, <3>1, <3>2 DEF FailedIsWrong
    <2> QED BY <2>8, <2>9 DEF Quiet
  <1> QED BY <1>3, <1>4

LEMMA TakeInternalStaysQuiet ==
    ASSUME QInv, UNCHANGED <<vars, watch>>, TakeInternal
    PROVE  Quiet'
  <1>1. verifier.phase = "glob"
    BY DEF TakeInternal
  <1>2. ASSUME watch.writes = 0
        PROVE  /\ ReadsArePresent /\ FailedIsWrong /\ verifier.todo # {}
               /\ EntryNow.disposition # Repository
               /\ verifier.failed <=> Wrong \/ ~ReceiptAgrees(Now)
    BY <1>1, <1>2 DEF QInv, Quiet, FailedIsWrong
  <1>3. CASE Candidates(Now) = {}
    <2>1. EntryDone(LedgersAgree) /\ LedgersAgree \in BOOLEAN
      BY <1>3 DEF TakeInternal, LedgersAgree
    <2>2. ASSUME watch.writes = 0
          PROVE  verifier.failed \/ ~LedgersAgree <=> Wrong \/ ~EntryAgrees(Now, index.entries[Now])
      <3>1. BytesAgree(Now, EntryNow)
        BY <1>2, <1>3, <2>2 DEF BytesAgree
      <3> QED BY <1>1, <1>2, <2>2, <3>1, AgreementSplits DEF Reading
    <2>3. CASE verifier.todo # {}
      BY <1>1, <2>1, <2>2, <2>3, EntryDoneStaysQuiet DEF Reading
    <2>4. CASE verifier.todo = {}
      BY <1>2, <2>4 DEF Quiet
    <2> QED BY <2>3, <2>4
  <1>4. CASE Candidates(Now) # {}
    <2>1. verifier' = [verifier EXCEPT !.phase = "bytes", !.found = First(Now)]
      BY <1>4 DEF TakeInternal
    <2>2. /\ verifier'.phase = "bytes" /\ verifier'.todo = verifier.todo
          /\ verifier'.failed = verifier.failed /\ verifier'.found = First(Now)
          /\ verifier'.rights = verifier.rights /\ verifier'.index = verifier.index
          /\ verifier'.sums = verifier.sums
      BY <2>1 DEF QInv, VInv, Verifier
    <2>3. /\ (Covered' <=> Covered) /\ Listed' = Listed /\ Now' = Now /\ EntryNow' = EntryNow
          /\ ReceiptAgrees(Now)' <=> ReceiptAgrees(Now)
      <3>1. Now' = Now
        BY <2>2 DEF Now
      <3>2. EntryNow' = EntryNow
        BY <2>2, <3>1 DEF EntryNow
      <3> QED BY <2>2, <3>1, <3>2, SameReading DEF ReceiptAgrees, vars
    <2>4. \A s : EntryAgrees(s, index.entries[s])' <=> EntryAgrees(s, index.entries[s])
      BY DEF EntryAgrees, BytesAgree, Candidates, First, vars
    <2>5. Wrong' <=> Wrong
      BY <2>2, <2>3, <2>4 DEF Wrong, vars
    <2>6. Candidates(Now)' = Candidates(Now) /\ First(Now)' = First(Now)
      BY <2>3 DEF Candidates, First, vars
    <2>7. ASSUME watch.writes = 0 PROVE ReadsArePresent'
      BY <1>1, <1>2, <2>2, <2>7 DEF ReadsArePresent, Reading, vars
    <2>8. ASSUME watch.writes = 0 PROVE FailedIsWrong'
      <3>1. verifier.todo \subseteq Listed
        BY <1>1, <1>2, <2>8 DEF FailedIsWrong, Reading
      <3> QED BY <1>2, <1>4, <2>2, <2>3, <2>5, <2>6, <2>8, <3>1 DEF FailedIsWrong
    <2> QED BY <2>7, <2>8 DEF Quiet
  <1> QED BY <1>3, <1>4

LEMMA CheckBytesStaysQuiet ==
    ASSUME QInv, UNCHANGED <<vars, watch>>, CheckBytes
    PROVE  Quiet'
  <1> DEFINE suffix == IF verifier.found = Absent THEN EntryNow.suffix ELSE verifier.found
             agrees == /\ bytes[AreaOf(EntryNow.disposition)][Now][suffix] = EntryNow.body
                       /\ LedgersAgree
  <1>1. verifier.phase = "bytes" /\ EntryDone(agrees)
    BY DEF CheckBytes
  <1>2. agrees \in BOOLEAN
    BY DEF LedgersAgree
  <1>3. ASSUME watch.writes = 0
        PROVE  /\ verifier.todo # {}
               /\ verifier.failed \/ ~agrees <=> Wrong \/ ~EntryAgrees(Now, index.entries[Now])
    <2>1. /\ ReadsArePresent /\ verifier.todo # {}
          /\ verifier.failed <=> Wrong \/ ~ReceiptAgrees(Now)
          /\ IF EntryNow.disposition = Repository THEN verifier.found = Absent
             ELSE Candidates(Now) # {} /\ verifier.found = First(Now)
      BY <1>1, <1>3 DEF QInv, Quiet, FailedIsWrong
    <2>2. agrees <=> BytesAgree(Now, EntryNow) /\ LedgersAgree
      <3>1. CASE EntryNow.disposition = Repository
        BY <2>1, <3>1 DEF BytesAgree, AreaOf
      <3>2. CASE EntryNow.disposition # Repository
        <4>1. First(Now) \in Suffixes /\ First(Now) # Absent
          BY <2>1, <3>2, FirstType, BodiesAssumption
        <4> QED BY <2>1, <3>2, <4>1 DEF BytesAgree, AreaOf
      <3> QED BY <3>1, <3>2
    <2> HIDE DEF agrees
    <2> QED BY <1>1, <2>1, <2>2, AgreementSplits DEF Reading
  <1> HIDE DEF agrees
  <1>4. CASE verifier.todo # {}
    BY <1>1, <1>2, <1>3, <1>4, EntryDoneStaysQuiet DEF Reading
  <1>5. CASE verifier.todo = {}
    BY <1>3, <1>5 DEF Quiet
  <1> QED BY <1>4, <1>5

LEMMA StepStaysQuiet == QInv /\ [NextBeside]_allVars => QInv'
  <1> SUFFICES ASSUME QInv, [NextBeside]_allVars PROVE QInv'
    OBVIOUS
  <1>1. VInv'
    BY StepBesidePreserves DEF QInv
  <1>2. CASE UNCHANGED allVars
    <2>1. UNCHANGED <<rights, package>> /\ UNCHANGED verifier /\ UNCHANGED watch
      BY <1>2 DEF allVars, vars, package
    <2> QED BY <1>1, <2>1, UndisturbedStaysQuiet DEF QInv
  <1>3. CASE Verify
    <2>1. UNCHANGED <<vars, watch>>
      BY <1>3 DEF Verify
    <2>2. CASE Report
      <3>1. PICK code : Conclude(code)
        BY <2>2 DEF Report
      <3> QED BY <3>1, <1>1, ConcludeStaysQuiet DEF QInv
    <2> QED BY <1>1, <1>3, <2>1, <2>2, ReadingStaysQuiet, ListingStaysQuiet, CheckReceiptStaysQuiet,
            TakeInternalStaysQuiet, CheckBytesStaysQuiet DEF Verify, QInv
  <1>4. CASE Beside \/ Checkout \/ StartVerifier
    BY <1>1, <1>4, BesideStaysQuiet, StartStaysQuiet DEF QInv
  <1> QED BY <1>2, <1>3, <1>4 DEF NextBeside

\* When all entries are taken, nothing is wrong exactly if the package verifies.
LEMMA NothingWrong ==
    ASSUME VInv, ReadsArePresent, verifier.phase = "receipt", verifier.todo = {}
    PROVE  ~Wrong <=> Verifies
  <1>1. /\ index # Absent /\ verifier.index = index /\ verifier.rights = rights
        /\ \A a \in Algorithms : sums[a] # Absent
    BY DEF ReadsArePresent, Reading, Algorithms
  <1>2. Listed = {s \in Sources : index.entries[s] # Absent}
    BY <1>1 DEF Listed
  <1>3. Covered <=> \A s \in Sources : Coverage(s)
    BY <1>1, <1>2 DEF Covered, Coverage
  <1>4. (\E s \in Sources \ Listed : receipts[s] # Absent)
           <=> ~\A s \in Sources : receipts[s] # Absent => index.entries[s] # Absent
    BY <1>2
  <1>5. (\E s \in Listed \ verifier.todo : ~EntryAgrees(s, index.entries[s]))
           <=> ~\A s \in Sources : index.entries[s] # Absent => EntryAgrees(s, index.entries[s])
    BY <1>2
  <1> QED BY <1>1, <1>3, <1>4, <1>5 DEF Wrong, Verifies

QuietStep ==
    verifier'.exit # verifier.exit /\ watch.writes = 0 =>
        verifier'.exit = IF index = Absent \/ \E a \in Algorithms : sums[a] = Absent THEN 2
                         ELSE IF Verifies THEN 0 ELSE 1

LEMMA QuietStepsConclude == QInv /\ [NextBeside]_allVars => [QuietStep]_allVars
  <1> SUFFICES ASSUME QInv, NextBeside, verifier'.exit # verifier.exit, watch.writes = 0
               PROVE  verifier'.exit =
                         IF index = Absent \/ \E a \in Algorithms : sums[a] = Absent THEN 2
                         ELSE IF Verifies THEN 0 ELSE 1
    BY DEF QuietStep
  <1>1. ReadsArePresent /\ FailedIsWrong /\ verifier \in Verifier
    BY DEF QInv, VInv, Quiet
  <1>2. CASE Beside \/ Checkout \/ StartVerifier
    BY <1>1, <1>2 DEF Beside, Checkout, StartVerifier, Verifier
  <1>3. CASE ReadIndex \/ ReadRights \/ \E a \in Algorithms : ReadSums(a)
    BY <1>1, <1>3 DEF ReadIndex, ReadRights, ReadSums, Conclude, Verifier
  <1>4. CASE ListReceipts \/ CheckReceipt \/ TakeInternal \/ CheckBytes
    BY <1>1, <1>4 DEF ListReceipts, CheckReceipt, TakeInternal, CheckBytes, EntryDone, Judged, Verifier
  <1>5. CASE Report
    <2>1. verifier.phase = "receipt" /\ verifier.todo = {}
          /\ verifier'.exit = IF verifier.failed THEN 1 ELSE 0
      BY <1>1, <1>5 DEF Report, Conclude, Verifier
    <2>2. verifier.failed <=> Wrong
      BY <1>1, <2>1 DEF FailedIsWrong
    <2>3. ~Wrong <=> Verifies
      BY <1>1, <2>1, NothingWrong DEF QInv
    <2>4. index # Absent /\ \A a \in Algorithms : sums[a] # Absent
      BY <1>1, <2>1 DEF ReadsArePresent, Reading, Algorithms
    <2> QED BY <2>1, <2>2, <2>3, <2>4
  <1> QED BY <1>2, <1>3, <1>4, <1>5 DEF NextBeside, Verify

(***************************************************************************)
(* The verifier's reads, one by one, come to the verdict CorpusFreeze      *)
(* gives at once, when nothing is written between the first and the last:  *)
(* verify_canada_freeze.py reports 2, 0 and 1 exactly as it should.        *)
(***************************************************************************)
THEOREM ReadsComeToTheVerdict == SpecBeside => QuietVerdict
  <1>1. InitBeside => QInv
    BY InitiallyBeside, QuietInitially DEF QInv
  <1>2. QInv /\ [NextBeside]_allVars => [QuietStep]_allVars
    BY QuietStepsConclude
  <1> QED BY <1>1, <1>2, StepStaysQuiet, PTL DEF SpecBeside, QuietVerdict, QuietStep
-----------------------------------------------------------------------------
(***************************************************************************)
(* The freeze record.  A summary says no more than how each source was     *)
(* frozen, which the lines of a ledger tell as well; so that an index      *)
(* which agrees with the ledgers has the summary of the run that wrote     *)
(* them, and without a stop that is the run that wrote the record.         *)
(***************************************************************************)
KindOf(e) == IF e = Absent THEN Blocked ELSE e.disposition
KindsOf(entries) == [s \in Sources |-> KindOf(entries[s])]
LineKind(line) ==
    IF line = Absent THEN Blocked ELSE IF line.path = Absent THEN Internal ELSE Repository
KindsIn(ledger) == [s \in Sources |-> LineKind(ledger[s])]

Told(kinds) ==
    LET blocked == {s \in Sources : kinds[s] = Blocked}
    IN  [disposition |-> CASE blocked = {} -> "COMPLETE"
                           [] blocked # {} /\ blocked # Sources -> "PARTIAL"
                           [] OTHER -> "BLOCKED",
         blocked |-> blocked, committed |-> {s \in Sources : kinds[s] = Repository},
         internal |-> {s \in Sources : kinds[s] = Internal}]

IndexTells == IF index = Absent THEN Absent ELSE index.summary
SumsTell(a) == IF sums[a] = Absent THEN Absent ELSE Told(KindsIn(sums[a]))

Summarised ==
    /\ index # Absent => index.summary = Told(KindsOf(index.entries))
    /\ \A a \in Algorithms : sums[a] # Absent =>
          \A s \in Sources : sums[a][s] # Absent => receipts[s] # Absent

RecordAgrees == narrative = IndexTells
LedgersFollow == \A a \in Algorithms : narrative = SumsTell(a)

\* What the record agrees with while no freeze, or only one, was stopped.
Unstopped ==
    watch.stops = 0 =>
        /\ freezer.phase \notin {"sha256", "sha512"} => LedgersFollow
        /\ freezer.phase = "sha512" => narrative = SumsTell("sha256")
        /\ freezer.phase # "record" => RecordAgrees
StoppedOnce == watch.stops < 2 /\ freezer.phase # "record" => RecordAgrees \/ LedgersFollow

RInv == VInv /\ Written /\ Summarised /\ Unstopped /\ StoppedOnce

\* The index of a freeze that has one entry for each cleared source.
LEMMA SummaryTold ==
    ASSUME NEW entries \in Entries, NEW matrix \in Matrices,
           \A s \in Sources : entries[s] # Absent => entries[s].disposition = matrix[s].disposition,
           \A s \in Sources : matrix[s].disposition \in Cleared => entries[s] # Absent
    PROVE  Summary(entries, matrix) = Told(KindsOf(entries))
  <1>1. ASSUME NEW s \in Sources
        PROVE  /\ matrix[s].disposition \in Cleared \cup {Blocked}
               /\ entries[s] # Absent => entries[s].disposition \in Cleared
               /\ KindsOf(entries)[s] = matrix[s].disposition
    <2>1. matrix[s] \in Record /\ (entries[s] # Absent => entries[s] \in Entry)
      BY MatricesAssumption DEF Entries
    <2>2. /\ matrix[s].disposition \in Cleared \cup {Blocked}
          /\ entries[s] # Absent => entries[s].disposition \in Cleared
      BY <2>1 DEF Record, Entry
    <2> QED BY <2>2 DEF KindsOf, KindOf
  <1>2. Blocked \notin Cleared /\ Repository # Internal
    BY DEF Blocked, Cleared, Repository, Internal
  <1>3. {s \in Sources : matrix[s].disposition = Blocked}
            = {s \in Sources : KindsOf(entries)[s] = Blocked}
    BY <1>1
  <1>4. ASSUME NEW d \in Cleared
        PROVE  Having(entries, {d}) = {s \in Sources : KindsOf(entries)[s] = d}
    BY <1>1, <1>2 DEF Having
  <1>5. Having(entries, Cleared) # {} <=>
            {s \in Sources : KindsOf(entries)[s] = Blocked} # Sources
    BY <1>1, <1>2 DEF Having
  <1>6. Repository \in Cleared /\ Internal \in Cleared
    BY DEF Cleared
  <1>7. /\ Having(entries, {Repository}) = {s \in Sources : KindsOf(entries)[s] = Repository}
        /\ Having(entries, {Internal}) = {s \in Sources : KindsOf(entries)[s] = Internal}
    BY <1>4, <1>6
  <1> HIDE DEF KindsOf
  <1> QED BY <1>3, <1>5, <1>7 DEF Summary, Told

\* A ledger tells what the entries it was written from do.
LEMMA LineTells ==
    ASSUME NEW e \in Entry
    PROVE  LineOf(e) # Absent /\ LineKind(LineOf(e)) = KindOf(e)
  <1>1. e.suffix \in Suffixes /\ e.suffix # Absent /\ e.body \in Bodies /\ e.disposition \in Cleared
    BY BodiesAssumption DEF Entry
  <1>2. LineOf(e) \in Line
    BY <1>1 DEF LineOf, Line
  <1>3. LineOf(e) # Absent /\ e # Absent
    BY <1>2, FilesAssumption
  <1>4. LineOf(e).path = IF e.disposition = Repository THEN e.suffix ELSE Absent
    BY DEF LineOf
  <1> QED BY <1>1, <1>3, <1>4 DEF LineKind, KindOf, Cleared

LEMMA LedgerTells ==
    ASSUME NEW entries \in Entries
    PROVE  KindsIn(LedgerOf(entries)) = KindsOf(entries)
  <1>1. ASSUME NEW s \in Sources
        PROVE  LineKind(LedgerOf(entries)[s]) = KindOf(entries[s])
    <2>1. CASE entries[s] = Absent
      BY <2>1 DEF LedgerOf, LineKind, KindOf
    <2>2. CASE entries[s] # Absent
      <3>1. entries[s] \in Entry /\ LedgerOf(entries)[s] = LineOf(entries[s])
        BY <2>2 DEF Entries, LedgerOf
      <3> QED BY <3>1, LineTells
    <2> QED BY <2>1, <2>2
  <1> QED BY <1>1 DEF KindsIn, KindsOf

LEMMA StepStaysWritten == IInv /\ Written /\ [Next]_vars => Written'
  <1>1. Written /\ Revise => Written'
    BY SamePackageWritten DEF Revise
  <1>2. Written /\ UNCHANGED vars => Written'
    BY SamePackageWritten DEF vars, package
  <1> QED BY <1>1, <1>2, StartWritten, AcquireWritten, StoreBytesWritten, StoreReceiptWritten,
             WriteIndexWritten, WriteRecordWritten, WriteSumsWritten, KillWritten DEF Next, Step

\* What the freeze under way has written, told by kinds.
LEMMA WritingTells ==
    ASSUME RInv, freezer.phase \in Writing, freezer.todo = {}
    PROVE  /\ freezer.entries \in Entries
           /\ Summary(freezer.entries, freezer.snapshot) = Told(KindsOf(freezer.entries))
           /\ KindsIn(LedgerOf(freezer.entries)) = KindsOf(freezer.entries)
           /\ \A s \in Sources : freezer.entries[s] # Absent => receipts[s] # Absent
  <1>1. freezer.entries \in Entries /\ freezer.snapshot \in Matrices
    BY DEF RInv, VInv, IInv, TypeOK, Freezer
  <1>2. Frozen(freezer.entries) /\ Complete(freezer.entries, {})
    BY DEF RInv, Written
  <1>3. /\ \A s \in Sources : freezer.entries[s] # Absent =>
               freezer.entries[s].disposition = freezer.snapshot[s].disposition
        /\ \A s \in Sources : freezer.snapshot[s].disposition \in Cleared =>
               freezer.entries[s] # Absent
    BY <1>2 DEF Frozen, Kept, Complete
  <1>4. ASSUME NEW s \in Sources, freezer.entries[s] # Absent
        PROVE  receipts[s] # Absent
    <2>1. freezer.entries[s] \in Entry
      BY <1>1, <1>4 DEF Entries
    <2>2. receipts[s] = [target |-> freezer.entries[s].target, body |-> freezer.entries[s].body]
      BY <1>2, <1>4 DEF Frozen, Kept
    <2>3. receipts[s] \in Receipt
      BY <2>1, <2>2 DEF Entry, Receipt
    <2> QED BY <2>3, FilesAssumption
  <1> QED BY <1>1, <1>3, <1>4, SummaryTold, LedgerTells

\* Files that stay as they are say what they said.
LEMMA SameFiles ==
    ASSUME Summarised, UNCHANGED <<index, narrative, sums>>,
           \A s \in Sources : receipts[s] # Absent => receipts'[s] # Absent
    PROVE  /\ Summarised' /\ (RecordAgrees' <=> RecordAgrees)
           /\ (LedgersFollow' <=> LedgersFollow) /\ \A a : SumsTell(a)' = SumsTell(a)
  <1>1. \A a : SumsTell(a)' = SumsTell(a)
    BY DEF SumsTell
  <1>2. Summarised'
    BY DEF Summarised
  <1> QED BY <1>1, <1>2 DEF RecordAgrees, IndexTells, LedgersFollow

Early == {"idle", "acquire", "bytes", "receipt", "exited"}

\* A step before the index, or between two freezes.
LEMMA EarlyStep ==
    ASSUME RInv, freezer.phase \in Early, freezer'.phase \in Early, watch'.stops = watch.stops,
           UNCHANGED <<index, narrative, sums>>,
           \A s \in Sources : receipts[s] # Absent => receipts'[s] # Absent
    PROVE  Summarised' /\ Unstopped' /\ StoppedOnce'
  <1>1. /\ Summarised' /\ (RecordAgrees' <=> RecordAgrees)
        /\ (LedgersFollow' <=> LedgersFollow)
    BY SameFiles DEF RInv
  <1>2. /\ freezer.phase \notin {"record", "sha256", "sha512"}
        /\ freezer'.phase \notin {"record", "sha256", "sha512"}
    BY DEF Early
  <1>3. Unstopped'
    BY <1>1, <1>2 DEF RInv, Unstopped
  <1>4. StoppedOnce'
    BY <1>1, <1>2 DEF RInv, StoppedOnce
  <1> QED BY <1>1, <1>3, <1>4

LEMMA StopStep ==
    ASSUME RInv, freezer.phase \in Writing, NEW code \in {1, 2, 9}, Exit(code),
           watch'.stops = UpTo2(watch.stops, TRUE),
           UNCHANGED <<receipts, index, narrative, sums>>
    PROVE  Summarised' /\ Unstopped' /\ StoppedOnce'
  <1>1. /\ Summarised' /\ (RecordAgrees' <=> RecordAgrees)
        /\ (LedgersFollow' <=> LedgersFollow)
    BY SameFiles DEF RInv
  <1>2. watch.stops \in 0..2 /\ watch'.stops # 0 /\ (watch'.stops < 2 => watch.stops = 0)
    BY DEF RInv, VInv, Watch, UpTo2
  <1>3. freezer.phase \in {"sha256", "sha512"} => RecordAgrees
    <2>1. ASSUME freezer.phase \in {"sha256", "sha512"}
          PROVE  index # Absent /\ narrative = index.summary
      <3>1. index = IndexOf(freezer.entries) /\ narrative = index.summary
        BY <2>1 DEF RInv, Written
      <3>2. index \in Index
        <4>1. freezer.entries \in Entries /\ freezer.snapshot \in Matrices
          BY DEF RInv, VInv, IInv, TypeOK, Freezer
        <4>2. Summary(freezer.entries, freezer.snapshot) \in Narrative
          BY <4>1, SummaryType
        <4> QED BY <3>1, <4>1, <4>2 DEF IndexOf, Index
      <3> QED BY <3>1, <3>2, FilesAssumption
    <2> QED BY <2>1 DEF RecordAgrees, IndexTells
  <1>4. watch.stops = 0 => RecordAgrees \/ LedgersFollow
    BY <1>3 DEF RInv, Unstopped
  <1>5. Unstopped' /\ StoppedOnce'
    BY <1>1, <1>2, <1>4 DEF Unstopped, StoppedOnce
  <1> QED BY <1>1, <1>5

LEMMA IndexStep ==
    ASSUME RInv, freezer.phase = "acquire", freezer.todo = {}, Advance("record"),
           index' = IndexOf(freezer.entries), watch'.stops = watch.stops,
           UNCHANGED <<receipts, narrative, sums>>
    PROVE  Summarised' /\ Unstopped' /\ StoppedOnce'
  <1>1. freezer'.phase = "record"
    BY DEF RInv, VInv, IInv, TypeOK, Freezer, Advance
  <1>2. /\ index'.entries = freezer.entries
        /\ index'.summary = Told(KindsOf(freezer.entries))
    BY WritingTells DEF Writing, IndexOf
  <1>3. Summarised'
    BY <1>2 DEF RInv, Summarised
  <1>4. LedgersFollow' <=> LedgersFollow
    BY DEF LedgersFollow, SumsTell
  <1>5. Unstopped' /\ StoppedOnce'
    BY <1>1, <1>4 DEF RInv, Unstopped, StoppedOnce
  <1> QED BY <1>3, <1>5

LEMMA RecordStep ==
    ASSUME RInv, freezer.phase = "record", Advance("sha256"),
           narrative' = Summary(freezer.entries, freezer.snapshot), watch'.stops = watch.stops,
           UNCHANGED <<receipts, index, sums>>
    PROVE  Summarised' /\ Unstopped' /\ StoppedOnce'
  <1>1. freezer'.phase = "sha256"
    BY DEF RInv, VInv, IInv, TypeOK, Freezer, Advance
  <1>2. index = IndexOf(freezer.entries) /\ index \in Index \cup {Absent}
    BY DEF RInv, Written, VInv, IInv, TypeOK
  <1>3. index # Absent
    <2>1. freezer.entries \in Entries /\ freezer.snapshot \in Matrices
      BY DEF RInv, VInv, IInv, TypeOK, Freezer
    <2>2. Summary(freezer.entries, freezer.snapshot) \in Narrative
      BY <2>1, SummaryType
    <2>3. index \in Index
      BY <1>2, <2>1, <2>2 DEF IndexOf, Index
    <2> QED BY <2>3, FilesAssumption
  <1>4. RecordAgrees'
    BY <1>2, <1>3 DEF RecordAgrees, IndexTells, IndexOf
  <1>5. Summarised'
    BY DEF RInv, Summarised
  <1>6. Unstopped' /\ StoppedOnce'
    BY <1>1, <1>4 DEF Unstopped, StoppedOnce
  <1> QED BY <1>5, <1>6

LEMMA SumsStep ==
    ASSUME RInv, NEW a \in Algorithms, freezer.phase = a,
           sums' = [sums EXCEPT ![a] = LedgerOf(freezer.entries)],
           IF a = "sha256" THEN Advance("sha512") ELSE Exit(0),
           watch'.stops = watch.stops, UNCHANGED <<receipts, index, narrative>>
    PROVE  Summarised' /\ Unstopped' /\ StoppedOnce'
  <1>1. /\ freezer'.phase = IF a = "sha256" THEN "sha512" ELSE "exited"
        /\ a \in {"sha256", "sha512"}
    BY DEF RInv, VInv, IInv, TypeOK, Freezer, Advance, Exit, Algorithms
  <1>2. freezer.phase \in Writing /\ freezer.todo = {} /\ index = IndexOf(freezer.entries)
        /\ narrative = index.summary
    BY DEF RInv, Written, Writing, Algorithms
  <1>3. /\ freezer.entries \in Entries /\ narrative = Told(KindsOf(freezer.entries))
        /\ KindsIn(LedgerOf(freezer.entries)) = KindsOf(freezer.entries)
        /\ \A s \in Sources : freezer.entries[s] # Absent => receipts[s] # Absent
    BY <1>2, WritingTells DEF IndexOf
  <1>4. sums'[a] = LedgerOf(freezer.entries) /\ \A b \in Algorithms \ {a} : sums'[b] = sums[b]
    BY DEF RInv, VInv, IInv, TypeOK
  <1>5. LedgerOf(freezer.entries) # Absent
    <2>1. ASSUME NEW s \in Sources, freezer.entries[s] # Absent
          PROVE  LineOf(freezer.entries[s]) \in Line
      <3>1. freezer.entries[s] \in Entry
        BY <1>3, <2>1 DEF Entries
      <3> QED BY <3>1 DEF Entry, LineOf, Line
    <2>2. LedgerOf(freezer.entries) \in Ledger
      BY <2>1 DEF LedgerOf, Ledger
    <2> QED BY <2>2, FilesAssumption
  <1>6. SumsTell(a)' = narrative' /\ \A b \in Algorithms \ {a} : SumsTell(b)' = SumsTell(b)
    BY <1>3, <1>4, <1>5 DEF SumsTell
  <1>7. index # Absent
    <2>1. freezer.entries \in Entries /\ freezer.snapshot \in Matrices
      BY DEF RInv, VInv, IInv, TypeOK, Freezer
    <2>2. Summary(freezer.entries, freezer.snapshot) \in Narrative
      BY <2>1, SummaryType
    <2>3. index \in Index
      BY <1>2, <2>1, <2>2 DEF IndexOf, Index
    <2> QED BY <2>3, FilesAssumption
  <1>8. RecordAgrees'
    BY <1>2, <1>7 DEF RecordAgrees, IndexTells
  <1>9. Summarised'
    <2>1. \A s \in Sources : LedgerOf(freezer.entries)[s] # Absent => receipts[s] # Absent
      BY <1>3 DEF LedgerOf
    <2>2. ASSUME NEW b \in Algorithms, sums'[b] # Absent, NEW s \in Sources, sums'[b][s] # Absent
          PROVE  receipts'[s] # Absent
      <3>1. CASE b = a
        BY <1>4, <2>1, <2>2, <3>1
      <3>2. CASE b # a
        BY <1>4, <2>2, <3>2 DEF RInv, Summarised
      <3> QED BY <3>1, <3>2
    <2>3. index' # Absent => index'.summary = Told(KindsOf(index'.entries))
      BY DEF RInv, Summarised
    <2> QED BY <2>2, <2>3 DEF Summarised
  <1>10. Unstopped'
    <2>1. CASE a = "sha256"
      BY <1>1, <1>6, <1>8, <2>1 DEF Unstopped
    <2>2. CASE a = "sha512"
      <3>1. watch.stops = 0 => narrative = SumsTell("sha256")
        BY <2>2 DEF RInv, Unstopped
      <3>2. watch.stops = 0 => LedgersFollow'
        BY <1>6, <2>2, <3>1 DEF LedgersFollow, Algorithms
      <3> QED BY <1>1, <1>8, <2>2, <3>2 DEF Unstopped
    <2> QED BY <1>1, <2>1, <2>2
  <1>11. StoppedOnce'
    BY <1>8 DEF StoppedOnce
  <1> QED BY <1>9, <1>10, <1>11

LEMMA BesideKeepsRecord == RInv /\ Beside => RInv'
  <1> SUFFICES ASSUME RInv, Beside PROVE RInv'
    OBVIOUS
  <1> DEFINE stopped == freezer.exit = Absent /\ freezer'.exit \notin {Absent, 0}
  <1>1. Next /\ watch'.stops = UpTo2(watch.stops, stopped)
    BY DEF Beside
  <1>2. VInv' /\ Written'
    BY <1>1, BesidePreserves, StepStaysWritten DEF RInv, VInv
  <1>3. ~stopped => watch'.stops = watch.stops
    BY <1>1 DEF UpTo2
  <1>4. freezer \in Freezer /\ Absent # 0
    BY BodiesAssumption DEF RInv, VInv, IInv, TypeOK
  <1>5. freezer.phase \in Writing => freezer.exit = Absent
    BY DEF RInv, Written, Writing
  <1>6. ASSUME NEW code \in {1, 2, 9}, Exit(code), freezer.phase \in Writing,
               UNCHANGED <<receipts, index, narrative, sums>>
        PROVE  Summarised' /\ Unstopped' /\ StoppedOnce'
    <2>1. freezer'.exit = code
      BY <1>4, <1>6 DEF Exit, Freezer
    <2>2. stopped
      BY <1>5, <1>6, <2>1, BodiesAssumption
    <2> HIDE DEF stopped
    <2>3. watch'.stops = UpTo2(watch.stops, TRUE)
      BY <1>1, <2>2 DEF UpTo2
    <2> QED BY <1>6, <2>3, StopStep
  <1>7. ASSUME UNCHANGED <<index, narrative, sums>>, freezer.phase \in Early,
               freezer'.phase \in Early, freezer'.exit \in {Absent, freezer.exit},
               \A s \in Sources : receipts[s] # Absent => receipts'[s] # Absent
        PROVE  Summarised' /\ Unstopped' /\ StoppedOnce'
    BY <1>3, <1>7, EarlyStep
  <1>8. CASE Revise
    <2>1. UNCHANGED <<freezer, receipts, index, narrative, sums>>
      BY <1>8 DEF Revise, package
    <2>2. watch'.stops = watch.stops
      BY <1>3, <2>1
    <2>3. Summarised' /\ (RecordAgrees' <=> RecordAgrees) /\ (LedgersFollow' <=> LedgersFollow)
          /\ \A a : SumsTell(a)' = SumsTell(a)
      BY <2>1, SameFiles DEF RInv
    <2>4. Unstopped' /\ StoppedOnce'
      BY <2>1, <2>2, <2>3 DEF RInv, Unstopped, StoppedOnce
    <2> QED BY <1>2, <2>3, <2>4 DEF RInv
  <1>9. CASE Start
    <2>1. /\ freezer.phase \in Early /\ freezer'.phase \in Early /\ freezer'.exit = Absent
          /\ UNCHANGED <<receipts, index, narrative, sums>>
      BY <1>9 DEF Start, package, Early
    <2> QED BY <1>2, <1>7, <2>1 DEF RInv
  <1>10. CASE Acquire
    <2>1. freezer.phase \in Early /\ freezer.phase \in Writing
          /\ UNCHANGED <<receipts, index, narrative, sums>>
      BY <1>10 DEF Acquire, package, Early, Writing
    <2>2. CASE \E code \in {1, 2} : Exit(code)
      BY <1>2, <1>6, <2>1, <2>2 DEF RInv
    <2>3. CASE \E s \in Sources, b \in Bodies : Received(s, b)
      <3>1. freezer'.phase \in Early /\ freezer'.exit = freezer.exit
        BY <1>4, <2>3 DEF Received, Freezer, Early
      <3> QED BY <1>2, <1>7, <2>1, <3>1 DEF RInv
    <2> QED BY <1>10, <2>2, <2>3 DEF Acquire
  <1>11. CASE StoreBytes
    <2>1. freezer.phase \in Early /\ freezer.phase \in Writing
          /\ UNCHANGED <<receipts, index, narrative, sums>>
      BY <1>11 DEF StoreBytes, Early, Writing
    <2>2. CASE Fail
      BY <1>2, <1>6, <2>1, <2>2 DEF RInv, Fail
    <2>3. CASE Advance("receipt")
      <3>1. freezer'.phase \in Early /\ freezer'.exit = freezer.exit
        BY <1>4, <2>3 DEF Advance, Freezer, Early
      <3> QED BY <1>2, <1>7, <2>1, <3>1 DEF RInv
    <2> QED BY <1>11, <2>2, <2>3 DEF StoreBytes
  <1>12. CASE StoreReceipt
    <2>1. freezer.phase \in Early /\ freezer.phase \in Writing
          /\ UNCHANGED <<index, narrative, sums>>
      BY <1>12 DEF StoreReceipt, Early, Writing
    <2>2. CASE Fail /\ UNCHANGED receipts
      BY <1>2, <1>6, <2>1, <2>2 DEF RInv, Fail
    <2>3. CASE ~(Fail /\ UNCHANGED receipts)
      <3>1. /\ receipts' = [receipts EXCEPT
                  ![Current] = [target |-> Terms.target, body |-> freezer.body]]
            /\ freezer' = [freezer EXCEPT
                  !.phase = "acquire", !.todo = @ \ {Current},
                  !.source = Absent, !.body = Absent,
                  !.entries = [@ EXCEPT ![Current] = EntryOf(Terms, freezer.body)]]
        BY <1>12, <2>3 DEF StoreReceipt
      <3>2. freezer'.phase \in Early /\ freezer'.exit = freezer.exit
        BY <1>4, <3>1 DEF Freezer, Early
      <3>3. /\ receipts \in [Sources -> Receipt \cup {Absent}] /\ receipts' \in [Sources -> Receipt \cup {Absent}]
            /\ Current \in Sources /\ freezer.body \in Bodies /\ Terms.target \in URLs
        <4>1. Current \in freezer.todo /\ freezer.body \in Bodies
          BY <1>12 DEF RInv, VInv, IInv, UnderWay, StoreReceipt
        <4>2. Current \in Sources /\ freezer.snapshot \in Matrices
          BY <1>4, <4>1 DEF Freezer
        <4>3. Terms \in Record
          BY <4>2, MatricesAssumption DEF Terms
        <4> QED BY <1>2, <4>1, <4>2, <4>3 DEF Record, RInv, VInv, IInv, TypeOK
      <3>4. [target |-> Terms.target, body |-> freezer.body] # Absent
        <4>1. [target |-> Terms.target, body |-> freezer.body] \in Receipt
          BY <3>3 DEF Receipt
        <4> QED BY <4>1, FilesAssumption
      <3>5. \A s \in Sources : receipts[s] # Absent => receipts'[s] # Absent
        BY <3>1, <3>3, <3>4
      <3> QED BY <1>2, <1>7, <2>1, <3>2, <3>5 DEF RInv
    <2> QED BY <2>2, <2>3
  <1>13. CASE WriteIndex
    <2>1. /\ freezer.phase = "acquire" /\ freezer.phase \in Writing /\ freezer.todo = {}
          /\ UNCHANGED <<receipts, narrative, sums>>
      BY <1>13 DEF WriteIndex, Writing
    <2>2. CASE Fail /\ UNCHANGED index
      BY <1>2, <1>6, <2>1, <2>2 DEF RInv, Fail
    <2>3. CASE ~(Fail /\ UNCHANGED index)
      <3>1. index' = IndexOf(freezer.entries) /\ Advance("record")
        BY <1>13, <2>3 DEF WriteIndex, IndexOf
      <3>2. watch'.stops = watch.stops
        BY <1>3, <1>4, <3>1 DEF Advance, Freezer
      <3> QED BY <1>2, <2>1, <3>1, <3>2, IndexStep DEF RInv
    <2> QED BY <2>2, <2>3
  <1>14. CASE WriteRecord
    <2>1. /\ freezer.phase = "record" /\ freezer.phase \in Writing
          /\ UNCHANGED <<receipts, index, sums>>
      BY <1>14 DEF WriteRecord, Writing
    <2>2. CASE Fail /\ UNCHANGED narrative
      BY <1>2, <1>6, <2>1, <2>2 DEF RInv, Fail
    <2>3. CASE ~(Fail /\ UNCHANGED narrative)
      <3>1. narrative' = Summary(freezer.entries, freezer.snapshot) /\ Advance("sha256")
        BY <1>14, <2>3 DEF WriteRecord
      <3>2. watch'.stops = watch.stops
        BY <1>3, <1>4, <3>1 DEF Advance, Freezer
      <3> QED BY <1>2, <2>1, <3>1, <3>2, RecordStep DEF RInv
    <2> QED BY <2>2, <2>3
  <1>15. ASSUME NEW a \in Algorithms, WriteSums(a)
         PROVE  RInv'
    <2>1. /\ freezer.phase = a /\ freezer.phase \in Writing
          /\ UNCHANGED <<receipts, index, narrative>>
      BY <1>15 DEF WriteSums, Writing, Algorithms
    <2>2. CASE Fail /\ UNCHANGED sums
      BY <1>2, <1>6, <2>1, <2>2 DEF RInv, Fail
    <2>3. CASE ~(Fail /\ UNCHANGED sums)
      <3>1. /\ sums' = [sums EXCEPT ![a] = LedgerOf(freezer.entries)]
            /\ IF a = "sha256" THEN Advance("sha512") ELSE Exit(0)
        BY <1>15, <2>3 DEF WriteSums, LedgerOf
      <3>2. freezer'.exit \in {freezer.exit, 0}
        BY <1>4, <3>1 DEF Advance, Exit, Freezer
      <3>3. watch'.stops = watch.stops
        BY <1>3, <3>2
      <3> QED BY <1>2, <2>1, <3>1, <3>3, SumsStep DEF RInv
    <2> QED BY <2>2, <2>3
  <1>16. CASE Kill
    <2>1. freezer.phase \in Writing /\ UNCHANGED <<receipts, index, narrative, sums>> /\ Exit(9)
      BY <1>4, <1>16 DEF Kill, package, Freezer, Phase, Writing
    <2> QED BY <1>2, <1>6, <2>1 DEF RInv
  <1> QED BY <1>1, <1>8, <1>9, <1>10, <1>11, <1>12, <1>13, <1>14, <1>15, <1>16 DEF Next, Step

\* Neither the verifier nor another checkout touches what the record is about.
LEMMA LookingKeepsRecord ==
    ASSUME RInv, VInv', UNCHANGED <<receipts, index, narrative, sums, freezer>>,
           watch'.stops = watch.stops, Written'
    PROVE  RInv'
  <1>1. Summarised' /\ (RecordAgrees' <=> RecordAgrees) /\ (LedgersFollow' <=> LedgersFollow)
        /\ \A a : SumsTell(a)' = SumsTell(a)
    BY SameFiles DEF RInv
  <1>2. Unstopped' /\ StoppedOnce'
    BY <1>1 DEF RInv, Unstopped, StoppedOnce
  <1> QED BY <1>1, <1>2 DEF RInv

LEMMA StepKeepsRecord == RInv /\ [NextBeside]_allVars => RInv'
  <1> SUFFICES ASSUME RInv, [NextBeside]_allVars PROVE RInv'
    OBVIOUS
  <1>1. VInv'
    BY StepBesidePreserves DEF RInv
  <1>2. CASE UNCHANGED vars
    <2>1. Written'
      BY <1>2, StepStaysWritten DEF RInv, VInv
    <2>2. UNCHANGED <<receipts, index, narrative, sums, freezer>>
      BY <1>2 DEF vars
    <2>3. CASE watch'.stops = watch.stops
      BY <1>1, <2>1, <2>2, <2>3, LookingKeepsRecord
    <2>4. CASE Beside
      BY <2>4, BesideKeepsRecord
    <2>5. ~Beside => watch'.stops = watch.stops
      BY DEF NextBeside, Checkout, StartVerifier, Verify, RInv, VInv, Watch, allVars
    <2> QED BY <2>3, <2>4, <2>5
  <1>3. CASE Checkout
    <2>1. /\ UNCHANGED <<receipts, index, narrative, sums, freezer>> /\ UNCHANGED watch
          /\ freezer.phase \in {"idle", "exited"}
      BY <1>3 DEF Checkout
    <2>2. Written'
      BY <2>1 DEF RInv, Written, Writing
    <2> QED BY <1>1, <2>1, <2>2, LookingKeepsRecord
  <1>4. CASE Beside
    BY <1>4, BesideKeepsRecord
  <1> QED BY <1>2, <1>3, <1>4 DEF NextBeside, StartVerifier, Verify, allVars

\* A package that verifies has ledgers that tell what its index does.
LEMMA VerifiedTells ==
    ASSUME RInv, Verifies
    PROVE  index # Absent /\ \A a \in Algorithms : SumsTell(a) = index.summary
  <1>1. index # Absent /\ index \in Index /\ \A a \in Algorithms : sums[a] # Absent
    BY DEF Verifies, RInv, VInv, IInv, TypeOK
  <1>2. ASSUME NEW a \in Algorithms, NEW s \in Sources
        PROVE  LineKind(sums[a][s]) = KindOf(index.entries[s])
    <2>1. CASE index.entries[s] # Absent
      <3>1. sums[a][s] = LineOf(index.entries[s])
        BY <2>1 DEF Verifies, EntryAgrees
      <3>2. index.entries[s] \in Entry
        BY <1>1, <2>1 DEF Index, Entries
      <3> QED BY <3>1, <3>2, LineTells
    <2>2. CASE index.entries[s] = Absent
      <3>1. receipts[s] = Absent
        BY <2>2 DEF Verifies
      <3>2. sums[a][s] = Absent
        BY <1>1, <3>1 DEF RInv, Summarised
      <3> QED BY <2>2, <3>2 DEF LineKind, KindOf
    <2> QED BY <2>1, <2>2
  <1>3. \A a \in Algorithms : KindsIn(sums[a]) = KindsOf(index.entries)
    BY <1>2 DEF KindsIn, KindsOf
  <1> QED BY <1>1, <1>3 DEF RInv, Summarised, SumsTell

(***************************************************************************)
(* verify_canada_freeze.py never opens ACQUISITION-FREEZE-v0.1.json.  For  *)
(* any sources and any number of freezes, a package that verifies beside   *)
(* the record of another run takes two stopped ones, of which one may be   *)
(* stopped only so far.                                                    *)
(***************************************************************************)
THEOREM TwoStopsMislead == SpecBeside => []RecordMisleadsAfterTwoStops
  <1>1. InitBeside => RInv
    <2> SUFFICES ASSUME InitBeside PROVE RInv
      OBVIOUS
    <2>1. VInv /\ Written
      BY InitiallyBeside, WrittenInitially DEF InitBeside
    <2>2. index = Absent /\ narrative = Absent /\ \A a \in Algorithms : sums[a] = Absent
      BY DEF InitBeside, Init
    <2>3. Summarised /\ RecordAgrees /\ LedgersFollow
      BY <2>2 DEF Summarised, RecordAgrees, IndexTells, LedgersFollow, SumsTell
    <2>4. Unstopped /\ StoppedOnce
      BY <2>3 DEF Unstopped, StoppedOnce, InitBeside, Init
    <2> QED BY <2>1, <2>3, <2>4 DEF RInv
  <1>2. RInv => RecordMisleadsAfterTwoStops
    <2> SUFFICES ASSUME RInv, Verifies, narrative # index.summary
                 PROVE  watch.stops + (IF freezer.phase = "record" THEN 1 ELSE 0) >= 2
      BY DEF RecordMisleadsAfterTwoStops
    <2>1. index # Absent /\ \A a \in Algorithms : SumsTell(a) = index.summary
      BY VerifiedTells
    <2>2. ~RecordAgrees /\ ~LedgersFollow
      BY <2>1 DEF RecordAgrees, IndexTells, LedgersFollow, Algorithms
    <2>3. watch.stops \in 0..2
      BY DEF RInv, VInv, Watch
    <2>4. freezer.phase = "record" => watch.stops # 0
      BY <2>2 DEF RInv, Unstopped
    <2>5. freezer.phase # "record" => ~(watch.stops < 2)
      BY <2>2 DEF RInv, StoppedOnce
    <2> QED BY <2>3, <2>4, <2>5
  <1> QED BY <1>1, <1>2, StepKeepsRecord, PTL DEF SpecBeside
-----------------------------------------------------------------------------
(***************************************************************************)
(* One write.  What the rest of a verification would say is known at every *)
(* moment of it: what was read is compared with what there is to read.     *)
(* Before the first write that is the verdict on the package; and the      *)
(* first write either comes before the verifier reads that file, which     *)
(* will then have seen the package as it is now, or after it, and then the *)
(* verifier will have seen the package as it was.                          *)
(***************************************************************************)
Starting == {"index", "rights", "sha256", "sha512", "listing"}

IndexSeen == IF verifier.phase = "index" THEN index ELSE verifier.index
RightsSeen == IF verifier.phase \in {"index", "rights"} THEN rights ELSE verifier.rights
SumsSeen(a) ==
    IF \/ verifier.phase \in {"index", "rights", "sha256"}
       \/ verifier.phase = "sha512" /\ a = "sha512"
    THEN sums[a] ELSE verifier.sums[a]
ListedSeen == {s \in Sources : IndexSeen.entries[s] # Absent}

EntryWould(s) ==
    LET e == IndexSeen.entries[s]
    IN  /\ TermsAgree(RightsSeen[s], e)
        /\ receipts[s] = [target |-> e.target, body |-> e.body]
        /\ BytesAgree(s, e)
        /\ \A a \in Algorithms : SumsSeen(a)[s] = LineOf(e)

ToTake == verifier.todo \ (IF verifier.phase = "receipt" THEN {} ELSE {Now})
SuffixSeen == IF verifier.found = Absent THEN EntryNow.suffix ELSE verifier.found

StartPasses ==
    /\ IndexSeen # Absent /\ \A a \in Algorithms : SumsSeen(a) # Absent
    /\ ListedSeen = {s \in Sources : RightsSeen[s].disposition \in Cleared}
    /\ \A s \in Sources \ ListedSeen : receipts[s] = Absent
    /\ \A s \in ListedSeen : EntryWould(s)

WouldPass ==
    /\ verifier.phase \in Starting => StartPasses
    /\ verifier.phase \in Reading => ~verifier.failed /\ \A s \in ToTake : EntryWould(s)
    /\ verifier.phase \in {"glob", "bytes"} => LedgersAgree
    /\ verifier.phase = "glob" => BytesAgree(Now, EntryNow)
    /\ verifier.phase = "bytes" =>
          bytes[AreaOf(EntryNow.disposition)][Now][SuffixSeen] = EntryNow.body
    /\ verifier.phase = "exited" => verifier.exit = 0

\* What the verifier's own steps see to, whatever the package becomes.
Sorted ==
    /\ verifier.phase \in {"sha512", "listing"} => verifier.sums["sha256"] # Absent
    /\ verifier.phase = "listing" => verifier.sums["sha512"] # Absent
    /\ verifier.phase \notin {"bytes", "exited"} => verifier.found = Absent
    /\ verifier.phase = "glob" => EntryNow.disposition # Repository

LEMMA SeenSame ==
    ASSUME UNCHANGED <<receipts, bytes>>, IndexSeen' = IndexSeen, RightsSeen' = RightsSeen,
           \A a \in Algorithms : SumsSeen(a)' = SumsSeen(a)
    PROVE  /\ \A s : EntryWould(s)' <=> EntryWould(s)
           /\ StartPasses' <=> StartPasses
  <1>1. \A s : EntryWould(s)' <=> EntryWould(s)
    BY DEF EntryWould, BytesAgree, Candidates, First
  <1>2. ListedSeen' = ListedSeen
    BY DEF ListedSeen
  <1> QED BY <1>1, <1>2 DEF StartPasses

\* The verifier's steps carry out what is foreseen, and no more passes.
LEMMA ReadingSeesThrough ==
    ASSUME VInv, Sorted, UNCHANGED <<vars, watch>>,
           ReadIndex \/ ReadRights \/ \E a \in Algorithms : ReadSums(a)
    PROVE  Sorted' /\ (WouldPass' => WouldPass)
  <1>1. CASE Conclude(2)
    <2>1. verifier'.phase = "exited" /\ verifier'.exit = 2
      BY <1>1 DEF VInv, Verifier, Conclude
    <2> QED BY <2>1 DEF Sorted, WouldPass
  <1>2. CASE ~Conclude(2)
    <2>1. /\ verifier.phase \in {"index", "rights", "sha256", "sha512"}
          /\ verifier'.phase \in {"rights", "sha256", "sha512", "listing"}
          /\ verifier'.found = verifier.found
          /\ IndexSeen' = IndexSeen /\ RightsSeen' = RightsSeen
          /\ \A a \in Algorithms : SumsSeen(a)' = SumsSeen(a)
          /\ verifier'.phase \in {"sha512", "listing"} => verifier'.sums["sha256"] # Absent
          /\ verifier'.phase = "listing" => verifier'.sums["sha512"] # Absent
      <3>1. CASE ReadIndex
        BY <1>2, <3>1 DEF VInv, Verifier, ReadIndex, IndexSeen, RightsSeen, SumsSeen, vars
      <3>2. CASE ReadRights
        BY <1>2, <3>2 DEF VInv, Verifier, ReadRights, IndexSeen, RightsSeen, SumsSeen, vars
      <3>3. CASE ReadSums("sha256")
        <4>1. /\ verifier.phase = "sha256" /\ sums["sha256"] # Absent
              /\ verifier' = [verifier EXCEPT !.phase = "sha512", !.sums["sha256"] = sums["sha256"]]
          BY <1>2, <3>3 DEF ReadSums
        <4>2. /\ verifier'.phase = "sha512" /\ verifier'.index = verifier.index
              /\ verifier'.rights = verifier.rights /\ verifier'.found = verifier.found
              /\ verifier'.sums["sha256"] = sums["sha256"]
          BY <4>1 DEF VInv, Verifier, Algorithms
        <4> QED BY <4>1, <4>2 DEF IndexSeen, RightsSeen, SumsSeen, Algorithms, vars
      <3>4. CASE ReadSums("sha512")
        <4>1. /\ verifier.phase = "sha512" /\ sums["sha512"] # Absent
              /\ verifier' = [verifier EXCEPT !.phase = "listing", !.sums["sha512"] = sums["sha512"]]
          BY <1>2, <3>4 DEF ReadSums
        <4>2. /\ verifier'.phase = "listing" /\ verifier'.index = verifier.index
              /\ verifier'.rights = verifier.rights /\ verifier'.found = verifier.found
              /\ verifier'.sums["sha512"] = sums["sha512"]
              /\ verifier'.sums["sha256"] = verifier.sums["sha256"]
          BY <4>1 DEF VInv, Verifier, Algorithms
        <4> QED BY <4>1, <4>2 DEF IndexSeen, RightsSeen, SumsSeen, Algorithms, vars, Sorted
      <3> QED BY <3>1, <3>2, <3>3, <3>4 DEF Algorithms
    <2>2. Sorted'
      BY <2>1 DEF Sorted
    <2>3. StartPasses' <=> StartPasses
      BY <2>1, SeenSame DEF vars
    <2> QED BY <2>1, <2>2, <2>3 DEF WouldPass, Starting, Reading
  <1> QED BY <1>1, <1>2

LEMMA ListingSeesThrough ==
    ASSUME VInv, Sorted, UNCHANGED <<vars, watch>>, ListReceipts
    PROVE  Sorted' /\ (WouldPass' => WouldPass)
  <1> DEFINE failed == \/ ~Covered
                       \/ \E s \in Sources \ Listed : receipts[s] # Absent
  <1>1. verifier' = [verifier EXCEPT !.phase = "receipt", !.todo = Listed, !.failed = failed]
    BY DEF ListReceipts, Covered
  <1>2. /\ verifier.phase = "listing"
        /\ verifier'.phase = "receipt" /\ verifier'.todo = Listed
        /\ verifier'.failed <=> failed
        /\ verifier'.rights = verifier.rights /\ verifier'.index = verifier.index
        /\ verifier'.found = verifier.found /\ verifier'.sums = verifier.sums
    BY <1>1 DEF VInv, Verifier, ListReceipts
  <1>3. Sorted'
    BY <1>2 DEF Sorted
  <1>4. /\ IndexSeen' = IndexSeen /\ RightsSeen' = RightsSeen
        /\ \A a \in Algorithms : SumsSeen(a)' = SumsSeen(a)
        /\ RightsSeen = verifier.rights /\ IndexSeen = verifier.index
        /\ \A a \in Algorithms : SumsSeen(a) = verifier.sums[a]
    BY <1>2 DEF IndexSeen, RightsSeen, SumsSeen
  <1>5. \A s : EntryWould(s)' <=> EntryWould(s)
    BY <1>4, SeenSame DEF vars
  <1>6. ASSUME WouldPass' PROVE StartPasses
    <2>1. ~failed /\ \A s \in Listed : EntryWould(s)
      BY <1>2, <1>5, <1>6 DEF WouldPass, Reading, ToTake
    <2>2. ListedSeen = Listed
      BY <1>4 DEF ListedSeen, Listed
    <2>3. verifier.index # Absent /\ \A a \in Algorithms : verifier.sums[a] # Absent
      BY <1>2 DEF VInv, Remembered, Sorted, Algorithms
    <2> QED BY <1>4, <2>1, <2>2, <2>3 DEF StartPasses, Covered
  <1> QED BY <1>2, <1>3, <1>6 DEF WouldPass, Starting, Reading

\* From entry to entry, what was seen stays.
LEMMA EntriesSeenSame ==
    ASSUME UNCHANGED vars, verifier.phase \in Reading, verifier'.phase \in Reading,
           verifier'.index = verifier.index, verifier'.rights = verifier.rights,
           verifier'.sums = verifier.sums
    PROVE  \A s : EntryWould(s)' <=> EntryWould(s)
  <1>1. /\ IndexSeen' = IndexSeen /\ RightsSeen' = RightsSeen
        /\ \A a \in Algorithms : SumsSeen(a)' = SumsSeen(a)
    BY DEF IndexSeen, RightsSeen, SumsSeen, Reading
  <1> QED BY <1>1, SeenSame DEF vars

\* Of an entry of a package that is being read, in the words of its reading.
LEMMA EntryNowWould ==
    ASSUME verifier.phase \in Reading
    PROVE  EntryWould(Now) <=>
              /\ TermsAgree(verifier.rights[Now], EntryNow)
              /\ receipts[Now] = [target |-> EntryNow.target, body |-> EntryNow.body]
              /\ BytesAgree(Now, EntryNow) /\ LedgersAgree
  <1>1. /\ IndexSeen = verifier.index /\ RightsSeen = verifier.rights
        /\ \A a \in Algorithms : SumsSeen(a) = verifier.sums[a]
    BY DEF IndexSeen, RightsSeen, SumsSeen, Reading
  <1> QED BY <1>1 DEF EntryWould, EntryNow, LedgersAgree

LEMMA EntryDoneSeesThrough ==
    ASSUME VInv, Sorted, UNCHANGED <<vars, watch>>, verifier.phase \in Reading,
           NEW agrees \in BOOLEAN, EntryDone(agrees)
    PROVE  /\ Sorted'
           /\ WouldPass' => /\ ~verifier.failed /\ agrees
                            /\ \A s \in verifier.todo \ {Now} : EntryWould(s)
  <1>1. /\ verifier'.phase = "receipt" /\ verifier'.todo = verifier.todo \ {Now}
        /\ verifier'.failed <=> verifier.failed \/ ~agrees
        /\ verifier'.rights = verifier.rights /\ verifier'.index = verifier.index
        /\ verifier'.found = Absent /\ verifier'.sums = verifier.sums
    BY DEF VInv, Verifier, EntryDone
  <1>2. Sorted'
    BY <1>1 DEF Sorted
  <1>3. \A s : EntryWould(s)' <=> EntryWould(s)
    BY <1>1, EntriesSeenSame DEF Reading
  <1> QED BY <1>1, <1>2, <1>3 DEF WouldPass, Reading, ToTake

LEMMA CheckReceiptSeesThrough ==
    ASSUME VInv, Sorted, UNCHANGED <<vars, watch>>, CheckReceipt
    PROVE  Sorted' /\ (WouldPass' => WouldPass)
  <1>1. verifier.phase = "receipt" /\ verifier.phase \in Reading
    BY DEF CheckReceipt, Reading
  <1>2. CASE receipts[Now] = Absent
    <2>1. EntryDone(FALSE)
      BY <1>2 DEF CheckReceipt
    <2> QED BY <1>1, <2>1, EntryDoneSeesThrough
  <1>3. CASE receipts[Now] # Absent
    <2> DEFINE agrees ==
          /\ TermsAgree(verifier.rights[Now], EntryNow)
          /\ receipts[Now] = [target |-> EntryNow.target, body |-> EntryNow.body]
               to == IF EntryNow.disposition = Repository THEN "bytes" ELSE "glob"
    <2>1. Judged(agrees, to)
      BY <1>3 DEF CheckReceipt
    <2>2. /\ verifier'.phase = to /\ verifier'.todo = verifier.todo
          /\ verifier'.failed <=> verifier.failed \/ ~agrees
          /\ verifier'.rights = verifier.rights /\ verifier'.index = verifier.index
          /\ verifier'.found = verifier.found /\ verifier'.sums = verifier.sums
      BY <2>1 DEF VInv, Judged, Verifier
    <2>3. to \in {"glob", "bytes"} /\ (to = "glob" <=> EntryNow.disposition # Repository)
      OBVIOUS
    <2>4. verifier.found = Absent
      BY <1>1 DEF Sorted
    <2> HIDE DEF to
    <2>5. Now' = Now
      BY <2>2 DEF Now
    <2>6. EntryNow' = EntryNow
      BY <2>2, <2>5 DEF EntryNow
    <2>7. Sorted'
      BY <2>2, <2>3, <2>4, <2>6 DEF Sorted
    <2>8. (LedgersAgree' <=> LedgersAgree) /\ (BytesAgree(Now, EntryNow)' <=> BytesAgree(Now, EntryNow))
      BY <2>2, <2>5, <2>6 DEF LedgersAgree, BytesAgree, Candidates, First, vars
    <2>9. ASSUME WouldPass' PROVE WouldPass
      <3>1. ~verifier'.failed /\ LedgersAgree /\ \A s \in verifier.todo \ {Now} : EntryWould(s)'
        BY <2>2, <2>3, <2>5, <2>8, <2>9 DEF WouldPass, ToTake, Reading
      <3>2. \A s \in verifier.todo \ {Now} : EntryWould(s)
        BY <1>1, <2>2, <2>3, <3>1, EntriesSeenSame DEF Reading
      <3>3. BytesAgree(Now, EntryNow)
        <4>1. CASE to = "glob"
          BY <2>2, <2>8, <2>9, <4>1 DEF WouldPass
        <4>2. CASE to = "bytes"
          <5>1. EntryNow.disposition = Repository
            BY <2>3, <4>2
          <5>2. bytes[AreaOf(EntryNow.disposition)][Now][EntryNow.suffix] = EntryNow.body
            BY <2>2, <2>4, <2>5, <2>6, <2>9, <4>2 DEF WouldPass, SuffixSeen, vars
          <5> QED BY <5>1, <5>2 DEF BytesAgree, AreaOf
        <4> QED BY <2>3, <4>1, <4>2
      <3>4. EntryWould(Now)
        BY <1>1, <2>2, <3>1, <3>3, EntryNowWould
      <3> QED BY <1>1, <2>2, <3>1, <3>2, <3>4 DEF WouldPass, ToTake, Reading, Starting
    <2> QED BY <2>7, <2>9
  <1> QED BY <1>2, <1>3

LEMMA TakeInternalSeesThrough ==
    ASSUME VInv, Sorted, UNCHANGED <<vars, watch>>, TakeInternal
    PROVE  Sorted' /\ (WouldPass' => WouldPass)
  <1>1. verifier.phase = "glob" /\ verifier.phase \in Reading
    BY DEF TakeInternal, Reading
  <1>2. EntryNow.disposition # Repository
    BY <1>1 DEF Sorted
  <1>3. CASE Candidates(Now) = {}
    <2>1. EntryDone(LedgersAgree) /\ LedgersAgree \in BOOLEAN
      BY <1>3 DEF TakeInternal, LedgersAgree
    <2>2. BytesAgree(Now, EntryNow)
      BY <1>2, <1>3 DEF BytesAgree
    <2> QED BY <1>1, <2>1, <2>2, EntryDoneSeesThrough DEF WouldPass, ToTake, Starting
  <1>4. CASE Candidates(Now) # {}
    <2>1. verifier' = [verifier EXCEPT !.phase = "bytes", !.found = First(Now)]
      BY <1>4 DEF TakeInternal
    <2>2. /\ verifier'.phase = "bytes" /\ verifier'.todo = verifier.todo
          /\ verifier'.failed = verifier.failed /\ verifier'.found = First(Now)
          /\ verifier'.rights = verifier.rights /\ verifier'.index = verifier.index
          /\ verifier'.sums = verifier.sums
      BY <2>1 DEF VInv, Verifier
    <2>3. Now' = Now
      BY <2>2 DEF Now
    <2>4. EntryNow' = EntryNow
      BY <2>2, <2>3 DEF EntryNow
    <2>5. Sorted'
      BY <2>2 DEF Sorted
    <2>6. LedgersAgree' <=> LedgersAgree
      BY <2>2, <2>3, <2>4 DEF LedgersAgree
    <2>7. First(Now) # Absent
      BY <1>4, FirstType, BodiesAssumption
    <2>8. ASSUME WouldPass' PROVE WouldPass
      <3>1. ~verifier.failed /\ LedgersAgree /\ \A s \in verifier.todo \ {Now} : EntryWould(s)'
        BY <2>2, <2>3, <2>6, <2>8 DEF WouldPass, ToTake, Reading
      <3>2. \A s \in verifier.todo \ {Now} : EntryWould(s)
        BY <1>1, <2>2, <3>1, EntriesSeenSame DEF Reading
      <3>3. bytes[AreaOf(EntryNow.disposition)][Now][First(Now)] = EntryNow.body
        BY <2>2, <2>3, <2>4, <2>7, <2>8 DEF WouldPass, SuffixSeen, vars
      <3>4. BytesAgree(Now, EntryNow)
        BY <1>2, <3>3 DEF BytesAgree, AreaOf
      <3> QED BY <1>1, <3>1, <3>2, <3>4 DEF WouldPass, ToTake, Starting
    <2> QED BY <2>5, <2>8
  <1> QED BY <1>3, <1>4

LEMMA CheckBytesSeesThrough ==
    ASSUME VInv, Sorted, UNCHANGED <<vars, watch>>, CheckBytes
    PROVE  Sorted' /\ (WouldPass' => WouldPass)
  <1> DEFINE agrees ==
        /\ bytes[AreaOf(EntryNow.disposition)][Now][SuffixSeen] = EntryNow.body
        /\ LedgersAgree
  <1>1. verifier.phase = "bytes" /\ verifier.phase \in Reading /\ EntryDone(agrees)
    BY DEF CheckBytes, Reading, SuffixSeen
  <1>2. agrees \in BOOLEAN
    BY DEF LedgersAgree
  <1>3. Sorted' /\ (WouldPass' => /\ ~verifier.failed /\ agrees
                                  /\ \A s \in verifier.todo \ {Now} : EntryWould(s))
    <2> HIDE DEF agrees
    <2> QED BY <1>1, <1>2, EntryDoneSeesThrough
  <1> QED BY <1>1, <1>3 DEF WouldPass, ToTake, Starting

LEMMA ReportSeesThrough ==
    ASSUME VInv, Sorted, UNCHANGED <<vars, watch>>, Report
    PROVE  Sorted' /\ (WouldPass' => WouldPass)
  <1>1. /\ verifier.phase = "receipt" /\ verifier.todo = {}
        /\ verifier'.phase = "exited" /\ verifier'.exit = IF verifier.failed THEN 1 ELSE 0
    BY DEF VInv, Verifier, Report, Conclude
  <1> QED BY <1>1 DEF Sorted, WouldPass, Starting, Reading, ToTake

LEMMA VerifySeesThrough ==
    ASSUME VInv, Sorted, Verify
    PROVE  Sorted' /\ (WouldPass' => WouldPass)
  BY ReadingSeesThrough, ListingSeesThrough, CheckReceiptSeesThrough, TakeInternalSeesThrough,
     CheckBytesSeesThrough, ReportSeesThrough DEF Verify
-----------------------------------------------------------------------------
\* A verifier that has seen the package as it is: while it has not failed,
\* what it has taken agrees.
Sound ==
    /\ verifier.phase \in Reading => verifier.todo \subseteq Listed /\ (~verifier.failed => ~Wrong)
    /\ verifier.phase \in {"glob", "bytes"} =>
          Now \in verifier.todo /\ (~verifier.failed => ReceiptAgrees(Now))
    /\ verifier.phase = "glob" => EntryNow.disposition # Repository
    /\ verifier.phase = "bytes" =>
          IF EntryNow.disposition = Repository THEN verifier.found = Absent
          ELSE Candidates(Now) # {} /\ verifier.found = First(Now)

LEMMA FailedIsSound ==
    ASSUME VInv, FailedIsWrong PROVE Sound
  <1>1. verifier.phase \in Reading => verifier.todo \subseteq Listed /\ (~verifier.failed => ~Wrong)
    BY DEF FailedIsWrong, Reading
  <1>2. verifier.phase \in {"glob", "bytes"} =>
           Now \in verifier.todo /\ (~verifier.failed => ReceiptAgrees(Now))
    BY NowIsDue DEF FailedIsWrong
  <1> QED BY <1>1, <1>2 DEF Sound, FailedIsWrong

\* Then the rest of the verification comes to what the package deserves.
LEMMA SoundForesight ==
    VInv /\ Running /\ ReadsArePresent /\ Sound /\ WouldPass => Verifies
  <1> SUFFICES ASSUME VInv, Running, ReadsArePresent, Sound, WouldPass PROVE Verifies
    OBVIOUS
  <1>1. IndexSeen = index /\ RightsSeen = rights /\ \A a \in Algorithms : SumsSeen(a) = sums[a]
    BY DEF ReadsArePresent, IndexSeen, RightsSeen, SumsSeen, Reading, Algorithms, VInv, Verifier,
           Running
  <1>2. \A s : EntryWould(s) <=> EntryAgrees(s, index.entries[s])
    BY <1>1 DEF EntryWould, EntryAgrees, TermsAgree
  <1>3. CASE verifier.phase \in Starting
    <2>1. /\ index # Absent /\ \A a \in Algorithms : sums[a] # Absent
          /\ ListedSeen = {s \in Sources : rights[s].disposition \in Cleared}
          /\ \A s \in Sources \ ListedSeen : receipts[s] = Absent
          /\ \A s \in ListedSeen : EntryAgrees(s, index.entries[s])
      BY <1>1, <1>2, <1>3 DEF WouldPass, StartPasses
    <2>2. \A s \in Sources : s \in ListedSeen <=> index.entries[s] # Absent
      BY <1>1 DEF ListedSeen
    <2> HIDE DEF ListedSeen
    <2>3. \A s \in Sources : Coverage(s)
      BY <2>1, <2>2 DEF Coverage
    <2>4. \A s \in Sources : receipts[s] # Absent => index.entries[s] # Absent
      BY <2>1, <2>2
    <2> QED BY <2>1, <2>2, <2>3, <2>4 DEF Verifies
  <1>4. CASE verifier.phase \in Reading
    <2>1. /\ index # Absent /\ verifier.index = index /\ verifier.rights = rights
          /\ \A a \in Algorithms : sums[a] # Absent
      BY <1>4 DEF ReadsArePresent, Algorithms, Reading
    <2>2. /\ ~Wrong /\ ~verifier.failed /\ verifier.todo \subseteq Listed
          /\ \A s \in ToTake : EntryAgrees(s, index.entries[s])
      BY <1>2, <1>4 DEF WouldPass, Sound
    <2>3. ASSUME verifier.phase \in {"glob", "bytes"} PROVE EntryAgrees(Now, index.entries[Now])
      <3>1. ReceiptAgrees(Now) /\ LedgersAgree
        BY <2>2, <2>3 DEF Sound, WouldPass
      <3>2. BytesAgree(Now, EntryNow)
        <4>1. CASE verifier.phase = "glob"
          BY <4>1 DEF WouldPass
        <4>2. CASE verifier.phase = "bytes" /\ EntryNow.disposition = Repository
          BY <4>2 DEF WouldPass, Sound, SuffixSeen, BytesAgree, AreaOf
        <4>3. CASE verifier.phase = "bytes" /\ EntryNow.disposition # Repository
          <5>1. Candidates(Now) # {} /\ verifier.found = First(Now)
            BY <4>3 DEF Sound
          <5>2. First(Now) # Absent
            BY <5>1, FirstType, BodiesAssumption
          <5> QED BY <4>3, <5>1, <5>2 DEF WouldPass, SuffixSeen, BytesAgree, AreaOf
        <4> QED BY <2>3, <4>1, <4>2, <4>3
      <3> QED BY <1>4, <3>1, <3>2, AgreementSplits
    <2>4. \A s \in Listed : EntryAgrees(s, index.entries[s])
      BY <1>4, <2>2, <2>3 DEF Wrong, ToTake, Reading
    <2>5. Listed = {s \in Sources : index.entries[s] # Absent}
      BY <2>1 DEF Listed
    <2>6. \A s \in Sources : Coverage(s)
      BY <2>1, <2>2, <2>5 DEF Wrong, Covered, Coverage
    <2>7. \A s \in Sources : receipts[s] # Absent => index.entries[s] # Absent
      BY <2>2, <2>5 DEF Wrong
    <2>8. \A s \in Sources : index.entries[s] # Absent => EntryAgrees(s, index.entries[s])
      BY <2>4, <2>5
    <2> QED BY <2>1, <2>6, <2>7, <2>8 DEF Verifies
  <1> QED BY <1>3, <1>4 DEF VInv, Verifier, Running, Starting, Reading

LEMMA SoundForesightNext ==
    VInv' /\ Running' /\ ReadsArePresent' /\ Sound' /\ WouldPass' => Verifies'
  BY SoundForesight, PTL

\* While nothing that it has not read changes, what is foreseen stays.
LEMMA ForeseenSame ==
    ASSUME UNCHANGED <<verifier, receipts, bytes>>, IndexSeen' = IndexSeen,
           RightsSeen' = RightsSeen, \A a \in Algorithms : SumsSeen(a)' = SumsSeen(a)
    PROVE  WouldPass' <=> WouldPass
  <1>1. (\A s : EntryWould(s)' <=> EntryWould(s)) /\ (StartPasses' <=> StartPasses)
    BY SeenSame
  <1>2. /\ Now' = Now /\ EntryNow' = EntryNow /\ ToTake' = ToTake /\ SuffixSeen' = SuffixSeen
        /\ LedgersAgree' <=> LedgersAgree
    BY DEF Now, EntryNow, ToTake, SuffixSeen, LedgersAgree
  <1>3. BytesAgree(Now, EntryNow)' <=> BytesAgree(Now, EntryNow)
    BY <1>2 DEF BytesAgree, Candidates, First
  <1> QED BY <1>1, <1>2, <1>3 DEF WouldPass

\* One write, and the verifier is where it was.
OneWrite ==
    /\ VInv /\ VInv' /\ Running /\ ReadsArePresent /\ FailedIsWrong
    /\ UNCHANGED verifier

LEMMA EarlyWrite ==
    ASSUME OneWrite, verifier.phase \in Starting, ReadsArePresent'
    PROVE  WouldPass' => Verifies'
  <1>1. Running' /\ Sound'
    BY DEF OneWrite, Running, Sound, Starting, Reading
  <1> QED BY <1>1, SoundForesightNext DEF OneWrite

LEMMA WriteOfText ==
    ASSUME OneWrite, UNCHANGED <<receipts, bytes>>,
           \/ UNCHANGED <<index, sums>>
           \/ UNCHANGED <<rights, sums>>
           \/ UNCHANGED <<rights, index>> /\ \E a \in Algorithms :
                 \A b \in Algorithms \ {a} : sums'[b] = sums[b]
    PROVE  WouldPass' => WouldPass \/ Verifies'
  <1>1. CASE UNCHANGED <<index, sums>>
    <2>1. CASE verifier.phase \in {"index", "rights"}
      <3>1. ReadsArePresent'
        BY <1>1, <2>1 DEF OneWrite, ReadsArePresent, Reading
      <3> QED BY <2>1, <3>1, EarlyWrite DEF Starting
    <2>2. CASE verifier.phase \notin {"index", "rights"}
      <3>1. IndexSeen' = IndexSeen /\ RightsSeen' = RightsSeen
            /\ \A a \in Algorithms : SumsSeen(a)' = SumsSeen(a)
        BY <1>1, <2>2 DEF OneWrite, IndexSeen, RightsSeen, SumsSeen
      <3> QED BY <3>1, ForeseenSame DEF OneWrite
    <2> QED BY <2>1, <2>2
  <1>2. CASE UNCHANGED <<rights, sums>>
    <2>1. CASE verifier.phase = "index"
      <3>1. ReadsArePresent'
        BY <1>2, <2>1 DEF OneWrite, ReadsArePresent, Reading
      <3> QED BY <2>1, <3>1, EarlyWrite DEF Starting
    <2>2. CASE verifier.phase # "index"
      <3>1. IndexSeen' = IndexSeen /\ RightsSeen' = RightsSeen
            /\ \A a \in Algorithms : SumsSeen(a)' = SumsSeen(a)
        BY <1>2, <2>2 DEF OneWrite, IndexSeen, RightsSeen, SumsSeen
      <3> QED BY <3>1, ForeseenSame DEF OneWrite
    <2> QED BY <2>1, <2>2
  <1>3. ASSUME UNCHANGED <<rights, index>>, NEW a \in Algorithms,
               \A b \in Algorithms \ {a} : sums'[b] = sums[b]
        PROVE  WouldPass' => WouldPass \/ Verifies'
    <2>1. CASE \/ verifier.phase \in {"index", "rights", "sha256"}
               \/ verifier.phase = "sha512" /\ a = "sha512"
      <3>1. verifier.phase = "sha512" => sums'["sha256"] = sums["sha256"]
        BY <1>3, <2>1 DEF Algorithms
      <3>2. ReadsArePresent'
        BY <1>3, <2>1, <3>1 DEF OneWrite, ReadsArePresent, Reading
      <3> QED BY <2>1, <3>2, EarlyWrite DEF Starting
    <2>2. CASE ~(\/ verifier.phase \in {"index", "rights", "sha256"}
                 \/ verifier.phase = "sha512" /\ a = "sha512")
      <3>1. \A b \in Algorithms : SumsSeen(b)' = SumsSeen(b)
        <4> TAKE b \in Algorithms
        <4>1. CASE verifier.phase = "sha512" /\ b = "sha512"
          BY <1>3, <2>2, <4>1 DEF OneWrite, SumsSeen
        <4>2. CASE ~(verifier.phase = "sha512" /\ b = "sha512")
          BY <2>2, <4>2 DEF OneWrite, SumsSeen
        <4> QED BY <4>1, <4>2
      <3>2. IndexSeen' = IndexSeen /\ RightsSeen' = RightsSeen
        BY <1>3 DEF OneWrite, IndexSeen, RightsSeen
      <3> QED BY <3>1, <3>2, ForeseenSame DEF OneWrite
    <2> QED BY <2>1, <2>2
  <1> QED BY <1>1, <1>2, <1>3

\* A write of files that are kept source by source disturbs what is seen of
\* one source only.
LEMMA OthersAsSeen ==
    ASSUME OneWrite, verifier.phase \in Reading, UNCHANGED <<rights, index, sums>>, NEW c,
           \A s \in Sources \ {c} : receipts'[s] = receipts[s],
           \A s \in Sources \ {c} : \A d \in Areas : bytes'[d][s] = bytes[d][s]
    PROVE  /\ \A s \in Sources \ {c} : /\ EntryWould(s)' <=> EntryWould(s)
                                       /\ ReceiptAgrees(s)' <=> ReceiptAgrees(s)
                                       /\ Candidates(s)' = Candidates(s) /\ First(s)' = First(s)
                                       /\ EntryAgrees(s, index.entries[s])' <=>
                                             EntryAgrees(s, index.entries[s])
           /\ ReadsArePresent'
           /\ Listed' = Listed /\ (Covered' <=> Covered) /\ Now' = Now /\ EntryNow' = EntryNow
           /\ ToTake' = ToTake /\ SuffixSeen' = SuffixSeen /\ (LedgersAgree' <=> LedgersAgree)
           /\ ~Wrong /\ c \in verifier.todo /\ verifier.todo \subseteq Listed => ~Wrong'
  <1>1. UNCHANGED verifier
    BY DEF OneWrite
  <1>2. /\ IndexSeen' = IndexSeen /\ RightsSeen' = RightsSeen
        /\ \A a \in Algorithms : SumsSeen(a)' = SumsSeen(a)
    BY <1>1 DEF IndexSeen, RightsSeen, SumsSeen
  <1>3. ASSUME NEW s \in Sources \ {c}
        PROVE  /\ receipts'[s] = receipts[s]
               /\ Candidates(s)' = Candidates(s) /\ First(s)' = First(s)
               /\ \A e : BytesAgree(s, e)' <=> BytesAgree(s, e)
    <2>1. bytes'["internal"][s] = bytes["internal"][s] /\ bytes'["sources"][s] = bytes["sources"][s]
      BY <1>3 DEF Areas
    <2>2. Candidates(s)' = Candidates(s)
      BY <2>1 DEF Candidates
    <2>3. First(s)' = First(s)
      BY <2>2 DEF First
    <2> QED BY <2>1, <2>2, <2>3 DEF BytesAgree
  <1>4. ASSUME NEW s \in Sources \ {c}
        PROVE  /\ EntryWould(s)' <=> EntryWould(s)
               /\ ReceiptAgrees(s)' <=> ReceiptAgrees(s)
               /\ EntryAgrees(s, index.entries[s])' <=> EntryAgrees(s, index.entries[s])
    <2>1. EntryWould(s)' <=> EntryWould(s)
      BY <1>2, <1>3, <1>4 DEF EntryWould
    <2>2. ReceiptAgrees(s)' <=> ReceiptAgrees(s)
      BY <1>3, <1>4 DEF ReceiptAgrees
    <2>3. EntryAgrees(s, index.entries[s])' <=> EntryAgrees(s, index.entries[s])
      BY <1>3, <1>4 DEF EntryAgrees
    <2> QED BY <2>1, <2>2, <2>3
  <1>5. /\ Listed' = Listed /\ (Covered' <=> Covered) /\ Now' = Now /\ EntryNow' = EntryNow
        /\ ToTake' = ToTake /\ SuffixSeen' = SuffixSeen /\ (LedgersAgree' <=> LedgersAgree)
    BY <1>1 DEF Listed, Covered, Now, EntryNow, ToTake, SuffixSeen, LedgersAgree
  <1>6. ReadsArePresent'
    BY <1>1 DEF OneWrite, ReadsArePresent
  <1>7. ASSUME ~Wrong, c \in verifier.todo, verifier.todo \subseteq Listed
        PROVE  ~Wrong'
    <2>1. Listed \subseteq Sources
      BY DEF Listed
    <2> QED BY <1>1, <1>3, <1>4, <1>5, <1>7, <2>1 DEF Wrong
  <1> QED BY <1>3, <1>4, <1>5, <1>6, <1>7

LEMMA WriteOfReceipt ==
    ASSUME OneWrite, UNCHANGED <<rights, index, sums, bytes>>, NEW c \in Sources,
           \A s \in Sources \ {c} : receipts'[s] = receipts[s]
    PROVE  WouldPass' => WouldPass \/ Verifies'
  <1>1. CASE verifier.phase \in Starting
    <2>1. ReadsArePresent'
      BY DEF OneWrite, ReadsArePresent
    <2> QED BY <1>1, <2>1, EarlyWrite
  <1>2. CASE verifier.phase \in Reading
    <2> USE <1>2
    <2>0. Sound /\ UNCHANGED verifier /\ verifier.todo \subseteq Sources
      BY FailedIsSound DEF OneWrite, VInv, Verifier
    <2>1. /\ \A s \in Sources \ {c} : /\ EntryWould(s)' <=> EntryWould(s)
                                      /\ ReceiptAgrees(s)' <=> ReceiptAgrees(s)
          /\ ReadsArePresent' /\ Now' = Now /\ EntryNow' = EntryNow
          /\ Listed' = Listed
          /\ ToTake' = ToTake /\ SuffixSeen' = SuffixSeen /\ (LedgersAgree' <=> LedgersAgree)
          /\ ~Wrong /\ c \in verifier.todo /\ verifier.todo \subseteq Listed => ~Wrong'
      BY OthersAsSeen
    <2>2. /\ Candidates(Now)' = Candidates(Now) /\ First(Now)' = First(Now)
          /\ (BytesAgree(Now, EntryNow)' <=> BytesAgree(Now, EntryNow))
      BY <2>1 DEF Candidates, First, BytesAgree
    <2>3. CASE c \in ToTake
      <3>1. c \in verifier.todo /\ (verifier.phase \in {"glob", "bytes"} => Now # c /\ Now \in Sources)
        BY <2>0, <2>3 DEF ToTake, Sound
      <3>2. Sound'
        BY <2>0, <2>1, <2>2, <3>1 DEF Sound
      <3>3. Running'
        BY <2>0 DEF Running, Reading
      <3> QED BY <2>1, <3>2, <3>3, SoundForesightNext DEF OneWrite
    <2>4. CASE c \notin ToTake
      <3>1. ToTake \subseteq Sources \ {c}
        BY <2>0, <2>4 DEF ToTake
      <3> QED BY <2>0, <2>1, <2>2, <3>1 DEF WouldPass, Starting, Reading
    <2> QED BY <2>3, <2>4
  <1> QED BY <1>1, <1>2 DEF OneWrite, VInv, Verifier, Running, Starting, Reading

LEMMA WriteOfBytes ==
    ASSUME OneWrite, UNCHANGED <<rights, index, sums, receipts>>,
           NEW area \in Areas, NEW c \in Sources, NEW x \in Suffixes, NEW b \in Bodies,
           bytes' = [bytes EXCEPT ![area][c][x] = b]
    PROVE  WouldPass' => WouldPass \/ Verifies'
  <1>0. /\ \A s \in Sources \ {c} : \A d \in Areas : bytes'[d][s] = bytes[d][s]
        /\ \A d \in Areas, y \in Suffixes : d # area \/ y # x => bytes'[d][c][y] = bytes[d][c][y]
        /\ bytes'[area][c][x] = b
    BY DEF OneWrite, VInv, IInv, TypeOK
  <1>1. CASE verifier.phase \in Starting
    <2>1. ReadsArePresent'
      BY DEF OneWrite, ReadsArePresent
    <2> QED BY <1>1, <2>1, EarlyWrite
  <1>2. CASE verifier.phase \in Reading
    <2> USE <1>2
    <2>0. Sound /\ UNCHANGED verifier /\ verifier.todo \subseteq Sources
      BY FailedIsSound DEF OneWrite, VInv, Verifier
    <2>1. /\ \A s \in Sources \ {c} : /\ EntryWould(s)' <=> EntryWould(s)
                                      /\ ReceiptAgrees(s)' <=> ReceiptAgrees(s)
                                      /\ Candidates(s)' = Candidates(s) /\ First(s)' = First(s)
          /\ ReadsArePresent' /\ Now' = Now /\ EntryNow' = EntryNow
          /\ Listed' = Listed
          /\ ToTake' = ToTake /\ SuffixSeen' = SuffixSeen /\ (LedgersAgree' <=> LedgersAgree)
          /\ ~Wrong /\ c \in verifier.todo /\ verifier.todo \subseteq Listed => ~Wrong'
      BY <1>0, OthersAsSeen
    <2>2. \A s : ReceiptAgrees(s)' <=> ReceiptAgrees(s)
      BY DEF ReceiptAgrees
    <2>3. Running'
      BY <2>0 DEF Running, Reading
    <2>4. /\ Candidates(c) \subseteq Candidates(c)'
          /\ (area = "internal" /\ x \notin Candidates(c)) \/ First(c)' = First(c)
      <3>1. \A y \in Suffixes : bytes["internal"][c][y] # Absent => bytes'["internal"][c][y] # Absent
        BY <1>0, BodiesAssumption DEF Areas
      <3>2. Candidates(c) \subseteq Candidates(c)'
        BY <3>1 DEF Candidates
      <3>3. ASSUME area # "internal" \/ x \in Candidates(c) PROVE Candidates(c)' = Candidates(c)
        <4>1. \A y \in Suffixes : bytes'["internal"][c][y] # Absent => bytes["internal"][c][y] # Absent
          BY <1>0, <3>3 DEF Areas, Candidates
        <4> QED BY <3>1, <4>1 DEF Candidates
      <3>4. area # "internal" \/ x \in Candidates(c) => First(c)' = First(c)
        BY <3>3 DEF First
      <3> QED BY <3>2, <3>4
    <2>5. CASE \/ c \in ToTake
               \/ verifier.phase = "glob" /\ c = Now
               \/ verifier.phase = "bytes" /\ c = Now /\ EntryNow.disposition = Repository
               \/ verifier.phase = "bytes" /\ c = Now /\ First(Now)' = First(Now)
      <3>1. c \in verifier.todo /\ (verifier.phase \in {"glob", "bytes"} => Now \in Sources)
        BY <2>0, <2>5 DEF ToTake, Sound
      <3>2. ASSUME verifier.phase = "bytes", EntryNow.disposition # Repository
            PROVE  Candidates(Now)' # {} /\ verifier.found = First(Now)'
        <4>1. Candidates(Now) # {} /\ verifier.found = First(Now)
          BY <2>0, <3>2 DEF Sound
        <4>2. CASE c = Now
          <5>1. First(Now)' = First(Now)
            BY <2>5, <3>2, <4>2 DEF ToTake
          <5> QED BY <2>1, <2>4, <4>1, <4>2, <5>1
        <4>3. CASE c # Now
          BY <2>1, <3>1, <3>2, <4>1, <4>3
        <4> QED BY <4>2, <4>3
      <3>3. ~verifier.failed => ~Wrong'
        BY <2>0, <2>1, <3>1 DEF Sound
      <3>4. Sound'
        BY <2>0, <2>1, <2>2, <3>2, <3>3 DEF Sound
      <3> QED BY <2>1, <2>3, <3>4, SoundForesightNext DEF OneWrite
    <2>6. CASE ~(\/ c \in ToTake
                 \/ verifier.phase = "glob" /\ c = Now
                 \/ verifier.phase = "bytes" /\ c = Now /\ EntryNow.disposition = Repository
                 \/ verifier.phase = "bytes" /\ c = Now /\ First(Now)' = First(Now))
      <3>1. ToTake \subseteq Sources \ {c}
        BY <2>0, <2>6 DEF ToTake
      <3>2. verifier.phase \in {"glob", "bytes"} => Now \in Sources
        BY <2>0 DEF Sound
      <3>3. verifier.phase = "glob" => (BytesAgree(Now, EntryNow)' <=> BytesAgree(Now, EntryNow))
        <4> SUFFICES ASSUME verifier.phase = "glob"
                     PROVE  BytesAgree(Now, EntryNow)' <=> BytesAgree(Now, EntryNow)
          OBVIOUS
        <4>1. Now \in Sources \ {c}
          BY <2>6, <3>2
        <4>2. \A d \in Areas : bytes'[d][Now] = bytes[d][Now]
          BY <1>0, <4>1
        <4> QED BY <2>1, <4>1, <4>2 DEF BytesAgree, Areas
      <3>4. ASSUME verifier.phase = "bytes"
            PROVE  bytes'[AreaOf(EntryNow.disposition)][Now][SuffixSeen]
                      = bytes[AreaOf(EntryNow.disposition)][Now][SuffixSeen]
        <4>0. AreaOf(EntryNow.disposition) \in Areas
          BY DEF AreaOf, Areas
        <4>1. CASE c # Now
          BY <1>0, <3>2, <3>4, <4>0, <4>1
        <4>2. CASE c = Now
          <5>1. /\ EntryNow.disposition # Repository /\ First(Now)' # First(Now)
            BY <2>6, <3>4, <4>2
          <5>2. Candidates(Now) # {} /\ verifier.found = First(Now)
            BY <2>0, <3>4, <5>1 DEF Sound
          <5>3. First(Now) \in Candidates(Now) /\ First(Now) \in Suffixes /\ First(Now) # Absent
            <6>1. First(Now) \in Suffixes /\ Candidates(Now) \subseteq Nat
              BY <5>2, FirstType, SourcesAssumption DEF Candidates
            <6>2. \E y \in Candidates(Now) : \A z \in Candidates(Now) : y <= z
              BY <5>2, <6>1, LeastExists
            <6>3. First(Now) \in Candidates(Now)
              BY <6>2 DEF First
            <6> QED BY <6>1, <6>3, BodiesAssumption
          <5>4. x \notin Candidates(Now)
            <6>1. First(Now)' = First(c)' /\ First(Now) = First(c)
              BY <2>1, <4>2 DEF First, Candidates
            <6> QED BY <2>4, <4>2, <5>1, <6>1
          <5>5. SuffixSeen = First(Now) /\ SuffixSeen # x
            BY <5>2, <5>3, <5>4 DEF SuffixSeen
          <5> QED BY <1>0, <4>0, <4>2, <5>3, <5>5
        <4> QED BY <4>1, <4>2
      <3> QED BY <2>0, <2>1, <3>1, <3>3, <3>4 DEF WouldPass, Starting, Reading
    <2> QED BY <2>5, <2>6
  <1> QED BY <1>1, <1>2 DEF OneWrite, VInv, Verifier, Running, Starting, Reading

LEMMA WriteSeesThrough ==
    ASSUME OneWrite, Next
    PROVE  WouldPass' => WouldPass \/ Verifies'
  <1>1. TypeOK /\ UnderWay /\ freezer \in Freezer
    BY DEF OneWrite, VInv, IInv, TypeOK
  <1>2. CASE Revise
    BY <1>2, WriteOfText DEF Revise, package
  <1>3. CASE Start \/ Acquire \/ WriteRecord \/ Kill
    <2>1. UNCHANGED <<rights, bytes, receipts, index, sums>>
      BY <1>3 DEF Start, Acquire, WriteRecord, Kill, package
    <2> QED BY <2>1, WriteOfText
  <1>4. CASE StoreBytes
    <2>1. CASE UNCHANGED bytes
      BY <1>4, <2>1, WriteOfText DEF StoreBytes
    <2>2. CASE ~UNCHANGED bytes
      <3> DEFINE area == AreaOf(Terms.disposition)
      <3>1. /\ bytes' = [bytes EXCEPT ![area][Current][Terms.suffix] = freezer.body]
            /\ freezer.phase = "bytes"
        BY <1>4, <2>2 DEF StoreBytes
      <3>2. Current \in freezer.todo /\ freezer.body \in Bodies
        BY <1>1, <3>1 DEF UnderWay
      <3>3. Current \in Sources /\ freezer.snapshot \in Matrices
        BY <1>1, <3>2 DEF Freezer
      <3>4. Terms \in Record
        BY <3>3, MatricesAssumption DEF Terms
      <3>5. Terms.suffix \in Suffixes /\ area \in Areas
        BY <3>4 DEF Record, AreaOf, Areas
      <3> HIDE DEF area
      <3> QED BY <1>4, <3>1, <3>2, <3>3, <3>5, WriteOfBytes DEF StoreBytes
    <2> QED BY <2>1, <2>2
  <1>5. CASE StoreReceipt
    <2>1. CASE UNCHANGED receipts
      BY <1>5, <2>1, WriteOfText DEF StoreReceipt
    <2>2. CASE ~UNCHANGED receipts
      <3>1. /\ receipts' = [receipts EXCEPT
                  ![Current] = [target |-> Terms.target, body |-> freezer.body]]
            /\ freezer.phase = "receipt"
        BY <1>5, <2>2 DEF StoreReceipt
      <3>2. Current \in Sources
        BY <1>1, <3>1 DEF UnderWay, Freezer
      <3>3. \A s \in Sources \ {Current} : receipts'[s] = receipts[s]
        BY <1>1, <3>1 DEF TypeOK
      <3> QED BY <1>5, <3>2, <3>3, WriteOfReceipt DEF StoreReceipt
    <2> QED BY <2>1, <2>2
  <1>6. CASE WriteIndex
    BY <1>6, WriteOfText DEF WriteIndex
  <1>7. ASSUME NEW a \in Algorithms, WriteSums(a)
        PROVE  WouldPass' => WouldPass \/ Verifies'
    <2>1. \A b \in Algorithms \ {a} : sums'[b] = sums[b]
      BY <1>1, <1>7 DEF WriteSums, TypeOK
    <2> QED BY <1>7, <2>1, WriteOfText DEF WriteSums
  <1> QED BY <1>2, <1>3, <1>4, <1>5, <1>6, <1>7 DEF Next, Step
-----------------------------------------------------------------------------
\* While at most one write was made, a package that will pass was whole once.
Seen ==
    /\ Running /\ watch.writes = 0 /\ Verifies => watch.whole
    /\ verifier.phase # "idle" /\ watch.writes < 2 /\ WouldPass => watch.whole

OInv == QInv /\ Sorted /\ Seen

LEMMA FilesSame ==
    ASSUME UNCHANGED <<rights, package>>
    PROVE  /\ Verifies' <=> Verifies
           /\ UNCHANGED verifier => (WouldPass' <=> WouldPass)
  <1>1. UNCHANGED <<rights, bytes, receipts, index, sums>>
    BY DEF package
  <1>2. \A s : EntryAgrees(s, index.entries[s])' <=> EntryAgrees(s, index.entries[s])
    BY <1>1 DEF EntryAgrees, BytesAgree, Candidates, First
  <1>3. Verifies' <=> Verifies
    BY <1>1, <1>2 DEF Verifies, Coverage
  <1>4. UNCHANGED verifier => (WouldPass' <=> WouldPass)
    BY <1>1, ForeseenSame DEF IndexSeen, RightsSeen, SumsSeen
  <1> QED BY <1>3, <1>4

LEMMA BesideKeepsSight == OInv /\ QInv' /\ Beside => Sorted' /\ Seen'
  <1> SUFFICES ASSUME OInv, QInv', Beside PROVE Sorted' /\ Seen'
    OBVIOUS
  <1> DEFINE written == Running /\ <<rights, package>>' # <<rights, package>>
  <1>1. /\ UNCHANGED verifier /\ Next /\ verifier.phase # "exited"
        /\ watch'.writes = UpTo2(watch.writes, written)
        /\ watch'.whole = (watch.whole \/ (written /\ Verifies'))
    BY DEF Beside
  <1>2. Sorted'
    BY <1>1 DEF OInv, Sorted, EntryNow, Now
  <1>3. CASE ~Running
    <2>1. verifier'.phase = "idle"
      BY <1>1, <1>3 DEF Running
    <2> QED BY <1>2, <2>1 DEF Seen, Running
  <1>4. CASE Running /\ ~written
    <2>1. UNCHANGED <<rights, package>> /\ watch'.writes = watch.writes
      BY <1>1, <1>4 DEF UpTo2
    <2>2. (Verifies' <=> Verifies) /\ (WouldPass' <=> WouldPass)
      BY <1>1, <2>1, FilesSame
    <2>3. Running' <=> Running
      BY <1>1 DEF Running
    <2>4. watch'.whole <=> watch.whole
      BY <1>1, <1>4
    <2> HIDE DEF written
    <2> QED BY <1>1, <1>2, <2>1, <2>2, <2>3, <2>4 DEF OInv, Seen
  <1>5. CASE Running /\ written
    <2>1. watch.writes \in 0..2
      BY DEF OInv, QInv, VInv, Watch
    <2>2. watch'.writes # 0 /\ (watch'.writes < 2 => watch.writes = 0)
      BY <1>1, <1>5, <2>1 DEF UpTo2
    <2>3. Verifies' => watch'.whole
      BY <1>1, <1>5
    <2>4. ASSUME watch'.writes < 2, WouldPass' PROVE watch'.whole
      <3>1. watch.writes = 0
        BY <2>2, <2>4
      <3>2. ReadsArePresent /\ FailedIsWrong
        BY <3>1 DEF OInv, QInv, Quiet
      <3>3. VInv /\ VInv'
        BY DEF OInv, QInv
      <3>4. WouldPass \/ Verifies'
        BY <1>1, <1>5, <2>4, <3>2, <3>3, WriteSeesThrough DEF OneWrite
      <3>5. WouldPass => Verifies
        BY <1>5, <3>2, <3>3, SoundForesight, FailedIsSound
      <3>6. Verifies => watch.whole
        BY <1>5, <3>1 DEF OInv, Seen
      <3> HIDE DEF written
      <3> QED BY <1>1, <2>3, <3>4, <3>5, <3>6
    <2> HIDE DEF written
    <2> QED BY <1>2, <2>2, <2>4 DEF Seen
  <1> HIDE DEF written
  <1> QED BY <1>2, <1>3, <1>4, <1>5

LEMMA StepKeepsSight == OInv /\ [NextBeside]_allVars => OInv'
  <1> SUFFICES ASSUME OInv, [NextBeside]_allVars PROVE OInv'
    OBVIOUS
  <1>1. QInv' /\ VInv /\ VInv'
    BY StepStaysQuiet DEF OInv, QInv
  <1>2. CASE UNCHANGED allVars
    <2>1. UNCHANGED <<rights, package>> /\ UNCHANGED verifier /\ UNCHANGED watch
      BY <1>2 DEF allVars, vars, package
    <2>2. Sorted'
      BY <2>1 DEF OInv, Sorted, EntryNow, Now
    <2>3. (Verifies' <=> Verifies) /\ (WouldPass' <=> WouldPass) /\ (Running' <=> Running)
      BY <2>1, FilesSame DEF Running
    <2> QED BY <1>1, <2>1, <2>2, <2>3 DEF OInv, Seen
  <1>3. CASE Verify
    <2>1. Sorted' /\ (WouldPass' => WouldPass)
      BY <1>1, <1>3, VerifySeesThrough DEF OInv
    <2>2. UNCHANGED <<rights, package>> /\ UNCHANGED watch
      BY <1>3 DEF Verify, vars, package
    <2>3. Verifies' <=> Verifies
      BY <2>2, FilesSame
    <2>4. Running
      BY <1>3 DEF Verify, ReadIndex, ReadRights, ReadSums, ListReceipts, CheckReceipt, TakeInternal,
                  CheckBytes, Report, Running, Algorithms
    <2> QED BY <1>1, <2>1, <2>2, <2>3, <2>4 DEF OInv, Seen, Running
  <1>4. CASE Checkout
    <2>1. UNCHANGED verifier /\ verifier.phase = "idle"
      BY <1>4 DEF Checkout
    <2>2. Sorted' /\ Seen'
      BY <2>1 DEF OInv, Sorted, EntryNow, Now, Seen, Running
    <2> QED BY <1>1, <2>2 DEF OInv
  <1>5. CASE StartVerifier
    <2>1. /\ verifier' = [verifier EXCEPT !.phase = "index"] /\ verifier.phase = "idle"
          /\ watch' = [watch EXCEPT !.whole = Verifies] /\ UNCHANGED vars
      BY <1>5 DEF StartVerifier
    <2>2. /\ verifier'.phase = "index" /\ verifier'.found = verifier.found
          /\ watch'.whole = Verifies
      BY <1>1, <2>1 DEF VInv, Verifier, Watch
    <2>3. Verifies' <=> Verifies
      BY <2>1, FilesSame DEF vars, package
    <2>4. ReadsArePresent' /\ Sound' /\ Running'
      BY <2>2 DEF ReadsArePresent, Sound, Running, Reading
    <2>5. WouldPass' => Verifies'
      BY <1>1, <2>4, SoundForesightNext
    <2>6. Seen'
      BY <2>2, <2>3, <2>5 DEF Seen
    <2>7. Sorted'
      BY <2>1, <2>2 DEF OInv, Sorted
    <2> QED BY <1>1, <2>6, <2>7 DEF OInv
  <1>6. CASE Beside
    BY <1>1, <1>6, BesideKeepsSight DEF OInv
  <1> QED BY <1>2, <1>3, <1>4, <1>5, <1>6 DEF NextBeside

(***************************************************************************)
(* A verifier that passes a package which at no moment of the verification *)
(* verified was overtaken by two writes: of the freezer or of the owner,   *)
(* whatever they are, for any sources and matrices.                        *)
(***************************************************************************)
THEOREM OneWriteMisleadsNobody == SpecBeside => []OneWriteNeverTears
  <1>1. InitBeside => OInv
    <2> SUFFICES ASSUME InitBeside PROVE OInv
      OBVIOUS
    <2>1. QInv
      BY InitiallyBeside, QuietInitially DEF QInv
    <2>2. Sorted /\ Seen
      BY DEF InitBeside, Sorted, Seen, Running
    <2> QED BY <2>1, <2>2 DEF OInv
  <1>2. OInv => OneWriteNeverTears
    <2> SUFFICES ASSUME OInv, verifier.exit = 0, ~watch.whole PROVE watch.writes = 2
      BY DEF OneWriteNeverTears
    <2>1. verifier.phase = "exited" /\ watch.writes \in 0..2
      BY BodiesAssumption DEF OInv, QInv, VInv, SoFar, Watch
    <2>2. WouldPass
      BY <2>1 DEF WouldPass, Starting, Reading
    <2>3. ~(watch.writes < 2)
      BY <2>1, <2>2 DEF OInv, Seen
    <2> QED BY <2>1, <2>3
  <1> QED BY <1>1, <1>2, StepKeepsSight, PTL DEF SpecBeside
-----------------------------------------------------------------------------
(***************************************************************************)
(* The verifier cannot be kept reading: it has five reads to make before   *)
(* the entries, three steps at most for each of them, and the report.      *)
(***************************************************************************)
Unread(v) ==
    LET n == Cardinality(Sources)
        left == Cardinality(v.todo)
    IN  CASE v.phase = "index" -> 3 * n + 6   [] v.phase = "rights" -> 3 * n + 5
          [] v.phase = "sha256" -> 3 * n + 4  [] v.phase = "sha512" -> 3 * n + 3
          [] v.phase = "listing" -> 3 * n + 2 [] v.phase = "receipt" -> 3 * left + 1
          [] v.phase = "glob" -> 3 * left     [] v.phase = "bytes" -> 3 * left - 1
          [] OTHER -> 0

EntryUnderWay == verifier.phase \in {"glob", "bytes"} => verifier.todo # {}

LEMMA EntriesAreFinite ==
    ASSUME NEW T \in SUBSET Sources
    PROVE  /\ IsFiniteSet(T) /\ Cardinality(T) \in Nat /\ Cardinality(Sources) \in Nat
           /\ Cardinality(T) <= Cardinality(Sources) /\ (T # {} => Cardinality(T) >= 1)
  <1>0. IsFiniteSet(Sources)
    BY SourcesAssumption
  <1>1. IsFiniteSet(T) /\ Cardinality(T) \in Nat
    BY <1>0, FS_Subset, FS_CardinalityType
  <1>2. T # {} => Cardinality(T) # 0
    BY <1>1, FS_EmptySet
  <1> QED BY <1>0, <1>1, <1>2, FS_Subset, FS_CardinalityType

\* Where a step of the verifier leads.
ReadsOn ==
    {<<"index", "rights">>, <<"rights", "sha256">>, <<"sha256", "sha512">>,
     <<"sha512", "listing">>, <<"receipt", "glob">>, <<"receipt", "bytes">>,
     <<"glob", "bytes">>}

Onwards ==
    \/ verifier.phase \notin {"idle", "exited"} /\ verifier'.phase = "exited"
    \/ /\ <<verifier.phase, verifier'.phase>> \in ReadsOn
       /\ verifier'.todo = verifier.todo
       /\ verifier.phase \in {"receipt", "glob"} => verifier.todo # {}
    \/ verifier.phase = "listing" /\ verifier'.phase = "receipt"
    \/ /\ verifier.phase \in Reading /\ verifier'.phase = "receipt"
       /\ verifier.todo # {} /\ verifier'.todo = verifier.todo \ {Now}

LEMMA EntryDoneLeads ==
    ASSUME VInv, verifier.phase \in Reading, verifier.todo # {}, NEW agrees, EntryDone(agrees)
    PROVE  Onwards
  <1>1. verifier'.phase = "receipt" /\ verifier'.todo = verifier.todo \ {Now}
    BY DEF VInv, Verifier, EntryDone
  <1> QED BY <1>1 DEF Onwards

LEMMA ConcludeLeads ==
    ASSUME VInv, verifier.phase \notin {"idle", "exited"}, NEW code, Conclude(code)
    PROVE  Onwards
  BY DEF VInv, Verifier, Conclude, Onwards

LEMMA ReadLeads ==
    ASSUME VInv, ReadIndex \/ ReadRights \/ ListReceipts \/ \E a \in Algorithms : ReadSums(a)
    PROVE  Onwards
  <1>1. CASE \E code : Conclude(code)
    BY <1>1, ConcludeLeads DEF ReadIndex, ReadRights, ListReceipts, ReadSums, Algorithms
  <1>2. CASE ReadIndex /\ ~\E code : Conclude(code)
    <2>1. verifier.phase = "index" /\ verifier'.phase = "rights" /\ verifier'.todo = verifier.todo
      BY <1>2 DEF ReadIndex, VInv, Verifier
    <2> QED BY <2>1 DEF Onwards, ReadsOn
  <1>3. CASE ReadRights
    <2>1. verifier.phase = "rights" /\ verifier'.phase = "sha256" /\ verifier'.todo = verifier.todo
      BY <1>3 DEF ReadRights, VInv, Verifier
    <2> QED BY <2>1 DEF Onwards, ReadsOn
  <1>4. CASE ListReceipts
    BY <1>4 DEF ListReceipts, VInv, Verifier, Onwards
  <1>5. ASSUME NEW a \in Algorithms, ReadSums(a), ~\E code : Conclude(code)
        PROVE  Onwards
    <2> DEFINE to == IF a = "sha256" THEN "sha512" ELSE "listing"
    <2>1. verifier' = [verifier EXCEPT !.phase = to, !.sums[a] = sums[a]]
      BY <1>5 DEF ReadSums
    <2> HIDE DEF to
    <2>2. verifier'.phase = to /\ verifier'.todo = verifier.todo
      BY <2>1 DEF VInv, Verifier
    <2> QED BY <1>5, <2>2 DEF ReadSums, Algorithms, Onwards, ReadsOn, to
  <1> QED BY <1>1, <1>2, <1>3, <1>4, <1>5

LEMMA EntryLeads ==
    ASSUME VInv, EntryUnderWay, CheckReceipt \/ TakeInternal \/ CheckBytes
    PROVE  Onwards
  <1>0. verifier.phase \in Reading /\ verifier.todo # {}
    BY DEF CheckReceipt, TakeInternal, CheckBytes, Reading, EntryUnderWay
  <1>1. CASE \E agrees : EntryDone(agrees)
    BY <1>0, <1>1, EntryDoneLeads
  <1>2. CASE CheckReceipt /\ ~\E agrees : EntryDone(agrees)
    <2> DEFINE to == IF EntryNow.disposition = Repository THEN "bytes" ELSE "glob"
    <2>1. \E agrees : Judged(agrees, to)
      BY <1>2 DEF CheckReceipt
    <2> HIDE DEF to
    <2>2. verifier'.phase = to /\ verifier'.todo = verifier.todo
      BY <2>1 DEF Judged, VInv, Verifier
    <2> QED BY <1>0, <1>2, <2>2 DEF CheckReceipt, Onwards, ReadsOn, to
  <1>3. CASE TakeInternal /\ ~\E agrees : EntryDone(agrees)
    <2>1. verifier.phase = "glob" /\ verifier'.phase = "bytes" /\ verifier'.todo = verifier.todo
      BY <1>3 DEF TakeInternal, VInv, Verifier
    <2> QED BY <1>0, <2>1 DEF Onwards, ReadsOn
  <1> QED BY <1>1, <1>2, <1>3 DEF CheckBytes

LEMMA VerifyLeads ==
    ASSUME VInv, EntryUnderWay, Verify
    PROVE  Onwards
  <1>1. CASE Report
    BY <1>1, ConcludeLeads DEF Report
  <1> QED BY <1>1, ReadLeads, EntryLeads DEF Verify

LEMMA StepKeepsEntry ==
    ASSUME VInv, EntryUnderWay, [NextBeside]_allVars
    PROVE  EntryUnderWay'
  <1>1. CASE Verify
    BY <1>1, VerifyLeads DEF Onwards, ReadsOn, EntryUnderWay
  <1>2. CASE StartVerifier
    BY <1>2 DEF StartVerifier, VInv, Verifier, EntryUnderWay
  <1>3. CASE verifier' = verifier
    BY <1>3 DEF EntryUnderWay
  <1> QED BY <1>1, <1>2, <1>3 DEF NextBeside, Beside, Checkout, allVars

LEMMA UnreadIsBounded ==
    ASSUME VInv, EntryUnderWay
    PROVE  Unread(verifier) \in 0..3 * Cardinality(Sources) + 6
  <1>1. verifier.todo \in SUBSET Sources
    BY DEF VInv, Verifier
  <1> QED BY <1>1, EntriesAreFinite DEF Unread, EntryUnderWay

LEMMA OnwardsShortens ==
    ASSUME VInv, VInv', EntryUnderWay, Onwards
    PROVE  Unread(verifier') < Unread(verifier)
  <1>1. verifier.todo \in SUBSET Sources /\ verifier'.todo \in SUBSET Sources
    BY DEF VInv, Verifier
  <1> DEFINE n == Cardinality(Sources)
             left == Cardinality(verifier.todo)
             left1 == Cardinality(verifier'.todo)
  <1>2. /\ n \in Nat /\ left \in Nat /\ left1 \in Nat /\ left1 <= n
        /\ verifier.todo # {} => left >= 1
    BY <1>1, EntriesAreFinite
  <1>3. ASSUME verifier.todo # {}, verifier'.todo = verifier.todo \ {Now}
        PROVE  left1 = left - 1
    BY <1>1, <1>3, NowIsDue, EntriesAreFinite, FS_RemoveElement
  <1>4. ASSUME verifier'.todo = verifier.todo PROVE left1 = left
    BY <1>4
  <1> HIDE DEF n, left, left1
  <1>5. /\ verifier.phase \in {"index", "rights", "sha256", "sha512", "listing", "receipt",
                              "glob", "bytes", "idle", "exited"}
        /\ verifier.phase \in {"glob", "bytes"} => left >= 1
    BY <1>2 DEF VInv, Verifier, EntryUnderWay
  <1>6. CASE verifier.phase \notin {"idle", "exited"} /\ verifier'.phase = "exited"
    BY <1>2, <1>5, <1>6 DEF Unread, n, left
  <1>7. CASE /\ <<verifier.phase, verifier'.phase>> \in ReadsOn
             /\ verifier'.todo = verifier.todo
    BY <1>2, <1>4, <1>7 DEF Unread, ReadsOn, n, left, left1
  <1>8. CASE verifier.phase = "listing" /\ verifier'.phase = "receipt"
    BY <1>2, <1>8 DEF Unread, n, left1
  <1>9. CASE /\ verifier.phase \in Reading /\ verifier'.phase = "receipt"
             /\ verifier.todo # {} /\ verifier'.todo = verifier.todo \ {Now}
    BY <1>2, <1>3, <1>9 DEF Unread, Reading, left, left1
  <1> QED BY <1>6, <1>7, <1>8, <1>9 DEF Onwards

UnreadBounded == Unread(verifier) \in 0..3 * Cardinality(Sources) + 6
EveryReadCounts ==
    [][/\ Verify => Unread(verifier') < Unread(verifier)
       /\ ~Verify /\ ~StartVerifier => Unread(verifier') = Unread(verifier)]_allVars

(***************************************************************************)
(* verify: from its first read to its exit a verification takes at most    *)
(* 3 * |Sources| + 6 steps, and nothing that freezers, the owner of the    *)
(* rights or a checkout do beside it keeps it any longer.                  *)
(***************************************************************************)
THEOREM ReadsRunOut == SpecBeside => []UnreadBounded /\ EveryReadCounts
  <1>1. InitBeside => EntryUnderWay
    BY DEF InitBeside, EntryUnderWay
  <1>2. VInv /\ EntryUnderWay /\ [NextBeside]_allVars => EntryUnderWay'
    BY StepKeepsEntry
  <1>3. VInv /\ EntryUnderWay => UnreadBounded
    BY UnreadIsBounded DEF UnreadBounded
  <1>4. ASSUME VInv, VInv', EntryUnderWay, [NextBeside]_allVars
        PROVE  /\ Verify => Unread(verifier') < Unread(verifier)
               /\ ~Verify /\ ~StartVerifier => Unread(verifier') = Unread(verifier)
    <2>1. Verify => Unread(verifier') < Unread(verifier)
      BY <1>4, VerifyLeads, OnwardsShortens
    <2>2. ~Verify /\ ~StartVerifier => verifier' = verifier
      BY <1>4 DEF NextBeside, Beside, Checkout, allVars
    <2> QED BY <2>1, <2>2
  <1>5. VInv /\ VInv' /\ EntryUnderWay /\ [NextBeside]_allVars =>
          [/\ Verify => Unread(verifier') < Unread(verifier)
           /\ ~Verify /\ ~StartVerifier => Unread(verifier') = Unread(verifier)]_allVars
    BY <1>4
  <1> QED BY <1>1, <1>2, <1>3, <1>5, InitiallyBeside, StepBesidePreserves, PTL
          DEF SpecBeside, EveryReadCounts
=============================================================================
