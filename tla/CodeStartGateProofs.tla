------------------------ MODULE CodeStartGateProofs ------------------------
(***************************************************************************)
(* What holds of every verification of the code-start gate, for any        *)
(* evidence, sources and paths and any number of edits: its process stays  *)
(* well formed, a production path that is not admitted cannot be slipped   *)
(* past both listings in fewer than six moves, a verification during which *)
(* nothing is edited passes exactly the trees that conform, and one edit   *)
(* deceives it only where a file is read twice.                            *)
(***************************************************************************)
EXTENDS CodeStartGate, TLAPS, WellFoundedInduction, FiniteSetTheorems, FunctionTheorems

-----------------------------------------------------------------------------
(* Documents, and where they are read.                                     *)

Anything == (UNION {Content[n] : n \in Documents}) \cup {Absent}

LEMMA DocumentNames ==
    Documents = {"sourceSet", "receipts", "profile", "active", "veip", "gate", "matrix",
                 "promoted", "required"}
  BY DEF Documents, Content

LEMMA EvidenceNames ==
    /\ Len(Evidence) = 7 /\ DOMAIN Evidence = 1..7
    /\ Evidence[1] = "sourceSet" /\ Evidence[2] = "receipts" /\ Evidence[3] = "profile"
    /\ Evidence[4] = "veip" /\ Evidence[5] = "gate" /\ Evidence[6] = "profile"
    /\ Evidence[7] = "active"
  BY DEF Evidence

LEMMA BoundedNames ==
    /\ Len(Bounded) = 3
    /\ Bounded[1] = [name |-> "matrix", says |-> "owners"]
    /\ Bounded[2] = [name |-> "promoted", says |-> "exact"]
    /\ Bounded[3] = [name |-> "required", says |-> "present"]
  BY DEF Bounded

LEMMA TextTypes ==
    ASSUME NEW t \in Tree, NEW n \in Documents
    PROVE  t.doc[n] \in Content[n] \cup {Absent}
  <1>1. t.doc \in Text
    BY DEF Tree
  <1>2. CASE n = "sourceSet"
    BY <1>1, <1>2 DEF Text, Content
  <1>3. CASE n = "receipts"
    BY <1>1, <1>3 DEF Text, Content
  <1>4. CASE n = "profile"
    BY <1>1, <1>4 DEF Text, Content
  <1>5. CASE n = "active"
    BY <1>1, <1>5 DEF Text, Content
  <1>6. CASE n = "veip"
    BY <1>1, <1>6 DEF Text, Content
  <1>7. CASE n = "gate"
    BY <1>1, <1>7 DEF Text, Content
  <1>8. CASE n = "matrix"
    BY <1>1, <1>8 DEF Text, Content
  <1>9. CASE n = "promoted"
    BY <1>1, <1>9 DEF Text, Content
  <1>10. CASE n = "required"
    BY <1>1, <1>10 DEF Text, Content
  <1> QED
    BY DocumentNames, <1>2, <1>3, <1>4, <1>5, <1>6, <1>7, <1>8, <1>9, <1>10

LEMMA ReadTypes ==
    ASSUME NEW t \in Tree, NEW k \in 1..7
    PROVE  t.doc[Evidence[k]] \in Content[Evidence[k]] \cup {Absent}
  <1>1. Evidence[k] \in Documents
    BY EvidenceNames, DocumentNames
  <1> QED BY <1>1, TextTypes

-----------------------------------------------------------------------------
(* The process and the tree stay well formed.                              *)

Listing == {"tracked", "disk", "missing"}
Phases == {"evidence", "sources", "judge", "record", "hash", "exited"} \cup Listing

Readings == [1..7 -> Anything]
Payloads == Seq(Bodies)
Positions == Nat \ {0}

Gate ==
    [phase : Phases, at : Positions, seen : Readings, payload : Payloads,
     round : {1, 2}, offending : BOOLEAN, verdict : {Absent, "pass", "fail"}]

Watch ==
    [edits : 0..MaxEdits, moves : 0..MaxMoves, edited : SUBSET (Documents \cup Files),
     whole : BOOLEAN, standing : SUBSET Paths]

\* It has read the evidence and not judged it yet.
Informed ==
    gate.phase \in {"sources", "judge"} \/ (gate.phase \in Listing /\ gate.round = 1)

Shape ==
    /\ gate \in Gate
    /\ \A k \in 1..7 : gate.seen[k] \in Content[Evidence[k]] \cup {Absent}
    /\ gate.phase = "evidence" =>
          gate.at \in 1..7 /\ \A k \in 1..7 : k < gate.at => gate.seen[k] # Absent
    /\ Informed => \A k \in 1..7 : gate.seen[k] # Absent
    /\ gate.phase = "sources" => gate.at \in 1..Len(gate.seen[1].items)
    /\ gate.phase = "record" => gate.at \in 1..3
    /\ gate.phase \in Listing \cup {"judge"} => gate.at = 1
    /\ gate.phase \in {"evidence", "sources", "judge"} => gate.round = 1
    /\ gate.phase \in {"record", "hash"} => gate.round = 2
    /\ gate.verdict # Absent <=> gate.phase = "exited"

Types == tree \in Tree /\ watch \in Watch /\ Shape

LEMMA UnseenTypes ==
    /\ Unseen \in Readings /\ <<>> \in Payloads /\ 1 \in Positions
    /\ \A k \in 1..7 : Unseen[k] = Absent
  BY EvidenceNames DEF Unseen, Anything, Readings, Payloads, Positions

LEMMA ConcludeShape ==
    ASSUME NEW verdict \in {"pass", "fail"}, Shape, Conclude(verdict)
    PROVE  Shape' /\ gate'.phase = "exited" /\ gate'.verdict = verdict
  <1>1. /\ gate'.phase = "exited" /\ gate'.verdict = verdict /\ gate'.seen = Unseen
        /\ gate' \in Gate
    BY UnseenTypes DEF Conclude, Shape, Gate, Phases
  <1>2. verdict # Absent
    BY AbsentAssumption
  <1> QED BY <1>1, <1>2, UnseenTypes DEF Shape, Informed, Listing

(* What a source set and its receipts are once they have been read. *)
LEMMA ListTypes ==
    ASSUME Shape, Informed
    PROVE  /\ gate.seen[1].incomplete \in BOOLEAN
           /\ gate.seen[1].items \in Seq(Item) /\ gate.seen[2] \in Seq(Receipt)
  <1>1. gate.seen[1] \in Content["sourceSet"] /\ gate.seen[2] \in Content["receipts"]
    BY EvidenceNames DEF Shape
  <1>2. gate.seen[1] \in SourceSets /\ gate.seen[2] \in ReceiptLists
    BY <1>1 DEF Content
  <1> QED BY <1>2, SourceSetsAssumption

LEMMA ReadEvidenceShape ==
    ASSUME Types, ReadEvidence
    PROVE  Shape'
  <1> DEFINE content == tree.doc[Evidence[gate.at]]
             seen == [gate.seen EXCEPT ![gate.at] = content]
  <1>1. gate.phase = "evidence" /\ gate.at \in 1..7 /\ gate.round = 1 /\ gate.verdict = Absent
    BY DEF ReadEvidence, Types, Shape
  <1>2. content \in Content[Evidence[gate.at]] \cup {Absent}
    BY <1>1, ReadTypes DEF Types
  <1>3. CASE content = Absent
    BY <1>3, ConcludeShape DEF ReadEvidence, Types
  <1>4. CASE content # Absent
    <2>1. content \in Anything
      BY <1>1, <1>2, EvidenceNames, DocumentNames DEF Anything
    <2>2. /\ seen \in Readings
          /\ \A k \in 1..7 : seen[k] = IF k = gate.at THEN content ELSE gate.seen[k]
      BY <1>1, <2>1 DEF Types, Shape, Gate, Readings
    <2>3. \A k \in 1..7 : seen[k] \in Content[Evidence[k]] \cup {Absent}
      BY <1>2, <2>2 DEF Types, Shape
    <2>4. \A k \in 1..7 : k <= gate.at => seen[k] # Absent
      BY <1>1, <1>4, <2>2 DEF Types, Shape
    <2> HIDE DEF content, seen
    <2>5. CASE gate.at < 7
      <3>1. gate' = [gate EXCEPT !.seen = seen, !.at = @ + 1]
        BY <1>4, <2>5, EvidenceNames DEF ReadEvidence, content, seen
      <3>2. /\ gate' \in Gate /\ gate'.phase = "evidence" /\ gate'.seen = seen
            /\ gate'.at = gate.at + 1 /\ gate'.round = 1 /\ gate'.verdict = Absent
        <4>1. gate.at + 1 \in Positions
          BY <1>1 DEF Positions
        <4> QED BY <1>1, <2>2, <3>1, <4>1 DEF Types, Shape, Gate
      <3> QED BY <1>1, <2>3, <2>4, <2>5, <3>2 DEF Shape, Informed, Listing
    <2>6. CASE gate.at = 7
      <3> DEFINE to == IF seen[1].items = <<>> THEN "tracked" ELSE "sources"
      <3>1. gate' = [gate EXCEPT !.seen = seen, !.at = 1, !.phase = to]
        BY <1>4, <2>6, EvidenceNames DEF ReadEvidence, content, seen
      <3>2. to \in {"tracked", "sources"}
        OBVIOUS
      <3>3. /\ gate' \in Gate /\ gate'.phase = to /\ gate'.seen = seen
            /\ gate'.at = 1 /\ gate'.round = 1 /\ gate'.verdict = Absent
        BY <1>1, <2>2, <3>1, <3>2, UnseenTypes DEF Types, Shape, Gate, Phases, Listing
      <3>4. seen[1] \in SourceSets
        BY <2>3, <2>4, <2>6, EvidenceNames DEF Content
      <3>5. to = "sources" => Len(seen[1].items) >= 1
        BY <3>4, SourceSetsAssumption
      <3>6. to = "sources" => 1 \in 1..Len(seen[1].items)
        BY <3>4, <3>5, SourceSetsAssumption
      <3>7. \A k \in 1..7 : seen[k] # Absent
        BY <2>4, <2>6
      <3> QED BY <2>3, <3>2, <3>3, <3>6, <3>7 DEF Shape, Informed, Listing
    <2> QED BY <1>1, <2>5, <2>6
  <1> QED BY <1>3, <1>4

LEMMA ReadSourceShape ==
    ASSUME Types, ReadSource
    PROVE  Shape'
  <1> DEFINE items == gate.seen[1].items
             body == tree.sources[items[gate.at].file]
  <1>1. /\ gate.phase = "sources" /\ gate.at \in 1..Len(items) /\ gate.round = 1
        /\ gate.verdict = Absent
    BY DEF ReadSource, Types, Shape
  <1>2. items \in Seq(Item)
    BY <1>1, ListTypes DEF Types, Informed
  <1>3. body \in Bodies \cup {Absent}
    <2>1. items[gate.at] \in Item
      BY <1>1, <1>2
    <2>2. items[gate.at].file \in Files
      BY <2>1 DEF Item
    <2> QED BY <2>2 DEF Types, Tree
  <1>4. CASE body = Absent
    BY <1>4, ConcludeShape DEF ReadSource, Types
  <1>5. CASE body # Absent
    <2> DEFINE to == IF gate.at < Len(items) THEN "sources" ELSE "tracked"
               next == IF gate.at < Len(items) THEN gate.at + 1 ELSE 1
    <2>1. Append(gate.payload, body) \in Payloads
      BY <1>3, <1>5 DEF Types, Shape, Gate, Payloads
    <2>2. gate' = [gate EXCEPT !.payload = Append(@, body), !.at = next, !.phase = to]
      BY <1>1, <1>5 DEF ReadSource
    <2>3. Len(items) \in Nat
      BY <1>2
    <2>4. next \in Positions /\ to \in Phases /\ (to = "sources" => next \in 1..Len(items))
      BY <1>1, <2>3 DEF Phases, Listing, Positions
    <2> HIDE DEF next, to, body
    <2>5. /\ gate' \in Gate /\ gate'.phase = to /\ gate'.at = next
          /\ gate'.seen = gate.seen /\ gate'.round = 1 /\ gate'.verdict = Absent
      BY <1>1, <2>1, <2>2, <2>4 DEF Types, Shape, Gate
    <2>6. to \in {"sources", "tracked"} /\ (to = "tracked" => next = 1)
      BY DEF to, next
    <2> QED BY <1>1, <2>4, <2>5, <2>6 DEF Types, Shape, Informed, Listing
  <1> QED BY <1>4, <1>5

LEMMA ListTrackedShape ==
    ASSUME Types, ListTracked
    PROVE  Shape'
  <1>1. CASE tree.tracked = Absent
    BY <1>1, ConcludeShape DEF ListTracked, Types
  <1>2. CASE tree.tracked # Absent
    <2>1. /\ gate' = [gate EXCEPT !.phase = "disk", !.offending = Unlawful(tree.tracked)]
          /\ gate.phase = "tracked" /\ Unlawful(tree.tracked) \in BOOLEAN
      BY <1>2 DEF ListTracked, Unlawful
    <2>2. gate' \in Gate /\ gate'.phase = "disk" /\ UNCHANGED <<gate.seen, gate.at, gate.round, gate.verdict>>
      BY <2>1 DEF Types, Shape, Gate, Phases, Listing
    <2> QED BY <2>1, <2>2 DEF Types, Shape, Informed, Listing
  <1> QED BY <1>1, <1>2

LEMMA ListDiskShape ==
    ASSUME Types, ListDisk
    PROVE  Shape'
  <1>1. /\ gate' = [gate EXCEPT !.phase = "missing",
                                !.offending = gate.offending \/ Unlawful(tree.disk)]
        /\ gate.phase = "disk" /\ (gate.offending \/ Unlawful(tree.disk)) \in BOOLEAN
    BY DEF ListDisk, Unlawful
  <1>2. /\ gate' \in Gate /\ gate'.phase = "missing"
        /\ UNCHANGED <<gate.seen, gate.at, gate.round, gate.verdict>>
    BY <1>1 DEF Types, Shape, Gate, Phases, Listing
  <1> QED BY <1>1, <1>2 DEF Types, Shape, Informed, Listing

LEMMA CheckMissingShape ==
    ASSUME Types, CheckMissing
    PROVE  Shape'
  <1> DEFINE offending == gate.offending \/ ~(Admitted \subseteq tree.disk)
  <1>1. gate.phase = "missing" /\ gate.verdict = Absent /\ offending \in BOOLEAN
    BY DEF CheckMissing, Types, Shape
  <1>2. CASE gate.round = 1
    <2>1. gate' = [gate EXCEPT !.phase = "judge", !.offending = offending]
      BY <1>2 DEF CheckMissing
    <2> HIDE DEF offending
    <2>2. /\ gate' \in Gate /\ gate'.phase = "judge" /\ gate'.round = 1
          /\ UNCHANGED <<gate.seen, gate.at, gate.verdict>>
      BY <1>1, <1>2, <2>1 DEF Types, Shape, Gate, Phases
    <2> QED BY <1>1, <1>2, <2>2 DEF Types, Shape, Informed, Listing
  <1>3. CASE gate.round = 2 /\ offending
    BY <1>3, ConcludeShape DEF CheckMissing, Types
  <1>4. CASE gate.round = 2 /\ ~offending
    <2>1. gate' = [gate EXCEPT !.phase = "hash", !.offending = FALSE]
      BY <1>4 DEF CheckMissing
    <2>2. /\ gate' \in Gate /\ gate'.phase = "hash" /\ gate'.round = 2
          /\ UNCHANGED <<gate.seen, gate.at, gate.verdict>>
      BY <1>1, <1>4, <2>1 DEF Types, Shape, Gate, Phases
    <2> QED BY <1>1, <2>2 DEF Types, Shape, Informed, Listing
  <1> QED BY <1>2, <1>3, <1>4 DEF Types, Shape, Gate

LEMMA JudgeShape ==
    ASSUME Types, Judge
    PROVE  Shape'
  <1>1. CASE EvidenceHolds
    <2>1. gate' = [gate EXCEPT !.phase = "record", !.seen = Unseen, !.payload = <<>>,
                               !.round = 2]
      BY <1>1 DEF Judge
    <2>2. gate.phase = "judge" /\ gate.at = 1 /\ gate.verdict = Absent
      BY DEF Judge, Types, Shape
    <2>3. /\ gate' \in Gate /\ gate'.phase = "record" /\ gate'.round = 2
          /\ gate'.seen = Unseen /\ gate'.at = 1 /\ gate'.verdict = Absent
      BY <2>1, <2>2, UnseenTypes DEF Types, Shape, Gate, Phases
    <2> QED BY <2>3, UnseenTypes DEF Shape, Informed, Listing
  <1>2. CASE ~EvidenceHolds
    BY <1>2, ConcludeShape DEF Judge, Types
  <1> QED BY <1>1, <1>2

LEMMA ReadBoundedShape ==
    ASSUME Types, ReadBounded
    PROVE  Shape'
  <1>1. gate.phase = "record" /\ gate.at \in 1..3 /\ gate.round = 2 /\ gate.verdict = Absent
    BY DEF ReadBounded, Types, Shape
  <1>2. CASE tree.doc[Bounded[gate.at].name] # Bounded[gate.at].says
    BY <1>2, ConcludeShape DEF ReadBounded, Types
  <1>3. CASE /\ tree.doc[Bounded[gate.at].name] = Bounded[gate.at].says
             /\ gate.at < 3
    <2>1. gate' = [gate EXCEPT !.at = gate.at + 1] /\ gate.at + 1 \in Positions
      BY <1>1, <1>3, BoundedNames DEF ReadBounded, Positions
    <2>2. /\ gate' \in Gate /\ gate'.at = gate.at + 1 /\ gate'.phase = "record"
          /\ UNCHANGED <<gate.seen, gate.round, gate.verdict>>
      BY <1>1, <2>1 DEF Types, Shape, Gate
    <2> QED BY <1>1, <1>3, <2>2 DEF Types, Shape, Informed, Listing
  <1>4. CASE /\ tree.doc[Bounded[gate.at].name] = Bounded[gate.at].says
             /\ gate.at = 3
    <2>1. gate' = [gate EXCEPT !.phase = "tracked", !.at = 1]
      BY <1>1, <1>4, BoundedNames DEF ReadBounded
    <2>2. /\ gate' \in Gate /\ gate'.at = 1 /\ gate'.phase = "tracked"
          /\ UNCHANGED <<gate.seen, gate.round, gate.verdict>>
      BY <1>1, <2>1, UnseenTypes DEF Types, Shape, Gate, Phases, Listing
    <2> QED BY <1>1, <2>2 DEF Types, Shape, Informed, Listing
  <1> QED BY <1>1, <1>2, <1>3, <1>4

LEMMA HashGateShape ==
    ASSUME Types, HashGate
    PROVE  Shape'
  BY ConcludeShape DEF HashGate, Types

LEMMA VerifyShape == Types /\ Verify => Types'
  <1> SUFFICES ASSUME Types, Verify PROVE Types'
    OBVIOUS
  <1>1. Shape'
    BY ReadEvidenceShape, ReadSourceShape, ListTrackedShape, ListDiskShape, CheckMissingShape,
       JudgeShape, ReadBoundedShape, HashGateShape DEF Verify
  <1> QED BY <1>1 DEF Types, Verify

LEMMA BecomesTypes ==
    ASSUME Types, NEW t \in Tree, NEW names \in SUBSET (Documents \cup Files),
           NEW edits \in {0, 1}, NEW moves \in {0, 1}, Becomes(t, names, edits, moves)
    PROVE  Types'
  <1> DEFINE whole == watch.whole \/ Conforms(t)
             edited == watch.edited \cup names
             standing == watch.standing \cap Intruders(t)
  <1>1. watch' = [edits |-> watch.edits + edits, moves |-> watch.moves + moves,
                  edited |-> edited, whole |-> whole, standing |-> standing]
    BY DEF Becomes
  <1>2. whole \in BOOLEAN
    OBVIOUS
  <1>3. watch.edits + edits \in 0..MaxEdits /\ watch.moves + moves \in 0..MaxMoves
    <2>1. watch.edits \in Nat /\ watch.moves \in Nat
      BY DEF Types, Watch
    <2>2. watch.edits + edits <= MaxEdits /\ watch.moves + moves <= MaxMoves
      BY DEF Becomes
    <2> QED BY <2>1, <2>2, BoundsAssumption
  <1>4. edited \in SUBSET (Documents \cup Files) /\ standing \in SUBSET Paths
    BY DEF Types, Watch
  <1> HIDE DEF whole, edited, standing
  <1>5. watch' \in Watch
    BY <1>1, <1>2, <1>3, <1>4 DEF Watch
  <1>6. tree' = t /\ gate' = gate
    BY DEF Becomes
  <1> QED BY <1>5, <1>6 DEF Types, Shape, Informed

LEMMA EditedText ==
    ASSUME NEW d \in Text, NEW n \in Documents, NEW c \in Content[n] \cup {Absent}
    PROVE  [d EXCEPT ![n] = c] \in Text
  <1>2. CASE n = "sourceSet"
    BY <1>2 DEF Text, Content
  <1>3. CASE n = "receipts"
    BY <1>3 DEF Text, Content
  <1>4. CASE n = "profile"
    BY <1>4 DEF Text, Content
  <1>5. CASE n = "active"
    BY <1>5 DEF Text, Content
  <1>6. CASE n = "veip"
    BY <1>6 DEF Text, Content
  <1>7. CASE n = "gate"
    BY <1>7 DEF Text, Content
  <1>8. CASE n = "matrix"
    BY <1>8 DEF Text, Content
  <1>9. CASE n = "promoted"
    BY <1>9 DEF Text, Content
  <1>10. CASE n = "required"
    BY <1>10 DEF Text, Content
  <1> QED
    BY DocumentNames, <1>2, <1>3, <1>4, <1>5, <1>6, <1>7, <1>8, <1>9, <1>10

(* An edit leaves a tree, and counts as one of two kinds: of a document or a *)
(* source file, or of a path in one of the places it may be in.            *)
LEMMA EditKinds ==
    ASSUME Types, EditDocument \/ EditSource \/ MovePath
    PROVE  \E t \in Tree, names \in SUBSET (Documents \cup Files), moves \in {0, 1} :
              /\ Becomes(t, names, 1 - moves, moves)
              /\ t.tracked = tree.tracked \/ t.disk = tree.disk
              /\ moves = 0 => t.tracked = tree.tracked /\ t.disk = tree.disk
  <1> DEFINE Goal(t, names, moves) ==
                /\ Becomes(t, names, 1 - moves, moves)
                /\ t.tracked = tree.tracked \/ t.disk = tree.disk
                /\ moves = 0 => t.tracked = tree.tracked /\ t.disk = tree.disk
  <1>1. CASE EditDocument
    <2> PICK n \in Documents : \E c \in (Content[n] \cup {Absent}) \ {tree.doc[n]} :
             Becomes([tree EXCEPT !.doc[n] = c], {n}, 1, 0)
      BY <1>1 DEF EditDocument
    <2>1. PICK c \in Content[n] \cup {Absent} : Becomes([tree EXCEPT !.doc[n] = c], {n}, 1, 0)
      OBVIOUS
    <2> DEFINE t == [tree EXCEPT !.doc[n] = c]
    <2>2. tree.doc \in Text
      BY DEF Types, Tree
    <2>3. [tree EXCEPT !.doc = [tree.doc EXCEPT ![n] = c]] \in Tree
      BY <2>2, EditedText DEF Types, Tree
    <2>4. t = [tree EXCEPT !.doc = [tree.doc EXCEPT ![n] = c]]
      OBVIOUS
    <2>5. t \in Tree /\ t.tracked = tree.tracked /\ t.disk = tree.disk
      BY <2>3, <2>4 DEF Types, Tree
    <2> HIDE DEF t
    <2>6. Becomes(t, {n}, 1 - 0, 0)
      BY <2>1 DEF t
    <2> QED BY <2>5, <2>6
  <1>2. CASE EditSource
    <2> PICK f \in Files : \E b \in (Bodies \cup {Absent}) \ {tree.sources[f]} :
             Becomes([tree EXCEPT !.sources[f] = b], {f}, 1, 0)
      BY <1>2 DEF EditSource
    <2>1. PICK b \in Bodies \cup {Absent} : Becomes([tree EXCEPT !.sources[f] = b], {f}, 1, 0)
      OBVIOUS
    <2> DEFINE t == [tree EXCEPT !.sources[f] = b]
    <2>2. t \in Tree /\ t.tracked = tree.tracked /\ t.disk = tree.disk
      BY DEF Types, Tree
    <2> HIDE DEF t
    <2>3. Becomes(t, {f}, 1 - 0, 0)
      BY <2>1 DEF t
    <2> QED BY <2>2, <2>3
  <1>3. CASE MovePath
    <2>1. PICK p \in Paths :
             \/ /\ tree.tracked # Absent
                /\ Becomes([tree EXCEPT !.tracked = Toggled(tree.tracked, p)], {}, 0, 1)
             \/ Becomes([tree EXCEPT !.disk = Toggled(tree.disk, p)], {}, 0, 1)
      BY <1>3 DEF MovePath
    <2> DEFINE t == [tree EXCEPT !.tracked = Toggled(tree.tracked, p)]
               u == [tree EXCEPT !.disk = Toggled(tree.disk, p)]
    <2>2. \A ps \in SUBSET Paths : Toggled(ps, p) \in SUBSET Paths
      BY DEF Toggled
    <2>3. tree.tracked # Absent => t \in Tree /\ t.disk = tree.disk
      BY <2>2 DEF Types, Tree
    <2>4. u \in Tree /\ u.tracked = tree.tracked
      BY <2>2 DEF Types, Tree
    <2> HIDE DEF t, u
    <2>5. \/ tree.tracked # Absent /\ Becomes(t, {}, 1 - 1, 1)
          \/ Becomes(u, {}, 1 - 1, 1)
      BY <2>1 DEF t, u
    <2> QED BY <2>3, <2>4, <2>5
  <1> QED BY <1>1, <1>2, <1>3

LEMMA EditTypes == Types /\ (EditDocument \/ EditSource \/ MovePath) => Types'
  <1> SUFFICES ASSUME Types, EditDocument \/ EditSource \/ MovePath PROVE Types'
    OBVIOUS
  <1>1. PICK t \in Tree, names \in SUBSET (Documents \cup Files), moves \in {0, 1} :
           Becomes(t, names, 1 - moves, moves)
    BY EditKinds
  <1>2. 1 - moves \in {0, 1}
    OBVIOUS
  <1> QED BY <1>1, <1>2, BecomesTypes

LEMMA InitialTypes == Init => Types
  <1> SUFFICES ASSUME Init PROVE Types
    OBVIOUS
  <1>1. tree \in Tree
    BY TreesAssumption DEF Init
  <1>2. Intruders(tree) \in SUBSET Paths
    BY <1>1 DEF Tree, Intruders
  <1>3. Conforms(tree) \in BOOLEAN
    BY DEF Conforms
  <1>4. watch \in Watch
    BY <1>2, <1>3, BoundsAssumption DEF Init, Watch
  <1>5. gate \in Gate
    BY UnseenTypes DEF Init, Gate, Phases
  <1>6. Shape
    BY <1>5, UnseenTypes DEF Init, Shape, Informed, Listing
  <1> QED BY <1>1, <1>4, <1>6 DEF Types

LEMMA StepTypes == Types /\ [Next]_vars => Types'
  <1>1. Types /\ UNCHANGED vars => Types'
    BY DEF Types, Shape, Informed, vars
  <1> QED BY <1>1, VerifyShape, EditTypes DEF Next

(***************************************************************************)
(* The verifier's process, the tree and what is recorded of them keep      *)
(* their types, however often the tree is edited.                          *)
(***************************************************************************)
THEOREM GateTypes == Spec => []TypeOK
  <1>1. Types => TypeOK
    BY EvidenceNames DEF Types, TypeOK, Watch, Shape, Gate, Phases, Listing, Payloads, Positions
  <1> QED BY InitialTypes, StepTypes, <1>1, PTL DEF Spec

-----------------------------------------------------------------------------
(* A path that stands where it must not.                                   *)

InIndex(p) == tree.tracked # Absent /\ p \in tree.tracked
OnDisk(p) == p \in tree.disk

Moved(n, here, there) ==
    watch.moves >= n + (IF here THEN 1 ELSE 0) + (IF there THEN 1 ELSE 0)

\* The moves that kept p out of the listings read so far.  When the index was
\* listed without it, p was on the disk alone, and when the disk was, in the
\* index alone: from one listing to the next takes two moves.
Dodged(p) ==
    /\ gate.phase = "disk" /\ ~gate.offending =>
          Moved(IF gate.round = 1 THEN 0 ELSE 4, InIndex(p), ~OnDisk(p))
    /\ gate.phase = "missing" /\ ~gate.offending =>
          IF gate.round = 1 THEN Moved(2, ~InIndex(p), OnDisk(p)) ELSE watch.moves >= 6
    /\ gate.phase = "judge" /\ ~gate.offending => Moved(2, ~InIndex(p), OnDisk(p))
    /\ gate.phase = "record" \/ (gate.phase = "tracked" /\ gate.round = 2) =>
          Moved(2, ~InIndex(p), OnDisk(p))
    /\ gate.phase = "hash" \/ gate.verdict = "pass" => watch.moves >= 6

Standing ==
    /\ watch.standing \subseteq Intruders(tree)
    /\ \A p \in watch.standing : Dodged(p)

LEMMA IntruderIsListed ==
    ASSUME NEW p \in Intruders(tree)
    PROVE  /\ InIndex(p) \/ OnDisk(p)
           /\ tree.tracked # Absent /\ ~Unlawful(tree.tracked) => ~InIndex(p) /\ OnDisk(p)
           /\ ~Unlawful(tree.disk) => InIndex(p) /\ ~OnDisk(p)
  BY DEF Intruders, InIndex, OnDisk, Unlawful

(* Nothing is promised before the first listing. *)
LEMMA EarlyDodged ==
    ASSUME NEW p, gate'.phase \in {"evidence", "sources", "tracked"}, gate'.round = 1,
           gate'.verdict # "pass"
    PROVE  Dodged(p)'
  <1>1. /\ gate'.phase \notin {"disk", "missing", "judge", "record", "hash"}
        /\ gate'.round # 2
    OBVIOUS
  <1> QED BY <1>1 DEF Dodged

LEMMA ReadOneMore ==
    ASSUME gate \in Gate, NEW payload, NEW next, NEW to,
           gate' = [gate EXCEPT !.payload = payload, !.at = next, !.phase = to]
    PROVE  /\ gate'.phase = to /\ gate'.at = next /\ gate'.payload = payload
           /\ UNCHANGED <<gate.seen, gate.round, gate.verdict>>
  BY DEF Gate

(* What the verifier does changes neither the tree nor the count. *)
LEMMA VerifyDodged ==
    ASSUME Types, Verify, NEW p \in Intruders(tree), Dodged(p)
    PROVE  Dodged(p)'
  <1> USE DEF Moved
  <1>1. /\ tree' = tree /\ watch' = watch /\ watch.moves \in Nat
        /\ (InIndex(p)' <=> InIndex(p)) /\ (OnDisk(p)' <=> OnDisk(p))
    BY DEF Verify, Types, Watch, InIndex, OnDisk
  <1>2. "pass" # Absent /\ "fail" # Absent
    BY AbsentAssumption
  <1>3. CASE Conclude("fail")
    <2>1. gate'.phase = "exited" /\ gate'.verdict = "fail"
      BY <1>3, ConcludeShape DEF Types
    <2> QED BY <2>1 DEF Dodged
  <1>4. CASE ReadEvidence /\ ~Conclude("fail")
    <2>1. /\ gate'.phase \in {"evidence", "sources", "tracked"}
          /\ gate'.round = 1 /\ gate'.verdict = Absent
      <3> DEFINE content == tree.doc[Evidence[gate.at]]
                 seen == [gate.seen EXCEPT ![gate.at] = content]
                 to == IF seen[1].items = <<>> THEN "tracked" ELSE "sources"
      <3>1. gate \in Gate /\ gate.phase = "evidence" /\ gate.round = 1 /\ gate.verdict = Absent
        BY <1>4 DEF ReadEvidence, Types, Shape
      <3>2. \/ gate' = [gate EXCEPT !.seen = seen, !.at = gate.at + 1]
            \/ gate' = [gate EXCEPT !.seen = seen, !.at = 1, !.phase = to]
        BY <1>4 DEF ReadEvidence
      <3>3. to \in {"sources", "tracked"}
        OBVIOUS
      <3> HIDE DEF seen, to
      <3> QED BY <3>1, <3>2, <3>3 DEF Gate
    <2> QED BY <1>2, <2>1, EarlyDodged
  <1>5. CASE ReadSource /\ ~Conclude("fail")
    <2>1. /\ gate'.phase \in {"sources", "tracked"}
          /\ gate'.round = 1 /\ gate'.verdict = Absent
      <3>1. gate \in Gate /\ gate.phase = "sources" /\ gate.round = 1 /\ gate.verdict = Absent
        BY <1>5 DEF ReadSource, Types, Shape
      <3> DEFINE items == gate.seen[1].items
                 body == tree.sources[items[gate.at].file]
                 payload == Append(gate.payload, body)
                 next == IF gate.at < Len(items) THEN gate.at + 1 ELSE 1
                 to == IF gate.at < Len(items) THEN "sources" ELSE "tracked"
      <3>2. gate' = [gate EXCEPT !.payload = payload, !.at = next, !.phase = to]
        BY <1>5, <3>1 DEF ReadSource
      <3>3. to \in {"sources", "tracked"}
        OBVIOUS
      <3> HIDE DEF payload, next, to
      <3> QED BY <3>1, <3>2, <3>3, ReadOneMore
    <2> QED BY <1>2, <2>1, EarlyDodged
  <1>6. CASE ListTracked /\ ~Conclude("fail")
    <2>1. /\ gate.phase = "tracked" /\ gate'.phase = "disk" /\ gate'.round = gate.round
          /\ gate'.verdict = Absent /\ gate.round \in {1, 2}
          /\ gate'.offending = Unlawful(tree.tracked) /\ tree.tracked # Absent
      BY <1>6 DEF ListTracked, Types, Shape, Gate
    <2>2. ~gate'.offending => ~InIndex(p) /\ OnDisk(p)
      BY <2>1, IntruderIsListed
    <2> QED BY <1>1, <1>2, <2>1, <2>2 DEF Dodged
  <1>7. CASE ListDisk
    <2>1. /\ gate.phase = "disk" /\ gate'.phase = "missing" /\ gate'.round = gate.round
          /\ gate'.verdict = Absent /\ gate.round \in {1, 2}
          /\ gate'.offending = (gate.offending \/ Unlawful(tree.disk))
      BY <1>7 DEF ListDisk, Types, Shape, Gate
    <2>2. ~gate'.offending => ~gate.offending /\ InIndex(p) /\ ~OnDisk(p)
      BY <2>1, IntruderIsListed
    <2> QED BY <1>1, <1>2, <2>1, <2>2, SMTT(30) DEF Dodged
  <1>8. CASE CheckMissing /\ ~Conclude("fail")
    <2>1. /\ gate.phase = "missing" /\ gate'.verdict = Absent
          /\ IF gate.round = 1
             THEN gate'.phase = "judge" /\ (~gate'.offending => ~gate.offending)
             ELSE gate'.phase = "hash" /\ ~gate.offending
      BY <1>8 DEF CheckMissing, Types, Shape, Gate
    <2>2. CASE gate.round = 1
      <3>1. ~gate.offending => Moved(2, ~InIndex(p), OnDisk(p))
        BY <2>1, <2>2 DEF Dodged
      <3> QED BY <1>1, <1>2, <2>1, <2>2, <3>1 DEF Dodged
    <2>3. CASE gate.round # 1
      <3>1. watch.moves >= 6
        BY <2>1, <2>3 DEF Dodged
      <3> QED BY <1>1, <1>2, <2>1, <2>3, <3>1 DEF Dodged
    <2> QED BY <2>2, <2>3
  <1>9. CASE Judge /\ ~Conclude("fail")
    <2>1. /\ gate.phase = "judge" /\ ~gate.offending
          /\ gate'.phase = "record" /\ gate'.verdict = Absent
      BY <1>9 DEF Judge, EvidenceHolds, Types, Shape, Gate
    <2> QED BY <1>1, <1>2, <2>1 DEF Dodged
  <1>10. CASE ReadBounded /\ ~Conclude("fail")
    <2>1. /\ gate.phase = "record" /\ gate'.phase \in {"record", "tracked"}
          /\ gate'.verdict = Absent
      BY <1>10 DEF ReadBounded, Types, Shape, Gate
    <2>2. Moved(2, ~InIndex(p), OnDisk(p))'
      BY <1>1, <2>1 DEF Dodged
    <2> QED BY <1>2, <2>1, <2>2 DEF Dodged
  <1>11. CASE HashGate /\ ~Conclude("fail")
    <2>1. gate.phase = "hash" /\ gate'.phase = "exited"
      BY <1>11 DEF HashGate, Conclude, Types, Shape, Gate
    <2> QED BY <1>1, <2>1 DEF Dodged
  <1> QED BY <1>3, <1>4, <1>5, <1>6, <1>7, <1>8, <1>9, <1>10, <1>11 DEF Verify

(* An edit moves a path in one place, and is counted. *)
LEMMA EditDodged ==
    ASSUME Types, EditDocument \/ EditSource \/ MovePath, NEW p, Dodged(p)
    PROVE  Dodged(p)'
  <1>1. PICK t \in Tree, names \in SUBSET (Documents \cup Files), moves \in {0, 1} :
           /\ Becomes(t, names, 1 - moves, moves)
           /\ t.tracked = tree.tracked \/ t.disk = tree.disk
           /\ moves = 0 => t.tracked = tree.tracked /\ t.disk = tree.disk
    BY EditKinds
  <1>2. /\ gate' = gate /\ tree' = t
        /\ watch.moves \in Nat /\ watch'.moves = watch.moves + moves
    BY <1>1 DEF Becomes, Types, Watch
  <1>3. /\ (InIndex(p)' <=> InIndex(p)) \/ (OnDisk(p)' <=> OnDisk(p))
        /\ moves = 0 => (InIndex(p)' <=> InIndex(p)) /\ (OnDisk(p)' <=> OnDisk(p))
    BY <1>1, <1>2 DEF InIndex, OnDisk
  <1> QED BY <1>2, <1>3 DEF Dodged, Moved

LEMMA StandingInitially == Init => Standing
  BY AbsentAssumption DEF Init, Standing, Dodged

LEMMA StepStanding == Types /\ Standing /\ [Next]_vars => Standing'
  <1> SUFFICES ASSUME Types, Standing, [Next]_vars PROVE Standing'
    OBVIOUS
  <1>1. CASE Verify
    <2>1. tree' = tree /\ watch' = watch
      BY <1>1 DEF Verify
    <2> QED BY <1>1, <2>1, VerifyDodged DEF Standing, Intruders
  <1>2. CASE EditDocument \/ EditSource \/ MovePath
    <2>1. watch'.standing \subseteq watch.standing /\ watch'.standing \subseteq Intruders(tree)'
      <3>1. PICK t \in Tree, names \in SUBSET (Documents \cup Files), moves \in {0, 1} :
               Becomes(t, names, 1 - moves, moves)
        BY <1>2, EditKinds
      <3>2. tree' = t /\ watch'.standing = watch.standing \cap Intruders(t)
        BY <3>1 DEF Becomes
      <3> QED BY <3>2 DEF Intruders
    <2> QED BY <1>2, <2>1, EditDodged DEF Standing
  <1>3. CASE UNCHANGED vars
    BY <1>3 DEF vars, Standing, Intruders, Dodged, Moved, InIndex, OnDisk
  <1> QED BY <1>1, <1>2, <1>3 DEF Next

(***************************************************************************)
(* No production path that is not admitted, and is there from the first    *)
(* step to the last, passes in fewer than six moves, whatever they are.    *)
(***************************************************************************)
THEOREM SixMovesHideAnIntruder == Spec => []StandingIntruderIsFound
  <1>1. Standing => StandingIntruderIsFound
    BY DEF Standing, Dodged, StandingIntruderIsFound
  <1> QED BY InitialTypes, StepTypes, StandingInitially, StepStanding, <1>1, PTL DEF Spec

-----------------------------------------------------------------------------
(* Lists of records, and the records that count.                           *)

LEMMA GreatestExists ==
    ASSUME NEW n \in Nat, NEW T, T \subseteq 1..n, T # {}
    PROVE  \E x \in T : \A y \in T : y <= x
  <1> DEFINE D == {n - x : x \in T}
  <1>1. D # {} /\ D \subseteq Nat
    <2>1. \A x \in T : n - x \in Nat
      OBVIOUS
    <2>2. \E x \in T : n - x \in D
      OBVIOUS
    <2> QED BY <2>1, <2>2
  <1>2. PICK d \in D : \A c \in D : ~(<<c, d>> \in OpToRel(<, Nat))
    BY <1>1, NatLessThanWellFounded, WFMin
  <1>3. PICK x \in T : d = n - x
    OBVIOUS
  <1>4. ASSUME NEW y \in T PROVE y <= x
    <2>1. n - y \in D /\ n - y \in Nat /\ n - x \in Nat /\ y \in Nat /\ x \in Nat
      OBVIOUS
    <2>2. <<n - y, n - x>> \in Nat \X Nat /\ ~(<<n - y, n - x>> \in OpToRel(<, Nat))
      BY <1>2, <1>3, <2>1
    <2>3. ~(n - y < n - x)
      BY <2>2 DEF OpToRel
    <2> QED BY <2>1, <2>3
  <1> QED BY <1>4

LEMMA LastRecord ==
    ASSUME NEW S, NEW list \in Seq(S), NEW id \in Keys(list)
    PROVE  LET k == IndexOf(list, id)
           IN  /\ k \in DOMAIN list /\ list[k].id = id
               /\ \A l \in DOMAIN list : list[l].id = id => l <= k
  <1> DEFINE T == {k \in DOMAIN list : list[k].id = id}
  <1>1. Len(list) \in Nat /\ DOMAIN list = 1..Len(list)
    OBVIOUS
  <1>2. T \subseteq 1..Len(list) /\ T # {}
    BY <1>1 DEF Keys
  <1>3. \E k \in T : \A l \in T : l <= k
    BY <1>1, <1>2, GreatestExists
  <1> QED BY <1>3 DEF IndexOf

LEMMA EffectiveRecords ==
    ASSUME NEW S, NEW list \in Seq(S)
    PROVE  /\ \A id \in Keys(list) :
                 /\ list[IndexOf(list, id)] \in Effective(list)
                 /\ list[IndexOf(list, id)].id = id
           /\ \A x \in Effective(list) : x.id \in Keys(list) /\ x = list[IndexOf(list, x.id)]
  <1>1. Len(list) \in Nat /\ DOMAIN list = 1..Len(list)
    OBVIOUS
  <1>2. ASSUME NEW id \in Keys(list)
        PROVE  list[IndexOf(list, id)] \in Effective(list) /\ list[IndexOf(list, id)].id = id
    <2> DEFINE k == IndexOf(list, id)
    <2>1. /\ k \in DOMAIN list /\ list[k].id = id
          /\ \A l \in DOMAIN list : list[l].id = id => l <= k
      BY LastRecord
    <2> HIDE DEF k
    <2>2. \A m \in DOMAIN list : m > k => list[m].id # list[k].id
      BY <1>1, <2>1
    <2>3. list[k] \in Effective(list)
      BY <2>1, <2>2 DEF Effective
    <2> QED BY <2>1, <2>3 DEF k
  <1>3. ASSUME NEW x \in Effective(list)
        PROVE  x.id \in Keys(list) /\ x = list[IndexOf(list, x.id)]
    <2>1. PICK l \in DOMAIN list :
             x = list[l] /\ \A m \in DOMAIN list : m > l => list[m].id # list[l].id
      BY DEF Effective
    <2>2. x.id \in Keys(list)
      BY <2>1 DEF Keys
    <2> DEFINE k == IndexOf(list, x.id)
    <2>3. k \in DOMAIN list /\ list[k].id = x.id /\ l <= k
      BY <2>1, <2>2, LastRecord
    <2> HIDE DEF k
    <2>4. l \in Nat /\ k \in Nat /\ ~(k > l)
      BY <1>1, <2>1, <2>3
    <2>5. k = l
      BY <2>3, <2>4
    <2> QED BY <2>1, <2>2, <2>5 DEF k
  <1> QED BY <1>2, <1>3

LEMMA AsManyAsKeys ==
    ASSUME NEW S, NEW list \in Seq(S)
    PROVE  Cardinality(Effective(list)) = Cardinality(Keys(list))
  <1> DEFINE name == [k \in 1..Len(list) |-> list[k].id]
             last == [id \in Keys(list) |-> list[IndexOf(list, id)]]
  <1>1. Len(list) \in Nat /\ DOMAIN list = 1..Len(list)
    OBVIOUS
  <1>2. IsFiniteSet(Keys(list))
    <2>1. IsFiniteSet(1..Len(list))
      BY <1>1, FS_Interval
    <2>2. name \in Surjection(1..Len(list), Keys(list))
      BY <1>1 DEF Surjection, Keys
    <2> HIDE DEF name
    <2> QED BY <2>1, <2>2, FS_Surjection
  <1>3. last \in [Keys(list) -> Effective(list)]
    BY EffectiveRecords
  <1>4. \A a, b \in Keys(list) : last[a] = last[b] => a = b
    BY EffectiveRecords
  <1>5. \A x \in Effective(list) : \E id \in Keys(list) : last[id] = x
    BY EffectiveRecords
  <1> HIDE DEF last
  <1>6. last \in Bijection(Keys(list), Effective(list))
    BY <1>3, <1>4, <1>5, Fun_IsBij
  <1>7. ExistsBijection(Keys(list), Effective(list))
    BY <1>6 DEF ExistsBijection
  <1> QED BY <1>2, <1>7, FS_Bijection

(* What the code says of the dictionaries it makes of the lists is what is *)
(* asked of the records that count.                                        *)
LEMMA SourcesAgree ==
    ASSUME Types, Informed, NEW t \in Tree,
           gate.seen[1] = t.doc["sourceSet"], gate.seen[2] = t.doc["receipts"],
           \A k \in DOMAIN gate.seen[1].items :
              gate.payload[k] = t.sources[gate.seen[1].items[k].file]
    PROVE  SourcesHold <=> SourcesConform(t)
  <1> DEFINE items == gate.seen[1].items
             receipts == gate.seen[2]
             ItemOf(id) == items[IndexOf(items, id)]
             ReceiptOf(id) == receipts[IndexOf(receipts, id)]
             BodyOf(id) == gate.payload[IndexOf(items, id)]
  <1>1. items \in Seq(Item) /\ receipts \in Seq(Receipt)
    BY ListTypes DEF Types
  <1>2. /\ \A id \in Keys(items) : ItemOf(id) \in Effective(items) /\ ItemOf(id).id = id
        /\ \A i \in Effective(items) : i.id \in Keys(items) /\ i = ItemOf(i.id)
    BY <1>1, EffectiveRecords
  <1>3. /\ \A id \in Keys(receipts) :
              ReceiptOf(id) \in Effective(receipts) /\ ReceiptOf(id).id = id
        /\ \A q \in Effective(receipts) : q.id \in Keys(receipts) /\ q = ReceiptOf(q.id)
    BY <1>1, EffectiveRecords
  <1>4. Cardinality(Effective(items)) = Cardinality(Keys(items))
    BY <1>1, AsManyAsKeys
  <1>5. {i.id : i \in Effective(items)} = Keys(items)
    BY <1>2
  <1>6. {q.id : q \in Effective(receipts)} = Keys(receipts)
    BY <1>3
  <1>7. \A id \in Keys(items) : BodyOf(id) = t.sources[ItemOf(id).file]
    BY <1>1, LastRecord
  <1>8. SourcesHold <=>
          /\ Cardinality(Keys(items)) = SourceCount /\ Keys(items) = Keys(receipts)
          /\ \A id \in Keys(items) : SourceHolds(ItemOf(id), BodyOf(id), ReceiptOf(id))
          /\ Canada \in Keys(items) /\ ItemOf(Canada).honest
    BY DEF SourcesHold
  <1>9. SourcesConform(t) <=>
          /\ Cardinality(Effective(items)) = SourceCount
          /\ {i.id : i \in Effective(items)} = {q.id : q \in Effective(receipts)}
          /\ \E i \in Effective(items) : i.id = Canada /\ i.honest
          /\ \A i \in Effective(items), q \in Effective(receipts) : i.id = q.id =>
                t.sources[i.file] = i.body /\ i.body = q.body
          /\ \A i \in Effective(items) : i.id \in Synthetic => i.honest /\ i.body \in Warned
    BY DEF SourcesConform
  <1> HIDE DEF items, receipts, ItemOf, ReceiptOf, BodyOf
  <1>10. (\E i \in Effective(items) : i.id = Canada /\ i.honest) <=>
            Canada \in Keys(items) /\ ItemOf(Canada).honest
    BY <1>2
  <1>11. ASSUME Keys(items) = Keys(receipts)
         PROVE  (\A id \in Keys(items) : SourceHolds(ItemOf(id), BodyOf(id), ReceiptOf(id))) <=>
                /\ \A i \in Effective(items), q \in Effective(receipts) : i.id = q.id =>
                      t.sources[i.file] = i.body /\ i.body = q.body
                /\ \A i \in Effective(items) :
                      i.id \in Synthetic => i.honest /\ i.body \in Warned
    <2>1. ASSUME \A id \in Keys(items) : SourceHolds(ItemOf(id), BodyOf(id), ReceiptOf(id))
          PROVE  /\ \A i \in Effective(items), q \in Effective(receipts) : i.id = q.id =>
                       t.sources[i.file] = i.body /\ i.body = q.body
                 /\ \A i \in Effective(items) :
                       i.id \in Synthetic => i.honest /\ i.body \in Warned
      <3>1. ASSUME NEW i \in Effective(items), NEW q \in Effective(receipts), i.id = q.id
            PROVE  t.sources[i.file] = i.body /\ i.body = q.body
        <4>1. i.id \in Keys(items) /\ i = ItemOf(i.id) /\ q = ReceiptOf(i.id)
          BY <1>2, <1>3, <3>1
        <4> QED BY <1>7, <2>1, <4>1 DEF SourceHolds
      <3>2. ASSUME NEW i \in Effective(items), i.id \in Synthetic
            PROVE  i.honest /\ i.body \in Warned
        <4>1. i.id \in Keys(items) /\ i = ItemOf(i.id)
          BY <1>2
        <4> QED BY <2>1, <3>2, <4>1 DEF SourceHolds
      <3> QED BY <3>1, <3>2
    <2>2. ASSUME \A i \in Effective(items), q \in Effective(receipts) : i.id = q.id =>
                    t.sources[i.file] = i.body /\ i.body = q.body,
                 \A i \in Effective(items) :
                    i.id \in Synthetic => i.honest /\ i.body \in Warned,
                 NEW id \in Keys(items)
          PROVE  SourceHolds(ItemOf(id), BodyOf(id), ReceiptOf(id))
      <3>1. /\ ItemOf(id) \in Effective(items) /\ ItemOf(id).id = id
            /\ ReceiptOf(id) \in Effective(receipts) /\ ReceiptOf(id).id = id
        BY <1>2, <1>3, <1>11
      <3>2. /\ t.sources[ItemOf(id).file] = ItemOf(id).body
            /\ ItemOf(id).body = ReceiptOf(id).body
        BY <2>2, <3>1
      <3> QED BY <1>7, <2>2, <3>1, <3>2 DEF SourceHolds
    <2> QED BY <2>1, <2>2
  <1> QED BY <1>4, <1>5, <1>6, <1>8, <1>9, <1>10, <1>11

-----------------------------------------------------------------------------
(* A verification that nobody disturbs.                                    *)

\* What the evidence says, but for the gate document, which is read again later ...
Attested(t) ==
    /\ \A k \in 1..7 : k # 5 => t.doc[Evidence[k]] # Absent
    /\ t.doc["sourceSet"].incomplete /\ SourcesConform(t)
    /\ \A k \in DOMAIN t.doc["sourceSet"].items :
          t.sources[t.doc["sourceSet"].items[k].file] # Absent
    /\ t.doc["profile"] = [admitted |-> TRUE, stale |-> FALSE]
    /\ t.doc["active"] = "current" /\ t.doc["veip"] = "bounded"

\* ... and what is asked of the rest of the tree.
EvidenceConforms(t) == Attested(t) /\ t.doc["gate"] \in {"historical", "worded"}
Lawful(t) == t.tracked # Absent /\ Intruders(t) = {} /\ Admitted \subseteq t.disk
Says(t, k) == t.doc[Bounded[k].name] = Bounded[k].says

LEMMA ConformsInParts ==
    ASSUME NEW t \in Tree
    PROVE  Conforms(t) <=> /\ EvidenceConforms(t) /\ Lawful(t) /\ \A k \in 1..3 : Says(t, k)
                           /\ t.doc["gate"] = "historical"
  <1>1. (\A n \in Documents : t.doc[n] # Absent) <=>
           /\ \A k \in 1..7 : k # 5 => t.doc[Evidence[k]] # Absent
           /\ \A n \in {"gate", "matrix", "promoted", "required"} : t.doc[n] # Absent
    <2>1. (\A k \in 1..7 : k # 5 => t.doc[Evidence[k]] # Absent) <=>
             \A n \in {"sourceSet", "receipts", "profile", "veip", "active"} :
                t.doc[n] # Absent
      BY EvidenceNames
    <2> QED BY <2>1, DocumentNames
  <1>2. (\A k \in 1..3 : Says(t, k)) <=>
           /\ t.doc["matrix"] = "owners" /\ t.doc["promoted"] = "exact"
           /\ t.doc["required"] = "present"
    BY BoundedNames DEF Says
  <1>3. t.doc["required"] \in {"present"} \cup {Absent}
    BY TextTypes, DocumentNames DEF Content
  <1>4. Absent # "owners" /\ Absent # "exact" /\ Absent # "present" /\ Absent # "historical"
    <2>1. /\ "owners" \in Content["matrix"] /\ "exact" \in Content["promoted"]
          /\ "present" \in Content["required"] /\ "historical" \in Content["gate"]
      BY DEF Content
    <2> QED BY <2>1, AbsentAssumption, DocumentNames
  <1> QED BY <1>1, <1>2, <1>3, <1>4 DEF Conforms, EvidenceConforms, Attested, Lawful

\* What it has read is what the tree holds ...
Faithful ==
    /\ gate.phase = "evidence" =>
          gate.payload = <<>> /\ \A k \in 1..7 : k < gate.at => gate.seen[k] = tree.doc[Evidence[k]]
    /\ Informed =>
          /\ \A k \in 1..7 : gate.seen[k] = tree.doc[Evidence[k]]
          /\ \A k \in 1..Len(gate.payload) :
                /\ gate.payload[k] = tree.sources[gate.seen[1].items[k].file]
                /\ gate.payload[k] # Absent
          /\ Len(gate.payload) = IF gate.phase = "sources" THEN gate.at - 1
                                 ELSE Len(gate.seen[1].items)

\* ... what it has found of the paths is what there is to find ...
Found ==
    /\ gate.phase \in {"disk", "missing", "judge"} => tree.tracked # Absent
    /\ gate.phase = "disk" => (gate.offending <=> Unlawful(tree.tracked))
    /\ gate.phase = "missing" =>
          (gate.offending <=> Unlawful(tree.tracked) \/ Unlawful(tree.disk))
    /\ gate.phase = "judge" => (gate.offending <=> ~Lawful(tree))

\* ... and what it has passed is as it must be.
Second == gate.phase = "hash" \/ (gate.phase \in Listing /\ gate.round = 2)
Granted ==
    /\ gate.phase = "record" \/ Second => EvidenceConforms(tree) /\ Lawful(tree)
    /\ gate.phase = "record" => \A k \in 1..3 : k < gate.at => Says(tree, k)
    /\ Second => \A k \in 1..3 : Says(tree, k)
    /\ gate.verdict # Absent => (gate.verdict = "pass" <=> Conforms(tree))

Undisturbed == Faithful /\ Found /\ Granted

LEMMA LawfulPaths ==
    ASSUME NEW t \in Tree, t.tracked # Absent
    PROVE  Intruders(t) = {} <=> ~(Unlawful(t.tracked) \/ Unlawful(t.disk))
  BY DEF Intruders, Unlawful

LEMMA FailUndisturbed ==
    ASSUME Types, Conclude("fail"), tree' = tree, ~Conforms(tree)
    PROVE  Undisturbed'
  <1>1. gate'.phase = "exited" /\ gate'.verdict = "fail"
    BY ConcludeShape DEF Types
  <1>2. Conforms(tree)' <=> Conforms(tree)
    BY DEF Conforms, SourcesConform, Intruders
  <1> QED BY <1>1, <1>2 DEF Undisturbed, Faithful, Found, Granted, Informed, Listing, Second

LEMMA SameTree ==
    ASSUME tree' = tree
    PROVE  /\ EvidenceConforms(tree)' <=> EvidenceConforms(tree)
           /\ Lawful(tree)' <=> Lawful(tree)
           /\ \A k : Says(tree, k)' <=> Says(tree, k)
  BY DEF EvidenceConforms, Attested, SourcesConform, Lawful, Intruders, Says

LEMMA ReadEvidenceQuiet ==
    ASSUME Types, Undisturbed, ReadEvidence, tree' = tree
    PROVE  Undisturbed'
  <1> DEFINE content == tree.doc[Evidence[gate.at]]
             seen == [gate.seen EXCEPT ![gate.at] = content]
  <1>1. /\ gate.phase = "evidence" /\ gate.at \in 1..7 /\ gate.round = 1 /\ gate.payload = <<>>
        /\ gate.verdict = Absent
    BY DEF ReadEvidence, Types, Shape, Undisturbed, Faithful
  <1>2. CASE content = Absent
    <2>1. Evidence[gate.at] \in Documents
      BY <1>1, EvidenceNames, DocumentNames
    <2>2. ~Conforms(tree)
      BY <1>2, <2>1 DEF Conforms
    <2> QED BY <1>2, <2>2, FailUndisturbed DEF ReadEvidence
  <1>3. CASE content # Absent
    <2>1. \A k \in 1..7 : seen[k] = IF k = gate.at THEN content ELSE gate.seen[k]
      BY <1>1 DEF Types, Shape, Gate, Readings
    <2>2. \A k \in 1..7 : k <= gate.at => seen[k] = tree.doc[Evidence[k]]
      BY <1>1, <2>1 DEF Undisturbed, Faithful
    <2>3. seen \in Readings
      <3>1. content \in Anything
        BY <1>1, ReadTypes, EvidenceNames, DocumentNames DEF Anything, Types
      <3> QED BY <1>1, <3>1 DEF Types, Shape, Gate, Readings
    <2> HIDE DEF content, seen
    <2>4. CASE gate.at < 7
      <3>1. gate' = [gate EXCEPT !.seen = seen, !.at = @ + 1]
        BY <1>3, <2>4, EvidenceNames DEF ReadEvidence, content, seen
      <3>2. /\ gate'.phase = "evidence" /\ gate'.seen = seen /\ gate'.payload = <<>>
            /\ gate'.at = gate.at + 1 /\ gate'.verdict = Absent
        BY <1>1, <3>1 DEF Types, Shape, Gate
      <3> QED BY <1>1, <2>2, <3>2 DEF Undisturbed, Faithful, Found, Granted, Informed, Listing, Second
    <2>5. CASE gate.at = 7
      <3> DEFINE to == IF seen[1].items = <<>> THEN "tracked" ELSE "sources"
      <3>1. gate' = [gate EXCEPT !.seen = seen, !.at = 1, !.phase = to]
        BY <1>3, <2>5, EvidenceNames DEF ReadEvidence, content, seen
      <3>2. to \in {"tracked", "sources"} /\ (to = "tracked" => seen[1].items = <<>>)
        OBVIOUS
      <3> HIDE DEF to
      <3>3. /\ gate'.phase = to /\ gate'.seen = seen /\ gate'.payload = <<>>
            /\ gate'.at = 1 /\ gate'.round = 1 /\ gate'.verdict = Absent
        BY <1>1, <3>1 DEF Types, Shape, Gate
      <3>4. \A k \in 1..7 : seen[k] = tree.doc[Evidence[k]]
        BY <2>2, <2>5
      <3>5. Len(gate'.payload) = 0 /\ gate'.at - 1 = 0
        BY <3>3
      <3>6. to = "tracked" => Len(seen[1].items) = 0
        BY <3>2
      <3> QED BY <3>2, <3>3, <3>4, <3>5, <3>6
                DEF Undisturbed, Faithful, Found, Granted, Informed, Listing, Second
    <2> QED BY <1>1, <2>4, <2>5
  <1> QED BY <1>2, <1>3

(* One more body has been read. *)
LEMMA AppendedBody ==
    ASSUME NEW read \in Seq(Bodies), NEW body, NEW at \in Nat, Len(read) = at - 1
    PROVE  /\ Len(Append(read, body)) = at
           /\ \A k \in 1..at : \/ k = at /\ Append(read, body)[k] = body
                              \/ /\ k # at /\ k \in 1..Len(read)
                                 /\ Append(read, body)[k] = read[k]
  <1>1. Len(read) \in Nat /\ at = Len(read) + 1
    OBVIOUS
  <1>2. /\ Len(Append(read, body)) = Len(read) + 1
        /\ Append(read, body)[Len(read) + 1] = body
        /\ \A k \in 1..Len(read) : Append(read, body)[k] = read[k]
    OBVIOUS
  <1>3. \A k \in 1..at : k = at \/ (k # at /\ k \in 1..Len(read))
    BY <1>1
  <1> QED BY <1>1, <1>2, <1>3

(* After one source comes the next one, and after the last the tracked paths. *)
LEMMA NextSource ==
    ASSUME NEW n \in Nat, NEW a \in 1..n, NEW to, NEW next,
           to = IF a < n THEN "sources" ELSE "tracked", next = IF a < n THEN a + 1 ELSE 1
    PROVE  /\ a = IF to = "sources" THEN next - 1 ELSE n
           /\ to \in {"sources", "tracked"} /\ (to = "sources" => next >= a)
  <1>1. CASE a < n
    BY <1>1
  <1>2. CASE a = n
    BY <1>2
  <1> QED BY <1>1, <1>2

LEMMA ReadSourceQuiet ==
    ASSUME Types, Undisturbed, ReadSource, tree' = tree
    PROVE  Undisturbed'
  <1> DEFINE items == gate.seen[1].items
             body == tree.sources[items[gate.at].file]
  <1>1. /\ gate.phase = "sources" /\ gate.at \in 1..Len(items) /\ gate.round = 1
        /\ gate.verdict = Absent
    BY DEF ReadSource, Types, Shape
  <1>2. /\ Informed /\ items = tree.doc["sourceSet"].items
        /\ \A k \in 1..7 : gate.seen[k] = tree.doc[Evidence[k]]
        /\ Len(gate.payload) = gate.at - 1
        /\ \A k \in 1..Len(gate.payload) :
              gate.payload[k] = tree.sources[items[k].file] /\ gate.payload[k] # Absent
    BY <1>1, EvidenceNames DEF Informed, Undisturbed, Faithful
  <1>3. items \in Seq(Item) /\ Len(items) \in Nat /\ DOMAIN items = 1..Len(items)
    BY <1>2, ListTypes DEF Types
  <1>4. CASE body = Absent
    <2>1. ~EvidenceConforms(tree)
      <3>1. gate.at \in DOMAIN tree.doc["sourceSet"].items
        BY <1>1, <1>2, <1>3
      <3>2. tree.sources[tree.doc["sourceSet"].items[gate.at].file] = Absent
        BY <1>2, <1>4
      <3> QED BY <3>1, <3>2 DEF EvidenceConforms, Attested
    <2>2. ~Conforms(tree)
      BY <2>1, ConformsInParts DEF Types
    <2> QED BY <1>4, <2>2, FailUndisturbed DEF ReadSource
  <1>5. CASE body # Absent
    <2> DEFINE to == IF gate.at < Len(items) THEN "sources" ELSE "tracked"
               next == IF gate.at < Len(items) THEN gate.at + 1 ELSE 1
               payload == Append(gate.payload, body)
    <2>1. gate' = [gate EXCEPT !.payload = payload, !.at = next, !.phase = to]
      BY <1>1, <1>5 DEF ReadSource
    <2>2. gate.payload \in Seq(Bodies)
      BY DEF Types, Shape, Gate, Payloads
    <2>3. /\ Len(payload) = gate.at
          /\ \A k \in 1..gate.at : \/ k = gate.at /\ payload[k] = body
                                  \/ /\ k # gate.at /\ k \in 1..Len(gate.payload)
                                     /\ payload[k] = gate.payload[k]
      <3> DEFINE read == gate.payload
                 a == gate.at
      <3>1. read \in Seq(Bodies) /\ a \in Nat /\ Len(read) = a - 1
        <4> HIDE DEF items, payload, body
        <4> QED BY <1>1, <1>2, <1>3, <2>2
      <3>2. /\ Len(Append(read, body)) = a
            /\ \A k \in 1..a : \/ k = a /\ Append(read, body)[k] = body
                             \/ /\ k # a /\ k \in 1..Len(read)
                                /\ Append(read, body)[k] = read[k]
        <4> HIDE DEF read, a, body
        <4> QED BY <3>1, AppendedBody
      <3> QED BY <3>2
    <2>4. ASSUME NEW k \in 1..Len(payload)
          PROVE  payload[k] = tree.sources[items[k].file] /\ payload[k] # Absent
      <3>1. CASE k = gate.at
        BY <1>5, <2>3, <3>1
      <3>2. CASE k # gate.at
        <4>1. k \in 1..Len(gate.payload) /\ payload[k] = gate.payload[k]
          <5> HIDE DEF payload
          <5> QED BY <2>3, <3>2
        <4> HIDE DEF payload, body
        <4> QED BY <1>2, <4>1
      <3> QED BY <3>1, <3>2
    <2>5. /\ Len(payload) = IF to = "sources" THEN next - 1 ELSE Len(items)
          /\ to \in {"sources", "tracked"}
      <3> DEFINE n == Len(items)
      <3>1. /\ n \in Nat /\ gate.at \in 1..n /\ Len(payload) = gate.at
            /\ to = (IF gate.at < n THEN "sources" ELSE "tracked")
            /\ next = (IF gate.at < n THEN gate.at + 1 ELSE 1)
        <4> HIDE DEF payload, items
        <4> QED BY <1>1, <1>3, <2>3
      <3> HIDE DEF n, to, next, payload
      <3>2. /\ gate.at = IF to = "sources" THEN next - 1 ELSE n
            /\ to \in {"sources", "tracked"}
        BY <3>1, NextSource
      <3> QED BY <3>1, <3>2 DEF n
    <2> HIDE DEF to, next, payload, body
    <2>6. /\ gate'.phase = to /\ gate'.at = next /\ gate'.payload = payload
          /\ gate'.seen = gate.seen /\ gate'.round = 1 /\ gate'.verdict = Absent
      <3>1. gate \in Gate
        BY DEF Types, Shape
      <3> QED BY <1>1, <2>1, <3>1, ReadOneMore
    <2>7. Faithful'
      BY <1>2, <2>4, <2>5, <2>6 DEF Faithful
    <2>8. Found' /\ Granted'
      BY <2>5, <2>6 DEF Found, Granted, Listing, Second
    <2> QED BY <2>7, <2>8 DEF Undisturbed
  <1> QED BY <1>4, <1>5

(* What it has read is not read again by what lists the paths. *)
LEMMA ListingIsFaithful ==
    ASSUME Types, Faithful, tree' = tree, gate.phase \in Listing,
           gate'.phase \in Listing \cup {"judge"}, UNCHANGED gate.seen,
           UNCHANGED gate.payload, UNCHANGED gate.round,
           gate'.phase = "judge" => gate.round = 1
    PROVE  Faithful'
  BY DEF Faithful, Informed, Listing

LEMMA ListingIsGranted ==
    ASSUME Types, Granted, tree' = tree, gate.phase \in Listing, gate'.phase \in Listing,
           UNCHANGED gate.round, gate'.verdict = Absent
    PROVE  Granted'
  BY SameTree DEF Granted, Second, Listing

LEMMA ListTrackedQuiet ==
    ASSUME Types, Undisturbed, ListTracked, tree' = tree
    PROVE  Undisturbed'
  <1>1. CASE tree.tracked = Absent
    <2>1. ~Conforms(tree)
      BY <1>1 DEF Conforms
    <2> QED BY <1>1, <2>1, FailUndisturbed DEF ListTracked
  <1>2. CASE tree.tracked # Absent
    <2>1. /\ gate' = [gate EXCEPT !.phase = "disk", !.offending = Unlawful(tree.tracked)]
          /\ gate.phase = "tracked" /\ gate.verdict = Absent
      BY <1>2 DEF ListTracked, Types, Shape
    <2>2. /\ gate'.phase = "disk" /\ gate'.offending = Unlawful(tree.tracked)
          /\ UNCHANGED <<gate.seen, gate.payload, gate.round, gate.verdict>>
      BY <2>1 DEF Types, Shape, Gate
    <2>3. Found'
      BY <1>2, <2>2 DEF Found, Unlawful
    <2> QED BY <2>1, <2>2, <2>3, ListingIsFaithful, ListingIsGranted DEF Undisturbed, Listing
  <1> QED BY <1>1, <1>2

LEMMA ListDiskQuiet ==
    ASSUME Types, Undisturbed, ListDisk, tree' = tree
    PROVE  Undisturbed'
  <1>1. /\ gate' = [gate EXCEPT !.phase = "missing",
                                !.offending = gate.offending \/ Unlawful(tree.disk)]
        /\ gate.phase = "disk" /\ gate.verdict = Absent
    BY DEF ListDisk, Types, Shape
  <1>2. /\ gate'.phase = "missing"
        /\ gate'.offending = (gate.offending \/ Unlawful(tree.disk))
        /\ UNCHANGED <<gate.seen, gate.payload, gate.round, gate.verdict>>
    BY <1>1 DEF Types, Shape, Gate
  <1>3. Found'
    BY <1>1, <1>2 DEF Undisturbed, Found, Unlawful
  <1> QED BY <1>1, <1>2, <1>3, ListingIsFaithful, ListingIsGranted DEF Undisturbed, Listing

LEMMA CheckMissingQuiet ==
    ASSUME Types, Undisturbed, CheckMissing, tree' = tree
    PROVE  Undisturbed'
  <1> DEFINE offending == gate.offending \/ ~(Admitted \subseteq tree.disk)
  <1>1. gate.phase = "missing" /\ gate.verdict = Absent /\ offending \in BOOLEAN
    BY DEF CheckMissing, Types, Shape
  <1>2. offending <=> ~Lawful(tree)
    <2>1. /\ tree.tracked # Absent
          /\ gate.offending <=> Unlawful(tree.tracked) \/ Unlawful(tree.disk)
      BY <1>1 DEF Undisturbed, Found
    <2> QED BY <2>1, LawfulPaths DEF Lawful, Types
  <1>3. CASE gate.round = 1
    <2>1. gate' = [gate EXCEPT !.phase = "judge", !.offending = offending]
      BY <1>3 DEF CheckMissing
    <2> HIDE DEF offending
    <2>2. /\ gate'.phase = "judge" /\ gate'.offending = offending
          /\ UNCHANGED <<gate.seen, gate.payload, gate.round, gate.verdict>>
      BY <2>1 DEF Types, Shape, Gate
    <2>3. Faithful'
      BY <1>1, <1>3, <2>2, ListingIsFaithful DEF Undisturbed, Listing
    <2>4. tree.tracked # Absent
      BY <1>1 DEF Undisturbed, Found
    <2>5. Found'
      BY <1>2, <2>2, <2>4, SameTree DEF Found
    <2>6. Granted'
      BY <1>1, <2>2 DEF Granted, Second, Listing
    <2> QED BY <2>3, <2>5, <2>6 DEF Undisturbed
  <1>4. CASE gate.round = 2 /\ offending
    <2>1. ~Conforms(tree)
      BY <1>2, <1>4, ConformsInParts DEF Types
    <2> QED BY <1>4, <2>1, FailUndisturbed DEF CheckMissing
  <1>5. CASE gate.round = 2 /\ ~offending
    <2>1. gate' = [gate EXCEPT !.phase = "hash", !.offending = FALSE]
      BY <1>5 DEF CheckMissing
    <2> HIDE DEF offending
    <2>2. gate'.phase = "hash" /\ gate'.verdict = Absent
      BY <1>1, <2>1 DEF Types, Shape, Gate
    <2>3. EvidenceConforms(tree) /\ Lawful(tree) /\ \A k \in 1..3 : Says(tree, k)
      BY <1>1, <1>5 DEF Undisturbed, Granted, Second, Listing
    <2>4. Granted'
      BY <2>2, <2>3, SameTree DEF Granted, Second
    <2>5. Faithful' /\ Found'
      BY <2>2 DEF Faithful, Found, Informed, Listing
    <2> QED BY <2>4, <2>5 DEF Undisturbed
  <1> QED BY <1>3, <1>4, <1>5 DEF Types, Shape, Gate

(* What the code judges of what it has read is what is asked of a tree that *)
(* says the same.                                                          *)
LEMMA EvidenceAgrees ==
    ASSUME Types, gate.phase = "judge", NEW t \in Tree,
           \A k \in 1..7 : k # 5 => gate.seen[k] = t.doc[Evidence[k]],
           Len(gate.payload) = Len(gate.seen[1].items),
           \A k \in 1..Len(gate.payload) :
              /\ gate.payload[k] = t.sources[gate.seen[1].items[k].file]
              /\ gate.payload[k] # Absent
    PROVE  EvidenceHolds <=>
              Attested(t) /\ gate.seen[5] \in {"historical", "worded"} /\ ~gate.offending
  <1> DEFINE items == gate.seen[1].items
  <1>1. Informed
    BY DEF Informed
  <1>2. DOMAIN items = 1..Len(items)
    BY <1>1, ListTypes DEF Types
  <1>3. /\ gate.seen[1] = t.doc["sourceSet"] /\ gate.seen[2] = t.doc["receipts"]
        /\ gate.seen[3] = t.doc["profile"] /\ gate.seen[4] = t.doc["veip"]
        /\ gate.seen[6] = t.doc["profile"] /\ gate.seen[7] = t.doc["active"]
    BY EvidenceNames
  <1>4. SourcesHold <=> SourcesConform(t)
    BY <1>1, <1>2, <1>3, SourcesAgree
  <1>5. \A k \in 1..7 : k # 5 => t.doc[Evidence[k]] # Absent
    BY <1>1 DEF Types, Shape
  <1>6. \A k \in DOMAIN t.doc["sourceSet"].items :
           t.sources[t.doc["sourceSet"].items[k].file] # Absent
    <2>1. items = t.doc["sourceSet"].items
      BY <1>3
    <2>2. \A k \in DOMAIN items : t.sources[items[k].file] # Absent
      BY <1>2
    <2> HIDE DEF items
    <2> QED BY <2>1, <2>2
  <1>7. t.doc["profile"] \in [admitted : BOOLEAN, stale : BOOLEAN]
    BY <1>5, EvidenceNames, DocumentNames, TextTypes DEF Content
  <1>8. (t.doc["profile"] = [admitted |-> TRUE, stale |-> FALSE]) <=>
           (t.doc["profile"].admitted /\ ~t.doc["profile"].stale)
    <2> DEFINE p == t.doc["profile"]
    <2>1. p = [admitted |-> p.admitted, stale |-> p.stale]
      BY <1>7
    <2>2. p.admitted \in BOOLEAN /\ p.stale \in BOOLEAN
      BY <1>7
    <2> HIDE DEF p
    <2>3. (p = [admitted |-> TRUE, stale |-> FALSE]) => p.admitted /\ ~p.stale
      OBVIOUS
    <2>4. p.admitted /\ ~p.stale => p.admitted = TRUE /\ p.stale = FALSE
      BY <2>2
    <2>5. p.admitted /\ ~p.stale => p = [admitted |-> TRUE, stale |-> FALSE]
      BY <2>1, <2>4
    <2>6. (p = [admitted |-> TRUE, stale |-> FALSE]) <=> (p.admitted /\ ~p.stale)
      BY <2>3, <2>5
    <2> QED BY <2>6 DEF p
  <1> QED BY <1>3, <1>4, <1>5, <1>6, <1>8 DEF EvidenceHolds, Attested

(* ... and that is the tree, if nobody disturbs it. *)
LEMMA JudgedAsItIs ==
    ASSUME Types, Undisturbed, gate.phase = "judge"
    PROVE  EvidenceHolds <=> EvidenceConforms(tree) /\ Lawful(tree)
  <1>1. /\ \A k \in 1..7 : gate.seen[k] = tree.doc[Evidence[k]]
        /\ Len(gate.payload) = Len(gate.seen[1].items)
        /\ \A k \in 1..Len(gate.payload) :
              /\ gate.payload[k] = tree.sources[gate.seen[1].items[k].file]
              /\ gate.payload[k] # Absent
    BY DEF Informed, Undisturbed, Faithful
  <1>2. gate.seen[5] = tree.doc["gate"]
    BY <1>1, EvidenceNames
  <1>3. gate.offending <=> ~Lawful(tree)
    BY DEF Undisturbed, Found
  <1>4. tree \in Tree
    BY DEF Types
  <1>5. EvidenceHolds <=>
           Attested(tree) /\ gate.seen[5] \in {"historical", "worded"} /\ ~gate.offending
    BY <1>1, <1>4, EvidenceAgrees
  <1> QED BY <1>2, <1>3, <1>5 DEF EvidenceConforms

LEMMA JudgeQuiet ==
    ASSUME Types, Undisturbed, Judge, tree' = tree
    PROVE  Undisturbed'
  <1>1. gate.phase = "judge" /\ gate.at = 1 /\ gate.verdict = Absent
    BY DEF Judge, Types, Shape, Listing
  <1>2. CASE EvidenceHolds
    <2>1. gate' = [gate EXCEPT !.phase = "record", !.seen = Unseen, !.payload = <<>>,
                               !.round = 2]
      BY <1>2 DEF Judge
    <2>2. gate'.phase = "record" /\ gate'.at = 1 /\ gate'.verdict = Absent
      BY <1>1, <2>1 DEF Types, Shape, Gate
    <2>3. EvidenceConforms(tree) /\ Lawful(tree)
      BY <1>1, <1>2, JudgedAsItIs
    <2>4. Granted'
      BY <2>2, <2>3, SameTree DEF Granted, Second, Listing
    <2>5. Faithful' /\ Found'
      BY <2>2 DEF Faithful, Found, Informed, Listing
    <2> QED BY <2>4, <2>5 DEF Undisturbed
  <1>3. CASE ~EvidenceHolds
    <2>1. ~Conforms(tree)
      BY <1>1, <1>3, JudgedAsItIs, ConformsInParts DEF Types
    <2> QED BY <1>3, <2>1, FailUndisturbed DEF Judge
  <1> QED BY <1>2, <1>3

LEMMA ReadBoundedQuiet ==
    ASSUME Types, Undisturbed, ReadBounded, tree' = tree
    PROVE  Undisturbed'
  <1>1. gate.phase = "record" /\ gate.at \in 1..3 /\ gate.round = 2 /\ gate.verdict = Absent
    BY DEF ReadBounded, Types, Shape
  <1>2. EvidenceConforms(tree) /\ Lawful(tree) /\ \A k \in 1..3 : k < gate.at => Says(tree, k)
    BY <1>1 DEF Undisturbed, Granted
  <1>3. CASE ~Says(tree, gate.at)
    <2>1. ~Conforms(tree)
      BY <1>1, <1>3, ConformsInParts DEF Types
    <2> QED BY <1>3, <2>1, FailUndisturbed DEF ReadBounded, Says
  <1>4. CASE Says(tree, gate.at)
    <2>1. \A k \in 1..3 : k <= gate.at => Says(tree, k)
      BY <1>1, <1>2, <1>4
    <2>2. CASE gate.at < 3
      <3>1. gate' = [gate EXCEPT !.at = gate.at + 1]
        BY <1>1, <1>4, <2>2, BoundedNames DEF ReadBounded, Says
      <3>2. gate'.at = gate.at + 1 /\ gate'.phase = "record" /\ gate'.verdict = Absent
        BY <1>1, <3>1 DEF Types, Shape, Gate
      <3>3. \A k \in 1..3 : k < gate'.at => Says(tree, k)
        BY <1>1, <2>1, <3>2
      <3>4. Granted'
        BY <1>2, <3>2, <3>3, SameTree DEF Granted, Second, Listing
      <3>5. Faithful' /\ Found'
        BY <3>2 DEF Faithful, Found, Informed, Listing
      <3> QED BY <3>4, <3>5 DEF Undisturbed
    <2>3. CASE gate.at = 3
      <3>1. gate' = [gate EXCEPT !.phase = "tracked", !.at = 1]
        BY <1>1, <1>4, <2>3, BoundedNames DEF ReadBounded, Says
      <3>2. gate'.phase = "tracked" /\ gate'.round = 2 /\ gate'.verdict = Absent
        BY <1>1, <3>1 DEF Types, Shape, Gate
      <3>3. \A k \in 1..3 : Says(tree, k)
        BY <2>1, <2>3
      <3>4. Granted'
        BY <1>2, <3>2, <3>3, SameTree DEF Granted, Second, Listing
      <3>5. Faithful' /\ Found'
        BY <3>2 DEF Faithful, Found, Informed, Listing
      <3> QED BY <3>4, <3>5 DEF Undisturbed
    <2> QED BY <1>1, <2>2, <2>3
  <1> QED BY <1>3, <1>4

LEMMA HashGateQuiet ==
    ASSUME Types, Undisturbed, HashGate, tree' = tree
    PROVE  Undisturbed'
  <1>1. /\ gate.phase = "hash" /\ EvidenceConforms(tree) /\ Lawful(tree)
        /\ \A k \in 1..3 : Says(tree, k)
    BY DEF HashGate, Undisturbed, Granted, Second
  <1>2. (tree.doc["gate"] = "historical") <=> Conforms(tree)
    BY <1>1, ConformsInParts DEF Types
  <1>3. CASE tree.doc["gate"] = "historical"
    <2>1. gate'.phase = "exited" /\ gate'.verdict = "pass"
      BY <1>3, ConcludeShape DEF HashGate, Types
    <2>2. Conforms(tree)'
      BY <1>2, <1>3 DEF Conforms, SourcesConform, Intruders
    <2>3. Granted'
      BY <2>1, <2>2 DEF Granted, Second, Listing
    <2>4. Faithful' /\ Found'
      BY <2>1 DEF Faithful, Found, Informed, Listing
    <2> QED BY <2>3, <2>4 DEF Undisturbed
  <1>4. CASE tree.doc["gate"] # "historical"
    BY <1>2, <1>4, FailUndisturbed DEF HashGate
  <1> QED BY <1>3, <1>4

LEMMA VerifyQuiet == Types /\ Undisturbed /\ Verify => Undisturbed'
  BY ReadEvidenceQuiet, ReadSourceQuiet, ListTrackedQuiet, ListDiskQuiet, CheckMissingQuiet,
     JudgeQuiet, ReadBoundedQuiet, HashGateQuiet DEF Verify

Quiet == watch.edits = 0 /\ watch.moves = 0
QuietInv == Quiet => Undisturbed

LEMMA EditsAreCounted ==
    ASSUME Types, EditDocument \/ EditSource \/ MovePath
    PROVE  ~Quiet'
  <1>1. PICK t \in Tree, names \in SUBSET (Documents \cup Files), moves \in {0, 1} :
           Becomes(t, names, 1 - moves, moves)
    BY EditKinds
  <1>2. /\ watch'.edits = watch.edits + (1 - moves) /\ watch'.moves = watch.moves + moves
        /\ watch.edits \in Nat /\ watch.moves \in Nat
    BY <1>1 DEF Becomes, Types, Watch
  <1>3. watch'.edits >= 1 \/ watch'.moves >= 1
    <2>1. CASE moves = 0
      BY <1>2, <2>1
    <2>2. CASE moves = 1
      BY <1>2, <2>2
    <2> QED BY <2>1, <2>2
  <1>4. ~(watch'.edits = 0 /\ watch'.moves = 0)
    BY <1>3
  <1> QED BY <1>4 DEF Quiet

LEMMA UndisturbedInitially == Init => Undisturbed
  BY AbsentAssumption
     DEF Init, Undisturbed, Faithful, Found, Granted, Informed, Listing, Second

LEMMA StepQuiet == Types /\ QuietInv /\ [Next]_vars => QuietInv'
  <1> SUFFICES ASSUME Types, QuietInv, [Next]_vars, Quiet' PROVE Undisturbed'
    BY DEF QuietInv
  <1>1. CASE Verify
    <2>1. Quiet
      BY <1>1 DEF Verify, Quiet
    <2> QED BY <1>1, <2>1, VerifyQuiet DEF QuietInv
  <1>2. CASE EditDocument \/ EditSource \/ MovePath
    BY <1>2, EditsAreCounted
  <1>3. CASE UNCHANGED vars
    <2>1. Undisturbed /\ tree' = tree /\ gate' = gate
      BY <1>3 DEF vars, Quiet, QuietInv
    <2>2. Faithful'
      BY <2>1 DEF Undisturbed, Faithful, Informed
    <2>3. Found'
      BY <2>1, SameTree DEF Undisturbed, Found, Unlawful
    <2>4. Conforms(tree)' <=> Conforms(tree)
      BY <2>1 DEF Conforms, SourcesConform, Intruders
    <2>5. Granted'
      BY <2>1, <2>4, SameTree DEF Undisturbed, Granted, Second
    <2> QED BY <2>2, <2>3, <2>5 DEF Undisturbed
  <1> QED BY <1>1, <1>2, <1>3 DEF Next

(***************************************************************************)
(* A verification during which nothing is edited passes exactly the trees  *)
(* that conform, whatever its records are and in whatever order they come. *)
(***************************************************************************)
THEOREM QuietVerdictIsRight == Spec => []QuietVerdict
  <1>1. Types /\ QuietInv => QuietVerdict
    <2> SUFFICES ASSUME Types, QuietInv, gate.verdict # Absent, watch.edits + watch.moves = 0
                 PROVE  gate.verdict = "pass" <=> Conforms(tree)
      BY DEF QuietVerdict
    <2>1. Quiet
      BY DEF Types, Watch, Quiet
    <2> QED BY <2>1 DEF QuietInv, Undisturbed, Granted
  <1>2. Init => QuietInv
    BY UndisturbedInitially DEF QuietInv
  <1> QED BY InitialTypes, StepTypes, StepQuiet, <1>1, <1>2, PTL DEF Spec
-----------------------------------------------------------------------------
(* One edit.  The verification might be one of a tree t that nobody edits: *)
(* what it has read says what t says, but for the text of the gate         *)
(* document, which it reads again at the end ...                           *)
ReadOf(t) ==
    /\ gate.phase = "evidence" =>
          /\ gate.payload = <<>>
          /\ \A k \in 1..7 : k < gate.at /\ k # 5 => gate.seen[k] = t.doc[Evidence[k]]
    /\ Informed =>
          /\ \A k \in 1..7 : k # 5 => gate.seen[k] = t.doc[Evidence[k]]
          /\ \A k \in 1..Len(gate.payload) :
                /\ gate.payload[k] = t.sources[gate.seen[1].items[k].file]
                /\ gate.payload[k] # Absent
          /\ Len(gate.payload) = IF gate.phase = "sources" THEN gate.at - 1
                                 ELSE Len(gate.seen[1].items)
    /\ gate.phase = "record" \/ Second => Attested(t)
    /\ gate.phase = "record" => \A k \in 1..3 : k < gate.at => Says(t, k)
    /\ Second => \A k \in 1..3 : Says(t, k)
    /\ Second /\ gate.phase \in {"disk", "missing"} =>
          t.tracked # Absent /\ (~gate.offending => ~Unlawful(t.tracked))
    /\ Second /\ gate.phase = "missing" /\ ~gate.offending => ~Unlawful(t.disk)
    /\ gate.phase = "hash" => Lawful(t)

\* ... and what it has still to read, and to be decided by, agrees with t.
AheadOf(t) ==
    /\ gate.phase = "evidence" =>
          /\ \A k \in 1..7 : k >= gate.at => tree.doc[Evidence[k]] = t.doc[Evidence[k]]
          /\ tree.sources = t.sources
    /\ gate.phase = "sources" =>
          \A k \in 1..Len(gate.seen[1].items) : k >= gate.at =>
             tree.sources[gate.seen[1].items[k].file] = t.sources[gate.seen[1].items[k].file]
    /\ gate.round = 1 =>
          \A k \in 1..3 : tree.doc[Bounded[k].name] = t.doc[Bounded[k].name]
    /\ gate.phase = "record" =>
          \A k \in 1..3 : k >= gate.at => tree.doc[Bounded[k].name] = t.doc[Bounded[k].name]
    /\ tree.doc["gate"] = t.doc["gate"]
    /\ gate.round = 1 \/ gate.phase \in {"record", "tracked"} => tree.tracked = t.tracked
    /\ gate.round = 1 \/ gate.phase \in {"record", "tracked", "disk"} => tree.disk = t.disk
    /\ gate.phase = "missing" => (Admitted \subseteq tree.disk => Admitted \subseteq t.disk)

Explains(t) ==
    /\ gate.verdict = Absent => ReadOf(t) /\ AheadOf(t)
    /\ gate.verdict = "pass" => Conforms(t)

LEMMA SameExplained ==
    ASSUME NEW t, gate' = gate, tree' = tree, Explains(t)
    PROVE  Explains(t)'
  <1>1. ReadOf(t) => ReadOf(t)'
    BY DEF ReadOf, Informed, Second
  <1>2. AheadOf(t) => AheadOf(t)'
    BY DEF AheadOf
  <1> QED BY <1>1, <1>2 DEF Explains

(* What was read of t was read of u as well when the two agree on it. *)
AgreesOnRead(u, t) ==
    /\ \A k \in 1..7 : k # 5 => u.doc[Evidence[k]] = t.doc[Evidence[k]]
    /\ \A k \in 1..3 : u.doc[Bounded[k].name] = t.doc[Bounded[k].name]
    /\ Informed => \A k \in 1..Len(gate.payload) :
                      u.sources[gate.seen[1].items[k].file] =
                      t.sources[gate.seen[1].items[k].file]
    /\ gate.phase = "record" \/ Second => (Attested(t) => Attested(u))
    /\ u.tracked = t.tracked /\ u.disk = t.disk

LEMMA ReadAlike ==
    ASSUME NEW t, NEW u, ReadOf(t), AgreesOnRead(u, t)
    PROVE  ReadOf(u)
  <1>1. gate.phase = "evidence" =>
          /\ gate.payload = <<>>
          /\ \A k \in 1..7 : k < gate.at /\ k # 5 => gate.seen[k] = u.doc[Evidence[k]]
    BY DEF ReadOf, AgreesOnRead
  <1>2. Informed =>
          /\ \A k \in 1..7 : k # 5 => gate.seen[k] = u.doc[Evidence[k]]
          /\ \A k \in 1..Len(gate.payload) :
                /\ gate.payload[k] = u.sources[gate.seen[1].items[k].file]
                /\ gate.payload[k] # Absent
          /\ Len(gate.payload) = IF gate.phase = "sources" THEN gate.at - 1
                                 ELSE Len(gate.seen[1].items)
    BY DEF ReadOf, AgreesOnRead
  <1>3. gate.phase = "record" \/ Second => Attested(u)
    BY DEF ReadOf, AgreesOnRead
  <1>4. /\ gate.phase = "record" => \A k \in 1..3 : k < gate.at => Says(u, k)
        /\ Second => \A k \in 1..3 : Says(u, k)
    BY DEF ReadOf, AgreesOnRead, Says
  <1>5. /\ Second /\ gate.phase \in {"disk", "missing"} =>
             u.tracked # Absent /\ (~gate.offending => ~Unlawful(u.tracked))
        /\ Second /\ gate.phase = "missing" /\ ~gate.offending => ~Unlawful(u.disk)
    BY DEF ReadOf, AgreesOnRead
  <1>6. gate.phase = "hash" => Lawful(u)
    BY DEF ReadOf, AgreesOnRead, Lawful, Intruders
  <1> QED BY <1>1, <1>2, <1>3, <1>4, <1>5, <1>6 DEF ReadOf

LEMMA FailExplained ==
    ASSUME Types, NEW t \in Tree, Conclude("fail")
    PROVE  Explains(t)'
  <1>1. gate'.verdict = "fail"
    BY ConcludeShape DEF Types
  <1>2. "fail" # Absent
    BY AbsentAssumption
  <1> QED BY <1>1, <1>2 DEF Explains

LEMMA ReadEvidenceExplained ==
    ASSUME Types, NEW t \in Tree, Explains(t), ReadEvidence, tree' = tree
    PROVE  Explains(t)'
  <1> DEFINE content == tree.doc[Evidence[gate.at]]
             seen == [gate.seen EXCEPT ![gate.at] = content]
  <1>1. /\ gate.phase = "evidence" /\ gate.at \in 1..7 /\ gate.round = 1
        /\ gate.verdict = Absent
    BY DEF ReadEvidence, Types, Shape
  <1>2. /\ gate.payload = <<>>
        /\ \A k \in 1..7 : k < gate.at /\ k # 5 => gate.seen[k] = t.doc[Evidence[k]]
        /\ \A k \in 1..7 : k >= gate.at => tree.doc[Evidence[k]] = t.doc[Evidence[k]]
        /\ tree.sources = t.sources
        /\ \A k \in 1..3 : tree.doc[Bounded[k].name] = t.doc[Bounded[k].name]
        /\ tree.doc["gate"] = t.doc["gate"]
        /\ tree.tracked = t.tracked /\ tree.disk = t.disk
    BY <1>1 DEF Explains, ReadOf, AheadOf
  <1>3. CASE content = Absent
    BY <1>3, FailExplained DEF ReadEvidence
  <1>4. CASE content # Absent
    <2>1. \A k \in 1..7 : seen[k] = IF k = gate.at THEN content ELSE gate.seen[k]
      BY <1>1 DEF Types, Shape, Gate, Readings
    <2>2. \A k \in 1..7 : k <= gate.at /\ k # 5 => seen[k] = t.doc[Evidence[k]]
      BY <1>1, <1>2, <2>1
    <2> HIDE DEF content, seen
    <2>3. CASE gate.at < 7
      <3>1. gate' = [gate EXCEPT !.seen = seen, !.at = @ + 1]
        BY <1>4, <2>3, EvidenceNames DEF ReadEvidence, content, seen
      <3>2. /\ gate'.phase = "evidence" /\ gate'.seen = seen /\ gate'.payload = <<>>
            /\ gate'.at = gate.at + 1 /\ gate'.verdict = Absent /\ gate'.round = 1
        BY <1>1, <1>2, <3>1 DEF Types, Shape, Gate
      <3>3. ReadOf(t)'
        BY <1>1, <2>2, <3>2 DEF ReadOf, Informed, Listing, Second
      <3>4. AheadOf(t)'
        BY <1>1, <1>2, <3>2 DEF AheadOf
      <3> QED BY <3>2, <3>3, <3>4, AbsentAssumption DEF Explains
    <2>4. CASE gate.at = 7
      <3> DEFINE to == IF seen[1].items = <<>> THEN "tracked" ELSE "sources"
      <3>1. gate' = [gate EXCEPT !.seen = seen, !.at = 1, !.phase = to]
        BY <1>4, <2>4, EvidenceNames DEF ReadEvidence, content, seen
      <3>2. to \in {"tracked", "sources"} /\ (to = "tracked" => Len(seen[1].items) = 0)
        OBVIOUS
      <3> HIDE DEF to
      <3>3. /\ gate'.phase = to /\ gate'.seen = seen /\ gate'.payload = <<>>
            /\ gate'.at = 1 /\ gate'.round = 1 /\ gate'.verdict = Absent
        BY <1>1, <1>2, <3>1 DEF Types, Shape, Gate
      <3>4. \A k \in 1..7 : k # 5 => seen[k] = t.doc[Evidence[k]]
        BY <2>2, <2>4
      <3>5. Len(gate'.payload) = 0 /\ gate'.at - 1 = 0
        BY <3>3
      <3>6. ReadOf(t)'
        BY <3>2, <3>3, <3>4, <3>5 DEF ReadOf, Informed, Listing, Second
      <3>7. AheadOf(t)'
        BY <1>2, <3>2, <3>3 DEF AheadOf
      <3> QED BY <3>3, <3>6, <3>7, AbsentAssumption DEF Explains
    <2> QED BY <1>1, <2>3, <2>4
  <1> QED BY <1>3, <1>4

LEMMA ReadSourceExplained ==
    ASSUME Types, NEW t \in Tree, Explains(t), ReadSource, tree' = tree
    PROVE  Explains(t)'
  <1> DEFINE items == gate.seen[1].items
             body == tree.sources[items[gate.at].file]
  <1>1. /\ gate.phase = "sources" /\ gate.at \in 1..Len(items) /\ gate.round = 1
        /\ gate.verdict = Absent /\ Informed
    BY DEF ReadSource, Types, Shape, Informed
  <1>2. /\ \A k \in 1..7 : k # 5 => gate.seen[k] = t.doc[Evidence[k]]
        /\ Len(gate.payload) = gate.at - 1
        /\ \A k \in 1..Len(gate.payload) :
              gate.payload[k] = t.sources[items[k].file] /\ gate.payload[k] # Absent
        /\ \A k \in 1..Len(items) : k >= gate.at =>
              tree.sources[items[k].file] = t.sources[items[k].file]
        /\ \A k \in 1..3 : tree.doc[Bounded[k].name] = t.doc[Bounded[k].name]
        /\ tree.doc["gate"] = t.doc["gate"]
        /\ tree.tracked = t.tracked /\ tree.disk = t.disk
    BY <1>1 DEF Explains, ReadOf, AheadOf
  <1>3. items \in Seq(Item) /\ Len(items) \in Nat
    BY <1>1, ListTypes DEF Types
  <1>4. CASE body = Absent
    BY <1>4, FailExplained DEF ReadSource
  <1>5. CASE body # Absent
    <2> DEFINE to == IF gate.at < Len(items) THEN "sources" ELSE "tracked"
               next == IF gate.at < Len(items) THEN gate.at + 1 ELSE 1
               payload == Append(gate.payload, body)
    <2>1. gate' = [gate EXCEPT !.payload = payload, !.at = next, !.phase = to]
      BY <1>1, <1>5 DEF ReadSource
    <2>2. gate.payload \in Seq(Bodies)
      BY DEF Types, Shape, Gate, Payloads
    <2>3. /\ Len(payload) = gate.at
          /\ \A k \in 1..gate.at : \/ k = gate.at /\ payload[k] = body
                                  \/ /\ k # gate.at /\ k \in 1..Len(gate.payload)
                                     /\ payload[k] = gate.payload[k]
      <3> DEFINE read == gate.payload
                 a == gate.at
      <3>1. read \in Seq(Bodies) /\ a \in Nat /\ Len(read) = a - 1
        <4> HIDE DEF items, payload, body
        <4> QED BY <1>1, <1>2, <1>3, <2>2
      <3>2. /\ Len(Append(read, body)) = a
            /\ \A k \in 1..a : \/ k = a /\ Append(read, body)[k] = body
                             \/ /\ k # a /\ k \in 1..Len(read)
                                /\ Append(read, body)[k] = read[k]
        <4> HIDE DEF read, a, body
        <4> QED BY <3>1, AppendedBody
      <3> QED BY <3>2
    <2>4. ASSUME NEW k \in 1..Len(payload)
          PROVE  payload[k] = t.sources[items[k].file] /\ payload[k] # Absent
      <3>1. CASE k = gate.at
        <4>1. body = t.sources[items[gate.at].file]
          <5>1. gate.at >= gate.at
            <6>1. gate.at \in Int
              BY <1>1
            <6> QED BY <6>1
          <5> QED BY <1>1, <1>2, <5>1
        <4> HIDE DEF payload, body
        <4> QED BY <1>5, <2>3, <3>1, <4>1
      <3>2. CASE k # gate.at
        <4>1. k \in 1..Len(gate.payload) /\ payload[k] = gate.payload[k]
          <5> HIDE DEF payload
          <5> QED BY <2>3, <3>2
        <4> HIDE DEF payload, body
        <4> QED BY <1>2, <4>1
      <3> QED BY <3>1, <3>2
    <2>5. /\ Len(payload) = IF to = "sources" THEN next - 1 ELSE Len(items)
          /\ to \in {"sources", "tracked"} /\ (to = "sources" => next >= gate.at)
      <3> DEFINE n == Len(items)
      <3>1. /\ n \in Nat /\ gate.at \in 1..n /\ Len(payload) = gate.at
            /\ to = (IF gate.at < n THEN "sources" ELSE "tracked")
            /\ next = (IF gate.at < n THEN gate.at + 1 ELSE 1)
        <4> HIDE DEF payload, items
        <4> QED BY <1>1, <1>3, <2>3
      <3> HIDE DEF n, to, next, payload
      <3>2. /\ gate.at = IF to = "sources" THEN next - 1 ELSE n
            /\ to \in {"sources", "tracked"} /\ (to = "sources" => next >= gate.at)
        BY <3>1, NextSource
      <3> QED BY <3>1, <3>2 DEF n
    <2> HIDE DEF to, next, payload, body
    <2>6. /\ gate'.phase = to /\ gate'.at = next /\ gate'.payload = payload
          /\ gate'.seen = gate.seen /\ gate'.round = 1 /\ gate'.verdict = Absent
      <3>1. gate \in Gate
        BY DEF Types, Shape
      <3> QED BY <1>1, <2>1, <3>1, ReadOneMore
    <2>7. ReadOf(t)'
      <3>1. Informed' /\ ~Second' /\ gate'.phase \notin {"evidence", "record", "hash"}
        BY <2>5, <2>6 DEF Informed, Second, Listing
      <3>2. \A k \in 1..7 : k # 5 => gate'.seen[k] = t.doc[Evidence[k]]
        BY <1>2, <2>6
      <3>3. \A k \in 1..Len(gate'.payload) :
               /\ gate'.payload[k] = t.sources[gate'.seen[1].items[k].file]
               /\ gate'.payload[k] # Absent
        BY <2>4, <2>6
      <3>4. Len(gate'.payload) = IF gate'.phase = "sources" THEN gate'.at - 1
                                ELSE Len(gate'.seen[1].items)
        BY <2>5, <2>6
      <3> QED BY <3>1, <3>2, <3>3, <3>4 DEF ReadOf
    <2>8. to = "sources" => \A k \in 1..Len(items) : k >= next => k >= gate.at
      BY <1>1, <1>3, <2>5 DEF next, to
    <2>9. AheadOf(t)'
      BY <1>2, <2>5, <2>6, <2>8 DEF AheadOf
    <2> QED BY <2>6, <2>7, <2>9, AbsentAssumption DEF Explains
  <1> QED BY <1>4, <1>5

LEMMA ListTrackedExplained ==
    ASSUME Types, NEW t \in Tree, Explains(t), ListTracked, tree' = tree
    PROVE  Explains(t)'
  <1>1. gate.phase = "tracked" /\ gate.verdict = Absent /\ ReadOf(t) /\ AheadOf(t)
    BY DEF ListTracked, Types, Shape, Explains
  <1>2. tree.tracked = t.tracked /\ tree.disk = t.disk
    BY <1>1 DEF AheadOf
  <1>3. CASE tree.tracked = Absent
    BY <1>3, FailExplained DEF ListTracked
  <1>4. CASE tree.tracked # Absent
    <2>1. gate' = [gate EXCEPT !.phase = "disk", !.offending = Unlawful(tree.tracked)]
      BY <1>4 DEF ListTracked
    <2>2. /\ gate'.phase = "disk" /\ gate'.offending = Unlawful(tree.tracked)
          /\ UNCHANGED <<gate.seen, gate.payload, gate.at, gate.round, gate.verdict>>
      BY <2>1 DEF Types, Shape, Gate
    <2>3. ReadOf(t)'
      BY <1>1, <1>2, <1>4, <2>2 DEF ReadOf, Informed, Listing, Second
    <2>4. AheadOf(t)'
      BY <1>1, <1>2, <2>2 DEF AheadOf
    <2> QED BY <1>1, <2>2, <2>3, <2>4, AbsentAssumption DEF Explains
  <1> QED BY <1>3, <1>4

LEMMA ListDiskExplained ==
    ASSUME Types, NEW t \in Tree, Explains(t), ListDisk, tree' = tree
    PROVE  Explains(t)'
  <1>1. gate.phase = "disk" /\ gate.verdict = Absent /\ ReadOf(t) /\ AheadOf(t)
    BY DEF ListDisk, Types, Shape, Explains
  <1>2. tree.disk = t.disk
    BY <1>1 DEF AheadOf
  <1>3. gate' = [gate EXCEPT !.phase = "missing",
                             !.offending = gate.offending \/ Unlawful(tree.disk)]
    BY DEF ListDisk
  <1>4. /\ gate'.phase = "missing" /\ gate'.offending = (gate.offending \/ Unlawful(tree.disk))
        /\ UNCHANGED <<gate.seen, gate.payload, gate.at, gate.round, gate.verdict>>
    BY <1>3 DEF Types, Shape, Gate
  <1>5. ReadOf(t)'
    BY <1>1, <1>2, <1>4 DEF ReadOf, Informed, Listing, Second
  <1>6. AheadOf(t)'
    BY <1>1, <1>2, <1>4 DEF AheadOf
  <1> QED BY <1>1, <1>4, <1>5, <1>6, AbsentAssumption DEF Explains

LEMMA CheckMissingExplained ==
    ASSUME Types, NEW t \in Tree, Explains(t), CheckMissing, tree' = tree
    PROVE  Explains(t)'
  <1> DEFINE offending == gate.offending \/ ~(Admitted \subseteq tree.disk)
  <1>1. /\ gate.phase = "missing" /\ gate.verdict = Absent /\ gate.at = 1
        /\ ReadOf(t) /\ AheadOf(t) /\ gate.round \in {1, 2}
    BY DEF CheckMissing, Types, Shape, Explains, Gate, Listing
  <1>2. CASE gate.round = 1
    <2>1. gate' = [gate EXCEPT !.phase = "judge", !.offending = offending]
      BY <1>1, <1>2 DEF CheckMissing
    <2> HIDE DEF offending
    <2>2. /\ gate'.phase = "judge"
          /\ UNCHANGED <<gate.seen, gate.payload, gate.at, gate.round, gate.verdict>>
      BY <2>1 DEF Types, Shape, Gate
    <2>3. ReadOf(t)'
      BY <1>1, <1>2, <2>2 DEF ReadOf, Informed, Listing, Second
    <2>4. AheadOf(t)'
      BY <1>1, <1>2, <2>2 DEF AheadOf
    <2> QED BY <1>1, <2>2, <2>3, <2>4, AbsentAssumption DEF Explains
  <1>3. CASE gate.round = 2 /\ offending
    BY <1>3, FailExplained DEF CheckMissing
  <1>4. CASE gate.round = 2 /\ ~offending
    <2>1. gate' = [gate EXCEPT !.phase = "hash", !.offending = FALSE]
      BY <1>4 DEF CheckMissing
    <2>2. /\ Attested(t) /\ (\A k \in 1..3 : Says(t, k)) /\ t.tracked # Absent
          /\ ~Unlawful(t.tracked) /\ ~Unlawful(t.disk) /\ Admitted \subseteq t.disk
          /\ tree.doc["gate"] = t.doc["gate"]
      BY <1>1, <1>4 DEF ReadOf, AheadOf, Second, Listing
    <2> HIDE DEF offending
    <2>3. /\ gate'.phase = "hash" /\ gate'.round = 2 /\ gate'.verdict = Absent
      BY <1>1, <1>4, <2>1 DEF Types, Shape, Gate
    <2>4. Lawful(t)
      BY <2>2, LawfulPaths DEF Lawful
    <2>5. ReadOf(t)'
      BY <2>2, <2>3, <2>4 DEF ReadOf, Informed, Listing, Second
    <2>6. AheadOf(t)'
      BY <2>2, <2>3 DEF AheadOf
    <2> QED BY <2>3, <2>5, <2>6, AbsentAssumption DEF Explains
  <1> QED BY <1>1, <1>2, <1>3, <1>4

LEMMA JudgeExplained ==
    ASSUME Types, NEW t \in Tree, Explains(t), Judge, tree' = tree
    PROVE  Explains(t)'
  <1>1. /\ gate.phase = "judge" /\ gate.at = 1 /\ gate.verdict = Absent /\ gate.round = 1
        /\ ReadOf(t) /\ AheadOf(t)
    BY DEF Judge, Types, Shape, Explains, Listing
  <1>2. CASE EvidenceHolds
    <2>1. gate' = [gate EXCEPT !.phase = "record", !.seen = Unseen, !.payload = <<>>,
                               !.round = 2]
      BY <1>2 DEF Judge
    <2>2. /\ gate'.phase = "record" /\ gate'.at = 1 /\ gate'.round = 2
          /\ gate'.verdict = Absent
      BY <1>1, <2>1 DEF Types, Shape, Gate
    <2>3. /\ \A k \in 1..7 : k # 5 => gate.seen[k] = t.doc[Evidence[k]]
          /\ Len(gate.payload) = Len(gate.seen[1].items)
          /\ \A k \in 1..Len(gate.payload) :
                /\ gate.payload[k] = t.sources[gate.seen[1].items[k].file]
                /\ gate.payload[k] # Absent
      BY <1>1 DEF ReadOf, Informed
    <2>4. Attested(t)
      BY <1>1, <1>2, <2>3, EvidenceAgrees
    <2>5. ReadOf(t)'
      BY <2>2, <2>4 DEF ReadOf, Informed, Listing, Second
    <2>6. AheadOf(t)'
      BY <1>1, <2>2 DEF AheadOf
    <2> QED BY <2>2, <2>5, <2>6, AbsentAssumption DEF Explains
  <1>3. CASE ~EvidenceHolds
    BY <1>3, FailExplained DEF Judge
  <1> QED BY <1>2, <1>3

LEMMA ReadBoundedExplained ==
    ASSUME Types, NEW t \in Tree, Explains(t), ReadBounded, tree' = tree
    PROVE  Explains(t)'
  <1>1. /\ gate.phase = "record" /\ gate.at \in 1..3 /\ gate.round = 2
        /\ gate.verdict = Absent /\ ReadOf(t) /\ AheadOf(t)
    BY DEF ReadBounded, Types, Shape, Explains
  <1>2. /\ Attested(t) /\ \A k \in 1..3 : k < gate.at => Says(t, k)
        /\ \A k \in 1..3 : k >= gate.at => tree.doc[Bounded[k].name] = t.doc[Bounded[k].name]
        /\ tree.doc["gate"] = t.doc["gate"]
        /\ tree.tracked = t.tracked /\ tree.disk = t.disk
    BY <1>1 DEF ReadOf, AheadOf
  <1>3. CASE tree.doc[Bounded[gate.at].name] # Bounded[gate.at].says
    BY <1>3, FailExplained DEF ReadBounded
  <1>4. CASE tree.doc[Bounded[gate.at].name] = Bounded[gate.at].says
    <2>1. Says(t, gate.at)
      <3>1. tree.doc[Bounded[gate.at].name] = t.doc[Bounded[gate.at].name]
        BY <1>1, <1>2
      <3> QED BY <1>4, <3>1 DEF Says
    <2>2. \A k \in 1..3 : k <= gate.at => Says(t, k)
      BY <1>1, <1>2, <2>1
    <2>3. CASE gate.at < 3
      <3>1. gate' = [gate EXCEPT !.at = gate.at + 1]
        BY <1>1, <1>4, <2>3, BoundedNames DEF ReadBounded
      <3>2. /\ gate'.at = gate.at + 1 /\ gate'.phase = "record" /\ gate'.round = 2
            /\ gate'.verdict = Absent
        BY <1>1, <3>1 DEF Types, Shape, Gate
      <3>3. \A k \in 1..3 : k < gate'.at => Says(t, k)
        BY <1>1, <2>2, <3>2
      <3>4. ReadOf(t)'
        BY <1>2, <3>2, <3>3 DEF ReadOf, Informed, Listing, Second
      <3>5. AheadOf(t)'
        BY <1>1, <1>2, <3>2 DEF AheadOf
      <3> QED BY <3>2, <3>4, <3>5, AbsentAssumption DEF Explains
    <2>4. CASE gate.at = 3
      <3>1. gate' = [gate EXCEPT !.phase = "tracked", !.at = 1]
        BY <1>1, <1>4, <2>4, BoundedNames DEF ReadBounded
      <3>2. gate'.phase = "tracked" /\ gate'.round = 2 /\ gate'.verdict = Absent
        BY <1>1, <3>1 DEF Types, Shape, Gate
      <3>3. \A k \in 1..3 : Says(t, k)
        BY <2>2, <2>4
      <3>4. ReadOf(t)'
        BY <1>2, <3>2, <3>3 DEF ReadOf, Informed, Listing, Second
      <3>5. AheadOf(t)'
        BY <1>2, <3>2 DEF AheadOf
      <3> QED BY <3>2, <3>4, <3>5, AbsentAssumption DEF Explains
    <2> QED BY <1>1, <2>3, <2>4
  <1> QED BY <1>3, <1>4

LEMMA HashGateExplained ==
    ASSUME Types, NEW t \in Tree, Explains(t), HashGate, tree' = tree
    PROVE  Explains(t)'
  <1>1. /\ gate.phase = "hash" /\ Attested(t) /\ Lawful(t) /\ \A k \in 1..3 : Says(t, k)
        /\ tree.doc["gate"] = t.doc["gate"]
    BY DEF HashGate, Types, Shape, Explains, ReadOf, AheadOf, Second
  <1>2. CASE tree.doc["gate"] = "historical"
    <2>1. gate'.verdict = "pass"
      BY <1>2, ConcludeShape DEF HashGate, Types
    <2>2. Conforms(t)
      BY <1>1, <1>2, ConformsInParts DEF EvidenceConforms
    <2> QED BY <2>1, <2>2, AbsentAssumption DEF Explains
  <1>3. CASE tree.doc["gate"] # "historical"
    BY <1>3, FailExplained DEF HashGate
  <1> QED BY <1>2, <1>3

LEMMA VerifyExplained ==
    ASSUME Types, NEW t \in Tree, Explains(t), Verify
    PROVE  Explains(t)'
  BY ReadEvidenceExplained, ReadSourceExplained, ListTrackedExplained, ListDiskExplained,
     CheckMissingExplained, JudgeExplained, ReadBoundedExplained, HashGateExplained DEF Verify

(* Before the edit, the tree itself explains what has been read. *)
LEMMA ReadAsItIs ==
    ASSUME Undisturbed, gate.verdict = Absent, NEW t \in Tree, t = tree
    PROVE  ReadOf(t)
  BY DEF Undisturbed, Faithful, Found, Granted, ReadOf, Informed, EvidenceConforms, Second,
         Listing

(* An edit of something that has not been read yet: the new tree explains it all. *)
LEMMA EditBeforeReading ==
    ASSUME NEW t \in Tree, gate.verdict = Absent, ReadOf(t), gate' = gate, tree' = t
    PROVE  Explains(t)'
  <1>1. ReadOf(t)'
    BY DEF ReadOf, Informed, Second
  <1>2. AheadOf(t)'
    BY DEF AheadOf
  <1> QED BY <1>1, <1>2, AbsentAssumption DEF Explains

(* An edit of something that is not read again: the old tree explains it all. *)
LEMMA EditAfterReading ==
    ASSUME NEW t \in Tree, gate.verdict = Absent, ReadOf(t), gate' = gate, AheadOf(t)'
    PROVE  Explains(t)'
  <1>1. ReadOf(t)'
    BY DEF ReadOf, Informed, Second
  <1> QED BY <1>1, AbsentAssumption DEF Explains

\* SourcesConform as a condition on the three values it reads.
AreConforming(list, records, sources) ==
    LET items == Effective(list)
        receipts == Effective(records)
    IN  /\ Cardinality(items) = SourceCount
        /\ {i.id : i \in items} = {r.id : r \in receipts}
        /\ \E i \in items : i.id = Canada /\ i.honest
        /\ \A i \in items, r \in receipts : i.id = r.id =>
              sources[i.file] = i.body /\ i.body = r.body
        /\ \A i \in items : i.id \in Synthetic => i.honest /\ i.body \in Warned

LEMMA ConformingValues ==
    ASSUME NEW t
    PROVE  SourcesConform(t) = AreConforming(t.doc["sourceSet"].items, t.doc["receipts"], t.sources)
  BY DEF SourcesConform, AreConforming

LEMMA AttestedAlike ==
    ASSUME NEW t \in Tree, NEW u \in Tree, t.sources = u.sources,
           \A k \in 1..7 : k # 5 => t.doc[Evidence[k]] = u.doc[Evidence[k]], Attested(t)
    PROVE  Attested(u)
  <1>1. /\ t.doc["sourceSet"] = u.doc["sourceSet"] /\ t.doc["receipts"] = u.doc["receipts"]
        /\ t.doc["profile"] = u.doc["profile"] /\ t.doc["veip"] = u.doc["veip"]
        /\ t.doc["active"] = u.doc["active"]
    BY EvidenceNames
  <1>2. SourcesConform(u)
    <2>1. SourcesConform(t)
      BY DEF Attested
    <2>2. AreConforming(t.doc["sourceSet"].items, t.doc["receipts"], t.sources)
      BY <2>1, ConformingValues
    <2>3. AreConforming(u.doc["sourceSet"].items, u.doc["receipts"], u.sources)
      BY <1>1, <2>2
    <2> QED BY <2>3, ConformingValues
  <1>3. \A k \in 1..7 : k # 5 => u.doc[Evidence[k]] # Absent
    BY DEF Attested
  <1> QED BY <1>1, <1>2, <1>3 DEF Attested

LEMMA WithDocument ==
    ASSUME NEW t \in Tree, NEW n \in Documents, NEW c \in Content[n] \cup {Absent},
           NEW u, u = [t EXCEPT !.doc[n] = c]
    PROVE  /\ u \in Tree /\ u.sources = t.sources /\ u.tracked = t.tracked /\ u.disk = t.disk
           /\ \A m \in Documents : m # n => u.doc[m] = t.doc[m]
  <1>1. t.doc \in Text
    BY DEF Tree
  <1>2. u = [t EXCEPT !.doc = [t.doc EXCEPT ![n] = c]]
    OBVIOUS
  <1>3. [t.doc EXCEPT ![n] = c] \in Text
    BY <1>1, EditedText
  <1>4. /\ u \in Tree /\ u.sources = t.sources /\ u.tracked = t.tracked /\ u.disk = t.disk
        /\ u.doc = [t.doc EXCEPT ![n] = c]
    BY <1>2, <1>3 DEF Tree
  <1>5. DOMAIN t.doc = Documents
    BY <1>1, DocumentNames DEF Text
  <1>6. ASSUME NEW m \in Documents, m # n
        PROVE  [t.doc EXCEPT ![n] = c][m] = t.doc[m]
    <2> HIDE DEF Documents
    <2> QED BY <1>5, <1>6
  <1> QED BY <1>4, <1>6

LEMMA DocumentEditExplained ==
    ASSUME Types, Undisturbed, gate.verdict = Absent, gate' = gate,
           NEW n \in Documents \ {"profile"}, NEW c \in Content[n] \cup {Absent},
           tree' = [tree EXCEPT !.doc[n] = c]
    PROVE  \E t \in Tree : (t = tree \/ t = tree') /\ Explains(t)'
  <1> PICK old \in Tree : old = tree
    BY DEF Types
  <1> PICK new \in Tree : new = tree'
    BY WithDocument DEF Types
  <1>1. /\ new.sources = old.sources /\ new.tracked = old.tracked /\ new.disk = old.disk
        /\ \A m \in Documents : m # n => new.doc[m] = old.doc[m]
    <2>1. n \in Documents /\ new = [old EXCEPT !.doc[n] = c]
      OBVIOUS
    <2> QED BY <2>1, WithDocument
  <1>2. /\ \A k \in 1..7 : Evidence[k] \in Documents
        /\ \A k \in 1..3 : Bounded[k].name \in Documents
    BY EvidenceNames, BoundedNames, DocumentNames
  <1>3. ReadOf(old)
    BY ReadAsItIs
  <1> DEFINE ToRead == \/ n = "gate"
                       \/ gate.phase = "evidence" /\ \E k \in 1..7 : k >= gate.at /\ Evidence[k] = n
                       \/ gate.round = 1 /\ \E k \in 1..3 : Bounded[k].name = n
                       \/ /\ gate.phase = "record"
                          /\ \E k \in 1..3 : k >= gate.at /\ Bounded[k].name = n
  <1>4. CASE ToRead
    <2>1. ReadOf(new)
      <3>1. CASE n = "gate"
        <4>1. /\ \A k \in 1..7 : k # 5 => new.doc[Evidence[k]] = old.doc[Evidence[k]]
              /\ \A k \in 1..3 : new.doc[Bounded[k].name] = old.doc[Bounded[k].name]
          BY <1>1, <1>2, <3>1, EvidenceNames, BoundedNames
        <4>2. Attested(old) => Attested(new)
          <5>1. old.sources = new.sources
            BY <1>1
          <5>2. \A k \in 1..7 : k # 5 => old.doc[Evidence[k]] = new.doc[Evidence[k]]
            BY <4>1
          <5> HIDE DEF ToRead
          <5> QED BY <5>1, <5>2, AttestedAlike
        <4>3. Informed => \A k \in 1..Len(gate.payload) :
                 new.sources[gate.seen[1].items[k].file] = old.sources[gate.seen[1].items[k].file]
          BY <1>1
        <4>4. gate.phase = "record" \/ Second => (Attested(old) => Attested(new))
          BY <4>2
        <4> HIDE DEF ToRead
        <4>5. AgreesOnRead(new, old)
          BY <1>1, <4>1, <4>3, <4>4 DEF AgreesOnRead
        <4> QED BY <1>3, <4>5, ReadAlike
      <3>2. CASE gate.phase = "evidence" /\ \E k \in 1..7 : k >= gate.at /\ Evidence[k] = n
        <4>1. PICK l \in 1..7 : l >= gate.at /\ Evidence[l] = n
          BY <3>2
        <4>2. gate.at \in 1..7
          BY <3>2 DEF Types, Shape
        <4>3. \A k \in 1..7 : k < gate.at => Evidence[k] # n
          <5>1. \A k \in 1..7 : Evidence[k] = n => k = l
            BY <4>1, EvidenceNames
          <5> QED BY <4>1, <4>2, <5>1
        <4>4. \A k \in 1..7 : k < gate.at => new.doc[Evidence[k]] = old.doc[Evidence[k]]
          BY <1>1, <1>2, <4>3
        <4>5. gate.phase = "evidence" /\ ~Informed /\ ~Second
          BY <3>2 DEF Informed, Second, Listing
        <4>6. /\ gate.payload = <<>>
              /\ \A k \in 1..7 : k < gate.at /\ k # 5 => gate.seen[k] = new.doc[Evidence[k]]
          BY <1>3, <4>4, <4>5 DEF ReadOf
        <4> QED BY <4>5, <4>6 DEF ReadOf
      <3>3. CASE gate.round = 1 /\ \E k \in 1..3 : Bounded[k].name = n
        <4>1. \A k \in 1..7 : new.doc[Evidence[k]] = old.doc[Evidence[k]]
          BY <1>1, <1>2, <3>3, EvidenceNames, BoundedNames
        <4>2. gate.phase \notin {"record", "hash"} /\ ~Second
          BY <3>3 DEF Types, Shape, Second
        <4> QED BY <1>1, <1>3, <4>1, <4>2 DEF ReadOf, Second
      <3>4. CASE gate.phase = "record" /\ \E k \in 1..3 : k >= gate.at /\ Bounded[k].name = n
        <4>1. PICK l \in 1..3 : l >= gate.at /\ Bounded[l].name = n
          BY <3>4
        <4>2. gate.at \in 1..3
          BY <3>4 DEF Types, Shape
        <4>3. \A k \in 1..3 : k < gate.at => Bounded[k].name # n
          <5>1. \A k \in 1..3 : Bounded[k].name = n => k = l
            BY <4>1, BoundedNames
          <5> QED BY <4>1, <4>2, <5>1
        <4>4. \A k \in 1..3 : k < gate.at => new.doc[Bounded[k].name] = old.doc[Bounded[k].name]
          BY <1>1, <1>2, <4>3
        <4>5. \A k \in 1..7 : new.doc[Evidence[k]] = old.doc[Evidence[k]]
          BY <1>1, <1>2, <4>1, EvidenceNames, BoundedNames
        <4>6. Attested(new)
          <5>1. Attested(old) /\ old.sources = new.sources
            BY <1>1, <1>3, <3>4 DEF ReadOf
          <5>2. \A k \in 1..7 : k # 5 => old.doc[Evidence[k]] = new.doc[Evidence[k]]
            BY <4>5
          <5> HIDE DEF ToRead
          <5> QED BY <5>1, <5>2, AttestedAlike
        <4>7. ~Informed /\ ~Second
          BY <3>4 DEF Informed, Second, Listing
        <4> QED BY <1>3, <3>4, <4>4, <4>6, <4>7 DEF ReadOf, Says
      <3> QED BY <1>4, <3>1, <3>2, <3>3, <3>4
    <2> HIDE DEF ToRead
    <2> QED BY <2>1, EditBeforeReading
  <1>5. CASE ~ToRead
    <2>1. \A m \in Documents : m # n => tree'.doc[m] = old.doc[m]
      BY <1>1
    <2>2. /\ gate.phase = "evidence" =>
                \A k \in 1..7 : k >= gate.at => tree'.doc[Evidence[k]] = old.doc[Evidence[k]]
          /\ gate.round = 1 =>
                \A k \in 1..3 : tree'.doc[Bounded[k].name] = old.doc[Bounded[k].name]
          /\ gate.phase = "record" =>
                \A k \in 1..3 : k >= gate.at =>
                   tree'.doc[Bounded[k].name] = old.doc[Bounded[k].name]
          /\ tree'.doc["gate"] = old.doc["gate"]
      BY <1>2, <1>5, <2>1, DocumentNames
    <2> HIDE DEF ToRead
    <2>3. AheadOf(old)'
      BY <1>1, <2>2 DEF AheadOf
    <2> QED BY <1>3, <2>3, EditAfterReading
  <1> QED BY <1>4, <1>5

LEMMA SourceEditExplained ==
    ASSUME Types, Undisturbed, gate.verdict = Absent, gate' = gate,
           NEW f \in Files, NEW b \in Bodies \cup {Absent},
           tree' = [tree EXCEPT !.sources[f] = b], f \notin ReadTwice'
    PROVE  \E t \in Tree : (t = tree \/ t = tree') /\ Explains(t)'
  <1> PICK old \in Tree : old = tree
    BY DEF Types
  <1>1. tree' = [tree EXCEPT !.sources = [tree.sources EXCEPT ![f] = b]] /\ tree' \in Tree
    BY DEF Types, Tree
  <1> PICK new \in Tree : new = tree'
    BY <1>1
  <1>2. /\ new.doc = old.doc /\ new.tracked = old.tracked /\ new.disk = old.disk
        /\ \A g \in Files : g # f => new.sources[g] = old.sources[g]
    BY <1>1 DEF Tree
  <1>3. ReadOf(old)
    BY ReadAsItIs
  <1> DEFINE items == gate.seen[1].items
  <1>4. CASE gate.phase = "evidence"
    <2>1. ReadOf(new)
      BY <1>2, <1>3, <1>4 DEF ReadOf, Informed, Second, Listing
    <2> QED BY <2>1, EditBeforeReading
  <1>5. CASE gate.phase = "sources"
    <2>1. /\ gate.at \in 1..Len(items) /\ items \in Seq(Item)
          /\ Len(gate.payload) = gate.at - 1 /\ items = old.doc["sourceSet"].items
      <3>1. Informed /\ gate.at \in 1..Len(items)
        BY <1>5 DEF Types, Shape, Informed
      <3>2. Len(gate.payload) = gate.at - 1 /\ gate.seen[1] = old.doc[Evidence[1]]
        BY <1>3, <1>5, <3>1 DEF ReadOf
      <3> QED BY <3>1, <3>2, ListTypes, EvidenceNames DEF Types
    <2>2. \A k \in 1..Len(items) : items[k].file \in Files
      <3> HIDE DEF items
      <3>1. \A k \in 1..Len(items) : items[k] \in Item
        BY <2>1
      <3> QED BY <3>1 DEF Item
    <2>3. CASE \A k \in 1..Len(items) : k < gate.at => items[k].file # f
      <3>1. \A k \in 1..Len(gate.payload) :
               new.sources[items[k].file] = old.sources[items[k].file]
        <4>1. ASSUME NEW k \in 1..Len(gate.payload)
              PROVE  new.sources[items[k].file] = old.sources[items[k].file]
          <5>1. k \in 1..Len(items) /\ k < gate.at
            BY <2>1
          <5> QED BY <1>2, <2>2, <2>3, <5>1
        <4> QED BY <4>1
      <3>2. ReadOf(new)
        <4>1. gate.phase = "record" \/ Second => (Attested(old) => Attested(new))
          BY <1>5 DEF Second, Listing
        <4>2. Informed => \A k \in 1..Len(gate.payload) :
                 new.sources[gate.seen[1].items[k].file] = old.sources[gate.seen[1].items[k].file]
          BY <3>1
        <4>3. /\ \A k \in 1..7 : k # 5 => new.doc[Evidence[k]] = old.doc[Evidence[k]]
              /\ \A k \in 1..3 : new.doc[Bounded[k].name] = old.doc[Bounded[k].name]
              /\ new.tracked = old.tracked /\ new.disk = old.disk
          BY <1>2
        <4>4. AgreesOnRead(new, old)
          BY <4>1, <4>2, <4>3 DEF AgreesOnRead
        <4> QED BY <1>3, <4>4, ReadAlike
      <3> QED BY <3>2, EditBeforeReading
    <2>4. CASE \E k \in 1..Len(items) : k < gate.at /\ items[k].file = f
      <3>1. PICK k \in 1..Len(items) : k < gate.at /\ items[k].file = f
        BY <2>4
      <3>2. tree'.doc["sourceSet"].items = items
        BY <1>2, <2>1
      <3>3. \A l \in 1..Len(items) : l # k => items[l].file # f
        <4> HIDE DEF items
        <4>1. DOMAIN items = 1..Len(items)
          BY <2>1
        <4> QED BY <3>1, <3>2, <4>1 DEF ReadTwice
      <3>4. \A l \in 1..Len(items) : l >= gate.at => items[l].file # f
        BY <2>1, <3>1, <3>3
      <3>5. \A l \in 1..Len(items) : l >= gate.at =>
               tree'.sources[items[l].file] = old.sources[items[l].file]
        BY <1>2, <2>2, <3>4
      <3>6. AheadOf(old)'
        BY <1>2, <1>5, <3>5 DEF AheadOf
      <3> QED BY <1>3, <3>6, EditAfterReading
    <2> QED BY <2>3, <2>4
  <1>6. CASE gate.phase \notin {"evidence", "sources"}
    <2>1. AheadOf(old)'
      BY <1>2, <1>6 DEF AheadOf
    <2> QED BY <1>3, <2>1, EditAfterReading
  <1> QED BY <1>4, <1>5, <1>6

LEMMA IndexEditExplained ==
    ASSUME Types, Undisturbed, gate.verdict = Absent, gate' = gate, NEW p \in Paths,
           tree.tracked # Absent, tree' = [tree EXCEPT !.tracked = Toggled(@, p)]
    PROVE  \E t \in Tree : (t = tree \/ t = tree') /\ Explains(t)'
  <1> PICK old \in Tree : old = tree
    BY DEF Types
  <1>1. tree' \in Tree
    BY DEF Types, Tree, Toggled
  <1> PICK new \in Tree : new = tree'
    BY <1>1
  <1>2. new.doc = old.doc /\ new.sources = old.sources /\ new.disk = old.disk
    BY DEF Tree
  <1>3. ReadOf(old)
    BY ReadAsItIs
  <1>4. CASE gate.phase = "hash" \/ (gate.round = 2 /\ gate.phase \in {"disk", "missing"})
    <2>1. gate.round # 1 /\ gate.phase \notin {"record", "tracked"}
      BY <1>4 DEF Types, Shape
    <2>2. AheadOf(old)'
      BY <1>2, <2>1 DEF AheadOf
    <2> QED BY <1>3, <2>2, EditAfterReading
  <1>5. CASE gate.phase # "hash" /\ ~(gate.round = 2 /\ gate.phase \in {"disk", "missing"})
    <2>1. Attested(old) => Attested(new)
      BY <1>2, AttestedAlike
    <2>2. gate.phase # "hash" /\ ~(Second /\ gate.phase \in {"disk", "missing"})
      BY <1>5 DEF Second, Listing
    <2>3. \A k \in 1..3 : Says(old, k) => Says(new, k)
      BY <1>2 DEF Says
    <2>4. ReadOf(new)
      BY <1>2, <1>3, <2>1, <2>2, <2>3 DEF ReadOf
    <2> QED BY <2>4, EditBeforeReading
  <1> QED BY <1>4, <1>5

LEMMA DiskEditExplained ==
    ASSUME Types, Undisturbed, gate.verdict = Absent, gate' = gate, NEW p \in Paths,
           tree' = [tree EXCEPT !.disk = Toggled(@, p)]
    PROVE  \E t \in Tree : (t = tree \/ t = tree') /\ Explains(t)'
  <1> PICK old \in Tree : old = tree
    BY DEF Types
  <1>1. tree' \in Tree
    BY DEF Types, Tree, Toggled
  <1> PICK new \in Tree : new = tree'
    BY <1>1
  <1>2. /\ new.doc = old.doc /\ new.sources = old.sources /\ new.tracked = old.tracked
        /\ new.disk = Toggled(old.disk, p)
    BY DEF Tree
  <1>3. ReadOf(old)
    BY ReadAsItIs
  <1>4. Attested(old) => Attested(new)
    BY <1>2, AttestedAlike
  <1>5. CASE gate.phase = "hash"
    <2>1. gate.round # 1
      BY <1>5 DEF Types, Shape
    <2>2. AheadOf(old)'
      BY <1>2, <1>5, <2>1 DEF AheadOf
    <2> QED BY <1>3, <2>2, EditAfterReading
  <1>6. CASE gate.round = 2 /\ gate.phase = "missing" /\ p \in Admitted
    <2>1. Unlawful(new.disk) <=> Unlawful(old.disk)
      BY <1>2, <1>6 DEF Unlawful, Toggled
    <2>2. ReadOf(new)
      <3>1. gate.phase = "missing" /\ ~Informed /\ Second
        BY <1>6 DEF Informed, Second, Listing
      <3>2. /\ Attested(old) /\ old.tracked # Absent /\ \A k \in 1..3 : Says(old, k)
            /\ ~gate.offending => ~Unlawful(old.tracked) /\ ~Unlawful(old.disk)
        BY <1>3, <3>1 DEF ReadOf
      <3>3. \A k \in 1..3 : Says(new, k)
        BY <1>2, <3>2 DEF Says
      <3> QED BY <1>2, <1>4, <2>1, <3>1, <3>2, <3>3 DEF ReadOf
    <2> QED BY <2>2, EditBeforeReading
  <1>7. CASE gate.round = 2 /\ gate.phase = "missing" /\ p \notin Admitted
    <2>1. Admitted \subseteq new.disk <=> Admitted \subseteq old.disk
      BY <1>2, <1>7 DEF Toggled
    <2>2. AheadOf(old)'
      BY <1>2, <1>7, <2>1 DEF AheadOf
    <2> QED BY <1>3, <2>2, EditAfterReading
  <1>8. CASE gate.phase # "hash" /\ ~(gate.round = 2 /\ gate.phase = "missing")
    <2>1. ReadOf(new)
      BY <1>2, <1>3, <1>4, <1>8 DEF ReadOf, Second, Listing, Says
    <2> QED BY <2>1, EditBeforeReading
  <1> QED BY <1>5, <1>6, <1>7, <1>8

LEMMA EditExplained ==
    ASSUME Types, Undisturbed, EditDocument \/ EditSource \/ MovePath
    PROVE  \/ \E t \in Tree : (t = tree \/ t = tree') /\ Explains(t)'
           \/ watch'.edited # {} /\ (watch.edited = {} => watch'.edited \subseteq ReadTwice')
  <1>1. CASE EditDocument
    <2> PICK n \in Documents : \E c \in (Content[n] \cup {Absent}) \ {tree.doc[n]} :
             Becomes([tree EXCEPT !.doc[n] = c], {n}, 1, 0)
      BY <1>1 DEF EditDocument
    <2>1. PICK c \in Content[n] \cup {Absent} : Becomes([tree EXCEPT !.doc[n] = c], {n}, 1, 0)
      OBVIOUS
    <2>2. /\ gate.verdict = Absent /\ gate' = gate /\ tree' = [tree EXCEPT !.doc[n] = c]
          /\ watch'.edited = watch.edited \cup {n}
      BY <2>1 DEF Becomes, Running
    <2>3. CASE n = "profile"
      BY <2>2, <2>3 DEF ReadTwice
    <2>4. CASE n # "profile"
      BY <2>2, <2>4, DocumentEditExplained
    <2> QED BY <2>3, <2>4
  <1>2. CASE EditSource
    <2> PICK f \in Files : \E b \in (Bodies \cup {Absent}) \ {tree.sources[f]} :
             Becomes([tree EXCEPT !.sources[f] = b], {f}, 1, 0)
      BY <1>2 DEF EditSource
    <2>1. PICK b \in Bodies \cup {Absent} : Becomes([tree EXCEPT !.sources[f] = b], {f}, 1, 0)
      OBVIOUS
    <2>2. /\ gate.verdict = Absent /\ gate' = gate /\ tree' = [tree EXCEPT !.sources[f] = b]
          /\ watch'.edited = watch.edited \cup {f}
      BY <2>1 DEF Becomes, Running
    <2>3. CASE f \in ReadTwice'
      BY <2>2, <2>3
    <2>4. CASE f \notin ReadTwice'
      BY <2>2, <2>4, SourceEditExplained
    <2> QED BY <2>3, <2>4
  <1>3. CASE MovePath
    <2>1. PICK p \in Paths :
             \/ /\ tree.tracked # Absent
                /\ Becomes([tree EXCEPT !.tracked = Toggled(@, p)], {}, 0, 1)
             \/ Becomes([tree EXCEPT !.disk = Toggled(@, p)], {}, 0, 1)
      BY <1>3 DEF MovePath
    <2>2. CASE tree.tracked # Absent /\ Becomes([tree EXCEPT !.tracked = Toggled(@, p)], {}, 0, 1)
      <3>1. /\ gate.verdict = Absent /\ gate' = gate
            /\ tree' = [tree EXCEPT !.tracked = Toggled(@, p)]
        BY <2>2 DEF Becomes, Running
      <3> QED BY <2>2, <3>1, IndexEditExplained
    <2>3. CASE Becomes([tree EXCEPT !.disk = Toggled(@, p)], {}, 0, 1)
      <3>1. /\ gate.verdict = Absent /\ gate' = gate
            /\ tree' = [tree EXCEPT !.disk = Toggled(@, p)]
        BY <2>3 DEF Becomes, Running
      <3> QED BY <3>1, DiskEditExplained
    <2> QED BY <2>1, <2>2, <2>3
  <1> QED BY <1>1, <1>2, <1>3

\* A tree that was there explains it, unless a file was edited that is read twice.
OneEditInv ==
    /\ Quiet => watch.edited = {} /\ (Conforms(tree) => watch.whole)
    /\ watch.edits + watch.moves = 1 =>
          \/ \E t \in Tree : (Conforms(t) => watch.whole) /\ Explains(t)
          \/ watch.edited # {} /\ watch.edited \subseteq ReadTwice

LEMMA StepOneEdit == Types /\ QuietInv /\ OneEditInv /\ [Next]_vars => OneEditInv'
  <1> SUFFICES ASSUME Types, QuietInv, OneEditInv, [Next]_vars PROVE OneEditInv'
    OBVIOUS
  <1>1. CASE Verify \/ UNCHANGED vars
    <2>1. tree' = tree /\ watch' = watch /\ (Verify \/ gate' = gate)
      BY <1>1 DEF Verify, vars
    <2>2. Quiet' <=> Quiet
      BY <2>1 DEF Quiet
    <2>3. Conforms(tree)' <=> Conforms(tree)
      BY <2>1 DEF Conforms, SourcesConform, Intruders
    <2>4. ReadTwice' = ReadTwice
      BY <2>1 DEF ReadTwice
    <2>5. ASSUME NEW t \in Tree, Explains(t)
          PROVE  Explains(t)'
      <3>1. CASE Verify
        BY <2>5, <3>1, VerifyExplained
      <3>2. CASE gate' = gate
        BY <2>1, <2>5, <3>2, SameExplained
      <3> QED BY <2>1, <3>1, <3>2
    <2>6. ASSUME watch.edits + watch.moves = 1
          PROVE  \/ \E t \in Tree : (Conforms(t) => watch.whole) /\ Explains(t)'
                 \/ watch.edited # {} /\ watch.edited \subseteq ReadTwice
      BY <2>5, <2>6 DEF OneEditInv
    <2> QED BY <2>1, <2>2, <2>3, <2>4, <2>6 DEF OneEditInv
  <1>2. CASE EditDocument \/ EditSource \/ MovePath
    <2>1. PICK new \in Tree, names \in SUBSET (Documents \cup Files), moves \in {0, 1} :
             Becomes(new, names, 1 - moves, moves)
      BY <1>2, EditKinds
    <2>2. /\ tree' = new /\ watch'.whole = (watch.whole \/ Conforms(new))
          /\ watch'.edits = watch.edits + (1 - moves) /\ watch'.moves = watch.moves + moves
          /\ watch.edits \in Nat /\ watch.moves \in Nat
      BY <2>1 DEF Becomes, Types, Watch
    <2>3. ~Quiet'
      BY <1>2, EditsAreCounted
    <2>4. ASSUME watch'.edits + watch'.moves = 1
          PROVE  \/ \E t \in Tree : (Conforms(t) => watch'.whole) /\ Explains(t)'
                 \/ watch'.edited # {} /\ watch'.edited \subseteq ReadTwice'
      <3>1. Quiet
        <4>1. watch.edits + watch.moves = 0
          <5>1. CASE moves = 0
            BY <2>2, <2>4, <5>1
          <5>2. CASE moves = 1
            BY <2>2, <2>4, <5>2
          <5> QED BY <5>1, <5>2
        <4> QED BY <2>2, <4>1 DEF Quiet
      <3>2. Undisturbed /\ watch.edited = {} /\ (Conforms(tree) => watch.whole)
        BY <3>1 DEF QuietInv, OneEditInv
      <3>3. CASE \E t \in Tree : (t = tree \/ t = tree') /\ Explains(t)'
        <4>1. PICK t \in Tree : (t = tree \/ t = tree') /\ Explains(t)'
          BY <3>3
        <4>2. Conforms(t) => watch'.whole
          BY <2>2, <3>2, <4>1
        <4> QED BY <4>1, <4>2
      <3> QED BY <1>2, <3>2, <3>3, EditExplained
    <2> QED BY <2>3, <2>4 DEF OneEditInv
  <1> QED BY <1>1, <1>2 DEF Next

(***************************************************************************)
(* A pass over a tree that conformed at no moment, made possible by one    *)
(* edit, is an edit of a file that is read twice with different questions, *)
(* whichever trees, sources and paths there are (load_and_validate).       *)
(***************************************************************************)
THEOREM OneEditTearsOnlyWhatIsReadTwice == Spec => []OneEditTearsOnlyDoubleReads
  <1>1. Types /\ OneEditInv => OneEditTearsOnlyDoubleReads
    <2> SUFFICES ASSUME OneEditInv, gate.verdict = "pass", ~watch.whole,
                        watch.edits + watch.moves = 1
                 PROVE  watch.edited # {} /\ watch.edited \subseteq ReadTwice
      BY DEF OneEditTearsOnlyDoubleReads
    <2> QED BY DEF OneEditInv, Explains
  <1>2. Init => OneEditInv
    <2> SUFFICES ASSUME Init PROVE OneEditInv
      OBVIOUS
    <2>1. watch.edits = 0 /\ watch.moves = 0 /\ watch.edited = {} /\ watch.whole = Conforms(tree)
      BY DEF Init
    <2> QED BY <2>1 DEF OneEditInv, Quiet
  <1>3. Init => QuietInv
    BY UndisturbedInitially DEF QuietInv
  <1> QED BY InitialTypes, StepTypes, StepQuiet, StepOneEdit, <1>1, <1>2, <1>3, PTL DEF Spec
-----------------------------------------------------------------------------
(***************************************************************************)
(* The gate cannot be kept reading.  How many sources it will read it only *)
(* knows once it has read the evidence, so that what is ahead of it is     *)
(* measured by its stage first, and within a stage by what is left there.  *)
(***************************************************************************)
Stage(g) == CASE g.phase = "evidence" -> 2 [] g.phase = "sources" -> 1 [] OTHER -> 0

ListingsLeft(g) == CASE g.phase = "tracked" -> 3 [] g.phase = "disk" -> 2 [] OTHER -> 1

Rest(g) ==
    CASE g.phase = "evidence" -> 8 - g.at
      [] g.phase = "sources" -> Len(g.seen[1].items) + 1 - g.at
      [] g.phase = "judge" -> 8 [] g.phase = "record" -> 8 - g.at
      [] g.phase = "hash" -> 1  [] g.phase = "exited" -> 0
      [] OTHER -> ListingsLeft(g) + (IF g.round = 1 THEN 8 ELSE 1)

Lowered ==
    \/ Stage(gate') < Stage(gate)
    \/ Stage(gate') = Stage(gate) /\ Rest(gate') < Rest(gate)

LEMMA RestIsBounded ==
    ASSUME Shape
    PROVE  /\ Stage(gate) \in 0..2 /\ Rest(gate) \in Nat
           /\ Rest(gate) <= IF gate.phase = "sources" THEN Len(gate.seen[1].items) ELSE 11
           /\ gate.phase # "exited" => Rest(gate) >= 1
  <1>1. gate.phase \in Phases /\ gate.round \in {1, 2}
    BY DEF Shape, Gate
  <1>2. Stage(gate) \in 0..2 /\ ListingsLeft(gate) \in 1..3
    BY DEF Stage, ListingsLeft
  <1>3. CASE gate.phase = "sources"
    <2> DEFINE n == Len(gate.seen[1].items)
    <2>1. n \in Nat /\ gate.at \in 1..n
      BY <1>3, ListTypes DEF Shape, Informed
    <2>2. Rest(gate) = n + 1 - gate.at
      BY <1>3 DEF Rest
    <2> HIDE DEF n
    <2>3. Rest(gate) \in Nat /\ Rest(gate) <= n /\ Rest(gate) >= 1
      BY <2>1, <2>2
    <2> QED BY <1>2, <1>3, <2>3 DEF n
  <1>4. CASE gate.phase # "sources"
    <2>1. /\ gate.phase = "evidence" => gate.at \in 1..7
          /\ gate.phase = "record" => gate.at \in 1..3
      BY DEF Shape
    <2>2. Rest(gate) \in 0..11 /\ (gate.phase # "exited" => Rest(gate) >= 1)
      BY <1>1, <1>2, <1>4, <2>1 DEF Phases, Listing, Rest
    <2> QED BY <1>2, <1>4, <2>2
  <1> QED BY <1>3, <1>4

LEMMA ConcludeLowers ==
    ASSUME Shape, gate.phase # "exited", NEW verdict, Conclude(verdict)
    PROVE  Lowered
  <1>1. gate'.phase = "exited"
    BY DEF Conclude, Shape, Gate
  <1>2. Stage(gate') = 0 /\ Rest(gate') = 0
    BY <1>1 DEF Stage, Rest
  <1> QED BY <1>2, RestIsBounded DEF Lowered

\* From one stage to a later one.
LEMMA StageLowers ==
    ASSUME \/ gate.phase = "evidence" /\ gate'.phase \in {"sources", "tracked"}
           \/ gate.phase = "sources" /\ gate'.phase = "tracked"
    PROVE  Lowered
  BY DEF Lowered, Stage

LEMMA ReadEvidenceLowers ==
    ASSUME Shape, ReadEvidence
    PROVE  Lowered
  <1> DEFINE content == tree.doc[Evidence[gate.at]]
             seen == [gate.seen EXCEPT ![gate.at] = content]
             to == IF seen[1].items = <<>> THEN "tracked" ELSE "sources"
  <1>1. gate.phase = "evidence" /\ gate.at \in 1..7
    BY DEF ReadEvidence, Shape
  <1>2. CASE content = Absent
    BY <1>1, <1>2, ConcludeLowers DEF ReadEvidence
  <1>3. CASE content # Absent /\ gate.at < 7
    <2>1. gate' = [gate EXCEPT !.seen = seen, !.at = @ + 1]
      BY <1>3, EvidenceNames DEF ReadEvidence
    <2> HIDE DEF content, seen
    <2>2. gate'.phase = "evidence" /\ gate'.at = gate.at + 1
      BY <1>1, <2>1 DEF Shape, Gate
    <2> QED BY <1>1, <2>2 DEF Lowered, Stage, Rest
  <1>4. CASE content # Absent /\ gate.at = 7
    <2>1. gate' = [gate EXCEPT !.seen = seen, !.at = 1, !.phase = to]
      BY <1>4, EvidenceNames DEF ReadEvidence
    <2>2. to \in {"tracked", "sources"}
      OBVIOUS
    <2> HIDE DEF content, seen, to
    <2>3. gate'.phase = to
      BY <2>1 DEF Shape, Gate
    <2> QED BY <1>1, <2>2, <2>3, StageLowers
  <1> QED BY <1>1, <1>2, <1>3, <1>4

LEMMA ReadSourceLowers ==
    ASSUME Shape, ReadSource
    PROVE  Lowered
  <1> DEFINE items == gate.seen[1].items
             body == tree.sources[items[gate.at].file]
  <1>1. gate.phase = "sources" /\ gate.at \in 1..Len(items) /\ Len(items) \in Nat
    BY ListTypes DEF ReadSource, Shape, Informed
  <1>2. CASE body = Absent
    BY <1>1, <1>2, ConcludeLowers DEF ReadSource
  <1>3. CASE body # Absent
    <2> DEFINE to == IF gate.at < Len(items) THEN "sources" ELSE "tracked"
               next == IF gate.at < Len(items) THEN gate.at + 1 ELSE 1
    <2>1. gate' = [gate EXCEPT !.payload = Append(@, body), !.at = next, !.phase = to]
      BY <1>1, <1>3 DEF ReadSource
    <2> HIDE DEF next, to, body
    <2>2. gate'.phase = to /\ gate'.at = next /\ gate'.seen = gate.seen
      BY <2>1 DEF Shape, Gate
    <2>3. CASE gate.at < Len(items)
      <3>1. gate'.phase = "sources" /\ gate'.at = gate.at + 1 /\ gate'.seen[1].items = items
        BY <2>2, <2>3 DEF to, next
      <3> HIDE DEF items
      <3>2. Rest(gate') = Len(items) + 1 - (gate.at + 1) /\ Rest(gate) = Len(items) + 1 - gate.at
        BY <1>1, <3>1 DEF Rest, items
      <3> QED BY <1>1, <3>1, <3>2 DEF Lowered, Stage
    <2>4. CASE ~(gate.at < Len(items))
      BY <1>1, <2>2, <2>4, StageLowers DEF to
    <2> QED BY <2>3, <2>4
  <1> QED BY <1>2, <1>3

LEMMA ListingLowers ==
    ASSUME Shape, ListTracked \/ ListDisk
    PROVE  Lowered
  <1>1. CASE Conclude("fail")
    BY <1>1, ConcludeLowers DEF ListTracked, ListDisk
  <1>2. CASE ~Conclude("fail")
    <2>1. /\ <<gate.phase, gate'.phase>> \in {<<"tracked", "disk">>, <<"disk", "missing">>}
          /\ gate'.round = gate.round /\ gate.round \in {1, 2}
      BY <1>2 DEF ListTracked, ListDisk, Shape, Gate
    <2> QED BY <2>1 DEF Lowered, Stage, Rest, ListingsLeft
  <1> QED BY <1>1, <1>2

LEMMA CheckMissingLowers ==
    ASSUME Shape, CheckMissing
    PROVE  Lowered
  <1>1. CASE Conclude("fail")
    BY <1>1, ConcludeLowers DEF CheckMissing
  <1>2. CASE ~Conclude("fail")
    <2>1. /\ gate.phase = "missing" /\ gate.round \in {1, 2}
          /\ gate'.phase = IF gate.round = 1 THEN "judge" ELSE "hash"
      BY <1>2 DEF CheckMissing, Shape, Gate
    <2> QED BY <2>1 DEF Lowered, Stage, Rest, ListingsLeft
  <1> QED BY <1>1, <1>2

LEMMA JudgeLowers ==
    ASSUME Shape, Judge
    PROVE  Lowered
  <1>1. CASE Conclude("fail")
    BY <1>1, ConcludeLowers DEF Judge
  <1>2. CASE ~Conclude("fail")
    <2>1. gate.phase = "judge" /\ gate'.phase = "record" /\ gate'.at = gate.at /\ gate.at = 1
      BY <1>2 DEF Judge, Shape, Gate
    <2> QED BY <2>1 DEF Lowered, Stage, Rest
  <1> QED BY <1>1, <1>2

LEMMA ReadBoundedLowers ==
    ASSUME Shape, ReadBounded
    PROVE  Lowered
  <1>0. gate.phase = "record" /\ gate.at \in 1..3 /\ gate.round = 2
    BY DEF ReadBounded, Shape
  <1>1. CASE Conclude("fail")
    BY <1>0, <1>1, ConcludeLowers
  <1>2. CASE ~Conclude("fail") /\ gate.at < 3
    <2>1. gate'.phase = "record" /\ gate'.at = gate.at + 1
      BY <1>0, <1>2, BoundedNames DEF ReadBounded, Shape, Gate
    <2> QED BY <1>0, <2>1 DEF Lowered, Stage, Rest
  <1>3. CASE ~Conclude("fail") /\ gate.at = 3
    <2>1. gate' = [gate EXCEPT !.phase = "tracked", !.at = 1]
      BY <1>3, BoundedNames DEF ReadBounded
    <2>2. gate'.phase = "tracked" /\ gate'.round = 2
      BY <1>0, <2>1 DEF Shape, Gate
    <2> QED BY <1>0, <1>3, <2>2 DEF Lowered, Stage, Rest, ListingsLeft
  <1> QED BY <1>0, <1>1, <1>2, <1>3

LEMMA VerifyLowers ==
    ASSUME Shape, Verify
    PROVE  Lowered
  <1>1. CASE HashGate
    BY <1>1, ConcludeLowers DEF HashGate
  <1> QED BY <1>1, ReadEvidenceLowers, ReadSourceLowers, ListingLowers, CheckMissingLowers,
             JudgeLowers, ReadBoundedLowers DEF Verify

RestBounded ==
    /\ Stage(gate) \in 0..2 /\ Rest(gate) \in Nat
    /\ Rest(gate) <= IF gate.phase = "sources" THEN Len(gate.seen[1].items) ELSE 11
EveryStepCounts ==
    [][/\ Verify => Lowered
       /\ ~Verify => gate' = gate]_vars

(***************************************************************************)
(* load_and_validate: each step lowers stage and rest, in this order, so   *)
(* that the gate takes at most 7 steps for the evidence, one for each      *)
(* source the evidence lists, and 11 more; edits do not touch either.      *)
(***************************************************************************)
THEOREM GateRunsOut == Spec => []RestBounded /\ EveryStepCounts
  <1>1. Types => RestBounded
    BY RestIsBounded DEF RestBounded, Types
  <1>2. ASSUME Types, [Next]_vars
        PROVE  /\ Verify => Lowered
               /\ ~Verify => gate' = gate
    <2>1. Verify => Lowered
      BY <1>2, VerifyLowers DEF Types
    <2>2. ~Verify => gate' = gate
      BY <1>2 DEF Next, EditDocument, EditSource, MovePath, Becomes, vars
    <2> QED BY <2>1, <2>2
  <1>3. Types /\ [Next]_vars => [/\ Verify => Lowered
                                 /\ ~Verify => gate' = gate]_vars
    BY <1>2
  <1> QED BY <1>1, <1>3, InitialTypes, StepTypes, PTL DEF Spec, EveryStepCounts
=============================================================================
