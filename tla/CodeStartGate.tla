---------------------------- MODULE CodeStartGate ----------------------------
(***************************************************************************)
(* scripts/verify_code_start_gate.py: the offline verifier of the evidence *)
(* for the semantic code-start gate.  It reads the evidence documents and  *)
(* the source bytes, lists the production paths under src/oic, judges all  *)
(* that, and only then reads the owner's bounded record, lists the paths   *)
(* again and hashes the gate document.  The profile, the gate document and *)
(* the list of paths are read twice.  The tree may be edited meanwhile.    *)
(*                                                                         *)
(* A document stands for the answers to the questions the code asks of it; *)
(* a body stands for its digest.  Files that are read once each, one after *)
(* another, and answer one question together are one document: the texts   *)
(* beside the profile, the promoted sources, the authorized paths.  A read *)
(* that raises and an answer that is refused both end in status 1.         *)
(***************************************************************************)
EXTENDS Integers, Sequences, FiniteSets

CONSTANTS
    Files, Bodies,   \* source files and what they may contain
    Warned,          \* bodies that say they are synthetic and fictional
    Ids, Canada,     \* source ids, and that of the Canadian source
    Synthetic,       \* ids that begin with "SYN-"
    SourceCount,     \* how many sources the evidence must name: 4
    SourceSets,      \* what SOURCE-SET.json may say
    ReceiptLists,    \* what PROVENANCE.json may say
    Paths,           \* of files under src/oic
    Admitted,        \* ADMITTED_SRC_OIC_PATHS and BOUNDED_SRC_OIC_PATHS
    Caches,          \* paths of Python cache artifacts
    Trees,           \* trees a verification may start with
    MaxEdits,        \* bound on the edits of documents and source files
    MaxMoves,        \* bound on the edits of the index and of src/oic, if no others
    Absent           \* no such file, or no value

\* honest: the classification, authority, issuer and effective state are those
\* of a synthetic source, or of CA-3.
Item == [id : Ids, file : Files, body : Bodies, honest : BOOLEAN]
Receipt == [id : Ids, body : Bodies]

\* What a document may be found to say, besides that it cannot be read.
Content ==
    [sourceSet |-> SourceSets,     \* [incomplete : BOOLEAN, items : Seq(Item)]
     receipts  |-> ReceiptLists,   \* Seq(Receipt)
     profile   |-> [admitted : BOOLEAN, stale : BOOLEAN],
     active    |-> {"current", "stale"},
     veip      |-> {"bounded", "expanded"},
     gate      |-> {"historical", "worded", "other"},
     matrix    |-> {"owners", "other"},
     promoted  |-> {"exact", "changed"},
     required  |-> {"present"}]
Documents == DOMAIN Content

\* What the documents are; the tree besides.
Text ==
    [sourceSet : SourceSets \cup {Absent}, receipts : ReceiptLists \cup {Absent},
     profile : Content.profile \cup {Absent}, active : Content.active \cup {Absent},
     veip : Content.veip \cup {Absent}, gate : Content.gate \cup {Absent},
     matrix : Content.matrix \cup {Absent}, promoted : Content.promoted \cup {Absent},
     required : Content.required \cup {Absent}]
Tree ==
    [doc : Text, sources : [Files -> Bodies \cup {Absent}],
     tracked : {Absent} \cup SUBSET Paths, disk : SUBSET Paths]

ASSUME IdsAssumption ==
    Canada \in Ids /\ Synthetic \subseteq Ids \ {Canada} /\ Warned \subseteq Bodies
ASSUME SourceSetsAssumption ==
    /\ \A c \in SourceSets : c.incomplete \in BOOLEAN /\ c.items \in Seq(Item)
    /\ ReceiptLists \subseteq Seq(Receipt)
ASSUME PathsAssumption == Admitted \subseteq Paths /\ Caches \subseteq Paths \ Admitted
ASSUME BoundsAssumption == SourceCount \in Nat /\ MaxEdits \in Nat /\ MaxMoves \in Nat
ASSUME TreesAssumption == Trees \subseteq Tree
ASSUME AbsentAssumption ==
    /\ \A n \in Documents : Absent \notin Content[n]
    /\ Absent \notin Bodies \cup {"pass", "fail"} /\ \A ps \in SUBSET Paths : ps # Absent

VARIABLES
    tree,  \* the working tree
    gate,  \* the verifier's process
    watch  \* history: what happened while it ran

vars == <<tree, gate, watch>>

\* Production paths that are neither admitted nor a cache artifact.
Intruders(t) ==
    (t.disk \cup (IF t.tracked = Absent THEN {} ELSE t.tracked)) \ (Admitted \cup Caches)

\* What the tree must be, said of the tree at once.  The last record of an id
\* is the one that counts.
Effective(list) ==
    {list[k] : k \in {l \in DOMAIN list : \A m \in DOMAIN list : m > l => list[m].id # list[l].id}}

SourcesConform(t) ==
    LET items == Effective(t.doc["sourceSet"].items)
        receipts == Effective(t.doc["receipts"])
    IN  /\ Cardinality(items) = SourceCount
        /\ {i.id : i \in items} = {r.id : r \in receipts}
        /\ \E i \in items : i.id = Canada /\ i.honest
        /\ \A i \in items, r \in receipts : i.id = r.id =>
              t.sources[i.file] = i.body /\ i.body = r.body
        /\ \A i \in items : i.id \in Synthetic => i.honest /\ i.body \in Warned

Conforms(t) ==
    /\ \A n \in Documents : t.doc[n] # Absent
    /\ t.doc["sourceSet"].incomplete /\ SourcesConform(t)
    /\ \A k \in DOMAIN t.doc["sourceSet"].items :
          t.sources[t.doc["sourceSet"].items[k].file] # Absent
    /\ t.doc["profile"] = [admitted |-> TRUE, stale |-> FALSE]
    /\ t.doc["active"] = "current" /\ t.doc["veip"] = "bounded"
    /\ t.doc["matrix"] = "owners" /\ t.doc["promoted"] = "exact"
    /\ t.doc["gate"] = "historical"
    /\ t.tracked # Absent /\ Intruders(t) = {}
    /\ Admitted \subseteq t.disk

\* The documents load_and_validate reads first, and those of the bounded record
\* with the answer each must give.
Evidence == <<"sourceSet", "receipts", "profile", "veip", "gate", "profile", "active">>
Bounded == <<[name |-> "matrix", says |-> "owners"], [name |-> "promoted", says |-> "exact"],
             [name |-> "required", says |-> "present"]>>

Unseen == [k \in DOMAIN Evidence |-> Absent]

\* at: the document or item to read next.  seen, payload: what was read of the
\* evidence and of the items' files.  round: which listing of the paths.
\* offending: it has found a path too many or too few.
Init ==
    /\ tree \in Trees
    /\ gate = [phase |-> "evidence", at |-> 1, seen |-> Unseen, payload |-> <<>>,
               round |-> 1, offending |-> FALSE, verdict |-> Absent]
    /\ watch = [edits |-> 0, moves |-> 0, edited |-> {}, whole |-> Conforms(tree),
                standing |-> Intruders(tree)]

Running == gate.verdict = Absent
Conclude(verdict) ==
    gate' = [gate EXCEPT !.phase = "exited", !.verdict = verdict, !.at = 1,
                         !.seen = Unseen, !.payload = <<>>]
-----------------------------------------------------------------------------
\* A dict made from a list of records: a later record replaces an earlier one.
Keys(list) == {list[k].id : k \in DOMAIN list}
\* Regression: of two records of one id, the first one counts.
FirstIndexOf(list, id) ==
    CHOOSE k \in DOMAIN list : list[k].id = id /\ \A l \in DOMAIN list : list[l].id = id => k <= l

IndexOf(list, id) ==
    CHOOSE k \in DOMAIN list : list[k].id = id /\ \A l \in DOMAIN list : list[l].id = id => l <= k

Unlawful(paths) == paths \ (Admitted \cup Caches) # {}

ReadEvidence ==
    /\ gate.phase = "evidence"
    /\ LET content == tree.doc[Evidence[gate.at]]
           seen == [gate.seen EXCEPT ![gate.at] = content]
       IN  IF content = Absent THEN Conclude("fail")
           ELSE IF gate.at < Len(Evidence)
                THEN gate' = [gate EXCEPT !.seen = seen, !.at = @ + 1]
                ELSE gate' = [gate EXCEPT
                        !.seen = seen, !.at = 1,
                        !.phase = IF seen[1].items = <<>> THEN "tracked" ELSE "sources"]

ReadSource ==
    /\ gate.phase = "sources"
    /\ LET items == gate.seen[1].items
           body == tree.sources[items[gate.at].file]
       IN  IF body = Absent THEN Conclude("fail")
           ELSE gate' = [gate EXCEPT
                    !.payload = Append(@, body),
                    !.at = IF gate.at < Len(items) THEN @ + 1 ELSE 1,
                    !.phase = IF gate.at < Len(items) THEN @ ELSE "tracked"]

ListTracked ==
    /\ gate.phase = "tracked"
    /\ IF tree.tracked = Absent THEN Conclude("fail")
       ELSE gate' = [gate EXCEPT !.phase = "disk", !.offending = Unlawful(tree.tracked)]

ListDisk ==
    /\ gate.phase = "disk"
    /\ gate' = [gate EXCEPT !.phase = "missing", !.offending = @ \/ Unlawful(tree.disk)]

\* Regression: the second time only missing paths count.
CheckMissingOnly ==
    /\ gate.phase = "missing"
    /\ LET missing == ~(Admitted \subseteq tree.disk)
       IN  IF gate.round = 1
           THEN gate' = [gate EXCEPT !.phase = "judge", !.offending = @ \/ missing]
           ELSE IF missing THEN Conclude("fail")
           ELSE gate' = [gate EXCEPT !.phase = "hash", !.offending = FALSE]

CheckMissing ==
    /\ gate.phase = "missing"
    /\ LET offending == gate.offending \/ ~(Admitted \subseteq tree.disk)
       IN  IF gate.round = 1
           THEN gate' = [gate EXCEPT !.phase = "judge", !.offending = offending]
           ELSE IF offending THEN Conclude("fail")
           ELSE gate' = [gate EXCEPT !.phase = "hash", !.offending = FALSE]

\* Regression: the warning is looked for in the file, not in the bytes hashed.
SourceHoldsInTree(item, body, receipt) ==
    /\ body = item.body /\ body = receipt.body
    /\ item.id \in Synthetic => item.honest /\ tree.sources[item.file] \in Warned

SourceHolds(item, body, receipt) ==
    /\ body = item.body /\ body = receipt.body
    /\ item.id \in Synthetic => item.honest /\ body \in Warned

SourcesHold ==
    LET items == gate.seen[1].items  receipts == gate.seen[2]
    IN  /\ Cardinality(Keys(items)) = SourceCount /\ Keys(items) = Keys(receipts)
        /\ \A id \in Keys(items) :
              LET k == IndexOf(items, id)
              IN  SourceHolds(items[k], gate.payload[k], receipts[IndexOf(receipts, id)])
        /\ Canada \in Keys(items) /\ items[IndexOf(items, Canada)].honest

EvidenceHolds ==
    /\ gate.seen[1].incomplete /\ SourcesHold
    /\ gate.seen[3].admitted /\ gate.seen[4] = "bounded"
    /\ gate.seen[5] \in {"historical", "worded"}
    /\ ~gate.seen[6].stale /\ gate.seen[7] = "current"
    /\ ~gate.offending

Judge ==
    /\ gate.phase = "judge"
    /\ IF EvidenceHolds
       THEN gate' = [gate EXCEPT !.phase = "record", !.seen = Unseen, !.payload = <<>>,
                                 !.round = 2]
       ELSE Conclude("fail")

ReadBounded ==
    /\ gate.phase = "record"
    /\ IF tree.doc[Bounded[gate.at].name] # Bounded[gate.at].says THEN Conclude("fail")
       ELSE IF gate.at < Len(Bounded) THEN gate' = [gate EXCEPT !.at = @ + 1]
       ELSE gate' = [gate EXCEPT !.phase = "tracked", !.at = 1]

HashGate ==
    /\ gate.phase = "hash"
    /\ Conclude(IF tree.doc["gate"] = "historical" THEN "pass" ELSE "fail")

Verify ==
    /\ \/ ReadEvidence \/ ReadSource \/ ListTracked \/ ListDisk \/ CheckMissing
       \/ Judge \/ ReadBounded \/ HashGate
    /\ UNCHANGED <<tree, watch>>
-----------------------------------------------------------------------------
\* The working tree becomes t while the verifier runs.
Becomes(t, names, edits, moves) ==
    /\ Running
    /\ watch.edits + edits <= MaxEdits /\ watch.moves + moves <= MaxMoves
    /\ watch.edits + edits = 0 \/ watch.moves + moves = 0
    /\ tree' = t
    /\ watch' = [edits |-> watch.edits + edits, moves |-> watch.moves + moves,
                 edited |-> watch.edited \cup names,
                 whole |-> watch.whole \/ Conforms(t),
                 standing |-> watch.standing \cap Intruders(t)]
    /\ UNCHANGED gate

EditDocument ==
    \E n \in Documents : \E c \in (Content[n] \cup {Absent}) \ {tree.doc[n]} :
        Becomes([tree EXCEPT !.doc[n] = c], {n}, 1, 0)

EditSource ==
    \E f \in Files : \E b \in (Bodies \cup {Absent}) \ {tree.sources[f]} :
        Becomes([tree EXCEPT !.sources[f] = b], {f}, 1, 0)

Toggled(paths, p) == IF p \in paths THEN paths \ {p} ELSE paths \cup {p}

\* A path is added to the index or removed from it, or its file is.
MovePath ==
    \E p \in Paths :
        \/ /\ tree.tracked # Absent
           /\ Becomes([tree EXCEPT !.tracked = Toggled(@, p)], {}, 0, 1)
        \/ Becomes([tree EXCEPT !.disk = Toggled(@, p)], {}, 0, 1)

Next == Verify \/ EditDocument \/ EditSource \/ MovePath

Spec == Init /\ [][Next]_vars
-----------------------------------------------------------------------------
TypeOK ==
    /\ tree \in Tree
    /\ gate.phase \in {"evidence", "sources", "tracked", "disk", "missing", "judge",
                       "record", "hash", "exited"}
    /\ \A k \in DOMAIN Evidence : gate.seen[k] \in Content[Evidence[k]] \cup {Absent}
    /\ gate.payload \in Seq(Bodies) /\ gate.at \in Nat \ {0}
    /\ gate.round \in {1, 2} /\ gate.offending \in BOOLEAN
    /\ gate.verdict \in {Absent, "pass", "fail"}
    /\ watch.edits \in 0..MaxEdits /\ watch.moves \in 0..MaxMoves
    /\ watch.edited \subseteq Documents \cup Files /\ watch.whole \in BOOLEAN
    /\ watch.standing \subseteq Paths

(***************************************************************************)
(* A verification during which nothing is edited passes exactly the trees  *)
(* that conform, whichever of two records of one id comes last, and        *)
(* whatever else is wrong.                                                 *)
(***************************************************************************)
QuietVerdict ==
    gate.verdict # Absent /\ watch.edits + watch.moves = 0 =>
        (gate.verdict = "pass" <=> Conforms(tree))

\* What the verifier reads twice before it judges: the profile, as a record and
\* as text, and a file that two records name.
ReadTwice ==
    LET items == tree.doc["sourceSet"].items
    IN  {"profile"} \cup {f \in Files : \E k, l \in DOMAIN items :
                              k # l /\ items[k].file = f /\ items[l].file = f}

(***************************************************************************)
(* A pass over a tree that conformed at no moment, made possible by one    *)
(* edit, is an edit of a file that is read twice with different questions: *)
(* any other file is read once, or its second reading covers the first.    *)
(***************************************************************************)
OneEditTearsOnlyDoubleReads ==
    gate.verdict = "pass" /\ ~watch.whole /\ watch.edits + watch.moves = 1 =>
        watch.edited # {} /\ watch.edited \subseteq ReadTwice

(***************************************************************************)
(* A production path that is not admitted, and is there, in the index or   *)
(* on the disk, from the first step to the last, is found: to slip it past *)
(* both listings, behind the one that has been read and before the one     *)
(* that has not, takes six moves.                                          *)
(***************************************************************************)
StandingIntruderIsFound ==
    gate.verdict = "pass" /\ watch.standing # {} => watch.moves >= 6
=============================================================================
