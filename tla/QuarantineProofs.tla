--------------------------- MODULE QuarantineProofs ---------------------------
(***************************************************************************)
(* Proofs about the acquisition utility, for any number of invocations,    *)
(* sources, bodies and command lines.                                      *)
(***************************************************************************)
EXTENDS Quarantine, FiniteSetTheorems, TLAPS

(***************************************************************************)
(* Type correctness.  The bytes a process carries are typed because they   *)
(* are what CarriesBody says, which is why the two are proved together.    *)
(***************************************************************************)
LEMMA BecomeTypes ==
    ASSUME run \in [Invocations -> Run], NEW p \in Invocations, NEW r \in Run, Become(p, r)
    PROVE  /\ run' \in [Invocations -> Run]
           /\ run'[p] = r
           /\ \A q \in Invocations \ {p} : run'[q] = run[q]
  BY DEF Become

(* Where a process is put, and nothing else, changes. *)
LEMMA MovedRun ==
    ASSUME NEW x \in Run, NEW to \in Phase
    PROVE  LET r == [x EXCEPT !.phase = to]
           IN  /\ r \in Run /\ r.phase = to /\ r.todo = x.todo /\ r.exit = x.exit
               /\ r.command = x.command /\ r.source = x.source /\ r.body = x.body
               /\ r.header = x.header /\ r.part = x.part
  BY DEF Run

LEMMA StoppedRun ==
    ASSUME NEW x \in Run, NEW to \in Phase, NEW code \in {Absent, 0, 1, 2, 9}
    PROVE  LET r == [x EXCEPT !.phase = to, !.exit = code, !.part = FALSE]
           IN  /\ r \in Run /\ r.phase = to /\ r.todo = x.todo /\ r.exit = code
               /\ r.command = x.command /\ r.source = x.source /\ r.body = x.body
               /\ r.header = x.header /\ r.part = FALSE
  BY DEF Run

LEMMA PhaseNames ==
    /\ {"commit", "compare", "receipt", "record", "verify", "exited"} \subseteq Phase
    /\ "commit" \notin {"receipt", "exited", "record", "verify", "idle", "open", "stream"}
  BY DEF Phase

LEMMA ReceiptRun ==
    ASSUME NEW x \in Run
    PROVE  LET r == [x EXCEPT !.phase = "receipt", !.part = FALSE]
           IN  /\ r \in Run /\ r.phase = "receipt" /\ r.todo = x.todo /\ r.exit = x.exit
               /\ r.command = x.command /\ r.source = x.source /\ r.body = x.body
               /\ r.header = x.header /\ r.part = FALSE
  <1>1. "receipt" \in Phase
    BY PhaseNames
  <1> QED BY <1>1 DEF Run

LEMMA RecordRun ==
    ASSUME NEW x \in Run
    PROVE  LET r == [x EXCEPT !.phase = "record", !.part = TRUE]
           IN  /\ r \in Run /\ r.phase = "record" /\ r.todo = x.todo /\ r.exit = x.exit
               /\ r.command = x.command /\ r.source = x.source /\ r.body = x.body
               /\ r.header = x.header /\ r.part = TRUE
  <1>1. "record" \in Phase
    BY PhaseNames
  <1> QED BY <1>1 DEF Run

LEMMA KilledRun ==
    ASSUME NEW x \in Run
    PROVE  LET r == [x EXCEPT !.phase = "exited", !.exit = 9, !.part = FALSE]
           IN  r \in Run /\ r.phase = "exited" /\ r.exit = 9 /\ r.part = FALSE
  BY PhaseNames DEF Run

LEMMA FailBecomes ==
    ASSUME run \in [Invocations -> Run], NEW p \in Invocations,
           NEW code \in {1, 2}, Fail(p, code)
    PROVE  LET r == [run[p] EXCEPT !.phase = "exited", !.exit = code, !.part = FALSE]
           IN  r \in Run /\ Become(p, r)
  <1>1. run[p] \in Run /\ code \in {Absent, 0, 1, 2, 9} /\ "exited" \in Phase
    BY PhaseNames
  <1> QED BY <1>1, StoppedRun DEF Fail

LEMMA TypeInit == Init => TypeOK
  BY BodiesAssumption DEF Init, TypeOK, Run, Phase, NoCommand, Command

LEMMA StartTypes ==
    ASSUME TypeOK, NEW p \in Invocations, Start(p)
    PROVE  TypeOK'
  <1>1. PICK c \in Requests :
            Become(p, [phase |-> IF Valid(c) THEN "open" ELSE "exited",
                       starts |-> run[p].starts + 1, command |-> c,
                       todo |-> IF Valid(c) THEN c.selected ELSE {},
                       source |-> Absent, header |-> Absent, body |-> Absent,
                       part |-> FALSE, exit |-> IF Valid(c) THEN Absent ELSE 2])
    BY DEF Start
  <1>2. c \in Command /\ (Valid(c) => c.selected \subseteq Sources)
    BY RequestsAssumption DEF Valid
  <1>3. run[p].starts + 1 \in 0..MaxStarts
    BY BodiesAssumption DEF Start, TypeOK, Run
  <1>4. run' \in [Invocations -> Run]
    <2>1. [phase |-> IF Valid(c) THEN "open" ELSE "exited",
           starts |-> run[p].starts + 1, command |-> c,
           todo |-> IF Valid(c) THEN c.selected ELSE {},
           source |-> Absent, header |-> Absent, body |-> Absent,
           part |-> FALSE, exit |-> IF Valid(c) THEN Absent ELSE 2] \in Run
      BY <1>2, <1>3 DEF Run, Phase
    <2>2. QED
      BY <1>1, <2>1, BecomeTypes DEF TypeOK
  <1>5. QED
    BY <1>4 DEF TypeOK, Start, files, world

(***************************************************************************)
(* A step that touches no committed file preserves IInv when the state the *)
(* process moves to satisfies the part of IInv that speaks of it.          *)
(***************************************************************************)
HoldsPart(r) == r.part => r.phase \in {"stream", "verify", "compare", "commit", "record"}

LEMMA LocalStep ==
    ASSUME IInv, NEW p \in Invocations, NEW r \in Run, Become(p, r), UNCHANGED files,
           remote' \in [Sources -> Published], orphans' \in Nat,
           CarriesBody(r), HasCommitted(r), HoldsPart(r)
    PROVE  IInv'
  <1>1. /\ run' \in [Invocations -> Run]
        /\ run'[p] = r
        /\ \A q \in Invocations \ {p} : run'[q] = run[q]
    BY BecomeTypes DEF IInv, TypeOK
  <1>2. TypeOK'
    BY <1>1 DEF IInv, TypeOK, files
  <1>3. (ReceiptBacked /\ MismatchMeansRace /\ AgreeingLengthsMeanComplete)'
    BY DEF IInv, ReceiptBacked, MismatchMeansRace, AgreeingLengthsMeanComplete, Acquired, files
  <1>4. NoPartLeaks'
    BY <1>1 DEF IInv, NoPartLeaks, HoldsPart
  <1>5. ASSUME NEW q \in Invocations
        PROVE  CarriesBody(run'[q]) /\ HasCommitted(run[q])'
    <2>1. CASE q = p
      BY <1>1, <2>1 DEF HasCommitted, files
    <2>2. CASE q # p
      BY <1>1, <2>2 DEF IInv, HasCommitted, files
    <2>3. QED
      BY <2>1, <2>2
  <1>6. QED
    BY <1>2, <1>3, <1>4, <1>5 DEF IInv, CarriesBody

LEMMA FailPreserves ==
    ASSUME IInv, NEW p \in Invocations, NEW code \in {1, 2}, Fail(p, code),
           UNCHANGED <<files, world>>
    PROVE  IInv'
  <1> DEFINE r == [run[p] EXCEPT !.phase = "exited", !.exit = code, !.part = FALSE]
  <1>1. r \in Run /\ Become(p, r)
    BY FailBecomes DEF IInv, TypeOK
  <1>2. r.phase = "exited" /\ r.part = FALSE
    BY DEF IInv, TypeOK, Run
  <1>3. CarriesBody(r) /\ HasCommitted(r) /\ HoldsPart(r)
    BY <1>2 DEF CarriesBody, HasCommitted, HoldsPart
  <1>4. remote' \in [Sources -> Published] /\ orphans' \in Nat
    BY DEF IInv, TypeOK, world
  <1>5. QED
    BY <1>1, <1>3, <1>4, LocalStep

LEMMA StartPreserves ==
    ASSUME IInv, NEW p \in Invocations, Start(p)
    PROVE  IInv'
  <1>1. PICK c \in Requests :
            Become(p, [phase |-> IF Valid(c) THEN "open" ELSE "exited",
                       starts |-> run[p].starts + 1, command |-> c,
                       todo |-> IF Valid(c) THEN c.selected ELSE {},
                       source |-> Absent, header |-> Absent, body |-> Absent,
                       part |-> FALSE, exit |-> IF Valid(c) THEN Absent ELSE 2])
    BY DEF Start
  <1> DEFINE r == [phase |-> IF Valid(c) THEN "open" ELSE "exited",
                   starts |-> run[p].starts + 1, command |-> c,
                   todo |-> IF Valid(c) THEN c.selected ELSE {},
                   source |-> Absent, header |-> Absent, body |-> Absent,
                   part |-> FALSE, exit |-> IF Valid(c) THEN Absent ELSE 2]
  <1>2. r \in Run
    <2>1. run' \in [Invocations -> Run]
      BY StartTypes DEF IInv, TypeOK
    <2>2. run'[p] = r
      BY <1>1 DEF Become, IInv, TypeOK
    <2>3. QED
      BY <2>1, <2>2
  <1>3. CarriesBody(r) /\ HasCommitted(r) /\ HoldsPart(r)
    BY DEF CarriesBody, HasCommitted, HoldsPart
  <1>4. UNCHANGED files /\ remote' \in [Sources -> Published] /\ orphans' \in Nat
    BY DEF IInv, TypeOK, world, Start
  <1>5. QED
    BY <1>1, <1>2, <1>3, <1>4, LocalStep

LEMMA OpenPreserves ==
    ASSUME IInv, NEW p \in Invocations, Open(p)
    PROVE  IInv'
  <1>1. CASE Fail(p, 2)
    BY <1>1, FailPreserves DEF Open
  <1>2. CASE ~Fail(p, 2)
    <2>0. PICK s \in run[p].todo : \E header \in {Absent, Size[remote[s]]} :
             Become(p, [run[p] EXCEPT
                !.phase = IF run[p].command.download THEN "stream" ELSE "receipt",
                !.source = s, !.header = header,
                !.body = IF run[p].command.download THEN remote[s] ELSE Absent,
                !.part = run[p].command.download])
      BY <1>2 DEF Open
    <2>1. PICK header \in {Absent, Size[remote[s]]} :
             Become(p, [run[p] EXCEPT
                !.phase = IF run[p].command.download THEN "stream" ELSE "receipt",
                !.source = s, !.header = header,
                !.body = IF run[p].command.download THEN remote[s] ELSE Absent,
                !.part = run[p].command.download])
      BY <2>0
    <2> DEFINE r == [run[p] EXCEPT
                !.phase = IF run[p].command.download THEN "stream" ELSE "receipt",
                !.source = s, !.header = header,
                !.body = IF run[p].command.download THEN remote[s] ELSE Absent,
                !.part = run[p].command.download]
    <2>2. run[p] \in Run /\ s \in Sources /\ run[p].command.download \in BOOLEAN
      BY DEF IInv, TypeOK, Run, Command
    <2>3. remote[s] \in Published /\ Size[remote[s]] \in Nat /\ remote[s] # Absent
      BY <2>2, BodiesAssumption DEF IInv, TypeOK
    <2>4. /\ r.phase = IF run[p].command.download THEN "stream" ELSE "receipt"
          /\ r.source = s /\ r.header = header /\ r.todo = run[p].todo
          /\ r.body = IF run[p].command.download THEN remote[s] ELSE Absent
          /\ r.part = run[p].command.download /\ r.command = run[p].command
      BY <2>2 DEF Run
    <2>5. r \in Run
      BY <2>2, <2>3, BodiesAssumption DEF Run, Phase
    <2>6. CarriesBody(r) /\ HasCommitted(r) /\ HoldsPart(r)
      BY <2>2, <2>3, <2>4, BodiesAssumption DEF CarriesBody, HasCommitted, HoldsPart
    <2>7. UNCHANGED files /\ remote' \in [Sources -> Published] /\ orphans' \in Nat
      BY DEF IInv, TypeOK, world, Open
    <2>8. QED
      BY <2>1, <2>5, <2>6, <2>7, LocalStep
  <1>3. QED
    BY <1>1, <1>2

LEMMA StreamPreserves ==
    ASSUME IInv, NEW p \in Invocations, Stream(p)
    PROVE  IInv'
  <1>1. CASE \E code \in {1, 2} : Fail(p, code)
    BY <1>1, FailPreserves DEF Stream
  <1>2. CASE ~\E code \in {1, 2} : Fail(p, code)
    <2>1. PICK received \in {run[p].body} \cup CutShort[run[p].body] :
             Become(p, [run[p] EXCEPT !.phase = "verify", !.body = received])
      BY <1>2 DEF Stream
    <2> DEFINE r == [run[p] EXCEPT !.phase = "verify", !.body = received]
    <2>2. run[p] \in Run /\ CarriesBody(run[p]) /\ run[p].phase = "stream"
      BY DEF IInv, TypeOK, Stream
    <2>3. /\ run[p].command.download /\ run[p].source \in run[p].todo
          /\ run[p].body \in Published /\ run[p].header \in {Absent, Size[run[p].body]}
      BY <2>2 DEF CarriesBody
    <2>4. received \in Bodies /\ Size[received] \in Nat
      BY <2>3, BodiesAssumption
    <2>5. run[p].header = Size[received] => received \in Published
      BY <2>3, <2>4, BodiesAssumption, CutShortAssumption
    <2>6. /\ r.phase = "verify" /\ r.body = received /\ r.source = run[p].source
          /\ r.todo = run[p].todo /\ r.command = run[p].command /\ r.header = run[p].header
      BY <2>2 DEF Run
    <2>7. r \in Run
      BY <2>2, <2>4 DEF Run, Phase
    <2>8. CarriesBody(r) /\ HasCommitted(r) /\ HoldsPart(r)
      BY <2>3, <2>4, <2>5, <2>6 DEF CarriesBody, HasCommitted, HoldsPart
    <2>9. UNCHANGED files /\ remote' \in [Sources -> Published] /\ orphans' \in Nat
      BY DEF IInv, TypeOK, world, Stream
    <2>10. QED
      BY <2>1, <2>7, <2>8, <2>9, LocalStep
  <1>3. QED
    BY <1>1, <1>2

LEMMA VerifyPreserves ==
    ASSUME IInv, NEW p \in Invocations, Verify(p)
    PROVE  IInv'
  <1>1. CASE Fail(p, 2)
    BY <1>1, FailPreserves DEF Verify
  <1>2. CASE ~Fail(p, 2)
    <2> DEFINE to == IF quarantine[run[p].source] = Absent THEN "commit" ELSE "compare"
               r == [run[p] EXCEPT !.phase = to]
    <2>1. Become(p, r)
      BY <1>2 DEF Verify, Advance
    <2>2. run[p] \in Run /\ CarriesBody(run[p]) /\ run[p].phase = "verify"
      BY DEF IInv, TypeOK, Verify
    <2>3. /\ r.phase \in {"commit", "compare"} /\ r.body = run[p].body
          /\ r.source = run[p].source /\ r.todo = run[p].todo
          /\ r.command = run[p].command /\ r.header = run[p].header
      BY <2>2 DEF Run
    <2>4. r \in Run
      BY <2>2 DEF Run, Phase
    <2>5. CarriesBody(r) /\ HasCommitted(r) /\ HoldsPart(r)
      BY <2>2, <2>3 DEF CarriesBody, HasCommitted, HoldsPart
    <2>6. UNCHANGED files /\ remote' \in [Sources -> Published] /\ orphans' \in Nat
      BY DEF IInv, TypeOK, world, Verify
    <2>7. QED
      BY <2>1, <2>4, <2>5, <2>6, LocalStep
  <1>3. QED
    BY <1>1, <1>2

LEMMA ComparePreserves ==
    ASSUME IInv, NEW p \in Invocations, Compare(p)
    PROVE  IInv'
  <1>1. CASE Fail(p, 2)
    BY <1>1, FailPreserves DEF Compare
  <1>2. CASE ~Fail(p, 2)
    <2> DEFINE r == [run[p] EXCEPT !.phase = "receipt", !.part = FALSE]
    <2>1. Become(p, r) /\ quarantine[run[p].source] = run[p].body
      BY <1>2 DEF Compare
    <2>2. run[p] \in Run /\ CarriesBody(run[p]) /\ run[p].phase = "compare"
      BY DEF IInv, TypeOK, Compare
    <2>3. /\ r.phase = "receipt" /\ r.body = run[p].body /\ r.part = FALSE
          /\ r.source = run[p].source /\ r.todo = run[p].todo
          /\ r.command = run[p].command /\ r.header = run[p].header
      BY <2>2 DEF Run
    <2>4. r \in Run
      BY <2>2 DEF Run, Phase
    <2>5. CarriesBody(r) /\ HasCommitted(r) /\ HoldsPart(r)
      BY <2>1, <2>2, <2>3, BodiesAssumption DEF CarriesBody, HasCommitted, HoldsPart
    <2>6. UNCHANGED files /\ remote' \in [Sources -> Published] /\ orphans' \in Nat
      BY DEF IInv, TypeOK, world, Compare
    <2>7. QED
      BY <2>1, <2>4, <2>5, <2>6, LocalStep
  <1>3. QED
    BY <1>1, <1>2

LEMMA WriteReceiptPreserves ==
    ASSUME IInv, NEW p \in Invocations, WriteReceipt(p)
    PROVE  IInv'
  <1>1. CASE Fail(p, 2)
    BY <1>1, FailPreserves DEF WriteReceipt
  <1>2. CASE ~Fail(p, 2)
    <2> DEFINE r == [run[p] EXCEPT !.phase = "record", !.part = TRUE]
    <2>1. Become(p, r)
      BY <1>2 DEF WriteReceipt
    <2>2. /\ run[p] \in Run /\ CarriesBody(run[p]) /\ HasCommitted(run[p])
          /\ run[p].phase = "receipt"
      BY DEF IInv, TypeOK, WriteReceipt
    <2>3. /\ r.phase = "record" /\ r.body = run[p].body
          /\ r.source = run[p].source /\ r.todo = run[p].todo
          /\ r.command = run[p].command /\ r.header = run[p].header
      BY <2>2 DEF Run
    <2>4. r \in Run
      BY <2>2 DEF Run, Phase
    <2>5. CarriesBody(r) /\ HasCommitted(r) /\ HoldsPart(r)
      BY <2>2, <2>3 DEF CarriesBody, HasCommitted, HoldsPart
    <2>6. UNCHANGED files /\ remote' \in [Sources -> Published] /\ orphans' \in Nat
      BY DEF IInv, TypeOK, world, WriteReceipt
    <2>7. QED
      BY <2>1, <2>4, <2>5, <2>6, LocalStep
  <1>3. QED
    BY <1>1, <1>2

LEMMA KillPreserves ==
    ASSUME IInv, NEW p \in Invocations, Kill(p)
    PROVE  IInv'
  <1> DEFINE r == [run[p] EXCEPT !.phase = "exited", !.exit = 9, !.part = FALSE]
  <1>1. r \in Run /\ r.phase = "exited" /\ r.part = FALSE
    <2>1. run[p] \in Run
      BY DEF IInv, TypeOK
    <2> QED BY <2>1, KilledRun
  <1>2. CarriesBody(r) /\ HasCommitted(r) /\ HoldsPart(r)
    BY <1>1 DEF CarriesBody, HasCommitted, HoldsPart
  <1>3. Become(p, r) /\ UNCHANGED files /\ remote' \in [Sources -> Published] /\ orphans' \in Nat
    BY DEF IInv, TypeOK, Kill
  <1>4. QED
    BY <1>1, <1>2, <1>3, LocalStep

(***************************************************************************)
(* The two steps that change committed files.  A replaced artifact either  *)
(* was absent, so that nobody had committed for it and no receipt said so, *)
(* or is the same, or makes its source a raced one.                        *)
(***************************************************************************)
LEMMA ReplacePreserves ==
    ASSUME IInv, NEW p \in Invocations, run[p].phase = "commit", Replace(p),
           UNCHANGED <<receipts, world>>
    PROVE  IInv'
  <1> DEFINE s == run[p].source
             r == [run[p] EXCEPT !.phase = "receipt", !.part = FALSE]
  <1>1. /\ run[p] \in Run /\ CarriesBody(run[p])
        /\ run[p].body \in Bodies /\ run[p].body # Absent /\ s \in Sources
        /\ run[p].command.download /\ s \in run[p].todo
    BY BodiesAssumption DEF IInv, TypeOK, CarriesBody, Run
  <1>2. /\ r.phase = "receipt" /\ r.body = run[p].body /\ r.part = FALSE
        /\ r.source = s /\ r.todo = run[p].todo
        /\ r.command = run[p].command /\ r.header = run[p].header
    BY <1>1 DEF Run
  <1>3. r \in Run
    BY <1>1 DEF Run, Phase
  <1>4. /\ run' \in [Invocations -> Run]
        /\ run'[p] = r
        /\ \A q \in Invocations \ {p} : run'[q] = run[q]
    BY <1>3, BecomeTypes DEF IInv, TypeOK, Replace
  <1>5. /\ quarantine' \in [Sources -> Bodies \cup {Absent}]
        /\ quarantine'[s] = run[p].body
        /\ \A t \in Sources \ {s} : quarantine'[t] = quarantine[t]
    BY <1>1 DEF IInv, TypeOK, Replace
  <1>6. /\ raced \subseteq raced' /\ raced' \subseteq Sources
        /\ s \notin raced' => quarantine[s] \in {Absent, run[p].body}
    BY <1>1 DEF IInv, TypeOK, Replace
  <1>7. TypeOK'
    BY <1>4, <1>5, <1>6 DEF IInv, TypeOK, world
  <1>8. ReceiptBacked'
    BY <1>1, <1>5 DEF IInv, ReceiptBacked
  <1>9. MismatchMeansRace'
    <2> SUFFICES ASSUME NEW t \in Sources, Acquired(t), t \notin raced'
                 PROVE  receipts[t].sha256 = quarantine'[t]
      BY DEF MismatchMeansRace, Acquired
    <2>1. receipts[t].sha256 = quarantine[t] /\ quarantine[t] # Absent
      BY <1>6 DEF IInv, MismatchMeansRace, ReceiptBacked, Acquired
    <2>2. QED
      BY <1>5, <1>6, <2>1
  <1>10. AgreeingLengthsMeanComplete'
    BY DEF IInv, AgreeingLengthsMeanComplete, Acquired
  <1>11. NoPartLeaks'
    BY <1>2, <1>4 DEF IInv, NoPartLeaks
  <1>12. ASSUME NEW q \in Invocations
         PROVE  CarriesBody(run'[q]) /\ HasCommitted(run[q])'
    <2>1. CASE q = p
      <3>1. CarriesBody(r)
        BY <1>1, <1>2 DEF CarriesBody, IInv
      <3>2. HasCommitted(run[p])'
        BY <1>1, <1>2, <1>4, <1>5 DEF HasCommitted
      <3>3. QED
        BY <1>4, <2>1, <3>1, <3>2
    <2>2. CASE q # p
      <3>1. CarriesBody(run[q]) /\ HasCommitted(run[q]) /\ run[q] \in Run
        BY DEF IInv, TypeOK
      <3>2. ASSUME run[q].phase \in {"receipt", "record"}, run[q].command.download
            PROVE  /\ quarantine'[run[q].source] # Absent
                   /\ run[q].source \notin raced' => quarantine'[run[q].source] = run[q].body
        <4>1. run[q].source \in Sources
          BY <3>1, <3>2 DEF CarriesBody, Run
        <4>2. /\ quarantine[run[q].source] # Absent
              /\ run[q].source \notin raced => quarantine[run[q].source] = run[q].body
          BY <3>1, <3>2 DEF HasCommitted
        <4>3. QED
          BY <1>1, <1>5, <1>6, <4>1, <4>2
      <3>3. QED
        BY <1>4, <2>2, <3>1, <3>2 DEF HasCommitted
    <2>3. QED
      BY <2>1, <2>2
  <1>13. QED
    BY <1>7, <1>8, <1>9, <1>10, <1>11, <1>12 DEF IInv, CarriesBody

LEMMA ReplaceReceiptPreserves ==
    ASSUME IInv, NEW p \in Invocations, ReplaceReceipt(p)
    PROVE  IInv'
  <1>1. CASE Fail(p, 2) /\ UNCHANGED receipts
    BY <1>1, FailPreserves DEF ReplaceReceipt, files, world
  <1>2. CASE ~(Fail(p, 2) /\ UNCHANGED receipts)
    <2> DEFINE s == run[p].source
               left == run[p].todo \ {s}
               r == [run[p] EXCEPT !.phase = IF left = {} THEN "exited" ELSE "open",
                                   !.exit = IF left = {} THEN 0 ELSE Absent,
                                   !.todo = left, !.part = FALSE]
               new == MakeReceipt(run[p])
    <2>1. /\ receipts' = [receipts EXCEPT ![s] = new] /\ Become(p, r)
          /\ UNCHANGED <<quarantine, raced, world>>
      BY <1>2 DEF ReplaceReceipt
    <2>2. /\ run[p] \in Run /\ CarriesBody(run[p]) /\ HasCommitted(run[p])
          /\ run[p].phase = "record" /\ s \in Sources /\ run[p].command.download \in BOOLEAN
      BY DEF IInv, TypeOK, CarriesBody, Run, Command, ReplaceReceipt
    <2>3. r \in Run /\ r.phase \in {"open", "exited"} /\ r.part = FALSE
      BY <2>2 DEF Run, Phase
    <2>4. /\ run' \in [Invocations -> Run]
          /\ run'[p] = r
          /\ \A q \in Invocations \ {p} : run'[q] = run[q]
      BY <2>1, <2>3, BecomeTypes DEF IInv, TypeOK
    <2>5. /\ new \in Receipt
          /\ new # Absent => /\ new.downloaded => quarantine[s] # Absent
                             /\ new.downloaded <=> new.sha256 # Absent
                             /\ new.downloaded <=> new.actual_byte_length # Absent
      BY <2>2, BodiesAssumption DEF MakeReceipt, Receipt, CarriesBody, HasCommitted, Run
    <2>6. new.downloaded /\ s \notin raced => new.sha256 = quarantine[s]
      BY <2>2 DEF MakeReceipt, HasCommitted
    <2>7. new.downloaded /\ new.actual_byte_length = new.content_length_header =>
             new.sha256 \in Published
      BY <2>2, BodiesAssumption DEF MakeReceipt, CarriesBody, Run
    <2>8. /\ receipts' \in [Sources -> Receipt \cup {Absent}]
          /\ receipts'[s] = new
          /\ \A t \in Sources \ {s} : receipts'[t] = receipts[t]
      BY <2>1, <2>2, <2>5 DEF IInv, TypeOK
    <2>9. TypeOK'
      BY <2>1, <2>4, <2>8 DEF IInv, TypeOK, world
    <2>10. ReceiptBacked'
      BY <2>1, <2>5, <2>8 DEF IInv, ReceiptBacked
    <2>11. MismatchMeansRace'
      BY <2>1, <2>6, <2>8 DEF IInv, MismatchMeansRace, Acquired
    <2>12. AgreeingLengthsMeanComplete'
      BY <2>7, <2>8 DEF IInv, AgreeingLengthsMeanComplete, Acquired
    <2>13. NoPartLeaks'
      BY <2>3, <2>4 DEF IInv, NoPartLeaks
    <2>14. ASSUME NEW q \in Invocations
           PROVE  CarriesBody(run'[q]) /\ HasCommitted(run[q])'
      <3>1. CASE q = p
        BY <2>3, <2>4, <3>1 DEF CarriesBody, HasCommitted
      <3>2. CASE q # p
        <4>1. CarriesBody(run[q]) /\ HasCommitted(run[q]) /\ run'[q] = run[q]
          BY <2>4, <3>2 DEF IInv
        <4>2. QED
          BY <2>1, <4>1 DEF HasCommitted
      <3>3. QED
        BY <3>1, <3>2
    <2>15. QED
      BY <2>9, <2>10, <2>11, <2>12, <2>13, <2>14 DEF IInv, CarriesBody
  <1>3. QED
    BY <1>1, <1>2

LEMMA PublishPreserves ==
    ASSUME IInv, NEW s \in Sources, Publish(s)
    PROVE  IInv'
  <1>1. remote' \in [Sources -> Published] /\ orphans' \in Nat
    BY DEF IInv, TypeOK, Publish
  <1>2. QED
    BY <1>1 DEF IInv, TypeOK, ReceiptBacked, MismatchMeansRace, NoPartLeaks, Acquired,
                AgreeingLengthsMeanComplete, CarriesBody, HasCommitted, Publish, files

LEMMA InvariantInit == Init => IInv
  BY TypeInit DEF Init, IInv, ReceiptBacked, MismatchMeansRace, NoPartLeaks, Acquired,
                  AgreeingLengthsMeanComplete, CarriesBody, HasCommitted

LEMMA InvariantNext == IInv /\ [Next]_vars => IInv'
  <1> SUFFICES ASSUME IInv, [Next]_vars PROVE IInv'
    OBVIOUS
  <1>1. ASSUME NEW p \in Invocations, Commit(p) PROVE IInv'
    <2>1. CASE Fail(p, 2) /\ UNCHANGED files
      BY <1>1, <2>1, FailPreserves DEF Commit
    <2>2. CASE Replace(p) /\ UNCHANGED receipts
      BY <1>1, <2>2, ReplacePreserves DEF Commit
    <2>3. QED
      BY <1>1, <2>1, <2>2 DEF Commit
  <1>2. ASSUME NEW p \in Invocations, Step(p) PROVE IInv'
    BY <1>1, <1>2, OpenPreserves, StreamPreserves, VerifyPreserves, ComparePreserves,
       WriteReceiptPreserves, ReplaceReceiptPreserves DEF Step
  <1>3. CASE UNCHANGED vars
    BY <1>3 DEF IInv, TypeOK, ReceiptBacked, MismatchMeansRace, NoPartLeaks, Acquired,
                AgreeingLengthsMeanComplete, CarriesBody, HasCommitted, vars
  <1>4. QED
    BY <1>2, <1>3, PublishPreserves, StartPreserves, KillPreserves DEF Next

(***************************************************************************)
(* acquire_canada_preflight.py keeps its state well formed, whatever       *)
(* overlaps, fails or is killed.                                           *)
(***************************************************************************)
THEOREM QuarantineTypes == Spec => []TypeOK
  <1>1. IInv => TypeOK
    BY DEF IInv
  <1>2. QED
    BY <1>1, InvariantInit, InvariantNext, PTL DEF Spec

(***************************************************************************)
(* A receipt that says downloaded always has an artifact beside it         *)
(* (acquire_one writes it after stream_to_quarantine has committed one).   *)
(***************************************************************************)
THEOREM ReceiptsAreBacked == Spec => []ReceiptBacked
  <1>1. IInv => ReceiptBacked
    BY DEF IInv
  <1>2. QED
    BY <1>1, InvariantInit, InvariantNext, PTL DEF Spec

(***************************************************************************)
(* No .part file outlives an invocation that was not killed: wherever the  *)
(* code raises, a finally clause of stream_to_quarantine or of             *)
(* atomic_write_bytes has unlinked it.                                     *)
(***************************************************************************)
THEOREM NoPartIsLeft == Spec => []NoPartLeaks
  <1>1. IInv => NoPartLeaks
    BY DEF IInv
  <1>2. QED
    BY <1>1, InvariantInit, InvariantNext, PTL DEF Spec

(***************************************************************************)
(* A receipt and an artifact disagree only after two overlapping           *)
(* invocations both found the artifact absent in stream_to_quarantine.     *)
(***************************************************************************)
THEOREM OnlyRacesMismatch == Spec => []MismatchMeansRace
  <1>1. IInv => MismatchMeansRace
    BY DEF IInv
  <1>2. QED
    BY <1>1, InvariantInit, InvariantNext, PTL DEF Spec

(***************************************************************************)
(* A receipt whose declared and actual lengths agree is not the receipt of *)
(* a transfer that stream_to_quarantine saw the early end of.              *)
(***************************************************************************)
THEOREM LengthsTellCutShort == Spec => []AgreeingLengthsMeanComplete
  <1>1. IInv => AgreeingLengthsMeanComplete
    BY DEF IInv
  <1>2. QED
    BY <1>1, InvariantInit, InvariantNext, PTL DEF Spec

(***************************************************************************)
(* An invocation that runs alone never replaces an artifact: what it found *)
(* absent it finds absent when it commits.                                 *)
(***************************************************************************)
Alone == \E p : Invocations = {p}

LEMMA FailedHasExited ==
    ASSUME run \in [Invocations -> Run], NEW p \in Invocations, NEW code, Fail(p, code)
    PROVE  run'[p].phase = "exited" /\ run'[p].phase # "commit"
  <1>1. run'[p] = [run[p] EXCEPT !.phase = "exited", !.exit = code, !.part = FALSE]
    BY DEF Fail, Become
  <1>2. run[p] \in Run
    OBVIOUS
  <1>3. [run[p] EXCEPT !.phase = "exited", !.exit = code, !.part = FALSE].phase = "exited"
    BY <1>2 DEF Run
  <1> QED BY <1>1, <1>3

LEMMA FoundAbsentNext ==
    ASSUME Alone, IInv, FoundAbsent, [Next]_vars
    PROVE  FoundAbsent' /\ [\A s \in Sources : quarantine[s] # Absent =>
                                quarantine'[s] = quarantine[s]]_vars
  <1>1. PICK p : Invocations = {p}
    BY DEF Alone
  <1> USE <1>1
  <1>2. run \in [Invocations -> Run] /\ quarantine \in [Sources -> Bodies \cup {Absent}]
    BY DEF IInv, TypeOK
  <1>3. CASE Commit(p)
    <2>1. run[p].phase = "commit" /\ quarantine[run[p].source] = Absent
      BY <1>3 DEF Commit, FoundAbsent
    <2>2. run'[p].phase # "commit"
      <3>1. run[p] \in Run /\ "receipt" \in Phase /\ "receipt" # "commit"
        BY <1>2, PhaseNames
      <3>2. CASE Fail(p, 2)
        BY <1>2, <3>2, FailedHasExited
      <3>3. CASE Replace(p)
        <4>1. run'[p] = [run[p] EXCEPT !.phase = "receipt", !.part = FALSE]
          BY <1>2, <3>3 DEF Replace, Become
        <4> QED BY <3>1, <4>1, ReceiptRun
      <3> QED BY <1>3, <3>2, <3>3 DEF Commit
    <2>3. \A s \in Sources : quarantine[s] # Absent => quarantine'[s] = quarantine[s]
      BY <1>2, <1>3, <2>1 DEF Commit, Replace, files
    <2>4. QED
      BY <2>2, <2>3 DEF FoundAbsent
  <1>4. CASE Verify(p)
    <2>1. UNCHANGED quarantine
      BY <1>4 DEF Verify, files
    <2>2. CASE Fail(p, 2)
      <3>1. run'[p].phase # "commit"
        BY <1>2, <2>2, FailedHasExited
      <3> QED BY <2>1, <3>1 DEF FoundAbsent
    <2>3. CASE ~Fail(p, 2)
      <3> DEFINE to == IF quarantine[run[p].source] = Absent THEN "commit" ELSE "compare"
      <3>1. run'[p] = [run[p] EXCEPT !.phase = to]
        BY <1>2, <1>4, <2>3 DEF Verify, Advance, Become
      <3>2. run'[p].phase = to /\ run'[p].source = run[p].source
        <4>1. run[p] \in Run /\ to \in Phase
          BY <1>2, PhaseNames
        <4> QED BY <3>1, <4>1, MovedRun
      <3> QED BY <2>1, <3>2 DEF FoundAbsent
    <2> QED BY <2>2, <2>3
  <1>5. CASE ~Commit(p) /\ ~Verify(p)
    <2>1. UNCHANGED quarantine
      BY <1>5 DEF Next, Step, Publish, Start, Open, Stream, Compare, WriteReceipt,
                  ReplaceReceipt, Kill, files, vars
    <2>2. run'[p].phase = "commit" => run' = run
      <3>1. CASE Start(p)
        BY <1>2, <3>1 DEF Start, Become
      <3>2. CASE Open(p) /\ ~Fail(p, 2)
        <4>1. PICK s, header :
                 Become(p, [run[p] EXCEPT
                    !.phase = IF run[p].command.download THEN "stream" ELSE "receipt",
                    !.source = s, !.header = header,
                    !.body = IF run[p].command.download THEN remote[s] ELSE Absent,
                    !.part = run[p].command.download])
          BY <3>2 DEF Open
        <4>2. QED
          BY <1>2, <4>1 DEF Become, Run
      <3>3. CASE \E code \in {1, 2, 9} : Fail(p, code)
        BY <1>2, <3>3, FailedHasExited
      <3>4. CASE (Stream(p) \/ Compare(p) \/ WriteReceipt(p)) /\ ~\E code \in {1, 2, 9} : Fail(p, code)
        <4>1. \/ \E received : run'[p] = [run[p] EXCEPT !.phase = "verify", !.body = received]
              \/ run'[p] = [run[p] EXCEPT !.phase = "receipt", !.part = FALSE]
              \/ run'[p] = [run[p] EXCEPT !.phase = "record", !.part = TRUE]
          BY <1>2, <3>4 DEF Stream, Compare, WriteReceipt, Become
        <4>2. run[p] \in Run
          BY <1>2
        <4>3. run'[p].phase \in {"verify", "receipt", "record"}
          <5>1. ASSUME NEW received
                PROVE  [run[p] EXCEPT !.phase = "verify", !.body = received].phase = "verify"
            BY <4>2 DEF Run
          <5>2. [run[p] EXCEPT !.phase = "receipt", !.part = FALSE].phase = "receipt"
            BY <4>2 DEF Run
          <5>3. [run[p] EXCEPT !.phase = "record", !.part = TRUE].phase = "record"
            BY <4>2 DEF Run
          <5>4. CASE \E received : run'[p] = [run[p] EXCEPT !.phase = "verify", !.body = received]
            BY <5>1, <5>4
          <5>5. CASE run'[p] = [run[p] EXCEPT !.phase = "receipt", !.part = FALSE]
            BY <5>2, <5>5
          <5>6. CASE run'[p] = [run[p] EXCEPT !.phase = "record", !.part = TRUE]
            BY <5>3, <5>6
          <5> QED BY <4>1, <5>4, <5>5, <5>6
        <4> QED BY <4>3, PhaseNames
      <3>5. CASE ReplaceReceipt(p) /\ ~Fail(p, 2)
        <4> DEFINE left == run[p].todo \ {run[p].source}
        <4>1. Become(p, [run[p] EXCEPT !.phase = IF left = {} THEN "exited" ELSE "open",
                                       !.exit = IF left = {} THEN 0 ELSE Absent,
                                       !.todo = left, !.part = FALSE])
          BY <3>5 DEF ReplaceReceipt
        <4>2. QED
          BY <1>2, <4>1 DEF Become, Run
      <3>6. CASE (\E s \in Sources : Publish(s)) \/ UNCHANGED vars
        BY <3>6 DEF Publish, vars
      <3>7. QED
        <4>1. Kill(p) => Fail(p, 9)
          BY DEF Kill, Fail
        <4>2. QED
          BY <1>5, <3>1, <3>2, <3>3, <3>4, <3>5, <3>6, <4>1 DEF Next, Step
    <2>3. QED
      BY <2>1, <2>2 DEF FoundAbsent
  <1>6. QED
    BY <1>3, <1>4, <1>5

(***************************************************************************)
(* "existing quarantine artifact differs; overwrite prohibited", for an    *)
(* invocation that runs alone.  Two that overlap can break it.             *)
(***************************************************************************)
THEOREM AloneNeverOverwrites == Alone /\ Spec => OverwriteProhibited
  <1> SUFFICES ASSUME Alone PROVE Spec => OverwriteProhibited
    OBVIOUS
  <1>1. Init => FoundAbsent
    BY DEF Init, FoundAbsent
  <1>2. IInv /\ FoundAbsent /\ [Next]_vars =>
           FoundAbsent' /\ [\A s \in Sources : quarantine[s] # Absent =>
                                quarantine'[s] = quarantine[s]]_vars
    BY FoundAbsentNext
  <1>3. QED
    BY <1>1, <1>2, InvariantInit, InvariantNext, PTL DEF Spec, OverwriteProhibited

(***************************************************************************)
(* What an invocation that runs alone has done and is doing: the selected  *)
(* sources that are not left to do are finished, and the bytes it goes on  *)
(* with are the expected ones, and once committed those of the artifact.   *)
(***************************************************************************)
Finished(r, s) ==
    /\ receipts[s] # Absent
    /\ receipts[s].downloaded = r.command.download
    /\ r.command.download =>
         quarantine[s] = receipts[s].sha256 /\ r.command.expected[s] \in {Absent, quarantine[s]}

OnCourse(r) ==
    /\ r.phase \notin {"idle", "exited"} => r.exit = Absent
    /\ r.exit = 0 => r.todo = {}
    /\ r.exit \in {Absent, 0} =>
         /\ r.command.selected \subseteq Sources
         /\ \A s \in r.command.selected \ r.todo : Finished(r, s)
    /\ r.phase \in {"compare", "commit", "receipt", "record"} /\ r.command.download =>
         r.command.expected[r.source] \in {Absent, r.body}
    /\ r.phase \in {"receipt", "record"} /\ r.command.download => quarantine[r.source] = r.body

LEMMA StillOnCourse ==
    ASSUME NEW p \in Invocations, NEW r, run'[p] = r, OnCourse(r), UNCHANGED files
    PROVE  OnCourse(run[p])'
  <1>1. \A s : Finished(r, s) => Finished(run[p], s)'
    BY DEF Finished, files
  <1>2. QED
    BY <1>1 DEF OnCourse, files

LEMMA StaysOnCourse ==
    ASSUME NEW p \in Invocations, IInv, NEW r \in Run, Become(p, r), OnCourse(r), UNCHANGED files
    PROVE  OnCourse(run[p])'
  <1>1. run'[p] = r
    BY BecomeTypes DEF IInv, TypeOK
  <1>2. QED
    BY <1>1 DEF OnCourse, Finished, files

LEMMA FailureIsOnCourse ==
    ASSUME NEW p \in Invocations, IInv, NEW code \in {1, 2}, Fail(p, code), UNCHANGED files
    PROVE  OnCourse(run[p])'
  <1> DEFINE r == [run[p] EXCEPT !.phase = "exited", !.exit = code, !.part = FALSE]
  <1>1. r \in Run /\ Become(p, r)
    BY FailBecomes DEF IInv, TypeOK
  <1>2. r.phase = "exited" /\ r.exit = code
    BY DEF IInv, TypeOK, Run
  <1>3. OnCourse(r)
    BY <1>2, BodiesAssumption DEF OnCourse
  <1>4. QED
    BY <1>1, <1>3, StaysOnCourse

LEMMA StartIsOnCourse ==
    ASSUME NEW p \in Invocations, IInv, Start(p)
    PROVE  OnCourse(run[p])'
  <1>1. PICK c \in Requests :
            Become(p, [phase |-> IF Valid(c) THEN "open" ELSE "exited",
                       starts |-> run[p].starts + 1, command |-> c,
                       todo |-> IF Valid(c) THEN c.selected ELSE {},
                       source |-> Absent, header |-> Absent, body |-> Absent,
                       part |-> FALSE, exit |-> IF Valid(c) THEN Absent ELSE 2])
    BY DEF Start
  <1> DEFINE r == [phase |-> IF Valid(c) THEN "open" ELSE "exited",
                   starts |-> run[p].starts + 1, command |-> c,
                   todo |-> IF Valid(c) THEN c.selected ELSE {},
                   source |-> Absent, header |-> Absent, body |-> Absent,
                   part |-> FALSE, exit |-> IF Valid(c) THEN Absent ELSE 2]
  <1>2. run'[p] = r
    BY <1>1 DEF Become, IInv, TypeOK
  <1>3. OnCourse(r)
    BY BodiesAssumption DEF OnCourse, Valid
  <1>4. QED
    BY <1>2, <1>3 DEF OnCourse, Finished, Start, files

LEMMA OpenIsOnCourse ==
    ASSUME NEW p \in Invocations, IInv, OnCourse(run[p]), Open(p)
    PROVE  OnCourse(run[p])'
  <1>1. CASE Fail(p, 2)
    BY <1>1, FailureIsOnCourse DEF Open
  <1>2. CASE ~Fail(p, 2)
    <2>1. PICK s \in run[p].todo : \E h \in {Absent, Size[remote[s]]} :
             Become(p, [run[p] EXCEPT
                !.phase = IF run[p].command.download THEN "stream" ELSE "receipt",
                !.source = s, !.header = h,
                !.body = IF run[p].command.download THEN remote[s] ELSE Absent,
                !.part = run[p].command.download])
      BY <1>2 DEF Open
    <2>2. PICK h : Become(p, [run[p] EXCEPT
                !.phase = IF run[p].command.download THEN "stream" ELSE "receipt",
                !.source = s, !.header = h,
                !.body = IF run[p].command.download THEN remote[s] ELSE Absent,
                !.part = run[p].command.download])
      BY <2>1
    <2> DEFINE r == [run[p] EXCEPT
                !.phase = IF run[p].command.download THEN "stream" ELSE "receipt",
                !.source = s, !.header = h,
                !.body = IF run[p].command.download THEN remote[s] ELSE Absent,
                !.part = run[p].command.download]
    <2>3. run[p] \in Run /\ run'[p] = r
      BY <2>2 DEF IInv, TypeOK, Become
    <2>4. /\ r.phase = IF run[p].command.download THEN "stream" ELSE "receipt"
          /\ r.todo = run[p].todo /\ r.exit = run[p].exit /\ r.command = run[p].command
      BY <2>3 DEF Run
    <2>5. OnCourse(r)
      <3>1. run[p].phase = "open"
        BY DEF Open
      <3>2. r.exit = Absent /\ (r.exit = 0 => r.todo = {})
        BY <2>4, <3>1 DEF OnCourse
      <3>3. r.phase \notin {"compare", "commit", "record"} /\ (r.command.download => r.phase = "stream")
        BY <2>4
      <3>4. run[p].command.selected \subseteq Sources
            /\ \A t \in run[p].command.selected \ run[p].todo : Finished(run[p], t)
        BY <2>4, <3>2 DEF OnCourse
      <3> HIDE DEF r
      <3>5. \A t \in r.command.selected \ r.todo : Finished(r, t)
        BY <2>4, <3>4 DEF Finished
      <3>6. QED
        BY <2>4, <3>2, <3>3, <3>4, <3>5 DEF OnCourse
    <2>6. UNCHANGED files
      BY DEF Open
    <2>7. QED
      <3> HIDE DEF r
      <3> QED BY <2>3, <2>5, <2>6, StillOnCourse
  <1>3. QED
    BY <1>1, <1>2

LEMMA StreamIsOnCourse ==
    ASSUME NEW p \in Invocations, IInv, OnCourse(run[p]), Stream(p)
    PROVE  OnCourse(run[p])'
  <1>1. CASE \E code \in {1, 2} : Fail(p, code)
    BY <1>1, FailureIsOnCourse DEF Stream
  <1>2. CASE ~\E code \in {1, 2} : Fail(p, code)
    <2>1. PICK received : Become(p, [run[p] EXCEPT !.phase = "verify", !.body = received])
      BY <1>2 DEF Stream
    <2> DEFINE r == [run[p] EXCEPT !.phase = "verify", !.body = received]
    <2>2. run[p] \in Run /\ run'[p] = r
      BY <2>1 DEF IInv, TypeOK, Become
    <2>3. /\ r.phase = "verify" /\ r.todo = run[p].todo /\ r.exit = run[p].exit
          /\ r.command = run[p].command
      BY <2>2 DEF Run
    <2>4. OnCourse(r)
      BY <2>3 DEF OnCourse, Finished, Stream
    <2>5. UNCHANGED files
      BY DEF Stream
    <2>6. QED
      <3> HIDE DEF r
      <3> QED BY <2>2, <2>4, <2>5, StillOnCourse
  <1>3. QED
    BY <1>1, <1>2

LEMMA VerifyIsOnCourse ==
    ASSUME NEW p \in Invocations, IInv, OnCourse(run[p]), Verify(p)
    PROVE  OnCourse(run[p])'
  <1>1. CASE Fail(p, 2)
    BY <1>1, FailureIsOnCourse DEF Verify
  <1>2. CASE ~Fail(p, 2)
    <2> DEFINE to == IF quarantine[run[p].source] = Absent THEN "commit" ELSE "compare"
               r == [run[p] EXCEPT !.phase = to]
    <2>1. Become(p, r) /\ run[p].command.expected[run[p].source] \in {Absent, run[p].body}
      BY <1>2 DEF Verify, Advance
    <2>2. run[p] \in Run /\ r \in Run
      <3>1. run[p] \in Run /\ to \in Phase
        BY PhaseNames DEF IInv, TypeOK
      <3> QED BY <3>1, MovedRun
    <2>3. /\ r.phase \in {"commit", "compare"} /\ r.todo = run[p].todo /\ r.exit = run[p].exit
          /\ r.command = run[p].command /\ r.source = run[p].source /\ r.body = run[p].body
      <3>1. to \in Phase
        BY PhaseNames
      <3> QED BY <2>2, <3>1, MovedRun
    <2>4. OnCourse(r)
      BY <2>1, <2>3 DEF OnCourse, Finished, Verify
    <2>5. QED
      BY <2>1, <2>2, <2>4, StaysOnCourse DEF Verify
  <1>3. QED
    BY <1>1, <1>2

LEMMA CompareIsOnCourse ==
    ASSUME NEW p \in Invocations, IInv, OnCourse(run[p]), Compare(p)
    PROVE  OnCourse(run[p])'
  <1>1. CASE Fail(p, 2)
    BY <1>1, FailureIsOnCourse DEF Compare
  <1>2. CASE ~Fail(p, 2)
    <2> DEFINE r == [run[p] EXCEPT !.phase = "receipt", !.part = FALSE]
    <2>1. Become(p, r) /\ quarantine[run[p].source] = run[p].body /\ run[p].phase = "compare"
      BY <1>2 DEF Compare
    <2>2. run[p] \in Run /\ r \in Run
      <3>1. run[p] \in Run
        BY DEF IInv, TypeOK
      <3> QED BY <3>1, ReceiptRun
    <2>3. /\ r.phase = "receipt" /\ r.todo = run[p].todo /\ r.exit = run[p].exit
          /\ r.command = run[p].command /\ r.source = run[p].source /\ r.body = run[p].body
      BY <2>2, ReceiptRun
    <2>4. OnCourse(r)
      BY <2>1, <2>3 DEF OnCourse, Finished
    <2>5. QED
      BY <2>1, <2>2, <2>4, StaysOnCourse DEF Compare
  <1>3. QED
    BY <1>1, <1>2

LEMMA WriteReceiptIsOnCourse ==
    ASSUME NEW p \in Invocations, IInv, OnCourse(run[p]), WriteReceipt(p)
    PROVE  OnCourse(run[p])'
  <1>1. CASE Fail(p, 2)
    BY <1>1, FailureIsOnCourse DEF WriteReceipt
  <1>2. CASE ~Fail(p, 2)
    <2> DEFINE r == [run[p] EXCEPT !.phase = "record", !.part = TRUE]
    <2>1. Become(p, r) /\ run[p].phase = "receipt"
      BY <1>2 DEF WriteReceipt
    <2>2. run[p] \in Run /\ r \in Run
      <3>1. run[p] \in Run
        BY DEF IInv, TypeOK
      <3> QED BY <3>1, RecordRun
    <2>3. /\ r.phase = "record" /\ r.todo = run[p].todo /\ r.exit = run[p].exit
          /\ r.command = run[p].command /\ r.source = run[p].source /\ r.body = run[p].body
      BY <2>2, RecordRun
    <2>4. OnCourse(r)
      BY <2>1, <2>3 DEF OnCourse, Finished
    <2>5. QED
      BY <2>1, <2>2, <2>4, StaysOnCourse DEF WriteReceipt
  <1>3. QED
    BY <1>1, <1>2

LEMMA KillIsOnCourse ==
    ASSUME NEW p \in Invocations, IInv, Kill(p)
    PROVE  OnCourse(run[p])'
  <1> DEFINE r == [run[p] EXCEPT !.phase = "exited", !.exit = 9, !.part = FALSE]
  <1>1. r \in Run /\ r.phase = "exited" /\ r.exit = 9
    <2>1. run[p] \in Run
      BY DEF IInv, TypeOK
    <2> QED BY <2>1, KilledRun
  <1>2. OnCourse(r)
    BY <1>1, BodiesAssumption DEF OnCourse
  <1>3. QED
    BY <1>1, <1>2, StaysOnCourse DEF Kill

\* What was found absent is committed; a finished source has an artifact, so
\* that it is another one.
LEMMA CommitIsOnCourse ==
    ASSUME NEW p \in Invocations, IInv, FoundAbsent, OnCourse(run[p]), Commit(p)
    PROVE  OnCourse(run[p])'
  <1>1. CASE Fail(p, 2) /\ UNCHANGED files
    BY <1>1, FailureIsOnCourse
  <1>2. CASE Replace(p) /\ UNCHANGED receipts
    <2> DEFINE s == run[p].source
               r == [run[p] EXCEPT !.phase = "receipt", !.part = FALSE]
    <2>1. /\ run[p] \in Run /\ run[p].phase = "commit" /\ run'[p] = r
          /\ s \in Sources /\ s \in run[p].todo /\ run[p].command.download
      BY <1>2 DEF IInv, TypeOK, CarriesBody, Run, Commit, Replace, Become
    <2>2. /\ r.phase = "receipt" /\ r.todo = run[p].todo /\ r.exit = run[p].exit
          /\ r.command = run[p].command /\ r.source = s /\ r.body = run[p].body
      BY <2>1 DEF Run
    <2>3. /\ quarantine'[s] = run[p].body
          /\ \A t \in Sources \ {s} : quarantine'[t] = quarantine[t]
      BY <1>2, <2>1 DEF IInv, TypeOK, Replace
    <2>4. run[p].command.expected[s] \in {Absent, run[p].body}
      BY <2>1 DEF OnCourse
    <2>5. ASSUME r.exit \in {Absent, 0}
          PROVE  /\ r.command.selected \subseteq Sources
                 /\ \A t \in r.command.selected \ r.todo : Finished(r, t)'
      <3>1. /\ run[p].command.selected \subseteq Sources
            /\ \A t \in run[p].command.selected \ run[p].todo : Finished(run[p], t)
        BY <2>2, <2>5 DEF OnCourse
      <3>2. \A t \in r.command.selected \ r.todo : t \in Sources \ {s}
        BY <2>1, <2>2, <3>1
      <3>3. ASSUME NEW t \in r.command.selected \ r.todo
            PROVE  Finished(r, t)'
        <4>1. Finished(run[p], t) /\ quarantine'[t] = quarantine[t] /\ receipts'[t] = receipts[t]
          <5> HIDE DEF r
          <5>1. t \in run[p].command.selected \ run[p].todo /\ t \in Sources \ {s}
            BY <2>2, <3>2
          <5>2. Finished(run[p], t)
            BY <3>1, <5>1
          <5>3. quarantine'[t] = quarantine[t]
            BY <2>3, <5>1
          <5> QED BY <1>2, <5>2, <5>3
        <4>2. (r.command)' = run[p].command
          <5>1. r \in Run /\ "receipt" \in Phase
            BY <2>1, PhaseNames, ReceiptRun
          <5>2. [r EXCEPT !.phase = "receipt", !.part = FALSE].command = r.command
            <6> HIDE DEF r
            <6> QED BY <5>1, ReceiptRun
          <5> QED BY <2>1, <2>2, <5>2
        <4>3. QED
          <5> HIDE DEF r
          <5> QED BY <4>1, <4>2 DEF Finished
      <3>4. QED
        BY <2>2, <3>1, <3>3
    <2>6. QED
      BY <2>1, <2>2, <2>3, <2>4, <2>5 DEF OnCourse, Finished
  <1>3. QED
    BY <1>1, <1>2 DEF Commit

LEMMA ReplaceReceiptIsOnCourse ==
    ASSUME NEW p \in Invocations, IInv, OnCourse(run[p]), ReplaceReceipt(p)
    PROVE  OnCourse(run[p])'
  <1>1. CASE Fail(p, 2) /\ UNCHANGED receipts
    BY <1>1, FailureIsOnCourse DEF ReplaceReceipt, files
  <1>2. CASE ~(Fail(p, 2) /\ UNCHANGED receipts)
    <2> DEFINE s == run[p].source
               left == run[p].todo \ {s}
               r == [run[p] EXCEPT !.phase = IF left = {} THEN "exited" ELSE "open",
                                   !.exit = IF left = {} THEN 0 ELSE Absent,
                                   !.todo = left, !.part = FALSE]
               new == MakeReceipt(run[p])
    <2>1. receipts' = [receipts EXCEPT ![s] = new] /\ Become(p, r) /\ UNCHANGED quarantine
      BY <1>2 DEF ReplaceReceipt
    <2>2. /\ run[p] \in Run /\ CarriesBody(run[p]) /\ run[p].phase = "record"
          /\ s \in Sources /\ run[p].command.download \in BOOLEAN /\ run'[p] = r
      BY <2>1 DEF IInv, TypeOK, CarriesBody, Run, Command, ReplaceReceipt, Become
    <2>3. /\ r.phase \in {"open", "exited"} /\ r.command = run[p].command /\ r.todo = left
          /\ r.exit = 0 => left = {}
          /\ r.exit = IF left = {} THEN 0 ELSE Absent
          /\ r.phase = "open" => left # {}
      BY <2>2, BodiesAssumption DEF Run
    <2>4. /\ receipts'[s] = new /\ \A t \in Sources \ {s} : receipts'[t] = receipts[t]
      BY <2>1, <2>2 DEF IInv, TypeOK
    <2>5. /\ new # Absent /\ new.downloaded = run[p].command.download
          /\ run[p].command.download => new.sha256 = quarantine[s]
          /\ run[p].command.download => run[p].command.expected[s] \in {Absent, quarantine[s]}
      <3>1. new \in Receipt
        BY <2>2, BodiesAssumption DEF MakeReceipt, Receipt, Run
      <3>2. new.downloaded = run[p].command.download /\ new.sha256 = run[p].body
        BY DEF MakeReceipt
      <3>3. QED
        BY <2>2, <3>1, <3>2, ReceiptAssumption DEF OnCourse
    <2>6. run[p].exit = Absent
      BY <2>2 DEF OnCourse
    <2>7. QED
      BY <2>1, <2>2, <2>3, <2>4, <2>5, <2>6 DEF OnCourse, Finished
  <1>3. QED
    BY <1>1, <1>2

LEMMA OnCourseNext ==
    ASSUME NEW p, Invocations = {p}, IInv, FoundAbsent, OnCourse(run[p]), [Next]_vars
    PROVE  OnCourse(run[p])'
  <1>1. p \in Invocations
    OBVIOUS
  <1>2. CASE Start(p) \/ Kill(p)
    BY <1>1, <1>2, StartIsOnCourse, KillIsOnCourse
  <1>3. CASE Step(p)
    BY <1>1, <1>3, OpenIsOnCourse, StreamIsOnCourse, VerifyIsOnCourse, CompareIsOnCourse,
       CommitIsOnCourse, WriteReceiptIsOnCourse, ReplaceReceiptIsOnCourse DEF Step
  <1>4. CASE (\E s \in Sources : Publish(s)) \/ UNCHANGED vars
    BY <1>4 DEF OnCourse, Finished, Publish, files, vars
  <1>5. QED
    BY <1>2, <1>3, <1>4 DEF Next

(***************************************************************************)
(* Exit 0 of an invocation that runs alone (main, acquire_one): whatever   *)
(* earlier ones left, every selected source has the receipt of this kind   *)
(* of run, and after a download the artifact is the one of the receipt     *)
(* and the one that was expected.                                          *)
(***************************************************************************)
THEOREM ExitZeroKeepsItsWord == Alone /\ Spec => []ExitZeroIsComplete
  <1> SUFFICES ASSUME Alone PROVE Spec => []ExitZeroIsComplete
    OBVIOUS
  <1>1. PICK p : Invocations = {p}
    BY DEF Alone
  <1>2. Init => FoundAbsent /\ OnCourse(run[p])
    BY <1>1, BodiesAssumption DEF Init, FoundAbsent, OnCourse, NoCommand
  <1>3. IInv /\ FoundAbsent /\ [Next]_vars => FoundAbsent'
    BY FoundAbsentNext
  <1>4. IInv /\ FoundAbsent /\ OnCourse(run[p]) /\ [Next]_vars => OnCourse(run[p])'
    BY <1>1, OnCourseNext
  <1>5. IInv /\ OnCourse(run[p]) => ExitZeroIsComplete
    BY <1>1 DEF OnCourse, Finished, ExitZeroIsComplete
  <1>6. QED
    BY <1>2, <1>3, <1>4, <1>5, InvariantInit, InvariantNext, PTL DEF Spec

(***************************************************************************)
(* There is no loop that could go round for ever: what an invocation still *)
(* has ahead of it is a number, which every step of it lowers and which    *)
(* nothing that happens around it can raise.                               *)
(***************************************************************************)
StepsLeft(phase) ==
    CASE phase = "open"                 -> 6
      [] phase = "stream"               -> 5
      [] phase = "verify"               -> 4
      [] phase \in {"compare", "commit"} -> 3
      [] phase = "receipt"              -> 2
      [] OTHER                          -> 1

Ahead(r) ==
    IF r.phase \in {"idle", "exited"} THEN 0
    ELSE 6 * Cardinality(r.todo) + StepsLeft(r.phase)

LEMMA AheadIsBounded ==
    ASSUME NEW r \in Run
    PROVE  Ahead(r) \in Nat /\ Ahead(r) <= 6 * Cardinality(Sources) + 6
  <1>1. IsFiniteSet(r.todo) /\ Cardinality(r.todo) <= Cardinality(Sources)
    BY SourcesAssumption, FS_Subset DEF Run
  <1>2. Cardinality(r.todo) \in Nat /\ Cardinality(Sources) \in Nat
    BY <1>1, SourcesAssumption, FS_CardinalityType
  <1>3. StepsLeft(r.phase) \in 1..6
    BY DEF StepsLeft
  <1>4. QED
    BY <1>1, <1>2, <1>3 DEF Ahead

\* The steps that stay with the same source, and the way out.
LEMMA OnwardShortens ==
    ASSUME NEW r \in Run, NEW s \in Run, r.phase \notin {"idle", "exited"},
           \/ s.phase = "exited"
           \/ s.todo = r.todo /\ StepsLeft(s.phase) < StepsLeft(r.phase)
    PROVE  Ahead(s) < Ahead(r)
  <1>1. Cardinality(r.todo) \in Nat
    BY SourcesAssumption, FS_Subset, FS_CardinalityType DEF Run
  <1>2. StepsLeft(r.phase) \in 1..6 /\ StepsLeft(s.phase) \in 1..6
    BY DEF StepsLeft
  <1>3. QED
    BY <1>1, <1>2 DEF Ahead

LEMMA BecomesIt ==
    ASSUME TypeOK, NEW p \in Invocations, NEW r, Become(p, r)
    PROVE  run'[p] = r
  BY DEF TypeOK, Become

LEMMA FailExits ==
    ASSUME TypeOK, NEW p \in Invocations, NEW code \in {1, 2}, Fail(p, code)
    PROVE  run'[p].phase = "exited" /\ run'[p].header = run[p].header
  <1> DEFINE r == [run[p] EXCEPT !.phase = "exited", !.exit = code, !.part = FALSE]
  <1>1. Become(p, r) /\ r.phase = "exited" /\ r.header = run[p].header
    BY DEF TypeOK, Run, Fail
  <1> HIDE DEF r
  <1>2. QED
    BY <1>1, BecomesIt

\* What a Content-Length that is accepted may be.
Lengths == {Size[b] : b \in Bodies} \cup {Absent}

\* Where a step leads that does not end the invocation: on with the same
\* source, or back for the next one.
Onward ==
    {<<"open", "stream">>, <<"open", "receipt">>, <<"stream", "verify">>,
     <<"verify", "commit">>, <<"verify", "compare">>, <<"compare", "receipt">>,
     <<"commit", "receipt">>, <<"receipt", "record">>}

LEMMA WhereStepsLead ==
    ASSUME TypeOK, NEW p \in Invocations, Step(p)
    PROVE  /\ run[p].phase \notin {"idle", "exited"}
           /\ run'[p].header \in {run[p].header} \cup Lengths
           /\ \/ run'[p].phase = "exited"
              \/ /\ <<run[p].phase, run'[p].phase>> \in Onward
                 /\ run'[p].todo = run[p].todo
              \/ /\ run[p].phase = "record" /\ run'[p].phase = "open"
                 /\ run'[p].todo = run[p].todo \ {run[p].source}
  <1>0. run[p] \in Run
    BY DEF TypeOK
  <1>1. CASE \E code \in {1, 2} : Fail(p, code)
    BY <1>1, FailExits DEF Step, Open, Stream, Verify, Compare, Commit, WriteReceipt,
       ReplaceReceipt
  <1>2. CASE Open(p) /\ ~Fail(p, 2)
    <2>1. PICK s, header, body, part : header \in Lengths /\ Become(p, [run[p] EXCEPT
             !.phase = IF run[p].command.download THEN "stream" ELSE "receipt",
             !.source = s, !.header = header, !.body = body, !.part = part])
      <3>1. PICK s, header :
               /\ s \in run[p].todo /\ header \in {Absent, Size[remote[s]]}
               /\ Become(p, [run[p] EXCEPT
                    !.phase = IF run[p].command.download THEN "stream" ELSE "receipt",
                    !.source = s, !.header = header,
                    !.body = IF run[p].command.download THEN remote[s] ELSE Absent,
                    !.part = run[p].command.download])
        BY <1>2 DEF Open
      <3>2. header \in Lengths
        <4>1. run[p].todo \subseteq Sources
          BY <1>0 DEF Run
        <4>2. remote[s] \in Bodies
          BY <3>1, <4>1, BodiesAssumption DEF TypeOK
        <4>3. QED
          BY <3>1, <4>2 DEF Lengths
      <3> DEFINE b == IF run[p].command.download THEN remote[s] ELSE Absent
                 d == run[p].command.download
      <3>3. Become(p, [run[p] EXCEPT !.phase = IF run[p].command.download THEN "stream" ELSE "receipt",
                                     !.source = s, !.header = header, !.body = b, !.part = d])
        BY <3>1
      <3> HIDE DEF b, d
      <3>4. QED
        BY <3>2, <3>3
    <2> DEFINE r == [run[p] EXCEPT
             !.phase = IF run[p].command.download THEN "stream" ELSE "receipt",
             !.source = s, !.header = header, !.body = body, !.part = part]
    <2>2. /\ Become(p, r) /\ r.todo = run[p].todo /\ r.phase \in {"stream", "receipt"}
          /\ r.header \in Lengths
      BY <1>0, <2>1 DEF Run
    <2> HIDE DEF r
    <2>3. QED
      BY <1>2, <2>2, BecomesIt DEF Open, Onward
  <1>3. CASE Stream(p) /\ ~\E code \in {1, 2} : Fail(p, code)
    <2>1. PICK body : Become(p, [run[p] EXCEPT !.phase = "verify", !.body = body])
      BY <1>3 DEF Stream
    <2> DEFINE r == [run[p] EXCEPT !.phase = "verify", !.body = body]
    <2>2. /\ Become(p, r) /\ r.todo = run[p].todo /\ r.phase = "verify"
          /\ r.header = run[p].header
      BY <1>0, <2>1 DEF Run
    <2> HIDE DEF r
    <2>3. QED
      BY <1>3, <2>2, BecomesIt DEF Stream, Onward
  <1>4. CASE Verify(p) /\ ~Fail(p, 2)
    <2>1. PICK to \in {"commit", "compare"} : Advance(p, to)
      BY <1>4 DEF Verify
    <2> DEFINE r == [run[p] EXCEPT !.phase = to]
    <2>2. /\ Become(p, r) /\ r.todo = run[p].todo /\ r.phase = to
          /\ r.header = run[p].header
      BY <1>0, <2>1 DEF Run, Advance
    <2> HIDE DEF r
    <2>3. QED
      BY <1>4, <2>2, BecomesIt DEF Verify, Onward
  <1>5. CASE (Compare(p) \/ Commit(p)) /\ ~Fail(p, 2)
    <2> DEFINE r == [run[p] EXCEPT !.phase = "receipt", !.part = FALSE]
    <2>1. /\ Become(p, r) /\ r.todo = run[p].todo /\ r.phase = "receipt"
          /\ r.header = run[p].header
      BY <1>0, <1>5 DEF Run, Compare, Commit, Replace
    <2> HIDE DEF r
    <2>2. QED
      BY <1>5, <2>1, BecomesIt DEF Compare, Commit, Onward
  <1>6. CASE WriteReceipt(p) /\ ~Fail(p, 2)
    <2> DEFINE r == [run[p] EXCEPT !.phase = "record", !.part = TRUE]
    <2>1. /\ Become(p, r) /\ r.todo = run[p].todo /\ r.phase = "record"
          /\ r.header = run[p].header
      BY <1>0, <1>6 DEF Run, WriteReceipt
    <2> HIDE DEF r
    <2>2. QED
      BY <1>6, <2>1, BecomesIt DEF WriteReceipt, Onward
  <1>7. CASE ReplaceReceipt(p) /\ ~Fail(p, 2)
    <2> DEFINE left == run[p].todo \ {run[p].source}
               r == [run[p] EXCEPT !.phase = IF left = {} THEN "exited" ELSE "open",
                                   !.exit = IF left = {} THEN 0 ELSE Absent,
                                   !.todo = left, !.part = FALSE]
    <2>1. /\ Become(p, r) /\ r.todo = left /\ r.phase \in {"exited", "open"}
          /\ r.header = run[p].header
      BY <1>0, <1>7 DEF Run, ReplaceReceipt
    <2> HIDE DEF r
    <2>2. QED
      BY <1>7, <2>1, BecomesIt DEF ReplaceReceipt
  <1>8. QED
    BY <1>1, <1>2, <1>3, <1>4, <1>5, <1>6, <1>7 DEF Step

LEMMA StepShortens ==
    ASSUME TypeOK, TypeOK', NEW p \in Invocations, CarriesBody(run[p]), Step(p)
    PROVE  Ahead(run'[p]) < Ahead(run[p])
  <1>0. run[p] \in Run /\ run'[p] \in Run /\ run[p].phase \notin {"idle", "exited"}
    BY WhereStepsLead DEF TypeOK
  <1>1. CASE run'[p].phase = "exited"
    BY <1>0, <1>1, OnwardShortens
  <1>2. CASE <<run[p].phase, run'[p].phase>> \in Onward /\ run'[p].todo = run[p].todo
    BY <1>0, <1>2, OnwardShortens DEF Onward, StepsLeft
  <1>3. CASE /\ run[p].phase = "record" /\ run'[p].phase = "open"
             /\ run'[p].todo = run[p].todo \ {run[p].source}
    <2>1. run[p].source \in run[p].todo
      BY <1>3 DEF CarriesBody
    <2>2. IsFiniteSet(run[p].todo)
      BY <1>0, SourcesAssumption, FS_Subset DEF Run
    <2>3. Cardinality(run[p].todo) \in Nat
      BY <2>2, FS_CardinalityType
    <2>4. Cardinality(run[p].todo \ {run[p].source}) = Cardinality(run[p].todo) - 1
      BY <2>1, <2>2, FS_RemoveElement
    <2>5. Cardinality(run'[p].todo) = Cardinality(run[p].todo) - 1
      BY <1>3, <2>4
    <2>6. QED
      BY <1>3, <2>3, <2>5 DEF Ahead, StepsLeft
  <1>4. QED
    BY <1>1, <1>2, <1>3, WhereStepsLead

LEMMA KillShortens ==
    ASSUME TypeOK, TypeOK', NEW p \in Invocations, Kill(p)
    PROVE  Ahead(run'[p]) < Ahead(run[p])
  <1>1. run[p] \in Run /\ run'[p] \in Run
    BY DEF TypeOK
  <1>2. run'[p].phase = "exited"
    BY DEF Kill, Become, TypeOK, Run
  <1>3. QED
    BY <1>1, <1>2, OnwardShortens DEF Kill

LEMMA OthersLeaveIt ==
    ASSUME TypeOK, NEW p \in Invocations, NEW q \in Invocations, p # q,
           Start(q) \/ Step(q) \/ Kill(q)
    PROVE  run'[p] = run[p]
  BY DEF TypeOK, Start, Step, Kill, Open, Stream, Verify, Compare, Commit, Replace,
         WriteReceipt, ReplaceReceipt, Advance, Fail, Become

\* What is bounded, and what lowers and never raises it.
AheadBounded == \A p \in Invocations : Ahead(run[p]) \in 0..6 * Cardinality(Sources) + 6
EveryStepCounts ==
    [][\A p \in Invocations :
          /\ Step(p) \/ Kill(p) => Ahead(run'[p]) < Ahead(run[p])
          /\ ~Start(p) => Ahead(run'[p]) <= Ahead(run[p])]_vars

(***************************************************************************)
(* main: an invocation takes at most 6 * |Sources| + 6 steps before it     *)
(* exits, whatever the remote serves, whatever other invocations do to the *)
(* files it reads, and however often a transfer or a comparison fails:     *)
(* nothing is tried again.  With the weak fairness of its steps this is    *)
(* why InvocationsEnd.                                                     *)
(***************************************************************************)
THEOREM InvocationsRunOut == Spec => []AheadBounded /\ EveryStepCounts
  <1>1. IInv => AheadBounded
    <2> SUFFICES ASSUME IInv, NEW p \in Invocations
                 PROVE  Ahead(run[p]) \in 0..6 * Cardinality(Sources) + 6
      BY DEF AheadBounded
    <2>1. Ahead(run[p]) \in Nat /\ Ahead(run[p]) <= 6 * Cardinality(Sources) + 6
      BY AheadIsBounded DEF IInv, TypeOK
    <2>2. Cardinality(Sources) \in Nat
      BY SourcesAssumption, FS_CardinalityType
    <2>3. QED
      BY <2>1, <2>2
  <1>2. ASSUME IInv, IInv', [Next]_vars, NEW p \in Invocations
        PROVE  /\ Step(p) \/ Kill(p) => Ahead(run'[p]) < Ahead(run[p])
               /\ ~Start(p) => Ahead(run'[p]) <= Ahead(run[p])
    <2>1. Step(p) \/ Kill(p) => Ahead(run'[p]) < Ahead(run[p])
      BY <1>2, StepShortens, KillShortens DEF IInv
    <2>2. Ahead(run[p]) \in Nat /\ Ahead(run'[p]) \in Nat
      BY <1>2, AheadIsBounded DEF IInv, TypeOK
    <2>3. ASSUME ~Start(p) PROVE Ahead(run'[p]) <= Ahead(run[p])
      <3>1. CASE Step(p) \/ Kill(p)
        BY <2>1, <2>2, <3>1
      <3>2. CASE run'[p] = run[p]
        BY <2>2, <3>2
      <3>3. Step(p) \/ Kill(p) \/ run'[p] = run[p]
        <4>1. CASE UNCHANGED vars \/ \E s \in Sources : Publish(s)
          BY <4>1 DEF vars, Publish
        <4>2. CASE \E q \in Invocations : Start(q) \/ Step(q) \/ Kill(q)
          BY <1>2, <2>3, <4>2, OthersLeaveIt DEF IInv
        <4>3. QED
          BY <1>2, <4>1, <4>2 DEF Next
      <3>4. QED
        BY <3>1, <3>2, <3>3
    <2>4. QED
      BY <2>1, <2>3
  <1>3. IInv /\ IInv' /\ [Next]_vars =>
          [\A p \in Invocations :
             /\ Step(p) \/ Kill(p) => Ahead(run'[p]) < Ahead(run[p])
             /\ ~Start(p) => Ahead(run'[p]) <= Ahead(run[p])]_vars
    BY <1>2
  <1>4. QED
    BY <1>1, <1>3, InvariantInit, InvariantNext, PTL DEF Spec, EveryStepCounts

(***************************************************************************)
(* An invocation about to commit found no artifact when it looked.  Once   *)
(* there is one nobody else gets that far, so the artifact is replaced at  *)
(* most once by each that was there already, and never removed.            *)
(***************************************************************************)
Committing(s) == {p \in Invocations : run[p].phase = "commit" /\ run[p].source = s}

OverwritersDwindle ==
    [][\A s \in Sources : quarantine[s] # Absent =>
          /\ quarantine'[s] # Absent
          /\ Committing(s)' \subseteq Committing(s)
          /\ quarantine'[s] # quarantine[s] => Committing(s)' # Committing(s)]_vars

\* Whoever is about to commit now was so before, or has just found nothing.
LEMMA CommitterFoundNothing ==
    ASSUME TypeOK, [Next]_vars, NEW p \in Invocations, run'[p].phase = "commit"
    PROVE  \/ run'[p] = run[p]
           \/ run'[p].source = run[p].source /\ quarantine[run[p].source] = Absent
  <1>0. run[p] \in Run
    BY DEF TypeOK
  <1>1. CASE UNCHANGED vars \/ \E s \in Sources : Publish(s)
    BY <1>1 DEF vars, Publish
  <1>2. CASE \E q \in Invocations \ {p} : Start(q) \/ Step(q) \/ Kill(q)
    BY <1>2, OthersLeaveIt
  <1>3. CASE Start(p)
    <2>1. PICK r : Become(p, r) /\ r.phase \in {"open", "exited"}
      BY <1>3 DEF Start
    <2>2. QED
      BY <2>1, BecomesIt
  <1>4. CASE Kill(p)
    BY <1>4 DEF Kill, Become, TypeOK, Run
  <1>5. CASE Step(p)
    <2>1. run[p].phase = "verify"
      BY <1>5, WhereStepsLead DEF Onward
    <2>2. Verify(p)
      BY <1>5, <2>1 DEF Step, Open, Stream, Compare, Commit, WriteReceipt, ReplaceReceipt
    <2>3. ~Fail(p, 2)
      BY FailExits
    <2>4. PICK to \in {"commit", "compare"} :
             Advance(p, to) /\ (to = "commit" => quarantine[run[p].source] = Absent)
      BY <2>2, <2>3 DEF Verify
    <2> DEFINE r == [run[p] EXCEPT !.phase = to]
    <2>5. Become(p, r) /\ r.phase = to /\ r.source = run[p].source
      BY <1>0, <2>4 DEF Advance, Run
    <2> HIDE DEF r
    <2>6. run'[p] = r
      BY <2>5, BecomesIt
    <2>7. QED
      BY <2>4, <2>5, <2>6
  <1>6. QED
    BY <1>1, <1>2, <1>3, <1>4, <1>5 DEF Next

CarriesBodies == \A p \in Invocations : CarriesBody(run[p])

\* An artifact that changes is replaced by an invocation that was about to.
LEMMA OnlyCommitReplaces ==
    ASSUME TypeOK, CarriesBodies, [Next]_vars, NEW s \in Sources, quarantine'[s] # quarantine[s]
    PROVE  /\ quarantine'[s] # Absent
           /\ \E p \in Invocations :
                 run[p].phase = "commit" /\ run[p].source = s /\ run'[p].phase # "commit"
  <1>0. ~UNCHANGED quarantine
    OBVIOUS
  <1>1. PICK p \in Invocations : Commit(p)
    <2>1. /\ ~UNCHANGED vars /\ \A t \in Sources : ~Publish(t)
          /\ \A p \in Invocations : ~Start(p) /\ ~Kill(p)
      BY <1>0 DEF vars, files, Publish, Start, Kill
    <2>2. \A p \in Invocations :
             /\ ~Open(p) /\ ~Stream(p) /\ ~Verify(p) /\ ~Compare(p)
             /\ ~WriteReceipt(p) /\ ~ReplaceReceipt(p)
      BY <1>0 DEF files, Open, Stream, Verify, Compare, WriteReceipt, ReplaceReceipt
    <2>3. QED
      BY <2>1, <2>2 DEF Next, Step
  <1>2. Replace(p) /\ run[p].phase = "commit"
    BY <1>0, <1>1 DEF Commit, files
  <1>3. run[p] \in Run /\ run[p].body \in Bodies
    BY <1>2 DEF TypeOK, CarriesBodies, CarriesBody
  <1>4. run[p].source = s /\ quarantine'[s] = run[p].body
    BY <1>2 DEF Replace, TypeOK
  <1>5. run'[p].phase = "receipt"
    BY <1>2, <1>3 DEF Replace, Become, TypeOK, Run
  <1>6. QED
    BY <1>2, <1>3, <1>4, <1>5, BodiesAssumption

(***************************************************************************)
(* stream_to_quarantine: the check that the target exists and the replace  *)
(* are not one step, and this is all that it costs.  Whatever overlaps, an *)
(* artifact is replaced only by invocations that looked before there was   *)
(* one, by each of them at most once, and no later invocation joins them.  *)
(***************************************************************************)
THEOREM OnlyEarlierFindersReplace == Spec => OverwritersDwindle
  <1>1. ASSUME IInv, [Next]_vars, NEW s \in Sources, quarantine[s] # Absent
        PROVE  /\ quarantine'[s] # Absent
               /\ Committing(s)' \subseteq Committing(s)
               /\ quarantine'[s] # quarantine[s] => Committing(s)' # Committing(s)
    <2>0. TypeOK /\ CarriesBodies
      BY <1>1 DEF IInv, CarriesBodies
    <2>1. quarantine'[s] # Absent
      BY <1>1, <2>0, OnlyCommitReplaces
    <2>2. Committing(s)' \subseteq Committing(s)
      BY <1>1, <2>0, CommitterFoundNothing DEF Committing
    <2>3. quarantine'[s] # quarantine[s] => Committing(s)' # Committing(s)
      BY <1>1, <2>0, OnlyCommitReplaces DEF Committing
    <2>4. QED
      BY <2>1, <2>2, <2>3
  <1>2. IInv /\ [Next]_vars =>
          [\A s \in Sources : quarantine[s] # Absent =>
              /\ quarantine'[s] # Absent
              /\ Committing(s)' \subseteq Committing(s)
              /\ quarantine'[s] # quarantine[s] => Committing(s)' # Committing(s)]_vars
    BY <1>1
  <1>3. QED
    BY <1>2, InvariantInit, InvariantNext, PTL DEF Spec, OverwritersDwindle

(***************************************************************************)
(* The store that an invocation which runs alone implements: its steps on  *)
(* the process, on .part files and towards an exit are stutters of it.     *)
(***************************************************************************)
HeadersAreLengths == \A p \in Invocations : run[p].header \in Lengths

NoneRaced == raced = {}

LEMMA HeadersNext ==
    ASSUME TypeOK, HeadersAreLengths, [Next]_vars
    PROVE  HeadersAreLengths'
  <1> SUFFICES ASSUME NEW p \in Invocations PROVE run'[p].header \in Lengths
    BY DEF HeadersAreLengths, Lengths
  <1>1. CASE UNCHANGED vars \/ \E s \in Sources : Publish(s)
    BY <1>1 DEF vars, Publish, HeadersAreLengths
  <1>2. CASE \E q \in Invocations \ {p} : Start(q) \/ Step(q) \/ Kill(q)
    BY <1>2, OthersLeaveIt DEF HeadersAreLengths
  <1>3. CASE Start(p)
    <2>1. PICK r : Become(p, r) /\ r.header = Absent
      BY <1>3 DEF Start
    <2>2. QED
      BY <2>1, BecomesIt DEF Lengths
  <1>4. CASE Kill(p)
    <2>1. run'[p].header = run[p].header
      BY <1>4 DEF Kill, Become, TypeOK, Run
    <2>2. QED
      BY <2>1 DEF HeadersAreLengths
  <1>5. CASE Step(p)
    BY <1>5, WhereStepsLead DEF HeadersAreLengths
  <1>6. QED
    BY <1>1, <1>2, <1>3, <1>4, <1>5 DEF Next

LEMMA CommitDeposits ==
    ASSUME IInv, FoundAbsent, NEW p \in Invocations, Commit(p), ~UNCHANGED quarantine
    PROVE  \E s \in Sources : Store!Deposit(s)
  <1>1. run[p].phase = "commit" /\ Replace(p) /\ UNCHANGED receipts
    BY DEF Commit, files
  <1>2. run[p] \in Run /\ run[p].body \in Bodies /\ run[p].source \in Sources
    BY <1>1 DEF IInv, TypeOK, CarriesBody, Run
  <1>3. quarantine[run[p].source] = Absent
    BY <1>1 DEF FoundAbsent
  <1>4. quarantine' = [quarantine EXCEPT ![run[p].source] = run[p].body]
    BY <1>1 DEF Replace
  <1>5. QED
    BY <1>1, <1>2, <1>3, <1>4 DEF Store!Deposit

LEMMA ReplaceReceiptDescribes ==
    ASSUME IInv, raced = {}, HeadersAreLengths, NEW p \in Invocations, ReplaceReceipt(p),
           ~UNCHANGED receipts
    PROVE  \E s \in Sources : Store!Describe(s)
  <1>1. /\ run[p].phase = "record" /\ UNCHANGED quarantine
        /\ receipts' = [receipts EXCEPT ![run[p].source] = MakeReceipt(run[p])]
    BY DEF ReplaceReceipt
  <1>2. /\ run[p] \in Run /\ run[p].command.download \in BOOLEAN
        /\ run[p].source \in run[p].todo /\ run[p].todo \subseteq Sources
        /\ run[p].command.download <=> run[p].body # Absent
    BY <1>1 DEF IInv, TypeOK, CarriesBody, Run, Command
  <1>3. run[p].body \in {Absent, quarantine[run[p].source]}
    BY <1>1, <1>2 DEF IInv, HasCommitted
  <1>4. run[p].command.download = (run[p].body # Absent)
    BY <1>2
  <1>5. MakeReceipt(run[p]) = Store!ReceiptOf(run[p].body, run[p].header)
    BY <1>4 DEF MakeReceipt, Store!ReceiptOf
  <1>6. run[p].header \in {Size[b] : b \in Bodies} \cup {Absent}
    BY DEF HeadersAreLengths, Lengths
  <1>7. QED
    BY <1>1, <1>2, <1>3, <1>5, <1>6 DEF Store!Describe

LEMMA OtherStepsStutter ==
    ASSUME [Next]_vars, \A p \in Invocations : ~Commit(p) /\ ~ReplaceReceipt(p)
    PROVE  UNCHANGED <<quarantine, receipts, raced>>
  BY DEF Next, Step, Publish, Start, Open, Stream, Verify, Compare, WriteReceipt, Kill,
         files, vars

LEMMA StoreStep ==
    ASSUME IInv, FoundAbsent, NoneRaced, HeadersAreLengths, [Next]_vars
    PROVE  NoneRaced' /\ [Store!Next]_(Store!store)
  <1>1. ASSUME NEW p \in Invocations, Commit(p)
        PROVE  NoneRaced' /\ [Store!Next]_(Store!store)
    <2>1. NoneRaced' /\ UNCHANGED receipts
      BY <1>1 DEF Commit, Replace, FoundAbsent, NoneRaced, files
    <2>2. CASE UNCHANGED quarantine
      BY <2>1, <2>2 DEF Store!store
    <2>3. CASE ~UNCHANGED quarantine
      BY <1>1, <2>1, <2>3, CommitDeposits DEF Store!Next
    <2>4. QED
      BY <2>2, <2>3, <2>1
  <1>2. ASSUME NEW p \in Invocations, ReplaceReceipt(p)
        PROVE  NoneRaced' /\ [Store!Next]_(Store!store)
    <2>1. NoneRaced' /\ UNCHANGED quarantine
      BY <1>2 DEF ReplaceReceipt, NoneRaced
    <2>2. CASE UNCHANGED receipts
      BY <2>1, <2>2 DEF Store!store
    <2>3. CASE ~UNCHANGED receipts
      BY <1>2, <2>1, <2>3, ReplaceReceiptDescribes DEF Store!Next, NoneRaced
    <2>4. QED
      BY <2>2, <2>3, <2>1
  <1>3. CASE \A p \in Invocations : ~Commit(p) /\ ~ReplaceReceipt(p)
    BY <1>3, OtherStepsStutter DEF Store!store, NoneRaced
  <1>4. QED
    BY <1>1, <1>2, <1>3

(***************************************************************************)
(* The utility's promise to the readers of its two directories, for one    *)
(* invocation at a time (acquire_one): the store that is written once,     *)
(* whose receipts describe what is there, whatever fails and is killed.    *)
(***************************************************************************)
THEOREM AloneImplementsStore == Alone /\ Spec => ImplementsStore
  <1> SUFFICES ASSUME Alone PROVE Spec => ImplementsStore
    OBVIOUS
  <1>1. Init => FoundAbsent /\ NoneRaced /\ HeadersAreLengths /\ Store!Init
    BY BodiesAssumption DEF Init, FoundAbsent, NoneRaced, HeadersAreLengths, Lengths, Store!Init
  <1>2. IInv /\ FoundAbsent /\ [Next]_vars => FoundAbsent'
    BY FoundAbsentNext
  <1>3. IInv /\ HeadersAreLengths /\ [Next]_vars => HeadersAreLengths'
    BY HeadersNext DEF IInv
  <1>4. IInv /\ FoundAbsent /\ NoneRaced /\ HeadersAreLengths /\ [Next]_vars =>
          NoneRaced' /\ [Store!Next]_(Store!store)
    BY StoreStep
  <1>5. QED
    BY <1>1, <1>2, <1>3, <1>4, InvariantInit, InvariantNext, PTL
       DEF Spec, ImplementsStore, Store!Spec

=============================================================================
