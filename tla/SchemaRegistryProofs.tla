------------------------ MODULE SchemaRegistryProofs ------------------------
(***************************************************************************)
(* What the report of a schema validation tells, for any files, documents  *)
(* and identifiers, in any order of the files and however they are edited  *)
(* meanwhile: that status 0 is earned, and that each file gets the verdict *)
(* its references deserve where nothing about them is ambiguous.           *)
(***************************************************************************)
EXTENDS SchemaRegistry, TLAPS, FiniteSetTheorems, WellFoundedInduction

Registered ==
    {f \in Loaded : \/ run.phase = "validate"
                    \/ run.phase = "exited" /\ run.exit # "parser"
                    \/ run.phase = "register" /\ f \notin run.todo}

Validated ==
    {f \in Loaded : \/ run.phase = "validate" /\ f \notin run.todo
                    \/ run.exit \in {"pass", "fail"}}

Refuted(f) ==
    \/ ~run.loaded[f].valid
    \/ \E ref \in run.loaded[f].refs : RefIssue(f, ref) # {}

Shape ==
    /\ run.phase = "discover" => run.found = {} /\ \A f \in Files : run.issues[f] = {}
    /\ \A f \in Files : run.loaded[f] # Absent => f \in run.found
    /\ run.todo \subseteq run.found
    /\ run.phase \in {"register", "validate"} => run.todo \subseteq Loaded
    /\ run.exit # Absent => run.phase = "exited"

\* What a file that was discovered has become.
Read ==
    /\ \A f \in run.found :
          IF run.phase = "load" /\ f \in run.todo
          THEN run.loaded[f] = Absent /\ run.issues[f] = {}
          ELSE run.loaded[f] # Absent \/ run.issues[f] # {} \/ run.exit = "parser"
    /\ run.phase = "load" => \A f \in Loaded : run.issues[f] = {}
    /\ edits = 0 =>
          /\ \A f \in Loaded : run.loaded[f] = directory[f]
          /\ run.phase # "discover" => \A f \in Files \ run.found : directory[f] = Absent

\* What the registry holds, and what it holds it under.
Entered ==
    /\ run.registry[Empty] = Absent
    /\ \A u \in URIs : run.registry[u] # Absent =>
          run.registry[u] \in Registered /\ Bears(run.registry[u], u)
    /\ \A f \in Registered :
          /\ run.registry[NameOf[f]] # Absent
          /\ run.loaded[f].id \in Ids => run.registry[run.loaded[f].id] # Absent

\* An issue has a cause, and a cause an issue.
Charged ==
    /\ \A f \in Validated : run.issues[f] = {} => ~Refuted(f)
    /\ \A f \in Registered : run.issues[f] = {} => ~Repeats(f)
    /\ run.exit \notin Traceback =>
          \A f \in Loaded : run.issues[f] # {} => Repeats(f) \/ (f \in Validated /\ Refuted(f))
    /\ run.exit = "pass" => \A f \in run.found : Passes(f)

Inv ==
    TypeOK /\ Shape /\ Read /\ Entered /\ Charged
-----------------------------------------------------------------------------
LEMMA LeastFile ==
    ASSUME NEW T, T \subseteq Nat, T # {}
    PROVE  \E x \in T : \A y \in T : x <= y
  <1>1. PICK x \in T : \A y \in T : ~(<<y, x>> \in OpToRel(<, Nat))
    BY NatLessThanWellFounded, WFMin
  <1>2. ASSUME NEW y \in T PROVE x <= y
    <2>1. x \in Nat /\ y \in Nat
      OBVIOUS
    <2>2. ~(y < x)
      BY <1>1, <2>1 DEF OpToRel
    <2> QED BY <2>1, <2>2
  <1> QED BY <1>2

LEMMA NowIsNext ==
    ASSUME TypeOK, run.todo # {}
    PROVE  Now \in run.todo /\ Now \in Files
  <1>1. run.todo \subseteq Nat
    BY FilesAssumption DEF TypeOK, Run
  <1>2. \E f \in run.todo : \A g \in run.todo : f <= g
    BY <1>1, LeastFile
  <1>3. Now \in run.todo
    BY <1>2 DEF Now
  <1> QED BY <1>3 DEF TypeOK, Run

LEMMA LeastNow ==
    ASSUME TypeOK, run.todo # {}
    PROVE  \A f \in run.todo : Now <= f
  <1>1. run.todo \subseteq Nat
    BY FilesAssumption DEF TypeOK, Run
  <1>2. \E f \in run.todo : \A g \in run.todo : f <= g
    BY <1>1, LeastFile
  <1> QED BY <1>2 DEF Now

\* While neither documents nor registry change, nor does what they amount to.
Settled ==
    /\ run'.loaded = run.loaded /\ run'.registry = run.registry
    /\ run'.allow = run.allow /\ run'.found = run.found

LEMMA SettledJudgement ==
    ASSUME Settled
    PROVE  /\ Loaded' = Loaded
           /\ \A f : Repeats(f)' <=> Repeats(f)
           /\ \A f : Refuted(f)' <=> Refuted(f)
           /\ \A f, u : Bears(f, u)' <=> Bears(f, u)
  <1>1. Loaded' = Loaded
    BY DEF Settled, Loaded
  <1>2. \A f : Repeats(f)' <=> Repeats(f)
    BY <1>1 DEF Settled, Repeats
  <1>4. \A f, u : Bears(f, u)' <=> Bears(f, u)
    BY DEF Settled, Bears
  <1>3. ASSUME NEW f PROVE Refuted(f)' <=> Refuted(f)
    BY DEF Settled, Refuted, RefIssue, Resolves, HasPart, Target, Base
  <1> QED BY <1>1, <1>2, <1>3, <1>4

LEMMA Initially == Init => Inv
  <1> SUFFICES ASSUME Init PROVE Inv
    OBVIOUS
  <1>1. PICK allow \in BOOLEAN :
          run = [phase |-> "discover", allow |-> allow, todo |-> {}, found |-> {},
                 loaded |-> [f \in Files |-> Absent],
                 registry |-> [u \in URIs |-> Absent],
                 issues |-> [f \in Files |-> {}], exit |-> Absent]
    BY DEF Init
  <1>2. Loaded = {}
    BY <1>1 DEF Loaded
  <1>3. TypeOK
    BY <1>1, DocumentsAssumption, DistinctAssumption DEF Init, TypeOK, Run
  <1>4. Shape /\ Read
    BY <1>1, <1>2 DEF Shape, Read
  <1>5. Entered
    BY <1>1, <1>2 DEF Entered, Registered, URIs
  <1>6. run.exit \notin {"pass", "fail"}
    BY <1>1, DistinctAssumption
  <1>7. Charged
    BY <1>1, <1>2, <1>6 DEF Charged, Validated, Registered
  <1> QED BY <1>3, <1>4, <1>5, <1>7 DEF Inv

-----------------------------------------------------------------------------
LEMMA EditPreserves == Inv /\ Edit => Inv'
  <1> SUFFICES ASSUME Inv, Edit PROVE Inv'
    OBVIOUS
  <1>1. PICK f \in Files, c \in Contents : directory' = [directory EXCEPT ![f] = c]
    BY DEF Edit
  <1>2. run' = run /\ edits' = edits + 1 /\ edits < MaxEdits
    BY DEF Edit
  <1>3. TypeOK' /\ edits' # 0
    BY <1>1, <1>2, DistinctAssumption DEF Inv, TypeOK
  <1>4. Settled
    BY <1>2 DEF Settled
  <1>5. Shape' /\ Read' /\ Entered' /\ Charged'
    BY <1>2, <1>3, <1>4, SettledJudgement
       DEF Inv, Shape, Read, Entered, Charged, Registered, Validated, Passes
  <1> QED BY <1>3, <1>5 DEF Inv

LEMMA ExitFields ==
    ASSUME TypeOK, NEW status \in {"pass", "fail", "usage"} \cup Traceback, Exit(status)
    PROVE  /\ run' \in Run /\ Settled /\ run'.phase = "exited" /\ run'.todo = {}
           /\ run'.exit = status /\ run'.issues = run.issues
  BY DEF TypeOK, Exit, Run, Settled, Traceback

LEMMA DiscoverPreserves ==
    ASSUME Inv, Discover, UNCHANGED <<directory, edits>> PROVE Inv'
  <1> DEFINE found == {f \in Files : directory[f] # Absent}
  <1>1. run.phase = "discover" /\ run.found = {} /\ Loaded = {} /\ run.exit = Absent
    BY DEF Inv, Discover, Shape, Loaded
  <1>2. CASE found = {}
    <2>1. Exit("usage")
      BY <1>2 DEF Discover
    <2>2. /\ run' \in Run /\ Settled /\ run'.phase = "exited" /\ run'.todo = {}
          /\ run'.exit = "usage" /\ run'.issues = run.issues
      BY <2>1, ExitFields DEF Inv
    <2>3. Loaded' = {} /\ Registered = {} /\ Registered' = {} /\ Validated' = {}
      BY <1>1, <2>2, SettledJudgement DEF Registered, Validated
    <2>4. TypeOK'
      BY <2>2 DEF Inv, TypeOK
    <2>5. Shape' /\ Read'
      BY <1>1, <1>2, <2>2, <2>3 DEF Inv, Shape, Read, Settled
    <2>6. Entered'
      BY <2>2, <2>3 DEF Inv, Entered, Settled
    <2>7. Charged'
      BY <2>2, <2>3 DEF Charged
    <2> QED BY <2>4, <2>5, <2>6, <2>7 DEF Inv
  <1>3. CASE found # {}
    <2>1. run' = [run EXCEPT !.phase = "load", !.todo = found, !.found = found]
      BY <1>3 DEF Discover
    <2>2. /\ run'.phase = "load" /\ run'.todo = found /\ run'.found = found
          /\ run'.exit = run.exit /\ run'.issues = run.issues /\ run'.loaded = run.loaded
          /\ run'.registry = run.registry
      BY <2>1 DEF Inv, TypeOK, Run
    <2>3. TypeOK'
      BY <2>1 DEF Inv, TypeOK, Run
    <2>4. \A f \in Files : run.loaded[f] = Absent
      BY <1>1 DEF Inv, Shape
    <2>5. Loaded' = {} /\ Registered = {} /\ Registered' = {} /\ Validated' = {}
      BY <1>1, <2>2, <2>4 DEF Loaded, Registered, Validated
    <2>6. \A f \in Files : run.issues[f] = {}
      BY <1>1 DEF Inv, Shape
    <2>7. Shape'
      BY <1>1, <2>2, <2>4, <2>6 DEF Inv, Shape
    <2>8. Read'
      BY <2>2, <2>4, <2>5, <2>6 DEF Inv, Read
    <2>9. Entered'
      BY <2>2, <2>5 DEF Inv, Entered
    <2>10. Charged'
      BY <1>1, <2>2, <2>5, DistinctAssumption DEF Charged
    <2> QED BY <2>3, <2>7, <2>8, <2>9, <2>10 DEF Inv
  <1> QED BY <1>2, <1>3

\* Nothing is registered or validated while files are being loaded.
LEMMA NothingYet ==
    ASSUME Shape, run.phase = "load"
    PROVE  Registered = {} /\ Validated = {}
  BY DistinctAssumption DEF Shape, Registered, Validated

\* One file has become either a document or an issue.
LEMMA OneLoaded ==
    ASSUME Inv, run.phase = "load", run.todo # {}, UNCHANGED <<directory, edits>>,
           run'.phase = "load", run'.todo = run.todo \ {Now},
           run'.found = run.found, run'.exit = run.exit, run'.registry = run.registry,
           \A f \in Files \ {Now} : /\ run'.loaded[f] = run.loaded[f]
                                    /\ run'.issues[f] = run.issues[f],
           \/ run'.loaded[Now] = Absent /\ run'.issues[Now] # {}
           \/ /\ run'.loaded[Now] # Absent /\ run'.loaded[Now] = directory[Now]
              /\ run'.issues[Now] = {},
           run' \in Run
    PROVE  Inv'
  <1>1. TypeOK'
    BY DEF Inv, TypeOK
  <1>2. Now \in run.todo /\ Now \in Files
    BY NowIsNext DEF Inv
  <1>3. run.found \subseteq Files /\ run.todo \subseteq run.found
    BY DEF Inv, TypeOK, Run, Shape
  <1>4. Shape'
    BY <1>2, <1>3 DEF Inv, Shape
  <1>5. Registered = {} /\ Validated = {}
    BY NothingYet DEF Inv
  <1>6. Registered' = {} /\ Validated' = {}
    BY DistinctAssumption, <1>4 DEF Shape, Registered, Validated
  <1>7. \A f \in Loaded' : f \in Files /\ (f = Now \/ f \in Loaded)
    BY <1>3 DEF Loaded
  <1>8. Read'
    <2>1. \A f \in run'.found :
            IF f \in run'.todo
            THEN run'.loaded[f] = Absent /\ run'.issues[f] = {}
            ELSE run'.loaded[f] # Absent \/ run'.issues[f] # {} \/ run'.exit = "parser"
      BY <1>2, <1>3 DEF Inv, Read
    <2>2. \A f \in Loaded' : run'.issues[f] = {}
      BY <1>2, <1>7 DEF Inv, Read, Loaded
    <2>3. edits = 0 => \A f \in Loaded' : run'.loaded[f] = directory[f]
      BY <1>7 DEF Inv, Read, Loaded
    <2> QED BY <2>1, <2>2, <2>3 DEF Inv, Read
  <1>9. Entered'
    BY <1>5, <1>6 DEF Inv, Entered
  <1>10. Charged'
    BY <1>4, <1>6, <1>8, DistinctAssumption DEF Charged, Read, Shape
  <1> QED BY <1>1, <1>4, <1>8, <1>9, <1>10 DEF Inv

LEMMA LoadPreserves ==
    ASSUME Inv, Load, UNCHANGED <<directory, edits>> PROVE Inv'
  <1> DEFINE content == directory[Now]
  <1>1. run.phase = "load" /\ run.todo # {} /\ run \in Run
    BY DEF Load, Inv, TypeOK
  <1>2. Now \in run.todo /\ Now \in Files /\ Now \in run.found
    BY <1>1, NowIsNext DEF Inv, Shape
  <1>3. run.loaded[Now] = Absent /\ run.issues[Now] = {} /\ run.issues[Now] \in SUBSET Code
    BY <1>1, <1>2 DEF Inv, Read
  <1>4. ASSUME NEW code \in Code,
               run' = [run EXCEPT !.todo = run.todo \ {Now}, !.issues = Issue(code)]
        PROVE  Inv'
    <2>1. Issue(code) \in [Files -> SUBSET Code]
      BY <1>1, <1>2 DEF Issue, Run
    <2>2. run' \in Run
      BY <1>1, <1>4, <2>1 DEF Run
    <2>3. /\ run'.phase = "load" /\ run'.todo = run.todo \ {Now} /\ run'.found = run.found
          /\ run'.exit = run.exit /\ run'.registry = run.registry
          /\ run'.loaded = run.loaded /\ run'.issues = Issue(code)
      BY <1>1, <1>4 DEF Run
    <2>4. /\ Issue(code)[Now] # {}
          /\ \A f \in Files \ {Now} : Issue(code)[f] = run.issues[f]
      BY <1>1, <1>2 DEF Issue, Run
    <2> QED BY <1>1, <1>3, <2>2, <2>3, <2>4, OneLoaded
  <1>5. ASSUME content \in Documents,
               run' = [run EXCEPT !.todo = run.todo \ {Now},
                                  !.loaded = [@ EXCEPT ![Now] = content]]
        PROVE  Inv'
    <2> DEFINE loaded == [run.loaded EXCEPT ![Now] = content]
    <2>1. loaded \in [Files -> Documents \cup {Absent}]
      BY <1>1, <1>2, <1>5 DEF Run
    <2>2. run' = [run EXCEPT !.todo = run.todo \ {Now}, !.loaded = loaded]
      BY <1>5
    <2>3. /\ loaded[Now] = content
          /\ \A f \in Files \ {Now} : loaded[f] = run.loaded[f]
      BY <1>1, <1>2 DEF Run
    <2> HIDE DEF loaded
    <2>4. run' \in Run
      BY <1>1, <2>1, <2>2 DEF Run
    <2>5. /\ run'.phase = "load" /\ run'.todo = run.todo \ {Now} /\ run'.found = run.found
          /\ run'.exit = run.exit /\ run'.registry = run.registry
          /\ run'.loaded = loaded /\ run'.issues = run.issues
      BY <1>1, <2>2 DEF Run
    <2>6. content # Absent
      BY <1>5, DistinctAssumption
    <2> QED BY <1>1, <1>3, <2>3, <2>4, <2>5, <2>6, OneLoaded
  <1>6. content \in Contents
    BY <1>2 DEF Inv, TypeOK
  <1>7. CASE content \in {Unreadable, Absent, NotJSON, NotObject}
    <2>1. content # Overwhelming
      BY <1>7, DistinctAssumption
    <2> QED BY <1>4, <1>7, <2>1 DEF Load, Code
  <1>8. CASE content = Overwhelming
    <2>1. Exit("parser")
      BY <1>8, DistinctAssumption DEF Load
    <2>2. /\ run' \in Run /\ Settled /\ run'.phase = "exited" /\ run'.todo = {}
          /\ run'.exit = "parser" /\ run'.issues = run.issues
      BY <2>1, ExitFields DEF Inv, Traceback
    <2>3. Loaded' = Loaded /\ Registered = {} /\ Registered' = {} /\ Validated' = {}
      BY <1>1, <2>2, SettledJudgement, NothingYet DEF Inv, Registered, Validated
    <2>4. TypeOK' /\ Shape' /\ Read'
      BY <1>1, <2>2, <2>3 DEF Inv, TypeOK, Shape, Read, Settled
    <2>5. Entered'
      BY <2>2, <2>3 DEF Inv, Entered, Settled
    <2>6. Charged'
      BY <2>2, <2>3 DEF Charged, Traceback
    <2> QED BY <2>4, <2>5, <2>6 DEF Inv
  <1>9. CASE content \notin {Unreadable, Absent, NotJSON, NotObject, Overwhelming}
    <2>1. content \in Documents
      BY <1>6, <1>9 DEF Contents
    <2> QED BY <1>5, <1>9, <2>1 DEF Load
  <1> QED BY <1>7, <1>8, <1>9

LEMMA ContinuePreserves ==
    ASSUME Inv, Continue, UNCHANGED <<directory, edits>> PROVE Inv'
  <1>1. run.todo = {} /\ run \in Run
    BY DEF Inv, TypeOK, Continue
  <1>2. PICK to \in {"register", "validate"} :
          /\ run' = [run EXCEPT !.phase = to, !.todo = Loaded]
          /\ run.phase = IF to = "register" THEN "load" ELSE "register"
    BY DEF Continue
  <1>3. Loaded \subseteq Files /\ Loaded \subseteq run.found
    BY <1>1 DEF Loaded, Run
  <1>4. run' \in Run
    BY <1>1, <1>2, <1>3 DEF Run
  <1>5. /\ Settled /\ run'.phase = to /\ run'.todo = Loaded
        /\ run'.exit = run.exit /\ run'.issues = run.issues
    BY <1>1, <1>2 DEF Run, Settled
  <1>6. run.exit = Absent
    BY <1>2 DEF Inv, Shape
  <1>7. Loaded' = Loaded /\ Validated = {} /\ Validated' = {} /\ Registered' = Registered
    BY <1>1, <1>2, <1>5, <1>6, SettledJudgement, DistinctAssumption
       DEF Registered, Validated
  <1>8. TypeOK'
    BY <1>4 DEF Inv, TypeOK
  <1>9. Shape'
    BY <1>3, <1>5, <1>6, <1>7 DEF Inv, Shape, Settled
  <1>10. Read'
    BY <1>1, <1>2, <1>5, <1>7 DEF Inv, Read, Settled
  <1>11. Entered'
    BY <1>5, <1>7, SettledJudgement DEF Inv, Entered, Settled
  <1>12. Charged'
    BY <1>5, <1>6, <1>7, SettledJudgement, DistinctAssumption DEF Inv, Charged
  <1> QED BY <1>8, <1>9, <1>10, <1>11, <1>12 DEF Inv

\* One file has entered the registry, or an issue says why it has not.
LEMMA OneRegistered ==
    ASSUME Inv, run.phase = "register", run.todo # {}, UNCHANGED <<directory, edits>>,
           run' \in Run,
           run'.phase = "register", run'.todo = run.todo \ {Now},
           run'.found = run.found, run'.exit = run.exit, run'.loaded = run.loaded,
           run'.allow = run.allow,
           \A f \in Files \ {Now} : run'.issues[f] = run.issues[f],
           NEW fresh \in BOOLEAN,
           fresh <=> run.loaded[Now].id \in Ids /\ ~Repeats(Now),
           \A u \in URIs : run'.registry[u] =
              IF u = NameOf[Now] \/ (fresh /\ u = run.loaded[Now].id) THEN Now
              ELSE run.registry[u],
           \/ run'.issues[Now] = run.issues[Now] /\ (run.loaded[Now].id \in Ids => fresh)
           \/ run'.issues[Now] # {} /\ run.loaded[Now].id \in Ids /\ ~fresh
    PROVE  Inv'
  <1> DEFINE id == run.loaded[Now].id
  <1>1. Now \in run.todo /\ Now \in Files /\ Now \in Loaded /\ Now \notin Registered
    BY NowIsNext DEF Inv, Shape, Registered
  <1>2. Loaded' = Loaded /\ Loaded \subseteq Files /\ run.exit = Absent
    BY DEF Inv, Shape, Loaded, TypeOK, Run
  <1>3. Registered' = Registered \cup {Now}
    BY <1>1, <1>2 DEF Registered
  <1>4. Validated = {} /\ Validated' = {}
    BY <1>2, DistinctAssumption DEF Validated
  <1>5. TypeOK' /\ Shape'
    BY <1>2 DEF Inv, TypeOK, Shape
  <1>6. Read'
    <2>1. Now \in run.found /\ run.loaded[Now] # Absent /\ run.found \subseteq Files
      BY <1>1 DEF Loaded, Inv, TypeOK, Run
    <2>2. \A f \in run.found : \/ run.loaded[f] # Absent \/ run'.issues[f] # {}
                              \/ run.exit = "parser"
      BY <2>1 DEF Inv, Read
    <2> QED BY <1>2, <2>2 DEF Inv, Read
  <1>7. /\ Ids \subseteq URIs /\ Names \subseteq URIs /\ Empty \in URIs
        /\ Empty \notin Ids \cup Names
        /\ Absent \notin Files /\ NameOf \in [Files -> Names]
    BY FilesAssumption, DistinctAssumption DEF URIs
  <1>8. run'.registry[Empty] = Absent
    BY <1>1, <1>7 DEF Inv, Entered
  <1>9. \A f \in Registered' : NameOf[f] \in URIs
    BY <1>2, <1>7 DEF Registered
  <1>10. ASSUME NEW u \in URIs, run'.registry[u] # Absent
         PROVE  run'.registry[u] \in Registered' /\ Bears(run.registry[u], u)'
    <2>1. CASE u = NameOf[Now] \/ (fresh /\ u = id)
      BY <1>3, <2>1 DEF Bears
    <2>2. CASE ~(u = NameOf[Now] \/ (fresh /\ u = id))
      <3>1. run'.registry[u] = run.registry[u]
        BY <2>2
      <3>2. run.registry[u] \in Registered /\ Bears(run.registry[u], u)
        BY <1>10, <3>1 DEF Inv, Entered
      <3> QED BY <1>3, <3>1, <3>2 DEF Bears
    <2> QED BY <2>1, <2>2
  <1>11. \A u \in URIs : run.registry[u] # Absent => run'.registry[u] # Absent
    BY <1>1, <1>7
  <1>12. \A g \in Loaded : g < Now => g \in Registered
    <2>1. \A g \in run.todo : Now <= g
      BY LeastNow DEF Inv
    <2>2. Loaded \subseteq Nat /\ Now \in Nat
      BY <1>1, <1>2, FilesAssumption
    <2> QED BY <2>1, <2>2 DEF Registered
  <1>13. ASSUME NEW f \in Registered'
         PROVE  /\ run'.registry[NameOf[f]] # Absent
                /\ run.loaded[f].id \in Ids => run'.registry[run.loaded[f].id] # Absent
    <2>1. CASE f \in Registered
      <3> QED BY <1>7, <1>9, <1>11, <2>1 DEF Inv, Entered
    <2>2. CASE f = Now
      <3>1. run'.registry[NameOf[f]] # Absent
        BY <1>1, <1>7, <2>2
      <3>2. ASSUME id \in Ids PROVE run'.registry[id] # Absent
        <4>1. CASE fresh
          BY <1>1, <1>7, <3>2, <4>1
        <4>2. CASE ~fresh
          <5>1. PICK g \in Loaded : g < Now /\ run.loaded[g].id = id
            BY <3>2, <4>2 DEF Repeats
          <5>2. run.registry[id] # Absent
            BY <1>12, <3>2, <5>1 DEF Inv, Entered
          <5> QED BY <1>7, <1>11, <3>2, <5>2
        <4> QED BY <4>1, <4>2
      <3> QED BY <2>2, <3>1, <3>2
    <2> QED BY <1>3, <2>1, <2>2
  <1>14. Entered'
    BY <1>8, <1>10, <1>13 DEF Entered
  <1>15. \A f : Repeats(f)' <=> Repeats(f)
    BY <1>2 DEF Repeats
  <1>16. Charged'
    <2>1. \A f \in Loaded : run'.issues[f] # {} => Repeats(f)
      BY <1>2, <1>4, DistinctAssumption DEF Inv, Charged, Traceback
    <2>2. ASSUME NEW f \in Registered', run'.issues[f] = {} PROVE ~Repeats(f)
      <3>1. CASE f \in Registered
        <4>1. f \in Files /\ f # Now
          BY <1>1, <1>2, <3>1 DEF Registered
        <4> QED BY <2>2, <3>1, <4>1 DEF Inv, Charged
      <3>2. CASE f = Now
        BY <2>2, <3>2 DEF Repeats
      <3> QED BY <1>3, <3>1, <3>2
    <2> QED BY <1>2, <1>4, <1>15, <2>1, <2>2, DistinctAssumption DEF Charged
  <1> QED BY <1>5, <1>6, <1>14, <1>16 DEF Inv

LEMMA RegisterPreserves ==
    ASSUME Inv, Register, UNCHANGED <<directory, edits>> PROVE Inv'
  <1> DEFINE id == run.loaded[Now].id
             rest == run.todo \ {Now}
             entered == [run.registry EXCEPT ![id] = Now]
  <1>1. run.phase = "register" /\ run.todo # {} /\ run \in Run
    BY DEF Register, Inv, TypeOK
  <1>2. Now \in Files
    BY <1>1, NowIsNext DEF Inv
  <1>3. /\ run.registry \in [URIs -> Files \cup {Absent}]
        /\ run.issues \in [Files -> SUBSET Code]
    BY <1>1 DEF Run
  <1>4. NameOf[Now] \in Names /\ Ids \subseteq URIs /\ Names \subseteq URIs
    BY <1>2, FilesAssumption DEF URIs
  <1>5. \A registry \in [URIs -> Files \cup {Absent}] :
          /\ Named(registry) \in [URIs -> Files \cup {Absent}]
          /\ \A u \in URIs :
                Named(registry)[u] = IF u = NameOf[Now] THEN Now ELSE registry[u]
    BY <1>2, <1>4 DEF Named
  <1>6. CASE id \notin Ids
    <2>1. run' = [run EXCEPT !.todo = rest, !.registry = Named(run.registry)]
      BY <1>6 DEF Register
    <2>2. run' \in Run
      BY <1>1, <1>3, <1>5, <2>1 DEF Run
    <2>3. /\ run'.phase = "register" /\ run'.todo = rest /\ run'.found = run.found
          /\ run'.exit = run.exit /\ run'.loaded = run.loaded /\ run'.allow = run.allow
          /\ run'.issues = run.issues /\ run'.registry = Named(run.registry)
      BY <1>1, <2>1 DEF Run
    <2>4. \A u \in URIs : run'.registry[u] =
            IF u = NameOf[Now] \/ (FALSE /\ u = id) THEN Now ELSE run.registry[u]
      BY <1>3, <1>5, <2>3
    <2> QED BY <1>1, <1>6, <2>2, <2>3, <2>4, OneRegistered
  <1>7. CASE id \in Ids /\ ~Repeats(Now)
    <2>1. run' = [run EXCEPT !.todo = rest, !.registry = Named(entered)]
      BY <1>7 DEF Register
    <2>2. entered \in [URIs -> Files \cup {Absent}]
      BY <1>2, <1>3, <1>4
    <2>3. \A u \in URIs : entered[u] = IF u = id THEN Now ELSE run.registry[u]
      BY <1>3
    <2> HIDE DEF entered
    <2>4. run' \in Run
      BY <1>1, <1>5, <2>1, <2>2 DEF Run
    <2>5. /\ run'.phase = "register" /\ run'.todo = rest /\ run'.found = run.found
          /\ run'.exit = run.exit /\ run'.loaded = run.loaded /\ run'.allow = run.allow
          /\ run'.issues = run.issues /\ run'.registry = Named(entered)
      BY <1>1, <2>1 DEF Run
    <2>6. \A u \in URIs : run'.registry[u] =
            IF u = NameOf[Now] \/ (TRUE /\ u = id) THEN Now ELSE run.registry[u]
      BY <1>5, <2>2, <2>3, <2>5
    <2> QED BY <1>1, <1>7, <2>4, <2>5, <2>6, OneRegistered
  <1>8. CASE id \in Ids /\ Repeats(Now)
    <2> DEFINE issues == Issue("DUPLICATE_SCHEMA_ID")
    <2>1. run' = [run EXCEPT !.todo = rest, !.registry = Named(run.registry),
                             !.issues = issues]
      BY <1>8 DEF Register
    <2>2. /\ issues \in [Files -> SUBSET Code] /\ issues[Now] # {}
          /\ \A f \in Files \ {Now} : issues[f] = run.issues[f]
      BY <1>2, <1>3 DEF Issue, Code
    <2> HIDE DEF issues
    <2>3. run' \in Run
      BY <1>1, <1>3, <1>5, <2>1, <2>2 DEF Run
    <2>4. /\ run'.phase = "register" /\ run'.todo = rest /\ run'.found = run.found
          /\ run'.exit = run.exit /\ run'.loaded = run.loaded /\ run'.allow = run.allow
          /\ run'.issues = issues /\ run'.registry = Named(run.registry)
      BY <1>1, <2>1 DEF Run
    <2>5. \A u \in URIs : run'.registry[u] =
            IF u = NameOf[Now] \/ (FALSE /\ u = id) THEN Now ELSE run.registry[u]
      BY <1>3, <1>5, <2>4
    <2> QED BY <1>1, <1>8, <2>2, <2>3, <2>4, <2>5, OneRegistered
  <1> QED BY <1>6, <1>7, <1>8

LEMMA RefIssueType ==
    ASSUME NEW f, NEW ref PROVE RefIssue(f, ref) \subseteq Code
  BY DEF RefIssue, Code

LEMMA FoundIsRefuted ==
    ASSUME NEW f
    PROVE  Found(f) \subseteq Code /\ (Found(f) = {} <=> ~Refuted(f))
  BY RefIssueType DEF Found, Refuted, Code

\* What the last loop and the report leave alone.
LEMMA AfterRegistration ==
    ASSUME Inv, run.phase = "validate", Settled, UNCHANGED <<directory, edits>>,
           run' \in Run, run'.phase \in {"validate", "exited"},
           run'.phase = "exited" => run'.todo = {}, run'.todo \subseteq run.todo,
           run'.exit # Absent => run'.phase = "exited", run'.exit # "parser",
           \A f \in Files : run.issues[f] \subseteq run'.issues[f]
    PROVE  /\ TypeOK' /\ Shape' /\ Read' /\ Entered'
           /\ Loaded' = Loaded /\ Loaded \subseteq Files
           /\ Registered = Loaded /\ Registered' = Loaded
  <1>1. Loaded' = Loaded /\ Registered = Loaded /\ Registered' = Loaded
    BY SettledJudgement DEF Registered
  <1>2. Loaded \subseteq Files /\ run.found \subseteq Files
    BY DEF Loaded, Inv, TypeOK, Run
  <1>3. TypeOK' /\ Shape'
    BY <1>1 DEF Inv, TypeOK, Shape, Settled
  <1>4. Read'
    <2>1. run.exit = Absent /\ run.exit # "parser"
      BY DistinctAssumption DEF Inv, Shape, Traceback
    <2> QED BY <1>1, <1>2, <2>1 DEF Inv, Read, Settled
  <1>5. Entered'
    BY <1>1, <1>2, SettledJudgement DEF Inv, Entered, Settled
  <1> QED BY <1>1, <1>2, <1>3, <1>4, <1>5

LEMMA ValidatePreserves ==
    ASSUME Inv, Validate, UNCHANGED <<directory, edits>> PROVE Inv'
  <1>1. run.phase = "validate" /\ run.todo # {} /\ run \in Run /\ run.exit = Absent
    BY DEF Validate, Inv, TypeOK, Shape
  <1>2. Now \in run.todo /\ Now \in Files /\ Now \in Loaded
    BY <1>1, NowIsNext DEF Inv, Shape
  <1>3. ASSUME NEW cause \in {"walk", "reference"}, Exit(cause) PROVE Inv'
    <2>1. /\ run' \in Run /\ Settled /\ run'.phase = "exited" /\ run'.todo = {}
          /\ run'.exit = cause /\ run'.issues = run.issues
      BY <1>3, ExitFields DEF Inv, Traceback
    <2>2. TypeOK' /\ Shape' /\ Read' /\ Entered'
      BY <1>1, <2>1, AfterRegistration
    <2>3. Loaded' = Loaded /\ Registered' = Registered
      BY <1>1, <2>1, SettledJudgement DEF Registered
    <2>4. Charged'
      BY <2>1, <2>3, SettledJudgement DEF Inv, Charged, Validated, Traceback
    <2> QED BY <2>2, <2>4 DEF Inv
  <1>4. CASE ~Exit("walk") /\ ~Exit("reference")
    <2> DEFINE issues == [run.issues EXCEPT ![Now] = @ \cup Found(Now)]
    <2>1. run' = [run EXCEPT !.todo = @ \ {Now}, !.issues = issues]
      BY <1>4 DEF Validate
    <2>2. /\ issues \in [Files -> SUBSET Code]
          /\ issues[Now] = run.issues[Now] \cup Found(Now)
          /\ \A f \in Files \ {Now} : issues[f] = run.issues[f]
      BY <1>1, <1>2, FoundIsRefuted DEF Run
    <2> HIDE DEF issues
    <2>3. run' \in Run
      BY <1>1, <2>1, <2>2 DEF Run
    <2>4. /\ Settled /\ run'.phase = "validate" /\ run'.todo = run.todo \ {Now}
          /\ run'.exit = Absent /\ run'.issues = issues
      BY <1>1, <2>1 DEF Run, Settled
    <2>5. /\ TypeOK' /\ Shape' /\ Read' /\ Entered'
          /\ Loaded' = Loaded /\ Loaded \subseteq Files
          /\ Registered = Loaded /\ Registered' = Loaded
      <3>1. Absent # "parser"
        BY DistinctAssumption DEF Traceback
      <3> QED BY <1>1, <2>2, <2>3, <2>4, <3>1, AfterRegistration
    <2>6. Now \notin Validated /\ Validated' = Validated \cup {Now}
      BY <1>1, <1>2, <2>4, <2>5, DistinctAssumption DEF Validated
    <2>7. Validated \subseteq Loaded
      BY DEF Validated
    <2>8. \A f \in Validated' : issues[f] = {} => ~Refuted(f)
      BY <2>2, <2>5, <2>6, <2>7, FoundIsRefuted DEF Inv, Charged
    <2>9. \A f \in Loaded : issues[f] # {} => Repeats(f) \/ (f \in Validated' /\ Refuted(f))
      BY <1>1, <1>2, <2>2, <2>5, <2>6, FoundIsRefuted, DistinctAssumption
         DEF Inv, Charged, Traceback
    <2>10. \A f \in Loaded : issues[f] = {} => ~Repeats(f)
      BY <2>2, <2>5 DEF Inv, Charged
    <2>11. Charged'
      BY <2>4, <2>5, <2>8, <2>9, <2>10, SettledJudgement, DistinctAssumption DEF Charged
    <2> QED BY <2>5, <2>11 DEF Inv
  <1> QED BY <1>3, <1>4

LEMMA ReportPreserves ==
    ASSUME Inv, Report, UNCHANGED <<directory, edits>> PROVE Inv'
  <1>1. run.phase = "validate" /\ run.todo = {} /\ run.exit = Absent
    BY DEF Report, Inv, Shape
  <1>2. PICK status \in {"pass", "fail"} :
          Exit(status) /\ (status = "pass" => \A f \in run.found : Passes(f))
    BY DEF Report
  <1>3. /\ run' \in Run /\ Settled /\ run'.phase = "exited" /\ run'.todo = {}
        /\ run'.exit = status /\ run'.issues = run.issues
    BY <1>2, ExitFields DEF Inv
  <1>4. /\ TypeOK' /\ Shape' /\ Read' /\ Entered' /\ Loaded' = Loaded
        /\ Registered = Loaded /\ Registered' = Loaded
    BY <1>1, <1>3, AfterRegistration
  <1>5. Validated = Loaded /\ Validated' = Loaded
    BY <1>1, <1>3, <1>4 DEF Validated
  <1>6. Charged'
    BY <1>1, <1>2, <1>3, <1>4, <1>5, SettledJudgement, DistinctAssumption
       DEF Inv, Charged, Passes, Settled, Traceback
  <1> QED BY <1>4, <1>6 DEF Inv

LEMMA StepPreserves == Inv /\ [Next]_vars => Inv'
  <1> SUFFICES ASSUME Inv, [Next]_vars PROVE Inv'
    OBVIOUS
  <1>1. CASE Step
    BY <1>1, DiscoverPreserves, LoadPreserves, ContinuePreserves, RegisterPreserves,
       ValidatePreserves, ReportPreserves DEF Step
  <1>2. CASE Edit
    BY <1>2, EditPreserves
  <1>3. CASE UNCHANGED vars
    <2>1. run' = run /\ UNCHANGED <<directory, edits>> /\ Settled
      BY <1>3 DEF vars, Settled
    <2> QED BY <2>1, SettledJudgement
        DEF Inv, TypeOK, Shape, Read, Entered, Charged,
            Registered, Validated, Passes
  <1> QED BY <1>1, <1>2, <1>3 DEF Next
-----------------------------------------------------------------------------
LEMMA DocumentShape ==
    ASSUME TypeOK, NEW f \in Loaded
    PROVE  /\ f \in Files /\ NameOf[f] \in Names /\ run.loaded[f] \in Document
           /\ run.loaded[f].id \in Ids \cup {Empty, Absent}
           /\ Empty \notin Ids \cup Names /\ Absent \notin Ids \cup Names \cup {Empty}
  <1>1. f \in Files /\ run.loaded[f] \in Documents
    BY DEF TypeOK, Run, Loaded
  <1> QED BY <1>1, FilesAssumption, DocumentsAssumption, DistinctAssumption DEF Document, URIs

\* What is looked up is a key; it is not that of an empty identifier, where f has none.
LEMMA TargetIsKey ==
    ASSUME TypeOK, NEW f \in Loaded, NEW ref \in run.loaded[f].refs,
           ref.kind \in {"own", "relative", "remote"}
    PROVE  /\ Target(f, ref) \in URIs
           /\ run.loaded[f].id # Empty => Target(f, ref) \in Ids \cup Names
           /\ ref.kind # "own" => Target(f, ref) \in Ids \cup Names
           /\ ref.kind = "own" => Target(f, ref) = Base(f)
  <1>1. ref \in Ref
    BY DocumentShape DEF Document
  <1>2. ref.kind = "relative" => ref.to \in Names
    BY <1>1 DEF Ref
  <1>3. ref.kind = "remote" => ref.to \in Ids
    BY <1>1 DEF Ref
  <1>4. Base(f) \in Ids \cup Names \cup {Empty} /\ (run.loaded[f].id # Empty => Base(f) # Empty)
    BY DocumentShape DEF Base
  <1>5. \A i \in Ids : \A n \in Names : SiblingOf[i][n] \in Ids \cup Names
    BY FilesAssumption
  <1> QED BY <1>2, <1>3, <1>4, <1>5, DocumentShape DEF Target, URIs

\* A document goes by what it is looked up under.
LEMMA BearsItsBase ==
    ASSUME TypeOK, NEW f \in Loaded PROVE Bears(f, Base(f))
  BY DEF Bears, Base

\* Whatever a reference resolves into carries what was looked up.
LEMMA HolderBears ==
    ASSUME Inv, run.exit \in {"pass", "fail"}, NEW f \in Loaded,
           NEW ref \in run.loaded[f].refs, Resolves(f, ref)
    PROVE  \E holder \in Loaded : Bears(holder, Target(f, ref)) /\ HasPart(holder, ref.part)
  <1> DEFINE holder == run.registry[Target(f, ref)]
  <1>1. ref.kind \in {"own", "remote", "relative"} /\ holder # Absent /\ HasPart(holder, ref.part)
    BY DEF Resolves
  <1>2. Target(f, ref) \in URIs
    BY <1>1, TargetIsKey DEF Inv
  <1>3. holder \in Registered /\ Bears(holder, Target(f, ref))
    BY <1>1, <1>2 DEF Inv, Entered
  <1> QED BY <1>1, <1>3 DEF Registered

\* A document that carries what is looked up is registered under it, or another is.
LEMMA BornIsHeld ==
    ASSUME Inv, run.exit \in {"pass", "fail"}, NEW g \in Loaded, NEW u \in Ids \cup Names,
           Bears(g, u)
    PROVE  run.registry[u] \in Loaded /\ Bears(run.registry[u], u)
  <1>1. run.phase = "exited"
    BY DistinctAssumption DEF Inv, Shape
  <1>2. Registered = Loaded
    BY <1>1 DEF Registered
  <1>3. run.loaded[g].id = u => u \in Ids
    BY DocumentShape DEF Inv
  <1>4. CASE NameOf[g] = u
    BY <1>2, <1>4 DEF Inv, Entered, URIs
  <1>5. CASE NameOf[g] # u
    <2>1. run.loaded[g].id = u /\ u \in Ids
      BY <1>3, <1>5 DEF Bears
    <2> QED BY <1>2, <2>1 DEF Inv, Entered, URIs
  <1> QED BY <1>4, <1>5

\* Where what f looks up is carried by one document at most, lookup finds what is meant.
LEMMA PlainResolves ==
    ASSUME Inv, run.exit \in {"pass", "fail"}, NEW f \in Loaded, Plain(f),
           NEW ref \in run.loaded[f].refs
    PROVE  Resolves(f, ref) <=> \E g \in Meant(f, ref) : HasPart(g, ref.part)
  <1> DEFINE u == Target(f, ref)
  <1>1. CASE ref.kind \notin {"own", "relative", "remote"}
    BY <1>1 DEF Resolves, Meant
  <1>2. CASE ref.kind \in {"own", "relative", "remote"}
    <2>1. u \in Ids \cup Names /\ (ref.kind = "own" => u = Base(f))
      BY <1>2, TargetIsKey DEF Inv, Plain
    <2>2. \A g, h \in Loaded : Bears(g, u) /\ Bears(h, u) => g = h
      BY <1>2 DEF Plain
    <2>3. \A g \in Loaded : g \in Meant(f, ref) <=> Bears(g, u)
      <3>1. CASE ref.kind = "own"
        <4>1. Bears(f, u) /\ Meant(f, ref) = {f}
          BY <2>1, <3>1, BearsItsBase DEF Inv, Meant
        <4> QED BY <2>2, <4>1
      <3>2. CASE ref.kind # "own"
        BY <1>2, <3>2 DEF Meant
      <3> QED BY <3>1, <3>2
    <2>4. Meant(f, ref) \subseteq Loaded
      BY DEF Meant
    <2>5. ASSUME Resolves(f, ref) PROVE \E g \in Meant(f, ref) : HasPart(g, ref.part)
      BY <2>3, <2>5, HolderBears
    <2>6. ASSUME NEW g \in Meant(f, ref), HasPart(g, ref.part) PROVE Resolves(f, ref)
      <3>1. g \in Loaded /\ Bears(g, u)
        BY <2>3, <2>4
      <3>2. run.registry[u] \in Loaded /\ Bears(run.registry[u], u)
        BY <2>1, <3>1, BornIsHeld
      <3>3. run.registry[u] = g
        BY <2>2, <3>1, <3>2
      <3>4. g # Absent
        BY <3>1, DocumentShape, DistinctAssumption DEF Inv
      <3> QED BY <1>2, <2>6, <3>3, <3>4 DEF Resolves
    <2> QED BY <2>5, <2>6
  <1> QED BY <1>1, <1>2

\* After a report all that was loaded is registered and validated.
LEMMA AfterReport ==
    ASSUME Inv, run.exit \in {"pass", "fail"}
    PROVE  /\ run.phase = "exited" /\ run.exit \notin Traceback
           /\ Registered = Loaded /\ Validated = Loaded
           /\ run.found \subseteq Files /\ Loaded \subseteq run.found
           /\ \A f \in run.found \ Loaded : run.issues[f] # {}
  <1>1. run.phase = "exited" /\ run.exit \notin Traceback
    BY DistinctAssumption DEF Inv, Shape, Traceback
  <1>2. Registered = Loaded /\ Validated = Loaded
    BY <1>1 DEF Registered, Validated, Traceback
  <1>3. run.found \subseteq Files /\ Loaded \subseteq run.found
    BY DEF Inv, TypeOK, Run, Loaded
  <1>4. \A f \in run.found \ Loaded : run.issues[f] # {}
    BY <1>1 DEF Inv, Read, Loaded, Traceback
  <1> QED BY <1>1, <1>2, <1>3, <1>4
-----------------------------------------------------------------------------
(***************************************************************************)
(* Status 0 is earned: everything discovered was loaded, is valid, repeats *)
(* no identifier, and refers into what it means, whatever is edited        *)
(* meanwhile and whatever keys the documents share - save that a           *)
(* document's own fragment may exist only in another document that carries *)
(* the key it goes by (FoundElsewhere).                                    *)
(***************************************************************************)
THEOREM StatusZeroIsEarned == Spec => []ExitZeroIsSound
  <1>1. Inv => ExitZeroIsSound
    <2> SUFFICES ASSUME Inv, run.exit = "pass" PROVE ExitZeroIsSound
      BY DEF ExitZeroIsSound
    <2>1. \A f \in run.found : run.issues[f] = {}
      BY DEF Inv, Charged, Passes
    <2>2. Loaded = run.found /\ run.found \subseteq Files
      BY <2>1, AfterReport
    <2>3. \A f \in Loaded : ~Refuted(f) /\ ~Repeats(f)
      BY <2>1, <2>2, AfterReport DEF Inv, Charged
    <2>4. ASSUME NEW f \in Loaded, NEW ref \in run.loaded[f].refs
          PROVE  \/ \E g \in Meant(f, ref) : HasPart(g, ref.part)
                 \/ ref.kind = "remote" /\ run.allow
                 \/ FoundElsewhere(f, ref)
      <3>1. CASE ~Resolves(f, ref)
        BY <2>3, <3>1 DEF Refuted, RefIssue
      <3>2. CASE Resolves(f, ref)
        <4>1. PICK holder \in Loaded :
                 Bears(holder, Target(f, ref)) /\ HasPart(holder, ref.part)
          BY <3>2, HolderBears
        <4>2. CASE ref.kind = "own" /\ holder = f
          BY <4>1, <4>2 DEF Meant
        <4>3. CASE ref.kind = "own" /\ holder # f
          BY <4>1, <4>3 DEF FoundElsewhere, Target
        <4>4. CASE ref.kind # "own"
          BY <3>2, <4>1, <4>4 DEF Meant, Resolves
        <4> QED BY <4>2, <4>3, <4>4
      <3> QED BY <3>1, <3>2
    <2>5. \A f \in Loaded : run.loaded[f].valid
      BY <2>3 DEF Refuted
    <2>6. ASSUME edits = 0, NEW f \in Files PROVE run.loaded[f] = directory[f]
      <3>1. CASE f \in run.found
        BY <2>2, <2>6, <3>1 DEF Inv, Read
      <3>2. CASE f \notin run.found
        BY <2>6, <3>2, AfterReport DEF Inv, Read, Shape
      <3> QED BY <3>1, <3>2
    <2> QED BY <2>2, <2>3, <2>4, <2>5, <2>6 DEF ExitZeroIsSound
  <1> QED BY Initially, StepPreserves, <1>1, PTL DEF Spec

(***************************************************************************)
(* The verdict on each file is the one its author expects, in either       *)
(* direction, where none of the keys the file looks up is carried by two   *)
(* documents: whatever other files confuse, and in whatever order the      *)
(* files were registered.                                                  *)
(***************************************************************************)
THEOREM VerdictsAreDeserved == Spec => []FileVerdicts
  <1>1. Inv => FileVerdicts
    <2> SUFFICES ASSUME Inv, run.exit \in {"pass", "fail"},
                        NEW f \in run.found, f \in Loaded => Plain(f)
                 PROVE  Passes(f) <=>
                           f \in Loaded /\ run.loaded[f].valid /\ ~Repeats(f) /\ Closed(f)
      BY DEF FileVerdicts
    <2>1. CASE f \notin Loaded
      BY <2>1, AfterReport DEF Passes
    <2>2. CASE f \in Loaded
      <3>1. Passes(f) <=> ~Repeats(f) /\ ~Refuted(f)
        BY <2>2, AfterReport DEF Inv, Charged, Passes
      <3>2. ASSUME NEW ref \in run.loaded[f].refs
            PROVE  RefIssue(f, ref) = {} <=>
                      \/ \E g \in Meant(f, ref) : HasPart(g, ref.part)
                      \/ ref.kind = "remote" /\ run.allow
        BY <2>2, PlainResolves DEF RefIssue
      <3>3. ~Refuted(f) <=> run.loaded[f].valid /\ Closed(f)
        BY <3>2 DEF Refuted, Closed
      <3> QED BY <2>2, <3>1, <3>3
    <2> QED BY <2>1, <2>2
  <1> QED BY Initially, StepPreserves, <1>1, PTL DEF Spec

\* The registry, the identifiers and names entered in it and the run's account
\* have their types, for any files and documents (TypeOK).
THEOREM RegistryTypes == Spec => []TypeOK
  <1>1. Inv => TypeOK
    BY DEF Inv
  <1> QED BY Initially, StepPreserves, <1>1, PTL DEF Spec

-----------------------------------------------------------------------------
(***************************************************************************)
(* What ends a validation without a report.  It does not come past a       *)
(* document that does, so that the exit tells which there are.             *)
(***************************************************************************)
Fatal(document) == document.deep \/ Unsplittable(document)
NoDocument == {Unreadable, NotJSON, NotObject, Absent}

Causes ==
    /\ run.phase = "validate" => \A f \in Loaded \ run.todo : ~Fatal(run.loaded[f])
    /\ run.exit \in {"pass", "fail"} => \A f \in Loaded : ~Fatal(run.loaded[f])
    /\ run.exit = "walk" => \E f \in Loaded : run.loaded[f].deep
    /\ run.exit = "reference" => \E f \in Loaded : Unsplittable(run.loaded[f])
    /\ run.exit = "parser" /\ edits = 0 => \E f \in Files : directory[f] = Overwhelming
    /\ run.exit # "parser" /\ edits = 0 =>
          \A f \in run.found \ Loaded :
              (run.phase = "load" /\ f \in run.todo) \/ directory[f] \in NoDocument

\* The directory holds what ends every validation of it in a traceback.
Hopeless ==
    \E f \in Files : directory[f] = Overwhelming \/
                     (directory[f] \in Documents /\ Fatal(directory[f]))

TracebacksHaveCauses ==
    /\ run.exit \in {"pass", "fail"} => \A f \in Loaded : ~Fatal(run.loaded[f])
    /\ run.exit = "walk" => \E f \in Loaded : run.loaded[f].deep
    /\ run.exit = "reference" => \E f \in Loaded : Unsplittable(run.loaded[f])
    /\ edits = 0 /\ run.exit \in {"pass", "fail"} \cup Traceback =>
          (run.exit \in Traceback <=> Hopeless)

LEMMA ValidateKeepsCauses ==
    ASSUME Inv, Causes, Validate, UNCHANGED <<directory, edits>>
    PROVE  Causes'
  <1>1. run.phase = "validate" /\ Now \in run.todo /\ run.todo \subseteq Loaded
    BY NowIsNext DEF Validate, Inv, Shape
  <1>2. run.exit = Absent /\ run \in Run
    BY <1>1 DEF Inv, Shape, TypeOK
  <1>3. CASE run.loaded[Now].deep /\ Exit("walk")
    <2>1. /\ run'.phase = "exited" /\ run'.exit = "walk"
          /\ run'.loaded = run.loaded /\ run'.found = run.found
      BY <1>2, <1>3 DEF Exit, Run
    <2>2. Loaded' = Loaded
      BY <2>1 DEF Loaded
    <2> QED BY <1>1, <1>2, <1>3, <2>1, <2>2, DistinctAssumption DEF Causes, Traceback
  <1>4. CASE Unsplittable(run.loaded[Now]) /\ Exit("reference")
    <2>1. /\ run'.phase = "exited" /\ run'.exit = "reference"
          /\ run'.loaded = run.loaded /\ run'.found = run.found
      BY <1>2, <1>4 DEF Exit, Run
    <2>2. Loaded' = Loaded
      BY <2>1 DEF Loaded
    <2> QED BY <1>1, <1>2, <1>4, <2>1, <2>2, DistinctAssumption DEF Causes, Traceback
  <1>5. CASE /\ ~run.loaded[Now].deep /\ ~Unsplittable(run.loaded[Now])
             /\ run' = [run EXCEPT !.todo = @ \ {Now},
                               !.issues = [@ EXCEPT ![Now] = run.issues[Now] \cup Found(Now)]]
    <2>1. /\ run'.phase = "validate" /\ run'.exit = Absent /\ run'.todo = run.todo \ {Now}
          /\ run'.loaded = run.loaded /\ run'.found = run.found
      BY <1>1, <1>2, <1>5 DEF Run
    <2>2. Loaded' = Loaded
      BY <2>1 DEF Loaded
    <2> QED BY <1>1, <1>2, <1>5, <2>1, <2>2, DistinctAssumption DEF Causes, Fatal, Traceback
  <1> QED BY <1>3, <1>4, <1>5 DEF Validate

LEMMA LoadKeepsCauses ==
    ASSUME Inv, Causes, Load, UNCHANGED <<directory, edits>>
    PROVE  Causes'
  <1> DEFINE content == directory[Now]
  <1>1. run.phase = "load" /\ Now \in run.todo /\ Now \in Files /\ run \in Run
    BY NowIsNext DEF Load, Inv, TypeOK
  <1>2. run.exit = Absent /\ run.todo \subseteq run.found
    BY <1>1 DEF Inv, Shape
  <1>3. CASE content = Overwhelming
    <2>1. Exit("parser")
      BY <1>3, DistinctAssumption DEF Load
    <2>2. run'.phase = "exited" /\ run'.exit = "parser"
      BY <1>1, <2>1 DEF Exit, Run
    <2> QED BY <1>1, <1>3, <2>2 DEF Causes
  <1>4. CASE content # Overwhelming
    <2>1. /\ run'.phase = "load" /\ run'.exit = Absent /\ run'.found = run.found
          /\ run'.todo = run.todo \ {Now}
      BY <1>1, <1>2, <1>4 DEF Load, Run
    <2>2. content \in NoDocument \/ run'.loaded[Now] # Absent
      <3>1. CASE content \in NoDocument
        BY <3>1
      <3>2. CASE content \notin NoDocument
        <4>1. content \in Documents
          BY <1>1, <1>4, <3>2 DEF Inv, TypeOK, Contents, NoDocument
        <4>2. run' = [run EXCEPT !.todo = run.todo \ {Now},
                                 !.loaded = [@ EXCEPT ![Now] = content]]
          BY <1>4, <3>2 DEF Load, NoDocument
        <4>3. run'.loaded = [run.loaded EXCEPT ![Now] = content]
          BY <1>1, <4>2 DEF Run
        <4>4. run'.loaded[Now] = content
          BY <1>1, <4>3 DEF Run
        <4> QED BY <4>1, <4>4, DistinctAssumption
      <3> QED BY <3>1, <3>2
    <2>3. \A f \in Files : run.loaded[f] # Absent => run'.loaded[f] # Absent
      <3>1. run'.loaded = run.loaded \/ run'.loaded = [run.loaded EXCEPT ![Now] = content]
        BY <1>1, <1>4 DEF Load, Run
      <3>2. CASE content \in NoDocument
        BY <1>1, <1>4, <3>2 DEF Load, Run, NoDocument
      <3>3. CASE content \notin NoDocument
        <4>1. content \in Documents
          BY <1>1, <1>4, <3>3 DEF Inv, TypeOK, Contents, NoDocument
        <4> QED BY <1>1, <3>1, <4>1, DistinctAssumption DEF Run
      <3> QED BY <3>2, <3>3
    <2>4. \A f \in run'.found \ Loaded' : f \in run.found \ Loaded
      BY <1>1, <2>1, <2>3 DEF Loaded, Run
    <2>5. Now \in run'.found \ Loaded' => content \in NoDocument
      BY <2>2 DEF Loaded
    <2> QED BY <1>1, <1>2, <2>1, <2>4, <2>5, DistinctAssumption DEF Causes, Traceback
  <1> QED BY <1>3, <1>4

LEMMA StepKeepsCauses ==
    ASSUME Inv, Causes, [Next]_vars
    PROVE  Causes'
  <1>1. CASE run' = run /\ UNCHANGED <<directory, edits>>
    BY <1>1 DEF Causes, Loaded
  <1>2. CASE Edit
    <2>1. run' = run /\ edits' # 0
      BY <1>2, DistinctAssumption DEF Edit, Inv, TypeOK
    <2> QED BY <2>1 DEF Causes, Loaded
  <1>3. CASE Step
    <2>0. UNCHANGED <<directory, edits>> /\ run \in Run
      BY <1>3 DEF Step, Inv, TypeOK
    <2>1. CASE Discover
      <3>1. run.exit = Absent /\ \A f \in Files : run.loaded[f] = Absent
        BY <2>1 DEF Discover, Inv, Shape
      <3>2. /\ run'.exit \in {Absent, "usage"} /\ run'.phase \in {"load", "exited"}
            /\ run'.loaded = run.loaded
            /\ \/ run'.phase = "load" /\ run'.todo = run'.found
               \/ run'.phase = "exited" /\ run'.found = {}
        <4> DEFINE there == {f \in Files : directory[f] # Absent}
        <4>1. CASE there = {}
          <5>1. Exit("usage") /\ run.found = {}
            BY <2>1, <4>1 DEF Discover, Inv, Shape
          <5> QED BY <2>0, <5>1 DEF Exit, Run
        <4>2. CASE there # {}
          <5>1. run' = [run EXCEPT !.phase = "load", !.todo = there, !.found = there]
            BY <2>1, <4>2 DEF Discover
          <5> HIDE DEF there
          <5> QED BY <2>0, <3>1, <5>1 DEF Run
        <4> QED BY <4>1, <4>2
      <3>3. run'.exit \notin {"pass", "fail", "walk", "reference", "parser"}
        BY <3>2, DistinctAssumption DEF Traceback
      <3>4. \A f \in run'.found \ Loaded' : run'.phase = "load" /\ f \in run'.todo
        BY <3>2
      <3> QED BY <3>2, <3>3, <3>4 DEF Causes
    <2>2. CASE Load
      BY <2>0, <2>2, LoadKeepsCauses
    <2>3. CASE Continue
      <3>1. run.exit = Absent
        BY <2>3 DEF Continue, Inv, Shape
      <3>2. /\ run'.exit = Absent /\ run'.todo = Loaded /\ run.todo = {}
            /\ run'.loaded = run.loaded /\ run'.found = run.found
            /\ run'.phase \in {"register", "validate"}
        BY <2>0, <2>3, <3>1 DEF Continue, Run
      <3>3. Loaded' = Loaded
        BY <3>2 DEF Loaded
      <3> QED BY <2>0, <3>1, <3>2, <3>3, DistinctAssumption DEF Causes, Traceback
    <2>4. CASE Register
      <3>1. run.exit = Absent /\ run.phase = "register"
        BY <2>4 DEF Register, Inv, Shape
      <3>2. /\ run'.exit = Absent /\ run'.phase = "register"
            /\ run'.loaded = run.loaded /\ run'.found = run.found
        BY <2>0, <2>4, <3>1 DEF Register, Run
      <3>3. Loaded' = Loaded
        BY <3>2 DEF Loaded
      <3> QED BY <2>0, <3>1, <3>2, <3>3, DistinctAssumption DEF Causes, Traceback
    <2>5. CASE Validate
      BY <2>0, <2>5, ValidateKeepsCauses
    <2>6. CASE Report
      <3>1. run.exit = Absent /\ run.phase = "validate" /\ run.todo = {}
        BY <2>6 DEF Report, Inv, Shape
      <3>2. /\ run'.phase = "exited" /\ run'.exit \in {"pass", "fail"}
            /\ run'.loaded = run.loaded /\ run'.found = run.found
        BY <2>0, <2>6 DEF Report, Exit, Run
      <3>3. Loaded' = Loaded
        BY <3>2 DEF Loaded
      <3> QED BY <2>0, <3>1, <3>2, <3>3, DistinctAssumption DEF Causes, Traceback
    <2> QED BY <1>3, <2>1, <2>2, <2>3, <2>4, <2>5, <2>6 DEF Step
  <1> QED BY <1>1, <1>2, <1>3 DEF Next, vars

(***************************************************************************)
(* _load, _validate_one, and what NoReferenceAborts is worth: whoever gets *)
(* a report has loaded no document that is too deep to walk or holds a     *)
(* reference urlsplit refuses, and a traceback after loading has such a    *)
(* document for its cause.  Where nothing is edited a traceback ends the   *)
(* validation exactly if the directory holds such a document or JSON that  *)
(* json.loads gives up on: never for a reference that is merely unusable,  *)
(* remote or unresolved, nor for a file that is no schema at all.          *)
(***************************************************************************)
THEOREM AbortsHaveCauses == Spec => []TracebacksHaveCauses
  <1>1. Init => Causes
    BY DistinctAssumption DEF Init, Causes, Traceback
  <1>2. Inv /\ Causes => TracebacksHaveCauses
    <2> SUFFICES ASSUME Inv, Causes PROVE TracebacksHaveCauses
      OBVIOUS
    <2>1. ASSUME edits = 0, run.exit \in {"pass", "fail"} PROVE ~Hopeless
      <3>1. run.exit \notin Traceback
        BY <2>1, AfterReport
      <3>2. \A f \in run.found \ Loaded : directory[f] \in NoDocument
        BY <2>1, <3>1, AfterReport DEF Causes, Traceback
      <3>3. \A f \in Files \ run.found : directory[f] \in NoDocument
        BY <2>1, AfterReport DEF Inv, Read, NoDocument
      <3>4. \A f \in Loaded : directory[f] \in Documents /\ ~Fatal(directory[f])
        BY <2>1 DEF Causes, Inv, Read, TypeOK, Run, Loaded
      <3>5. \A f \in Files : \/ directory[f] \in NoDocument
                             \/ directory[f] \in Documents /\ ~Fatal(directory[f])
        BY <3>2, <3>3, <3>4
      <3>6. NoDocument \cap (Documents \cup {Overwhelming}) = {} /\ Overwhelming \notin Documents
        BY DistinctAssumption DEF NoDocument
      <3> QED BY <3>5, <3>6 DEF Hopeless
    <2>2. ASSUME edits = 0, run.exit \in {"walk", "reference"} PROVE Hopeless
      <3>1. PICK f \in Loaded : Fatal(run.loaded[f])
        BY <2>2 DEF Causes, Fatal
      <3>2. f \in Files /\ run.loaded[f] = directory[f] /\ run.loaded[f] \in Documents
        BY <2>2 DEF Inv, Read, TypeOK, Run, Loaded
      <3> QED BY <3>1, <3>2 DEF Hopeless
    <2>3. ASSUME edits = 0, run.exit = "parser" PROVE Hopeless
      BY <2>3 DEF Causes, Hopeless
    <2>4. run.exit \in {"pass", "fail"} => run.exit \notin Traceback
      BY DEF Traceback
    <2> QED BY <2>1, <2>2, <2>3, <2>4 DEF TracebacksHaveCauses, Causes, Traceback
  <1> QED BY Initially, StepPreserves, StepKeepsCauses, <1>1, <1>2, PTL DEF Spec

-----------------------------------------------------------------------------
(***************************************************************************)
(* A validation cannot go on for ever: three loops over the files, each    *)
(* with one step for a file that is left and one that ends it.             *)
(***************************************************************************)
Ahead(r) ==
    LET n == Cardinality(Files)
    IN  CASE r.phase = "discover" -> 3 * n + 4
          [] r.phase = "load"     -> 2 * n + 3 + Cardinality(r.todo)
          [] r.phase = "register" -> n + 2 + Cardinality(r.todo)
          [] r.phase = "validate" -> 1 + Cardinality(r.todo)
          [] OTHER -> 0

LEMMA FilesAreFinite ==
    ASSUME NEW T \in SUBSET Files
    PROVE  /\ IsFiniteSet(T) /\ Cardinality(T) \in Nat /\ Cardinality(Files) \in Nat
           /\ Cardinality(T) <= Cardinality(Files)
  BY FilesAssumption, FS_Subset, FS_CardinalityType

LEMMA AheadIsBounded ==
    ASSUME NEW r \in Run
    PROVE  Ahead(r) \in 0..3 * Cardinality(Files) + 4
  <1>1. r.todo \in SUBSET Files
    BY DEF Run
  <1> QED BY <1>1, FilesAreFinite DEF Ahead

LEMMA ExitShortens ==
    ASSUME TypeOK, NEW status \in {"pass", "fail", "usage"} \cup Traceback, Exit(status),
           run.phase # "exited"
    PROVE  Ahead(run') < Ahead(run)
  <1>1. Ahead(run') = 0
    BY ExitFields DEF Ahead
  <1>2. run \in Run /\ run.todo \in SUBSET Files
    BY DEF TypeOK, Run
  <1>3. run.phase \in {"discover", "load", "register", "validate"}
    BY <1>2 DEF Run
  <1> QED BY <1>1, <1>2, <1>3, FilesAreFinite DEF Ahead

\* One round of a loop.
LEMMA RoundShortens ==
    ASSUME TypeOK, run.todo # {}, run.phase \in {"load", "register", "validate"},
           run'.phase = run.phase, run'.todo = run.todo \ {Now}
    PROVE  Ahead(run') < Ahead(run)
  <1>1. run.todo \in SUBSET Files /\ Now \in run.todo
    BY NowIsNext DEF TypeOK, Run
  <1>2. IsFiniteSet(run.todo) /\ Cardinality(run.todo) \in Nat /\ Cardinality(Files) \in Nat
    BY <1>1, FilesAreFinite
  <1>3. Cardinality(run'.todo) = Cardinality(run.todo) - 1
    <2> DEFINE T == run.todo
    <2>1. IsFiniteSet(T) /\ Now \in T /\ run'.todo = T \ {Now}
      BY <1>1, <1>2
    <2> HIDE DEF T
    <2>2. Cardinality(T \ {Now}) = Cardinality(T) - 1
      BY <2>1, FS_RemoveElement
    <2> QED BY <2>1, <2>2 DEF T
  <1> DEFINE before == Cardinality(run.todo)
             after == Cardinality(run'.todo)
             all == Cardinality(Files)
  <1>4. before \in Nat /\ after = before - 1 /\ all \in Nat
    BY <1>2, <1>3
  <1> HIDE DEF before, after, all
  <1>5. CASE run.phase = "load"
    <2>1. Ahead(run) = 2 * all + 3 + before /\ Ahead(run') = 2 * all + 3 + after
      BY <1>5 DEF Ahead, before, after, all
    <2> QED BY <1>4, <2>1
  <1>6. CASE run.phase = "register"
    <2>1. Ahead(run) = all + 2 + before /\ Ahead(run') = all + 2 + after
      BY <1>6 DEF Ahead, before, after, all
    <2> QED BY <1>4, <2>1
  <1>7. CASE run.phase = "validate"
    <2>1. Ahead(run) = 1 + before /\ Ahead(run') = 1 + after
      BY <1>7 DEF Ahead, before, after, all
    <2> QED BY <1>4, <2>1
  <1> QED BY <1>5, <1>6, <1>7

LEMMA DiscoverShortens ==
    ASSUME TypeOK, Discover
    PROVE  Ahead(run') < Ahead(run)
  <1> DEFINE found == {f \in Files : directory[f] # Absent}
  <1>1. CASE found = {}
    BY <1>1, ExitShortens DEF Discover
  <1>2. CASE found # {}
    <2>1. run.phase = "discover" /\ run'.phase = "load" /\ run'.todo = found
      BY <1>2 DEF Discover, TypeOK, Run
    <2>2. found \in SUBSET Files
      OBVIOUS
    <2> HIDE DEF found
    <2> QED BY <2>1, <2>2, FilesAreFinite DEF Ahead
  <1> QED BY <1>1, <1>2

LEMMA ContinueShortens ==
    ASSUME TypeOK, Continue
    PROVE  Ahead(run') < Ahead(run)
  <1>1. /\ run.todo = {} /\ run'.todo = Loaded
        /\ <<run.phase, run'.phase>> \in {<<"load", "register">>, <<"register", "validate">>}
    BY DEF Continue, TypeOK, Run
  <1>2. Cardinality(run.todo) = 0
    BY <1>1, FS_EmptySet
  <1>3. Loaded \in SUBSET Files
    BY DEF TypeOK, Run, Loaded
  <1> QED BY <1>1, <1>2, <1>3, FilesAreFinite DEF Ahead

LEMMA StepShortens ==
    ASSUME TypeOK, Step
    PROVE  Ahead(run') < Ahead(run)
  <1>1. CASE Load
    <2>1. CASE directory[Now] = Overwhelming
      <3>1. Exit("parser")
        BY <1>1, <2>1, DistinctAssumption DEF Load
      <3> QED BY <1>1, <3>1, ExitShortens DEF Load, Traceback
    <2>2. CASE directory[Now] # Overwhelming
      <3>1. run'.phase = run.phase /\ run'.todo = run.todo \ {Now}
        BY <1>1, <2>2 DEF Load, TypeOK, Run
      <3> QED BY <1>1, <3>1, RoundShortens DEF Load
    <2> QED BY <2>1, <2>2
  <1>2. CASE Register
    <2>1. run'.phase = run.phase /\ run'.todo = run.todo \ {Now}
      BY <1>2 DEF Register, TypeOK, Run
    <2> QED BY <1>2, <2>1, RoundShortens DEF Register
  <1>3. CASE Validate
    <2>1. CASE Exit("walk") \/ Exit("reference")
      BY <1>3, <2>1, ExitShortens DEF Validate, Traceback
    <2>2. CASE ~Exit("walk") /\ ~Exit("reference")
      <3>1. run'.phase = run.phase /\ run'.todo = run.todo \ {Now}
        BY <1>3, <2>2 DEF Validate, TypeOK, Run
      <3> QED BY <1>3, <3>1, RoundShortens DEF Validate
    <2> QED BY <2>1, <2>2
  <1>4. CASE Report
    BY <1>4, ExitShortens DEF Report
  <1> QED BY <1>1, <1>2, <1>3, <1>4, DiscoverShortens, ContinueShortens DEF Step

\* What is bounded, and what lowers and never raises it.
AheadBounded == Ahead(run) \in 0..3 * Cardinality(Files) + 4
EveryStepCounts ==
    [][/\ Step => Ahead(run') < Ahead(run)
       /\ ~Step => Ahead(run') = Ahead(run)]_vars

(***************************************************************************)
(* validate_schema_directory: a validation takes at most 3 * |Files| + 4   *)
(* steps from discovery to its exit, however the files are edited in       *)
(* between; an edit neither lengthens nor shortens what is ahead of it.    *)
(***************************************************************************)
THEOREM ValidationsRunOut == Spec => []AheadBounded /\ EveryStepCounts
  <1>1. Inv => AheadBounded
    BY AheadIsBounded DEF AheadBounded, Inv, TypeOK
  <1>2. ASSUME Inv, [Next]_vars
        PROVE  /\ Step => Ahead(run') < Ahead(run)
               /\ ~Step => Ahead(run') = Ahead(run)
    <2>1. Step => Ahead(run') < Ahead(run)
      BY <1>2, StepShortens DEF Inv
    <2>2. ~Step => run' = run
      BY <1>2 DEF Next, Edit, vars
    <2> QED BY <2>1, <2>2
  <1>3. Inv /\ [Next]_vars =>
          [/\ Step => Ahead(run') < Ahead(run)
           /\ ~Step => Ahead(run') = Ahead(run)]_vars
    BY <1>2
  <1> QED BY <1>1, <1>3, Initially, StepPreserves, PTL DEF Spec, EveryStepCounts

=============================================================================
