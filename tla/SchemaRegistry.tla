---------------------------- MODULE SchemaRegistry ----------------------------
(***************************************************************************)
(* src/oic/schemas.py and "oic validate-schema": discovery of the schema   *)
(* files, loading them one by one, the registry under identifiers and file *)
(* names, the judgement of every document and reference, and the report.   *)
(* Files may be edited or deleted meanwhile.                               *)
(*                                                                         *)
(* A document stands for its identifier, whether the metaschema accepts    *)
(* it, whether it is nested too deeply to be walked, its references, and   *)
(* the parts a reference may point to.  An identifier may be relative, and *)
(* then be the bare name of a file.  Lookup follows the "referencing"      *)
(* library: a reference is joined with the base identifier and looked up   *)
(* in what was registered, nothing is fetched.  Identifiers embedded       *)
(* deeper in a document, what the library derives from them and from       *)
(* relative paths of several segments, and exceptions of the libraries     *)
(* other than those in Traceback are left out.                             *)
(***************************************************************************)
EXTENDS Naturals, FiniteSets

CONSTANTS
    Files,        \* paths; their order is that of the relative paths
    Names,        \* bare file names
    NameOf,       \* ... of each path; two directories may share one
    Ids,          \* values of "$id"; a relative one may be a bare file name
    Empty,        \* "$id": ""
    SiblingOf,    \* what a name gives when it is joined with an identifier
    Parts,        \* what a fragment may point to
    Documents,    \* JSON objects a file may hold
    NotJSON, NotObject, Unreadable,  \* other things it may hold
    Overwhelming, \* JSON that json.loads gives up on: an integer too long, too deep a nesting
    Directories,  \* directories a validation may start with
    MaxEdits,     \* bound on the edits during a validation
    Absent        \* no such file, identifier, fragment or value

\* kind: a bare fragment; a relative reference; one that names a remote scheme;
\* one that lookup cannot use; one that urlsplit cannot even split.
Ref ==
    [kind : {"own", "unusable", "unsplittable"}, to : {Absent}, part : Parts \cup {Absent}] \cup
    [kind : {"relative"}, to : Names, part : Parts \cup {Absent}] \cup
    [kind : {"remote"}, to : Ids \ Names, part : Parts \cup {Absent}]
Document ==
    [id : Ids \cup {Empty, Absent}, valid : BOOLEAN, deep : BOOLEAN,
     refs : SUBSET Ref, parts : SUBSET Parts]
Contents == Documents \cup {NotJSON, NotObject, Unreadable, Overwhelming, Absent}
URIs == Ids \cup Names \cup {Empty}

\* What may raise an exception that nobody catches, so that the command ends in a
\* traceback without a report: json.loads, the recursion over a document, urlsplit.
Traceback == {"parser", "walk", "reference"}

ASSUME FilesAssumption ==
    /\ Files \subseteq Nat /\ IsFiniteSet(Files)
    /\ NameOf \in [Files -> Names]
    /\ SiblingOf \in [Ids -> [Names -> Ids \cup Names]]
ASSUME DocumentsAssumption ==
    Documents \subseteq Document /\ Directories \subseteq [Files -> Contents]
ASSUME DistinctAssumption ==
    /\ Empty \notin Ids \cup Names /\ MaxEdits \in Nat
    /\ Absent \notin Files /\ Absent \notin URIs \cup Parts
    /\ Documents \cap {NotJSON, NotObject, Unreadable, Overwhelming, Absent} = {}
    /\ Overwhelming \notin {NotJSON, NotObject, Unreadable, Absent}
    /\ Absent \notin {"pass", "fail", "usage"} \cup Traceback

Code ==
    {"UNREADABLE", "UNPARSEABLE_JSON", "NOT_AN_OBJECT", "INVALID_METASCHEMA",
     "UNRESOLVED_LOCAL_REF", "EXTERNAL_REF_BLOCKED", "DUPLICATE_SCHEMA_ID"}

VARIABLES
    directory,  \* what the schema directory holds
    edits,      \* how often it was edited
    run         \* the validation

vars == <<directory, edits, run>>

\* todo: files the present loop has not come to.  found: those discovered.
\* exit: the command's status, 0, 1 or 2, or a traceback.
Run ==
    [phase : {"discover", "load", "register", "validate", "exited"}, allow : BOOLEAN,
     todo : SUBSET Files, found : SUBSET Files, loaded : [Files -> Documents \cup {Absent}],
     registry : [URIs -> Files \cup {Absent}], issues : [Files -> SUBSET Code],
     exit : {Absent, "pass", "fail", "usage"} \cup Traceback]

Init ==
    /\ directory \in Directories /\ edits = 0
    /\ \E allow \in BOOLEAN :
          run = [phase |-> "discover", allow |-> allow, todo |-> {}, found |-> {},
                 loaded |-> [f \in Files |-> Absent],
                 registry |-> [u \in URIs |-> Absent],
                 issues |-> [f \in Files |-> {}], exit |-> Absent]

Exit(status) == run' = [run EXCEPT !.phase = "exited", !.todo = {}, !.exit = status]

\* The next file in the order of the paths.
Now == CHOOSE f \in run.todo : \A g \in run.todo : f <= g
-----------------------------------------------------------------------------
Discover ==
    /\ run.phase = "discover"
    /\ LET found == {f \in Files : directory[f] # Absent}
       IN  IF found = {} THEN Exit("usage")
           ELSE run' = [run EXCEPT !.phase = "load", !.todo = found, !.found = found]

Issue(code) == [run.issues EXCEPT ![Now] = @ \cup {code}]

Load ==
    /\ run.phase = "load" /\ run.todo # {}
    /\ LET content == directory[Now]
           rest == run.todo \ {Now}
       IN  CASE content \in {Unreadable, Absent} ->
                  run' = [run EXCEPT !.todo = rest, !.issues = Issue("UNREADABLE")]
             [] content = NotJSON ->
                  run' = [run EXCEPT !.todo = rest, !.issues = Issue("UNPARSEABLE_JSON")]
             [] content = Overwhelming -> Exit("parser")
             [] content = NotObject ->
                  run' = [run EXCEPT !.todo = rest, !.issues = Issue("NOT_AN_OBJECT")]
             [] OTHER ->
                  run' = [run EXCEPT !.todo = rest, !.loaded = [@ EXCEPT ![Now] = content]]

Loaded == {f \in run.found : run.loaded[f] # Absent}

\* From one loop to the next.
Continue ==
    /\ run.todo = {}
    /\ \/ run.phase = "load" /\ run' = [run EXCEPT !.phase = "register", !.todo = Loaded]
       \/ run.phase = "register" /\ run' = [run EXCEPT !.phase = "validate", !.todo = Loaded]

Named(registry) == [registry EXCEPT ![NameOf[Now]] = Now]

\* A file before f in the order of the paths declares f's identifier.
Repeats(f) ==
    /\ run.loaded[f].id \in Ids
    /\ \E g \in Loaded : g < f /\ run.loaded[g].id = run.loaded[f].id

\* Regression: the file of a repeated identifier is left out without an issue.
RegisterQuietly ==
    /\ run.phase = "register" /\ run.todo # {}
    /\ LET id == run.loaded[Now].id
           rest == run.todo \ {Now}
       IN  run' =
             IF id \in Ids /\ ~Repeats(Now)
             THEN [run EXCEPT !.todo = rest, !.registry = Named([@ EXCEPT ![id] = Now])]
             ELSE [run EXCEPT !.todo = rest, !.registry = Named(@)]

\* Under its identifier, if no file before has it, and then in any case under its
\* name; what was registered under either before is replaced.
Register ==
    /\ run.phase = "register" /\ run.todo # {}
    /\ LET id == run.loaded[Now].id
           rest == run.todo \ {Now}
       IN  run' =
             IF id \notin Ids THEN [run EXCEPT !.todo = rest, !.registry = Named(@)]
             ELSE IF ~Repeats(Now)
             THEN [run EXCEPT !.todo = rest, !.registry = Named([@ EXCEPT ![id] = Now])]
             ELSE [run EXCEPT !.todo = rest, !.registry = Named(@),
                              !.issues = Issue("DUPLICATE_SCHEMA_ID")]

Base(f) == IF run.loaded[f].id = Absent THEN NameOf[f] ELSE run.loaded[f].id

Target(f, ref) ==
    CASE ref.kind = "own" -> Base(f)
      [] ref.kind = "remote" -> ref.to
      [] ref.kind = "relative" -> IF run.loaded[f].id \in Ids
                                THEN SiblingOf[run.loaded[f].id][ref.to] ELSE ref.to

HasPart(f, part) == part = Absent \/ part \in run.loaded[f].parts

Resolves(f, ref) ==
    /\ ref.kind \in {"own", "remote", "relative"}
    /\ LET holder == run.registry[Target(f, ref)]
       IN  holder # Absent /\ HasPart(holder, ref.part)

\* Regression: whoever allows remote references allows any that do not resolve.
RefIssueAllowed(f, ref) ==
    IF Resolves(f, ref) \/ run.allow THEN {}
    ELSE IF ref.kind # "remote" THEN {"UNRESOLVED_LOCAL_REF"} ELSE {"EXTERNAL_REF_BLOCKED"}

RefIssue(f, ref) ==
    IF Resolves(f, ref) THEN {}
    ELSE IF ref.kind # "remote" THEN {"UNRESOLVED_LOCAL_REF"}
    ELSE IF run.allow THEN {} ELSE {"EXTERNAL_REF_BLOCKED"}

Found(f) ==
    (UNION {RefIssue(f, ref) : ref \in run.loaded[f].refs}) \cup
    (IF run.loaded[f].valid THEN {} ELSE {"INVALID_METASCHEMA"})

Unsplittable(document) == \E ref \in document.refs : ref.kind = "unsplittable"

\* Where both exceptions are due, either comes first: it depends on the place of the reference.
Validate ==
    /\ run.phase = "validate" /\ run.todo # {}
    /\ \/ run.loaded[Now].deep /\ Exit("walk")
       \/ Unsplittable(run.loaded[Now]) /\ Exit("reference")
       \/ /\ ~run.loaded[Now].deep /\ ~Unsplittable(run.loaded[Now])
          /\ run' = [run EXCEPT !.todo = @ \ {Now},
                                !.issues = [@ EXCEPT ![Now] = run.issues[Now] \cup Found(Now)]]

Passes(f) == run.issues[f] = {}

Report ==
    /\ run.phase = "validate" /\ run.todo = {}
    /\ Exit(IF \A f \in run.found : Passes(f) THEN "pass" ELSE "fail")

Step ==
    /\ Discover \/ Load \/ Continue \/ Register \/ Validate \/ Report
    /\ UNCHANGED <<directory, edits>>

Edit ==
    /\ run.phase # "exited" /\ edits < MaxEdits
    /\ \E f \in Files : \E c \in Contents \ {directory[f]} :
          directory' = [directory EXCEPT ![f] = c]
    /\ edits' = edits + 1 /\ UNCHANGED run

Next == Step \/ Edit

Spec == Init /\ [][Next]_vars
-----------------------------------------------------------------------------
TypeOK ==
    /\ directory \in [Files -> Contents] /\ edits \in 0..MaxEdits /\ run \in Run

\* The documents that carry the key u, as a name or as an identifier.
Bears(f, u) == NameOf[f] = u \/ run.loaded[f].id = u

\* The documents an author may mean by a reference.
Meant(f, ref) ==
    IF ref.kind = "own" THEN {f}
    ELSE {g \in Loaded : ref.kind \in {"relative", "remote"} /\ Bears(g, Target(f, ref))}

Closed(f) ==
    \A ref \in run.loaded[f].refs :
        \/ \E g \in Meant(f, ref) : HasPart(g, ref.part)
        \/ ref.kind = "remote" /\ run.allow

\* f has no empty identifier, and no key it looks up is carried by two documents.
Plain(f) ==
    /\ run.loaded[f].id # Empty
    /\ \A ref \in run.loaded[f].refs : ref.kind \in {"own", "relative", "remote"} =>
          \A g, h \in Loaded : Bears(g, Target(f, ref)) /\ Bears(h, Target(f, ref)) => g = h

(***************************************************************************)
(* The report judges each file whose lookups are unambiguous as its author *)
(* would: the file passes exactly if it could be loaded, its document is a *)
(* valid schema, no file before it declares its identifier, and every      *)
(* reference in it points into a document it means.  The order in which    *)
(* the files were registered, and what the other files confuse, makes no   *)
(* difference to it.                                                       *)
(***************************************************************************)
FileVerdicts ==
    run.exit \in {"pass", "fail"} =>
        \A f \in run.found : (f \in Loaded => Plain(f)) =>
            (Passes(f) <=> f \in Loaded /\ run.loaded[f].valid /\ ~Repeats(f) /\ Closed(f))

\* The fragment exists in another document, one that carries what f goes by.
FoundElsewhere(f, ref) ==
    /\ ref.kind = "own"
    /\ \E g \in Loaded \ {f} : Bears(g, Base(f)) /\ HasPart(g, ref.part)

(***************************************************************************)
(* Status 0: all that was discovered was loaded, is valid and repeats no   *)
(* identifier, and every reference points into a document it means - with  *)
(* one exception.  A document's own fragment is looked up under what the   *)
(* document goes by, its identifier or else its file's bare name; where    *)
(* another file is registered under that too (a bare name in two           *)
(* directories, or a relative identifier that is a bare name), the         *)
(* fragment may exist only there.  If nothing was edited, what was loaded  *)
(* is the directory as it stands.                                          *)
(***************************************************************************)
ExitZeroIsSound ==
    run.exit = "pass" =>
        /\ Loaded = run.found
        /\ \A f \in Loaded : run.loaded[f].valid /\ ~Repeats(f)
        /\ \A f \in Loaded : \A ref \in run.loaded[f].refs :
              \/ \E g \in Meant(f, ref) : HasPart(g, ref.part)
              \/ ref.kind = "remote" /\ run.allow
              \/ FoundElsewhere(f, ref)
        /\ edits = 0 => \A f \in Files : run.loaded[f] = directory[f]

(***************************************************************************)
(* CLAIM, of the comment "Report it; never let it abort the run" on a $ref *)
(* that is syntactically unusable: the validation of a directory ends in a *)
(* report.  The code refutes it.                                           *)
(***************************************************************************)
NoReferenceAborts == run.exit # "reference"
=============================================================================
