--------------------------- MODULE MCSchemaRegistry ---------------------------
(***************************************************************************)
(* An instance of SchemaRegistry: three files, the first and the third of  *)
(* which share a bare name, two absolute identifiers, a relative one that  *)
(* is the bare name of the second file, and one named part.                *)
(***************************************************************************)
EXTENDS SchemaRegistry

CONSTANTS n1, n2, i1, i2, p

MCNameOf == [f \in Files |-> IF f = 2 THEN n2 ELSE n1]
MCSiblingOf ==
    [i \in Ids |-> [n \in Names |-> IF i = n2 THEN n ELSE IF n = n1 THEN i1 ELSE i2]]

Doc(id, refs, parts) == [id |-> id, valid |-> TRUE, deep |-> FALSE, refs |-> refs, parts |-> parts]
Link(kind, to, part) == [kind |-> kind, to |-> to, part |-> part]

MCDocuments ==
    {Doc(Absent, {}, {p}), Doc(i1, {}, {p}), Doc(i2, {}, {}),
     [Doc(i1, {}, {p}) EXCEPT !.valid = FALSE],
     Doc(Absent, {Link("own", Absent, p)}, {p}), Doc(Absent, {Link("own", Absent, p)}, {}),
     Doc(i1, {Link("own", Absent, p)}, {}), Doc(Empty, {Link("own", Absent, p)}, {p}),
     Doc(Absent, {Link("relative", n1, p)}, {}), Doc(i2, {Link("relative", n1, p)}, {}),
     Doc(Absent, {Link("remote", i1, Absent), Link("relative", n2, Absent)}, {}),
     Doc(Absent, {Link("unusable", Absent, Absent)}, {}),
     Doc(n2, {Link("own", Absent, p)}, {}), Doc(n2, {Link("relative", n1, p)}, {p}),
     [Doc(Absent, {Link("unsplittable", Absent, Absent)}, {}) EXCEPT !.deep = TRUE],
     Doc(i2, {Link("unsplittable", Absent, Absent)}, {})}

MCDirectories == [Files -> Contents]
=============================================================================
