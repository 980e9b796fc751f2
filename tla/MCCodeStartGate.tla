--------------------------- MODULE MCCodeStartGate ---------------------------
(***************************************************************************)
(* An instance of CodeStartGate with two sources instead of four: what the *)
(* committed evidence says, and what departs from it in one respect.       *)
(***************************************************************************)
EXTENDS CodeStartGate

CONSTANTS ca3, syn1, syn2, other, f1, f2, act, text1, text2, core, extra, cache

CA3  == [id |-> ca3, file |-> f1, body |-> act, honest |-> TRUE]
SYN1 == [id |-> syn1, file |-> f2, body |-> text1, honest |-> TRUE]
SYN2 == [SYN1 EXCEPT !.id = syn2]

ItemLists ==
    {<<CA3, SYN1>>, <<SYN1>>, <<>>,
     <<CA3, [SYN1 EXCEPT !.honest = FALSE]>>, <<[CA3 EXCEPT !.honest = FALSE], SYN1>>,
     <<CA3, [SYN1 EXCEPT !.body = act]>>,         \* bytes without the warning
     <<CA3, [SYN1 EXCEPT !.body = text2], SYN1>>, \* a replaced record, and one
     <<CA3, SYN1, [SYN1 EXCEPT !.body = text2]>>, \* that replaces it
     <<[CA3 EXCEPT !.file = f2], SYN1>>,          \* one file, two bodies
     <<SYN1, SYN2>>,                              \* no Canadian source
     <<CA3, [SYN1 EXCEPT !.id = other, !.honest = FALSE]>>}

MCSourceSets ==
    {[incomplete |-> TRUE, items |-> l] : l \in ItemLists} \cup
    {[incomplete |-> FALSE, items |-> <<CA3, SYN1>>]}

For(item) == [id |-> item.id, body |-> item.body]

MCReceiptLists ==
    {<<For(CA3), For(SYN1)>>, <<For(CA3)>>, <<For(SYN1), For(SYN2)>>,
     <<For(CA3), [id |-> syn1, body |-> act]>>,
     <<For(CA3), [id |-> other, body |-> text1]>>,
     <<For(CA3), [id |-> syn1, body |-> text2], For(SYN1)>>,
     <<For(CA3), For(SYN1), [id |-> syn1, body |-> text2]>>}

Committed ==
    [doc |-> [sourceSet |-> [incomplete |-> TRUE, items |-> <<CA3, SYN1>>],
              receipts |-> <<For(CA3), For(SYN1)>>,
              profile |-> [admitted |-> TRUE, stale |-> FALSE],
              active |-> "current", veip |-> "bounded", gate |-> "historical",
              matrix |-> "owners", promoted |-> "exact", required |-> "present"],
     sources |-> [f \in Files |-> IF f = f1 THEN act ELSE text1],
     tracked |-> {core}, disk |-> {core, cache}]

MCTrees ==
    {[Committed EXCEPT !.doc["sourceSet"] = c, !.doc["receipts"] = r, !.sources[f2] = b] :
        c \in MCSourceSets, r \in MCReceiptLists, b \in Bodies} \cup
    (UNION {{[Committed EXCEPT !.doc[n] = c] : c \in Content[n] \cup {Absent}} : n \in Documents})
    \cup
    {[Committed EXCEPT !.sources[f] = b] : f \in Files, b \in Bodies \cup {Absent}} \cup
    {[Committed EXCEPT !.tracked = t, !.disk = d] :
        t \in {{core}, {core, extra}, Absent}, d \in SUBSET {core, extra}}
=============================================================================
