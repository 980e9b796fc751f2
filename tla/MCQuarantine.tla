---------------------------- MODULE MCQuarantine ----------------------------
(***************************************************************************)
(* Two documents that fit, one that does not, and what a connection closed *)
(* early leaves of one of them.  Sources are numbered in source_id order.  *)
(***************************************************************************)
EXTENDS Quarantine, TLC

MCBodies == {"old", "new", "old-cut", "huge"}
MCPublished == {"old", "new", "huge"}
MCCutShort == [b \in MCBodies |-> IF b = "old" THEN {"old-cut"} ELSE {}]
MCSize == [b \in MCBodies |-> IF b = "huge" THEN 3 ELSE IF b = "old-cut" THEN 1 ELSE 2]

Expecting(s, b) == [t \in Ids |-> IF t = s THEN b ELSE Absent]
Unpinned == [t \in Ids |-> Absent]
Ask(selected, download, expected) ==
    [repeated |-> FALSE, selected |-> selected, download |-> download, expected |-> expected]

\* Metadata, a download, a pinned download, and one that must be refused.
MCRequests ==
    {Ask(Sources, FALSE, Unpinned), Ask(Sources, TRUE, Unpinned),
     Ask(Sources, TRUE, Expecting(1, "old")), Ask(Sources, FALSE, Expecting(1, "old"))}
    \cup {Ask({s}, TRUE, Unpinned) : s \in Ids}
    \cup {[Ask(Sources, TRUE, Unpinned) EXCEPT !.repeated = TRUE]}

\* What two overlapping invocations are started with, and what is served.
MCOverlapRequests == {Ask(Sources, FALSE, Unpinned), Ask(Sources, TRUE, Unpinned)}
MCOverlapPublished == {"old", "new"}
MCSymmetry == Permutations(Invocations)
=============================================================================
