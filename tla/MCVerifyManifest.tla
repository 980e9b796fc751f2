-------------------------- MODULE MCVerifyManifest --------------------------
(***************************************************************************)
(* VerifyManifest on a catalogue of worlds that each deviate in one        *)
(* respect from one in which everything matches.                           *)
(***************************************************************************)
EXTENDS VerifyManifest

CONSTANTS tdd, readme, outside, good, same, long

\* same has the length of good, and not its digest.
MCSize == [b \in Bodies |-> IF b = long THEN 2 ELSE 1]

At(path, digest) == [path |-> path, digest |-> digest, bytes |-> Absent]
Sized(path, digest, bytes) == [At(path, digest) EXCEPT !.bytes = bytes]

Base ==
    [tree |-> [p \in Paths |-> good],
     manifests |-> [sums |-> <<At(tdd, good), At(readme, good)>>, sources |-> <<At(readme, good)>>],
     repo |-> [resolves |-> TRUE, pinned |-> FALSE, files |-> <<Sized(readme, good, 1)>>,
               governing |-> good, blobs |-> [p \in Paths |-> good]]]

InTree == {[Base EXCEPT !.tree = [p \in Paths |-> IF p = tdd THEN f ELSE good]] : f \in File}
InSums ==
    {[Base EXCEPT !.manifests = [@ EXCEPT !.sums = f]] :
        f \in {Absent, Unreadable, Undecodable, <<>>, <<Garbled>>, <<At(outside, good)>>,
               <<At(tdd, BadDigest)>>, <<At(tdd, good), At(tdd, same)>>}}
InSources ==
    {[Base EXCEPT !.manifests = [@ EXCEPT !.sources = f]] :
        f \in {Absent, Unreadable, Undecodable, <<>>, <<At(readme, NoDigest)>>,
               <<At(readme, BadDigest), At(readme, good)>>}}
InRepository ==
    LET repositories ==
            {[Base.repo EXCEPT !.resolves = FALSE]}
            \cup {[Base.repo EXCEPT !.governing = d] : d \in Digest}
            \cup {[Base.repo EXCEPT !.pinned = TRUE, !.governing = b, !.blobs[tdd] = b] : b \in Bodies}
            \cup {[Base.repo EXCEPT !.blobs[readme] = f] : f \in {Absent, same, long}}
            \cup {[Base.repo EXCEPT !.files = f] :
                    f \in {Absent, Unreadable, <<>>, <<Garbled>>, <<At(readme, NoDigest)>>,
                           <<At(outside, good)>>, <<Sized(readme, good, 2)>>}}
    IN  {[Base EXCEPT !.repo = r] : r \in repositories}

MCWorlds == InTree \cup InSums \cup InSources \cup InRepository

MCCommands ==
    [mode : {"all", "none"}, manifest : {"sums"}, known : {TRUE}, allow_incomplete : BOOLEAN]
    \cup [mode : {"one"}, manifest : Manifest, known : BOOLEAN, allow_incomplete : {FALSE}]
    \cup [mode : {"one"}, manifest : Manifest, known : {TRUE}, allow_incomplete : {TRUE}]
=============================================================================
