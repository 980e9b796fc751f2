--------------------------- MODULE MCCorpusFreeze ---------------------------
(***************************************************************************)
(* Instances of CorpusFreeze.  Source 1 stands for CA-3.  Suffix 1 stands  *)
(* for ".pdf" and 2 for ".xml".                                            *)
(***************************************************************************)
EXTENDS CorpusFreeze

CONSTANTS xml1, xml2, pdf1, artifact, notice

MCSuffixOf == [b \in Bodies |-> IF b = pdf1 THEN 1 ELSE 2]

AsXML(disposition) ==
    [disposition |-> disposition, permitted |-> disposition # Blocked,
     target |-> artifact, provenance |-> notice, suffix |-> 2]
AsPDF(disposition) == [AsXML(disposition) EXCEPT !.suffix = 1]
AtProvenance(disposition) == [AsXML(disposition) EXCEPT !.target = notice]
Unpermitted(disposition) == [AsXML(disposition) EXCEPT !.permitted = FALSE]

\* Either source may be cleared or blocked.  Further, the first one may be an
\* internal PDF or lack a permission, and the targets may be the provenance.
MCMatrices ==
    {m \in [Sources -> {AsXML(d) : d \in Cleared \cup {Blocked}}] :
        m[2].disposition # Internal} \cup
    {<<r, AsXML(Blocked)>> : r \in {AsPDF(Internal), Unpermitted(Internal)}} \cup
    {[s \in Sources |-> AtProvenance(Repository)],
     <<AsXML(Blocked), AtProvenance(Repository)>>}
=============================================================================
