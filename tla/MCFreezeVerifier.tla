-------------------------- MODULE MCFreezeVerifier --------------------------
(***************************************************************************)
(* An instance of FreezeVerifier: one source, cleared either way or        *)
(* blocked, whose target serves two bodies.                                *)
(***************************************************************************)
EXTENDS FreezeVerifier, TLC

CONSTANTS body1, body2, artifact, notice

MCSuffixOf == [b \in Bodies |-> 1]

Under(disposition) ==
    [disposition |-> disposition, permitted |-> disposition # Blocked,
     target |-> artifact, provenance |-> notice, suffix |-> 1]

MCSymmetry == Permutations({body1, body2})

MCMatrices == [Sources -> {Under(d) : d \in Cleared \cup {Blocked}}]
=============================================================================
