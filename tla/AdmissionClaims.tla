--------------------------- MODULE AdmissionClaims ---------------------------
(***************************************************************************)
(* A sentence of the repository about an admission evaluation that the     *)
(* evaluator does not keep.  It is checked by a run of its own, which is   *)
(* expected to find a document that refutes it.                            *)
(***************************************************************************)
EXTENDS Admission

(***************************************************************************)
(* ADMISSION-CONTRACT-v0.1.md: "ADMITTED only when the registry supplies   *)
(* an active, unambiguous, machine-verifiable admission_warrant whose      *)
(* delegation covers the exact source identity, version, digest, scope,    *)
(* and evaluation time."  The evaluator compares the evidence body's       *)
(* source_id with the registration, and never the warrant's.               *)
(***************************************************************************)
WarrantNamesTheSource ==
    outcome = "ADMITTED" =>
        \E e \in scoped :
            /\ Operative(e, at, doc.jurisdiction, doc.applicability)
            /\ e.admission_warrant.source_id = registration.source_id
=============================================================================
