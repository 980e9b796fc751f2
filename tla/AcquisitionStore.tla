-------------------------- MODULE AcquisitionStore --------------------------
(***************************************************************************)
(* What the quarantine and its receipts promise to whoever reads them, as  *)
(* one store: an artifact is written once, and a receipt describes either  *)
(* the artifact that is there or none.  There is no process, .part file,   *)
(* failure or restart here, and nothing is ever undone.                    *)
(***************************************************************************)
CONSTANTS Sources, Bodies, Size, Absent

VARIABLES quarantine, receipts

store == <<quarantine, receipts>>

Init ==
    /\ quarantine = [s \in Sources |-> Absent]
    /\ receipts = [s \in Sources |-> Absent]

Deposit(s) ==
    /\ quarantine[s] = Absent
    /\ \E b \in Bodies : quarantine' = [quarantine EXCEPT ![s] = b]
    /\ UNCHANGED receipts

\* Of a body, or of none; its declared length is that of some body.
ReceiptOf(body, header) ==
    [downloaded |-> body # Absent, sha256 |-> body,
     actual_byte_length |-> IF body = Absent THEN Absent ELSE Size[body],
     content_length_header |-> header]

Describe(s) ==
    /\ \E body \in {Absent, quarantine[s]}, header \in {Size[b] : b \in Bodies} \cup {Absent} :
          receipts' = [receipts EXCEPT ![s] = ReceiptOf(body, header)]
    /\ UNCHANGED quarantine

Next == \E s \in Sources : Deposit(s) \/ Describe(s)

Spec == Init /\ [][Next]_store
=============================================================================
