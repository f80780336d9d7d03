--------------------------- MODULE TransferOutcome ---------------------------
(***************************************************************************)
(* What a transfer of one file promises to its two users, whatever frames, *)
(* cancellations and failures lie in between: section 13.2 of the protocol *)
(* as the two state machines of native/src/transfer keep it.               *)
(***************************************************************************)
VARIABLES
  published,   \* the file is durably committed at the receiver
  sent,        \* what the sending user was told
  received     \* what the receiving user was told

vars == <<published, sent, received>>

SentResults == {"running", "success", "cancelled", "failure"}
ReceivedResults == {"running", "saved", "discarded"}

Init == published = FALSE /\ sent = "running" /\ received = "running"

(* The file is committed once, while the receiver still runs; its user may *)
(* learn of it in the same moment.                                         *)
Publish ==
  /\ ~published /\ received = "running"
  /\ published' = TRUE
  /\ received' \in {"running", "saved"}
  /\ UNCHANGED sent

(* The receiving user is told what happened to the file, once.             *)
ReceiverFinishes ==
  /\ received = "running"
  /\ received' = IF published THEN "saved" ELSE "discarded"
  /\ UNCHANGED <<published, sent>>

(* Success needs the committed file.  It may still correct a failure, but  *)
(* never a cancellation.                                                   *)
SenderSucceeds ==
  /\ published /\ sent \in {"running", "failure"}
  /\ sent' = "success"
  /\ UNCHANGED <<published, received>>

(* Any other result, which may be revised until it is success.             *)
SenderStops ==
  /\ sent # "success"
  /\ sent' \in {"cancelled", "failure"}
  /\ UNCHANGED <<published, received>>

Next == Publish \/ ReceiverFinishes \/ SenderSucceeds \/ SenderStops

Spec == Init /\ [][Next]_vars
=============================================================================
