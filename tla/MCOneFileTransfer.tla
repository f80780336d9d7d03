-------------------------- MODULE MCOneFileTransfer --------------------------
(* OneFileTransfer on small instances. *)
EXTENDS OneFileTransfer

\* An empty file, one short chunk, and two or three chunks the last of which is short.
MCFileSizes == {0, 1, 3, 5}
MCEmptyOrTwo == {0, 3}
\* Credit for one chunk, for two.
MCWindows == {2, 4}

MCNoEvents == {}
MCSenderCancels == {"sender_cancels", "reject"}
MCReceiverCancels == {"receiver_cancels"}
MCCancels == {"sender_cancels", "receiver_cancels", "reject"}
MCAllEvents == PossibleEvents
=============================================================================
