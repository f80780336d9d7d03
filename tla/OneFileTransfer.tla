--------------------------- MODULE OneFileTransfer ---------------------------
(***************************************************************************)
(* One file sent over one stream of an authenticated connection: an        *)
(* OneFileSender (native/src/transfer/sender.cpp) and an OneFileReceiver   *)
(* (receiver.cpp) that exchange frames over the ordered, reliable bytes of *)
(* a TLS channel.                                                          *)
(*                                                                         *)
(* Every public method of the two classes is an action, taken whole: both  *)
(* classes hold their mutex for the length of a method.  A method returns  *)
(* at most one outbound frame, which the caller puts on the wire in order. *)
(* Frames keep their type, offset, size and error code.  Error codes are   *)
(* abstracted to the classes the state machines tell apart: "refused" is a *)
(* reject reason (POLICY_REJECTED, NO_SPACE, BUSY, IO_FAILURE), "failed"   *)
(* any other failure.  Clock values are abstracted to the timers that run: *)
(* a running timer may fire at any time.  Frame contents are well formed,  *)
(* since both ends run this code.                                          *)
(***************************************************************************)
EXTENDS Naturals, Sequences

CONSTANTS FileSizes,    \* manifest.file_size values, in bytes
          ChunkSize,    \* the selected chunk size
          Windows,      \* the initial windows Accept may select
          Environment   \* which of PossibleEvents happen besides the protocol

PossibleEvents == {"sender_cancels", "receiver_cancels", "timeout", "revoked",
                   "memory", "ids", "storage", "capacity", "shutdown", "reject"}

ASSUME SizeAssumption == FileSizes \subseteq Nat /\ ChunkSize \in Nat \ {0}
ASSUME WindowAssumption == Windows \subseteq Nat /\ \A w \in Windows : w >= ChunkSize
ASSUME EnvironmentAssumption == Environment \subseteq PossibleEvents

VARIABLES
  file_size,     \* manifest.file_size
  snd,           \* the sender's Implementation
  rcv,           \* the receiver's Implementation
  to_receiver,   \* frames written by the sender and not yet received
  to_sender,     \* frames written by the receiver and not yet received
  unconfirmed,   \* offsets of CHUNK_ACKs whose write is not yet reported back
  budget,        \* what this stream holds of each end's ConnectionCreditBudget
  authorized,    \* IsAuthorized of each end's session
  exhausted      \* each end's message ids are used up (shared by all streams)

vars == <<file_size, snd, rcv, to_receiver, to_sender, unconfirmed, budget,
          authorized, exhausted>>
environment == <<file_size, authorized, exhausted>>
sender_side == <<snd, to_receiver>>
receiver_side == <<rcv, to_sender, unconfirmed>>

Ends == {"sender", "receiver"}
Terminal == {"Committed", "Completed", "Cancelled", "Rejected", "Failed"}
SenderStates == {"Created", "SendingManifest", "AwaitingDecision", "SendingFile",
                 "AwaitingFileCommit", "Completing", "Cancelling"} \cup Terminal
ReceiverStates == {"Created", "ReceivingManifest", "AwaitingDecision",
                   "ReceivingFile", "Rejecting", "AwaitingCompletion",
                   "Cancelling"} \cup Terminal
Codes == {"none", "completed", "cancelled", "refused", "failed"}
FrameTypes == {"Offer", "ManifestEntry", "ManifestEnd", "Accept", "Reject",
               "FileBegin", "FileChunk", "ChunkAck", "FileEnd", "FileCommit",
               "Complete", "CompleteAck", "Cancel", "CancelAck", "Error"}
Transactions == {"none", "receiving", "committed", "aborted", "uncertain"}

(* COMPLETED is a terminal code of CANCEL_ACK alone.                       *)
FailureCodes == Codes \ {"completed"}
Frames ==
  {f \in [type : FrameTypes, offset : Nat, size : Nat, code : Codes] :
     f.type \in {"Error", "Reject"} => f.code \in FailureCodes}
Frame(type, offset, size) ==
  [type |-> type, offset |-> offset, size |-> size, code |-> "none"]
Plain(type) == Frame(type, 0, 0)
Coded(type, code) == [type |-> type, offset |-> 0, size |-> 0, code |-> code]

Init ==
  /\ file_size \in FileSizes
  /\ snd = [state |-> "Created", origin |-> "Created", stage |-> 0, begun |-> FALSE,
            reserved |-> 0, available |-> 0, unacked |-> 0, sent |-> 0, acked |-> 0,
            stream |-> TRUE, cancel_pending |-> FALSE, cancel_sent |-> FALSE,
            ack_pending |-> FALSE, ack_code |-> "none", code |-> "none",
            shutdown |-> FALSE]
  /\ rcv = [state |-> "Created", origin |-> "Created", offered |-> FALSE,
            entry |-> FALSE, begun |-> FALSE,
            window |-> 0, available |-> 0, next |-> 0, encoded |-> 0, written |-> 0,
            transaction |-> "none", commit_sent |-> FALSE, complete_pending |-> FALSE,
            credit |-> FALSE, stream |-> FALSE, cancel_pending |-> FALSE,
            cancel_sent |-> FALSE, ack_pending |-> FALSE, ack_code |-> "none",
            code |-> "none", shutdown |-> FALSE]
  /\ to_receiver = <<>>
  /\ to_sender = <<>>
  /\ unconfirmed = <<>>
  /\ budget = [e \in Ends |-> 0]
  /\ authorized = [e \in Ends |-> TRUE]
  /\ exhausted = [e \in Ends |-> FALSE]

-----------------------------------------------------------------------------
(* Encoding a frame fails for good when the ids are used up and once when  *)
(* an allocation fails.                                                    *)
EncodeFrame(e) ==
  {ok \in BOOLEAN : /\ ok => ~exhausted[e]
                    /\ ~ok => exhausted[e] \/ "memory" \in Environment}

Written(channel, frame, ok) == IF ok THEN Append(channel, frame) ELSE channel

(* The ERROR frame Fail may emit: none for the code NONE, without a        *)
(* session, or when it cannot be encoded.                                  *)
ErrorFrame(e, channel, code) ==
  {Written(channel, Coded("Error", code), ok /\ authorized[e] /\ code # "none")
     : ok \in EncodeFrame(e)}

(* A settled end has no cancellation frame of its own left to send.        *)
Settled(end, state, code) ==
  [end EXCEPT !.state = state, !.code = code, !.cancel_pending = FALSE,
              !.cancel_sent = FALSE, !.ack_pending = FALSE]

(* The terminal code a late CANCEL is answered with.                       *)
CachedTerminalCode(end) ==
  CASE end.state \in {"Committed", "Completed"} -> "completed"
    [] end.state = "Cancelled" -> "cancelled"
    [] OTHER -> IF end.code = "none" THEN "cancelled" ELSE end.code

(* The state a CANCEL_ACK's terminal code leads to.                        *)
CancelOutcome(code) ==
  CASE code = "completed" -> "Completed"
    [] code = "cancelled" -> "Cancelled"
    [] code = "refused"   -> "Rejected"
    [] OTHER              -> "Failed"

OutcomeCode(code) == IF code = "completed" THEN "none" ELSE code

(* Every state but CREATED runs a timer; CANCELLING once CANCEL is sent.   *)
CheckTimeout(end) ==
  /\ "timeout" \in Environment
  /\ end.state # "Created"
  /\ end.state = "Cancelling" => end.cancel_sent

(* EmitCancelAck: an ack that can never be encoded is given up.            *)
EmitCancelAck(end, e, ok) ==
  IF ok \/ exhausted[e] THEN [end EXCEPT !.ack_pending = FALSE] ELSE end

(* The record part of EmitCancel when the frame is encoded.                *)
CancelSent(end) == [end EXCEPT !.cancel_pending = FALSE, !.cancel_sent = TRUE]

(* Cancel enters CANCELLING and remembers where it came from.              *)
Cancelling(end) ==
  [end EXCEPT !.origin = end.state, !.state = "Cancelling", !.code = "none",
              !.cancel_pending = TRUE, !.ack_pending = FALSE]

-----------------------------------------------------------------------------
(* The sender. *)

(* ReleaseResources and the end of the transfer: the source, the credit    *)
(* and the stream are given back.                                          *)
SenderEnds(end, state, code) ==
  /\ snd' = [Settled(end, state, code) EXCEPT !.reserved = 0, !.stream = FALSE]
  /\ budget' = [budget EXCEPT !["sender"] = @ - end.reserved]

(* Fail.                                                                   *)
SenderFails(code) ==
  /\ SenderEnds(snd, "Failed", code)
  /\ to_receiver' \in ErrorFrame("sender", to_receiver, code)

(* EmitCancel on behalf of `end`: without message ids the cancellation is  *)
(* local and final; a failed allocation leaves it pending.                 *)
SenderEmitCancel(end, ok) ==
  IF ~ok /\ exhausted["sender"]
    THEN SenderEnds(end, "Cancelled", "failed") /\ UNCHANGED to_receiver
    ELSE /\ snd' = IF ok THEN CancelSent(end) ELSE end
         /\ to_receiver' = Written(to_receiver, Plain("Cancel"), ok)
         /\ UNCHANGED budget

SenderSends(end, frame) ==
  /\ snd' = end
  /\ to_receiver' = Append(to_receiver, frame)
  /\ UNCHANGED budget

(* Start.                                                                  *)
SenderStart ==
  /\ snd.state = "Created"
  /\ \E ok \in EncodeFrame("sender") :
       IF ~authorized["sender"] THEN SenderFails("none")
       ELSE IF ok THEN SenderSends([snd EXCEPT !.state = "SendingManifest"], Plain("Offer"))
       ELSE SenderFails("refused")
  /\ UNCHANGED <<receiver_side, environment>>

(* NextOutbound has a frame to look for: no acknowledgement of a CANCEL is *)
(* waiting and the session is still authorized.                            *)
SenderMayPump == snd.state \notin Terminal /\ authorized["sender"]

(* NextOutbound: the manifest, in two frames.                              *)
SenderSendsManifest ==
  /\ SenderMayPump
  /\ snd.state = "SendingManifest"
  /\ \E ok \in EncodeFrame("sender") :
       IF ~ok THEN SenderFails("refused")
       ELSE IF snd.stage = 0
         THEN SenderSends([snd EXCEPT !.stage = 1], Plain("ManifestEntry"))
         ELSE SenderSends([snd EXCEPT !.stage = 2, !.state = "AwaitingDecision"],
                          Plain("ManifestEnd"))
  /\ UNCHANGED <<receiver_side, environment>>

(* NextOutbound: FILE_BEGIN.                                               *)
SenderSendsFileBegin ==
  /\ SenderMayPump
  /\ snd.state = "SendingFile" /\ ~snd.begun
  /\ \E ok \in EncodeFrame("sender") :
       IF ok THEN SenderSends([snd EXCEPT !.begun = TRUE], Plain("FileBegin"))
             ELSE SenderFails("refused")
  /\ UNCHANGED <<receiver_side, environment>>

(* The size of the next chunk: the last one may be short.                  *)
Wanted == IF file_size - snd.sent < ChunkSize THEN file_size - snd.sent ELSE ChunkSize

IgnoresCredit == TRUE
HasCredit == snd.available >= Wanted

(* NextOutbound: the next chunk, as far as the granted credit goes.        *)
SenderSendsChunk ==
  /\ SenderMayPump
  /\ snd.state = "SendingFile" /\ snd.begun
  /\ snd.sent < file_size
  /\ HasCredit
  /\ \/ /\ "storage" \in Environment          \* the source cannot be read
        /\ SenderFails("refused")
     \/ \E ok \in EncodeFrame("sender") :
          IF ok THEN SenderSends([snd EXCEPT !.sent = @ + Wanted,
                                             !.available = @ - Wanted,
                                             !.unacked = @ + Wanted],
                                 Frame("FileChunk", snd.sent, Wanted))
                ELSE SenderFails("refused")
  /\ UNCHANGED <<receiver_side, environment>>

(* NextOutbound: FILE_END, once everything is acknowledged.                *)
SenderSendsFileEnd ==
  /\ SenderMayPump
  /\ snd.state = "SendingFile" /\ snd.begun
  /\ snd.sent >= file_size /\ snd.unacked = 0
  /\ \E ok \in EncodeFrame("sender") :
       IF ok THEN SenderSends([snd EXCEPT !.state = "AwaitingFileCommit"], Plain("FileEnd"))
             ELSE SenderFails("refused")
  /\ UNCHANGED <<receiver_side, environment>>

(* NextOutbound: a CANCEL that could not be encoded before.                *)
SenderRetriesCancel ==
  /\ SenderMayPump
  /\ snd.state = "Cancelling" /\ snd.cancel_pending
  /\ \E ok \in EncodeFrame("sender") : SenderEmitCancel(snd, ok)
  /\ UNCHANGED <<receiver_side, environment>>

(* NextOutbound: a CANCEL_ACK that could not be encoded before; without a  *)
(* session it is given up.                                                 *)
SenderRetriesCancelAck ==
  /\ ~snd.shutdown /\ snd.ack_pending
  /\ \E ok \in EncodeFrame("sender") :
       LET sent == ok /\ authorized["sender"]
       IN  /\ snd' = IF authorized["sender"] THEN EmitCancelAck(snd, "sender", ok)
                                              ELSE [snd EXCEPT !.ack_pending = FALSE]
           /\ to_receiver' = Written(to_receiver, Coded("CancelAck", snd.ack_code), sent)
  /\ UNCHANGED <<budget, receiver_side, environment>>

(* Advance, and the same checks where NextOutbound makes them.             *)
SenderAdvance ==
  /\ snd.state \notin Terminal
  /\ \/ ~authorized["sender"] /\ SenderFails("none")
     \/ authorized["sender"] /\ CheckTimeout(snd) /\ SenderFails("failed")
  /\ UNCHANGED <<receiver_side, environment>>

(* Cancel: local before the offer or without a session, else by CANCEL.    *)
SenderCancel ==
  /\ "sender_cancels" \in Environment
  /\ snd.state \notin Terminal \cup {"Cancelling"}
  /\ IF snd.state = "Created" \/ ~authorized["sender"]
       THEN SenderEnds(snd, "Cancelled", "cancelled") /\ UNCHANGED to_receiver
       ELSE \E ok \in EncodeFrame("sender") : SenderEmitCancel(Cancelling(snd), ok)
  /\ UNCHANGED <<receiver_side, environment>>

(* Shutdown, also run by the destructor.                                   *)
SenderShutdown ==
  /\ "shutdown" \in Environment
  /\ ~snd.shutdown
  /\ LET closed == [snd EXCEPT !.shutdown = TRUE]
     IN  IF snd.state \in Terminal
           THEN snd' = Settled(closed, snd.state, snd.code) /\ UNCHANGED budget
           ELSE SenderEnds(closed, "Cancelled", "cancelled")
  /\ UNCHANGED <<to_receiver, receiver_side, environment>>

(* AllowedInbound: the answers each phase waits for, also while a CANCEL   *)
(* sent in that phase is unanswered.                                       *)
SenderExpects(phase) ==
  CASE phase = "AwaitingDecision"   -> {"Accept", "Reject"}
    [] phase = "SendingFile"        -> {"ChunkAck"}
    [] phase = "AwaitingFileCommit" -> {"FileCommit"}
    [] phase = "Completing"         -> {"CompleteAck"}
    [] OTHER                        -> {}

SenderAllows(type) ==
  \/ type = "Error"
  \/ type = "Cancel" /\ snd.state # "Created"
  \/ type = "CancelAck" /\ snd.state = "Cancelling"
  \/ type \in SenderExpects(IF snd.state = "Cancelling" THEN snd.origin ELSE snd.state)

(* ERROR ends the transfer but forgets nothing of a cancellation under way. *)
SenderOnError(m) ==
  /\ m.type = "Error"
  /\ snd' = [snd EXCEPT !.state = "Failed", !.code = m.code, !.reserved = 0,
                        !.stream = FALSE]
  /\ budget' = [budget EXCEPT !["sender"] = @ - snd.reserved]
  /\ UNCHANGED to_receiver

(* BeginRemoteCancel: an own CANCEL stays on record for its late answer.   *)
SenderOnCancel(m) ==
  /\ m.type = "Cancel"
  /\ \E ok \in EncodeFrame("sender") :
       LET cancelled == [Settled(snd, "Cancelled", "cancelled")
                           EXCEPT !.reserved = 0, !.stream = FALSE,
                                  !.cancel_sent = snd.cancel_sent,
                                  !.ack_pending = TRUE, !.ack_code = "cancelled"]
       IN  /\ snd' = EmitCancelAck(cancelled, "sender", ok)
           /\ to_receiver' = Written(to_receiver, Coded("CancelAck", "cancelled"), ok)
  /\ budget' = [budget EXCEPT !["sender"] = @ - snd.reserved]

(* ApplyCancelAck.                                                         *)
SenderApplyCancelAck(m) ==
  /\ SenderEnds(snd, CancelOutcome(m.code), OutcomeCode(m.code))
  /\ UNCHANGED to_receiver

SenderOnCancelAck(m) ==
  /\ m.type = "CancelAck"
  /\ IF snd.cancel_sent THEN SenderApplyCancelAck(m) ELSE SenderFails("failed")

(* Answers that cross an own CANCEL are dropped, but TRANSFER_COMPLETE_ACK *)
(* still ends the transfer with success.                                   *)
SenderOnAnswerWhileCancelling(m) ==
  /\ snd.state = "Cancelling"
  /\ m.type \in SenderExpects(snd.origin)
  /\ IF snd.origin = "Completing" THEN SenderEnds(snd, "Completed", "none")
                                  ELSE UNCHANGED <<snd, budget>>
  /\ UNCHANGED to_receiver

SenderOnReject(m) ==
  /\ snd.state = "AwaitingDecision" /\ m.type = "Reject"
  /\ SenderEnds(snd, "Rejected", m.code)
  /\ UNCHANGED to_receiver

(* TRANSFER_ACCEPT grants the window, which the connection must bear.      *)
SenderOnAccept(m) ==
  /\ snd.state = "AwaitingDecision" /\ m.type = "Accept"
  /\ \/ /\ "capacity" \in Environment
        /\ SenderFails("refused")
     \/ /\ snd' = [snd EXCEPT !.state = "SendingFile", !.reserved = m.size,
                              !.available = m.size]
        /\ budget' = [budget EXCEPT !["sender"] = @ + m.size]
        /\ UNCHANGED to_receiver

(* Mutated: the offset of the acknowledgement is taken for the number of   *)
(* bytes it adds, which is the same for the first one.                     *)
SubtractsOffset(newly, increment) == snd.reserved + increment - (snd.acked + newly)

(* The reservation after an acknowledgement.                               *)
Reservation(newly, increment) == snd.available + increment + (snd.unacked - newly)

(* CHUNK_ACK acknowledges a prefix and grants new credit; TryAdjust moves  *)
(* the connection's reservation by the difference.                         *)
SenderOnChunkAck(m) ==
  /\ snd.state = "SendingFile" /\ m.type = "ChunkAck"
  /\ LET newly == m.offset - snd.acked
     IN  IF /\ m.offset >= snd.acked /\ m.offset <= snd.sent
            /\ m.offset # snd.acked \/ m.size # 0
            /\ newly <= snd.unacked
           THEN /\ snd' = [snd EXCEPT !.acked = m.offset,
                                      !.unacked = @ - newly,
                                      !.available = @ + m.size,
                                      !.reserved = Reservation(newly, m.size)]
                /\ budget' = [budget EXCEPT !["sender"] = @ - newly + m.size]
                /\ UNCHANGED to_receiver
           ELSE SenderFails("failed")

(* FILE_COMMIT is answered with TRANSFER_COMPLETE in the same call.        *)
SenderOnFileCommit(m) ==
  /\ snd.state = "AwaitingFileCommit" /\ m.type = "FileCommit"
  /\ \E ok \in EncodeFrame("sender") :
       IF ok THEN SenderSends([snd EXCEPT !.state = "Completing"], Plain("Complete"))
             ELSE SenderFails("refused")

SenderOnCompleteAck(m) ==
  /\ snd.state = "Completing" /\ m.type = "CompleteAck"
  /\ SenderEnds(snd, "Completed", "none")
  /\ UNCHANGED to_receiver

SenderHandles(m) ==
  \/ SenderOnError(m) \/ SenderOnCancel(m) \/ SenderOnCancelAck(m)
  \/ SenderOnAnswerWhileCancelling(m) \/ SenderOnReject(m) \/ SenderOnAccept(m)
  \/ SenderOnChunkAck(m) \/ SenderOnFileCommit(m) \/ SenderOnCompleteAck(m)

(* ReceiveFrame before the end of the transfer: session, then timers, then *)
(* whether the frame belongs here.  A timer that fires consumes the frame. *)
SenderReceivesFrame ==
  /\ snd.state \notin Terminal
  /\ to_sender # <<>>
  /\ to_sender' = Tail(to_sender)
  /\ IF ~authorized["sender"] THEN SenderFails("none")
     ELSE \/ CheckTimeout(snd) /\ SenderFails("failed")
          \/ IF SenderAllows(Head(to_sender).type) THEN SenderHandles(Head(to_sender))
                                                   ELSE SenderFails("failed")
  /\ UNCHANGED <<rcv, unconfirmed, environment>>

(* ReceiveFrame after the end: CANCEL is answered with the cached code, an *)
(* awaited CANCEL_ACK still decides, everything else is dropped.           *)
SenderReceivesLateFrame ==
  /\ snd.state \in Terminal
  /\ to_sender # <<>>
  /\ to_sender' = Tail(to_sender)
  /\ LET m == Head(to_sender)
         live == ~snd.shutdown /\ authorized["sender"]
     IN  IF live /\ m.type = "Cancel"
           THEN /\ \E ok \in EncodeFrame("sender") :
                     LET code == CachedTerminalCode(snd)
                     IN  /\ snd' = EmitCancelAck([snd EXCEPT !.ack_pending = TRUE,
                                                             !.ack_code = code],
                                                 "sender", ok)
                         /\ to_receiver' = Written(to_receiver, Coded("CancelAck", code), ok)
                /\ UNCHANGED budget
         ELSE IF live /\ m.type = "CancelAck" /\ snd.cancel_sent
           THEN SenderApplyCancelAck(m)
         ELSE UNCHANGED <<snd, budget, to_receiver>>
  /\ UNCHANGED <<rcv, unconfirmed, environment>>

-----------------------------------------------------------------------------
(* The receiver. *)

DurableCommit(end) == end.transaction = "committed"

(* Mutated: a committed file is discarded too.                             *)
DeletesOutput(end) == IF end.transaction = "none" THEN "none" ELSE "aborted"

(* ReceiveTransaction::Abort: only an open transaction is discarded.       *)
AbortTransaction(end) ==
  IF end.transaction = "receiving" THEN "aborted" ELSE end.transaction

(* What ReleaseCredit gives back.                                          *)
HeldCredit(end) == IF end.credit THEN end.window ELSE 0

(* The end of the transfer: temporary output, credit and stream are given  *)
(* up; committed output is not.                                            *)
ReceiverEnds(end, state, code) ==
  /\ rcv' = [Settled(end, state, code) EXCEPT !.transaction = AbortTransaction(end),
                                              !.credit = FALSE, !.stream = FALSE]
  /\ budget' = [budget EXCEPT !["receiver"] = @ - HeldCredit(end)]

(* A transfer that failed after its durable commit is COMMITTED.           *)
FailureState(end) == IF DurableCommit(end) THEN "Committed" ELSE "Failed"

(* Fail on behalf of `end`.                                                *)
ReceiverFails(end, code) ==
  /\ ReceiverEnds(end, FailureState(end), code)
  /\ to_sender' \in ErrorFrame("receiver", to_sender, code)

ReceiverSends(end, frame) ==
  /\ rcv' = end
  /\ to_sender' = Append(to_sender, frame)
  /\ UNCHANGED budget

ReceiverWaits(end) == rcv' = end /\ UNCHANGED <<budget, to_sender>>

(* PendingEncodingFailure: fatal without message ids, else retried.        *)
ReceiverCannotEncode(end) ==
  IF exhausted["receiver"]
    THEN ReceiverEnds(end, FailureState(end), "failed") /\ UNCHANGED to_sender
    ELSE ReceiverWaits(end)

(* EmitPendingReject and BeginReject.                                      *)
ReceiverEmitReject(end, ok) ==
  IF ok
    THEN /\ ReceiverEnds(end, "Rejected", "refused")
         /\ to_sender' = Append(to_sender, Coded("Reject", "refused"))
    ELSE ReceiverCannotEncode(end)

Rejecting(end) ==
  [end EXCEPT !.state = "Rejecting", !.transaction = AbortTransaction(end)]

(* EmitPendingFileCommit.                                                  *)
ReceiverEmitFileCommit(end, ok) ==
  IF ok THEN ReceiverSends([end EXCEPT !.commit_sent = TRUE], Plain("FileCommit"))
        ELSE ReceiverCannotEncode(end)

(* EmitPendingCompletionAck.                                               *)
ReceiverEmitCompleteAck(end, ok) ==
  IF ok
    THEN /\ ReceiverEnds([end EXCEPT !.complete_pending = FALSE], "Completed", "none")
         /\ to_sender' = Append(to_sender, Plain("CompleteAck"))
    ELSE ReceiverCannotEncode(end)

(* EmitCancel.                                                             *)
ReceiverEmitCancel(end, ok) ==
  IF ~ok /\ exhausted["receiver"]
    THEN ReceiverEnds(end, "Cancelled", "failed") /\ UNCHANGED to_sender
    ELSE /\ rcv' = IF ok THEN CancelSent(end) ELSE end
         /\ to_sender' = Written(to_sender, Plain("Cancel"), ok)
         /\ UNCHANGED budget

(* Accept: the connection's credit, a verifier, a temporary file and the   *)
(* answer.  Credit taken in a call that then rejects is back by its end.   *)
ReceiverAccept(window) ==
  /\ rcv.state = "AwaitingDecision"
  /\ authorized["receiver"]
  /\ LET opened == [rcv EXCEPT !.transaction = "receiving"]
     IN  \/ /\ "capacity" \in Environment
            /\ \E ok \in EncodeFrame("receiver") : ReceiverEmitReject(Rejecting(rcv), ok)
         \/ /\ "storage" \in Environment      \* no verifier for the commitment
            /\ ReceiverFails(rcv, "failed")
         \/ /\ "storage" \in Environment      \* Begin fails
            /\ \E ok \in EncodeFrame("receiver") : ReceiverEmitReject(Rejecting(opened), ok)
         \/ \E ok \in EncodeFrame("receiver") :
              IF ok
                THEN /\ rcv' = [opened EXCEPT !.state = "ReceivingFile", !.window = window,
                                              !.available = window, !.credit = TRUE]
                     /\ to_sender' = Append(to_sender, Frame("Accept", 0, window))
                     /\ budget' = [budget EXCEPT !["receiver"] = @ + window]
                ELSE ReceiverFails(opened, "refused")
  /\ UNCHANGED <<unconfirmed, sender_side, environment>>

(* Reject.                                                                 *)
ReceiverReject ==
  /\ "reject" \in Environment
  /\ rcv.state = "AwaitingDecision"
  /\ authorized["receiver"]
  /\ \E ok \in EncodeFrame("receiver") : ReceiverEmitReject(Rejecting(rcv), ok)
  /\ UNCHANGED <<unconfirmed, sender_side, environment>>

ReceiverMayPump == rcv.state \notin Terminal /\ authorized["receiver"]

(* NextOutbound: the frame that could not be encoded when it was due.      *)
ReceiverRetries ==
  /\ ReceiverMayPump
  /\ \E ok \in EncodeFrame("receiver") :
       \/ rcv.state = "Cancelling" /\ rcv.cancel_pending /\ ReceiverEmitCancel(rcv, ok)
       \/ rcv.state = "Rejecting" /\ ReceiverEmitReject(rcv, ok)
       \/ /\ rcv.state = "AwaitingCompletion" /\ rcv.complete_pending
          /\ ReceiverEmitCompleteAck(rcv, ok)
       \/ /\ rcv.state = "AwaitingCompletion" /\ ~rcv.complete_pending
          /\ ~rcv.commit_sent
          /\ ReceiverEmitFileCommit(rcv, ok)
  /\ UNCHANGED <<unconfirmed, sender_side, environment>>

(* NextOutbound: a CANCEL_ACK that could not be encoded before.            *)
ReceiverRetriesCancelAck ==
  /\ ~rcv.shutdown /\ rcv.ack_pending
  /\ \E ok \in EncodeFrame("receiver") :
       LET sent == ok /\ authorized["receiver"]
       IN  /\ rcv' = IF authorized["receiver"] THEN EmitCancelAck(rcv, "receiver", ok)
                                                ELSE [rcv EXCEPT !.ack_pending = FALSE]
           /\ to_sender' = Written(to_sender, Coded("CancelAck", rcv.ack_code), sent)
  /\ UNCHANGED <<budget, unconfirmed, sender_side, environment>>

(* Advance, and the same checks at the head of Accept, Reject and          *)
(* NextOutbound.                                                           *)
ReceiverAdvance ==
  /\ rcv.state \notin Terminal
  /\ \/ ~authorized["receiver"] /\ ReceiverFails(rcv, "none")
     \/ authorized["receiver"] /\ CheckTimeout(rcv) /\ ReceiverFails(rcv, "failed")
  /\ UNCHANGED <<unconfirmed, sender_side, environment>>

(* ConfirmChunkAckWritten: the transport reports CHUNK_ACKs as written, in *)
(* order, some time after it was handed them; only then is credit back.    *)
ConfirmChunkAckWritten ==
  /\ rcv.state \notin Terminal
  /\ unconfirmed # <<>>
  /\ unconfirmed' = Tail(unconfirmed)
  /\ LET next_offset == Head(unconfirmed)
         restored == next_offset - rcv.written
     IN  IF ~authorized["receiver"] THEN ReceiverFails(rcv, "none")
         ELSE IF /\ rcv.state \in {"ReceivingFile", "AwaitingCompletion"}
                 /\ next_offset > rcv.written /\ next_offset <= rcv.encoded
                 /\ restored <= rcv.window - rcv.available
           THEN ReceiverWaits([rcv EXCEPT !.available = @ + restored,
                                          !.written = next_offset])
           ELSE ReceiverFails(rcv, "failed")
  /\ UNCHANGED <<sender_side, environment>>

(* Cancel: after the durable commit it changes nothing but to stop         *)
(* waiting; before, it discards the output and tells the sender.           *)
ReceiverCancel ==
  /\ "receiver_cancels" \in Environment
  /\ rcv.state \notin Terminal \cup {"Cancelling"}
  /\ LET aborted == [rcv EXCEPT !.transaction = AbortTransaction(rcv)]
     IN  IF DurableCommit(rcv)
           THEN ReceiverEnds(rcv, "Committed", "none") /\ UNCHANGED to_sender
         ELSE IF rcv.state = "Created" \/ ~authorized["receiver"]
           THEN ReceiverEnds(rcv, "Cancelled", "cancelled") /\ UNCHANGED to_sender
         ELSE \E ok \in EncodeFrame("receiver") :
                ReceiverEmitCancel(Cancelling(aborted), ok)
  /\ UNCHANGED <<unconfirmed, sender_side, environment>>

(* Shutdown, also run by the destructor.                                   *)
ReceiverShutdown ==
  /\ "shutdown" \in Environment
  /\ ~rcv.shutdown
  /\ LET closed == [rcv EXCEPT !.shutdown = TRUE]
     IN  IF rcv.state \in Terminal
           THEN rcv' = Settled(closed, rcv.state, rcv.code) /\ UNCHANGED budget
         ELSE IF DurableCommit(rcv) THEN ReceiverEnds(closed, "Committed", "none")
         ELSE ReceiverEnds(closed, "Cancelled", "cancelled")
  /\ UNCHANGED <<to_sender, unconfirmed, sender_side, environment>>

(* AllowedInbound: what each phase waits for, given the manifest entry and *)
(* FILE_BEGIN flags.                                                       *)
ReceiverExpects(phase) ==
  CASE phase = "ReceivingManifest"  -> {IF rcv.entry THEN "ManifestEnd" ELSE "ManifestEntry"}
    [] phase = "ReceivingFile"      -> IF rcv.begun THEN {"FileChunk", "FileEnd"}
                                                    ELSE {"FileBegin"}
    [] phase = "AwaitingCompletion" -> {"Complete"}
    [] OTHER                        -> {}

(* While a CANCEL is unanswered the flags stay as they were when it was    *)
(* sent, so only the one frame they wait for may still arrive.             *)
ReceiverAllows(type) ==
  \/ type \in {"Error", "Cancel"}
  \/ type = "CancelAck" /\ rcv.state = "Cancelling"
  \/ type \in ReceiverExpects(IF rcv.state = "Cancelling" THEN rcv.origin ELSE rcv.state)

(* ERROR: no frame is sent and no cancellation flag cleared.               *)
ReceiverOnError(m) ==
  /\ m.type = "Error"
  /\ rcv' = [rcv EXCEPT !.state = FailureState(rcv), !.code = m.code,
                        !.transaction = AbortTransaction(rcv),
                        !.credit = FALSE, !.stream = FALSE]
  /\ budget' = [budget EXCEPT !["receiver"] = @ - HeldCredit(rcv)]
  /\ UNCHANGED to_sender

(* Mutated: the durable commit is not looked at.                           *)
AlwaysCancelled(end) == "cancelled"

(* BeginRemoteCancel: the durable commit decides what CANCEL_ACK says.     *)
CancelAnswer(end) == IF DurableCommit(end) THEN "completed" ELSE "cancelled"

ReceiverOnCancel(m) ==
  /\ m.type = "Cancel"
  /\ LET state == IF DurableCommit(rcv) THEN "Committed" ELSE "Cancelled"
         answer == CancelAnswer(rcv)
         ended == [Settled(rcv, state, OutcomeCode(answer))
                     EXCEPT !.transaction = AbortTransaction(rcv),
                            !.credit = FALSE, !.stream = FALSE,
                            !.cancel_sent = rcv.cancel_sent,
                            !.ack_pending = TRUE, !.ack_code = answer]
     IN  \E ok \in EncodeFrame("receiver") :
           /\ rcv' = EmitCancelAck(ended, "receiver", ok)
           /\ to_sender' = Written(to_sender, Coded("CancelAck", answer), ok)
  /\ budget' = [budget EXCEPT !["receiver"] = @ - HeldCredit(rcv)]

(* ApplyCancelAck: COMPLETED is believed only of a durable commit.         *)
ReceiverApplyCancelAck(m) ==
  /\ IF m.code = "completed" /\ ~DurableCommit(rcv)
       THEN ReceiverEnds(rcv, "Failed", "failed")
       ELSE ReceiverEnds(rcv, CancelOutcome(m.code), OutcomeCode(m.code))
  /\ UNCHANGED to_sender

ReceiverOnCancelAck(m) ==
  /\ m.type = "CancelAck"
  /\ IF rcv.cancel_sent THEN ReceiverApplyCancelAck(m) ELSE ReceiverFails(rcv, "failed")

(* Frames that cross an own CANCEL are dropped.                            *)
ReceiverOnFrameWhileCancelling(m) ==
  /\ rcv.state = "Cancelling"
  /\ m.type \notin {"Error", "Cancel", "CancelAck"}
  /\ ReceiverWaits(rcv)

ReceiverOnManifest(m) ==
  /\ rcv.state = "ReceivingManifest"
  /\ \/ m.type = "ManifestEntry" /\ ReceiverWaits([rcv EXCEPT !.entry = TRUE])
     \/ m.type = "ManifestEnd" /\ ReceiverWaits([rcv EXCEPT !.state = "AwaitingDecision"])
     \/ /\ m.type = "ManifestEnd" /\ "storage" \in Environment   \* VerifyManifest
        /\ ReceiverFails(rcv, "failed")

ReceiverOnFileBegin(m) ==
  /\ rcv.state = "ReceivingFile" /\ m.type = "FileBegin"
  /\ ReceiverWaits([rcv EXCEPT !.begun = TRUE])

(* next_offset after a chunk, and the credit its acknowledgement grants.   *)
NextOffset(m) == rcv.next + m.size
(* Mutated: no credit is granted.                                          *)
NoIncrement(m) == 0
WindowIncrement(m) == m.size

(* FILE_CHUNK: in order, within the credit, verified, written, then        *)
(* acknowledged; the acknowledgement offers the same credit again.         *)
ReceiverOnFileChunk(m) ==
  /\ rcv.state = "ReceivingFile" /\ m.type = "FileChunk"
  /\ IF m.offset # rcv.next \/ m.size > file_size - rcv.next \/ m.size > rcv.available
       THEN ReceiverFails(rcv, "failed") /\ UNCHANGED unconfirmed
       ELSE \/ /\ "storage" \in Environment
               /\ \E code \in {"refused", "failed"} : ReceiverFails(rcv, code)
               /\ UNCHANGED unconfirmed
            \/ \E ok \in EncodeFrame("receiver") :
                 LET next == NextOffset(m)
                     stored == [rcv EXCEPT !.available = @ - m.size, !.next = next]
                 IN  IF ok
                       THEN /\ ReceiverSends([stored EXCEPT !.encoded = next],
                                             Frame("ChunkAck", next, WindowIncrement(m)))
                            /\ unconfirmed' = Append(unconfirmed, next)
                       ELSE ReceiverFails(stored, "refused") /\ UNCHANGED unconfirmed

(* FILE_END: seal, flush and commit, then FILE_COMMIT.  The commit may     *)
(* fail cleanly or leave its outcome unknown.                              *)
ReceiverOnFileEnd(m) ==
  /\ rcv.state = "ReceivingFile" /\ m.type = "FileEnd"
  /\ IF rcv.next # file_size
       THEN ReceiverFails(rcv, "failed")
       ELSE \/ /\ "storage" \in Environment
               /\ \E result \in {"aborted", "uncertain"}, code \in {"refused", "failed"} :
                    ReceiverFails([rcv EXCEPT !.transaction = result], code)
            \/ \E ok \in EncodeFrame("receiver") :
                 ReceiverEmitFileCommit([rcv EXCEPT !.transaction = "committed",
                                                    !.state = "AwaitingCompletion"], ok)

ReceiverOnComplete(m) ==
  /\ rcv.state = "AwaitingCompletion" /\ m.type = "Complete"
  /\ IF rcv.commit_sent
       THEN \E ok \in EncodeFrame("receiver") :
              ReceiverEmitCompleteAck([rcv EXCEPT !.complete_pending = TRUE], ok)
       ELSE ReceiverFails(rcv, "failed")

ReceiverHandles(m) ==
  \/ ReceiverOnFileChunk(m)
  \/ /\ \/ ReceiverOnError(m) \/ ReceiverOnCancel(m) \/ ReceiverOnCancelAck(m)
        \/ ReceiverOnFrameWhileCancelling(m) \/ ReceiverOnManifest(m)
        \/ ReceiverOnFileBegin(m) \/ ReceiverOnFileEnd(m) \/ ReceiverOnComplete(m)
     /\ UNCHANGED unconfirmed

(* ReceiveFrame, first frame: it opens the stream of the connection, which *)
(* may be at its limit, and only an offer makes the transfer id known.     *)
ReceiverReceivesFirstFrame ==
  /\ rcv.state = "Created"
  /\ to_receiver # <<>>
  /\ to_receiver' = Tail(to_receiver)
  /\ LET m == Head(to_receiver)
         opened == [rcv EXCEPT !.stream = TRUE]
     IN  IF ~authorized["receiver"] THEN ReceiverFails(rcv, "none")
         ELSE \/ "capacity" \in Environment /\ ReceiverFails(rcv, "refused")
              \/ m.type = "Offer" /\ ReceiverWaits([opened EXCEPT !.offered = TRUE,
                                                          !.state = "ReceivingManifest"])
              \/ ReceiverOnError(m)
  /\ UNCHANGED <<snd, unconfirmed, environment>>

(* ReceiveFrame between the offer and the end of the transfer.             *)
ReceiverReceivesFrame ==
  /\ rcv.state \notin Terminal \cup {"Created"}
  /\ to_receiver # <<>>
  /\ to_receiver' = Tail(to_receiver)
  /\ LET m == Head(to_receiver)
         timed_out == CheckTimeout(rcv) /\ ReceiverFails(rcv, "failed")
     IN  IF ~authorized["receiver"] THEN ReceiverFails(rcv, "none") /\ UNCHANGED unconfirmed
         ELSE \/ timed_out /\ UNCHANGED unconfirmed
              \/ IF ReceiverAllows(m.type) THEN ReceiverHandles(m)
                 ELSE ReceiverFails(rcv, "failed") /\ UNCHANGED unconfirmed
  /\ UNCHANGED <<snd, environment>>

(* ReceiveFrame after the end: a frame of a transfer that was never        *)
(* offered here has a foreign id and is dropped.                           *)
ReceiverReceivesLateFrame ==
  /\ rcv.state \in Terminal
  /\ to_receiver # <<>>
  /\ to_receiver' = Tail(to_receiver)
  /\ LET m == Head(to_receiver)
         live == ~rcv.shutdown /\ authorized["receiver"] /\ rcv.offered
     IN  IF live /\ m.type = "Cancel"
           THEN /\ \E ok \in EncodeFrame("receiver") :
                     LET code == CachedTerminalCode(rcv)
                     IN  /\ rcv' = EmitCancelAck([rcv EXCEPT !.ack_pending = TRUE,
                                                             !.ack_code = code],
                                                 "receiver", ok)
                         /\ to_sender' = Written(to_sender, Coded("CancelAck", code), ok)
                /\ UNCHANGED budget
         ELSE IF live /\ m.type = "CancelAck" /\ rcv.cancel_sent
           THEN ReceiverApplyCancelAck(m)
         ELSE ReceiverWaits(rcv)
  /\ UNCHANGED <<snd, unconfirmed, environment>>

-----------------------------------------------------------------------------
(* The session's trust is revoked or the session ends (SessionAuthority).  *)
LoseSession(e) ==
  /\ "revoked" \in Environment
  /\ authorized[e]
  /\ authorized' = [authorized EXCEPT ![e] = FALSE]
  /\ UNCHANGED <<file_size, exhausted, sender_side, receiver_side, budget>>

(* All streams together used up the connection's message ids.              *)
ExhaustIds(e) ==
  /\ "ids" \in Environment
  /\ ~exhausted[e]
  /\ exhausted' = [exhausted EXCEPT ![e] = TRUE]
  /\ UNCHANGED <<file_size, authorized, sender_side, receiver_side, budget>>

SenderNextOutbound ==
  \/ SenderSendsManifest \/ SenderSendsFileBegin \/ SenderSendsChunk
  \/ SenderSendsFileEnd \/ SenderRetriesCancel \/ SenderRetriesCancelAck
SenderReceives == SenderReceivesFrame \/ SenderReceivesLateFrame
ReceiverNextOutbound == ReceiverRetries \/ ReceiverRetriesCancelAck
ReceiverReceives ==
  ReceiverReceivesFirstFrame \/ ReceiverReceivesFrame \/ ReceiverReceivesLateFrame

Next ==
  \/ SenderStart \/ SenderNextOutbound \/ SenderReceives \/ SenderAdvance
  \/ SenderCancel \/ SenderShutdown
  \/ ReceiverReceives \/ ReceiverNextOutbound \/ ReceiverAdvance
  \/ ConfirmChunkAckWritten
  \/ \E window \in Windows : ReceiverAccept(window)
  \/ ReceiverReject \/ ReceiverCancel \/ ReceiverShutdown
  \/ \E e \in Ends : LoseSession(e) \/ ExhaustIds(e)

Spec == Init /\ [][Next]_vars

(* The connection's driver delivers frames, asks for outbound frames and   *)
(* reports writes.  Nobody has to decide, to cancel or to let time pass.   *)
Driven ==
  /\ WF_vars(SenderStart)
  /\ WF_vars(SenderNextOutbound)
  /\ WF_vars(SenderReceives)
  /\ WF_vars(ReceiverReceives)
  /\ WF_vars(ReceiverNextOutbound)
  /\ WF_vars(ConfirmChunkAckWritten)

DrivenSpec == Spec /\ Driven

-----------------------------------------------------------------------------
SenderType ==
  [state : SenderStates, origin : SenderStates, stage : 0..2, begun : BOOLEAN,
   reserved : Nat, available : Nat, unacked : Nat, sent : Nat, acked : Nat,
   stream : BOOLEAN, cancel_pending : BOOLEAN, cancel_sent : BOOLEAN,
   ack_pending : BOOLEAN, ack_code : Codes, code : FailureCodes, shutdown : BOOLEAN]
ReceiverType ==
  [state : ReceiverStates, origin : ReceiverStates, offered : BOOLEAN,
   entry : BOOLEAN, begun : BOOLEAN, window : Nat, available : Nat, next : Nat,
   encoded : Nat, written : Nat, transaction : Transactions, commit_sent : BOOLEAN,
   complete_pending : BOOLEAN, credit : BOOLEAN, stream : BOOLEAN,
   cancel_pending : BOOLEAN, cancel_sent : BOOLEAN, ack_pending : BOOLEAN,
   ack_code : Codes, code : FailureCodes, shutdown : BOOLEAN]

(* Every field keeps the range of its C++ type.                            *)
TypeOK ==
  /\ file_size \in FileSizes
  /\ snd \in SenderType
  /\ rcv \in ReceiverType
  /\ to_receiver \in Seq(Frames)
  /\ to_sender \in Seq(Frames)
  /\ unconfirmed \in Seq(Nat)
  /\ budget \in [Ends -> Nat]
  /\ authorized \in [Ends -> BOOLEAN]
  /\ exhausted \in [Ends -> BOOLEAN]

(* A sender that reports COMPLETED is right: the receiver's transaction    *)
(* has committed the file, whatever cancels, errors, timeouts, losses of   *)
(* the session and failed encodings happened on the way.                   *)
SuccessIsDurable == snd.state = "Completed" => rcv.transaction = "committed"

(* A durable commit is never reported as cancelled, rejected or failed by  *)
(* the receiver, and every other outcome leaves no open transaction.       *)
DurableOutcome ==
  /\ rcv.transaction = "committed"
       => rcv.state \in {"AwaitingCompletion", "Committed", "Completed"}
  /\ rcv.state \in Terminal => rcv.transaction # "receiving"

(* Each end of a finished transfer has given its credit and its stream     *)
(* back to the connection, exactly once.                                   *)
NothingHeldAtEnd ==
  /\ snd.state \in Terminal => budget["sender"] = 0 /\ ~snd.stream
  /\ rcv.state \in Terminal => budget["receiver"] = 0 /\ ~rcv.stream

(* While the file is sent, the sender's share of the connection credit is  *)
(* its unused credit plus its unacknowledged content, never more than the  *)
(* window the receiver granted; the receiver's own count of unused credit  *)
(* misses exactly what it stored and has not yet confirmed as acknowledged. *)
CreditConserved ==
  /\ snd.state \in {"SendingFile", "AwaitingFileCommit", "Completing"} =>
       /\ budget["sender"] = snd.reserved
       /\ snd.reserved = snd.available + snd.unacked
       /\ snd.unacked = snd.sent - snd.acked
       /\ snd.reserved <= rcv.window
  /\ rcv.credit => rcv.available + (rcv.next - rcv.written) = rcv.window

(* What the two users are told.                                            *)
SentResult ==
  CASE snd.state = "Completed" -> "success"
    [] snd.state = "Cancelled" -> "cancelled"
    [] snd.state \in {"Rejected", "Failed", "Committed"} -> "failure"
    [] OTHER -> "running"
ReceivedResult ==
  CASE rcv.state \in {"Committed", "Completed"} -> "saved"
    [] rcv.state \in {"Cancelled", "Rejected", "Failed"} -> "discarded"
    [] OTHER -> "running"

Outcome == INSTANCE TransferOutcome WITH
  published <- rcv.transaction = "committed", sent <- SentResult, received <- ReceivedResult

(* The two state machines keep the promises of TransferOutcome: success    *)
(* only of a committed file and for good, never after a cancellation, and  *)
(* a receiver that says what became of the file, once.                     *)
KeepsOutcome == Outcome!Spec

(* A sender that ended by completion, refusal or cancellation, and not     *)
(* because of a failure, its own shutdown or a lost authorization, is      *)
(* right about the file: it reports success exactly if the file was        *)
(* committed, whichever side cancelled and when, and whatever is still on  *)
(* its way.                                                                *)
OutcomesAgree ==
  (/\ snd.state \in Terminal \ {"Failed"} /\ snd.code # "failed"
   /\ ~snd.shutdown /\ authorized["sender"])
    => (snd.state = "Completed" <=> rcv.transaction = "committed")

(* An accepted transfer comes to an end at both ends without any timer,    *)
(* also when its credit runs out or the sender cancels at any point.       *)
AcceptedTransferEnds ==
  (rcv.state = "ReceivingFile") ~> (snd.state \in Terminal /\ rcv.state \in Terminal)

(* TRANSFER_COMPLETE is answered: a sender that waits for the answer ends. *)
CompletionIsAnswered == (snd.state = "Completing") ~> (snd.state \in Terminal)

(* A receiver that cancels before the durable commit ends as cancelled: no *)
(* frame under way when it cancelled turns that into a failure.            *)
CancellationWins ==
  [][rcv.state = "Cancelling" /\ rcv'.state \in Terminal => rcv'.state = "Cancelled"]_vars

(* The next chunk fits the receiver's credit whenever the sender kept      *)
(* within the credit it was granted.                                       *)
GrantedCreditIsHonoured ==
  (rcv.state = "ReceivingFile" /\ to_receiver # <<>> /\ Head(to_receiver).type = "FileChunk")
    => Head(to_receiver).size <= rcv.available
=============================================================================
