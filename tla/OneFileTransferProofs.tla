------------------------ MODULE OneFileTransferProofs ------------------------
(***************************************************************************)
(* Proofs about OneFileTransfer, for every file size, chunk size, window   *)
(* and every combination of events: the types, that credit and streams are *)
(* given back, that COMPLETED means durably committed, that the two state  *)
(* machines implement TransferOutcome, that credit is conserved between    *)
(* the two ends, and that a sender that was not cut short is right about   *)
(* the file.                                                               *)
(*                                                                         *)
(* Each action of one end implies a summary of what that end may do        *)
(* (SenderStep, ReceiverStep); the summaries preserve the invariant and    *)
(* implement the abstract steps.  A second, finer summary of the same      *)
(* actions (SenderMoves, ReceiverMoves) says what they do to the counts of *)
(* content and credit; the accounts of the two ends and of the frames      *)
(* between them (Accounts) follow from it.                                 *)
(***************************************************************************)
EXTENDS OneFileTransfer, Integers, TLAPS

-----------------------------------------------------------------------------
(* What holds of the receiver alone.                                       *)
Saved == {"AwaitingCompletion", "Committed", "Completed"}
Unsaved == {"Cancelling", "Cancelled", "Rejected", "Failed"}
Undecided == {"Created", "ReceivingManifest", "AwaitingDecision"}

ReceiverAlone(r) ==
  /\ r \in ReceiverType
  /\ r.state \in Terminal => r.credit = FALSE /\ r.stream = FALSE
  /\ r.state \in Saved <=> r.transaction = "committed"
  /\ r.state = "ReceivingFile" <=> r.transaction = "receiving"
  /\ r.state \in Undecided \cup {"Rejecting"} => r.credit = FALSE
  /\ r.state \in Undecided => r.transaction = "none"
  /\ r.cancel_sent => r.state \in Unsaved
  /\ r.ack_pending => /\ r.state \in Terminal
                      /\ r.ack_code = "completed" <=> r.transaction = "committed"

(* Frames that tell the sender of a durable commit.                        *)
DurableAnswer(f) ==
  f.type \in {"FileCommit", "CompleteAck"} \/ (f.type = "CancelAck" /\ f.code = "completed")

(* Frames that tell the sender that there will be none.                    *)
FinalAnswer(f) ==
  f.type \in {"Cancel", "Reject"} \/ (f.type = "CancelAck" /\ f.code # "completed")

Stopping == Terminal \cup {"Cancelling"}
NeverDurable(r) == r.transaction # "committed" /\ r.state \in Stopping

(* A frame the receiver may send when it ends up as r.                     *)
Honest(f, r) ==
  /\ f \in Frames
  /\ DurableAnswer(f) => r.transaction = "committed"
  /\ FinalAnswer(f) => NeverDurable(r)

Answers == to_sender' = to_sender \/ \E f : Honest(f, rcv') /\ to_sender' = Append(to_sender, f)

(* What a step of the receiver may do.                                     *)
ReceiverStep ==
  /\ ReceiverAlone(rcv')
  /\ budget' = [budget EXCEPT !["receiver"] = HeldCredit(rcv')]
  /\ Answers
  /\ rcv.transaction = "committed" => rcv'.transaction = "committed"
  /\ rcv'.transaction = "committed" /\ rcv.transaction # "committed"
       => rcv.state = "ReceivingFile"
  /\ rcv.state \in Terminal => rcv'.state \in Terminal
  /\ rcv.state \in Stopping => rcv'.state \in Stopping

(* What the receiver's actions start from.                                 *)
ReceiverReady ==
  /\ ReceiverAlone(rcv)
  /\ budget \in [Ends -> Nat]
  /\ budget["receiver"] = HeldCredit(rcv)
  /\ to_sender \in Seq(Frames)

-----------------------------------------------------------------------------
(* Settled leaves everything but the outcome and the cancellation flags.   *)
LEMMA SettledReceiver ==
  ASSUME NEW r \in ReceiverType, NEW state \in ReceiverStates, NEW code \in FailureCodes
  PROVE  LET q == Settled(r, state, code)
         IN  /\ q \in ReceiverType
             /\ q.state = state /\ q.cancel_sent = FALSE /\ q.ack_pending = FALSE
             /\ q.transaction = r.transaction
             /\ q.credit = r.credit /\ q.window = r.window
  BY Zenon DEF Settled, ReceiverType

(* ReceiverEnds gives back the credit and leaves a consistent end.         *)
LEMMA ReceiverEnded ==
  ASSUME NEW end \in ReceiverType, NEW state \in Terminal, NEW code \in FailureCodes,
         budget \in [Ends -> Nat], budget["receiver"] = HeldCredit(end),
         state \in Saved <=> end.transaction = "committed",
         ReceiverEnds(end, state, code)
  PROVE  /\ ReceiverAlone(rcv')
         /\ rcv'.state = state
         /\ rcv'.transaction = AbortTransaction(end)
         /\ budget' = [budget EXCEPT !["receiver"] = HeldCredit(rcv')]
  <1> DEFINE q == Settled(end, state, code)
  <1>1. state \in ReceiverStates
    BY DEF ReceiverStates
  <1>2. /\ q \in ReceiverType /\ q.state = state /\ q.cancel_sent = FALSE
        /\ q.ack_pending = FALSE
    BY Zenon, <1>1, SettledReceiver
  <1>3. rcv' = [q EXCEPT !.transaction = AbortTransaction(end), !.credit = FALSE,
                         !.stream = FALSE]
    BY DEF ReceiverEnds
  <1>4. AbortTransaction(end) \in Transactions \ {"receiving"}
        /\ (AbortTransaction(end) = "committed" <=> end.transaction = "committed")
    BY DEF AbortTransaction, ReceiverType, Transactions
  <1> HIDE DEF q
  <1>5. /\ rcv' \in ReceiverType /\ rcv'.state = state
        /\ rcv'.transaction = AbortTransaction(end)
        /\ rcv'.credit = FALSE /\ rcv'.stream = FALSE
        /\ rcv'.cancel_sent = FALSE /\ rcv'.ack_pending = FALSE
    BY Zenon, <1>2, <1>3, <1>4 DEF ReceiverType
  <1>6. budget["receiver"] - HeldCredit(end) = 0
    BY DEF HeldCredit, ReceiverType, Ends
  <1>7. budget' = [budget EXCEPT !["receiver"] = HeldCredit(rcv')]
    BY Zenon, <1>5, <1>6 DEF ReceiverEnds, HeldCredit
  <1> QED
    BY <1>4, <1>5, <1>7 DEF ReceiverAlone, Terminal, Saved, Undecided

(* Fail ends the transfer and sends at most an ERROR.                      *)
LEMMA ReceiverFailed ==
  ASSUME NEW end \in ReceiverType, NEW code \in FailureCodes,
         budget \in [Ends -> Nat], budget["receiver"] = HeldCredit(end),
         ReceiverFails(end, code)
  PROVE  /\ ReceiverAlone(rcv')
         /\ rcv'.state \in Terminal
         /\ rcv'.transaction = "committed" <=> end.transaction = "committed"
         /\ budget' = [budget EXCEPT !["receiver"] = HeldCredit(rcv')]
         /\ Answers
  <1>1. FailureState(end) \in Terminal
        /\ (FailureState(end) \in Saved <=> end.transaction = "committed")
    BY DEF FailureState, DurableCommit, Terminal, Saved
  <1>2. ReceiverEnds(end, FailureState(end), code)
    BY DEF ReceiverFails
  <1>3. /\ ReceiverAlone(rcv')
        /\ rcv'.state = FailureState(end)
        /\ rcv'.transaction = AbortTransaction(end)
        /\ budget' = [budget EXCEPT !["receiver"] = HeldCredit(rcv')]
    BY <1>1, <1>2, ReceiverEnded
  <1>4. Honest(Coded("Error", code), rcv')
    BY DEF Honest, Coded, Frames, FrameTypes, DurableAnswer, FinalAnswer, FailureCodes
  <1>5. to_sender' \in {to_sender, Append(to_sender, Coded("Error", code))}
    BY DEF ReceiverFails, ErrorFrame, Written
  <1>6. Answers
    BY <1>4, <1>5 DEF Answers
  <1> QED
    BY <1>1, <1>3, <1>6 DEF AbortTransaction

(* Ending a transfer is a receiver's step when the frame sent is honest.   *)
LEMMA ReceiverEndStep ==
  ASSUME ReceiverReady, NEW end \in ReceiverType, NEW state \in Terminal,
         NEW code \in FailureCodes,
         HeldCredit(end) = HeldCredit(rcv),
         state \in Saved <=> end.transaction = "committed",
         rcv.transaction = "committed" => end.transaction = "committed",
         end.transaction = "committed" /\ rcv.transaction # "committed"
           => rcv.state = "ReceivingFile",
         ReceiverEnds(end, state, code),
         \/ to_sender' = to_sender
         \/ \E f \in Frames :
              /\ to_sender' = Append(to_sender, f)
              /\ FinalAnswer(f) => end.transaction # "committed"
              /\ DurableAnswer(f) => end.transaction = "committed"
  PROVE  ReceiverStep
  <1>1. /\ ReceiverAlone(rcv')
        /\ rcv'.state = state
        /\ rcv'.transaction = AbortTransaction(end)
        /\ budget' = [budget EXCEPT !["receiver"] = HeldCredit(rcv')]
    BY ReceiverEnded DEF ReceiverReady
  <1>2. rcv'.transaction = "committed" <=> end.transaction = "committed"
    BY <1>1 DEF AbortTransaction
  <1>3. Answers
    <2>1. CASE to_sender' = to_sender
      BY <2>1 DEF Answers
    <2>2. CASE to_sender' # to_sender
      <3>1. PICK f \in Frames :
              /\ to_sender' = Append(to_sender, f)
              /\ FinalAnswer(f) => end.transaction # "committed"
              /\ DurableAnswer(f) => end.transaction = "committed"
        BY <2>2
      <3>2. Honest(f, rcv')
        BY <1>1, <1>2, <3>1 DEF Honest, NeverDurable, Stopping
      <3> QED
        BY <3>1, <3>2 DEF Answers
    <2> QED
      BY <2>1, <2>2
  <1> QED
    BY <1>1, <1>2, <1>3 DEF ReceiverStep, Stopping

(* Failing is a receiver's step.                                           *)
LEMMA ReceiverFailStep ==
  ASSUME ReceiverReady, NEW end \in ReceiverType, NEW code \in FailureCodes,
         HeldCredit(end) = HeldCredit(rcv),
         end.transaction = "committed" <=> rcv.transaction = "committed",
         ReceiverFails(end, code)
  PROVE  ReceiverStep
  <1>1. /\ ReceiverAlone(rcv')
        /\ rcv'.state \in Terminal
        /\ rcv'.transaction = "committed" <=> end.transaction = "committed"
        /\ budget' = [budget EXCEPT !["receiver"] = HeldCredit(rcv')]
        /\ Answers
    BY ReceiverFailed DEF ReceiverReady
  <1> QED
    BY <1>1 DEF ReceiverStep, Stopping

(* Keeping the credit, the budget stays what it is.                        *)
LEMMA SameBudget ==
  ASSUME ReceiverReady, HeldCredit(rcv') = HeldCredit(rcv), UNCHANGED budget
  PROVE  budget' = [budget EXCEPT !["receiver"] = HeldCredit(rcv')]
  BY DEF ReceiverReady, Ends

(* A frame that cannot be encoded is kept for later or ends the transfer.  *)
LEMMA CannotEncodeStep ==
  ASSUME ReceiverReady, NEW end, ReceiverAlone(end),
         HeldCredit(end) = HeldCredit(rcv),
         rcv.transaction = "committed" => end.transaction = "committed",
         end.transaction = "committed" /\ rcv.transaction # "committed"
           => rcv.state = "ReceivingFile",
         end.state \in ReceiverStates, rcv.state \notin Stopping,
         ReceiverCannotEncode(end)
  PROVE  ReceiverStep
  <1>1. end \in ReceiverType
    BY DEF ReceiverAlone
  <1>2. CASE exhausted["receiver"]
    <2>1. ReceiverEnds(end, FailureState(end), "failed") /\ to_sender' = to_sender
      BY <1>2 DEF ReceiverCannotEncode
    <2>2. FailureState(end) \in Terminal
          /\ (FailureState(end) \in Saved <=> end.transaction = "committed")
      BY DEF FailureState, DurableCommit, Terminal, Saved
    <2>3. "failed" \in FailureCodes
      BY DEF FailureCodes, Codes
    <2> QED
      BY <1>1, <2>1, <2>2, <2>3, ReceiverEndStep
  <1>3. CASE ~exhausted["receiver"]
    <2>1. rcv' = end /\ UNCHANGED <<budget, to_sender>>
      BY <1>3 DEF ReceiverCannotEncode, ReceiverWaits
    <2>2. budget' = [budget EXCEPT !["receiver"] = HeldCredit(rcv')]
      BY <2>1, SameBudget
    <2> QED
      BY Zenon, <2>1, <2>2 DEF ReceiverStep, Answers, Stopping
  <1> QED
    BY <1>2, <1>3

(* Reject and the rejections of Accept.                                    *)
LEMMA EmitRejectStep ==
  ASSUME ReceiverReady, rcv.state \in {"AwaitingDecision", "Rejecting"},
         NEW end, ReceiverAlone(end), end.state = "Rejecting", NEW ok \in BOOLEAN,
         ReceiverEmitReject(end, ok)
  PROVE  ReceiverStep
  <1>1. /\ end \in ReceiverType /\ end.transaction # "committed"
        /\ HeldCredit(end) = 0 /\ HeldCredit(rcv) = 0
        /\ rcv.transaction # "committed" /\ rcv.state \notin Stopping
    BY DEF ReceiverReady, ReceiverAlone, Saved, HeldCredit, Undecided, Stopping, Terminal
  <1>2. CASE ok
    <2>1. /\ ReceiverEnds(end, "Rejected", "refused")
          /\ to_sender' = Append(to_sender, Coded("Reject", "refused"))
      BY <1>2 DEF ReceiverEmitReject
    <2>2. /\ Coded("Reject", "refused") \in Frames
          /\ ~DurableAnswer(Coded("Reject", "refused"))
      BY DEF Coded, Frames, FrameTypes, DurableAnswer, FailureCodes, Codes
    <2>3. "Rejected" \in Terminal /\ "Rejected" \notin Saved /\ "refused" \in FailureCodes
      BY DEF Terminal, Saved, FailureCodes, Codes
    <2> QED
      BY <1>1, <2>1, <2>2, <2>3, ReceiverEndStep
  <1>3. CASE ~ok
    <2>1. ReceiverCannotEncode(end)
      BY <1>3 DEF ReceiverEmitReject
    <2> QED
      BY Zenon, <1>1, <2>1, CannotEncodeStep DEF ReceiverAlone, ReceiverType
  <1> QED
    BY <1>2, <1>3

(* Sending an honest frame while the transfer goes on.                     *)
LEMMA ReceiverSendStep ==
  ASSUME ReceiverReady, rcv.state \notin Stopping,
         NEW end, ReceiverAlone(end), HeldCredit(end) = HeldCredit(rcv),
         rcv.transaction = "committed" => end.transaction = "committed",
         end.transaction = "committed" /\ rcv.transaction # "committed"
           => rcv.state = "ReceivingFile",
         NEW f, Honest(f, end), ReceiverSends(end, f)
  PROVE  ReceiverStep
  <1>1. rcv' = end /\ to_sender' = Append(to_sender, f) /\ UNCHANGED budget
    BY DEF ReceiverSends
  <1>2. budget' = [budget EXCEPT !["receiver"] = HeldCredit(rcv')]
    BY <1>1, SameBudget
  <1>3. Answers
    BY <1>1 DEF Answers
  <1> QED
    BY Zenon, <1>1, <1>2, <1>3 DEF ReceiverStep, Stopping

(* Taking a frame without an answer.                                       *)
LEMMA ReceiverWaitStep ==
  ASSUME ReceiverReady,
         NEW end, ReceiverAlone(end), HeldCredit(end) = HeldCredit(rcv),
         end.transaction = rcv.transaction,
         rcv.state \in Terminal => end.state \in Terminal,
         rcv.state \in Stopping => end.state \in Stopping,
         ReceiverWaits(end)
  PROVE  ReceiverStep
  <1>1. rcv' = end /\ UNCHANGED <<budget, to_sender>>
    BY DEF ReceiverWaits
  <1>2. budget' = [budget EXCEPT !["receiver"] = HeldCredit(rcv')]
    BY <1>1, SameBudget
  <1> QED
    BY Zenon, <1>1, <1>2 DEF ReceiverStep, Answers

(* FILE_COMMIT, when it is due and when it is retried.                     *)
LEMMA EmitFileCommitStep ==
  ASSUME ReceiverReady, rcv.state \in {"ReceivingFile", "AwaitingCompletion"},
         NEW end, ReceiverAlone(end), end.transaction = "committed",
         end.state = "AwaitingCompletion", HeldCredit(end) = HeldCredit(rcv),
         NEW ok \in BOOLEAN, ReceiverEmitFileCommit(end, ok)
  PROVE  ReceiverStep
  <1>1. /\ rcv.state \notin Stopping /\ end.state \in ReceiverStates
        /\ rcv.transaction # "committed" => rcv.state = "ReceivingFile"
    BY DEF ReceiverReady, ReceiverAlone, ReceiverType, Saved, Stopping, Terminal
  <1>2. CASE ok
    <2> DEFINE sent == [end EXCEPT !.commit_sent = TRUE]
    <2>1. ReceiverSends(sent, Plain("FileCommit"))
      BY <1>2 DEF ReceiverEmitFileCommit
    <2>2. /\ ReceiverAlone(sent) /\ sent.transaction = "committed"
          /\ HeldCredit(sent) = HeldCredit(rcv)
      BY Zenon DEF ReceiverAlone, ReceiverType, HeldCredit
    <2>3. Honest(Plain("FileCommit"), sent)
      BY <2>2 DEF Honest, Plain, Frame, Frames, FrameTypes, Codes, FailureCodes, FinalAnswer
    <2> HIDE DEF sent
    <2> QED
      BY <1>1, <2>1, <2>2, <2>3, ReceiverSendStep
  <1>3. CASE ~ok
    <2>1. ReceiverCannotEncode(end)
      BY <1>3 DEF ReceiverEmitFileCommit
    <2> QED
      BY <1>1, <2>1, CannotEncodeStep
  <1> QED
    BY <1>2, <1>3

(* TRANSFER_COMPLETE_ACK, when it is due and when it is retried.           *)
LEMMA EmitCompleteAckStep ==
  ASSUME ReceiverReady, rcv.state = "AwaitingCompletion",
         NEW end, ReceiverAlone(end), end.transaction = "committed",
         end.state = "AwaitingCompletion", HeldCredit(end) = HeldCredit(rcv),
         NEW ok \in BOOLEAN, ReceiverEmitCompleteAck(end, ok)
  PROVE  ReceiverStep
  <1>1. /\ rcv.state \notin Stopping /\ end.state \in ReceiverStates
        /\ rcv.transaction = "committed"
    BY DEF ReceiverReady, ReceiverAlone, ReceiverType, Saved, Stopping, Terminal
  <1>2. CASE ok
    <2> DEFINE done == [end EXCEPT !.complete_pending = FALSE]
    <2>1. /\ ReceiverEnds(done, "Completed", "none")
          /\ to_sender' = Append(to_sender, Plain("CompleteAck"))
      BY <1>2 DEF ReceiverEmitCompleteAck
    <2>2. /\ done \in ReceiverType /\ done.transaction = "committed"
          /\ HeldCredit(done) = HeldCredit(rcv)
      BY Zenon DEF ReceiverAlone, ReceiverType, HeldCredit
    <2>3. Plain("CompleteAck") \in Frames /\ ~FinalAnswer(Plain("CompleteAck"))
      BY DEF FinalAnswer, Plain, Frame, Frames, FrameTypes, Codes, FailureCodes
    <2>4. "Completed" \in Terminal /\ "Completed" \in Saved /\ "none" \in FailureCodes
      BY DEF Terminal, Saved, FailureCodes, Codes
    <2> HIDE DEF done
    <2> QED
      BY <1>1, <2>1, <2>2, <2>3, <2>4, ReceiverEndStep
  <1>3. CASE ~ok
    <2>1. ReceiverCannotEncode(end)
      BY <1>3 DEF ReceiverEmitCompleteAck
    <2> QED
      BY <1>1, <2>1, CannotEncodeStep
  <1> QED
    BY <1>2, <1>3

(* CANCEL, when it is due and when it is retried.                          *)
LEMMA EmitCancelStep ==
  ASSUME ReceiverReady, rcv.transaction # "committed", rcv.state \notin Terminal,
         NEW end, ReceiverAlone(end), end.state = "Cancelling",
         HeldCredit(end) = HeldCredit(rcv),
         NEW ok \in BOOLEAN, ReceiverEmitCancel(end, ok)
  PROVE  ReceiverStep
  <1>1. end \in ReceiverType /\ end.transaction # "committed"
    BY DEF ReceiverAlone, Saved
  <1>2. CASE ~ok /\ exhausted["receiver"]
    <2>1. ReceiverEnds(end, "Cancelled", "failed") /\ to_sender' = to_sender
      BY <1>2 DEF ReceiverEmitCancel
    <2>2. "Cancelled" \in Terminal /\ "Cancelled" \notin Saved /\ "failed" \in FailureCodes
      BY DEF Terminal, Saved, FailureCodes, Codes
    <2> QED
      BY <1>1, <2>1, <2>2, ReceiverEndStep
  <1>3. CASE ~(~ok /\ exhausted["receiver"])
    <2>1. /\ rcv' = IF ok THEN CancelSent(end) ELSE end
          /\ to_sender' = Written(to_sender, Plain("Cancel"), ok)
          /\ UNCHANGED budget
      BY <1>3 DEF ReceiverEmitCancel
    <2>2. /\ ReceiverAlone(CancelSent(end)) /\ CancelSent(end).state = "Cancelling"
          /\ CancelSent(end).transaction = end.transaction
          /\ HeldCredit(CancelSent(end)) = HeldCredit(rcv)
      BY ZenonT(60), <1>1 DEF ReceiverAlone, ReceiverType, HeldCredit, CancelSent, Unsaved
    <2>3. /\ ReceiverAlone(rcv') /\ rcv'.state = "Cancelling"
          /\ rcv'.transaction # "committed" /\ HeldCredit(rcv') = HeldCredit(rcv)
      BY <1>1, <2>1, <2>2
    <2>4. budget' = [budget EXCEPT !["receiver"] = HeldCredit(rcv')]
      BY <2>1, <2>3, SameBudget
    <2>5. Honest(Plain("Cancel"), rcv')
      BY <2>3 DEF Honest, Plain, Frame, Frames, FrameTypes, Codes, FailureCodes,
                  DurableAnswer, NeverDurable, Stopping
    <2>6. Answers
      BY <2>1, <2>5 DEF Answers, Written
    <2> QED
      BY <2>3, <2>4, <2>6 DEF ReceiverStep, Stopping
  <1> QED
    BY <1>2, <1>3

-----------------------------------------------------------------------------
(* The codes the receiver fails with.                                      *)
LEMMA KnownCodes == {"none", "cancelled", "refused", "failed"} = FailureCodes
  BY DEF FailureCodes, Codes

(* Accept opens the transaction and takes the window, or gives up cleanly. *)
LEMMA AcceptStep ==
  ASSUME ReceiverReady, NEW window \in Windows, ReceiverAccept(window)
  PROVE  ReceiverStep
  <1> DEFINE opened == [rcv EXCEPT !.transaction = "receiving"]
  <1>1. /\ rcv \in ReceiverType /\ rcv.state = "AwaitingDecision"
        /\ rcv.transaction = "none" /\ rcv.credit = FALSE /\ rcv.cancel_sent = FALSE
        /\ rcv.ack_pending = FALSE
    BY DEF ReceiverAccept, ReceiverReady, ReceiverAlone, ReceiverType, Undecided, Unsaved,
           Terminal
  <1>2. /\ opened \in ReceiverType /\ opened.transaction = "receiving"
        /\ opened.credit = FALSE /\ HeldCredit(opened) = HeldCredit(rcv)
    BY <1>1 DEF ReceiverType, Transactions, HeldCredit
  <1>3. ReceiverAlone(Rejecting(rcv)) /\ Rejecting(rcv).state = "Rejecting"
    BY Zenon, <1>1 DEF ReceiverAlone, ReceiverType, Rejecting, AbortTransaction, Transactions,
                ReceiverStates, Terminal, Saved, Undecided
  <1>4. ReceiverAlone(Rejecting(opened)) /\ Rejecting(opened).state = "Rejecting"
    BY Zenon, <1>1 DEF ReceiverAlone, ReceiverType, Rejecting, AbortTransaction, Transactions,
                ReceiverStates, Terminal, Saved, Undecided
  <1>5. ASSUME NEW end \in {Rejecting(rcv), Rejecting(opened)},
               NEW ok \in EncodeFrame("receiver"), ReceiverEmitReject(end, ok)
        PROVE  ReceiverStep
    <2>1. ok \in BOOLEAN
      BY DEF EncodeFrame
    <2> HIDE DEF opened
    <2> QED
      BY <1>1, <1>3, <1>4, <1>5, <2>1, EmitRejectStep
  <1>6. CASE ReceiverFails(rcv, "failed")
    BY <1>1, <1>6, KnownCodes, ReceiverFailStep
  <1>7. CASE ReceiverFails(opened, "refused")
    <2> HIDE DEF opened
    <2> QED
      BY <1>1, <1>2, <1>7, KnownCodes, ReceiverFailStep
  <1>8. CASE /\ rcv' = [opened EXCEPT !.state = "ReceivingFile", !.window = window,
                                     !.available = window, !.credit = TRUE]
             /\ to_sender' = Append(to_sender, Frame("Accept", 0, window))
             /\ budget' = [budget EXCEPT !["receiver"] = @ + window]
    <2>1. window \in Nat
      BY WindowAssumption
    <2>2. /\ rcv' \in ReceiverType /\ rcv'.state = "ReceivingFile"
          /\ rcv'.transaction = "receiving" /\ rcv'.credit = TRUE
          /\ rcv'.window = window
          /\ rcv'.ack_pending = rcv.ack_pending /\ rcv'.ack_code = rcv.ack_code
          /\ rcv'.cancel_sent = FALSE
      BY Zenon, <1>1, <1>8, <2>1 DEF ReceiverType, Transactions, ReceiverStates
    <2>3. ReceiverAlone(rcv')
      BY <1>1, <2>2 DEF ReceiverAlone, Terminal, Saved, Undecided
    <2>4. budget["receiver"] + window = HeldCredit(rcv')
      BY <1>1, <2>1, <2>2 DEF HeldCredit, ReceiverReady
    <2>5. Honest(Frame("Accept", 0, window), rcv')
      BY <2>1 DEF Honest, Frame, Frames, FrameTypes, Codes, FailureCodes, DurableAnswer,
                  FinalAnswer
    <2>6. Answers
      BY <1>8, <2>5 DEF Answers
    <2> QED
      BY Zenon, <1>1, <1>8, <2>2, <2>3, <2>4, <2>6 DEF ReceiverStep, Stopping, Terminal
  <1> HIDE DEF opened
  <1> QED
    BY <1>5, <1>6, <1>7, <1>8, Zenon DEF ReceiverAccept, opened

(* Reject before a transaction exists.                                     *)
LEMMA RejectStep ==
  ASSUME ReceiverReady, ReceiverReject
  PROVE  ReceiverStep
  <1>1. /\ rcv \in ReceiverType /\ rcv.state = "AwaitingDecision"
        /\ rcv.transaction = "none" /\ rcv.credit = FALSE /\ rcv.cancel_sent = FALSE
        /\ rcv.ack_pending = FALSE
    BY DEF ReceiverReject, ReceiverReady, ReceiverAlone, ReceiverType, Undecided, Unsaved,
           Terminal
  <1>2. ReceiverAlone(Rejecting(rcv)) /\ Rejecting(rcv).state = "Rejecting"
    BY Zenon, <1>1 DEF ReceiverAlone, ReceiverType, Rejecting, AbortTransaction, Transactions,
                ReceiverStates, Terminal, Saved, Undecided
  <1>3. PICK ok \in BOOLEAN : ReceiverEmitReject(Rejecting(rcv), ok)
    BY DEF ReceiverReject, EncodeFrame
  <1> QED
    BY <1>1, <1>2, <1>3, EmitRejectStep

(* NextOutbound sends the frame that was due: honest of the same receiver. *)
LEMMA RetriesStep ==
  ASSUME ReceiverReady, ReceiverRetries
  PROVE  ReceiverStep
  <1>1. PICK ok \in BOOLEAN :
          \/ rcv.state = "Cancelling" /\ rcv.cancel_pending /\ ReceiverEmitCancel(rcv, ok)
          \/ rcv.state = "Rejecting" /\ ReceiverEmitReject(rcv, ok)
          \/ rcv.state = "AwaitingCompletion" /\ ReceiverEmitCompleteAck(rcv, ok)
          \/ rcv.state = "AwaitingCompletion" /\ ReceiverEmitFileCommit(rcv, ok)
    BY DEF ReceiverRetries, EncodeFrame
  <1>2. ReceiverAlone(rcv) /\ rcv.state \notin Terminal
    BY DEF ReceiverReady, ReceiverRetries, ReceiverMayPump
  <1>3. CASE rcv.state = "Cancelling" /\ ReceiverEmitCancel(rcv, ok)
    <2>1. rcv.transaction # "committed"
      BY <1>2, <1>3 DEF ReceiverAlone, Saved
    <2> QED
      BY <1>2, <1>3, <2>1, EmitCancelStep
  <1>4. CASE rcv.state = "Rejecting" /\ ReceiverEmitReject(rcv, ok)
    BY <1>2, <1>4, EmitRejectStep
  <1>5. CASE rcv.state = "AwaitingCompletion"
    <2>1. rcv.transaction = "committed"
      BY <1>2, <1>5 DEF ReceiverAlone, Saved
    <2> QED
      BY <1>1, <1>2, <1>5, <2>1, EmitCompleteAckStep, EmitFileCommitStep
  <1> QED
    BY <1>1, <1>3, <1>4, <1>5

(* Dropping a pending acknowledgement changes nothing else.                *)
LEMMA AckDropped ==
  ASSUME NEW end, ReceiverAlone(end)
  PROVE  LET done == [end EXCEPT !.ack_pending = FALSE]
         IN  /\ ReceiverAlone(done) /\ done.state = end.state
             /\ done.transaction = end.transaction /\ HeldCredit(done) = HeldCredit(end)
  <1> DEFINE done == [end EXCEPT !.ack_pending = FALSE]
  <1>1. end \in ReceiverType
    BY DEF ReceiverAlone
  <1>2. /\ done \in ReceiverType /\ done.state = end.state
        /\ done.transaction = end.transaction /\ done.window = end.window
        /\ done.credit = end.credit /\ done.stream = end.stream
        /\ done.cancel_sent = end.cancel_sent /\ done.ack_pending = FALSE
    BY Zenon, <1>1 DEF ReceiverType
  <1> HIDE DEF done
  <1>3. ReceiverAlone(done)
    BY <1>2, Zenon DEF ReceiverAlone
  <1>4. HeldCredit(done) = HeldCredit(end)
    BY <1>2 DEF HeldCredit
  <1> QED
    BY <1>2, <1>3, <1>4 DEF done

(* An acknowledgement of a CANCEL says COMPLETED only of a durable commit. *)
LEMMA AckStep ==
  ASSUME ReceiverReady, NEW end, ReceiverAlone(end), HeldCredit(end) = HeldCredit(rcv),
         end.state = rcv.state, end.transaction = rcv.transaction,
         NEW ok \in BOOLEAN, end.ack_pending,
         rcv' = EmitCancelAck(end, "receiver", ok),
         to_sender' = Written(to_sender, Coded("CancelAck", end.ack_code), ok),
         UNCHANGED budget
  PROVE  ReceiverStep
  <1> DEFINE done == [end EXCEPT !.ack_pending = FALSE]
  <1>1. /\ ReceiverAlone(done) /\ done.state = end.state
        /\ done.transaction = end.transaction /\ HeldCredit(done) = HeldCredit(end)
    BY AckDropped
  <1>2. rcv' \in {end, done}
    BY DEF EmitCancelAck
  <1> HIDE DEF done
  <1>3. /\ ReceiverAlone(rcv') /\ rcv'.state = rcv.state
        /\ rcv'.transaction = rcv.transaction /\ HeldCredit(rcv') = HeldCredit(rcv)
    BY <1>1, <1>2
  <1>4. budget' = [budget EXCEPT !["receiver"] = HeldCredit(rcv')]
    BY <1>3, SameBudget
  <1>5. Honest(Coded("CancelAck", end.ack_code), rcv')
    <2>1. /\ end.ack_code \in Codes /\ end.state \in Terminal
          /\ end.ack_code = "completed" <=> end.transaction = "committed"
      BY DEF ReceiverAlone, ReceiverType
    <2> QED
      BY <1>3, <2>1 DEF Honest, Coded, Frames, FrameTypes, DurableAnswer, FinalAnswer,
                        NeverDurable, Stopping
  <1>6. Answers
    BY <1>5 DEF Answers, Written
  <1> QED
    BY Zenon, <1>3, <1>4, <1>6 DEF ReceiverStep

(* The CANCEL_ACK of NextOutbound says what was due, nothing newer.        *)
LEMMA RetriesCancelAckStep ==
  ASSUME ReceiverReady, ReceiverRetriesCancelAck
  PROVE  ReceiverStep
  <1>0. ReceiverAlone(rcv) /\ rcv.ack_pending
    BY DEF ReceiverReady, ReceiverRetriesCancelAck
  <1>1. CASE authorized["receiver"]
    <2>1. PICK ok \in BOOLEAN :
            /\ rcv' = EmitCancelAck(rcv, "receiver", ok)
            /\ to_sender' = Written(to_sender, Coded("CancelAck", rcv.ack_code), ok)
      BY <1>1 DEF ReceiverRetriesCancelAck, EncodeFrame
    <2>2. UNCHANGED budget
      BY DEF ReceiverRetriesCancelAck
    <2> QED
      BY <1>0, <2>1, <2>2, AckStep
  <1>2. CASE ~authorized["receiver"]
    <2> DEFINE done == [rcv EXCEPT !.ack_pending = FALSE]
    <2>1. rcv' = done /\ to_sender' = to_sender /\ UNCHANGED budget
      BY <1>2 DEF ReceiverRetriesCancelAck, Written
    <2>2. /\ ReceiverAlone(done) /\ done.state = rcv.state
          /\ done.transaction = rcv.transaction /\ HeldCredit(done) = HeldCredit(rcv)
      BY <1>0, AckDropped
    <2>3. ReceiverWaits(done)
      BY <2>1 DEF ReceiverWaits
    <2> HIDE DEF done
    <2> QED
      BY <2>2, <2>3, ReceiverWaitStep
  <1> QED
    BY <1>1, <1>2

(* Timers and the loss of the session fail the transfer, not the file.     *)
LEMMA AdvanceStep ==
  ASSUME ReceiverReady, ReceiverAdvance
  PROVE  ReceiverStep
  <1>1. rcv \in ReceiverType
    BY DEF ReceiverReady, ReceiverAlone
  <1>2. ReceiverFails(rcv, "none") \/ ReceiverFails(rcv, "failed")
    BY DEF ReceiverAdvance
  <1> QED
    BY <1>1, <1>2, KnownCodes, ReceiverFailStep

(* ConfirmChunkAckWritten restores credit within the window or fails.      *)
LEMMA ConfirmStep ==
  ASSUME ReceiverReady, unconfirmed \in Seq(Nat), ConfirmChunkAckWritten
  PROVE  ReceiverStep
  <1> DEFINE next_offset == Head(unconfirmed)
             restored == next_offset - rcv.written
             confirmed == [rcv EXCEPT !.available = @ + restored, !.written = next_offset]
  <1>1. rcv \in ReceiverType /\ next_offset \in Nat
    BY DEF ReceiverReady, ReceiverAlone, ConfirmChunkAckWritten
  <1>2. CASE ReceiverFails(rcv, "none") \/ ReceiverFails(rcv, "failed")
    BY <1>1, <1>2, KnownCodes, ReceiverFailStep
  <1>3. CASE next_offset > rcv.written /\ ReceiverWaits(confirmed)
    <2>1. rcv.written \in Nat /\ rcv.available \in Nat
      BY <1>1 DEF ReceiverType
    <2>2. rcv.available + restored \in Nat
      BY <1>1, <1>3, <2>1
    <2> HIDE DEF restored, next_offset
    <2>3. /\ confirmed \in ReceiverType /\ confirmed.state = rcv.state
          /\ confirmed.transaction = rcv.transaction /\ confirmed.window = rcv.window
          /\ confirmed.credit = rcv.credit /\ confirmed.stream = rcv.stream
          /\ confirmed.cancel_sent = rcv.cancel_sent
          /\ confirmed.ack_pending = rcv.ack_pending /\ confirmed.ack_code = rcv.ack_code
      BY Zenon, <1>1, <2>2 DEF ReceiverType
    <2> HIDE DEF confirmed
    <2>4. ReceiverAlone(confirmed)
      BY <2>3, Zenon DEF ReceiverAlone, ReceiverReady
    <2>5. HeldCredit(confirmed) = HeldCredit(rcv)
      BY <2>3 DEF HeldCredit
    <2> QED
      BY <1>3, <2>3, <2>4, <2>5, ReceiverWaitStep
  <1> QED
    BY <1>2, <1>3 DEF ConfirmChunkAckWritten

(* Cancel keeps committed output and discards any other.                   *)
LEMMA CancelStep ==
  ASSUME ReceiverReady, ReceiverCancel
  PROVE  ReceiverStep
  <1> DEFINE aborted == [rcv EXCEPT !.transaction = AbortTransaction(rcv)]
             cancelling == Cancelling(aborted)
  <1>1. rcv \in ReceiverType /\ rcv.state \notin Terminal
    BY DEF ReceiverReady, ReceiverAlone, ReceiverCancel
  <1>2. CASE DurableCommit(rcv)
    <2>1. ReceiverEnds(rcv, "Committed", "none") /\ to_sender' = to_sender
      BY <1>2 DEF ReceiverCancel
    <2>2. /\ "Committed" \in Terminal /\ "Committed" \in Saved
          /\ rcv.transaction = "committed"
      BY <1>2 DEF Terminal, Saved, DurableCommit
    <2> QED
      BY <1>1, <2>1, <2>2, KnownCodes, ReceiverEndStep
  <1>3. CASE ~DurableCommit(rcv) /\ (rcv.state = "Created" \/ ~authorized["receiver"])
    <2>1. ReceiverEnds(rcv, "Cancelled", "cancelled") /\ to_sender' = to_sender
      BY <1>3 DEF ReceiverCancel
    <2>2. /\ "Cancelled" \in Terminal /\ "Cancelled" \notin Saved
          /\ rcv.transaction # "committed"
      BY <1>3 DEF Terminal, Saved, DurableCommit
    <2> QED
      BY <1>1, <2>1, <2>2, KnownCodes, ReceiverEndStep
  <1>4. CASE ~DurableCommit(rcv) /\ ~(rcv.state = "Created" \/ ~authorized["receiver"])
    <2>1. PICK ok \in BOOLEAN : ReceiverEmitCancel(cancelling, ok)
      BY <1>4 DEF ReceiverCancel, EncodeFrame
    <2>2. rcv.transaction # "committed"
      BY <1>4 DEF DurableCommit
    <2>3. AbortTransaction(rcv) \in Transactions \ {"receiving", "committed"}
      BY <1>1, <2>2 DEF AbortTransaction, ReceiverType, Transactions
    <2>4. /\ cancelling \in ReceiverType /\ cancelling.state = "Cancelling"
          /\ cancelling.transaction = AbortTransaction(rcv)
          /\ cancelling.window = rcv.window /\ cancelling.credit = rcv.credit
          /\ cancelling.ack_pending = FALSE
      BY ZenonT(60), <1>1, <2>3, KnownCodes DEF ReceiverType, Cancelling, ReceiverStates
    <2> HIDE DEF cancelling
    <2>5. ReceiverAlone(cancelling)
      BY <2>3, <2>4 DEF ReceiverAlone, Saved, Unsaved, Undecided, Terminal
    <2>6. HeldCredit(cancelling) = HeldCredit(rcv)
      BY <2>4 DEF HeldCredit
    <2> QED
      BY <1>1, <2>1, <2>2, <2>4, <2>5, <2>6, EmitCancelStep
  <1> QED
    BY <1>2, <1>3, <1>4

(* Shutdown keeps committed output and discards any other.                 *)
LEMMA ShutdownStep ==
  ASSUME ReceiverReady, ReceiverShutdown
  PROVE  ReceiverStep
  <1> DEFINE closed == [rcv EXCEPT !.shutdown = TRUE]
  <1>1. rcv \in ReceiverType
    BY DEF ReceiverReady, ReceiverAlone
  <1>2. /\ closed \in ReceiverType /\ closed.transaction = rcv.transaction
        /\ closed.window = rcv.window /\ closed.credit = rcv.credit
        /\ closed.stream = rcv.stream /\ closed.state = rcv.state
    BY Zenon, <1>1 DEF ReceiverType
  <1>3. HeldCredit(closed) = HeldCredit(rcv)
    BY <1>2 DEF HeldCredit
  <1>4. CASE rcv.state \in Terminal
    <2> DEFINE q == Settled(closed, rcv.state, rcv.code)
    <2>1. rcv' = q /\ UNCHANGED <<budget, to_sender>>
      BY <1>4 DEF ReceiverShutdown
    <2>2. /\ q \in ReceiverType /\ q.state = rcv.state /\ q.cancel_sent = FALSE
          /\ q.ack_pending = FALSE /\ q.transaction = rcv.transaction
          /\ q.credit = rcv.credit /\ q.window = rcv.window /\ q.stream = rcv.stream
      BY Zenon, <1>1 DEF Settled, ReceiverType
    <2> HIDE DEF q
    <2>3. ReceiverAlone(q)
      BY <2>2, Zenon DEF ReceiverAlone, ReceiverReady
    <2>4. HeldCredit(q) = HeldCredit(rcv) /\ ReceiverWaits(q)
      BY <2>1, <2>2 DEF HeldCredit, ReceiverWaits
    <2> QED
      BY <2>2, <2>3, <2>4, ReceiverWaitStep
  <1> HIDE DEF closed
  <1>5. CASE rcv.state \notin Terminal /\ DurableCommit(rcv)
    <2>1. ReceiverEnds(closed, "Committed", "none") /\ to_sender' = to_sender
      BY <1>5 DEF ReceiverShutdown, closed
    <2>2. /\ "Committed" \in Terminal /\ "Committed" \in Saved
          /\ rcv.transaction = "committed"
      BY <1>5 DEF Terminal, Saved, DurableCommit
    <2> QED
      BY <1>2, <1>3, <2>1, <2>2, KnownCodes, ReceiverEndStep
  <1>6. CASE rcv.state \notin Terminal /\ ~DurableCommit(rcv)
    <2>1. ReceiverEnds(closed, "Cancelled", "cancelled") /\ to_sender' = to_sender
      BY <1>6 DEF ReceiverShutdown, closed
    <2>2. /\ "Cancelled" \in Terminal /\ "Cancelled" \notin Saved
          /\ rcv.transaction # "committed"
      BY <1>6 DEF Terminal, Saved, DurableCommit
    <2> QED
      BY <1>2, <1>3, <2>1, <2>2, KnownCodes, ReceiverEndStep
  <1> QED
    BY <1>4, <1>5, <1>6

-----------------------------------------------------------------------------
(* The handlers of the receiver's ReceiveFrame.                            *)
LEMMA OnErrorStep ==
  ASSUME ReceiverReady, rcv.state \notin Terminal, NEW m \in Frames, ReceiverOnError(m)
  PROVE  ReceiverStep
  <1>1. rcv \in ReceiverType /\ m.code \in FailureCodes
    BY DEF ReceiverReady, ReceiverAlone, ReceiverOnError, Frames
  <1>2. /\ FailureState(rcv) \in Terminal
        /\ FailureState(rcv) \in Saved <=> rcv.transaction = "committed"
    BY DEF FailureState, DurableCommit, Terminal, Saved
  <1>3. /\ AbortTransaction(rcv) \in Transactions \ {"receiving"}
        /\ AbortTransaction(rcv) = "committed" <=> rcv.transaction = "committed"
    BY <1>1 DEF AbortTransaction, ReceiverType, Transactions
  <1>4. /\ rcv' \in ReceiverType /\ rcv'.state = FailureState(rcv)
        /\ rcv'.transaction = AbortTransaction(rcv)
        /\ rcv'.credit = FALSE /\ rcv'.stream = FALSE
        /\ rcv'.cancel_sent = rcv.cancel_sent
        /\ rcv'.ack_pending = rcv.ack_pending /\ rcv'.ack_code = rcv.ack_code
    BY Zenon, <1>1, <1>2, <1>3 DEF ReceiverOnError, ReceiverType, ReceiverStates
  <1>5. ReceiverAlone(rcv')
    <2>1. /\ rcv'.state \in Terminal => rcv'.credit = FALSE /\ rcv'.stream = FALSE
          /\ rcv'.state \in Saved <=> rcv'.transaction = "committed"
          /\ rcv'.state = "ReceivingFile" <=> rcv'.transaction = "receiving"
          /\ rcv'.state \notin Undecided \cup {"Rejecting"}
      BY <1>2, <1>3, <1>4 DEF Terminal, Undecided
    <2>2. /\ rcv'.cancel_sent => rcv'.state \in Unsaved
          /\ rcv'.ack_pending = FALSE
      BY <1>1, <1>3, <1>4 DEF ReceiverReady, ReceiverAlone, FailureState, DurableCommit, Saved,
                             Unsaved, Terminal, ReceiverType
    <2> QED
      BY <1>4, <2>1, <2>2, Zenon DEF ReceiverAlone
  <1>6. budget["receiver"] - HeldCredit(rcv) = 0 /\ HeldCredit(rcv') = 0
    BY <1>1, <1>4 DEF ReceiverReady, HeldCredit, ReceiverType
  <1>7. budget' = [budget EXCEPT !["receiver"] = HeldCredit(rcv')]
    BY Zenon, <1>6 DEF ReceiverOnError
  <1>8. Answers
    BY DEF ReceiverOnError, Answers
  <1> QED
    BY <1>2, <1>3, <1>4, <1>5, <1>7, <1>8 DEF ReceiverStep, Stopping

(* CANCEL is answered with COMPLETED exactly of a durable commit.          *)
LEMMA OnCancelStep ==
  ASSUME ReceiverReady, rcv.state \notin Terminal, NEW m \in Frames, ReceiverOnCancel(m)
  PROVE  ReceiverStep
  <1> DEFINE state == IF DurableCommit(rcv) THEN "Committed" ELSE "Cancelled"
             answer == CancelAnswer(rcv)
             code == OutcomeCode(answer)
             ended == [Settled(rcv, state, code)
                         EXCEPT !.transaction = AbortTransaction(rcv),
                                !.credit = FALSE, !.stream = FALSE,
                                !.cancel_sent = rcv.cancel_sent,
                                !.ack_pending = TRUE, !.ack_code = answer]
  <1>1. rcv \in ReceiverType
    BY DEF ReceiverReady, ReceiverAlone
  <1>2. /\ state \in Terminal /\ state \in ReceiverStates
        /\ state \in Saved <=> rcv.transaction = "committed"
        /\ answer \in Codes /\ code \in FailureCodes
        /\ answer = "completed" <=> rcv.transaction = "committed"
    BY KnownCodes DEF DurableCommit, Terminal, Saved, CancelAnswer, OutcomeCode, Codes,
                      ReceiverStates
  <1>3. /\ AbortTransaction(rcv) \in Transactions \ {"receiving"}
        /\ AbortTransaction(rcv) = "committed" <=> rcv.transaction = "committed"
    BY <1>1 DEF AbortTransaction, ReceiverType, Transactions
  <1>4. PICK ok \in BOOLEAN :
          /\ rcv' = EmitCancelAck(ended, "receiver", ok)
          /\ to_sender' = Written(to_sender, Coded("CancelAck", answer), ok)
    BY DEF ReceiverOnCancel, EncodeFrame
  <1> HIDE DEF state, answer, code
  <1>5. /\ ended \in ReceiverType /\ ended.state = state
        /\ ended.transaction = AbortTransaction(rcv)
        /\ ended.credit = FALSE /\ ended.stream = FALSE
        /\ ended.cancel_sent = rcv.cancel_sent /\ ended.ack_code = answer
    BY ZenonT(60), <1>1, <1>2, <1>3 DEF Settled, ReceiverType
  <1> HIDE DEF ended
  <1>6. ReceiverAlone(ended) /\ HeldCredit(ended) = 0
    <2>1. /\ ended.state \in Terminal
          /\ ended.state \in Saved <=> ended.transaction = "committed"
          /\ ended.state # "ReceivingFile" /\ ended.transaction # "receiving"
          /\ ended.state \notin Undecided \cup {"Rejecting"}
          /\ ended.ack_code = "completed" <=> ended.transaction = "committed"
      BY <1>2, <1>3, <1>5 DEF Terminal, Undecided
    <2>2. ended.cancel_sent => ended.state \in Unsaved
      BY <1>3, <1>5 DEF ReceiverReady, ReceiverAlone, DurableCommit, Saved, Unsaved,
                        Terminal, state
    <2> QED
      BY <1>5, <2>1, <2>2 DEF ReceiverAlone, HeldCredit
  <1>7. /\ ReceiverAlone(rcv') /\ rcv'.state = state /\ HeldCredit(rcv') = 0
        /\ rcv'.transaction = "committed" <=> rcv.transaction = "committed"
    <2> DEFINE done == [ended EXCEPT !.ack_pending = FALSE]
    <2>1. /\ ReceiverAlone(done) /\ done.state = ended.state
          /\ done.transaction = ended.transaction /\ HeldCredit(done) = HeldCredit(ended)
      BY <1>6, AckDropped
    <2>2. rcv' \in {ended, done}
      BY <1>4 DEF EmitCancelAck
    <2> HIDE DEF done
    <2> QED
      BY <1>3, <1>5, <1>6, <2>1, <2>2
  <1>8. budget' = [budget EXCEPT !["receiver"] = HeldCredit(rcv')]
    <2>1. budget["receiver"] - HeldCredit(rcv) = 0
      BY <1>1 DEF ReceiverReady, HeldCredit, ReceiverType
    <2> QED
      BY Zenon, <1>7, <2>1 DEF ReceiverOnCancel
  <1>9. Answers
    <2>1. Honest(Coded("CancelAck", answer), rcv')
      BY <1>2, <1>7 DEF Honest, Coded, Frames, FrameTypes, DurableAnswer, FinalAnswer,
                        NeverDurable, Stopping
    <2> QED
      BY <1>4, <2>1 DEF Answers, Written
  <1> QED
    BY <1>2, <1>7, <1>8, <1>9 DEF ReceiverStep, Stopping

(* An own CANCEL was sent only before the durable commit, so its answer    *)
(* cannot touch committed output.                                          *)
LEMMA ApplyCancelAckStep ==
  ASSUME ReceiverReady, NEW m \in Frames, rcv.cancel_sent, ReceiverApplyCancelAck(m)
  PROVE  ReceiverStep
  <1>1. rcv \in ReceiverType /\ rcv.transaction # "committed" /\ m.code \in Codes
    BY DEF ReceiverReady, ReceiverAlone, Frames, Saved, Unsaved
  <1>2. CASE m.code = "completed"
    <2>1. ReceiverEnds(rcv, "Failed", "failed") /\ to_sender' = to_sender
      BY <1>1, <1>2 DEF ReceiverApplyCancelAck, DurableCommit
    <2>2. "Failed" \in Terminal /\ "Failed" \notin Saved
      BY DEF Terminal, Saved
    <2> QED
      BY <1>1, <2>1, <2>2, KnownCodes, ReceiverEndStep
  <1>3. CASE m.code # "completed"
    <2>1. /\ ReceiverEnds(rcv, CancelOutcome(m.code), OutcomeCode(m.code))
          /\ to_sender' = to_sender
      BY <1>3 DEF ReceiverApplyCancelAck
    <2>2. /\ CancelOutcome(m.code) \in Terminal /\ CancelOutcome(m.code) \notin Saved
          /\ OutcomeCode(m.code) \in FailureCodes
      BY <1>1, <1>3 DEF CancelOutcome, OutcomeCode, FailureCodes, Terminal, Saved
    <2> QED
      BY <1>1, <2>1, <2>2, ReceiverEndStep
  <1> QED
    BY <1>2, <1>3

(* CANCEL_ACK ends a cancellation of the receiver.                         *)
LEMMA OnCancelAckStep ==
  ASSUME ReceiverReady, NEW m \in Frames, ReceiverOnCancelAck(m)
  PROVE  ReceiverStep
  <1>1. rcv \in ReceiverType
    BY DEF ReceiverReady, ReceiverAlone
  <1>2. CASE rcv.cancel_sent
    BY <1>2, ApplyCancelAckStep DEF ReceiverOnCancelAck
  <1>3. CASE ~rcv.cancel_sent
    BY <1>1, <1>3, KnownCodes, ReceiverFailStep DEF ReceiverOnCancelAck
  <1> QED
    BY <1>2, <1>3

(* Two records that differ in nothing ReceiverAlone speaks of.             *)
SameButState(q, r) ==
  /\ q \in ReceiverType
  /\ q.transaction = r.transaction /\ q.window = r.window
  /\ q.credit = r.credit /\ q.stream = r.stream /\ q.cancel_sent = r.cancel_sent
  /\ q.ack_pending = r.ack_pending /\ q.ack_code = r.ack_code

(* What ReceiverAlone speaks of is all that counts for it.                 *)
LEMMA SameCore ==
  ASSUME NEW r, NEW q, ReceiverAlone(r), SameButState(q, r), q.state = r.state
  PROVE  ReceiverAlone(q) /\ HeldCredit(q) = HeldCredit(r)
  <1>1. ReceiverAlone(q)
    BY Zenon DEF ReceiverAlone, SameButState
  <1>2. HeldCredit(q) = HeldCredit(r)
    BY DEF HeldCredit, SameButState
  <1> QED
    BY <1>1, <1>2

(* Manifest frames.                                                        *)
LEMMA OnManifestStep ==
  ASSUME ReceiverReady, NEW m \in Frames, ReceiverOnManifest(m)
  PROVE  ReceiverStep
  <1> DEFINE entered == [rcv EXCEPT !.entry = TRUE]
             asked == [rcv EXCEPT !.state = "AwaitingDecision"]
  <1>1. /\ rcv \in ReceiverType /\ ReceiverAlone(rcv)
        /\ rcv.state = "ReceivingManifest" /\ rcv.transaction = "none" /\ rcv.credit = FALSE
    BY DEF ReceiverReady, ReceiverAlone, ReceiverOnManifest, Undecided
  <1>2. SameButState(entered, rcv) /\ entered.state = rcv.state
    BY Zenon, <1>1 DEF SameButState, ReceiverType
  <1>3. SameButState(asked, rcv) /\ asked.state = "AwaitingDecision"
    BY <1>1 DEF SameButState, ReceiverType, ReceiverStates
  <1> HIDE DEF entered, asked
  <1>4. CASE ReceiverWaits(entered)
    BY <1>1, <1>2, <1>4, SameCore, ReceiverWaitStep DEF SameButState
  <1>5. CASE ReceiverWaits(asked)
    <2>1. ReceiverAlone(asked) /\ HeldCredit(asked) = HeldCredit(rcv)
      BY <1>1, <1>3 DEF ReceiverAlone, SameButState, HeldCredit, Saved, Unsaved, Undecided,
                        Terminal
    <2> QED
      BY <1>1, <1>3, <1>5, <2>1, ReceiverWaitStep DEF SameButState, Stopping, Terminal
  <1>6. CASE ReceiverFails(rcv, "failed")
    BY <1>1, <1>6, KnownCodes, ReceiverFailStep
  <1> QED
    BY <1>4, <1>5, <1>6 DEF ReceiverOnManifest, entered, asked

(* FILE_BEGIN.                                                             *)
LEMMA OnFileBeginStep ==
  ASSUME ReceiverReady, NEW m \in Frames, ReceiverOnFileBegin(m)
  PROVE  ReceiverStep
  <1> DEFINE begun == [rcv EXCEPT !.begun = TRUE]
  <1>1. ReceiverAlone(rcv) /\ rcv \in ReceiverType /\ ReceiverWaits(begun)
    BY DEF ReceiverReady, ReceiverAlone, ReceiverOnFileBegin
  <1>2. SameButState(begun, rcv) /\ begun.state = rcv.state
    BY Zenon, <1>1 DEF SameButState, ReceiverType
  <1> HIDE DEF begun
  <1> QED
    BY <1>1, <1>2, SameCore, ReceiverWaitStep DEF SameButState

(* FILE_CHUNK is stored and acknowledged or fails the transfer.            *)
LEMMA OnFileChunkStep ==
  ASSUME ReceiverReady, NEW m \in Frames, file_size \in Nat, ReceiverOnFileChunk(m)
  PROVE  ReceiverStep
  <1> DEFINE next == NextOffset(m)
             stored == [rcv EXCEPT !.available = @ - m.size, !.next = next]
             acked == [stored EXCEPT !.encoded = next]
  <1>1. /\ ReceiverAlone(rcv) /\ rcv \in ReceiverType /\ rcv.state = "ReceivingFile"
        /\ rcv.transaction = "receiving"
    BY DEF ReceiverReady, ReceiverAlone, ReceiverOnFileChunk
  <1>2. CASE \E code \in {"refused", "failed"} : ReceiverFails(rcv, code)
    BY <1>1, <1>2, KnownCodes, ReceiverFailStep
  <1>3. CASE /\ ~(m.size > rcv.available)
             /\ \/ /\ ReceiverSends(acked, Frame("ChunkAck", next, WindowIncrement(m)))
                \/ ReceiverFails(stored, "refused")
    <2>1. m.size \in Nat /\ rcv.available \in Nat /\ rcv.next \in Nat
      BY <1>1 DEF Frames, ReceiverType
    <2>2. next \in Nat /\ rcv.available - m.size \in Nat /\ WindowIncrement(m) \in Nat
      BY <1>3, <2>1 DEF NextOffset, WindowIncrement
    <2> HIDE DEF next
    <2>3. SameButState(stored, rcv) /\ stored.state = rcv.state
      BY Zenon, <1>1, <2>2 DEF SameButState, ReceiverType
    <2>4. SameButState(acked, rcv) /\ acked.state = rcv.state
      BY Zenon, <1>1, <2>2 DEF SameButState, ReceiverType
    <2> HIDE DEF stored, acked
    <2>5. CASE ReceiverFails(stored, "refused")
      BY <1>1, <2>3, <2>5, SameCore, KnownCodes, ReceiverFailStep DEF SameButState
    <2>6. CASE ReceiverSends(acked, Frame("ChunkAck", next, WindowIncrement(m)))
      <3>1. Honest(Frame("ChunkAck", next, WindowIncrement(m)), acked)
        BY <2>2 DEF Honest, Frame, Frames, FrameTypes, Codes, FailureCodes, DurableAnswer,
                    FinalAnswer
      <3>2. acked.transaction = "receiving" /\ rcv.state \notin Stopping
        BY <1>1, <2>4 DEF SameButState, Stopping, Terminal
      <3> QED
        BY <1>1, <2>4, <2>6, <3>1, <3>2, SameCore, ReceiverSendStep
    <2> QED
      BY <1>3, <2>5, <2>6
  <1> HIDE DEF stored, acked, next
  <1> QED
    BY <1>2, <1>3 DEF ReceiverOnFileChunk, stored, acked, next

(* FILE_END commits and tells of it, or fails.                             *)
LEMMA OnFileEndStep ==
  ASSUME ReceiverReady, NEW m \in Frames, ReceiverOnFileEnd(m)
  PROVE  ReceiverStep
  <1> DEFINE committed == [rcv EXCEPT !.transaction = "committed",
                                      !.state = "AwaitingCompletion"]
  <1>1. /\ rcv \in ReceiverType /\ rcv.state = "ReceivingFile"
        /\ rcv.transaction = "receiving"
        /\ rcv.ack_pending = FALSE
    BY DEF ReceiverReady, ReceiverAlone, ReceiverType, ReceiverOnFileEnd, Terminal
  <1>2. CASE ReceiverFails(rcv, "failed")
    BY <1>1, <1>2, KnownCodes, ReceiverFailStep
  <1>3. ASSUME NEW result \in {"aborted", "uncertain"}, NEW code \in {"refused", "failed"},
               ReceiverFails([rcv EXCEPT !.transaction = result], code)
        PROVE  ReceiverStep
    <2> DEFINE over == [rcv EXCEPT !.transaction = result]
    <2>1. over \in ReceiverType /\ over.transaction = result /\ HeldCredit(over) = HeldCredit(rcv)
      BY <1>1 DEF ReceiverType, Transactions, HeldCredit
    <2> HIDE DEF over
    <2> QED
      BY Zenon, <1>1, <1>3, <2>1, KnownCodes, ReceiverFailStep DEF over
  <1>4. ASSUME NEW ok \in BOOLEAN, rcv.cancel_sent = FALSE,
               ReceiverEmitFileCommit(committed, ok)
        PROVE  ReceiverStep
    <2>1. /\ committed \in ReceiverType /\ committed.state = "AwaitingCompletion"
          /\ committed.transaction = "committed" /\ committed.window = rcv.window
          /\ committed.credit = rcv.credit /\ committed.cancel_sent = FALSE
          /\ committed.ack_pending = FALSE
      BY Zenon, <1>1, <1>4 DEF ReceiverType, Transactions, ReceiverStates
    <2> HIDE DEF committed
    <2>2. ReceiverAlone(committed) /\ HeldCredit(committed) = HeldCredit(rcv)
      BY <2>1 DEF ReceiverAlone, HeldCredit, Saved, Undecided, Terminal
    <2> QED
      BY <1>1, <1>4, <2>1, <2>2, EmitFileCommitStep
  <1>5. rcv.cancel_sent = FALSE
    BY <1>1 DEF ReceiverReady, ReceiverAlone, ReceiverType, Unsaved
  <1> HIDE DEF committed
  <1> QED
    BY Zenon, <1>2, <1>3, <1>4, <1>5 DEF ReceiverOnFileEnd, EncodeFrame, committed

(* TRANSFER_COMPLETE is answered after FILE_COMMIT only.                   *)
LEMMA OnCompleteStep ==
  ASSUME ReceiverReady, NEW m \in Frames, ReceiverOnComplete(m)
  PROVE  ReceiverStep
  <1> DEFINE asked == [rcv EXCEPT !.complete_pending = TRUE]
  <1>1. /\ ReceiverAlone(rcv) /\ rcv \in ReceiverType /\ rcv.state = "AwaitingCompletion"
        /\ rcv.transaction = "committed"
    BY DEF ReceiverReady, ReceiverAlone, ReceiverOnComplete, Saved
  <1>2. CASE rcv.commit_sent
    <2>1. PICK ok \in BOOLEAN : ReceiverEmitCompleteAck(asked, ok)
      BY Zenon, <1>2 DEF ReceiverOnComplete, EncodeFrame
    <2>2. SameButState(asked, rcv) /\ asked.state = rcv.state
      BY Zenon, <1>1 DEF SameButState, ReceiverType
    <2> HIDE DEF asked
    <2> QED
      BY <1>1, <2>1, <2>2, SameCore, EmitCompleteAckStep DEF SameButState
  <1>3. CASE ~rcv.commit_sent
    BY <1>1, <1>3, KnownCodes, ReceiverFailStep DEF ReceiverOnComplete
  <1> QED
    BY <1>2, <1>3

(* ReceiveFrame before the offer.                                          *)
LEMMA FirstFrameStep ==
  ASSUME ReceiverReady, to_receiver \in Seq(Frames), ReceiverReceivesFirstFrame
  PROVE  ReceiverStep
  <1> DEFINE m == Head(to_receiver)
             offered == [[rcv EXCEPT !.stream = TRUE] EXCEPT !.offered = TRUE,
                                                             !.state = "ReceivingManifest"]
  <1>1. /\ rcv \in ReceiverType /\ ReceiverAlone(rcv) /\ rcv.state = "Created"
        /\ rcv.transaction = "none" /\ rcv.credit = FALSE /\ m \in Frames
    BY DEF ReceiverReady, ReceiverAlone, ReceiverReceivesFirstFrame, Undecided
  <1>2. /\ offered \in ReceiverType /\ offered.state = "ReceivingManifest"
        /\ offered.transaction = "none" /\ offered.credit = FALSE
        /\ offered.cancel_sent = rcv.cancel_sent
        /\ offered.ack_pending = rcv.ack_pending /\ offered.ack_code = rcv.ack_code
    BY Zenon, <1>1 DEF ReceiverType, ReceiverStates
  <1> HIDE DEF offered, m
  <1>3. CASE ReceiverWaits(offered)
    <2>1. ReceiverAlone(offered) /\ HeldCredit(offered) = HeldCredit(rcv)
      BY <1>1, <1>2 DEF ReceiverAlone, HeldCredit, Saved, Unsaved, Undecided, Terminal
    <2> QED
      BY <1>1, <1>2, <1>3, <2>1, ReceiverWaitStep DEF Stopping, Terminal
  <1>4. CASE ReceiverFails(rcv, "none") \/ ReceiverFails(rcv, "refused")
    BY <1>1, <1>4, KnownCodes, ReceiverFailStep
  <1>5. CASE ReceiverOnError(m)
    BY <1>1, <1>5, OnErrorStep DEF Terminal
  <1> QED
    BY <1>3, <1>4, <1>5 DEF ReceiverReceivesFirstFrame, offered, m

(* ReceiveFrame while the transfer runs.                                   *)
LEMMA FrameStep ==
  ASSUME ReceiverReady, to_receiver \in Seq(Frames), file_size \in Nat,
         ReceiverReceivesFrame
  PROVE  ReceiverStep
  <1> DEFINE m == Head(to_receiver)
  <1>1. /\ rcv \in ReceiverType /\ ReceiverAlone(rcv) /\ rcv.state \notin Terminal
        /\ m \in Frames
    BY DEF ReceiverReady, ReceiverAlone, ReceiverReceivesFrame
  <1>2. \/ ReceiverFails(rcv, "none") \/ ReceiverFails(rcv, "failed")
        \/ ReceiverHandles(m)
    BY DEF ReceiverReceivesFrame
  <1> HIDE DEF m
  <1>3. CASE ReceiverFails(rcv, "none") \/ ReceiverFails(rcv, "failed")
    BY <1>1, <1>3, KnownCodes, ReceiverFailStep
  <1>4. CASE ReceiverHandles(m)
    <2>1. CASE ReceiverOnFrameWhileCancelling(m)
      BY <1>1, <2>1, ReceiverWaitStep DEF ReceiverOnFrameWhileCancelling
    <2> QED
      BY <1>1, <1>4, <2>1, OnErrorStep, OnCancelStep, OnCancelAckStep, OnManifestStep,
         OnFileBeginStep, OnFileChunkStep, OnFileEndStep, OnCompleteStep
         DEF ReceiverHandles
  <1> QED
    BY <1>2, <1>3, <1>4

(* ReceiveFrame after the end: the cached code is true of the file.        *)
LEMMA LateFrameStep ==
  ASSUME ReceiverReady, to_receiver \in Seq(Frames), ReceiverReceivesLateFrame
  PROVE  ReceiverStep
  <1> DEFINE m == Head(to_receiver)
             code == CachedTerminalCode(rcv)
             asked == [rcv EXCEPT !.ack_pending = TRUE, !.ack_code = code]
  <1>1. /\ rcv \in ReceiverType /\ ReceiverAlone(rcv) /\ rcv.state \in Terminal
        /\ m \in Frames
    BY DEF ReceiverReady, ReceiverAlone, ReceiverReceivesLateFrame
  <1>2. code \in Codes /\ (code = "completed" <=> rcv.transaction = "committed")
    BY <1>1 DEF ReceiverAlone, ReceiverType, CachedTerminalCode, Codes, FailureCodes, Saved,
                Terminal
  <1>3. CASE \E ok \in EncodeFrame("receiver") :
               /\ rcv' = EmitCancelAck(asked, "receiver", ok)
               /\ to_sender' = Written(to_sender, Coded("CancelAck", code), ok)
               /\ UNCHANGED budget
    <2>1. PICK ok \in BOOLEAN :
            /\ rcv' = EmitCancelAck(asked, "receiver", ok)
            /\ to_sender' = Written(to_sender, Coded("CancelAck", code), ok)
            /\ UNCHANGED budget
      BY <1>3 DEF EncodeFrame
    <2> HIDE DEF code
    <2>2. /\ asked \in ReceiverType /\ asked.state = rcv.state
          /\ asked.transaction = rcv.transaction /\ asked.window = rcv.window
          /\ asked.credit = rcv.credit /\ asked.stream = rcv.stream
          /\ asked.cancel_sent = rcv.cancel_sent /\ asked.ack_code = code
          /\ asked.ack_pending = TRUE
      BY Zenon, <1>1, <1>2 DEF ReceiverType
    <2> HIDE DEF asked
    <2>3. ReceiverAlone(asked)
      BY <1>1, <1>2, <2>2, Zenon DEF ReceiverAlone
    <2>4. HeldCredit(asked) = HeldCredit(rcv)
      BY <2>2 DEF HeldCredit
    <2> QED
      BY <2>1, <2>2, <2>3, <2>4, AckStep
  <1>4. CASE rcv.cancel_sent /\ ReceiverApplyCancelAck(m)
    BY <1>1, <1>4, ApplyCancelAckStep
  <1>5. CASE ReceiverWaits(rcv)
    BY <1>1, <1>5, ReceiverWaitStep
  <1> HIDE DEF asked, code, m
  <1> QED
    BY <1>3, <1>4, <1>5 DEF ReceiverReceivesLateFrame, asked, code, m

-----------------------------------------------------------------------------
(* What holds of the sender alone.                                         *)
Offering == {"Created", "SendingManifest", "AwaitingDecision"}
Sending == {"SendingFile", "AwaitingFileCommit", "Completing"}

SenderAlone(s) ==
  /\ s \in SenderType
  /\ s.state \in Terminal => s.reserved = 0 /\ s.stream = FALSE
  /\ s.state \in Offering => s.reserved = 0 /\ s.unacked = 0
  /\ s.state \in Sending => s.reserved = s.available + s.unacked
  /\ s.state = "Completed" => s.cancel_sent = FALSE

(* The sender has been told of the durable commit.                         *)
ToldOfCommit(s) ==
  s.state \in {"Completing", "Completed"} \/ (s.state = "Cancelling" /\ s.origin = "Completing")

(* What the sender knows of the receiver r: a commit it was told of, and,  *)
(* once the receiver's CANCEL ended it while its own is unanswered, that   *)
(* there will be none.                                                     *)
Claims(s, r) ==
  /\ ToldOfCommit(s) => r.transaction = "committed"
  /\ s.state = "Cancelled" /\ s.cancel_sent => NeverDurable(r)

Requests ==
  to_receiver' = to_receiver \/ \E f \in Frames : to_receiver' = Append(to_receiver, f)

(* What a step of the sender may do.                                       *)
SenderStep ==
  /\ SenderAlone(snd')
  /\ budget' = [budget EXCEPT !["sender"] = snd'.reserved]
  /\ Requests
  /\ Claims(snd', rcv)
  /\ snd.state \in Terminal => snd'.state \in Terminal
  /\ snd.state = "Completed" => snd'.state = "Completed"
  /\ snd.state = "Cancelled" => snd'.state # "Completed"

(* What the sender's actions start from.                                   *)
SenderReady ==
  /\ SenderAlone(snd)
  /\ budget \in [Ends -> Nat]
  /\ budget["sender"] = snd.reserved
  /\ Claims(snd, rcv)
  /\ file_size \in Nat

-----------------------------------------------------------------------------
(* SenderEnds gives back the credit and leaves a consistent end.           *)
LEMMA SenderEnded ==
  ASSUME NEW end \in SenderType, NEW state \in Terminal, NEW code \in FailureCodes,
         budget \in [Ends -> Nat], budget["sender"] = end.reserved,
         SenderEnds(end, state, code)
  PROVE  /\ SenderAlone(snd')
         /\ snd'.state = state /\ snd'.cancel_sent = FALSE
         /\ budget' = [budget EXCEPT !["sender"] = snd'.reserved]
  <1>1. /\ snd' \in SenderType /\ snd'.state = state /\ snd'.reserved = 0
        /\ snd'.stream = FALSE /\ snd'.cancel_sent = FALSE
    BY Zenon DEF SenderEnds, Settled, SenderType, SenderStates
  <1>2. budget["sender"] - end.reserved = 0
    BY DEF SenderType
  <1>3. budget' = [budget EXCEPT !["sender"] = snd'.reserved]
    BY Zenon, <1>1, <1>2 DEF SenderEnds
  <1> QED
    BY <1>1, <1>3 DEF SenderAlone, Terminal, Offering, Sending

(* Ending a transfer is a sender's step; success needs the commit.         *)
LEMMA SenderEndStep ==
  ASSUME SenderReady, NEW end \in SenderType, NEW state \in Terminal,
         NEW code \in FailureCodes,
         end.reserved = snd.reserved,
         state = "Completed" => rcv.transaction = "committed",
         snd.state = "Completed" => state = "Completed",
         snd.state = "Cancelled" => state # "Completed",
         SenderEnds(end, state, code),
         Requests
  PROVE  SenderStep
  <1>1. /\ SenderAlone(snd')
        /\ snd'.state = state /\ snd'.cancel_sent = FALSE
        /\ budget' = [budget EXCEPT !["sender"] = snd'.reserved]
    BY Zenon, SenderEnded DEF SenderReady
  <1>2. Claims(snd', rcv)
    BY <1>1 DEF Claims, ToldOfCommit, Terminal
  <1> QED
    BY <1>1, <1>2 DEF SenderStep

(* Fail ends the transfer and sends at most an ERROR.                      *)
LEMMA SenderFailStep ==
  ASSUME SenderReady, snd.state \notin Terminal, NEW code \in FailureCodes,
         SenderFails(code)
  PROVE  SenderStep
  <1>1. Coded("Error", code) \in Frames
    BY DEF Coded, Frames, FrameTypes, FailureCodes
  <1>2. to_receiver' \in {to_receiver, Append(to_receiver, Coded("Error", code))}
    BY DEF SenderFails, ErrorFrame, Written
  <1>3. Requests
    BY <1>1, <1>2 DEF Requests
  <1>4. "Failed" \in Terminal /\ snd.state # "Completed" /\ snd.state # "Cancelled"
    BY DEF Terminal
  <1>5. snd \in SenderType /\ SenderEnds(snd, "Failed", code)
    BY DEF SenderReady, SenderAlone, SenderFails
  <1> QED
    BY <1>3, <1>4, <1>5, SenderEndStep

(* Any other step of a running sender keeps its reservation.               *)
LEMMA SenderKeepsStep ==
  ASSUME SenderReady, snd.state \notin Terminal, SenderAlone(snd'), Claims(snd', rcv),
         snd'.reserved = snd.reserved, UNCHANGED budget, Requests
  PROVE  SenderStep
  <1>1. budget' = [budget EXCEPT !["sender"] = snd'.reserved]
    BY DEF SenderReady, Ends
  <1>2. snd.state # "Completed" /\ snd.state # "Cancelled"
    BY DEF Terminal
  <1> QED
    BY Zenon, <1>1, <1>2 DEF SenderStep

(* Every frame built by the two constructors is a frame.                   *)
LEMMA BuiltFrames ==
  /\ \A type \in FrameTypes \ {"Error", "Reject"}, offset \in Nat, size \in Nat :
       Frame(type, offset, size) \in Frames
  /\ \A type \in FrameTypes \ {"Error", "Reject"} : Plain(type) \in Frames
  /\ \A code \in Codes : Coded("CancelAck", code) \in Frames
  BY DEF Frame, Plain, Coded, Frames, FrameTypes, Codes

(* Sending a frame is a sender's step.                                     *)
LEMMA SenderSendStep ==
  ASSUME SenderReady, snd.state \notin Terminal, NEW end, SenderAlone(end),
         Claims(end, rcv), end.reserved = snd.reserved, NEW f \in Frames,
         SenderSends(end, f)
  PROVE  SenderStep
  BY SenderKeepsStep DEF SenderSends, Requests

-----------------------------------------------------------------------------
(* Start sends the offer or fails.                                         *)
LEMMA StartStep ==
  ASSUME SenderReady, SenderStart
  PROVE  SenderStep
  <1> DEFINE end == [snd EXCEPT !.state = "SendingManifest"]
  <1>1. snd \in SenderType /\ snd.state = "Created" /\ snd.state \notin Terminal
        /\ snd.reserved = 0 /\ snd.unacked = 0
    BY DEF SenderReady, SenderAlone, SenderStart, Terminal, Offering
  <1>2. /\ end \in SenderType /\ end.state = "SendingManifest" /\ end.reserved = 0
        /\ end.unacked = 0
    BY <1>1 DEF SenderType, SenderStates
  <1>3. Plain("Offer") \in Frames
    BY BuiltFrames DEF FrameTypes
  <1>4. \/ SenderFails("none") \/ SenderFails("refused")
        \/ SenderSends(end, Plain("Offer"))
    BY DEF SenderStart
  <1> HIDE DEF end
  <1>5. SenderAlone(end) /\ Claims(end, rcv)
    BY <1>2 DEF SenderAlone, Claims, ToldOfCommit, Terminal, Offering, Sending
  <1> QED
    BY <1>1, <1>2, <1>3, <1>4, <1>5, KnownCodes, SenderFailStep, SenderSendStep

(* The manifest frames.                                                    *)
LEMMA ManifestStep ==
  ASSUME SenderReady, SenderSendsManifest
  PROVE  SenderStep
  <1> DEFINE one == [snd EXCEPT !.stage = 1]
             two == [snd EXCEPT !.stage = 2, !.state = "AwaitingDecision"]
  <1>1. snd \in SenderType /\ snd.state = "SendingManifest" /\ snd.state \notin Terminal
        /\ snd.reserved = 0 /\ snd.unacked = 0
    BY DEF SenderReady, SenderAlone, SenderSendsManifest, SenderMayPump, Offering
  <1>2. /\ one \in SenderType /\ one.state = "SendingManifest" /\ one.reserved = 0
        /\ one.unacked = 0
        /\ two \in SenderType /\ two.state = "AwaitingDecision" /\ two.reserved = 0
        /\ two.unacked = 0
    <2>1. 1 \in 0..2 /\ 2 \in 0..2 /\ "AwaitingDecision" \in SenderStates
      BY DEF SenderStates
    <2>2. one \in SenderType /\ two \in SenderType
      BY Zenon, <1>1, <2>1 DEF SenderType
    <2> QED
      BY <1>1, <2>2 DEF SenderType
  <1>3. Plain("ManifestEntry") \in Frames /\ Plain("ManifestEnd") \in Frames
    BY BuiltFrames DEF FrameTypes
  <1>4. \/ SenderFails("refused") \/ SenderSends(one, Plain("ManifestEntry"))
        \/ SenderSends(two, Plain("ManifestEnd"))
    BY DEF SenderSendsManifest
  <1> HIDE DEF one, two
  <1>5. SenderAlone(one) /\ Claims(one, rcv) /\ SenderAlone(two) /\ Claims(two, rcv)
    BY <1>2 DEF SenderAlone, Claims, ToldOfCommit, Terminal, Offering, Sending
  <1> QED
    BY <1>1, <1>2, <1>3, <1>4, <1>5, KnownCodes, SenderFailStep, SenderSendStep

(* FILE_BEGIN.                                                             *)
LEMMA FileBeginStep ==
  ASSUME SenderReady, SenderSendsFileBegin
  PROVE  SenderStep
  <1> DEFINE end == [snd EXCEPT !.begun = TRUE]
  <1>1. snd \in SenderType /\ snd.state = "SendingFile" /\ snd.state \notin Terminal
        /\ snd.reserved = snd.available + snd.unacked
    BY DEF SenderReady, SenderAlone, SenderSendsFileBegin, SenderMayPump, Sending
  <1>2. /\ end \in SenderType /\ end.state = "SendingFile" /\ end.reserved = snd.reserved
        /\ end.unacked = snd.unacked /\ end.available = snd.available
    BY Zenon, <1>1 DEF SenderType
  <1>3. Plain("FileBegin") \in Frames
    BY BuiltFrames DEF FrameTypes
  <1>4. SenderFails("refused") \/ SenderSends(end, Plain("FileBegin"))
    BY DEF SenderSendsFileBegin
  <1> HIDE DEF end
  <1>5. SenderAlone(end) /\ Claims(end, rcv)
    BY <1>1, <1>2 DEF SenderAlone, Claims, ToldOfCommit, Terminal, Offering, Sending
  <1> QED
    BY <1>1, <1>2, <1>3, <1>4, <1>5, KnownCodes, SenderFailStep, SenderSendStep

(* A chunk moves its size from unused credit to unacknowledged content.    *)
LEMMA ChunkStep ==
  ASSUME SenderReady, SenderSendsChunk
  PROVE  SenderStep
  <1> DEFINE end == [snd EXCEPT !.sent = @ + Wanted, !.available = @ - Wanted,
                                !.unacked = @ + Wanted]
  <1>1. snd \in SenderType /\ snd.state = "SendingFile" /\ snd.state \notin Terminal
        /\ snd.reserved = snd.available + snd.unacked
    BY DEF SenderReady, SenderAlone, SenderSendsChunk, SenderMayPump, Sending
  <1>2. Wanted \in Nat /\ snd.available >= Wanted
    BY <1>1, SizeAssumption DEF SenderReady, SenderSendsChunk, HasCredit, Wanted, SenderType
  <1>3. SenderFails("refused") \/ SenderSends(end, Frame("FileChunk", snd.sent, Wanted))
    BY DEF SenderSendsChunk
  <1>4. Frame("FileChunk", snd.sent, Wanted) \in Frames
    BY <1>1, <1>2, BuiltFrames DEF FrameTypes, SenderType
  <1> HIDE DEF Wanted
  <1>5. /\ end \in SenderType /\ end.state = "SendingFile" /\ end.reserved = snd.reserved
        /\ end.reserved = end.available + end.unacked
    <2>1. /\ snd.available \in Nat /\ snd.unacked \in Nat /\ snd.sent \in Nat
      BY <1>1 DEF SenderType
    <2>2. /\ snd.available - Wanted \in Nat /\ snd.unacked + Wanted \in Nat
          /\ snd.sent + Wanted \in Nat
          /\ snd.available + snd.unacked = (snd.available - Wanted) + (snd.unacked + Wanted)
      BY <1>2, <2>1
    <2>3. /\ end.state = snd.state /\ end.reserved = snd.reserved
          /\ end.available = snd.available - Wanted /\ end.unacked = snd.unacked + Wanted
      BY <1>1 DEF SenderType
    <2>4. end \in SenderType
      BY Zenon, <1>1, <2>2 DEF SenderType
    <2> QED
      BY <1>1, <2>2, <2>3, <2>4
  <1> HIDE DEF end
  <1>6. SenderAlone(end) /\ Claims(end, rcv)
    BY <1>5 DEF SenderAlone, Claims, ToldOfCommit, Terminal, Offering, Sending
  <1> QED
    BY <1>1, <1>3, <1>4, <1>5, <1>6, KnownCodes, SenderFailStep, SenderSendStep

(* FILE_END.                                                               *)
LEMMA FileEndStep ==
  ASSUME SenderReady, SenderSendsFileEnd
  PROVE  SenderStep
  <1> DEFINE end == [snd EXCEPT !.state = "AwaitingFileCommit"]
  <1>1. snd \in SenderType /\ snd.state = "SendingFile" /\ snd.state \notin Terminal
        /\ snd.reserved = snd.available + snd.unacked
    BY DEF SenderReady, SenderAlone, SenderSendsFileEnd, SenderMayPump, Sending
  <1>2. /\ end \in SenderType /\ end.state = "AwaitingFileCommit"
        /\ end.reserved = snd.reserved
        /\ end.unacked = snd.unacked /\ end.available = snd.available
    BY <1>1 DEF SenderType, SenderStates
  <1>3. Plain("FileEnd") \in Frames
    BY BuiltFrames DEF FrameTypes
  <1>4. SenderFails("refused") \/ SenderSends(end, Plain("FileEnd"))
    BY DEF SenderSendsFileEnd
  <1> HIDE DEF end
  <1>5. SenderAlone(end) /\ Claims(end, rcv)
    BY <1>1, <1>2 DEF SenderAlone, Claims, ToldOfCommit, Terminal, Offering, Sending
  <1> QED
    BY <1>1, <1>2, <1>3, <1>4, <1>5, KnownCodes, SenderFailStep, SenderSendStep

(* CANCEL, when it is due and when it is retried.                          *)
LEMMA SenderEmitCancelStep ==
  ASSUME SenderReady, snd.state \notin Terminal, NEW end \in SenderType,
         end.state = "Cancelling", end.reserved = snd.reserved, Claims(end, rcv),
         NEW ok \in BOOLEAN, SenderEmitCancel(end, ok)
  PROVE  SenderStep
  <1>1. CASE ~ok /\ exhausted["sender"]
    <2>1. SenderEnds(end, "Cancelled", "failed") /\ Requests
      BY <1>1 DEF SenderEmitCancel, Requests
    <2>2. "Cancelled" \in Terminal /\ snd.state # "Completed"
      BY DEF Terminal
    <2> QED
      BY <2>1, <2>2, KnownCodes, SenderEndStep
  <1>2. CASE ~(~ok /\ exhausted["sender"])
    <2>1. /\ snd' = IF ok THEN CancelSent(end) ELSE end
          /\ to_receiver' = Written(to_receiver, Plain("Cancel"), ok)
          /\ UNCHANGED budget
      BY <1>2 DEF SenderEmitCancel
    <2>2. Plain("Cancel") \in Frames
      BY BuiltFrames DEF FrameTypes
    <2>3. Requests
      BY <2>1, <2>2 DEF Requests, Written
    <2>4. /\ snd' \in SenderType /\ snd'.state = "Cancelling"
          /\ snd'.origin = end.origin /\ snd'.reserved = snd.reserved
      BY Zenon, <2>1 DEF CancelSent, SenderType
    <2>5. SenderAlone(snd') /\ Claims(snd', rcv)
      BY <2>4 DEF SenderAlone, Claims, ToldOfCommit, Terminal, Offering, Sending
    <2> QED
      BY <2>1, <2>3, <2>4, <2>5, SenderKeepsStep
  <1> QED
    BY <1>1, <1>2

(* A CANCEL that could not be encoded before.                              *)
LEMMA SenderRetriesCancelStep ==
  ASSUME SenderReady, SenderRetriesCancel
  PROVE  SenderStep
  <1>1. PICK ok \in BOOLEAN : SenderEmitCancel(snd, ok)
    BY DEF SenderRetriesCancel, EncodeFrame
  <1> QED
    BY Zenon, <1>1, SenderEmitCancelStep
       DEF SenderReady, SenderAlone, SenderRetriesCancel, SenderMayPump

(* An acknowledgement of a CANCEL: only ack_pending and ack_code change.   *)
LEMMA SenderAckStep ==
  ASSUME SenderReady, NEW end \in SenderType,
         end.state = snd.state, end.origin = snd.origin, end.reserved = snd.reserved,
         end.available = snd.available, end.unacked = snd.unacked,
         end.stream = snd.stream, end.cancel_sent = snd.cancel_sent,
         snd' = end \/ snd' = [end EXCEPT !.ack_pending = FALSE],
         UNCHANGED budget, Requests
  PROVE  SenderStep
  <1>1. /\ snd' \in SenderType
        /\ snd'.state = snd.state /\ snd'.origin = snd.origin
        /\ snd'.reserved = snd.reserved /\ snd'.available = snd.available
        /\ snd'.unacked = snd.unacked /\ snd'.stream = snd.stream
        /\ snd'.cancel_sent = snd.cancel_sent
    BY Zenon DEF SenderType
  <1>2. SenderAlone(snd') /\ Claims(snd', rcv)
    BY <1>1 DEF SenderReady, SenderAlone, Claims, ToldOfCommit
  <1>3. budget' = [budget EXCEPT !["sender"] = snd'.reserved]
    BY <1>1 DEF SenderReady, Ends
  <1> QED
    BY Zenon, <1>1, <1>2, <1>3 DEF SenderStep

(* A CANCEL_ACK that could not be encoded before.                          *)
LEMMA SenderRetriesCancelAckStep ==
  ASSUME SenderReady, SenderRetriesCancelAck
  PROVE  SenderStep
  <1>1. snd \in SenderType /\ snd.ack_code \in Codes
    BY DEF SenderReady, SenderAlone, SenderType
  <1>2. \/ to_receiver' = to_receiver
        \/ to_receiver' = Append(to_receiver, Coded("CancelAck", snd.ack_code))
    BY DEF SenderRetriesCancelAck, Written
  <1>3. Requests
    BY <1>1, <1>2, BuiltFrames DEF Requests
  <1>4. snd' = snd \/ snd' = [snd EXCEPT !.ack_pending = FALSE]
    BY DEF SenderRetriesCancelAck, EmitCancelAck
  <1> QED
    BY <1>1, <1>3, <1>4, SenderAckStep DEF SenderRetriesCancelAck

(* Timers and the loss of the session.                                     *)
LEMMA SenderAdvanceStep ==
  ASSUME SenderReady, SenderAdvance
  PROVE  SenderStep
  BY KnownCodes, SenderFailStep DEF SenderAdvance

(* Cancel.                                                                 *)
LEMMA SenderCancelStep ==
  ASSUME SenderReady, SenderCancel
  PROVE  SenderStep
  <1> DEFINE end == Cancelling(snd)
  <1>1. /\ snd \in SenderType /\ snd.state \notin Terminal /\ snd.state # "Cancelling"
        /\ "Cancelled" \in Terminal /\ snd.state # "Completed"
    BY DEF SenderReady, SenderAlone, SenderCancel, Terminal
  <1>2. CASE SenderEnds(snd, "Cancelled", "cancelled") /\ UNCHANGED to_receiver
    BY <1>1, <1>2, KnownCodes, SenderEndStep DEF Requests
  <1>3. CASE \E ok \in EncodeFrame("sender") : SenderEmitCancel(end, ok)
    <2>1. PICK ok \in BOOLEAN : SenderEmitCancel(end, ok)
      BY <1>3 DEF EncodeFrame
    <2>2. /\ end \in SenderType /\ end.state = "Cancelling" /\ end.origin = snd.state
          /\ end.reserved = snd.reserved
      BY ZenonT(60), <1>1, KnownCodes DEF Cancelling, SenderType, SenderStates
    <2> HIDE DEF end
    <2>3. Claims(end, rcv)
      BY <2>2 DEF SenderReady, Claims, ToldOfCommit
    <2> QED
      BY <1>1, <2>1, <2>2, <2>3, SenderEmitCancelStep
  <1> QED
    BY <1>2, <1>3 DEF SenderCancel

(* Shutdown.                                                               *)
LEMMA SenderShutdownStep ==
  ASSUME SenderReady, SenderShutdown
  PROVE  SenderStep
  <1> DEFINE closed == [snd EXCEPT !.shutdown = TRUE]
  <1>1. snd \in SenderType /\ Requests
    BY DEF SenderReady, SenderAlone, SenderShutdown, Requests
  <1>2. closed \in SenderType /\ closed.reserved = snd.reserved /\ closed.stream = snd.stream
    BY Zenon, <1>1 DEF SenderType
  <1>3. CASE snd.state \in Terminal
    <2>1. snd' = Settled(closed, snd.state, snd.code) /\ UNCHANGED budget
      BY <1>3 DEF SenderShutdown
    <2> HIDE DEF closed
    <2>2. /\ snd' \in SenderType /\ snd'.state = snd.state
          /\ snd'.reserved = snd.reserved /\ snd'.stream = snd.stream
          /\ snd'.cancel_sent = FALSE
      BY Zenon, <1>1, <1>2, <2>1 DEF Settled, SenderType
    <2>3. SenderAlone(snd') /\ Claims(snd', rcv)
      BY <1>3, <2>2 DEF SenderReady, SenderAlone, Claims, ToldOfCommit, Terminal, Offering,
                        Sending
    <2>4. budget' = [budget EXCEPT !["sender"] = snd'.reserved]
      BY <2>1, <2>2 DEF SenderReady, Ends
    <2> QED
      BY <1>1, <2>2, <2>3, <2>4 DEF SenderStep
  <1>4. CASE snd.state \notin Terminal
    <2>1. SenderEnds(closed, "Cancelled", "cancelled")
      BY <1>4 DEF SenderShutdown
    <2>2. "Cancelled" \in Terminal /\ snd.state # "Completed"
      BY <1>4 DEF Terminal
    <2> HIDE DEF closed
    <2> QED
      BY <1>1, <1>2, <2>1, <2>2, KnownCodes, SenderEndStep
  <1> QED
    BY <1>3, <1>4

-----------------------------------------------------------------------------
(* ERROR.                                                                  *)
LEMMA SenderOnErrorStep ==
  ASSUME SenderReady, snd.state \notin Terminal, NEW m, Honest(m, rcv), SenderOnError(m)
  PROVE  SenderStep
  <1>1. snd \in SenderType /\ m.code \in FailureCodes /\ Requests
    BY DEF SenderReady, SenderAlone, SenderOnError, Honest, Frames, Requests
  <1>2. /\ snd' \in SenderType /\ snd'.state = "Failed" /\ snd'.reserved = 0
        /\ snd'.stream = FALSE
    BY Zenon, <1>1 DEF SenderOnError, SenderType, SenderStates, Terminal
  <1>3. budget["sender"] - snd.reserved = 0
    BY <1>1 DEF SenderReady, SenderType
  <1>4. budget' = [budget EXCEPT !["sender"] = snd'.reserved]
    BY Zenon, <1>2, <1>3 DEF SenderOnError
  <1>5. SenderAlone(snd') /\ Claims(snd', rcv)
    BY <1>2 DEF SenderAlone, Claims, ToldOfCommit, Terminal, Offering, Sending
  <1> QED
    BY <1>1, <1>2, <1>4, <1>5 DEF SenderStep, Terminal

(* CANCEL: the receiver that sent it commits nothing any more.             *)
LEMMA SenderOnCancelStep ==
  ASSUME SenderReady, snd.state \notin Terminal, NEW m, Honest(m, rcv), SenderOnCancel(m)
  PROVE  SenderStep
  <1> DEFINE q == Settled(snd, "Cancelled", "cancelled")
             cancelled == [q EXCEPT !.reserved = 0, !.stream = FALSE,
                                    !.cancel_sent = snd.cancel_sent,
                                    !.ack_pending = TRUE, !.ack_code = "cancelled"]
  <1>1. snd \in SenderType /\ NeverDurable(rcv)
    BY DEF SenderReady, SenderAlone, SenderOnCancel, Honest, FinalAnswer
  <1>2. PICK ok \in BOOLEAN :
          /\ snd' = EmitCancelAck(cancelled, "sender", ok)
          /\ to_receiver' = Written(to_receiver, Coded("CancelAck", "cancelled"), ok)
    BY DEF SenderOnCancel, EncodeFrame
  <1>3. Requests
    BY <1>2, BuiltFrames DEF Requests, Written, Codes
  <1>4. q \in SenderType /\ q.state = "Cancelled"
    <2>1. "Cancelled" \in SenderStates /\ "cancelled" \in FailureCodes
      BY KnownCodes DEF SenderStates, Terminal
    <2> QED
      BY Zenon, <1>1, <2>1 DEF Settled, SenderType
  <1> HIDE DEF q
  <1>5. /\ cancelled \in SenderType /\ cancelled.state = "Cancelled"
        /\ cancelled.reserved = 0 /\ cancelled.stream = FALSE
    BY Zenon, <1>1, <1>4 DEF SenderType, Codes
  <1> HIDE DEF cancelled
  <1>6. /\ snd' \in SenderType /\ snd'.state = "Cancelled" /\ snd'.reserved = 0
        /\ snd'.stream = FALSE
    BY Zenon, <1>2, <1>5 DEF EmitCancelAck, SenderType
  <1>7. budget["sender"] - snd.reserved = 0
    BY <1>1 DEF SenderReady, SenderType
  <1>8. budget' = [budget EXCEPT !["sender"] = snd'.reserved]
    BY Zenon, <1>6, <1>7 DEF SenderOnCancel
  <1>9. SenderAlone(snd') /\ Claims(snd', rcv)
    BY <1>1, <1>6 DEF SenderAlone, Claims, ToldOfCommit, Terminal, Offering, Sending
  <1> QED
    BY <1>3, <1>6, <1>8, <1>9 DEF SenderStep, Terminal

(* CANCEL_ACK decides a cancellation, late or not: COMPLETED comes from a  *)
(* durable commit, which rules out that the receiver cancelled.            *)
LEMMA SenderApplyCancelAckStep ==
  ASSUME SenderReady, NEW m, Honest(m, rcv), m.type = "CancelAck", snd.cancel_sent,
         SenderApplyCancelAck(m)
  PROVE  SenderStep
  <1> DEFINE state == CancelOutcome(m.code)
  <1>1. /\ snd \in SenderType /\ snd.state # "Completed" /\ m \in Frames /\ m.code \in Codes
    BY DEF SenderReady, SenderAlone, Honest, Frames
  <1>2. state \in Terminal /\ OutcomeCode(m.code) \in FailureCodes
    BY <1>1 DEF CancelOutcome, OutcomeCode, Terminal, Codes, FailureCodes
  <1>3. state = "Completed" => rcv.transaction = "committed"
    BY <1>1 DEF CancelOutcome, Honest, DurableAnswer
  <1>4. snd.state = "Cancelled" => state # "Completed"
    BY <1>3 DEF SenderReady, Claims, NeverDurable
  <1>5. SenderEnds(snd, state, OutcomeCode(m.code)) /\ Requests
    BY DEF SenderApplyCancelAck, Requests
  <1> HIDE DEF state
  <1> QED
    BY <1>1, <1>2, <1>3, <1>4, <1>5, SenderEndStep

(* CANCEL_ACK while the transfer runs.                                     *)
LEMMA SenderOnCancelAckStep ==
  ASSUME SenderReady, snd.state \notin Terminal, NEW m, Honest(m, rcv), SenderOnCancelAck(m)
  PROVE  SenderStep
  BY KnownCodes, SenderFailStep, SenderApplyCancelAckStep DEF SenderOnCancelAck

(* TRANSFER_COMPLETE_ACK ends the transfer with success; other answers to  *)
(* a cancelling sender change nothing.                                     *)
LEMMA SenderOnAnswerStep ==
  ASSUME SenderReady, snd.state \notin Terminal, NEW m, Honest(m, rcv),
         SenderOnAnswerWhileCancelling(m) \/ SenderOnCompleteAck(m)
  PROVE  SenderStep
  <1>1. snd \in SenderType /\ Requests /\ "Completed" \in Terminal /\ snd.state # "Cancelled"
    BY DEF SenderReady, SenderAlone, SenderOnAnswerWhileCancelling, SenderOnCompleteAck,
           Requests, Terminal
  <1>2. CASE SenderEnds(snd, "Completed", "none") /\ ToldOfCommit(snd)
    <2>1. rcv.transaction = "committed"
      BY <1>2 DEF SenderReady, Claims
    <2> QED
      BY <1>1, <1>2, <2>1, KnownCodes, SenderEndStep
  <1>3. CASE UNCHANGED <<snd, budget>>
    BY <1>1, <1>3, SenderAckStep
  <1> QED
    BY <1>2, <1>3 DEF SenderOnAnswerWhileCancelling, SenderOnCompleteAck, ToldOfCommit

(* TRANSFER_REJECT.                                                        *)
LEMMA SenderOnRejectStep ==
  ASSUME SenderReady, snd.state \notin Terminal, NEW m, Honest(m, rcv), SenderOnReject(m)
  PROVE  SenderStep
  <1>1. snd \in SenderType /\ Requests /\ "Rejected" \in Terminal /\ snd.state # "Completed"
        /\ m.code \in FailureCodes
    BY DEF SenderReady, SenderAlone, SenderOnReject, Requests, Terminal, Honest, Frames
  <1> QED
    BY <1>1, SenderEndStep DEF SenderOnReject

(* TRANSFER_ACCEPT reserves the window.                                    *)
LEMMA SenderOnAcceptStep ==
  ASSUME SenderReady, snd.state \notin Terminal, NEW m, Honest(m, rcv), SenderOnAccept(m)
  PROVE  SenderStep
  <1>1. /\ snd \in SenderType /\ m.size \in Nat /\ snd.state = "AwaitingDecision"
        /\ snd.reserved = 0 /\ snd.unacked = 0
    BY DEF SenderReady, SenderAlone, SenderOnAccept, Honest, Frames, Offering
  <1>2. CASE SenderFails("refused")
    BY <1>2, KnownCodes, SenderFailStep
  <1>3. CASE /\ snd' = [snd EXCEPT !.state = "SendingFile", !.reserved = m.size,
                                   !.available = m.size]
             /\ budget' = [budget EXCEPT !["sender"] = @ + m.size]
             /\ UNCHANGED to_receiver
    <2>1. /\ snd' \in SenderType /\ snd'.state = "SendingFile" /\ snd'.reserved = m.size
          /\ snd'.available = m.size /\ snd'.unacked = 0
      BY Zenon, <1>1, <1>3 DEF SenderType, SenderStates
    <2>2. budget["sender"] + m.size = m.size
      BY <1>1 DEF SenderReady
    <2>3. budget' = [budget EXCEPT !["sender"] = snd'.reserved]
      BY Zenon, <1>3, <2>1, <2>2
    <2>4. SenderAlone(snd') /\ Claims(snd', rcv)
      BY <1>1, <2>1 DEF SenderAlone, Claims, ToldOfCommit, Terminal, Offering, Sending
    <2> QED
      BY Zenon, <1>1, <1>3, <2>3, <2>4 DEF SenderStep, Requests, Terminal
  <1> QED
    BY <1>2, <1>3 DEF SenderOnAccept

(* CHUNK_ACK moves the reservation and the connection's count alike.       *)
LEMMA SenderOnChunkAckStep ==
  ASSUME SenderReady, snd.state \notin Terminal, NEW m, Honest(m, rcv), SenderOnChunkAck(m)
  PROVE  SenderStep
  <1> DEFINE newly == m.offset - snd.acked
             reserved == Reservation(newly, m.size)
             end == [snd EXCEPT !.acked = m.offset, !.unacked = @ - newly,
                                !.available = @ + m.size, !.reserved = reserved]
  <1>1. /\ snd \in SenderType /\ m.size \in Nat /\ m.offset \in Nat
        /\ snd.state = "SendingFile" /\ snd.reserved = snd.available + snd.unacked
    BY DEF SenderReady, SenderAlone, SenderOnChunkAck, Honest, Frames, Sending
  <1>2. CASE SenderFails("failed")
    BY <1>2, KnownCodes, SenderFailStep
  <1>3. CASE /\ m.offset >= snd.acked /\ newly <= snd.unacked
             /\ snd' = end
             /\ budget' = [budget EXCEPT !["sender"] = @ - newly + m.size]
             /\ UNCHANGED to_receiver
    <2>1. /\ snd.available \in Nat /\ snd.unacked \in Nat /\ snd.acked \in Nat
          /\ snd.reserved \in Nat
      BY <1>1 DEF SenderType
    <2>2. /\ newly \in Nat /\ snd.unacked - newly \in Nat /\ snd.available + m.size \in Nat
          /\ reserved \in Nat
          /\ reserved = (snd.available + m.size) + (snd.unacked - newly)
          /\ snd.reserved - newly + m.size = reserved
      BY <1>1, <1>3, <2>1 DEF Reservation
    <2> HIDE DEF newly, reserved
    <2>3. end \in SenderType
      BY Zenon, <1>1, <2>2 DEF SenderType
    <2>4. /\ end.state = "SendingFile" /\ end.reserved = reserved
          /\ end.available = snd.available + m.size /\ end.unacked = snd.unacked - newly
      BY <1>1 DEF SenderType
    <2>5. budget["sender"] - newly + m.size = end.reserved
      BY <2>2, <2>4 DEF SenderReady
    <2> HIDE DEF end
    <2>6. budget' = [budget EXCEPT !["sender"] = snd'.reserved]
      BY Zenon, <1>3, <2>5
    <2>7. SenderAlone(snd') /\ Claims(snd', rcv)
      BY <1>3, <2>2, <2>3, <2>4
         DEF SenderAlone, Claims, ToldOfCommit, Terminal, Offering, Sending
    <2> QED
      BY Zenon, <1>1, <1>3, <2>6, <2>7 DEF SenderStep, Requests, Terminal
  <1> QED
    BY <1>2, <1>3 DEF SenderOnChunkAck

(* FILE_COMMIT comes from a durable commit.                                *)
LEMMA SenderOnFileCommitStep ==
  ASSUME SenderReady, snd.state \notin Terminal, NEW m, Honest(m, rcv), SenderOnFileCommit(m)
  PROVE  SenderStep
  <1> DEFINE end == [snd EXCEPT !.state = "Completing"]
  <1>1. /\ snd \in SenderType /\ snd.reserved = snd.available + snd.unacked
        /\ rcv.transaction = "committed"
    BY DEF SenderReady, SenderAlone, SenderOnFileCommit, Sending, Honest, DurableAnswer
  <1>2. /\ end \in SenderType /\ end.state = "Completing" /\ end.reserved = snd.reserved
        /\ end.available = snd.available /\ end.unacked = snd.unacked
    BY <1>1 DEF SenderType, SenderStates
  <1>3. Plain("Complete") \in Frames
    BY BuiltFrames DEF FrameTypes
  <1>4. SenderFails("refused") \/ SenderSends(end, Plain("Complete"))
    BY DEF SenderOnFileCommit
  <1> HIDE DEF end
  <1>5. SenderAlone(end) /\ Claims(end, rcv)
    BY <1>1, <1>2 DEF SenderAlone, Claims, ToldOfCommit, Terminal, Offering, Sending
  <1> QED
    BY <1>1, <1>2, <1>3, <1>4, <1>5, KnownCodes, SenderFailStep, SenderSendStep

(* ReceiveFrame while the transfer runs.                                   *)
LEMMA SenderFrameStep ==
  ASSUME SenderReady, SenderReceivesFrame, Honest(Head(to_sender), rcv)
  PROVE  SenderStep
  <1> DEFINE m == Head(to_sender)
  <1>1. snd.state \notin Terminal
    BY DEF SenderReceivesFrame
  <1>2. SenderFails("none") \/ SenderFails("failed") \/ SenderHandles(m)
    BY DEF SenderReceivesFrame
  <1> HIDE DEF m
  <1>3. Honest(m, rcv)
    BY DEF m
  <1>4. CASE SenderHandles(m)
    BY <1>1, <1>3, <1>4, SenderOnErrorStep, SenderOnCancelStep, SenderOnCancelAckStep,
       SenderOnAnswerStep, SenderOnRejectStep, SenderOnAcceptStep, SenderOnChunkAckStep,
       SenderOnFileCommitStep
       DEF SenderHandles
  <1> QED
    BY <1>1, <1>2, <1>4, KnownCodes, SenderFailStep

(* ReceiveFrame after the end of the transfer.                             *)
LEMMA SenderLateFrameStep ==
  ASSUME SenderReady, SenderReceivesLateFrame, Honest(Head(to_sender), rcv)
  PROVE  SenderStep
  <1> DEFINE m == Head(to_sender)
             code == CachedTerminalCode(snd)
             asked == [snd EXCEPT !.ack_pending = TRUE, !.ack_code = code]
  <1>1. snd \in SenderType
    BY DEF SenderReady, SenderAlone
  <1>2. CASE \E ok \in EncodeFrame("sender") :
               /\ snd' = EmitCancelAck(asked, "sender", ok)
               /\ to_receiver' = Written(to_receiver, Coded("CancelAck", code), ok)
               /\ UNCHANGED budget
    <2>1. code \in Codes
      BY <1>1 DEF CachedTerminalCode, SenderType, Codes, FailureCodes
    <2> HIDE DEF code
    <2>2. /\ asked \in SenderType /\ asked.state = snd.state /\ asked.origin = snd.origin
          /\ asked.reserved = snd.reserved /\ asked.available = snd.available
          /\ asked.unacked = snd.unacked /\ asked.stream = snd.stream
          /\ asked.cancel_sent = snd.cancel_sent
      BY Zenon, <1>1, <2>1 DEF SenderType
    <2> HIDE DEF asked
    <2>3. snd' = asked \/ snd' = [asked EXCEPT !.ack_pending = FALSE]
      BY <1>2 DEF EmitCancelAck
    <2>4. Requests
      BY <1>2, <2>1, BuiltFrames DEF Requests, Written
    <2> QED
      BY <1>2, <2>2, <2>3, <2>4, SenderAckStep
  <1>3. CASE m.type = "CancelAck" /\ snd.cancel_sent /\ SenderApplyCancelAck(m)
    BY <1>3, SenderApplyCancelAckStep
  <1>4. CASE UNCHANGED <<snd, budget, to_receiver>>
    BY <1>1, <1>4, SenderAckStep DEF Requests
  <1> HIDE DEF m, code, asked
  <1> QED
    BY <1>2, <1>3, <1>4 DEF SenderReceivesLateFrame, m, code, asked

-----------------------------------------------------------------------------
(* The inductive invariant: the parts above, and that every frame still on *)
(* its way to the sender is true of the receiver as it is now.             *)
Inv ==
  /\ file_size \in FileSizes
  /\ SenderAlone(snd) /\ ReceiverAlone(rcv) /\ Claims(snd, rcv)
  /\ to_receiver \in Seq(Frames)
  /\ to_sender \in Seq(Frames)
  /\ \A i \in 1..Len(to_sender) : Honest(to_sender[i], rcv)
  /\ unconfirmed \in Seq(Nat)
  /\ budget \in [Ends -> Nat]
  /\ budget["sender"] = snd.reserved /\ budget["receiver"] = HeldCredit(rcv)
  /\ authorized \in [Ends -> BOOLEAN]
  /\ exhausted \in [Ends -> BOOLEAN]

SenderActs ==
  \/ SenderStart \/ SenderNextOutbound \/ SenderReceives \/ SenderAdvance
  \/ SenderCancel \/ SenderShutdown

ReceiverActs ==
  \/ ReceiverReceives \/ ReceiverNextOutbound \/ ReceiverAdvance
  \/ ConfirmChunkAckWritten
  \/ \E window \in Windows : ReceiverAccept(window)
  \/ ReceiverReject \/ ReceiverCancel \/ ReceiverShutdown

(* Each action of the sender is a sender's step that leaves the receiver   *)
(* alone and at most takes the first frame off its way.                    *)
LEMMA SenderActsAsSender ==
  ASSUME Inv, SenderActs
  PROVE  /\ SenderStep
         /\ UNCHANGED <<rcv, unconfirmed, file_size, authorized, exhausted>>
         /\ to_sender' = to_sender \/ (to_sender # <<>> /\ to_sender' = Tail(to_sender))
  <1>1. SenderReady
    BY SizeAssumption DEF Inv, SenderReady
  <1>2. CASE SenderReceives
    <2>1. to_sender # <<>> /\ to_sender \in Seq(Frames)
      BY <1>2 DEF Inv, SenderReceives, SenderReceivesFrame, SenderReceivesLateFrame
    <2>2. Honest(Head(to_sender), rcv)
      BY <2>1 DEF Inv
    <2>3. SenderStep
      BY <1>1, <1>2, <2>2, SenderFrameStep, SenderLateFrameStep DEF SenderReceives
    <2> QED
      BY <1>2, <2>1, <2>3
         DEF SenderReceives, SenderReceivesFrame, SenderReceivesLateFrame, environment
  <1>3. CASE SenderStart \/ SenderAdvance \/ SenderCancel \/ SenderShutdown
    <2>1. SenderStep
      BY <1>1, <1>3, StartStep, SenderAdvanceStep, SenderCancelStep, SenderShutdownStep
    <2> QED
      BY <1>3, <2>1 DEF SenderStart, SenderAdvance, SenderCancel, SenderShutdown,
                        receiver_side, environment
  <1>4. CASE SenderNextOutbound
    <2>1. SenderStep
      BY <1>1, <1>4, ManifestStep, FileBeginStep, ChunkStep, FileEndStep,
         SenderRetriesCancelStep, SenderRetriesCancelAckStep DEF SenderNextOutbound
    <2> QED
      BY <1>4, <2>1
         DEF SenderNextOutbound, SenderSendsManifest, SenderSendsFileBegin, SenderSendsChunk,
             SenderSendsFileEnd, SenderRetriesCancel, SenderRetriesCancelAck,
             receiver_side, environment
  <1> QED
    BY <1>2, <1>3, <1>4 DEF SenderActs

(* The receiver only records acknowledged offsets.                         *)
LEMMA UnconfirmedType ==
  ASSUME Inv, ReceiverActs
  PROVE  unconfirmed' \in Seq(Nat)
  <1>1. unconfirmed \in Seq(Nat) /\ rcv \in ReceiverType /\ to_receiver \in Seq(Frames)
    BY DEF Inv, ReceiverAlone
  <1>2. CASE UNCHANGED unconfirmed
    BY <1>1, <1>2
  <1>3. CASE ConfirmChunkAckWritten
    BY <1>1, <1>3 DEF ConfirmChunkAckWritten
  <1>4. CASE ReceiverReceivesFrame /\ ~UNCHANGED unconfirmed
    <2>1. ReceiverOnFileChunk(Head(to_receiver)) /\ Head(to_receiver) \in Frames
      BY <1>1, <1>4 DEF ReceiverReceivesFrame, ReceiverHandles
    <2>2. NextOffset(Head(to_receiver)) \in Nat
      BY <1>1, <2>1 DEF NextOffset, ReceiverType, Frames
    <2> HIDE DEF NextOffset
    <2> QED
      BY SMTT(30), <1>1, <1>4, <2>1, <2>2 DEF ReceiverOnFileChunk
  <1> QED
    BY Zenon, <1>2, <1>3, <1>4
       DEF ReceiverActs, ReceiverReceives, ReceiverReceivesFirstFrame,
           ReceiverReceivesLateFrame, ReceiverNextOutbound, ReceiverRetries,
           ReceiverRetriesCancelAck, ReceiverAdvance, ReceiverAccept, ReceiverReject,
           ReceiverCancel, ReceiverShutdown

(* Each action of the receiver is a receiver's step that leaves the sender *)
(* alone.                                                                  *)
LEMMA ReceiverActsAsReceiver ==
  ASSUME Inv, ReceiverActs
  PROVE  /\ ReceiverStep
         /\ UNCHANGED <<snd, file_size, authorized, exhausted>>
         /\ \/ to_receiver' = to_receiver
            \/ to_receiver # <<>> /\ to_receiver' = Tail(to_receiver)
  <1>1. ReceiverReady /\ to_receiver \in Seq(Frames) /\ file_size \in Nat
    BY SizeAssumption DEF Inv, ReceiverReady
  <1>2. CASE ReceiverReceives
    <2>1. ReceiverStep
      BY <1>1, <1>2, FirstFrameStep, FrameStep, LateFrameStep DEF ReceiverReceives
    <2> QED
      BY <1>2, <2>1 DEF ReceiverReceives, ReceiverReceivesFirstFrame, ReceiverReceivesFrame,
                        ReceiverReceivesLateFrame, environment
  <1>3. CASE ReceiverNextOutbound \/ ReceiverAdvance \/ ConfirmChunkAckWritten
    <2>1. ReceiverStep
      BY <1>1, <1>3, RetriesStep, RetriesCancelAckStep, AdvanceStep, ConfirmStep
         DEF ReceiverNextOutbound, Inv
    <2> QED
      BY <1>3, <2>1 DEF ReceiverNextOutbound, ReceiverRetries, ReceiverRetriesCancelAck,
                        ReceiverAdvance, ConfirmChunkAckWritten, sender_side, environment
  <1>4. CASE ReceiverReject \/ ReceiverCancel \/ ReceiverShutdown
    <2>1. ReceiverStep
      BY <1>1, <1>4, RejectStep, CancelStep, ShutdownStep
    <2> QED
      BY <1>4, <2>1 DEF ReceiverReject, ReceiverCancel, ReceiverShutdown,
                        sender_side, environment
  <1>5. CASE \E window \in Windows : ReceiverAccept(window)
    <2>1. ReceiverStep
      BY <1>1, <1>5, AcceptStep
    <2> QED
      BY <1>5, <2>1 DEF ReceiverAccept, sender_side, environment
  <1> QED
    BY <1>2, <1>3, <1>4, <1>5 DEF ReceiverActs

-----------------------------------------------------------------------------
(* What was true of the receiver when a frame was sent, or when the sender *)
(* learnt of it, stays true.                                               *)
LEMMA ReceiverNeverTakesBack ==
  ASSUME ReceiverStep
  PROVE  /\ rcv.transaction = "committed" => rcv'.transaction = "committed"
         /\ NeverDurable(rcv) => NeverDurable(rcv')
         /\ \A f : Honest(f, rcv) => Honest(f, rcv')
         /\ \A s : Claims(s, rcv) => Claims(s, rcv')
  <1>1. NeverDurable(rcv) => NeverDurable(rcv')
    BY DEF ReceiverStep, NeverDurable, Stopping, Terminal
  <1> QED
    BY <1>1 DEF ReceiverStep, Honest, Claims

(* Inv holds initially.                                                    *)
LEMMA InitInv ==
  ASSUME Init
  PROVE  Inv
  <1>1. SenderAlone(snd) /\ Claims(snd, rcv)
    <2>1. 0 \in 0..2 /\ 0 \in Nat
      OBVIOUS
    <2>2. snd \in SenderType
      BY Zenon, <2>1 DEF Init, SenderType, SenderStates, Codes, FailureCodes, Terminal
    <2>3. snd.state = "Created" /\ snd.reserved = 0 /\ snd.unacked = 0
      BY Zenon DEF Init
    <2> QED
      BY <2>2, <2>3 DEF SenderAlone, Terminal, Offering, Sending, Claims, ToldOfCommit
  <1>2. ReceiverAlone(rcv)
    BY Zenon DEF Init, ReceiverAlone, ReceiverType, ReceiverStates, Transactions, Codes,
           FailureCodes, Terminal, Saved, Unsaved, Undecided
  <1>3. /\ to_receiver \in Seq(Frames) /\ to_sender \in Seq(Frames)
        /\ unconfirmed \in Seq(Nat)
        /\ \A i \in 1..Len(to_sender) : Honest(to_sender[i], rcv)
    BY SMTT(30) DEF Init
  <1>4. /\ file_size \in FileSizes /\ budget \in [Ends -> Nat]
        /\ authorized \in [Ends -> BOOLEAN] /\ exhausted \in [Ends -> BOOLEAN]
    BY Zenon DEF Init
  <1>5. budget["sender"] = snd.reserved /\ budget["receiver"] = HeldCredit(rcv)
    BY DEF Init, HeldCredit, Ends
  <1> QED
    BY Zenon, <1>1, <1>2, <1>3, <1>4, <1>5 DEF Inv

(* A step of the sender preserves Inv.                                     *)
LEMMA SenderKeepsInv ==
  ASSUME Inv, SenderActs
  PROVE  Inv'
  <1>1. /\ SenderStep
        /\ UNCHANGED <<rcv, unconfirmed, file_size, authorized, exhausted>>
        /\ to_sender' = to_sender \/ (to_sender # <<>> /\ to_sender' = Tail(to_sender))
    BY SenderActsAsSender
  <1>2. /\ SenderAlone(snd') /\ Claims(snd', rcv') /\ ReceiverAlone(rcv')
    BY <1>1 DEF SenderStep, Inv
  <1>3. to_receiver' \in Seq(Frames)
    <2>1. to_receiver \in Seq(Frames) /\ Requests
      BY <1>1 DEF SenderStep, Inv
    <2> QED
      BY <2>1 DEF Requests
  <1>4. to_sender' \in Seq(Frames)
    <2>1. to_sender \in Seq(Frames)
      BY DEF Inv
    <2> QED
      BY <1>1, <2>1
  <1>5. \A i \in 1..Len(to_sender') : Honest(to_sender'[i], rcv')
    <2>1. CASE to_sender' = to_sender
      BY <1>1, <2>1 DEF Inv
    <2>2. CASE to_sender # <<>> /\ to_sender' = Tail(to_sender)
      <3>1. \A i \in 1..Len(to_sender') :
              i + 1 \in 1..Len(to_sender) /\ to_sender'[i] = to_sender[i + 1]
        BY <2>2 DEF Inv
      <3> QED
        BY <1>1, <3>1 DEF Inv
    <2> QED
      BY <1>1, <2>1, <2>2
  <1>6. snd'.reserved \in Nat
    BY <1>2 DEF SenderAlone, SenderType
  <1>7. /\ budget' \in [Ends -> Nat] /\ budget'["sender"] = snd'.reserved
        /\ budget'["receiver"] = budget["receiver"]
    BY <1>1, <1>6 DEF SenderStep, Inv, Ends
  <1>8. budget'["receiver"] = HeldCredit(rcv')
    BY Zenon, <1>1, <1>7 DEF Inv
  <1> QED
    BY <1>1, <1>2, <1>3, <1>4, <1>5, <1>7, <1>8 DEF Inv

(* A step of the receiver preserves Inv.                                   *)
LEMMA ReceiverKeepsInv ==
  ASSUME Inv, ReceiverActs
  PROVE  Inv'
  <1>1. /\ ReceiverStep
        /\ UNCHANGED <<snd, file_size, authorized, exhausted>>
        /\ \/ to_receiver' = to_receiver
           \/ to_receiver # <<>> /\ to_receiver' = Tail(to_receiver)
    BY ReceiverActsAsReceiver
  <1>2. /\ \A f : Honest(f, rcv) => Honest(f, rcv')
        /\ \A s : Claims(s, rcv) => Claims(s, rcv')
    BY <1>1, ReceiverNeverTakesBack
  <1>3. SenderAlone(snd') /\ Claims(snd', rcv') /\ ReceiverAlone(rcv')
    BY <1>1, <1>2 DEF ReceiverStep, Inv
  <1>4. to_receiver' \in Seq(Frames)
    <2>1. to_receiver \in Seq(Frames)
      BY DEF Inv
    <2> QED
      BY <1>1, <2>1
  <1>5. /\ to_sender' \in Seq(Frames)
        /\ \A i \in 1..Len(to_sender') : Honest(to_sender'[i], rcv')
    <2>1. CASE to_sender' = to_sender
      BY <1>2, <2>1 DEF Inv
    <2>2. ASSUME NEW f, Honest(f, rcv'), to_sender' = Append(to_sender, f)
          PROVE  <1>5
      <3>1. f \in Frames /\ to_sender \in Seq(Frames)
        BY <2>2 DEF Honest, Inv
      <3>2. to_sender' \in Seq(Frames) /\ Len(to_sender') = Len(to_sender) + 1
        BY <2>2, <3>1
      <3>3. ASSUME NEW i \in 1..Len(to_sender')
            PROVE  Honest(to_sender'[i], rcv')
        <4>1. CASE i = Len(to_sender) + 1
          BY <2>2, <3>1, <4>1
        <4>2. CASE i \in 1..Len(to_sender)
          BY SMTT(30), <1>2, <2>2, <3>1, <4>2 DEF Inv
        <4> QED
          BY <3>1, <3>2, <4>1, <4>2
      <3> QED
        BY <3>2, <3>3
    <2> QED
      BY Zenon, <1>1, <2>1, <2>2 DEF ReceiverStep, Answers
  <1>6. unconfirmed' \in Seq(Nat)
    BY Zenon, UnconfirmedType
  <1>7. HeldCredit(rcv') \in Nat
    BY Zenon, <1>3 DEF ReceiverAlone, ReceiverType, HeldCredit
  <1>8. /\ budget' \in [Ends -> Nat] /\ budget'["receiver"] = HeldCredit(rcv')
        /\ budget'["sender"] = snd'.reserved
    BY <1>1, <1>7 DEF ReceiverStep, Inv, Ends
  <1> QED
    BY <1>1, <1>3, <1>4, <1>5, <1>6, <1>8 DEF Inv

(* Every step preserves Inv.                                               *)
LEMMA NextInv ==
  ASSUME Inv, [Next]_vars
  PROVE  Inv'
  <1>1. CASE UNCHANGED vars
    BY <1>1 DEF Inv, vars
  <1>2. CASE \E e \in Ends : LoseSession(e) \/ ExhaustIds(e)
    <2>1. /\ UNCHANGED <<file_size, snd, rcv, to_receiver, to_sender, unconfirmed, budget>>
          /\ authorized' \in [Ends -> BOOLEAN] /\ exhausted' \in [Ends -> BOOLEAN]
      BY Zenon, <1>2 DEF LoseSession, ExhaustIds, sender_side, receiver_side, Inv
    <2> QED
      BY <2>1 DEF Inv
  <1>3. SenderActs \/ ReceiverActs \/ UNCHANGED vars
        \/ \E e \in Ends : LoseSession(e) \/ ExhaustIds(e)
    BY DEF Next, SenderActs, ReceiverActs
  <1> QED
    BY <1>1, <1>2, <1>3, SenderKeepsInv, ReceiverKeepsInv

(* The inductive invariant holds throughout.                               *)
THEOREM TransferInvariant == Spec => []Inv
  <1>1. Init => Inv
    BY InitInv
  <1>2. Inv /\ [Next]_vars => Inv'
    BY NextInv
  <1> QED
    BY <1>1, <1>2, PTL DEF Spec

(* TypeOK holds for every file size, chunk size, set of windows and        *)
(* environment: in particular neither end ever subtracts more credit than  *)
(* it holds, which in the code would wrap a size_t.                        *)
THEOREM TransferTypes == Spec => []TypeOK
  <1>1. Inv => TypeOK
    BY DEF Inv, TypeOK, SenderAlone, ReceiverAlone
  <1> QED
    BY <1>1, TransferInvariant, PTL

(* A sender that reports COMPLETED is right about the receiver's file.     *)
THEOREM SuccessMeansCommitted == Spec => []SuccessIsDurable
  <1>1. Inv => SuccessIsDurable
    BY DEF Inv, Claims, ToldOfCommit, SuccessIsDurable
  <1> QED
    BY <1>1, TransferInvariant, PTL

(* The receiver's outcome says whether the file was committed.             *)
THEOREM OutcomeMeansCommitted == Spec => []DurableOutcome
  <1>1. Inv => DurableOutcome
    BY DEF Inv, ReceiverAlone, Saved, Terminal, DurableOutcome
  <1> QED
    BY <1>1, TransferInvariant, PTL

(* Ended transfers hold neither credit nor a stream of the connection.     *)
THEOREM NothingLeaks == Spec => []NothingHeldAtEnd
  <1>1. Inv => NothingHeldAtEnd
    <2>1. Inv /\ snd.state \in Terminal => budget["sender"] = 0 /\ ~snd.stream
      BY DEF Inv, SenderAlone
    <2>2. Inv /\ rcv.state \in Terminal => budget["receiver"] = 0 /\ ~rcv.stream
      BY DEF Inv, ReceiverAlone, HeldCredit
    <2> QED
      BY <2>1, <2>2 DEF NothingHeldAtEnd
  <1> QED
    BY <1>1, TransferInvariant, PTL

-----------------------------------------------------------------------------
(* The results in terms of what the invariant speaks of.                   *)
LEMMA ReceivedResults ==
  ASSUME NEW r, ReceiverAlone(r),
         NEW result,
         result = (CASE r.state \in {"Committed", "Completed"} -> "saved"
                     [] r.state \in {"Cancelled", "Rejected", "Failed"} -> "discarded"
                     [] OTHER -> "running")
  PROVE  result = IF r.state \notin Terminal THEN "running"
                  ELSE IF r.transaction = "committed" THEN "saved" ELSE "discarded"
  BY DEF ReceiverAlone, Saved, Terminal

(* A step of the receiver publishes, finishes or is invisible.             *)
LEMMA ReceiverImplements ==
  ASSUME Inv, ReceiverStep, UNCHANGED snd
  PROVE  [Outcome!Next]_(Outcome!vars)
  <1>1. /\ ReceivedResult = IF rcv.state \notin Terminal THEN "running"
                            ELSE IF rcv.transaction = "committed" THEN "saved" ELSE "discarded"
        /\ ReceivedResult' = IF rcv'.state \notin Terminal THEN "running"
                             ELSE IF rcv'.transaction = "committed" THEN "saved"
                             ELSE "discarded"
    BY ReceivedResults DEF Inv, ReceiverStep, ReceivedResult
  <1>2. UNCHANGED SentResult
    BY DEF SentResult
  <1>3. /\ rcv.transaction = "committed" => rcv'.transaction = "committed"
        /\ rcv'.transaction = "committed" /\ rcv.transaction # "committed"
             => rcv.state \notin Terminal
        /\ rcv.state \in Terminal => rcv'.state \in Terminal
    BY DEF ReceiverStep, Terminal
  <1>4. CASE rcv'.transaction = "committed" /\ rcv.transaction # "committed"
    <2>1. Outcome!Publish
      BY <1>1, <1>2, <1>3, <1>4 DEF Outcome!Publish
    <2> QED
      BY <2>1 DEF Outcome!Next
  <1>5. CASE ~(rcv'.transaction = "committed" /\ rcv.transaction # "committed")
    <2>1. UNCHANGED (rcv.transaction = "committed")
      BY <1>3, <1>5
    <2>2. Outcome!ReceiverFinishes \/ UNCHANGED ReceivedResult
      BY <1>1, <1>2, <1>3, <1>5, <2>1 DEF Outcome!ReceiverFinishes
    <2> QED
      BY <1>2, <2>1, <2>2 DEF Outcome!Next, Outcome!vars
  <1> QED
    BY <1>4, <1>5

(* A step of the sender succeeds, stops or is invisible.                   *)
LEMMA SenderImplements ==
  ASSUME Inv, SenderStep, UNCHANGED rcv
  PROVE  [Outcome!Next]_(Outcome!vars)
  <1>1. UNCHANGED ReceivedResult /\ UNCHANGED (rcv.transaction = "committed")
    BY DEF ReceivedResult
  <1>2. /\ snd.state \in SenderStates /\ snd'.state \in SenderStates
    BY DEF Inv, SenderStep, SenderAlone, SenderType
  <1>3. CASE snd'.state = "Completed"
    <2>1. rcv.transaction = "committed" /\ snd.state # "Cancelled"
      BY <1>3 DEF SenderStep, Claims, ToldOfCommit
    <2>2. SentResult' = "success" /\ SentResult \in {"running", "failure", "success"}
      BY <1>2, <1>3, <2>1 DEF SentResult
    <2>3. Outcome!SenderSucceeds \/ UNCHANGED SentResult
      BY <1>1, <2>1, <2>2 DEF Outcome!SenderSucceeds
    <2> QED
      BY <1>1, <2>3 DEF Outcome!Next, Outcome!vars
  <1>4. CASE snd'.state \in Terminal /\ snd'.state # "Completed"
    <2>1. snd.state # "Completed"
      BY <1>4 DEF SenderStep
    <2>2. SentResult' \in {"cancelled", "failure"} /\ SentResult # "success"
      BY <1>2, <1>4, <2>1 DEF SentResult, Terminal
    <2>3. Outcome!SenderStops
      BY <1>1, <2>2 DEF Outcome!SenderStops
    <2> QED
      BY <2>3 DEF Outcome!Next
  <1>5. CASE snd'.state \notin Terminal
    <2>1. SentResult' = "running" /\ SentResult = "running"
      BY <1>5 DEF SenderStep, SentResult, Terminal
    <2> QED
      BY <1>1, <2>1 DEF Outcome!vars
  <1> QED
    BY <1>3, <1>4, <1>5

(* The two state machines and the frames between them implement            *)
(* TransferOutcome: success only of a committed file, for good and never   *)
(* after a cancellation, and one final word from the receiver.             *)
THEOREM TransferImplementsOutcome == Spec => KeepsOutcome
  <1>1. Init => Outcome!Init
    BY DEF Init, Outcome!Init, SentResult, ReceivedResult
  <1>2. Inv /\ [Next]_vars => [Outcome!Next]_(Outcome!vars)
    <2> SUFFICES ASSUME Inv, [Next]_vars
                 PROVE  [Outcome!Next]_(Outcome!vars)
      OBVIOUS
    <2>1. CASE SenderActs
      BY <2>1, SenderActsAsSender, SenderImplements
    <2>2. CASE ReceiverActs
      BY <2>2, ReceiverActsAsReceiver, ReceiverImplements
    <2>3. CASE UNCHANGED <<snd, rcv>>
      BY <2>3 DEF Outcome!vars, SentResult, ReceivedResult
    <2> QED
      BY <2>1, <2>2, <2>3 DEF Next, SenderActs, ReceiverActs, LoseSession, ExhaustIds,
                              sender_side, receiver_side, vars
  <1> QED
    BY <1>1, <1>2, TransferInvariant, PTL DEF Spec, KeepsOutcome, Outcome!Spec

-----------------------------------------------------------------------------
(* How the sender's count of content and credit moves.                     *)
Kept(s, t) ==
  /\ t.begun = s.begun /\ t.sent = s.sent /\ t.acked = s.acked
  /\ t.unacked = s.unacked /\ t.available = s.available

(* FILE_END is sent only once FILE_BEGIN was.                              *)
Asks ==
  \/ to_receiver' = to_receiver
  \/ \E f \in Frames : /\ to_receiver' = Append(to_receiver, f)
                       /\ f.type = "FileEnd" => snd.begun = TRUE

(* Why a sender that stopped may not know what became of the file.         *)
Excused(s, trusted) ==
  s.begun = FALSE \/ s.shutdown = TRUE \/ trusted = FALSE \/ s.code = "failed"

Stops ==
  /\ Kept(snd, snd') /\ Asks
  /\ snd'.state \in Terminal \ {"Committed"}
  /\ snd'.state \in {"Cancelled", "Rejected"} =>
       NeverDurable(rcv) \/ Excused(snd', authorized["sender"])

Continues ==
  /\ Kept(snd, snd') /\ Asks
  /\ IF snd.state \in Terminal
     THEN /\ snd'.state = snd.state /\ snd'.code = snd.code
          /\ snd.shutdown = TRUE => snd'.shutdown = TRUE
     ELSE /\ snd'.state \notin Terminal
          /\ snd'.state \in Offering => snd.state \in Offering
          /\ snd'.state \in Sending => snd.state \in Sending /\ snd'.reserved = snd.reserved

Begins ==
  /\ snd' = [snd EXCEPT !.begun = TRUE] /\ snd.state = "SendingFile" /\ Asks

Accepts(m) ==
  /\ snd.state = "AwaitingDecision" /\ m.type = "Accept"
  /\ snd' = [snd EXCEPT !.state = "SendingFile", !.reserved = m.size, !.available = m.size]
  /\ Asks

SendsChunk ==
  /\ snd.state = "SendingFile"
  /\ snd' = [snd EXCEPT !.sent = @ + Wanted, !.available = @ - Wanted, !.unacked = @ + Wanted]
  /\ Asks

TakesAck(m) ==
  /\ snd.state = "SendingFile" /\ m.type = "ChunkAck"
  /\ m.offset - snd.acked <= snd.unacked /\ m.offset >= snd.acked
  /\ snd' = [snd EXCEPT !.acked = m.offset, !.unacked = @ - (m.offset - snd.acked),
                        !.available = @ + m.size,
                        !.reserved = Reservation(m.offset - snd.acked, m.size)]
  /\ Asks

SenderMoves ==
  \/ Stops \/ Continues \/ Begins \/ SendsChunk
  \/ /\ to_sender # <<>> /\ to_sender' = Tail(to_sender)
     /\ Accepts(Head(to_sender)) \/ TakesAck(Head(to_sender))

(* Ending a transfer leaves the counts.                                    *)
LEMMA EndsKeep ==
  ASSUME NEW end \in SenderType, NEW state \in Terminal, NEW code, Kept(snd, end),
         SenderEnds(end, state, code)
  PROVE  /\ Kept(snd, snd') /\ snd'.state = state /\ snd'.code = code
         /\ snd'.shutdown = end.shutdown
  BY DEF SenderEnds, Settled, SenderType, Kept

(* Fail stops the sender.                                                  *)
LEMMA FailsStop ==
  ASSUME snd \in SenderType, NEW code \in FailureCodes, SenderFails(code)
  PROVE  Stops
  <1>1. Kept(snd, snd') /\ snd'.state = "Failed"
    BY EndsKeep DEF SenderFails, Kept, Terminal
  <1>2. Coded("Error", code) \in Frames /\ Coded("Error", code).type # "FileEnd"
    BY DEF Coded, Frames, FrameTypes, FailureCodes
  <1>3. to_receiver' \in {to_receiver, Append(to_receiver, Coded("Error", code))}
    BY DEF SenderFails, ErrorFrame, Written
  <1>4. Asks
    BY <1>2, <1>3 DEF Asks
  <1> QED
    BY Zenon, <1>1, <1>4 DEF Stops, Terminal

(* A frame without content asks nothing but what its type says.            *)
LEMMA PlainAsks ==
  ASSUME NEW type \in FrameTypes \ {"Error", "Reject"}, type = "FileEnd" => snd.begun = TRUE,
         to_receiver' = Append(to_receiver, Plain(type))
  PROVE  Asks
  <1>1. Plain(type).type = type
    BY DEF Plain, Frame
  <1> QED
    BY <1>1, BuiltFrames DEF Asks

(* Start and the frames of NextOutbound.                                   *)
LEMMA NextOutboundMoves ==
  ASSUME snd \in SenderType, file_size \in Nat, SenderStart \/ SenderSendsManifest
           \/ SenderSendsFileBegin \/ SenderSendsChunk \/ SenderSendsFileEnd
  PROVE  SenderMoves
  <1>1. ASSUME NEW code \in {"none", "refused"}, SenderFails(code) PROVE SenderMoves
    BY <1>1, FailsStop, KnownCodes DEF SenderMoves
  <1>2. ASSUME NEW end, NEW type \in FrameTypes \ {"Error", "Reject"}, SenderSends(end, Plain(type)),
               type = "FileEnd" => snd.begun = TRUE
        PROVE  snd' = end /\ Asks
    BY Zenon, <1>2, PlainAsks DEF SenderSends
  <1>3. CASE SenderStart
    <2>1. SenderFails("none") \/ SenderFails("refused")
          \/ SenderSends([snd EXCEPT !.state = "SendingManifest"], Plain("Offer"))
      BY <1>3 DEF SenderStart
    <2>2. CASE SenderSends([snd EXCEPT !.state = "SendingManifest"], Plain("Offer"))
      <3>1. snd' = [snd EXCEPT !.state = "SendingManifest"] /\ Asks
        BY Zenon, <1>2, <2>2 DEF FrameTypes
      <3> QED
        BY <1>3, <3>1 DEF SenderStart, SenderMoves, Continues, Kept, SenderType, Terminal,
                          Offering, Sending
    <2> QED
      BY <1>1, <2>1, <2>2
  <1>4. CASE SenderSendsManifest
    <2>1. \/ SenderFails("refused")
          \/ SenderSends([snd EXCEPT !.stage = 1], Plain("ManifestEntry"))
          \/ SenderSends([snd EXCEPT !.stage = 2, !.state = "AwaitingDecision"],
                         Plain("ManifestEnd"))
      BY <1>4 DEF SenderSendsManifest
    <2>2. CASE ~SenderFails("refused")
      <3>1. /\ \/ snd' = [snd EXCEPT !.stage = 1]
               \/ snd' = [snd EXCEPT !.stage = 2, !.state = "AwaitingDecision"]
            /\ Asks
        <4>1. CASE SenderSends([snd EXCEPT !.stage = 1], Plain("ManifestEntry"))
          BY Zenon, <1>2, <4>1 DEF FrameTypes
        <4>2. CASE SenderSends([snd EXCEPT !.stage = 2, !.state = "AwaitingDecision"],
                               Plain("ManifestEnd"))
          <5> DEFINE two == [snd EXCEPT !.stage = 2, !.state = "AwaitingDecision"]
          <5>1. SenderSends(two, Plain("ManifestEnd"))
            BY <4>2
          <5> HIDE DEF two
          <5>2. snd' = two /\ Asks
            BY Zenon, <1>2, <5>1 DEF FrameTypes
          <5> QED
            BY <5>2 DEF two
        <4> QED
          BY <2>1, <2>2, <4>1, <4>2
      <3> QED
        BY Zenon, <1>4, <3>1 DEF SenderSendsManifest, SenderMoves, Continues, Kept, SenderType, Terminal,
                          Offering, Sending
    <2> QED
      BY <1>1, <2>2
  <1>5. CASE SenderSendsFileBegin
    <2>1. SenderFails("refused") \/ SenderSends([snd EXCEPT !.begun = TRUE], Plain("FileBegin"))
      BY <1>5 DEF SenderSendsFileBegin
    <2>2. CASE ~SenderFails("refused")
      <3>1. snd' = [snd EXCEPT !.begun = TRUE] /\ Asks
        BY Zenon, <1>2, <2>1, <2>2 DEF FrameTypes
      <3> QED
        BY <1>5, <3>1 DEF SenderSendsFileBegin, SenderMoves, Begins
    <2> QED
      BY <1>1, <2>2
  <1>6. CASE SenderSendsChunk
    <2>1. SenderFails("refused") \/ SenderSends([snd EXCEPT !.sent = @ + Wanted,
                                                            !.available = @ - Wanted,
                                                            !.unacked = @ + Wanted],
                                                Frame("FileChunk", snd.sent, Wanted))
      BY <1>6 DEF SenderSendsChunk
    <2>2. CASE ~SenderFails("refused")
      <3>1. Wanted \in Nat /\ snd.sent \in Nat
        BY <1>6, SizeAssumption DEF SenderSendsChunk, Wanted, SenderType
      <3>2. /\ Frame("FileChunk", snd.sent, Wanted) \in Frames
            /\ Frame("FileChunk", snd.sent, Wanted).type = "FileChunk"
        BY <3>1, BuiltFrames DEF FrameTypes, Frame
      <3>3. Asks
        BY <2>1, <2>2, <3>2 DEF SenderSends, Asks
      <3> QED
        BY <1>6, <2>1, <2>2, <3>3 DEF SenderSendsChunk, SenderMoves, SendsChunk, SenderSends
    <2> QED
      BY <1>1, <2>2
  <1>7. CASE SenderSendsFileEnd
    <2>1. \/ SenderFails("refused")
          \/ SenderSends([snd EXCEPT !.state = "AwaitingFileCommit"], Plain("FileEnd"))
      BY <1>7 DEF SenderSendsFileEnd
    <2>2. CASE ~SenderFails("refused")
      <3>1. snd' = [snd EXCEPT !.state = "AwaitingFileCommit"] /\ Asks
        BY <1>2, <1>7, <2>1, <2>2 DEF FrameTypes, SenderSendsFileEnd, SenderType
      <3> QED
        BY Zenon, <1>7, <3>1 DEF SenderSendsFileEnd, SenderMoves, Continues, Kept, SenderType, Terminal,
                          Offering, Sending
    <2> QED
      BY <1>1, <2>2
  <1> QED
    BY <1>3, <1>4, <1>5, <1>6, <1>7
(* A cancellation that cannot be told is final, and says that it failed.   *)
LEMMA EmitCancelMoves ==
  ASSUME snd \in SenderType, snd.state \notin Terminal, NEW end \in SenderType, Kept(snd, end),
         end.state = "Cancelling", NEW ok \in BOOLEAN, SenderEmitCancel(end, ok)
  PROVE  SenderMoves
  <1>1. CASE ~ok /\ exhausted["sender"]
    <2>1. SenderEnds(end, "Cancelled", "failed") /\ to_receiver' = to_receiver
      BY <1>1 DEF SenderEmitCancel
    <2>2. Kept(snd, snd') /\ snd'.state = "Cancelled" /\ snd'.code = "failed"
      BY <2>1, EndsKeep DEF Terminal
    <2> QED
      BY <2>1, <2>2 DEF SenderMoves, Stops, Asks, Excused, Terminal
  <1>2. CASE ~(~ok /\ exhausted["sender"])
    <2>1. /\ snd' = IF ok THEN CancelSent(end) ELSE end
          /\ to_receiver' = Written(to_receiver, Plain("Cancel"), ok)
      BY <1>2 DEF SenderEmitCancel
    <2>2. Kept(snd, snd') /\ snd'.state = "Cancelling"
      BY <2>1 DEF CancelSent, SenderType, Kept
    <2>3. Asks
      BY Zenon, <2>1, PlainAsks DEF Written, Asks, FrameTypes
    <2> QED
      BY <2>2, <2>3 DEF SenderMoves, Continues, Terminal, Offering, Sending
  <1> QED
    BY <1>1, <1>2

(* Acknowledging a CANCEL.                                                 *)
LEMMA AckMoves ==
  ASSUME snd \in SenderType, NEW end \in SenderType,
         \E code \in Codes : end = [snd EXCEPT !.ack_pending = TRUE, !.ack_code = code]
           \/ end = snd,
         snd' = end \/ snd' = [end EXCEPT !.ack_pending = FALSE],
         NEW code \in Codes, NEW sent \in BOOLEAN,
         to_receiver' = Written(to_receiver, Coded("CancelAck", code), sent)
  PROVE  Continues
  <1>1. /\ Kept(snd, end) /\ end.state = snd.state /\ end.code = snd.code
        /\ end.shutdown = snd.shutdown /\ end.reserved = snd.reserved
    BY Zenon DEF SenderType, Kept
  <1>2. /\ Kept(snd, snd') /\ snd'.state = snd.state /\ snd'.code = snd.code
        /\ snd'.shutdown = snd.shutdown /\ snd'.reserved = snd.reserved
    BY <1>1 DEF SenderType, Kept
  <1>3. Coded("CancelAck", code) \in Frames /\ Coded("CancelAck", code).type = "CancelAck"
    BY BuiltFrames DEF Coded
  <1>4. Asks
    BY <1>3 DEF Asks, Written
  <1> QED
    BY <1>2, <1>4 DEF Continues

(* The sender's timer, Cancel and Shutdown.                                *)
LEMMA OtherCallsMove ==
  ASSUME snd \in SenderType, NEW trusted, trusted = authorized["sender"], trusted \in BOOLEAN,
         snd.state = "Created" => snd.begun = FALSE,
         \/ SenderRetriesCancel \/ SenderRetriesCancelAck \/ SenderAdvance
         \/ SenderCancel \/ SenderShutdown
  PROVE  SenderMoves
  <1>1. CASE SenderRetriesCancel
    <2>1. PICK ok \in BOOLEAN : SenderEmitCancel(snd, ok)
      BY <1>1 DEF SenderRetriesCancel, EncodeFrame
    <2> QED
      BY <1>1, <2>1, EmitCancelMoves DEF SenderRetriesCancel, Kept, Terminal
  <1>2. CASE SenderRetriesCancelAck
    <2>1. snd' = snd \/ snd' = [snd EXCEPT !.ack_pending = FALSE]
      BY <1>2 DEF SenderRetriesCancelAck, EmitCancelAck
    <2>2. \E sent \in BOOLEAN :
            to_receiver' = Written(to_receiver, Coded("CancelAck", snd.ack_code), sent)
      BY <1>2 DEF SenderRetriesCancelAck, EncodeFrame, Written
    <2>3. snd.ack_code \in Codes
      BY DEF SenderType
    <2> QED
      BY Zenon, <2>1, <2>2, <2>3, AckMoves DEF SenderMoves
  <1>3. CASE SenderAdvance
    BY <1>3, FailsStop, KnownCodes DEF SenderAdvance, SenderMoves
  <1>4. CASE SenderCancel
    <2>1. CASE snd.state = "Created" \/ ~authorized["sender"]
      <3>1. SenderEnds(snd, "Cancelled", "cancelled") /\ to_receiver' = to_receiver
        BY Zenon, <1>4, <2>1 DEF SenderCancel
      <3>2. Kept(snd, snd') /\ snd'.state = "Cancelled"
        BY <3>1, EndsKeep DEF Kept, Terminal
      <3>3. Excused(snd', authorized["sender"])
        BY <2>1, <3>2 DEF Excused, Kept
      <3> QED
        BY <3>1, <3>2, <3>3 DEF SenderMoves, Stops, Asks, Terminal
    <2>2. CASE ~(snd.state = "Created" \/ ~authorized["sender"])
      <3>1. PICK ok \in BOOLEAN : SenderEmitCancel(Cancelling(snd), ok)
        BY <1>4, <2>2 DEF SenderCancel, EncodeFrame
      <3>2. /\ Cancelling(snd) \in SenderType /\ Cancelling(snd).state = "Cancelling"
            /\ Kept(snd, Cancelling(snd))
        BY ZenonT(60), KnownCodes DEF Cancelling, SenderType, SenderStates, Kept
      <3> QED
        BY <1>4, <3>1, <3>2, EmitCancelMoves DEF SenderCancel
    <2> QED
      BY <2>1, <2>2
  <1>5. CASE SenderShutdown
    <2> DEFINE closed == [snd EXCEPT !.shutdown = TRUE]
    <2>1. closed \in SenderType /\ Kept(snd, closed) /\ closed.shutdown = TRUE
      BY Zenon DEF SenderType, Kept
    <2>2. Asks
      BY <1>5 DEF SenderShutdown, Asks
    <2>3. CASE snd.state \in Terminal
      <3>1. snd' = Settled(closed, snd.state, snd.code)
        BY <1>5, <2>3 DEF SenderShutdown
      <3> HIDE DEF closed
      <3>2. /\ Kept(snd, snd') /\ snd'.state = snd.state /\ snd'.code = snd.code
            /\ snd'.shutdown = TRUE
        BY <2>1, <3>1 DEF Settled, SenderType, Kept
      <3> QED
        BY <2>2, <2>3, <3>2 DEF SenderMoves, Continues
    <2>4. CASE snd.state \notin Terminal
      <3>1. SenderEnds(closed, "Cancelled", "cancelled")
        BY <1>5, <2>4 DEF SenderShutdown
      <3> HIDE DEF closed
      <3>2. Kept(snd, snd') /\ snd'.state = "Cancelled" /\ snd'.shutdown = TRUE
        BY <2>1, <3>1, EndsKeep DEF Terminal
      <3> QED
        BY <2>2, <3>2 DEF SenderMoves, Stops, Excused, Terminal
    <2> QED
      BY <2>3, <2>4
  <1> QED
    BY <1>1, <1>2, <1>3, <1>4, <1>5

(* What the answer to a CANCEL says of the file.                           *)
LEMMA ApplyCancelAckMoves ==
  ASSUME snd \in SenderType, NEW m, Honest(m, rcv), m.type = "CancelAck",
         SenderApplyCancelAck(m)
  PROVE  Stops
  <1>1. m.code \in Codes /\ (m.code # "completed" => NeverDurable(rcv))
    BY DEF Honest, Frames, FinalAnswer
  <1>2. /\ CancelOutcome(m.code) \in Terminal \ {"Committed"}
        /\ CancelOutcome(m.code) \in {"Cancelled", "Rejected"} => m.code # "completed"
    BY <1>1 DEF CancelOutcome, Terminal, Codes
  <1>3. SenderEnds(snd, CancelOutcome(m.code), OutcomeCode(m.code)) /\ Asks
    BY Zenon DEF SenderApplyCancelAck, Asks
  <1>4. Kept(snd, snd') /\ snd'.state = CancelOutcome(m.code)
    BY <1>2, <1>3, EndsKeep DEF Kept
  <1> QED
    BY <1>1, <1>2, <1>3, <1>4 DEF Stops

(* The frames the sender receives.                                         *)
LEMMA FrameMoves ==
  ASSUME snd \in SenderType, snd.state \notin Terminal, NEW m, Honest(m, rcv), SenderHandles(m)
  PROVE  Stops \/ Continues \/ Accepts(m) \/ TakesAck(m)
  <1>0. ASSUME NEW code \in {"refused", "failed"}, SenderFails(code) PROVE Stops
    BY <1>0, FailsStop, KnownCodes
  <1>1. CASE SenderOnError(m)
    BY <1>1 DEF SenderOnError, SenderType, Stops, Kept, Asks, Terminal
  <1>2. CASE SenderOnCancel(m)
    <2>1. NeverDurable(rcv)
      BY <1>2 DEF SenderOnCancel, Honest, FinalAnswer
    <2>2. PICK ok \in BOOLEAN :
            /\ snd' = EmitCancelAck([Settled(snd, "Cancelled", "cancelled")
                                       EXCEPT !.reserved = 0, !.stream = FALSE,
                                              !.cancel_sent = snd.cancel_sent,
                                              !.ack_pending = TRUE, !.ack_code = "cancelled"],
                                    "sender", ok)
            /\ to_receiver' = Written(to_receiver, Coded("CancelAck", "cancelled"), ok)
      BY <1>2 DEF SenderOnCancel, EncodeFrame
    <2>3. /\ Coded("CancelAck", "cancelled") \in Frames
          /\ Coded("CancelAck", "cancelled").type = "CancelAck"
      BY BuiltFrames DEF Coded, Codes
    <2>4. Asks
      BY <2>2, <2>3 DEF Asks, Written
    <2>5. Kept(snd, snd') /\ snd'.state = "Cancelled"
      BY <2>2 DEF EmitCancelAck, Settled, SenderType, Kept
    <2> QED
      BY <2>1, <2>4, <2>5 DEF Stops, Terminal
  <1>3. CASE SenderOnCancelAck(m)
    BY <1>0, <1>3, ApplyCancelAckMoves DEF SenderOnCancelAck
  <1>4. CASE SenderOnAnswerWhileCancelling(m) \/ SenderOnCompleteAck(m)
    <2>1. CASE SenderEnds(snd, "Completed", "none")
      <3>1. Kept(snd, snd') /\ snd'.state = "Completed"
        BY Zenon, <2>1, EndsKeep DEF Kept, Terminal
      <3> QED
        BY <1>4, <3>1 DEF SenderOnAnswerWhileCancelling, SenderOnCompleteAck, Stops, Asks, Terminal
    <2>2. CASE UNCHANGED snd
      BY <1>4, <2>2 DEF SenderOnAnswerWhileCancelling, SenderOnCompleteAck, Continues, Kept, Asks
    <2> QED
      BY <1>4, <2>1, <2>2 DEF SenderOnAnswerWhileCancelling, SenderOnCompleteAck
  <1>5. CASE SenderOnReject(m)
    <2>1. NeverDurable(rcv)
      BY Zenon, <1>5 DEF SenderOnReject, Honest, FinalAnswer
    <2>2. Kept(snd, snd') /\ snd'.state = "Rejected" /\ Asks
      BY <1>5, EndsKeep DEF SenderOnReject, Kept, Terminal, Asks
    <2> QED
      BY <2>1, <2>2 DEF Stops, Terminal
  <1>6. CASE SenderOnAccept(m)
    BY <1>0, <1>6 DEF SenderOnAccept, Accepts, Asks
  <1>7. CASE SenderOnChunkAck(m)
    BY <1>0, <1>7 DEF SenderOnChunkAck, TakesAck, Asks
  <1>8. CASE SenderOnFileCommit(m)
    <2>1. SenderFails("refused")
          \/ SenderSends([snd EXCEPT !.state = "Completing"], Plain("Complete"))
      BY <1>8 DEF SenderOnFileCommit
    <2>2. CASE SenderSends([snd EXCEPT !.state = "Completing"], Plain("Complete"))
      <3>1. snd' = [snd EXCEPT !.state = "Completing"] /\ Asks
        BY Zenon, <2>2, PlainAsks DEF SenderSends, FrameTypes
      <3> QED
        BY <1>8, <3>1 DEF SenderOnFileCommit, Continues, Kept, SenderType, Terminal, Offering,
                          Sending
    <2> QED
      BY <1>0, <2>1, <2>2
  <1> QED
    BY <1>1, <1>2, <1>3, <1>4, <1>5, <1>6, <1>7, <1>8 DEF SenderHandles

(* Every action of the sender is one of these moves.                       *)
LEMMA SenderActsMove ==
  ASSUME Inv, snd.state = "Created" => snd.begun = FALSE, SenderActs
  PROVE  SenderMoves
  <1>1. /\ snd \in SenderType /\ file_size \in Nat /\ authorized["sender"] \in BOOLEAN
    BY SizeAssumption DEF Inv, SenderAlone, Ends
  <1>2. CASE SenderReceives
    <2> DEFINE m == Head(to_sender)
    <2>1. to_sender # <<>> /\ to_sender' = Tail(to_sender) /\ Honest(m, rcv)
      <3>1. to_sender # <<>> /\ to_sender' = Tail(to_sender) /\ to_sender \in Seq(Frames)
        BY <1>2 DEF Inv, SenderReceives, SenderReceivesFrame, SenderReceivesLateFrame
      <3> QED
        BY <3>1 DEF Inv
    <2>2. CASE SenderReceivesFrame
      <3>1. /\ snd.state \notin Terminal
            /\ SenderFails("none") \/ SenderFails("failed") \/ SenderHandles(m)
        BY <2>2 DEF SenderReceivesFrame
      <3> HIDE DEF m
      <3>2. Stops \/ Continues \/ Accepts(m) \/ TakesAck(m)
        BY <1>1, <2>1, <3>1, FrameMoves, FailsStop, KnownCodes
      <3> QED
        BY <2>1, <3>2 DEF SenderMoves, m
    <2>3. CASE SenderReceivesLateFrame
      <3> DEFINE code == CachedTerminalCode(snd)
                 asked == [snd EXCEPT !.ack_pending = TRUE, !.ack_code = code]
      <3>1. code \in Codes
        BY <1>1 DEF CachedTerminalCode, SenderType, Codes, FailureCodes
      <3>2. CASE \E ok \in EncodeFrame("sender") :
                   /\ snd' = EmitCancelAck(asked, "sender", ok)
                   /\ to_receiver' = Written(to_receiver, Coded("CancelAck", code), ok)
        <4>1. PICK ok \in BOOLEAN :
                   /\ snd' = EmitCancelAck(asked, "sender", ok)
                   /\ to_receiver' = Written(to_receiver, Coded("CancelAck", code), ok)
          BY <3>2 DEF EncodeFrame
        <4> HIDE DEF code
        <4>2. asked \in SenderType
          BY Zenon, <1>1, <3>1 DEF SenderType
        <4>3. snd' = asked \/ snd' = [asked EXCEPT !.ack_pending = FALSE]
          BY <4>1 DEF EmitCancelAck
        <4> QED
          BY Zenon, <1>1, <3>1, <4>1, <4>2, <4>3, AckMoves DEF SenderMoves
      <3>3. CASE m.type = "CancelAck" /\ SenderApplyCancelAck(m)
        BY <1>1, <2>1, <3>3, ApplyCancelAckMoves DEF SenderMoves
      <3>4. CASE UNCHANGED <<snd, to_receiver>>
        BY <3>4 DEF SenderMoves, Continues, Kept, Asks
      <3> HIDE DEF m, code, asked
      <3> QED
        BY <2>3, <3>2, <3>3, <3>4 DEF SenderReceivesLateFrame, m, code, asked
    <2> QED
      BY <1>2, <2>2, <2>3 DEF SenderReceives
  <1> QED
    BY Zenon, <1>1, <1>2, NextOutboundMoves, OtherCallsMove DEF SenderActs, SenderNextOutbound
-----------------------------------------------------------------------------
(* How the receiver's count moves.                                         *)
Counts(r) == <<r.window, r.available, r.next, r.written>>

(* A frame that grants no credit.                                          *)
GrantsNothing ==
  \/ to_sender' = to_sender
  \/ \E f \in Frames : /\ to_sender' = Append(to_sender, f)
                       /\ f.type \notin {"Accept", "ChunkAck"}

RestsOrEnds ==
  /\ rcv'.window = rcv.window /\ rcv'.next >= rcv.next
  /\ rcv'.credit = TRUE => rcv.credit = TRUE /\ Counts(rcv') = Counts(rcv)
  /\ rcv'.state \in Undecided => rcv.state \in Undecided /\ Counts(rcv') = Counts(rcv)
  /\ GrantsNothing

Grants(window) ==
  /\ rcv.state = "AwaitingDecision" /\ rcv'.state = "ReceivingFile"
  /\ rcv'.window = window /\ rcv'.available = window
  /\ rcv'.next = rcv.next /\ rcv'.written = rcv.written
  /\ to_sender' = Append(to_sender, Frame("Accept", 0, window))

StoresChunk ==
  /\ rcv.state = "ReceivingFile" /\ rcv'.state = "ReceivingFile"
  /\ rcv'.window = rcv.window /\ rcv'.written = rcv.written /\ rcv'.credit = rcv.credit
  /\ \E size \in Nat :
       /\ rcv'.available = rcv.available - size /\ rcv'.next = rcv.next + size
       /\ to_sender' = Append(to_sender, Frame("ChunkAck", rcv.next + size, size))

ConfirmsWrite ==
  /\ rcv.state \in {"ReceivingFile", "AwaitingCompletion"} /\ rcv'.state = rcv.state
  /\ rcv'.window = rcv.window /\ rcv'.next = rcv.next /\ rcv'.credit = rcv.credit
  /\ rcv'.written \in Nat
  /\ rcv'.available = rcv.available + (rcv'.written - rcv.written)
  /\ to_sender' = to_sender

(* The commit follows FILE_END.                                            *)
CommitsAtEnd ==
  rcv'.transaction = "committed" /\ rcv.transaction # "committed" =>
    to_receiver # <<>> /\ Head(to_receiver).type = "FileEnd"

ReceiverMoves ==
  /\ \/ RestsOrEnds \/ StoresChunk \/ ConfirmsWrite
     \/ \E window \in Windows : Grants(window)
  /\ CommitsAtEnd

(* Ending a transfer counts nothing any more.                              *)
LEMMA EndsRest ==
  ASSUME rcv \in ReceiverType, NEW end \in ReceiverType, NEW state \in Terminal, NEW code,
         end.window = rcv.window, end.next >= rcv.next,
         ReceiverEnds(end, state, code), GrantsNothing
  PROVE  RestsOrEnds /\ (rcv'.transaction = "committed" => end.transaction = "committed")
  <1>1. /\ rcv'.window = end.window /\ rcv'.next = end.next /\ rcv'.credit = FALSE
        /\ rcv'.state = state /\ rcv'.transaction = AbortTransaction(end)
    BY DEF ReceiverEnds, Settled, ReceiverType
  <1> QED
    BY <1>1 DEF RestsOrEnds, Undecided, Terminal, AbortTransaction

(* Fail ends the receiver's counting.                                      *)
LEMMA ReceiverFailsRests ==
  ASSUME rcv \in ReceiverType, NEW end \in ReceiverType, NEW code \in FailureCodes,
         end.window = rcv.window, end.next >= rcv.next,
         ReceiverFails(end, code)
  PROVE  RestsOrEnds /\ (rcv'.transaction = "committed" => end.transaction = "committed")
  <1>1. Coded("Error", code) \in Frames /\ Coded("Error", code).type = "Error"
    BY DEF Coded, Frames, FrameTypes, FailureCodes
  <1>2. GrantsNothing
    BY <1>1 DEF GrantsNothing, ReceiverFails, ErrorFrame, Written
  <1>3. FailureState(end) \in Terminal
    BY DEF FailureState, Terminal
  <1> QED
    BY <1>2, <1>3, EndsRest DEF ReceiverFails

(* A step that keeps the counts.                                           *)
LEMMA KeepsRest ==
  ASSUME rcv \in ReceiverType, NEW end \in ReceiverType, Counts(end) = Counts(rcv),
         end.credit = rcv.credit,
         end.state \in Undecided => rcv.state \in Undecided,
         rcv' = end, GrantsNothing
  PROVE  RestsOrEnds
  BY DEF RestsOrEnds, Counts, ReceiverType
(* Frames that are due, sent now or later.                                 *)
LEMMA DueFramesRest ==
  ASSUME rcv \in ReceiverType, NEW end \in ReceiverType, Counts(end) = Counts(rcv),
         end.credit = rcv.credit, end.state \in Undecided => rcv.state \in Undecided,
         NEW ok \in BOOLEAN,
         \/ ReceiverEmitReject(end, ok) \/ ReceiverEmitFileCommit(end, ok)
         \/ ReceiverEmitCompleteAck(end, ok) \/ ReceiverEmitCancel(end, ok)
  PROVE  RestsOrEnds /\ (rcv'.transaction = "committed" => end.transaction = "committed")
  <1>0. end.window = rcv.window /\ end.next >= rcv.next
    BY DEF Counts, ReceiverType
  <1>1. CASE ReceiverCannotEncode(end)
    <2>1. CASE exhausted["receiver"]
      <3>1. ReceiverEnds(end, FailureState(end), "failed") /\ to_sender' = to_sender
        BY <1>1, <2>1 DEF ReceiverCannotEncode
      <3> QED
        BY <1>0, <3>1, EndsRest DEF GrantsNothing, FailureState, Terminal
    <2>2. CASE ~exhausted["receiver"]
      BY <1>1, <2>2, KeepsRest DEF ReceiverCannotEncode, ReceiverWaits, GrantsNothing
    <2> QED
      BY <2>1, <2>2
  <1>2. ASSUME NEW f \in Frames, f.type \notin {"Accept", "ChunkAck"},
               to_sender' = Append(to_sender, f)
        PROVE  GrantsNothing
    BY Zenon, <1>2 DEF GrantsNothing
  <1>3. /\ Coded("Reject", "refused") \in Frames /\ Coded("Reject", "refused").type = "Reject"
        /\ \A type \in {"FileCommit", "CompleteAck", "Cancel"} :
             Plain(type) \in Frames /\ Plain(type).type = type
    BY DEF Coded, Plain, Frame, Frames, FrameTypes, FailureCodes, Codes
  <1>4. CASE ReceiverEmitReject(end, ok) /\ ok
    <2>1. ReceiverEnds(end, "Rejected", "refused") /\ GrantsNothing
      BY <1>2, <1>3, <1>4 DEF ReceiverEmitReject
    <2> QED
      BY <1>0, <2>1, EndsRest DEF Terminal
  <1>5. CASE ReceiverEmitFileCommit(end, ok) /\ ok
    <2> DEFINE sent == [end EXCEPT !.commit_sent = TRUE]
    <2>1. rcv' = sent /\ GrantsNothing
      BY <1>2, <1>3, <1>5 DEF ReceiverEmitFileCommit, ReceiverSends
    <2>2. /\ sent \in ReceiverType /\ Counts(sent) = Counts(rcv) /\ sent.credit = rcv.credit
          /\ sent.state = end.state /\ sent.transaction = end.transaction
      BY Zenon DEF ReceiverType, Counts
    <2> HIDE DEF sent
    <2> QED
      BY <2>1, <2>2, KeepsRest
  <1>6. CASE ReceiverEmitCompleteAck(end, ok) /\ ok
    <2> DEFINE done == [end EXCEPT !.complete_pending = FALSE]
    <2>1. ReceiverEnds(done, "Completed", "none") /\ GrantsNothing
      BY <1>2, <1>3, <1>6 DEF ReceiverEmitCompleteAck
    <2>2. /\ done \in ReceiverType /\ done.window = rcv.window /\ done.next >= rcv.next
          /\ done.transaction = end.transaction
      BY Zenon, <1>0 DEF ReceiverType
    <2> HIDE DEF done
    <2> QED
      BY <2>1, <2>2, EndsRest DEF Terminal
  <1>7. CASE ReceiverEmitCancel(end, ok)
    <2>1. CASE ~ok /\ exhausted["receiver"]
      <3>1. ReceiverEnds(end, "Cancelled", "failed") /\ GrantsNothing
        BY <1>7, <2>1 DEF ReceiverEmitCancel, GrantsNothing
      <3> QED
        BY <1>0, <3>1, EndsRest DEF Terminal
    <2>2. CASE ~(~ok /\ exhausted["receiver"])
      <3> DEFINE sent == IF ok THEN CancelSent(end) ELSE end
      <3>1. rcv' = sent /\ to_sender' = Written(to_sender, Plain("Cancel"), ok)
        BY <1>7, <2>2 DEF ReceiverEmitCancel
      <3>2. GrantsNothing
        BY Zenon, <1>3, <3>1 DEF GrantsNothing, Written
      <3>3. /\ sent \in ReceiverType /\ Counts(sent) = Counts(rcv) /\ sent.credit = rcv.credit
            /\ sent.state = end.state /\ sent.transaction = end.transaction
        <4>1. LET c == CancelSent(end)
              IN  /\ c \in ReceiverType /\ c.state = end.state /\ c.credit = end.credit
                  /\ c.transaction = end.transaction /\ c.window = end.window
                  /\ c.available = end.available /\ c.next = end.next /\ c.written = end.written
          BY Zenon DEF ReceiverType, CancelSent
        <4> QED
          BY <4>1 DEF Counts
      <3> HIDE DEF sent
      <3> QED
        BY <3>1, <3>2, <3>3, KeepsRest
    <2> QED
      BY <2>1, <2>2
  <1> QED
    BY <1>1, <1>4, <1>5, <1>6, <1>7
       DEF ReceiverEmitReject, ReceiverEmitFileCommit, ReceiverEmitCompleteAck

(* Accept grants the window, Reject nothing.                               *)
LEMMA DecisionMoves ==
  ASSUME ReceiverAlone(rcv), (\E window \in Windows : ReceiverAccept(window)) \/ ReceiverReject
  PROVE  ReceiverMoves
  <1> DEFINE opened == [rcv EXCEPT !.transaction = "receiving"]
  <1>1. /\ rcv \in ReceiverType /\ rcv.state = "AwaitingDecision" /\ rcv.transaction = "none"
    BY Zenon DEF ReceiverAlone, ReceiverAccept, ReceiverReject, Undecided
  <1>2. /\ opened \in ReceiverType /\ Counts(opened) = Counts(rcv) /\ opened.credit = rcv.credit
        /\ opened.state = rcv.state /\ opened.transaction = "receiving"
        /\ opened.window = rcv.window /\ opened.next = rcv.next /\ rcv.next \in Nat
    BY <1>1 DEF ReceiverType, Counts, Transactions
  <1>3. ASSUME NEW end \in {rcv, opened} PROVE
          /\ Rejecting(end) \in ReceiverType /\ Counts(Rejecting(end)) = Counts(rcv)
          /\ Rejecting(end).credit = rcv.credit /\ Rejecting(end).state = "Rejecting"
          /\ Rejecting(end).transaction # "committed"
    <2> HIDE DEF opened
    <2>1. /\ end \in ReceiverType /\ Counts(end) = Counts(rcv) /\ end.credit = rcv.credit
          /\ end.transaction \in {"none", "receiving"}
      BY Zenon, <1>1, <1>2
    <2>2. AbortTransaction(end) \in Transactions \ {"committed"}
      BY <2>1 DEF AbortTransaction, Transactions
    <2>3. Rejecting(end) \in ReceiverType
      BY Zenon, <2>1, <2>2 DEF ReceiverType, Rejecting, ReceiverStates
    <2>4. /\ Counts(Rejecting(end)) = Counts(end) /\ Rejecting(end).credit = end.credit
          /\ Rejecting(end).state = "Rejecting" /\ Rejecting(end).transaction = AbortTransaction(end)
      BY <2>1 DEF ReceiverType, Rejecting, Counts
    <2> QED
      BY Zenon, <2>1, <2>2, <2>3, <2>4
  <1>4. ASSUME NEW end \in {rcv, opened}, NEW ok \in EncodeFrame("receiver"),
               ReceiverEmitReject(Rejecting(end), ok)
        PROVE  ReceiverMoves
    <2>1. ok \in BOOLEAN
      BY DEF EncodeFrame
    <2>2. RestsOrEnds /\ rcv'.transaction # "committed"
      BY <1>1, <1>3, <1>4, <2>1, DueFramesRest DEF Undecided
    <2> QED
      BY <2>2 DEF ReceiverMoves, CommitsAtEnd
  <1>5. ASSUME NEW end \in {rcv, opened}, NEW code \in {"refused", "failed"},
               ReceiverFails(end, code)
        PROVE  ReceiverMoves
    <2>1. end \in ReceiverType /\ end.window = rcv.window /\ end.next >= rcv.next
          /\ end.transaction # "committed"
      BY <1>1, <1>2 DEF ReceiverType
    <2>2. RestsOrEnds /\ rcv'.transaction # "committed"
      BY <1>1, <1>5, <2>1, KnownCodes, ReceiverFailsRests
    <2> QED
      BY <2>2 DEF ReceiverMoves, CommitsAtEnd
  <1>6. ASSUME NEW window \in Windows,
               rcv' = [opened EXCEPT !.state = "ReceivingFile", !.window = window,
                                     !.available = window, !.credit = TRUE],
               to_sender' = Append(to_sender, Frame("Accept", 0, window))
        PROVE  ReceiverMoves
    <2>1. /\ rcv'.state = "ReceivingFile" /\ rcv'.window = window /\ rcv'.available = window
          /\ rcv'.next = rcv.next /\ rcv'.written = rcv.written
          /\ rcv'.transaction = "receiving"
      BY <1>1, <1>6 DEF ReceiverType
    <2> QED
      BY <1>1, <1>6, <2>1 DEF ReceiverMoves, Grants, CommitsAtEnd
  <1>7. CASE ReceiverReject
    BY <1>4, <1>7 DEF ReceiverReject
  <1>8. ASSUME NEW window \in Windows, ReceiverAccept(window) PROVE ReceiverMoves
    <2>1. \/ \E ok \in EncodeFrame("receiver") :
               ReceiverEmitReject(Rejecting(rcv), ok) \/ ReceiverEmitReject(Rejecting(opened), ok)
          \/ ReceiverFails(rcv, "failed") \/ ReceiverFails(opened, "refused")
          \/ /\ rcv' = [opened EXCEPT !.state = "ReceivingFile", !.window = window,
                                      !.available = window, !.credit = TRUE]
             /\ to_sender' = Append(to_sender, Frame("Accept", 0, window))
      BY Zenon, <1>8 DEF ReceiverAccept
    <2> HIDE DEF opened
    <2> QED
      BY Zenon, <1>4, <1>5, <1>6, <2>1 DEF opened
  <1> QED
    BY <1>7, <1>8
(* Retries and timers count nothing.                                       *)
LEMMA PumpMoves ==
  ASSUME ReceiverAlone(rcv), ReceiverRetries \/ ReceiverRetriesCancelAck \/ ReceiverAdvance
  PROVE  ReceiverMoves
  <1>1. rcv \in ReceiverType
    BY DEF ReceiverAlone
  <1>2. CASE ReceiverRetries
    <2>1. PICK ok \in BOOLEAN :
            \/ ReceiverEmitReject(rcv, ok) \/ ReceiverEmitFileCommit(rcv, ok)
            \/ ReceiverEmitCompleteAck(rcv, ok) \/ ReceiverEmitCancel(rcv, ok)
      BY <1>2 DEF ReceiverRetries, EncodeFrame
    <2>2. RestsOrEnds /\ (rcv'.transaction = "committed" => rcv.transaction = "committed")
      BY <1>1, <2>1, DueFramesRest
    <2> QED
      BY <2>2 DEF ReceiverMoves, CommitsAtEnd
  <1>3. CASE ReceiverRetriesCancelAck
    <2> DEFINE done == [rcv EXCEPT !.ack_pending = FALSE]
    <2>1. /\ done \in ReceiverType /\ Counts(done) = Counts(rcv) /\ done.credit = rcv.credit
          /\ done.state = rcv.state /\ done.transaction = rcv.transaction
      BY Zenon, <1>1 DEF ReceiverType, Counts
    <2>2. rcv' \in {rcv, done}
      BY <1>3 DEF ReceiverRetriesCancelAck, EmitCancelAck
    <2>3. to_sender' \in {to_sender, Append(to_sender, Coded("CancelAck", rcv.ack_code))}
      BY <1>3 DEF ReceiverRetriesCancelAck, Written
    <2>4. Coded("CancelAck", rcv.ack_code) \in Frames
          /\ Coded("CancelAck", rcv.ack_code).type = "CancelAck"
      BY <1>1, BuiltFrames DEF ReceiverType, Coded
    <2>5. GrantsNothing
      BY <2>3, <2>4 DEF GrantsNothing
    <2> HIDE DEF done
    <2> QED
      BY <1>1, <2>1, <2>2, <2>5, KeepsRest DEF ReceiverMoves, CommitsAtEnd
  <1>4. CASE ReceiverAdvance
    <2>1. ReceiverFails(rcv, "none") \/ ReceiverFails(rcv, "failed")
      BY <1>4 DEF ReceiverAdvance
    <2>2. rcv.next >= rcv.next
      BY <1>1 DEF ReceiverType
    <2>3. RestsOrEnds /\ (rcv'.transaction = "committed" => rcv.transaction = "committed")
      BY <1>1, <2>1, <2>2, KnownCodes, ReceiverFailsRests
    <2> QED
      BY <2>3 DEF ReceiverMoves, CommitsAtEnd
  <1> QED
    BY <1>2, <1>3, <1>4

(* A confirmed acknowledgement returns its bytes to the receiver's credit. *)
LEMMA ConfirmMoves ==
  ASSUME ReceiverAlone(rcv), unconfirmed \in Seq(Nat), ConfirmChunkAckWritten
  PROVE  ReceiverMoves
  <1> DEFINE next_offset == Head(unconfirmed)
             confirmed == [rcv EXCEPT !.available = @ + (next_offset - rcv.written),
                                      !.written = next_offset]
  <1>1. rcv \in ReceiverType /\ next_offset \in Nat /\ rcv.next >= rcv.next
    BY DEF ReceiverAlone, ReceiverType, ConfirmChunkAckWritten
  <1>2. CASE ReceiverFails(rcv, "none") \/ ReceiverFails(rcv, "failed")
    <2>1. RestsOrEnds /\ (rcv'.transaction = "committed" => rcv.transaction = "committed")
      BY <1>1, <1>2, KnownCodes, ReceiverFailsRests
    <2> QED
      BY <2>1 DEF ReceiverMoves, CommitsAtEnd
  <1>3. CASE /\ rcv.state \in {"ReceivingFile", "AwaitingCompletion"}
             /\ ReceiverWaits(confirmed)
    <2>1. rcv' = confirmed /\ to_sender' = to_sender
      BY <1>3 DEF ReceiverWaits
    <2>2. /\ rcv'.state = rcv.state /\ rcv'.window = rcv.window /\ rcv'.next = rcv.next
          /\ rcv'.credit = rcv.credit /\ rcv'.written = next_offset
          /\ rcv'.available = rcv.available + (next_offset - rcv.written)
          /\ rcv'.transaction = rcv.transaction
      BY <1>1, <2>1 DEF ReceiverType
    <2> QED
      BY <1>1, <1>3, <2>1, <2>2 DEF ReceiverMoves, ConfirmsWrite, CommitsAtEnd
  <1> QED
    BY <1>2, <1>3 DEF ConfirmChunkAckWritten

(* The receiver's Cancel and Shutdown.                                     *)
LEMMA StopCallsMove ==
  ASSUME ReceiverAlone(rcv), ReceiverCancel \/ ReceiverShutdown
  PROVE  ReceiverMoves
  <1>1. rcv \in ReceiverType /\ rcv.next >= rcv.next
    BY DEF ReceiverAlone, ReceiverType
  <1>2. ASSUME NEW end \in ReceiverType, end.window = rcv.window, end.next = rcv.next,
               end.transaction = rcv.transaction,
               NEW state \in Terminal, NEW code, ReceiverEnds(end, state, code), UNCHANGED to_sender
        PROVE  ReceiverMoves
    <2>1. RestsOrEnds /\ (rcv'.transaction = "committed" => rcv.transaction = "committed")
      BY <1>1, <1>2, EndsRest DEF GrantsNothing
    <2> QED
      BY <2>1 DEF ReceiverMoves, CommitsAtEnd
  <1>3. "Cancelled" \in Terminal /\ "Committed" \in Terminal
    BY DEF Terminal
  <1>4. CASE ReceiverCancel
    <2> DEFINE aborted == [rcv EXCEPT !.transaction = AbortTransaction(rcv)]
               end == Cancelling(aborted)
    <2>1. CASE \E ok \in EncodeFrame("receiver") : ReceiverEmitCancel(end, ok)
      <3>1. PICK ok \in BOOLEAN : ReceiverEmitCancel(end, ok)
        BY <2>1 DEF EncodeFrame
      <3>2. /\ aborted \in ReceiverType /\ Counts(aborted) = Counts(rcv)
            /\ aborted.credit = rcv.credit
            /\ aborted.transaction = "committed" => rcv.transaction = "committed"
        BY <1>1 DEF ReceiverType, Counts, AbortTransaction, Transactions
      <3> HIDE DEF aborted
      <3>3. /\ end \in ReceiverType /\ end.state = "Cancelling" /\ end.credit = aborted.credit
            /\ end.transaction = aborted.transaction /\ end.window = aborted.window
            /\ end.available = aborted.available /\ end.next = aborted.next
            /\ end.written = aborted.written
        BY ZenonT(60), <3>2, KnownCodes DEF Cancelling, ReceiverType, ReceiverStates
      <3> HIDE DEF end
      <3>4. Counts(end) = Counts(rcv) /\ end.state \notin Undecided
        BY <3>2, <3>3 DEF Counts, Undecided
      <3>5. RestsOrEnds /\ (rcv'.transaction = "committed" => rcv.transaction = "committed")
        BY <1>1, <3>1, <3>2, <3>3, <3>4, DueFramesRest
      <3> QED
        BY <3>5 DEF ReceiverMoves, CommitsAtEnd
    <2>2. \/ ReceiverEnds(rcv, "Committed", "none") /\ UNCHANGED to_sender
          \/ ReceiverEnds(rcv, "Cancelled", "cancelled") /\ UNCHANGED to_sender
          \/ \E ok \in EncodeFrame("receiver") : ReceiverEmitCancel(end, ok)
      BY <1>4 DEF ReceiverCancel
    <2> QED
      BY <1>1, <1>2, <1>3, <2>1, <2>2
  <1>5. CASE ReceiverShutdown
    <2> DEFINE closed == [rcv EXCEPT !.shutdown = TRUE]
    <2>1. /\ closed \in ReceiverType /\ closed.window = rcv.window /\ closed.next = rcv.next
          /\ closed.transaction = rcv.transaction
          /\ Counts(closed) = Counts(rcv) /\ closed.credit = rcv.credit
      BY Zenon, <1>1 DEF ReceiverType, Counts
    <2>2. CASE rcv.state \in Terminal
      <3>1. rcv' = Settled(closed, rcv.state, rcv.code) /\ to_sender' = to_sender
        BY <1>5, <2>2 DEF ReceiverShutdown
      <3> HIDE DEF closed
      <3>2. /\ rcv' \in ReceiverType /\ Counts(rcv') = Counts(rcv) /\ rcv'.credit = rcv.credit
            /\ rcv'.state = rcv.state /\ rcv'.transaction = rcv.transaction
        BY Zenon, <1>1, <2>1, <3>1 DEF Settled, ReceiverType, Counts
      <3> QED
        BY <1>1, <3>1, <3>2, KeepsRest DEF GrantsNothing, ReceiverMoves, CommitsAtEnd
    <2>3. CASE rcv.state \notin Terminal
      <3>1. /\ ReceiverEnds(closed, "Committed", "none") \/ ReceiverEnds(closed, "Cancelled", "cancelled")
            /\ UNCHANGED to_sender
        BY <1>5, <2>3 DEF ReceiverShutdown
      <3> HIDE DEF closed
      <3> QED
        BY <1>2, <1>3, <2>1, <3>1
    <2> QED
      BY <2>2, <2>3
  <1> QED
    BY <1>4, <1>5
(* Frames that end the transfer or cross its end.                          *)
LEMMA EndingFramesRest ==
  ASSUME rcv \in ReceiverType, rcv.next >= rcv.next, NEW m \in Frames,
         \/ ReceiverOnError(m) \/ ReceiverOnCancel(m) \/ ReceiverApplyCancelAck(m)
         \/ ReceiverWaits(rcv) \/ \E code \in {"none", "refused", "failed"} : ReceiverFails(rcv, code)
  PROVE  RestsOrEnds /\ (rcv'.transaction = "committed" => rcv.transaction = "committed")
  <1>1. CASE ReceiverOnError(m)
    <2>1. /\ rcv'.window = rcv.window /\ rcv'.next = rcv.next /\ rcv'.credit = FALSE
          /\ rcv'.state = FailureState(rcv) /\ rcv'.transaction = AbortTransaction(rcv)
          /\ to_sender' = to_sender
      BY <1>1 DEF ReceiverOnError, ReceiverType
    <2> QED
      BY <2>1 DEF RestsOrEnds, GrantsNothing, FailureState, Undecided, AbortTransaction
  <1>2. CASE ReceiverOnCancel(m)
    <2> DEFINE state == IF DurableCommit(rcv) THEN "Committed" ELSE "Cancelled"
               answer == CancelAnswer(rcv)
               code == OutcomeCode(answer)
               ended == [Settled(rcv, state, code)
                           EXCEPT !.transaction = AbortTransaction(rcv),
                                  !.credit = FALSE, !.stream = FALSE,
                                  !.cancel_sent = rcv.cancel_sent,
                                  !.ack_pending = TRUE, !.ack_code = answer]
    <2>1. PICK ok \in BOOLEAN :
            /\ rcv' = EmitCancelAck(ended, "receiver", ok)
            /\ to_sender' = Written(to_sender, Coded("CancelAck", answer), ok)
      BY <1>2 DEF ReceiverOnCancel, EncodeFrame
    <2>2. answer \in Codes /\ state \notin Undecided
      BY DEF CancelAnswer, Codes, Undecided
    <2>3. Coded("CancelAck", answer) \in Frames /\ Coded("CancelAck", answer).type = "CancelAck"
      BY <2>2, BuiltFrames DEF Coded
    <2> HIDE DEF state, answer, code
    <2>4. GrantsNothing
      BY <2>1, <2>3 DEF GrantsNothing, Written
    <2>5. /\ rcv'.window = rcv.window /\ rcv'.next = rcv.next /\ rcv'.credit = FALSE
          /\ rcv'.state = state /\ rcv'.transaction = AbortTransaction(rcv)
      BY <2>1 DEF EmitCancelAck, Settled, ReceiverType
    <2> QED
      BY <2>2, <2>4, <2>5 DEF RestsOrEnds, AbortTransaction
  <1>3. CASE ReceiverApplyCancelAck(m)
    <2>1. m.code \in Codes
      BY DEF Frames
    <2>2. CancelOutcome(m.code) \in Terminal /\ "Failed" \in Terminal
      BY <2>1 DEF CancelOutcome, Terminal
    <2>3. PICK state \in Terminal, code \in {"failed", OutcomeCode(m.code)} :
            ReceiverEnds(rcv, state, code) /\ to_sender' = to_sender
      BY <1>3, <2>2 DEF ReceiverApplyCancelAck
    <2> QED
      BY <2>3, EndsRest DEF GrantsNothing
  <1>4. CASE ReceiverWaits(rcv)
    BY <1>4, KeepsRest DEF ReceiverWaits, GrantsNothing
  <1>5. CASE \E code \in {"none", "refused", "failed"} : ReceiverFails(rcv, code)
    BY <1>5, KnownCodes, ReceiverFailsRests
  <1> QED
    BY <1>1, <1>2, <1>3, <1>4, <1>5

(* FILE_CHUNK is counted and acknowledged, or ends the transfer.           *)
LEMMA ChunkMoves ==
  ASSUME ReceiverAlone(rcv), NEW m \in Frames, ReceiverOnFileChunk(m)
  PROVE  (RestsOrEnds \/ StoresChunk) /\ rcv'.transaction # "committed"
  <1> DEFINE next == NextOffset(m)
             stored == [rcv EXCEPT !.available = @ - m.size, !.next = next]
             acked == [stored EXCEPT !.encoded = next]
  <1>1. /\ rcv \in ReceiverType /\ rcv.next >= rcv.next /\ rcv.state = "ReceivingFile"
        /\ rcv.transaction # "committed" /\ m.size \in Nat
    BY DEF ReceiverAlone, ReceiverType, ReceiverOnFileChunk, Frames
  <1>2. next = rcv.next + m.size /\ next \in Nat /\ next >= rcv.next
    BY <1>1 DEF NextOffset, ReceiverType
  <1>3. CASE \E code \in {"refused", "failed"} : ReceiverFails(rcv, code)
    BY <1>1, <1>3, KnownCodes, ReceiverFailsRests
  <1>4. CASE ~(m.size > rcv.available) /\ ReceiverFails(stored, "refused")
    <2>1. rcv.available - m.size \in Nat
      BY <1>1, <1>4 DEF ReceiverType
    <2> HIDE DEF next
    <2>2. /\ stored \in ReceiverType /\ stored.window = rcv.window /\ stored.next = next
          /\ stored.transaction = rcv.transaction
      BY Zenon, <1>1, <1>2, <2>1 DEF ReceiverType
    <2> HIDE DEF stored
    <2> QED
      BY <1>1, <1>2, <1>4, <2>2, KnownCodes, ReceiverFailsRests
  <1>5. CASE ReceiverSends(acked, Frame("ChunkAck", next, WindowIncrement(m)))
    <2>1. rcv' = acked /\ to_sender' = Append(to_sender, Frame("ChunkAck", next, m.size))
      BY <1>5 DEF ReceiverSends, WindowIncrement
    <2> HIDE DEF next
    <2>2. /\ rcv'.state = rcv.state /\ rcv'.window = rcv.window /\ rcv'.written = rcv.written
          /\ rcv'.credit = rcv.credit /\ rcv'.available = rcv.available - m.size
          /\ rcv'.next = next /\ rcv'.transaction = rcv.transaction
      BY <1>1, <2>1 DEF ReceiverType
    <2> QED
      BY <1>1, <1>2, <2>1, <2>2 DEF StoresChunk
  <1> HIDE DEF stored, acked, next
  <1> QED
    BY <1>3, <1>4, <1>5 DEF ReceiverOnFileChunk, stored, acked, next

(* The frames between which the file is received.                          *)
LEMMA PhaseFramesRest ==
  ASSUME ReceiverAlone(rcv), NEW m \in Frames,
         \/ ReceiverOnManifest(m) \/ ReceiverOnFileBegin(m) \/ ReceiverOnFileEnd(m)
         \/ ReceiverOnComplete(m)
  PROVE  /\ RestsOrEnds
         /\ rcv'.transaction = "committed" =>
              rcv.transaction = "committed" \/ m.type = "FileEnd"
  <1>1. rcv \in ReceiverType /\ rcv.next >= rcv.next
    BY DEF ReceiverAlone, ReceiverType
  <1>2. ASSUME NEW end \in ReceiverType, Counts(end) = Counts(rcv), end.credit = rcv.credit,
               end.state \in Undecided => rcv.state \in Undecided,
               end.transaction = rcv.transaction, ReceiverWaits(end)
        PROVE  RestsOrEnds /\ rcv'.transaction = rcv.transaction
    BY <1>1, <1>2, KeepsRest DEF ReceiverWaits, GrantsNothing
  <1>3. CASE \E code \in {"refused", "failed"} : ReceiverFails(rcv, code)
    BY <1>1, <1>3, KnownCodes, ReceiverFailsRests
  <1>4. CASE ReceiverOnManifest(m)
    <2>1. CASE ReceiverWaits([rcv EXCEPT !.entry = TRUE])
      <3> DEFINE end == [rcv EXCEPT !.entry = TRUE]
      <3>1. /\ end \in ReceiverType /\ Counts(end) = Counts(rcv) /\ end.credit = rcv.credit
            /\ end.state = rcv.state /\ end.transaction = rcv.transaction
        BY Zenon, <1>1 DEF ReceiverType, Counts
      <3>2. ReceiverWaits(end)
        BY <2>1
      <3> HIDE DEF end
      <3> QED
        BY <1>2, <3>1, <3>2
    <2>2. CASE ReceiverWaits([rcv EXCEPT !.state = "AwaitingDecision"])
      <3> DEFINE end == [rcv EXCEPT !.state = "AwaitingDecision"]
      <3>1. /\ end \in ReceiverType /\ Counts(end) = Counts(rcv) /\ end.credit = rcv.credit
            /\ end.transaction = rcv.transaction
        BY <1>1 DEF ReceiverType, Counts, ReceiverStates
      <3>2. ReceiverWaits(end) /\ rcv.state \in Undecided
        BY <1>4, <2>2 DEF ReceiverOnManifest, Undecided
      <3> HIDE DEF end
      <3> QED
        BY <1>2, <3>1, <3>2
    <2> QED
      BY <1>3, <1>4, <2>1, <2>2 DEF ReceiverOnManifest
  <1>5. CASE ReceiverOnFileBegin(m)
    <2> DEFINE end == [rcv EXCEPT !.begun = TRUE]
    <2>1. /\ end \in ReceiverType /\ Counts(end) = Counts(rcv) /\ end.credit = rcv.credit
          /\ end.state = rcv.state /\ end.transaction = rcv.transaction
      BY Zenon, <1>1 DEF ReceiverType, Counts
    <2>2. ReceiverWaits(end)
      BY <1>5 DEF ReceiverOnFileBegin
    <2> HIDE DEF end
    <2> QED
      BY <1>2, <2>1, <2>2
  <1>6. CASE ReceiverOnFileEnd(m)
    <2>1. m.type = "FileEnd"
      BY <1>6 DEF ReceiverOnFileEnd
    <2>2. ASSUME NEW result \in {"aborted", "uncertain"}, NEW code \in {"refused", "failed"},
                 ReceiverFails([rcv EXCEPT !.transaction = result], code)
          PROVE  RestsOrEnds
      <3> DEFINE over == [rcv EXCEPT !.transaction = result]
      <3>1. over \in ReceiverType /\ over.window = rcv.window /\ over.next = rcv.next
        BY <1>1 DEF ReceiverType, Transactions
      <3> HIDE DEF over
      <3> QED
        BY Zenon, <1>1, <2>2, <3>1, KnownCodes, ReceiverFailsRests DEF over
    <2>3. ASSUME NEW ok \in EncodeFrame("receiver"),
                 ReceiverEmitFileCommit([rcv EXCEPT !.transaction = "committed",
                                                    !.state = "AwaitingCompletion"], ok)
          PROVE  RestsOrEnds
      <3> DEFINE end == [rcv EXCEPT !.transaction = "committed", !.state = "AwaitingCompletion"]
      <3>1. /\ end \in ReceiverType /\ Counts(end) = Counts(rcv) /\ end.credit = rcv.credit
            /\ end.state \notin Undecided
        BY Zenon, <1>1 DEF ReceiverType, Counts, Transactions, ReceiverStates, Undecided
      <3>2. ok \in BOOLEAN /\ ReceiverEmitFileCommit(end, ok)
        BY <2>3 DEF EncodeFrame
      <3> HIDE DEF end
      <3> QED
        BY <1>1, <3>1, <3>2, DueFramesRest
    <2> QED
      BY <1>3, <1>6, <2>1, <2>2, <2>3 DEF ReceiverOnFileEnd
  <1>7. CASE ReceiverOnComplete(m)
    <2> DEFINE end == [rcv EXCEPT !.complete_pending = TRUE]
    <2>1. CASE \E ok \in EncodeFrame("receiver") : ReceiverEmitCompleteAck(end, ok)
      <3>1. PICK ok \in BOOLEAN : ReceiverEmitCompleteAck(end, ok)
        BY <2>1 DEF EncodeFrame
      <3>2. /\ end \in ReceiverType /\ Counts(end) = Counts(rcv) /\ end.credit = rcv.credit
            /\ end.state = rcv.state /\ end.transaction = rcv.transaction
        BY Zenon, <1>1 DEF ReceiverType, Counts
      <3> HIDE DEF end
      <3> QED
        BY <1>1, <3>1, <3>2, DueFramesRest
    <2> QED
      BY Zenon, <1>3, <1>7, <2>1 DEF ReceiverOnComplete
  <1> QED
    BY <1>4, <1>5, <1>6, <1>7

(* The frames the receiver receives.                                       *)
LEMMA ReceiverFramesMove ==
  ASSUME ReceiverAlone(rcv), to_receiver \in Seq(Frames), ReceiverReceives
  PROVE  ReceiverMoves
  <1> DEFINE m == Head(to_receiver)
  <1>1. /\ rcv \in ReceiverType /\ rcv.next >= rcv.next /\ m \in Frames /\ to_receiver # <<>>
    BY DEF ReceiverAlone, ReceiverType, ReceiverReceives, ReceiverReceivesFirstFrame,
           ReceiverReceivesFrame, ReceiverReceivesLateFrame
  <1>2. ASSUME RestsOrEnds, rcv'.transaction = "committed" =>
                              rcv.transaction = "committed" \/ m.type = "FileEnd"
        PROVE  ReceiverMoves
    BY <1>1, <1>2 DEF ReceiverMoves, CommitsAtEnd
  <1>3. ASSUME \/ ReceiverOnError(m) \/ ReceiverOnCancel(m) \/ ReceiverApplyCancelAck(m)
               \/ ReceiverWaits(rcv)
               \/ \E code \in {"none", "refused", "failed"} : ReceiverFails(rcv, code)
        PROVE  ReceiverMoves
    <2> HIDE DEF m
    <2> QED
      BY <1>1, <1>2, <1>3, EndingFramesRest
  <1>4. CASE ReceiverReceivesFirstFrame
    <2> DEFINE offered == [rcv EXCEPT !.stream = TRUE, !.offered = TRUE,
                                      !.state = "ReceivingManifest"]
    <2>1. CASE ReceiverWaits([[rcv EXCEPT !.stream = TRUE] EXCEPT !.offered = TRUE,
                                                                  !.state = "ReceivingManifest"])
      <3>1. /\ rcv' \in ReceiverType /\ Counts(rcv') = Counts(rcv) /\ rcv'.credit = rcv.credit
            /\ rcv'.transaction = rcv.transaction /\ to_sender' = to_sender
        BY Zenon, <1>1, <2>1 DEF ReceiverWaits, ReceiverType, Counts, ReceiverStates
      <3>2. rcv.state \in Undecided
        BY <1>4 DEF ReceiverReceivesFirstFrame, Undecided
      <3> QED
        BY <1>1, <1>2, <3>1, <3>2, KeepsRest DEF GrantsNothing
    <2> QED
      BY <1>3, <1>4, <2>1 DEF ReceiverReceivesFirstFrame
  <1>5. CASE ReceiverReceivesFrame
    <2>1. \/ \E code \in {"none", "refused", "failed"} : ReceiverFails(rcv, code)
          \/ ReceiverHandles(m)
      BY <1>5 DEF ReceiverReceivesFrame
    <2>2. CASE ReceiverOnFileChunk(m)
      <3> HIDE DEF m
      <3> QED
        BY <1>1, <2>2, ChunkMoves DEF ReceiverMoves, CommitsAtEnd
    <2>3. CASE \/ ReceiverOnManifest(m) \/ ReceiverOnFileBegin(m) \/ ReceiverOnFileEnd(m)
               \/ ReceiverOnComplete(m)
      <3> HIDE DEF m
      <3> QED
        BY <1>1, <1>2, <2>3, PhaseFramesRest
    <2>4. CASE ReceiverOnCancelAck(m) \/ ReceiverOnFrameWhileCancelling(m)
      BY <1>3, <2>4 DEF ReceiverOnCancelAck, ReceiverOnFrameWhileCancelling
    <2> HIDE DEF m
    <2> QED
      BY <1>3, <2>1, <2>2, <2>3, <2>4 DEF ReceiverHandles
  <1>6. CASE ReceiverReceivesLateFrame
    <2> DEFINE code == CachedTerminalCode(rcv)
               asked == [rcv EXCEPT !.ack_pending = TRUE, !.ack_code = code]
    <2>1. CASE \E ok \in EncodeFrame("receiver") :
                 /\ rcv' = EmitCancelAck(asked, "receiver", ok)
                 /\ to_sender' = Written(to_sender, Coded("CancelAck", code), ok)
      <3>1. PICK ok \in BOOLEAN :
                 /\ rcv' = EmitCancelAck(asked, "receiver", ok)
                 /\ to_sender' = Written(to_sender, Coded("CancelAck", code), ok)
        BY <2>1 DEF EncodeFrame
      <3>2. code \in Codes
        BY <1>1 DEF CachedTerminalCode, ReceiverType, Codes, FailureCodes
      <3>3. Coded("CancelAck", code) \in Frames /\ Coded("CancelAck", code).type = "CancelAck"
        BY <3>2, BuiltFrames DEF Coded
      <3> HIDE DEF code
      <3>4. GrantsNothing
        BY <3>1, <3>3 DEF GrantsNothing, Written
      <3>5. /\ rcv' \in ReceiverType /\ Counts(rcv') = Counts(rcv) /\ rcv'.credit = rcv.credit
            /\ rcv'.state = rcv.state /\ rcv'.transaction = rcv.transaction
        BY Zenon, <1>1, <3>1, <3>2 DEF EmitCancelAck, ReceiverType, Counts
      <3> QED
        BY <1>1, <1>2, <3>4, <3>5, KeepsRest
    <2> HIDE DEF code, asked, m
    <2> QED
      BY <1>3, <1>6, <2>1 DEF ReceiverReceivesLateFrame, code, asked, m
  <1> QED
    BY <1>4, <1>5, <1>6 DEF ReceiverReceives

(* Every action of the receiver is one of these moves.                     *)
LEMMA ReceiverActsMove ==
  ASSUME Inv, ReceiverActs
  PROVE  ReceiverMoves
  BY DecisionMoves, PumpMoves, ConfirmMoves, StopCallsMove, ReceiverFramesMove
     DEF Inv, ReceiverActs, ReceiverNextOutbound
-----------------------------------------------------------------------------
(* What each end has counted.                                              *)
Counted ==
  /\ snd.state \in Offering => snd.begun = FALSE /\ snd.sent = 0 /\ snd.acked = 0
  /\ snd.state \in Sending => snd.unacked = snd.sent - snd.acked
  /\ rcv.state \in Undecided => rcv.next = 0 /\ rcv.written = 0
  /\ rcv.credit = TRUE => rcv.available + (rcv.next - rcv.written) = rcv.window

(* What the frames on their way to the sender grant: the window once, then *)
(* each acknowledgement no more than it acknowledges, in order.            *)
Granted(f) ==
  /\ f.type = "Accept" => f.size = rcv.window /\ rcv.state \notin Undecided
  /\ f.type = "ChunkAck" => f.offset >= snd.acked + f.size /\ f.offset <= rcv.next

Flow ==
  /\ snd.acked <= rcv.next
  /\ snd.state \in Sending => rcv.state \notin Undecided /\ snd.reserved <= rcv.window
  /\ \A i \in 1..Len(to_sender) : Granted(to_sender[i])
  /\ \A i, j \in 1..Len(to_sender) :
       i < j /\ to_sender[i].type = "ChunkAck" /\ to_sender[j].type = "ChunkAck" =>
         to_sender[j].offset >= to_sender[i].offset + to_sender[j].size

(* A file is committed only after FILE_BEGIN, and a sender that stopped    *)
(* knows that it never will be, or why it cannot know.                     *)
Ending ==
  /\ snd.state # "Committed"
  /\ \A i \in 1..Len(to_receiver) : to_receiver[i].type = "FileEnd" => snd.begun = TRUE
  /\ rcv.transaction = "committed" => snd.begun = TRUE
  /\ snd.state \in {"Cancelled", "Rejected"} =>
       NeverDurable(rcv) \/ Excused(snd, authorized["sender"])

Accounts == Inv /\ Counted /\ Flow /\ Ending

(* The accounts are in order initially.                                    *)
LEMMA InitAccounts ==
  ASSUME Init
  PROVE  Accounts
  <1>1. /\ snd.state = "Created" /\ snd.begun = FALSE /\ snd.sent = 0 /\ snd.acked = 0
        /\ rcv.state = "Created" /\ rcv.next = 0 /\ rcv.written = 0 /\ rcv.credit = FALSE
        /\ rcv.transaction = "none" /\ to_receiver = <<>> /\ to_sender = <<>>
    BY Zenon DEF Init
  <1>2. Counted
    BY <1>1 DEF Counted, Sending
  <1>3. Flow
    BY <1>1 DEF Flow, Sending
  <1>4. Ending
    BY <1>1 DEF Ending
  <1> QED
    BY <1>2, <1>3, <1>4, InitInv DEF Accounts

(* Taking the first frame off the way keeps what holds of the others.      *)
LEMMA TailFrames ==
  ASSUME NEW q \in Seq(Frames), q # <<>>
  PROVE  /\ Tail(q) \in Seq(Frames) /\ Len(Tail(q)) = Len(q) - 1 /\ Len(q) \in Nat /\ Len(q) >= 1
         /\ Head(q) = q[1] /\ Head(q) \in Frames
         /\ \A i \in 1..Len(Tail(q)) : i + 1 \in 1..Len(q) /\ Tail(q)[i] = q[i + 1]
  OBVIOUS

(* Appending a frame keeps what holds of the others.                       *)
LEMMA AppendFrames ==
  ASSUME NEW q \in Seq(Frames), NEW f \in Frames
  PROVE  /\ Append(q, f) \in Seq(Frames) /\ Len(Append(q, f)) = Len(q) + 1 /\ Len(q) \in Nat
         /\ Append(q, f)[Len(q) + 1] = f
         /\ \A i \in 1..Len(q) : Append(q, f)[i] = q[i]
         /\ \A i \in 1..Len(Append(q, f)) : i \in 1..Len(q) \/ i = Len(q) + 1
  OBVIOUS

(* The two ends' numbers, and the first frame, as the moves use them.      *)
LEMMA Numbers ==
  ASSUME Inv
  PROVE  /\ snd \in SenderType /\ rcv \in ReceiverType
         /\ snd.sent \in Nat /\ snd.acked \in Nat /\ snd.unacked \in Nat
         /\ snd.available \in Nat /\ snd.reserved \in Nat
         /\ rcv.window \in Nat /\ rcv.available \in Nat /\ rcv.next \in Nat
         /\ rcv.written \in Nat
  BY DEF Inv, SenderAlone, ReceiverAlone, SenderType, ReceiverType

(* The sender's moves keep the counts.                                     *)
LEMMA SenderCounts ==
  ASSUME Accounts, SenderMoves, snd' \in SenderType, file_size \in Nat, UNCHANGED rcv
  PROVE  Counted'
  <1>1. /\ snd \in SenderType /\ rcv \in ReceiverType
        /\ snd.sent \in Nat /\ snd.acked \in Nat /\ snd.unacked \in Nat
    BY Numbers DEF Accounts
  <1>2. /\ rcv'.state \in Undecided => rcv'.next = 0 /\ rcv'.written = 0
        /\ rcv'.credit = TRUE => rcv'.available + (rcv'.next - rcv'.written) = rcv'.window
    BY Zenon DEF Accounts, Counted
  <1>3. /\ snd.state \in Offering => snd.begun = FALSE /\ snd.sent = 0 /\ snd.acked = 0
        /\ snd.state \in Sending => snd.unacked = snd.sent - snd.acked
        /\ snd.state \in Offering => snd.unacked = 0
    BY DEF Accounts, Counted, Inv, SenderAlone
  <1>4. /\ snd'.state \in Offering => snd'.begun = FALSE /\ snd'.sent = 0 /\ snd'.acked = 0
        /\ snd'.state \in Sending => snd'.unacked = snd'.sent - snd'.acked
    <2>1. CASE Stops
      BY <2>1 DEF Stops, Offering, Sending, Terminal
    <2>2. CASE Continues
      BY <1>3, <2>2 DEF Continues, Kept, Offering, Sending, Terminal
    <2>3. CASE Begins
      BY <1>1, <1>3, <2>3 DEF Begins, SenderType, Offering, Sending
    <2>4. CASE SendsChunk
      <3>1. Wanted \in Int
        BY <1>1, SizeAssumption DEF Wanted
      <3>2. /\ snd'.state = "SendingFile" /\ snd'.sent = snd.sent + Wanted
            /\ snd'.unacked = snd.unacked + Wanted /\ snd'.acked = snd.acked
        BY <1>1, <2>4 DEF SendsChunk, SenderType
      <3> QED
        BY <1>1, <1>3, <2>4, <3>1, <3>2 DEF SendsChunk, Offering, Sending
    <2>5. CASE Accepts(Head(to_sender))
      BY <1>1, <1>3, <2>5 DEF Accepts, SenderType, Offering, Sending
    <2>6. CASE to_sender # <<>> /\ TakesAck(Head(to_sender))
      <3> DEFINE m == Head(to_sender)
      <3>1. m.offset \in Nat
        BY <2>6 DEF Accounts, Inv, Frames
      <3>2. /\ snd'.state = "SendingFile" /\ snd'.sent = snd.sent /\ snd'.acked = m.offset
            /\ snd'.unacked = snd.unacked - (m.offset - snd.acked)
        BY <1>1, <2>6 DEF TakesAck, SenderType
      <3> HIDE DEF m
      <3> QED
        BY <1>1, <1>3, <2>6, <3>1, <3>2 DEF TakesAck, Offering, Sending
    <2> QED
      BY Zenon, <2>1, <2>2, <2>3, <2>4, <2>5, <2>6 DEF SenderMoves
  <1> QED
    BY <1>2, <1>4 DEF Counted
(* The sender's moves keep the flow: an acknowledgement it takes frees at  *)
(* least the credit it grants.                                             *)
LEMMA SenderFlow ==
  ASSUME Accounts, SenderMoves, snd' \in SenderType, UNCHANGED rcv,
         to_sender' = to_sender \/ (to_sender # <<>> /\ to_sender' = Tail(to_sender))
  PROVE  Flow'
  <1>1. /\ snd \in SenderType /\ rcv \in ReceiverType /\ to_sender \in Seq(Frames)
        /\ snd.acked \in Nat /\ snd.unacked \in Nat /\ snd.available \in Nat
        /\ snd.reserved \in Nat /\ rcv.window \in Nat /\ rcv.next \in Nat
    BY Zenon, Numbers DEF Accounts, Inv
  <1>2. /\ snd.acked <= rcv.next
        /\ snd.state \in Sending => rcv.state \notin Undecided /\ snd.reserved <= rcv.window
        /\ \A i \in 1..Len(to_sender) : Granted(to_sender[i])
        /\ \A i, j \in 1..Len(to_sender) :
             i < j /\ to_sender[i].type = "ChunkAck" /\ to_sender[j].type = "ChunkAck" =>
               to_sender[j].offset >= to_sender[i].offset + to_sender[j].size
    BY DEF Accounts, Flow
  <1>3. snd.state \in Sending => snd.reserved = snd.available + snd.unacked
    BY DEF Accounts, Inv, SenderAlone
  <1>4. \A i, j \in 1..Len(to_sender') :
          i < j /\ to_sender'[i].type = "ChunkAck" /\ to_sender'[j].type = "ChunkAck" =>
            to_sender'[j].offset >= to_sender'[i].offset + to_sender'[j].size
    <2>1. CASE to_sender' = to_sender
      BY <1>2, <2>1
    <2>2. CASE to_sender # <<>> /\ to_sender' = Tail(to_sender)
      <3> SUFFICES ASSUME NEW i \in 1..Len(to_sender'), NEW j \in 1..Len(to_sender'), i < j,
                          to_sender'[i].type = "ChunkAck", to_sender'[j].type = "ChunkAck"
                   PROVE  to_sender'[j].offset >= to_sender'[i].offset + to_sender'[j].size
        OBVIOUS
      <3>1. /\ i + 1 \in 1..Len(to_sender) /\ to_sender'[i] = to_sender[i + 1]
            /\ j + 1 \in 1..Len(to_sender) /\ to_sender'[j] = to_sender[j + 1]
            /\ i + 1 < j + 1
        BY <1>1, <2>2, TailFrames
      <3> QED
        BY <1>2, <3>1
    <2> QED
      BY <2>1, <2>2
  <1>5. ASSUME snd'.acked = snd.acked
        PROVE  \A i \in 1..Len(to_sender') : Granted(to_sender[i])'
    <2>1. \A f : (f.type = "Accept" => f.size = rcv'.window /\ rcv'.state \notin Undecided)
                 /\ (f.type = "ChunkAck" =>
                       f.offset >= snd'.acked + f.size /\ f.offset <= rcv'.next)
                 <=> Granted(f)
      BY Zenon, <1>5 DEF Granted
    <2>2. CASE to_sender' = to_sender
      BY <1>2, <2>1, <2>2 DEF Granted
    <2>3. CASE to_sender # <<>> /\ to_sender' = Tail(to_sender)
      <3> SUFFICES ASSUME NEW i \in 1..Len(to_sender')
                   PROVE  Granted(to_sender[i])'
        OBVIOUS
      <3>1. i + 1 \in 1..Len(to_sender) /\ to_sender'[i] = to_sender[i + 1]
        BY Zenon, <1>1, <2>3, TailFrames
      <3>2. Granted(to_sender[i + 1])
        BY <1>2, <3>1
      <3> QED
        BY <1>5, <3>1, <3>2 DEF Granted
    <2> QED
      BY <2>2, <2>3
  <1>6. CASE Stops \/ Continues \/ Begins \/ SendsChunk
    <2>1. snd'.acked = snd.acked
      BY Zenon, <1>1, <1>6 DEF Stops, Continues, Begins, SendsChunk, Kept, SenderType
    <2>2. snd'.state \in Sending => snd.state \in Sending /\ snd'.reserved = snd.reserved
      BY Zenon, <1>1, <1>6 DEF Stops, Continues, Begins, SendsChunk, SenderType, Terminal, Sending
    <2> QED
      BY Zenon, <1>2, <1>4, <1>5, <2>1, <2>2 DEF Flow
  <1>7. CASE to_sender # <<>> /\ to_sender' = Tail(to_sender) /\ Accepts(Head(to_sender))
    <2> DEFINE m == Head(to_sender)
    <2>1. m = to_sender[1] /\ 1 \in 1..Len(to_sender)
      BY <1>1, <1>7, TailFrames
    <2>2. Granted(m) /\ m.type = "Accept"
      BY <1>2, <1>7, <2>1 DEF Accepts
    <2>3. snd'.acked = snd.acked /\ snd'.reserved = m.size
      BY <1>1, <1>7 DEF Accepts, SenderType
    <2>4. m.size = rcv.window /\ rcv.state \notin Undecided
      BY Zenon, <2>2 DEF Granted
    <2> HIDE DEF m
    <2> QED
      BY <1>1, <1>2, <1>4, <1>5, <2>3, <2>4 DEF Flow
  <1>8. CASE to_sender # <<>> /\ to_sender' = Tail(to_sender) /\ TakesAck(Head(to_sender))
    <2> DEFINE m == Head(to_sender)
    <2>1. m = to_sender[1] /\ 1 \in 1..Len(to_sender) /\ m.offset \in Nat /\ m.size \in Nat
      BY <1>1, <1>8, TailFrames DEF Frames
    <2>2. Granted(m) /\ m.type = "ChunkAck" /\ snd.state \in Sending
      BY <1>2, <1>8, <2>1 DEF TakesAck, Sending
    <2>3. /\ snd'.acked = m.offset
          /\ snd'.reserved = snd.available + m.size + (snd.unacked - (m.offset - snd.acked))
      BY <1>1, <1>8 DEF TakesAck, SenderType, Reservation
    <2>4. m.offset >= snd.acked + m.size /\ m.offset <= rcv.next
      BY <2>2 DEF Granted
    <2>5. snd'.reserved <= rcv.window
      <3> DEFINE available == snd.available
                 unacked == snd.unacked
                 acked == snd.acked
                 window == rcv.window
                 offset == m.offset
                 size == m.size
      <3>1. /\ available \in Nat /\ unacked \in Nat /\ acked \in Nat /\ window \in Nat
            /\ offset \in Nat /\ size \in Nat
            /\ available + unacked <= window /\ offset >= acked + size
        BY <1>1, <1>2, <1>3, <2>1, <2>2, <2>4
      <3>2. snd'.reserved = available + size + (unacked - (offset - acked))
        BY <2>3
      <3> HIDE DEF m, available, unacked, acked, window, offset, size
      <3>3. available + size + (unacked - (offset - acked)) <= window
        BY <3>1
      <3> QED
        BY Zenon, <3>2, <3>3 DEF window
    <2>6. ASSUME NEW i \in 1..Len(to_sender')
          PROVE  Granted(to_sender[i])'
      <3>1. /\ i + 1 \in 1..Len(to_sender) /\ to_sender'[i] = to_sender[i + 1]
            /\ 1 < i + 1
        BY <1>1, <1>8, TailFrames
      <3>2. Granted(to_sender[i + 1])
        BY <1>2, <3>1
      <3>3. to_sender[i + 1].type = "ChunkAck" =>
              to_sender[i + 1].offset >= m.offset + to_sender[i + 1].size
        BY Zenon, <1>2, <2>1, <2>2, <3>1
      <3> HIDE DEF m
      <3> QED
        BY <2>3, <3>1, <3>2, <3>3 DEF Granted
    <2> HIDE DEF m
    <2> QED
      BY <1>2, <1>4, <2>2, <2>3, <2>4, <2>5, <2>6 DEF Flow
  <1> QED
    BY Zenon, <1>6, <1>7, <1>8 DEF SenderMoves

(* The sender's moves keep what its end says of the file.                  *)
LEMMA SenderEnding ==
  ASSUME Accounts, SenderMoves, UNCHANGED <<rcv, authorized>>
  PROVE  Ending'
  <1>1. snd \in SenderType /\ to_receiver \in Seq(Frames)
    BY Zenon, Numbers DEF Accounts, Inv
  <1>2. /\ snd.state # "Committed"
        /\ \A i \in 1..Len(to_receiver) : to_receiver[i].type = "FileEnd" => snd.begun = TRUE
        /\ rcv.transaction = "committed" => snd.begun = TRUE
        /\ snd.state \in {"Cancelled", "Rejected"} =>
             NeverDurable(rcv) \/ Excused(snd, authorized["sender"])
    BY DEF Accounts, Ending
  <1>3. Asks /\ (snd.begun = TRUE => snd'.begun = TRUE)
    BY Zenon, <1>1 DEF SenderMoves, Stops, Continues, Begins, SendsChunk, Accepts, TakesAck, Kept,
                SenderType
  <1>4. \A i \in 1..Len(to_receiver') : to_receiver'[i].type = "FileEnd" => snd'.begun = TRUE
    <2>1. CASE to_receiver' = to_receiver
      BY <1>2, <1>3, <2>1
    <2>2. CASE to_receiver' # to_receiver
      <3>1. PICK f \in Frames : /\ to_receiver' = Append(to_receiver, f)
                                /\ f.type = "FileEnd" => snd.begun = TRUE
        BY <1>3, <2>2 DEF Asks
      <3> QED
        BY <1>1, <1>2, <1>3, <3>1, AppendFrames
    <2> QED
      BY Zenon, <2>1, <2>2
  <1>5. /\ snd'.state # "Committed"
        /\ snd'.state \in {"Cancelled", "Rejected"} =>
             NeverDurable(rcv) \/ Excused(snd', authorized["sender"])
    <2>1. CASE Stops
      BY <2>1 DEF Stops
    <2>2. CASE Continues
      <3>1. CASE snd.state \in Terminal
        BY Zenon, <1>2, <2>2, <3>1 DEF Continues, Kept, Excused
      <3>2. CASE snd.state \notin Terminal
        BY <2>2, <3>2 DEF Continues, Terminal
      <3> QED
        BY Zenon, <3>1, <3>2
    <2>3. CASE ~Stops /\ ~Continues
      <3>1. snd'.state = "SendingFile"
        BY Zenon, <1>1, <2>3 DEF SenderMoves, Begins, SendsChunk, Accepts, TakesAck, SenderType
      <3> QED
        BY <3>1
    <2> QED
      BY <2>1, <2>2, <2>3
  <1> QED
    BY Zenon, <1>2, <1>3, <1>4, <1>5 DEF Ending
(* The receiver's moves keep the counts.                                   *)
LEMMA ReceiverCounts ==
  ASSUME Accounts, ReceiverMoves, rcv' \in ReceiverType, UNCHANGED snd
  PROVE  Counted'
  <1>1. /\ rcv.window \in Nat /\ rcv.available \in Nat /\ rcv.next \in Nat
        /\ rcv.written \in Nat
    BY Numbers DEF Accounts
  <1>2. /\ rcv.state \in Undecided => rcv.next = 0 /\ rcv.written = 0
        /\ rcv.credit = TRUE => rcv.available + (rcv.next - rcv.written) = rcv.window
        /\ snd.state \in Offering => snd.begun = FALSE /\ snd.sent = 0 /\ snd.acked = 0
        /\ snd.state \in Sending => snd.unacked = snd.sent - snd.acked
    BY DEF Accounts, Counted
  <1>3. /\ rcv'.state \in Undecided => rcv'.next = 0 /\ rcv'.written = 0
        /\ rcv'.credit = TRUE => rcv'.available + (rcv'.next - rcv'.written) = rcv'.window
    <2>1. CASE RestsOrEnds
      BY <1>2, <2>1 DEF RestsOrEnds, Counts
    <2>2. CASE StoresChunk
      <3>1. PICK size \in Nat : rcv'.available = rcv.available - size /\ rcv'.next = rcv.next + size
        BY Zenon, <2>2 DEF StoresChunk
      <3> QED
        BY <1>1, <1>2, <2>2, <3>1 DEF StoresChunk, Undecided
    <2>3. CASE ConfirmsWrite
      BY <1>1, <1>2, <2>3 DEF ConfirmsWrite, Undecided
    <2>4. CASE \E window \in Windows : Grants(window)
      <3>1. PICK window \in Windows : Grants(window)
        BY <2>4
      <3>2. window \in Nat /\ rcv.state \in Undecided
        BY <3>1, WindowAssumption DEF Grants, Undecided
      <3> QED
        BY <1>1, <1>2, <3>1, <3>2 DEF Grants, Undecided
    <2> QED
      BY Zenon, <2>1, <2>2, <2>3, <2>4 DEF ReceiverMoves
  <1> QED
    BY <1>2, <1>3 DEF Counted

(* The receiver's moves keep the flow: each acknowledgement starts where   *)
(* the one before it ended.                                                *)
LEMMA ReceiverFlow ==
  ASSUME Accounts, ReceiverMoves, UNCHANGED snd, rcv' \in ReceiverType
  PROVE  Flow'
  <1>0. rcv'.next \in Nat
    BY Zenon DEF ReceiverType
  <1>1. /\ rcv.window \in Nat /\ rcv.next \in Nat /\ snd.acked \in Nat
        /\ to_sender \in Seq(Frames) /\ snd.reserved \in Nat
    BY Zenon, Numbers DEF Accounts, Inv
  <1>2. /\ snd.acked <= rcv.next
        /\ snd.state \in Sending => rcv.state \notin Undecided /\ snd.reserved <= rcv.window
        /\ \A i \in 1..Len(to_sender) : Granted(to_sender[i])
        /\ \A i, j \in 1..Len(to_sender) :
             i < j /\ to_sender[i].type = "ChunkAck" /\ to_sender[j].type = "ChunkAck" =>
               to_sender[j].offset >= to_sender[i].offset + to_sender[j].size
    BY Zenon DEF Accounts, Flow
  <1>a. snd.acked <= rcv.next /\ snd.acked \in Nat /\ rcv.next \in Nat
    BY Zenon, <1>1, <1>2
  <1>b. \A i, j \in 1..Len(to_sender) :
          i < j /\ to_sender[i].type = "ChunkAck" /\ to_sender[j].type = "ChunkAck" =>
            to_sender[j].offset >= to_sender[i].offset + to_sender[j].size
    BY Zenon, <1>2
  <1>3. ASSUME NEW f \in Frames, to_sender' = Append(to_sender, f),
               rcv'.next \in Nat, rcv'.next >= rcv.next,
               \/ rcv.state \notin Undecided /\ rcv'.state \notin Undecided
                    /\ rcv'.window = rcv.window
               \/ rcv.state \in Undecided /\ rcv'.state \notin Undecided
               \/ rcv.state \in Undecided /\ rcv'.window = rcv.window,
               f.type = "Accept" => f.size = rcv'.window /\ rcv'.state \notin Undecided,
               f.type = "ChunkAck" => f.offset = rcv.next + f.size /\ f.offset <= rcv'.next
        PROVE  Flow'
    <2>1. /\ Len(to_sender') = Len(to_sender) + 1 /\ Len(to_sender) \in Nat
          /\ to_sender'[Len(to_sender) + 1] = f
          /\ \A i \in 1..Len(to_sender) : to_sender'[i] = to_sender[i]
          /\ \A i \in 1..Len(to_sender') : i \in 1..Len(to_sender) \/ i = Len(to_sender) + 1
      BY <1>1, <1>3, AppendFrames
    <2>2. f.size \in Nat /\ f.offset \in Nat
      BY Zenon DEF Frames
    <2>a. f.type = "ChunkAck" => f.offset = rcv.next + f.size
      BY Zenon, <1>3
    <2>3. ASSUME NEW i \in 1..Len(to_sender)
          PROVE  /\ to_sender[i].offset \in Nat
                 /\ to_sender[i].type = "Accept" =>
                      to_sender[i].size = rcv'.window /\ rcv'.state \notin Undecided
                 /\ to_sender[i].type = "ChunkAck" =>
                      /\ to_sender[i].offset >= snd.acked + to_sender[i].size
                      /\ to_sender[i].offset <= rcv.next /\ to_sender[i].offset <= rcv'.next
      <3>1. Granted(to_sender[i]) /\ to_sender[i] \in Frames
        BY <1>1, <1>2
      <3>2. to_sender[i].offset \in Nat
        BY <3>1 DEF Frames
      <3> QED
        BY <1>1, <1>3, <3>1, <3>2 DEF Granted
    <2>4. ASSUME NEW i \in 1..Len(to_sender')
          PROVE  Granted(to_sender[i])'
      <3>1. CASE i \in 1..Len(to_sender)
        BY Zenon, <2>1, <2>3, <3>1 DEF Granted
      <3>2. CASE i = Len(to_sender) + 1
        <4>1. to_sender'[i] = f
          BY Zenon, <2>1, <3>2
        <4>2. f.type = "ChunkAck" => f.offset >= snd.acked + f.size
          BY <1>a, <2>2, <2>a
        <4> QED
          BY Zenon, <1>3, <4>1, <4>2 DEF Granted
      <3> QED
        BY Zenon, <2>1, <3>1, <3>2
    <2>5. ASSUME NEW i \in 1..Len(to_sender'), NEW j \in 1..Len(to_sender'), i < j,
                 to_sender'[i].type = "ChunkAck", to_sender'[j].type = "ChunkAck"
          PROVE  to_sender'[j].offset >= to_sender'[i].offset + to_sender'[j].size
      <3>1. i \in 1..Len(to_sender) /\ to_sender'[i] = to_sender[i]
        BY <2>1, <2>5
      <3>2. CASE j \in 1..Len(to_sender)
        BY Zenon, <1>b, <2>1, <2>5, <3>1, <3>2
      <3>3. CASE j = Len(to_sender) + 1
        <4>1. to_sender'[j] = f /\ to_sender[i].offset \in Nat /\ to_sender[i].offset <= rcv.next
          BY Zenon, <2>1, <2>3, <2>5, <3>1, <3>3
        <4>2. f.offset = rcv.next + f.size
          BY Zenon, <1>3, <2>5, <4>1
        <4> QED
          BY <1>a, <2>2, <3>1, <4>1, <4>2
      <3> QED
        BY <2>1, <3>2, <3>3
    <2>6. rcv'.next \in Nat /\ rcv'.next >= rcv.next
      BY Zenon, <1>3
    <2>7. snd'.acked <= rcv'.next
      BY <1>a, <2>6
    <2>8. snd'.state \in Sending => rcv'.state \notin Undecided /\ snd'.reserved <= rcv'.window
      BY Zenon, <1>2, <1>3
    <2> QED
      BY Zenon, <2>4, <2>5, <2>7, <2>8 DEF Flow
  <1>4. ASSUME to_sender' = to_sender, rcv'.next \in Nat, rcv'.next >= rcv.next,
               rcv'.window = rcv.window, rcv'.state \in Undecided => rcv.state \in Undecided
        PROVE  Flow'
    <2>1. ASSUME NEW i \in 1..Len(to_sender')
          PROVE  Granted(to_sender[i])'
      <3>1. Granted(to_sender[i]) /\ to_sender[i] \in Frames
        BY <1>1, <1>2, <1>4
      <3>2. to_sender[i].offset \in Nat
        BY Zenon, <3>1 DEF Frames
      <3> QED
        BY <1>1, <1>4, <3>1, <3>2 DEF Granted
    <2>2. /\ snd'.acked <= rcv'.next
          /\ snd'.state \in Sending => rcv'.state \notin Undecided /\ snd'.reserved <= rcv'.window
      BY <1>1, <1>2, <1>4
    <2> QED
      BY Zenon, <1>2, <1>4, <2>1, <2>2 DEF Flow
  <1>5. CASE RestsOrEnds
    <2>1. /\ rcv'.window = rcv.window /\ rcv'.next >= rcv.next
          /\ rcv'.state \in Undecided => rcv.state \in Undecided
          /\ GrantsNothing
      BY <1>5 DEF RestsOrEnds
    <2>2. CASE to_sender' = to_sender
      BY Zenon, <1>4, <2>1, <2>2, <1>0
    <2>3. CASE to_sender' # to_sender
      <3>1. PICK f \in Frames : /\ to_sender' = Append(to_sender, f)
                                /\ f.type \notin {"Accept", "ChunkAck"}
        BY Zenon, <2>1, <2>3 DEF GrantsNothing
      <3> QED
        BY <1>0, <1>3, <2>1, <3>1
    <2> QED
      BY <2>2, <2>3
  <1>6. CASE StoresChunk
    <2>1. PICK size \in Nat :
            /\ rcv'.next = rcv.next + size
            /\ to_sender' = Append(to_sender, Frame("ChunkAck", rcv.next + size, size))
      BY Zenon, <1>6 DEF StoresChunk
    <2> DEFINE f == Frame("ChunkAck", rcv.next + size, size)
    <2>2. /\ f.type = "ChunkAck" /\ f.offset = rcv.next + size /\ f.size = size
      BY DEF Frame
    <2>3. rcv.next + size \in Nat /\ "ChunkAck" \in FrameTypes \ {"Error", "Reject"}
      BY <1>1 DEF FrameTypes
    <2>4. f \in Frames
      BY Zenon, <2>3, BuiltFrames
    <2>5. /\ rcv.state \notin Undecided /\ rcv'.state \notin Undecided
          /\ rcv'.window = rcv.window /\ rcv'.next >= rcv.next
          /\ f.offset <= rcv'.next
      BY <1>1, <1>6, <2>1, <2>2 DEF StoresChunk, Undecided
    <2>6. to_sender' = Append(to_sender, f)
      BY Zenon, <2>1
    <2> HIDE DEF f
    <2> QED
      BY <1>0, <1>3, <2>2, <2>4, <2>5, <2>6
  <1>7. CASE ConfirmsWrite
    BY <1>0, <1>1, <1>4, <1>7 DEF ConfirmsWrite, Undecided
  <1>8. CASE \E window \in Windows : Grants(window)
    <2>1. PICK window \in Windows : Grants(window)
      BY <1>8
    <2> DEFINE f == Frame("Accept", 0, window)
    <2>2. /\ f.type = "Accept" /\ f.size = window /\ window \in Nat
      BY WindowAssumption DEF Frame
    <2>3. f \in Frames
      BY <2>2, BuiltFrames DEF FrameTypes
    <2>4. /\ rcv.state \in Undecided /\ rcv'.state \notin Undecided
          /\ rcv'.window = window /\ rcv'.next = rcv.next /\ rcv'.next >= rcv.next
          /\ to_sender' = Append(to_sender, f)
      BY <1>1, <2>1 DEF Grants, Undecided
    <2> HIDE DEF f
    <2> QED
      BY <1>0, <1>3, <2>2, <2>3, <2>4
  <1> QED
    BY <1>5, <1>6, <1>7, <1>8 DEF ReceiverMoves
(* The receiver's moves keep what the sender's end says of the file.       *)
LEMMA ReceiverEnding ==
  ASSUME Accounts, ReceiverMoves, ReceiverStep, UNCHANGED <<snd, authorized>>,
         \/ to_receiver' = to_receiver
         \/ to_receiver # <<>> /\ to_receiver' = Tail(to_receiver)
  PROVE  Ending'
  <1>1. to_receiver \in Seq(Frames)
    BY Zenon DEF Accounts, Inv
  <1>2. /\ snd.state # "Committed"
        /\ \A i \in 1..Len(to_receiver) : to_receiver[i].type = "FileEnd" => snd.begun = TRUE
        /\ rcv.transaction = "committed" => snd.begun = TRUE
        /\ snd.state \in {"Cancelled", "Rejected"} =>
             NeverDurable(rcv) \/ Excused(snd, authorized["sender"])
    BY DEF Accounts, Ending
  <1>3. \A i \in 1..Len(to_receiver') : to_receiver'[i].type = "FileEnd" => snd.begun = TRUE
    <2>1. CASE to_receiver' = to_receiver
      BY <1>2, <2>1
    <2>2. CASE to_receiver # <<>> /\ to_receiver' = Tail(to_receiver)
      BY <1>1, <1>2, <2>2, TailFrames
    <2> QED
      BY Zenon, <2>1, <2>2
  <1>4. rcv'.transaction = "committed" => snd.begun = TRUE
    <2> SUFFICES ASSUME rcv'.transaction = "committed", rcv.transaction # "committed"
                 PROVE  snd.begun = TRUE
      BY Zenon, <1>2
    <2>1. to_receiver # <<>> /\ Head(to_receiver).type = "FileEnd"
      BY DEF ReceiverMoves, CommitsAtEnd
    <2>2. Head(to_receiver) = to_receiver[1] /\ 1 \in 1..Len(to_receiver)
      BY <1>1, <2>1, TailFrames
    <2> QED
      BY Zenon, <1>2, <2>1, <2>2
  <1>5. NeverDurable(rcv) => NeverDurable(rcv')
    BY ReceiverNeverTakesBack
  <1> QED
    BY <1>2, <1>3, <1>4, <1>5 DEF Ending

(* Every step preserves the accounts.                                      *)
LEMMA NextAccounts ==
  ASSUME Accounts, [Next]_vars
  PROVE  Accounts'
  <1>1. Inv /\ Inv' /\ file_size \in Nat /\ snd' \in SenderType /\ rcv' \in ReceiverType
    BY Zenon, NextInv, SizeAssumption DEF Accounts, Inv, SenderAlone, ReceiverAlone
  <1>2. CASE SenderActs
    <2>1. /\ UNCHANGED <<rcv, authorized>>
          /\ to_sender' = to_sender \/ (to_sender # <<>> /\ to_sender' = Tail(to_sender))
      BY <1>1, <1>2, SenderActsAsSender
    <2>2. snd.state = "Created" => snd.begun = FALSE
      BY DEF Accounts, Counted, Offering
    <2>3. SenderMoves
      BY Zenon, <1>1, <1>2, <2>2, SenderActsMove
    <2> QED
      BY <1>1, <2>1, <2>3, SenderCounts, SenderFlow, SenderEnding DEF Accounts
  <1>3. CASE ReceiverActs
    <2>1. /\ ReceiverStep /\ UNCHANGED <<snd, authorized>>
          /\ \/ to_receiver' = to_receiver
             \/ to_receiver # <<>> /\ to_receiver' = Tail(to_receiver)
      BY <1>1, <1>3, ReceiverActsAsReceiver
    <2>2. ReceiverMoves
      BY <1>1, <1>3, ReceiverActsMove
    <2> QED
      BY <1>1, <2>1, <2>2, ReceiverCounts, ReceiverFlow, ReceiverEnding DEF Accounts
  <1>4. CASE \E e \in Ends : LoseSession(e) \/ ExhaustIds(e)
    <2>1. /\ UNCHANGED <<file_size, snd, rcv, to_receiver, to_sender, unconfirmed, budget>>
          /\ authorized["sender"] = FALSE => authorized'["sender"] = FALSE
      BY <1>1, <1>4 DEF LoseSession, ExhaustIds, sender_side, receiver_side, Inv, Ends
    <2>2. Counted' /\ Flow'
      BY Zenon, <2>1 DEF Accounts, Counted, Flow, Granted
    <2>3. Ending'
      BY Zenon, <2>1 DEF Accounts, Ending, Excused
    <2> QED
      BY Zenon, <1>1, <2>2, <2>3 DEF Accounts
  <1>5. CASE UNCHANGED vars
    BY Zenon, <1>1, <1>5 DEF Accounts, Counted, Flow, Granted, Ending, vars
  <1> QED
    BY <1>2, <1>3, <1>4, <1>5 DEF Next, SenderActs, ReceiverActs

(* The two ends' accounts agree throughout.                                *)
THEOREM TransferAccounts == Spec => []Accounts
  <1>1. Init => Accounts
    BY InitAccounts
  <1>2. Accounts /\ [Next]_vars => Accounts'
    BY NextAccounts
  <1> QED
    BY <1>1, <1>2, PTL DEF Spec

(* The sender's reservation is its unused credit plus its unacknowledged   *)
(* content and never more than the window the receiver granted, and the    *)
(* receiver's count misses exactly what it has not confirmed: over every   *)
(* interleaving of chunks and acknowledgements, for every window.          *)
THEOREM CreditIsConserved == Spec => []CreditConserved
  <1>1. Accounts => CreditConserved
    BY Zenon DEF Accounts, Inv, Counted, Flow, SenderAlone, Sending, CreditConserved
  <1> QED
    BY <1>1, TransferAccounts, PTL

(* A sender that was not cut short is right about the file, whichever side *)
(* cancelled and when: it reports success exactly if the file was          *)
(* committed.                                                              *)
THEOREM OutcomesAlwaysAgree == Spec => []OutcomesAgree
  <1>1. Accounts => OutcomesAgree
    <2> SUFFICES ASSUME Accounts, snd.state \in Terminal \ {"Failed"}, snd.code # "failed",
                        ~snd.shutdown, authorized["sender"]
                 PROVE  snd.state = "Completed" <=> rcv.transaction = "committed"
      BY DEF OutcomesAgree
    <2>1. snd.state = "Completed" => rcv.transaction = "committed"
      BY Zenon DEF Accounts, Inv, Claims, ToldOfCommit
    <2>2. ASSUME rcv.transaction = "committed" PROVE snd.state = "Completed"
      BY <2>2 DEF Accounts, Ending, NeverDurable, Excused, Terminal
    <2> QED
      BY <2>1, <2>2
  <1> QED
    BY <1>1, TransferAccounts, PTL
=============================================================================
