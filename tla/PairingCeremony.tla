--------------------------- MODULE PairingCeremony ---------------------------
(***************************************************************************)
(* One pairing attempt between two devices: at each end a PairingAttempt    *)
(* (session/pairing.cpp), the PairingSocket that drives it on one executor  *)
(* (session/pairing_socket.cpp), the admission lease and the replay         *)
(* reservation it holds, and the trust record it commits.  Between the ends *)
(* is one TLS connection, a FIFO of frames in each direction.               *)
(*                                                                         *)
(* A frame leaves for the peer (Transmit) before the completion handler of  *)
(* its write runs (WriteCompletes): the two are separate steps, and what    *)
(* the peer answers may be read in between when "late" is in Environment.   *)
(* Frame contents, nonces, keys, the short authentication string and the    *)
(* authenticators are left out; both ends follow the protocol.  Time is     *)
(* left out too: a deadline may pass at any moment.                         *)
(***************************************************************************)
EXTENDS Naturals, Sequences

CONSTANT
  Environment   \* what may go wrong besides the users' own decisions

\* The disturbances the code handles; see the actions guarded by them.
Disturbances ==
  {"cancel", "timeout", "revoked", "disconnect", "failure", "storage", "stop", "late"}

ASSUME EnvironmentAssumption == Environment \subseteq Disturbances

Ends == {"initiator", "responder"}
Other(e) == IF e = "initiator" THEN "responder" ELSE "initiator"

VARIABLES
  state,      \* PairingAttempt::state_, the two commit states being one call
  decision,   \* local_decision
  written,    \* local_decision_written
  ackPending, \* selection_ack_pending
  confirmed,  \* peer_confirmed
  lease,      \* the admission lease: active, revoked by its owner, or given back
  replay,     \* the replay reservation
  trust,      \* the identity repository holds the peer
  user,       \* what the user of this end decided (never reset)
  error,      \* why the attempt closed
  socket,     \* PairingSocket: open, flushing (terminal_), closed (closed_)
  writes,     \* writes_, the queue of frames to write
  sent,       \* the front of writes_ is on the wire, its completion is due
  wire,       \* frames on their way from this end, then "EOF"
  broken      \* the connection broke under both ends

attempt == <<state, decision, written, ackPending, confirmed, lease, replay, error>>
transport == <<socket, writes, sent, wire>>
vars == <<attempt, trust, user, transport, broken>>

States == {"PairingTls", "ExchangingHellos", "Selecting", "AwaitingDecisions",
           "PairedLocal", "Closed"}
Decisions == {"Confirm", "Reject"}
Frames == {"Hello", "Select", "SelectAck", "Abort"} \cup Decisions
TerminalStates == {"PairedLocal", "Closed"}

Terminal(e) == state[e] \in TerminalStates

------------------------------------------------------------------------------
(* PairingAttempt::Create: the attempt holds its lease and a reservation.     *)
Init ==
  /\ state = [e \in Ends |-> "PairingTls"]
  /\ decision = [e \in Ends |-> "none"]
  /\ written = [e \in Ends |-> FALSE]
  /\ ackPending = [e \in Ends |-> FALSE]
  /\ confirmed = [e \in Ends |-> FALSE]
  /\ lease = [e \in Ends |-> "active"]
  /\ replay = [e \in Ends |-> "reserved"]
  /\ trust = [e \in Ends |-> FALSE]
  /\ user = [e \in Ends |-> "none"]
  /\ error = [e \in Ends |-> "none"]
  /\ socket = [e \in Ends |-> "open"]
  /\ writes = [e \in Ends |-> <<>>]
  /\ sent = [e \in Ends |-> FALSE]
  /\ wire = [e \in Ends |-> <<>>]
  /\ broken = FALSE

------------------------------------------------------------------------------
(* The attempt's part of a step                                              *)

\* A reservation that was bound to a context is kept for the replay window, one
\* that was not leaves nothing (PairingReplayReservation::Commit).
Committed(r) == IF r = "bound" THEN "kept" ELSE "released"

FinalizeResources(e) ==
  /\ replay' = [replay EXCEPT ![e] = Committed(@)]
  /\ decision' = [decision EXCEPT ![e] = "none"]
  /\ ackPending' = [ackPending EXCEPT ![e] = FALSE]
  /\ written' = [written EXCEPT ![e] = FALSE]
  /\ confirmed' = [confirmed EXCEPT ![e] = FALSE]
  /\ lease' = [lease EXCEPT ![e] = "released"]

Close(e, why) ==
  /\ state' = [state EXCEPT ![e] = "Closed"]
  /\ error' = [error EXCEPT ![e] = why]
  /\ FinalizeResources(e)
  /\ UNCHANGED trust

Paired(e) ==
  /\ state' = [state EXCEPT ![e] = "PairedLocal"]
  /\ trust' = [trust EXCEPT ![e] = TRUE]
  /\ FinalizeResources(e)
  /\ UNCHANGED error

\* CheckDeadline at the head of every call: an attempt whose lease is gone does
\* nothing but close.
Admitted(e) == lease[e] = "active"

------------------------------------------------------------------------------
(* The socket's part of a step.  A step is caused by a call, by a frame read  *)
(* from the peer or by the completion of the write at the front of the queue. *)

Rest(e, cause) == IF cause = "completion" THEN Tail(writes[e]) ELSE writes[e]
Unread(e, cause) ==
  IF cause = "frame" THEN [wire EXCEPT ![Other(e)] = Tail(@)] ELSE wire

CloseTransport(e, cause) ==
  /\ socket' = [socket EXCEPT ![e] = "closed"]
  /\ writes' = [writes EXCEPT ![e] = <<>>]
  /\ sent' = [sent EXCEPT ![e] = FALSE]
  /\ wire' = [Unread(e, cause) EXCEPT ![e] = Append(@, "EOF")]
  /\ UNCHANGED broken

\* The queue after the step; the rest of the transport stays as it is.
Enqueue(e, cause, frames) ==
  /\ writes' = [writes EXCEPT ![e] = Rest(e, cause) \o frames]
  /\ sent' = [sent EXCEPT ![e] = @ /\ cause # "completion"]
  /\ wire' = Unread(e, cause)
  /\ UNCHANGED broken

\* Apply of an update that is not terminal.
Continue(e, cause, frames) ==
  /\ Enqueue(e, cause, frames)
  /\ UNCHANGED socket

\* Apply of a terminal update: what is queued is flushed for a while; with
\* nothing queued the transport is closed at once.
Finish(e, cause, frames) ==
  IF Rest(e, cause) \o frames = <<>>
  THEN CloseTransport(e, cause)
  ELSE /\ Enqueue(e, cause, frames)
       /\ socket' = [socket EXCEPT ![e] = "flushing"]

\* Every call on the attempt is made from an open socket.
Running(e) == socket[e] = "open" /\ ~Terminal(e)

------------------------------------------------------------------------------
(* Calls of the owner and of the user                                        *)

Start(e) ==
  /\ Running(e) /\ Admitted(e)
  /\ state[e] = "PairingTls"
  /\ state' = [state EXCEPT ![e] = "ExchangingHellos"]
  /\ Continue(e, "call", <<"Hello">>)
  /\ UNCHANGED <<decision, written, ackPending, confirmed, lease, replay, error,
                 trust, user>>

\* Mutated: a user who has confirmed may still reject.
TakesBack(e, d) ==
  /\ Running(e) /\ Admitted(e)
  /\ state[e] = "AwaitingDecisions"
  /\ decision[e] = "none" \/ d = "Reject"
  /\ user' = [user EXCEPT ![e] = IF decision[e] = "none" THEN d ELSE @]
  /\ IF d = "Reject"
     THEN Close(e, "rejected") /\ Finish(e, "call", <<d>>)
     ELSE /\ decision' = [decision EXCEPT ![e] = d]
          /\ Continue(e, "call", <<d>>)
          /\ UNCHANGED <<state, written, ackPending, confirmed, lease, replay, error,
                         trust>>

\* The user answers the prompt.  A second answer changes nothing, whether it
\* agrees with the first or not.
Decide(e, d) ==
  /\ Running(e) /\ Admitted(e)
  /\ state[e] = "AwaitingDecisions"
  /\ decision[e] = "none"
  /\ user' = [user EXCEPT ![e] = d]
  /\ IF d = "Reject"
     THEN Close(e, "rejected") /\ Finish(e, "call", <<d>>)
     ELSE /\ decision' = [decision EXCEPT ![e] = d]
          /\ Continue(e, "call", <<d>>)
          /\ UNCHANGED <<state, written, ackPending, confirmed, lease, replay, error,
                         trust>>

Cancel(e) ==
  /\ "cancel" \in Environment
  /\ Running(e) /\ Admitted(e) /\ state[e] # "PairingTls"
  /\ Close(e, "cancelled")
  /\ Finish(e, "call", <<"Abort">>)
  /\ UNCHANGED user

\* A deadline of CheckDeadline passes; the timer or the next call notices.
Expire(e) ==
  /\ "timeout" \in Environment
  /\ Running(e) /\ Admitted(e)
  /\ Close(e, "timeout")
  /\ Finish(e, "call", <<"Abort">>)
  /\ UNCHANGED user

\* The owner of the lease takes it back: the pairing window was closed, or a
\* crossed connection won.
Revoke(e) ==
  /\ "revoked" \in Environment
  /\ Running(e) /\ Admitted(e)
  /\ lease' = [lease EXCEPT ![e] = "revoked"]
  /\ UNCHANGED <<state, decision, written, ackPending, confirmed, replay, error, trust,
                 user, transport, broken>>

\* CheckDeadline finds the lease gone.
Busy(e) ==
  /\ Running(e) /\ lease[e] = "revoked"
  /\ Close(e, "busy")
  /\ Finish(e, "call", <<>>)
  /\ UNCHANGED user

\* Encoding, negotiation, key export, replay binding or memory fails in a call.
CallFails(e) ==
  /\ "failure" \in Environment
  /\ Running(e) /\ Admitted(e)
  /\ Close(e, "internal")
  /\ Finish(e, "call", <<>>)
  /\ UNCHANGED user

\* PairingSocket::Fail: the attempt is shut down, nothing more is written.
Fail(e, cause) ==
  /\ Close(e, "internal")
  /\ CloseTransport(e, cause)
  /\ UNCHANGED user

\* The runtime stops the socket; a socket already flushing is closed.
Stop(e) ==
  /\ "stop" \in Environment
  /\ \/ Running(e) /\ Fail(e, "call")
     \/ /\ socket[e] = "flushing"
        /\ CloseTransport(e, "call")
        /\ UNCHANGED <<attempt, trust, user>>

\* Mutated: the timer is gone once the queue is drained.
ExpiresWithWrites(e) ==
  /\ socket[e] = "flushing" /\ writes[e] # <<>>
  /\ CloseTransport(e, "call")
  /\ UNCHANGED <<attempt, trust, user>>

\* The terminal flush timer expires.
FlushExpires(e) ==
  /\ socket[e] = "flushing"
  /\ CloseTransport(e, "call")
  /\ UNCHANGED <<attempt, trust, user>>

------------------------------------------------------------------------------
(* Selection and commit, reached from a frame or from a write's completion    *)

\* The context is bound to the reservation and the prompt is shown.
CompleteSelection(e, cause) ==
  /\ state' = [state EXCEPT ![e] = "AwaitingDecisions"]
  /\ replay' = [replay EXCEPT ![e] = "bound"]
  /\ ackPending' = [ackPending EXCEPT ![e] = FALSE]
  /\ Continue(e, cause, <<>>)
  /\ UNCHANGED <<decision, written, confirmed, lease, error, trust>>

\* Mutated: the commit does not wait for the peer.
CommitsAlone(e, w, c) == decision[e] = "Confirm" /\ w
ReadyToCommit(e, w, c) == decision[e] = "Confirm" /\ w /\ c

\* w and c: local_decision_written and peer_confirmed as this step leaves them.
MaybeCommit(e, cause, w, c) ==
  IF ReadyToCommit(e, w, c)
  THEN /\ \/ Paired(e)
          \/ "storage" \in Environment /\ Close(e, "internal")
       /\ Finish(e, cause, <<>>)
  ELSE /\ written' = [written EXCEPT ![e] = w]
       /\ confirmed' = [confirmed EXCEPT ![e] = c]
       /\ Continue(e, cause, <<>>)
       /\ UNCHANGED <<state, decision, ackPending, lease, replay, error, trust>>

Violation(e, cause) ==
  /\ Close(e, "violation")
  /\ Finish(e, cause, <<>>)

------------------------------------------------------------------------------
(* Frames from the peer                                                      *)

ReceiveHello(e) ==
  IF state[e] = "ExchangingHellos"
  THEN /\ state' = [state EXCEPT ![e] = "Selecting"]
       /\ Continue(e, "frame", IF e = "initiator" THEN <<"Select">> ELSE <<>>)
       /\ UNCHANGED <<decision, written, ackPending, confirmed, lease, replay, error,
                      trust>>
  ELSE Violation(e, "frame")

ReceiveSelection(e, f) ==
  IF state[e] = "Selecting" /\ f = (IF e = "responder" THEN "Select" ELSE "SelectAck")
  THEN IF e = "initiator"
       THEN CompleteSelection(e, "frame")
       ELSE /\ ackPending' = [ackPending EXCEPT ![e] = TRUE]
            /\ Continue(e, "frame", <<"SelectAck">>)
            /\ UNCHANGED <<state, decision, written, confirmed, lease, replay, error,
                           trust>>
  ELSE Violation(e, "frame")

ReceiveDecision(e, f) ==
  IF state[e] = "AwaitingDecisions" /\ ~confirmed[e]
  THEN IF f = "Reject"
       THEN Close(e, "peer") /\ Finish(e, "frame", <<>>)
       ELSE MaybeCommit(e, "frame", written[e], TRUE)
  ELSE Violation(e, "frame")

ReceiveAbort(e) ==
  /\ Close(e, "peer")
  /\ Finish(e, "frame", <<>>)

\* Whether the completion handler of a write that reached the peer has run
\* before the next read of this end is up to the operating system.
CompletionsHandled(e) == "late" \in Environment \/ ~sent[e]

Incoming(e) ==
  /\ Running(e) /\ Admitted(e) /\ state[e] # "PairingTls"
  /\ wire[Other(e)] # <<>>
  /\ CompletionsHandled(e)

ReceiveFrame(e) ==
  /\ Incoming(e)
  /\ LET f == Head(wire[Other(e)]) IN
       \/ f = "Hello" /\ ReceiveHello(e)
       \/ f \in {"Select", "SelectAck"} /\ ReceiveSelection(e, f)
       \/ f \in Decisions /\ ReceiveDecision(e, f)
       \/ f = "Abort" /\ ReceiveAbort(e)
  /\ UNCHANGED user

ReadEnds(e) ==
  /\ Incoming(e)
  /\ Head(wire[Other(e)]) = "EOF"
  /\ Fail(e, "frame")

------------------------------------------------------------------------------
(* Writes                                                                    *)

Transmit(e) ==
  /\ socket[e] # "closed" /\ writes[e] # <<>> /\ ~sent[e]
  /\ sent' = [sent EXCEPT ![e] = TRUE]
  /\ wire' = [wire EXCEPT ![e] = Append(@, Head(writes[e]))]
  /\ UNCHANGED <<attempt, trust, user, socket, writes, broken>>

\* LocalSelectionAckWritten and LocalDecisionWritten follow a completed write
\* unless the socket is already flushing.
Written(e, f) ==
  CASE f = "SelectAck" ->
         IF state[e] = "Selecting" /\ ackPending[e]
         THEN CompleteSelection(e, "completion") ELSE Violation(e, "completion")
    [] f = "Confirm" ->
         IF state[e] = "AwaitingDecisions" /\ decision[e] = "Confirm"
         THEN MaybeCommit(e, "completion", TRUE, confirmed[e])
         ELSE Violation(e, "completion")
    [] OTHER -> Continue(e, "completion", <<>>) /\ UNCHANGED <<attempt, trust>>

WriteCompletes(e) ==
  /\ sent[e]
  /\ \/ Running(e) /\ Admitted(e) /\ Written(e, Head(writes[e]))
     \/ /\ socket[e] = "flushing"
        /\ Continue(e, "completion", <<>>)
        /\ UNCHANGED <<attempt, trust>>
  /\ UNCHANGED user

\* A write to a peer that has closed the connection fails.
WriteFails(e) ==
  /\ writes[e] # <<>> /\ ~sent[e]
  /\ \E i \in 1..Len(wire[Other(e)]) : wire[Other(e)][i] = "EOF"
  /\ \/ Running(e) /\ Fail(e, "call")
     \/ /\ socket[e] = "flushing"
        /\ CloseTransport(e, "call")
        /\ UNCHANGED <<attempt, trust, user>>

\* The connection breaks: what was under way in both directions is lost.
Disconnect ==
  /\ "disconnect" \in Environment
  /\ \E e \in Ends : socket[e] # "closed" /\ wire[Other(e)] # <<"EOF">>
  /\ wire' = [e \in Ends |-> <<"EOF">>]
  /\ broken' = TRUE
  /\ UNCHANGED <<attempt, trust, user, socket, writes, sent>>

------------------------------------------------------------------------------
Step(e) ==
  \/ Start(e) \/ \E d \in Decisions : Decide(e, d)
  \/ Cancel(e) \/ Expire(e) \/ Revoke(e) \/ Busy(e) \/ CallFails(e) \/ Stop(e)
  \/ FlushExpires(e) \/ ReceiveFrame(e) \/ ReadEnds(e)
  \/ Transmit(e) \/ WriteCompletes(e) \/ WriteFails(e)

Next == Disconnect \/ \E e \in Ends : Step(e)

Spec == Init /\ [][Next]_vars

\* The executor of each end runs what is ready, its timers expire, and each
\* user answers a prompt in the end.  Nobody has to cancel, and nothing has to
\* go wrong.
Fairness ==
  \A e \in Ends :
    /\ WF_vars(Start(e))
    /\ WF_vars(\E d \in Decisions : Decide(e, d))
    /\ WF_vars(ReceiveFrame(e) \/ ReadEnds(e))
    /\ WF_vars(Transmit(e) \/ WriteFails(e))
    /\ WF_vars(WriteCompletes(e))
    /\ WF_vars(Busy(e))
    /\ WF_vars(FlushExpires(e))

FairSpec == Spec /\ Fairness

------------------------------------------------------------------------------
(* Properties                                                                *)

\* The types of the variables; a frame whose completion is due is still at the
\* front of writes_ (pairing.cpp, pairing_socket.cpp).
TypeOK ==
  /\ state \in [Ends -> States]
  /\ decision \in [Ends -> {"none", "Confirm"}]
  /\ written \in [Ends -> BOOLEAN]
  /\ ackPending \in [Ends -> BOOLEAN]
  /\ confirmed \in [Ends -> BOOLEAN]
  /\ lease \in [Ends -> {"active", "revoked", "released"}]
  /\ replay \in [Ends -> {"reserved", "bound", "kept", "released"}]
  /\ trust \in [Ends -> BOOLEAN]
  /\ user \in [Ends -> Decisions \cup {"none"}]
  /\ error \in [Ends -> {"none", "rejected", "cancelled", "timeout", "busy", "internal",
                         "violation", "peer"}]
  /\ socket \in [Ends -> {"open", "flushing", "closed"}]
  /\ writes \in [Ends -> Seq(Frames)]
  /\ sent \in [Ends -> BOOLEAN]
  /\ wire \in [Ends -> Seq(Frames \cup {"EOF"})]
  /\ broken \in BOOLEAN
  /\ \A e \in Ends : sent[e] => writes[e] # <<>>

\* A device trusts its peer only after the users of BOTH devices confirmed the
\* same prompt: MaybeCommit needs the local decision written and the peer's
\* affirmative decision received, however frames, completions, cancels,
\* timeouts and disconnections interleave.
TrustNeedsBothUsers ==
  \A e \in Ends : trust[e] => \A u \in Ends : user[u] = "Confirm"

\* An attempt that ended holds nothing: FinalizeResources gave the lease back and
\* settled the reservation, and a context that a prompt was shown for stays in
\* the replay set; an attempt that has not ended still has its socket.
EndedHoldsNothing ==
  \A e \in Ends :
    /\ Terminal(e) => lease[e] = "released" /\ replay[e] \in {"kept", "released"}
    /\ Terminal(e) /\ user[e] # "none" => replay[e] = "kept"
    /\ ~Terminal(e) => socket[e] = "open" /\ replay[e] \in {"reserved", "bound"}

\* A device that trusts its peer has told it so: unless the connection broke, its
\* affirmative decision has been received or is on the wire ahead of the end of
\* the stream, or the peer's attempt is over.  The commit waits for the write of
\* the local decision because closing the transport clears the queue.
TrustIsAnnounced ==
  \A e \in Ends :
    trust[e] /\ ~broken =>
      \/ Terminal(Other(e)) \/ confirmed[Other(e)]
      \/ \E i \in 1..Len(wire[e]) : wire[e][i] = "Confirm"

\* The two devices agree, both paired or neither, unless the connection broke or
\* one of them gave up by itself: only the users' answers and what the peer
\* reports then ended the attempts (MaybeCommit, ReceiveDecision,
\* ReceiveAbort).  Nor does a device become paired while the other one can no
\* longer learn of it: its decision is not lost with the queue that closing the
\* transport clears (TrustIsAnnounced).
OutcomesAgree ==
  /\ (\A e \in Ends : Terminal(e) /\ error[e] \in {"none", "rejected", "peer"}) /\ ~broken
       => trust["initiator"] = trust["responder"]
  /\ TrustIsAnnounced

\* Two users who both answer bring both attempts, and both sockets, to an end;
\* no deadline is needed for it.
PairingEnds == <>[](\A e \in Ends : Terminal(e) /\ socket[e] = "closed")

\* No frame of a peer that follows the protocol is answered with a state
\* violation; in particular a decision may arrive before the local user decides.
FramesAreExpected == \A e \in Ends : error[e] # "violation"
=============================================================================
