------------------------ MODULE PairingCeremonyProofs ------------------------
(***************************************************************************)
(* Proofs about PairingCeremony, for every set of disturbances.  A step is  *)
(* an effect on one attempt and an effect on its transport; Moves states    *)
(* what every transport effect but Transmit may do, once for all actions.   *)
(***************************************************************************)
EXTENDS PairingCeremony, TLAPS

Says(q, f) == \E i \in 1..Len(q) : q[i] = f

------------------------------------------------------------------------------
(* Ends and sequences                                                        *)

\* There are two ends, each the other's peer.
LEMMA TwoEnds ==
  ASSUME NEW e \in Ends
  PROVE  /\ Other(e) \in Ends /\ Other(e) # e /\ Other(Other(e)) = e
         /\ \A u \in Ends : u = e \/ u = Other(e)
BY DEF Ends, Other

\* What a queue says after a frame is appended.
LEMMA SaysAppend ==
  ASSUME NEW S, NEW q \in Seq(S), NEW x \in S, NEW f
  PROVE  Says(Append(q, x), f) <=> Says(q, f) \/ x = f
<1>1. Len(Append(q, x)) = Len(q) + 1 /\ Append(q, x)[Len(q) + 1] = x
  OBVIOUS
<1>2. \A i \in 1..Len(q) : Append(q, x)[i] = q[i]
  OBVIOUS
<1>3. Len(q) \in Nat
  OBVIOUS
<1> QED BY <1>1, <1>2, <1>3 DEF Says

\* What two queues say one after the other.
LEMMA SaysConcat ==
  ASSUME NEW S, NEW q \in Seq(S), NEW r \in Seq(S), NEW f, Says(q \o r, f)
  PROVE  Says(q, f) \/ Says(r, f)
<1>1. PICK i \in 1..Len(q \o r) : (q \o r)[i] = f
  BY DEF Says
<1>2. CASE i <= Len(q)
  BY <1>1, <1>2 DEF Says
<1>3. CASE i > Len(q)
  <2>1. (q \o r)[i] = r[i - Len(q)] /\ i - Len(q) \in 1..Len(r)
    BY <1>1, <1>3
  <2> QED BY <1>1, <2>1 DEF Says
<1> QED BY <1>2, <1>3

\* What is left of a queue when its head is taken.
LEMMA SaysTail ==
  ASSUME NEW S, NEW q \in Seq(S), q # <<>>, NEW f
  PROVE  /\ Tail(q) \in Seq(S) /\ Head(q) \in S
         /\ Says(Tail(q), f) => Says(q, f)
         /\ Says(q, f) => Head(q) = f \/ Says(Tail(q), f)
<1>1. Tail(q) \in Seq(S) /\ Head(q) \in S /\ Head(q) = q[1] /\ Len(q) \in Nat /\ Len(q) >= 1
  OBVIOUS
<1>2. Len(Tail(q)) = Len(q) - 1 /\ \A i \in 1..Len(Tail(q)) : Tail(q)[i] = q[i + 1]
  OBVIOUS
<1>3. Says(Tail(q), f) => Says(q, f)
  <2> SUFFICES ASSUME Says(Tail(q), f) PROVE Says(q, f)
    OBVIOUS
  <2>1. PICK i \in 1..Len(Tail(q)) : Tail(q)[i] = f
    BY DEF Says
  <2>2. i + 1 \in 1..Len(q) /\ q[i + 1] = f
    BY <1>1, <1>2, <2>1
  <2> QED BY <2>2 DEF Says
<1>4. ASSUME Says(q, f), Head(q) # f PROVE Says(Tail(q), f)
  <2>1. PICK i \in 1..Len(q) : q[i] = f
    BY <1>4 DEF Says
  <2>2. i - 1 \in 1..Len(Tail(q)) /\ Tail(q)[i - 1] = f
    BY <1>1, <1>2, <1>4, <2>1
  <2> QED BY <2>2 DEF Says
<1> QED BY <1>1, <1>3, <1>4

\* An empty queue says nothing, and one of one frame says that frame.
LEMMA SaysShort ==
  ASSUME NEW x, NEW f
  PROVE  ~Says(<<>>, f) /\ (Says(<<x>>, f) <=> x = f)
BY DEF Says

\* The empty queue.
LEMMA NothingSaid ==
  <<>> \in Seq(Frames) /\ \A f : ~Says(<<>>, f)
<1>1. <<>> \in Seq(Frames)
  OBVIOUS
<1>2. \A f : ~Says(<<>>, f)
  BY DEF Says
<1> QED BY <1>1, <1>2

------------------------------------------------------------------------------
(* The transport                                                             *)

TransportTypes ==
  /\ socket \in [Ends -> {"open", "flushing", "closed"}]
  /\ writes \in [Ends -> Seq(Frames)]
  /\ sent \in [Ends -> BOOLEAN]
  /\ wire \in [Ends -> Seq(Frames \cup {"EOF"})]
  /\ broken \in BOOLEAN
  /\ \A e \in Ends : sent[e] => writes[e] # <<>>

ConfirmSent(e) == sent[e] /\ Head(writes[e]) = "Confirm"

\* A step of e that queues `frames`: no queue or wire gains a decision but from
\* them, no write under way becomes another, and a confirmation on a wire stays
\* there unless e read it.
Moves(e, cause, frames) ==
  /\ TransportTypes'
  /\ \A u \in Ends : \A f \in Decisions :
       /\ Says(writes'[u], f) => Says(writes[u], f) \/ (u = e /\ Says(frames, f))
       /\ Says(wire'[u], f) => Says(wire[u], f)
  /\ \A u \in Ends : ConfirmSent(u)' => ConfirmSent(u)
  /\ Says(wire[e], "Confirm") => Says(wire'[e], "Confirm")
  /\ Says(wire[Other(e)], "Confirm") =>
       \/ Says(wire'[Other(e)], "Confirm")
       \/ cause = "frame" /\ Head(wire[Other(e)]) = "Confirm"
  /\ socket'[Other(e)] = socket[Other(e)]
  /\ broken' = broken

Ready(e, cause) ==
  /\ cause = "frame" => wire[Other(e)] # <<>>
  /\ cause = "completion" => sent[e]

\* What e leaves unread: the wire towards it without the frame it took.
LEMMA UnreadFacts ==
  ASSUME NEW e \in Ends, NEW cause, TransportTypes, Ready(e, cause)
  PROVE  /\ Unread(e, cause) \in [Ends -> Seq(Frames \cup {"EOF"})]
         /\ Unread(e, cause)[e] = wire[e]
         /\ \A f : Says(Unread(e, cause)[Other(e)], f) => Says(wire[Other(e)], f)
         /\ \A f : Says(wire[Other(e)], f) =>
              \/ Says(Unread(e, cause)[Other(e)], f)
              \/ cause = "frame" /\ Head(wire[Other(e)]) = f
<1>0. Other(e) \in Ends /\ Other(e) # e
  BY TwoEnds
<1>1. CASE cause = "frame"
  <2>1. wire[Other(e)] \in Seq(Frames \cup {"EOF"}) /\ wire[Other(e)] # <<>>
    BY <1>0, <1>1 DEF TransportTypes, Ready
  <2>2. Tail(wire[Other(e)]) \in Seq(Frames \cup {"EOF"})
    BY <2>1, SaysTail
  <2>3. Unread(e, cause) = [wire EXCEPT ![Other(e)] = Tail(@)]
    BY <1>1 DEF Unread
  <2>4. /\ Unread(e, cause) \in [Ends -> Seq(Frames \cup {"EOF"})]
        /\ Unread(e, cause)[e] = wire[e]
        /\ Unread(e, cause)[Other(e)] = Tail(wire[Other(e)])
    BY <1>0, <2>2, <2>3 DEF TransportTypes
  <2> QED BY <1>1, <2>1, <2>4, SaysTail
<1>2. CASE cause # "frame"
  BY <1>2 DEF Unread, TransportTypes
<1> QED BY <1>1, <1>2

\* What is left of the queue of e once a completed write is popped.
LEMMA RestFacts ==
  ASSUME NEW e \in Ends, NEW cause, TransportTypes, Ready(e, cause)
  PROVE  /\ Rest(e, cause) \in Seq(Frames)
         /\ \A f : Says(Rest(e, cause), f) => Says(writes[e], f)
<1>1. CASE cause = "completion"
  <2>1. writes[e] \in Seq(Frames) /\ writes[e] # <<>>
    BY <1>1 DEF TransportTypes, Ready
  <2> QED BY <1>1, <2>1, SaysTail DEF Rest
<1>2. CASE cause # "completion"
  BY <1>2 DEF Rest, TransportTypes
<1> QED BY <1>1, <1>2

\* Closing the transport is such a step.
LEMMA CloseMoves ==
  ASSUME NEW e \in Ends, NEW cause, NEW frames, TransportTypes, Ready(e, cause),
         CloseTransport(e, cause)
  PROVE  Moves(e, cause, frames)
<1> DEFINE o == Other(e)
<1> DEFINE left == Unread(e, cause)
<1>0. o \in Ends /\ o # e /\ \A u \in Ends : u = e \/ u = o
  BY TwoEnds
<1>1. /\ left \in [Ends -> Seq(Frames \cup {"EOF"})]
      /\ left[e] = wire[e]
      /\ \A f : Says(left[o], f) => Says(wire[o], f)
      /\ \A f : Says(wire[o], f) =>
              Says(left[o], f) \/ (cause = "frame" /\ Head(wire[o]) = f)
  BY UnreadFacts
<1> HIDE DEF left
<1>2. /\ socket' = [socket EXCEPT ![e] = "closed"]
      /\ writes' = [writes EXCEPT ![e] = <<>>]
      /\ sent' = [sent EXCEPT ![e] = FALSE]
      /\ wire' = [left EXCEPT ![e] = Append(@, "EOF")]
      /\ broken' = broken
  BY DEF CloseTransport, left
<1>3. /\ writes'[e] = <<>> /\ writes'[o] = writes[o] /\ ~sent'[e] /\ sent'[o] = sent[o]
      /\ wire'[e] = Append(wire[e], "EOF") /\ wire'[o] = left[o]
      /\ socket'[o] = socket[o]
  BY <1>0, <1>1, <1>2 DEF TransportTypes
<1>4. wire[e] \in Seq(Frames \cup {"EOF"})
  BY DEF TransportTypes
<1>5. \A f \in Decisions : Says(wire'[e], f) <=> Says(wire[e], f)
  BY <1>3, <1>4, SaysAppend DEF Decisions
<1>6. Append(wire[e], "EOF") \in Seq(Frames \cup {"EOF"})
  BY <1>4
<1>7. TransportTypes'
  <2>1. <<>> \in Seq(Frames)
    OBVIOUS
  <2>2. wire' \in [Ends -> Seq(Frames \cup {"EOF"})]
    BY <1>1, <1>2, <1>3, <1>6
  <2>3. writes' \in [Ends -> Seq(Frames)] /\ socket' \in [Ends -> {"open", "flushing", "closed"}]
    BY <1>2, <2>1 DEF TransportTypes
  <2>4. sent' \in [Ends -> BOOLEAN] /\ broken' \in BOOLEAN
    BY <1>2 DEF TransportTypes
  <2>5. \A u \in Ends : sent'[u] => writes'[u] # <<>>
    BY <1>0, <1>3 DEF TransportTypes
  <2> QED BY <2>2, <2>3, <2>4, <2>5 DEF TransportTypes
<1>8. \A u \in Ends : \A f \in Decisions :
        /\ Says(writes'[u], f) => Says(writes[u], f) \/ (u = e /\ Says(frames, f))
        /\ Says(wire'[u], f) => Says(wire[u], f)
  BY ZenonT(60), <1>0, <1>1, <1>3, <1>5, SaysShort
<1>9. \A u \in Ends : ConfirmSent(u)' => ConfirmSent(u)
  BY <1>0, <1>3 DEF ConfirmSent
<1>10. Says(wire[e], "Confirm") => Says(wire'[e], "Confirm")
  BY <1>5 DEF Decisions
<1> QED BY <1>1, <1>2, <1>3, <1>7, <1>8, <1>9, <1>10 DEF Moves

\* So is queueing frames, whatever becomes of the socket.
LEMMA EnqueueMoves ==
  ASSUME NEW e \in Ends, NEW cause, NEW frames \in Seq(Frames), TransportTypes,
         Ready(e, cause), Enqueue(e, cause, frames),
         socket' \in [Ends -> {"open", "flushing", "closed"}],
         socket'[Other(e)] = socket[Other(e)]
  PROVE  Moves(e, cause, frames)
<1> DEFINE o == Other(e)
<1> DEFINE left == Unread(e, cause)
<1> DEFINE rest == Rest(e, cause)
<1>0. o \in Ends /\ o # e /\ \A u \in Ends : u = e \/ u = o
  BY TwoEnds
<1>1. /\ left \in [Ends -> Seq(Frames \cup {"EOF"})]
      /\ left[e] = wire[e]
      /\ \A f : Says(left[o], f) => Says(wire[o], f)
      /\ \A f : Says(wire[o], f) =>
              Says(left[o], f) \/ (cause = "frame" /\ Head(wire[o]) = f)
  BY UnreadFacts
<1>2. rest \in Seq(Frames) /\ \A f : Says(rest, f) => Says(writes[e], f)
  BY RestFacts
<1>3. cause # "completion" => rest = writes[e]
  BY DEF Rest
<1> HIDE DEF left, rest
<1>4. /\ writes' = [writes EXCEPT ![e] = rest \o frames]
      /\ sent' = [sent EXCEPT ![e] = @ /\ cause # "completion"]
      /\ wire' = left
      /\ broken' = broken
  BY DEF Enqueue, left, rest
<1>5. rest \o frames \in Seq(Frames)
  BY <1>2
<1>6. /\ writes'[e] = rest \o frames /\ writes'[o] = writes[o]
      /\ sent'[e] = (sent[e] /\ cause # "completion") /\ sent'[o] = sent[o]
  BY <1>0, <1>4 DEF TransportTypes
<1>7. sent'[e] => /\ writes'[e] # <<>> /\ sent[e]
                  /\ Head(writes'[e]) = Head(writes[e])
  <2> SUFFICES ASSUME sent'[e]
               PROVE  writes'[e] # <<>> /\ sent[e] /\ Head(writes'[e]) = Head(writes[e])
    OBVIOUS
  <2>1. sent[e] /\ cause # "completion" /\ writes[e] # <<>>
    BY <1>6 DEF TransportTypes
  <2>2. writes'[e] = writes[e] \o frames /\ writes[e] \in Seq(Frames)
    BY <1>3, <1>6, <2>1 DEF TransportTypes
  <2> QED BY <2>1, <2>2
<1>8. TransportTypes'
  <2>1. writes' \in [Ends -> Seq(Frames)] /\ wire' \in [Ends -> Seq(Frames \cup {"EOF"})]
    BY <1>1, <1>4, <1>5 DEF TransportTypes
  <2>2. sent' \in [Ends -> BOOLEAN] /\ broken' \in BOOLEAN
    BY <1>4 DEF TransportTypes
  <2>3. \A u \in Ends : sent'[u] => writes'[u] # <<>>
    BY <1>0, <1>6, <1>7 DEF TransportTypes
  <2> QED BY <2>1, <2>2, <2>3 DEF TransportTypes
<1>9. \A f \in Decisions : Says(writes'[e], f) => Says(writes[e], f) \/ Says(frames, f)
  BY <1>2, <1>6, SaysConcat
<1>10. \A u \in Ends : ConfirmSent(u)' => ConfirmSent(u)
  BY <1>0, <1>6, <1>7 DEF ConfirmSent
<1> QED BY <1>0, <1>1, <1>4, <1>6, <1>8, <1>9, <1>10 DEF Moves

\* The two ways Apply leaves the transport.
LEMMA ApplyMoves ==
  ASSUME NEW e \in Ends, NEW cause, NEW frames \in Seq(Frames), TransportTypes,
         Ready(e, cause), Continue(e, cause, frames) \/ Finish(e, cause, frames)
  PROVE  Moves(e, cause, frames)
<1>1. CASE Continue(e, cause, frames)
  <2>1. Enqueue(e, cause, frames) /\ socket' = socket
    BY <1>1 DEF Continue
  <2> QED BY <2>1, EnqueueMoves DEF TransportTypes
<1>2. CASE Finish(e, cause, frames)
  <2>1. CASE CloseTransport(e, cause)
    BY <2>1, CloseMoves
  <2>2. CASE Enqueue(e, cause, frames) /\ socket' = [socket EXCEPT ![e] = "flushing"]
    <3>1. /\ socket' \in [Ends -> {"open", "flushing", "closed"}]
          /\ socket'[Other(e)] = socket[Other(e)]
      BY <2>2, TwoEnds DEF TransportTypes
    <3> QED BY <2>2, <3>1, EnqueueMoves
  <2> QED BY <1>2, <2>1, <2>2 DEF Finish
<1> QED BY <1>1, <1>2

------------------------------------------------------------------------------
(* The invariant                                                             *)

AttemptTypes ==
  /\ state \in [Ends -> States]
  /\ decision \in [Ends -> {"none", "Confirm"}]
  /\ written \in [Ends -> BOOLEAN]
  /\ ackPending \in [Ends -> BOOLEAN]
  /\ confirmed \in [Ends -> BOOLEAN]
  /\ lease \in [Ends -> {"active", "revoked", "released"}]
  /\ replay \in [Ends -> {"reserved", "bound", "kept", "released"}]
  /\ trust \in [Ends -> BOOLEAN]
  /\ user \in [Ends -> Decisions \cup {"none"}]
  /\ error \in [Ends -> {"none", "rejected", "cancelled", "timeout", "busy", "internal",
                         "violation", "peer"}]

\* What an attempt holds in each state, and that it remembers its user's decision
\* as long as it runs.
Local(e) ==
  /\ ~Terminal(e) => /\ decision[e] = user[e] /\ socket[e] = "open"
                     /\ replay[e] \in {"reserved", "bound"}
  /\ ~Terminal(e) /\ user[e] # "none" => state[e] = "AwaitingDecisions"
  /\ state[e] = "AwaitingDecisions" => replay[e] = "bound"
  /\ Terminal(e) => lease[e] = "released" /\ replay[e] \in {"kept", "released"}
  /\ Terminal(e) /\ user[e] # "none" => replay[e] = "kept"

\* A decision queued or on the wire is the user's.
Spoken(e) ==
  \A f \in Decisions : Says(writes[e], f) \/ Says(wire[e], f) => user[e] = f

\* What an attempt learned, or trusts, is what the peer's user decided.
Heard(e) ==
  /\ confirmed[e] => user[Other(e)] = "Confirm"
  /\ trust[e] => \A u \in Ends : user[u] = "Confirm"

\* The peer knows of the confirmation, or will read it, unless it is over.
Announced(e) ==
  broken \/ Terminal(Other(e)) \/ confirmed[Other(e)] \/ Says(wire[e], "Confirm")

\* A confirmation whose write was completed, or is under way, is announced.
Told(e) == written[e] \/ trust[e] \/ ConfirmSent(e) => Announced(e)

EndInv(e) == Local(e) /\ Spoken(e) /\ Heard(e) /\ Told(e)

Inv == AttemptTypes /\ TransportTypes /\ \A e \in Ends : EndInv(e)

\* A step of the attempt of e that keeps the invariant, given its transport moves.
Sound(e, cause, frames) ==
  /\ AttemptTypes'
  /\ LET o == Other(e) IN
       /\ state'[o] = state[o] /\ decision'[o] = decision[o] /\ lease'[o] = lease[o]
       /\ replay'[o] = replay[o] /\ confirmed'[o] = confirmed[o]
       /\ written'[o] = written[o] /\ trust'[o] = trust[o] /\ user'[o] = user[o]
       /\ confirmed'[e] => user[o] = "Confirm"
       /\ trust'[e] => trust[e] \/ (user[e] = "Confirm" /\ user[o] = "Confirm")
       /\ \/ Terminal(e)'
          \/ /\ ~Terminal(e)
             /\ confirmed[e] => confirmed'[e]
             /\ cause = "frame" /\ Head(wire[o]) = "Confirm" => confirmed'[e]
  /\ user'[e] = user[e] \/ user[e] = "none"
  /\ \A f \in Decisions : Says(frames, f) => user'[e] = f
  /\ Local(e)'
  /\ written'[e] \/ trust'[e] => written[e] \/ trust[e] \/ ConfirmSent(e)

\* A sound step with a moving transport keeps the invariant: one step for each of
\* its parts, at the end that moves and at its peer.
LEMMA SoundStep ==
  ASSUME Inv, NEW e \in Ends, NEW cause, NEW frames, Moves(e, cause, frames),
         Sound(e, cause, frames)
  PROVE  Inv'
<1> DEFINE o == Other(e)
<1>0. o \in Ends /\ o # e /\ Other(o) = e /\ \A u \in Ends : u = e \/ u = o
  BY TwoEnds
<1> HIDE DEF o
<1>1. EndInv(e) /\ EndInv(o)
  BY <1>0 DEF Inv
<1>2. /\ AttemptTypes'
      /\ state'[o] = state[o] /\ decision'[o] = decision[o] /\ lease'[o] = lease[o]
      /\ replay'[o] = replay[o] /\ confirmed'[o] = confirmed[o]
      /\ written'[o] = written[o] /\ trust'[o] = trust[o] /\ user'[o] = user[o]
      /\ confirmed'[e] => user[o] = "Confirm"
      /\ trust'[e] => trust[e] \/ (user[e] = "Confirm" /\ user[o] = "Confirm")
      /\ \/ Terminal(e)'
         \/ /\ ~Terminal(e)
            /\ confirmed[e] => confirmed'[e]
            /\ cause = "frame" /\ Head(wire[o]) = "Confirm" => confirmed'[e]
      /\ user'[e] = user[e] \/ user[e] = "none"
      /\ \A f \in Decisions : Says(frames, f) => user'[e] = f
      /\ Local(e)'
      /\ written'[e] \/ trust'[e] => written[e] \/ trust[e] \/ ConfirmSent(e)
  BY DEF Sound, o
<1>3. /\ TransportTypes'
      /\ \A u \in Ends : \A f \in Decisions :
           /\ Says(writes'[u], f) => Says(writes[u], f) \/ (u = e /\ Says(frames, f))
           /\ Says(wire'[u], f) => Says(wire[u], f)
      /\ \A u \in Ends : ConfirmSent(u)' => ConfirmSent(u)
      /\ Says(wire[e], "Confirm") => Says(wire'[e], "Confirm")
      /\ Says(wire[o], "Confirm") =>
           Says(wire'[o], "Confirm") \/ (cause = "frame" /\ Head(wire[o]) = "Confirm")
      /\ socket'[o] = socket[o]
      /\ broken' = broken
  BY DEF Moves, o
<1>4. Local(o)'
  BY <1>1, <1>2, <1>3 DEF EndInv, Local, Terminal
<1>5. Spoken(e)'
  BY <1>1, <1>2, <1>3 DEF EndInv, Spoken, Decisions
<1>6. Spoken(o)'
  BY <1>0, <1>1, <1>2, <1>3 DEF EndInv, Spoken
<1>7. Heard(e)' /\ Heard(o)'
  <2>1. user[e] = "Confirm" => user'[e] = "Confirm"
    BY <1>2
  <2>2. (confirmed[o] => user[e] = "Confirm") /\ (confirmed'[e] => user'[o] = "Confirm")
    BY <1>0, <1>1, <1>2 DEF EndInv, Heard
  <2>3. trust[e] \/ trust[o] => user[e] = "Confirm" /\ user[o] = "Confirm"
    BY <1>0, <1>1 DEF EndInv, Heard
  <2>4. trust'[e] \/ trust'[o] => user'[e] = "Confirm" /\ user'[o] = "Confirm"
    BY <1>2, <2>1, <2>3
  <2>5. trust'[e] \/ trust'[o] => \A u \in Ends : user'[u] = "Confirm"
    BY <1>0, <2>4
  <2> QED BY <1>0, <1>2, <2>1, <2>2, <2>5 DEF Heard, o
<1>8. Told(e)'
  <2>1. Announced(e) => Announced(e)'
    BY <1>2, <1>3 DEF Announced, Terminal, o
  <2> QED BY <1>0, <1>1, <1>2, <1>3, <2>1 DEF EndInv, Told
<1>9. Told(o)'
  <2>1. Announced(o) => Announced(o)'
    BY <1>0, <1>2, <1>3 DEF Announced, Terminal
  <2>2. written'[o] \/ trust'[o] \/ ConfirmSent(o)' => written[o] \/ trust[o] \/ ConfirmSent(o)
    BY <1>0, <1>2, <1>3
  <2> QED BY <1>1, <2>1, <2>2 DEF EndInv, Told
<1>10. EndInv(e)' /\ EndInv(o)'
  BY <1>2, <1>4, <1>5, <1>6, <1>7, <1>8, <1>9 DEF EndInv
<1> QED BY <1>0, <1>2, <1>3, <1>10 DEF Inv

------------------------------------------------------------------------------
(* The effects on an attempt                                                 *)

Reasons == {"rejected", "cancelled", "timeout", "busy", "internal", "violation", "peer"}

\* Closing a running attempt is sound, also in the step in which its user rejects.
LEMMA CloseSound ==
  ASSUME Inv, NEW e \in Ends, ~Terminal(e), NEW why \in Reasons, Close(e, why),
         user' \in [Ends -> Decisions \cup {"none"}], user'[Other(e)] = user[Other(e)],
         \/ user'[e] = user[e]
         \/ user[e] = "none" /\ state[e] = "AwaitingDecisions",
         NEW cause, NEW frames, \A f \in Decisions : Says(frames, f) => user'[e] = f
  PROVE  Sound(e, cause, frames)
<1> DEFINE o == Other(e)
<1>0. o \in Ends /\ o # e
  BY TwoEnds
<1>1. AttemptTypes /\ Local(e) /\ Heard(e)
  BY DEF Inv, EndInv
<1>2. /\ state' = [state EXCEPT ![e] = "Closed"]
      /\ error' = [error EXCEPT ![e] = why]
      /\ trust' = trust
      /\ replay' = [replay EXCEPT ![e] = Committed(@)]
      /\ decision' = [decision EXCEPT ![e] = "none"]
      /\ ackPending' = [ackPending EXCEPT ![e] = FALSE]
      /\ written' = [written EXCEPT ![e] = FALSE]
      /\ confirmed' = [confirmed EXCEPT ![e] = FALSE]
      /\ lease' = [lease EXCEPT ![e] = "released"]
  BY DEF Close, FinalizeResources
<1>3. AttemptTypes'
  BY <1>1, <1>2 DEF AttemptTypes, Committed, States, Reasons
<1>4. /\ state'[e] = "Closed" /\ lease'[e] = "released" /\ replay'[e] = Committed(replay[e])
      /\ ~written'[e] /\ ~confirmed'[e]
  BY <1>1, <1>2 DEF AttemptTypes
<1>5. user'[e] # "none" => replay[e] = "bound"
  BY <1>1 DEF Local
<1>6. Local(e)'
  BY <1>4, <1>5 DEF Local, Terminal, TerminalStates, Committed
<1>7. /\ state'[o] = state[o] /\ decision'[o] = decision[o] /\ lease'[o] = lease[o]
      /\ replay'[o] = replay[o] /\ confirmed'[o] = confirmed[o]
      /\ written'[o] = written[o] /\ trust'[o] = trust[o]
  BY <1>0, <1>1, <1>2 DEF AttemptTypes
<1>8. Terminal(e)'
  BY <1>4 DEF Terminal, TerminalStates
<1> QED BY <1>2, <1>3, <1>4, <1>6, <1>7, <1>8 DEF Sound

\* Committing the peer is sound when both users confirmed and the local decision
\* has been written.
LEMMA PairedSound ==
  ASSUME Inv, NEW e \in Ends, ~Terminal(e), Paired(e), user' = user,
         decision[e] = "Confirm", user[Other(e)] = "Confirm",
         written[e] \/ ConfirmSent(e), NEW cause
  PROVE  Sound(e, cause, <<>>)
<1> DEFINE o == Other(e)
<1>0. o \in Ends /\ o # e
  BY TwoEnds
<1>1. AttemptTypes /\ Local(e) /\ user[e] = "Confirm" /\ replay[e] = "bound"
  BY DEF Inv, EndInv, Local
<1>2. /\ state' = [state EXCEPT ![e] = "PairedLocal"]
      /\ error' = error
      /\ trust' = [trust EXCEPT ![e] = TRUE]
      /\ replay' = [replay EXCEPT ![e] = Committed(@)]
      /\ decision' = [decision EXCEPT ![e] = "none"]
      /\ ackPending' = [ackPending EXCEPT ![e] = FALSE]
      /\ written' = [written EXCEPT ![e] = FALSE]
      /\ confirmed' = [confirmed EXCEPT ![e] = FALSE]
      /\ lease' = [lease EXCEPT ![e] = "released"]
  BY DEF Paired, FinalizeResources
<1>3. AttemptTypes'
  BY <1>1, <1>2 DEF AttemptTypes, Committed, States
<1>4. /\ state'[e] = "PairedLocal" /\ lease'[e] = "released" /\ replay'[e] = "kept"
      /\ ~confirmed'[e]
  BY <1>1, <1>2 DEF AttemptTypes, Committed
<1>5. Local(e)' /\ Terminal(e)'
  BY <1>4 DEF Local, Terminal, TerminalStates
<1>6. /\ state'[o] = state[o] /\ decision'[o] = decision[o] /\ lease'[o] = lease[o]
      /\ replay'[o] = replay[o] /\ confirmed'[o] = confirmed[o]
      /\ written'[o] = written[o] /\ trust'[o] = trust[o]
  BY <1>0, <1>1, <1>2 DEF AttemptTypes
<1> QED BY <1>1, <1>3, <1>4, <1>5, <1>6, SaysShort DEF Sound

\* A step that leaves an attempt running and its lease, reservation and user alone.
LEMMA RunningSound ==
  ASSUME Inv, NEW e \in Ends, ~Terminal(e), NEW cause, NEW frames,
         AttemptTypes', trust' = trust, user' = user, socket' = socket,
         NEW s \in States \ TerminalStates, state' = [state EXCEPT ![e] = s],
         s # state[e] => user[e] = "none",
         replay' = replay \/ replay' = [replay EXCEPT ![e] = "bound"],
         s = "AwaitingDecisions" => replay'[e] = "bound",
         decision' = decision,
         lease'[Other(e)] = lease[Other(e)],
         NEW w \in BOOLEAN, written' = [written EXCEPT ![e] = w],
         w => written[e] \/ ConfirmSent(e),
         NEW c \in BOOLEAN, confirmed' = [confirmed EXCEPT ![e] = c],
         confirmed[e] => c, c => user[Other(e)] = "Confirm",
         cause = "frame" /\ Head(wire[Other(e)]) = "Confirm" => c,
         \A f \in Decisions : ~Says(frames, f)
  PROVE  Sound(e, cause, frames)
<1> DEFINE o == Other(e)
<1>0. o \in Ends /\ o # e
  BY TwoEnds
<1>1. AttemptTypes /\ Local(e) /\ Heard(e)
  BY DEF Inv, EndInv
<1>2. state'[e] = s /\ written'[e] = w /\ confirmed'[e] = c
  BY SMTT(30), <1>1 DEF AttemptTypes
<1>3. ~Terminal(e)'
  BY <1>2 DEF Terminal
<1>4. replay'[e] \in {"reserved", "bound"}
  BY SMTT(30), <1>1 DEF Local, AttemptTypes
<1>5. Local(e)'
  BY <1>1, <1>2, <1>3, <1>4 DEF Local
<1>6. /\ state'[o] = state[o] /\ decision'[o] = decision[o] /\ lease'[o] = lease[o]
      /\ replay'[o] = replay[o] /\ confirmed'[o] = confirmed[o]
      /\ written'[o] = written[o] /\ trust'[o] = trust[o] /\ user'[o] = user[o]
  BY SMTT(30), <1>0, <1>1 DEF AttemptTypes
<1> QED BY <1>2, <1>5, <1>6 DEF Sound

\* A step of a socket whose attempt has ended leaves the attempt alone.
LEMMA EndedSound ==
  ASSUME Inv, NEW e \in Ends, socket[e] # "open", UNCHANGED <<attempt, trust, user>>,
         NEW cause
  PROVE  Sound(e, cause, <<>>)
<1>1. AttemptTypes /\ Local(e) /\ Heard(e)
  BY DEF Inv, EndInv
<1>2. /\ state' = state /\ decision' = decision /\ written' = written
      /\ ackPending' = ackPending /\ confirmed' = confirmed /\ lease' = lease
      /\ replay' = replay /\ error' = error /\ trust' = trust /\ user' = user
  BY DEF attempt
<1>3. Terminal(e)
  BY <1>1 DEF Local
<1>4. AttemptTypes' /\ Local(e)' /\ Terminal(e)'
  BY <1>1, <1>2, <1>3 DEF AttemptTypes, Local, Terminal
<1>5. confirmed'[e] => user[Other(e)] = "Confirm"
  BY <1>1, <1>2 DEF Heard
<1> QED BY <1>2, <1>4, <1>5, SaysShort DEF Sound

------------------------------------------------------------------------------
(* The actions                                                               *)

\* A running attempt that closes, whatever is then flushed, keeps the invariant.
LEMMA CloseKeeps ==
  ASSUME Inv, NEW e \in Ends, ~Terminal(e), NEW why \in Reasons, Close(e, why),
         user' = user, NEW cause, Ready(e, cause), NEW frames \in {<<>>, <<"Abort">>},
         Finish(e, cause, frames) \/ CloseTransport(e, cause)
  PROVE  Inv'
<1>1. frames \in Seq(Frames) /\ \A f \in Decisions : ~Says(frames, f)
  <2>1. CASE frames = <<>>
    BY <2>1, NothingSaid
  <2>2. CASE frames = <<"Abort">>
    BY <2>2, SaysShort DEF Frames, Decisions
  <2> QED BY <2>1, <2>2
<1>2. TransportTypes /\ AttemptTypes
  BY DEF Inv
<1>3. Moves(e, cause, frames)
  BY <1>1, <1>2, ApplyMoves, CloseMoves
<1>4. user' \in [Ends -> Decisions \cup {"none"}]
  BY <1>2 DEF AttemptTypes
<1>5. Sound(e, cause, frames)
  BY <1>1, <1>4, CloseSound
<1> QED BY <1>3, <1>5, SoundStep

\* Sending the hello keeps the invariant.
LEMMA StartKeeps ==
  ASSUME Inv, NEW e \in Ends, Start(e)
  PROVE  Inv'
<1>1. ~Terminal(e) /\ state[e] = "PairingTls" /\ Continue(e, "call", <<"Hello">>)
  BY DEF Start, Running
<1>2. TransportTypes /\ AttemptTypes /\ Local(e) /\ Heard(e)
  BY DEF Inv, EndInv
<1>3. <<"Hello">> \in Seq(Frames) /\ \A f \in Decisions : ~Says(<<"Hello">>, f)
  BY SaysShort DEF Frames, Decisions
<1>4. Moves(e, "call", <<"Hello">>)
  BY <1>1, <1>2, <1>3, ApplyMoves DEF Ready
<1>5. /\ state' = [state EXCEPT ![e] = "ExchangingHellos"]
      /\ socket' = socket /\ decision' = decision /\ written' = written
      /\ ackPending' = ackPending /\ confirmed' = confirmed /\ lease' = lease
      /\ replay' = replay /\ error' = error /\ trust' = trust /\ user' = user
  BY DEF Start, Continue
<1>6. AttemptTypes'
  BY <1>2, <1>5 DEF AttemptTypes, States
<1>7. user[e] = "none"
  BY <1>1, <1>2 DEF Local
<1>8. /\ written' = [written EXCEPT ![e] = written[e]] /\ written[e] \in BOOLEAN
      /\ confirmed' = [confirmed EXCEPT ![e] = confirmed[e]] /\ confirmed[e] \in BOOLEAN
      /\ confirmed[e] => user[Other(e)] = "Confirm"
  BY <1>2, <1>5 DEF AttemptTypes, Heard
<1>9. "ExchangingHellos" \in States \ TerminalStates
  BY DEF States, TerminalStates
<1>10. Sound(e, "call", <<"Hello">>)
  BY <1>1, <1>3, <1>5, <1>6, <1>7, <1>8, <1>9, RunningSound
<1> QED BY <1>4, <1>10, SoundStep

\* The user's decision keeps the invariant: no decision was queued before it.
LEMMA DecideKeeps ==
  ASSUME Inv, NEW e \in Ends, NEW d \in Decisions, Decide(e, d)
  PROVE  Inv'
<1> DEFINE o == Other(e)
<1>0. o \in Ends /\ o # e
  BY TwoEnds
<1>1. ~Terminal(e) /\ state[e] = "AwaitingDecisions" /\ decision[e] = "none"
      /\ user' = [user EXCEPT ![e] = d]
  BY DEF Decide, Running
<1>2. TransportTypes /\ AttemptTypes /\ Local(e) /\ Heard(e)
  BY DEF Inv, EndInv
<1>3. user[e] = "none" /\ replay[e] = "bound"
  BY <1>1, <1>2 DEF Local
<1>4. /\ user' \in [Ends -> Decisions \cup {"none"}] /\ user'[o] = user[o] /\ user'[e] = d
  BY <1>0, <1>1, <1>2 DEF AttemptTypes
<1>5. <<d>> \in Seq(Frames) /\ \A f \in Decisions : Says(<<d>>, f) => user'[e] = f
  BY <1>4, SaysShort DEF Frames
<1>6. CASE d = "Reject"
  <2>1. Close(e, "rejected") /\ Finish(e, "call", <<d>>)
    BY <1>6 DEF Decide
  <2>2. Moves(e, "call", <<d>>)
    BY <1>2, <1>5, <2>1, ApplyMoves DEF Ready
  <2>3. Sound(e, "call", <<d>>)
    BY <1>1, <1>3, <1>4, <1>5, <2>1, CloseSound DEF Reasons
  <2> QED BY <2>2, <2>3, SoundStep
<1>7. CASE d # "Reject"
  <2>1. d = "Confirm"
    BY <1>7 DEF Decisions
  <2>2. /\ decision' = [decision EXCEPT ![e] = d] /\ Continue(e, "call", <<d>>)
        /\ state' = state /\ written' = written /\ ackPending' = ackPending
        /\ confirmed' = confirmed /\ lease' = lease /\ replay' = replay
        /\ error' = error /\ trust' = trust
    BY <1>7 DEF Decide
  <2>3. Moves(e, "call", <<d>>) /\ socket' = socket
    BY <1>2, <1>5, <2>2, ApplyMoves DEF Ready, Continue
  <2>4. AttemptTypes' /\ decision'[e] = d /\ decision'[o] = decision[o]
    BY <1>0, <1>2, <1>4, <2>1, <2>2 DEF AttemptTypes
  <2>5. Local(e)'
    BY <1>1, <1>2, <1>4, <2>2, <2>3, <2>4 DEF Local, Terminal, TerminalStates
  <2>6. confirmed'[e] => user[o] = "Confirm"
    BY <1>2, <2>2 DEF Heard
  <2>7. Sound(e, "call", <<d>>)
    BY <1>1, <1>3, <1>4, <1>5, <2>2, <2>4, <2>5, <2>6 DEF Sound
  <2> QED BY <2>3, <2>7, SoundStep
<1> QED BY <1>6, <1>7

\* Losing the lease keeps the invariant: the attempt has not noticed yet.
LEMMA RevokeKeeps ==
  ASSUME Inv, NEW e \in Ends, Revoke(e)
  PROVE  Inv'
<1>1. ~Terminal(e) /\ lease' = [lease EXCEPT ![e] = "revoked"]
  BY DEF Revoke, Running
<1>2. /\ state' = state /\ decision' = decision /\ written' = written
      /\ ackPending' = ackPending /\ confirmed' = confirmed /\ replay' = replay
      /\ error' = error /\ trust' = trust /\ user' = user /\ socket' = socket
      /\ writes' = writes /\ sent' = sent /\ wire' = wire /\ broken' = broken
  BY DEF Revoke, transport
<1>3. AttemptTypes' /\ TransportTypes'
  BY <1>1, <1>2 DEF Inv, AttemptTypes, TransportTypes
<1>4. \A u \in Ends : EndInv(u)'
  <2> SUFFICES ASSUME NEW u \in Ends PROVE EndInv(u)'
    OBVIOUS
  <2>1. EndInv(u) /\ AttemptTypes
    BY DEF Inv
  <2>2. Terminal(u) => lease'[u] = lease[u]
    BY <1>1, <2>1 DEF AttemptTypes
  <2>3. Local(u)'
    BY <1>2, <2>1, <2>2 DEF EndInv, Local, Terminal
  <2>4. Spoken(u)' /\ Heard(u)'
    BY <1>2, <2>1 DEF EndInv, Spoken, Heard
  <2>5. Told(u)'
    BY <1>2, <2>1 DEF EndInv, Told, Announced, ConfirmSent, Terminal
  <2> QED BY <2>3, <2>4, <2>5 DEF EndInv
<1> QED BY <1>3, <1>4 DEF Inv

\* The selection is complete and the prompt shown.
LEMMA CompleteSelectionKeeps ==
  ASSUME Inv, NEW e \in Ends, ~Terminal(e), state[e] = "Selecting", NEW cause,
         Ready(e, cause), CompleteSelection(e, cause), user' = user,
         cause = "frame" => Head(wire[Other(e)]) # "Confirm"
  PROVE  Inv'
<1>1. TransportTypes /\ AttemptTypes /\ Local(e) /\ Heard(e)
  BY DEF Inv, EndInv
<1>2. /\ state' = [state EXCEPT ![e] = "AwaitingDecisions"]
      /\ replay' = [replay EXCEPT ![e] = "bound"]
      /\ ackPending' = [ackPending EXCEPT ![e] = FALSE]
      /\ Continue(e, cause, <<>>)
      /\ decision' = decision /\ written' = written /\ confirmed' = confirmed
      /\ lease' = lease /\ error' = error /\ trust' = trust
  BY DEF CompleteSelection
<1>3. <<>> \in Seq(Frames) /\ \A f \in Decisions : ~Says(<<>>, f)
  BY NothingSaid
<1>4. Moves(e, cause, <<>>) /\ socket' = socket
  BY <1>1, <1>2, <1>3, ApplyMoves DEF Continue
<1>5. AttemptTypes' /\ replay'[e] = "bound"
  BY <1>1, <1>2 DEF AttemptTypes, States
<1>6. user[e] = "none"
  BY <1>1 DEF Local
<1>7. /\ written' = [written EXCEPT ![e] = written[e]] /\ written[e] \in BOOLEAN
      /\ confirmed' = [confirmed EXCEPT ![e] = confirmed[e]] /\ confirmed[e] \in BOOLEAN
      /\ confirmed[e] => user[Other(e)] = "Confirm"
  BY <1>1, <1>2 DEF AttemptTypes, Heard
<1>8. "AwaitingDecisions" \in States \ TerminalStates
  BY DEF States, TerminalStates
<1>9. Sound(e, cause, <<>>)
  BY <1>2, <1>3, <1>4, <1>5, <1>6, <1>7, <1>8, RunningSound
<1> QED BY <1>4, <1>9, SoundStep

\* A decision was written or received, and perhaps the peer committed.
LEMMA MaybeCommitKeeps ==
  ASSUME Inv, NEW e \in Ends, ~Terminal(e), NEW cause, Ready(e, cause),
         NEW w \in BOOLEAN, NEW c \in BOOLEAN, MaybeCommit(e, cause, w, c), user' = user,
         w => written[e] \/ ConfirmSent(e), confirmed[e] => c,
         c => user[Other(e)] = "Confirm",
         cause = "frame" /\ Head(wire[Other(e)]) = "Confirm" => c
  PROVE  Inv'
<1>1. TransportTypes /\ AttemptTypes /\ Local(e) /\ Heard(e)
  BY DEF Inv, EndInv
<1>2. <<>> \in Seq(Frames) /\ \A f \in Decisions : ~Says(<<>>, f)
  BY NothingSaid
<1>3. CASE ReadyToCommit(e, w, c) /\ Close(e, "internal") /\ Finish(e, cause, <<>>)
  BY <1>3, CloseKeeps DEF Reasons
<1>4. CASE ReadyToCommit(e, w, c) /\ Paired(e) /\ Finish(e, cause, <<>>)
  <2>1. decision[e] = "Confirm" /\ w /\ c
    BY <1>4 DEF ReadyToCommit
  <2>2. Sound(e, cause, <<>>)
    BY <1>4, <2>1, PairedSound
  <2>3. Moves(e, cause, <<>>)
    BY <1>1, <1>2, <1>4, ApplyMoves
  <2> QED BY <2>2, <2>3, SoundStep
<1>5. CASE ~ReadyToCommit(e, w, c)
  <2>1. /\ written' = [written EXCEPT ![e] = w]
        /\ confirmed' = [confirmed EXCEPT ![e] = c]
        /\ Continue(e, cause, <<>>)
        /\ state' = state /\ decision' = decision /\ ackPending' = ackPending
        /\ lease' = lease /\ replay' = replay /\ error' = error /\ trust' = trust
    BY <1>5 DEF MaybeCommit
  <2>2. Moves(e, cause, <<>>) /\ socket' = socket
    BY <1>1, <1>2, <2>1, ApplyMoves DEF Continue
  <2>3. AttemptTypes'
    BY <1>1, <2>1 DEF AttemptTypes
  <2>4. state' = [state EXCEPT ![e] = state[e]] /\ state[e] \in States \ TerminalStates
    BY <1>1, <2>1 DEF AttemptTypes, Terminal
  <2>5. state[e] = "AwaitingDecisions" => replay'[e] = "bound"
    BY <1>1, <2>1 DEF Local
  <2>6. Sound(e, cause, <<>>)
    BY <1>2, <2>1, <2>2, <2>3, <2>4, <2>5, RunningSound
  <2> QED BY <2>2, <2>6, SoundStep
<1> QED BY <1>3, <1>4, <1>5 DEF MaybeCommit

\* Every frame read from the peer keeps the invariant.
LEMMA ReceiveFrameKeeps ==
  ASSUME Inv, NEW e \in Ends, ReceiveFrame(e)
  PROVE  Inv'
<1> DEFINE o == Other(e)
<1> DEFINE f == Head(wire[o])
<1>0. o \in Ends /\ o # e
  BY TwoEnds
<1>1. ~Terminal(e) /\ Ready(e, "frame") /\ user' = user /\ wire[o] # <<>>
  BY DEF ReceiveFrame, Incoming, Running, Ready
<1>2. TransportTypes /\ AttemptTypes /\ Local(e) /\ Heard(e) /\ Spoken(o)
  BY <1>0 DEF Inv, EndInv
<1>3. /\ \A g : ~Says(<<>>, g)
      /\ <<"Select">> \in Seq(Frames) /\ <<"SelectAck">> \in Seq(Frames) /\ <<>> \in Seq(Frames)
      /\ \A g \in Decisions : ~Says(<<"Select">>, g) /\ ~Says(<<"SelectAck">>, g)
  BY NothingSaid, SaysShort DEF Frames, Decisions
<1>4. /\ written = [written EXCEPT ![e] = written[e]] /\ written[e] \in BOOLEAN
      /\ confirmed = [confirmed EXCEPT ![e] = confirmed[e]] /\ confirmed[e] \in BOOLEAN
      /\ confirmed[e] => user[o] = "Confirm"
  BY <1>2 DEF AttemptTypes, Heard
<1>5. Violation(e, "frame") => Inv'
  BY <1>1, CloseKeeps DEF Violation, Reasons
<1>6. CASE f = "Hello" /\ ReceiveHello(e)
  <2>1. CASE state[e] = "ExchangingHellos"
    <3> DEFINE frames == IF e = "initiator" THEN <<"Select">> ELSE <<>>
    <3>1. frames \in Seq(Frames) /\ \A g \in Decisions : ~Says(frames, g)
      BY <1>3
    <3> HIDE DEF frames
    <3>2. /\ state' = [state EXCEPT ![e] = "Selecting"]
          /\ Continue(e, "frame", frames)
          /\ decision' = decision /\ written' = written /\ ackPending' = ackPending
          /\ confirmed' = confirmed /\ lease' = lease /\ replay' = replay
          /\ error' = error /\ trust' = trust
      BY <1>6, <2>1 DEF ReceiveHello, frames
    <3>3. Moves(e, "frame", frames) /\ socket' = socket
      BY <1>1, <1>2, <3>1, <3>2, ApplyMoves DEF Continue
    <3>4. AttemptTypes' /\ user[e] = "none"
      BY <1>1, <1>2, <2>1, <3>2 DEF AttemptTypes, States, Local
    <3>5. "Selecting" \in States \ TerminalStates /\ f # "Confirm"
      BY <1>6 DEF States, TerminalStates
    <3>6. Sound(e, "frame", frames)
      BY <1>1, <1>4, <3>1, <3>2, <3>3, <3>4, <3>5, RunningSound
    <3> QED BY <3>3, <3>6, SoundStep
  <2> QED BY <1>5, <1>6, <2>1 DEF ReceiveHello
<1>7. CASE f \in {"Select", "SelectAck"} /\ ReceiveSelection(e, f)
  <2>1. CASE state[e] = "Selecting" /\ CompleteSelection(e, "frame")
    <3>1. f # "Confirm"
      BY <1>7
    <3> QED BY <1>1, <2>1, <3>1, CompleteSelectionKeeps
  <2>2. CASE /\ state[e] = "Selecting"
             /\ ackPending' = [ackPending EXCEPT ![e] = TRUE]
             /\ Continue(e, "frame", <<"SelectAck">>)
             /\ UNCHANGED <<state, decision, written, confirmed, lease, replay, error, trust>>
    <3>1. /\ state' = state /\ decision' = decision /\ written' = written
          /\ confirmed' = confirmed /\ lease' = lease /\ replay' = replay
          /\ error' = error /\ trust' = trust
      BY <2>2
    <3>2. Moves(e, "frame", <<"SelectAck">>) /\ socket' = socket
      BY <1>1, <1>2, <1>3, <2>2, ApplyMoves DEF Continue
    <3>3. AttemptTypes' /\ state' = [state EXCEPT ![e] = state[e]]
      BY <1>1, <1>2, <2>2, <3>1 DEF AttemptTypes
    <3>4. state[e] \in States \ TerminalStates /\ f # "Confirm" /\ state[e] # "AwaitingDecisions"
      BY <1>7, <2>2 DEF States, TerminalStates
    <3>5. Sound(e, "frame", <<"SelectAck">>)
      BY <1>1, <1>3, <1>4, <3>1, <3>2, <3>3, <3>4, RunningSound
    <3> QED BY <3>2, <3>5, SoundStep
  <2> QED BY <1>5, <1>7, <2>1, <2>2 DEF ReceiveSelection
<1>8. CASE f \in Decisions /\ ReceiveDecision(e, f)
  <2>1. CASE Close(e, "peer") /\ Finish(e, "frame", <<>>)
    BY <1>1, <2>1, CloseKeeps DEF Reasons
  <2>2. CASE f # "Reject" /\ MaybeCommit(e, "frame", written[e], TRUE)
    <3>1. f = "Confirm"
      BY <1>8, <2>2 DEF Decisions
    <3>2. wire[o] \in Seq(Frames \cup {"EOF"}) /\ Says(wire[o], f)
      <4>1. wire[o] \in Seq(Frames \cup {"EOF"})
        BY <1>0, <1>2 DEF TransportTypes
      <4>2. wire[o][1] = f /\ 1 \in 1..Len(wire[o])
        BY <1>1, <4>1
      <4> QED BY <4>1, <4>2 DEF Says
    <3>3. user[o] = "Confirm"
      BY <1>2, <1>8, <3>1, <3>2 DEF Spoken
    <3> QED BY <1>1, <1>4, <2>2, <3>3, MaybeCommitKeeps
  <2> QED BY <1>5, <1>8, <2>1, <2>2 DEF ReceiveDecision
<1>9. CASE f = "Abort" /\ ReceiveAbort(e)
  BY <1>1, <1>9, CloseKeeps DEF ReceiveAbort, Reasons
<1> QED BY <1>6, <1>7, <1>8, <1>9 DEF ReceiveFrame

\* PairingSocket::Fail keeps the invariant.
LEMMA FailKeeps ==
  ASSUME Inv, NEW e \in Ends, ~Terminal(e), NEW cause, Ready(e, cause), Fail(e, cause)
  PROVE  Inv'
BY CloseKeeps DEF Fail, Reasons

\* So does closing the transport of an attempt that has ended.
LEMMA EndedCloseKeeps ==
  ASSUME Inv, NEW e \in Ends, socket[e] # "open", CloseTransport(e, "call"),
         UNCHANGED <<attempt, trust, user>>
  PROVE  Inv'
<1>1. Moves(e, "call", <<>>)
  BY CloseMoves DEF Inv, Ready
<1>2. Sound(e, "call", <<>>)
  BY EndedSound
<1> QED BY <1>1, <1>2, SoundStep

\* The completion of a write keeps the invariant: a confirmation whose write has
\* completed was put on the wire.
LEMMA WriteCompletesKeeps ==
  ASSUME Inv, NEW e \in Ends, WriteCompletes(e)
  PROVE  Inv'
<1>1. sent[e] /\ Ready(e, "completion") /\ user' = user
  BY DEF WriteCompletes, Ready
<1>2. TransportTypes /\ AttemptTypes /\ Local(e) /\ Heard(e)
  BY DEF Inv, EndInv
<1>3. <<>> \in Seq(Frames) /\ \A f : ~Says(<<>>, f)
  BY NothingSaid
<1>4. /\ written[e] \in BOOLEAN /\ confirmed[e] \in BOOLEAN
      /\ confirmed[e] => user[Other(e)] = "Confirm"
  BY <1>2 DEF AttemptTypes, Heard
<1>5. CASE /\ Continue(e, "completion", <<>>) /\ UNCHANGED <<attempt, trust>>
  <2>1. Moves(e, "completion", <<>>) /\ socket' = socket
    BY <1>1, <1>2, <1>3, <1>5, ApplyMoves DEF Continue
  <2>2. /\ state' = state /\ decision' = decision /\ written' = written
        /\ ackPending' = ackPending /\ confirmed' = confirmed /\ lease' = lease
        /\ replay' = replay /\ error' = error /\ trust' = trust
    BY <1>5 DEF attempt
  <2>3. CASE Terminal(e)
    <3>1. Local(e)' /\ Terminal(e)' /\ AttemptTypes'
      BY <1>1, <1>2, <2>1, <2>2, <2>3 DEF Local, Terminal, AttemptTypes
    <3>2. Sound(e, "completion", <<>>)
      BY <1>1, <1>3, <1>4, <2>2, <3>1 DEF Sound
    <3> QED BY <2>1, <3>2, SoundStep
  <2>4. CASE ~Terminal(e)
    <3>1. AttemptTypes' /\ state[e] \in States \ TerminalStates
      BY <1>1, <1>2, <2>2, <2>4 DEF AttemptTypes, Terminal
    <3>2. /\ state' = [state EXCEPT ![e] = state[e]]
          /\ written' = [written EXCEPT ![e] = written[e]]
          /\ confirmed' = [confirmed EXCEPT ![e] = confirmed[e]]
      BY <1>2, <2>2 DEF AttemptTypes
    <3>3. state[e] = "AwaitingDecisions" => replay'[e] = "bound"
      BY <1>2, <2>2 DEF Local
    <3>4. Sound(e, "completion", <<>>)
      BY <1>1, <1>3, <1>4, <2>1, <2>2, <2>4, <3>1, <3>2, <3>3, RunningSound
    <3> QED BY <2>1, <3>4, SoundStep
  <2> QED BY <2>3, <2>4
<1>6. CASE Running(e) /\ Written(e, Head(writes[e]))
  <2>0. ~Terminal(e)
    BY <1>6 DEF Running
  <2>1. CASE state[e] = "Selecting" /\ CompleteSelection(e, "completion")
    BY <1>1, <2>0, <2>1, CompleteSelectionKeeps
  <2>2. CASE /\ Head(writes[e]) = "Confirm"
             /\ MaybeCommit(e, "completion", TRUE, confirmed[e])
    <3>1. ConfirmSent(e)
      BY <1>1, <2>2 DEF ConfirmSent
    <3> QED BY <1>1, <1>4, <2>0, <2>2, <3>1, MaybeCommitKeeps
  <2>3. CASE Violation(e, "completion")
    BY <1>1, <2>0, <2>3, CloseKeeps DEF Violation, Reasons
  <2> QED BY <1>5, <1>6, <2>1, <2>2, <2>3 DEF Written
<1> QED BY <1>5, <1>6 DEF WriteCompletes

\* A frame put on the wire was in the queue.
LEMMA TransmitKeeps ==
  ASSUME Inv, NEW e \in Ends, Transmit(e)
  PROVE  Inv'
<1> DEFINE o == Other(e)
<1> DEFINE h == Head(writes[e])
<1>0. o \in Ends /\ o # e /\ Other(o) = e /\ \A u \in Ends : u = e \/ u = o
  BY TwoEnds
<1>1. TransportTypes /\ AttemptTypes /\ EndInv(e) /\ EndInv(o)
  BY <1>0 DEF Inv
<1>2. /\ writes[e] # <<>>
      /\ sent' = [sent EXCEPT ![e] = TRUE]
      /\ wire' = [wire EXCEPT ![e] = Append(@, h)]
      /\ socket' = socket /\ writes' = writes /\ broken' = broken
      /\ state' = state /\ decision' = decision /\ written' = written
      /\ ackPending' = ackPending /\ confirmed' = confirmed /\ lease' = lease
      /\ replay' = replay /\ error' = error /\ trust' = trust /\ user' = user
  BY DEF Transmit, attempt
<1>3. writes[e] \in Seq(Frames) /\ wire[e] \in Seq(Frames \cup {"EOF"})
  BY <1>1 DEF TransportTypes
<1>4. h \in Frames /\ Says(writes[e], h)
  <2>1. h \in Frames
    BY <1>2, <1>3, SaysTail
  <2>2. writes[e][1] = h /\ 1 \in 1..Len(writes[e])
    BY <1>2, <1>3
  <2> QED BY <2>1, <2>2 DEF Says
<1>5. Append(wire[e], h) \in Seq(Frames \cup {"EOF"})
  BY <1>3, <1>4
<1>6. /\ wire'[e] = Append(wire[e], h) /\ wire'[o] = wire[o]
      /\ sent'[o] = sent[o]
  BY <1>0, <1>1, <1>2 DEF TransportTypes
<1>7. \A f : Says(wire'[e], f) <=> Says(wire[e], f) \/ h = f
  BY SMTT(30), <1>3, <1>4, <1>6, SaysAppend
<1>8. AttemptTypes' /\ TransportTypes'
  <2>1. AttemptTypes'
    BY <1>1, <1>2 DEF AttemptTypes
  <2>2. wire' \in [Ends -> Seq(Frames \cup {"EOF"})]
    BY <1>1, <1>2, <1>5 DEF TransportTypes
  <2>3. \A u \in Ends : sent'[u] => writes'[u] # <<>>
    BY <1>0, <1>1, <1>2, <1>6 DEF TransportTypes
  <2>4. sent' \in [Ends -> BOOLEAN]
    BY <1>1, <1>2 DEF TransportTypes
  <2> QED BY <1>1, <1>2, <2>1, <2>2, <2>3, <2>4 DEF TransportTypes
<1>9. Local(e)' /\ Local(o)' /\ Heard(e)' /\ Heard(o)'
  BY <1>1, <1>2 DEF EndInv, Local, Heard, Terminal
<1>10. Spoken(e)' /\ Spoken(o)'
  BY <1>1, <1>2, <1>4, <1>6, <1>7 DEF EndInv, Spoken
<1>11. Told(e)'
  <2>1. Announced(e) => Announced(e)'
    BY <1>2, <1>7 DEF Announced, Terminal
  <2>2. ConfirmSent(e)' => Announced(e)'
    BY <1>2, <1>7 DEF ConfirmSent, Announced
  <2> QED BY <1>1, <1>2, <2>1, <2>2 DEF EndInv, Told
<1>12. Told(o)'
  BY <1>0, <1>1, <1>2, <1>6 DEF EndInv, Told, Announced, ConfirmSent, Terminal
<1> QED BY <1>0, <1>8, <1>9, <1>10, <1>11, <1>12 DEF Inv, EndInv

\* A broken connection carries no decision.
LEMMA DisconnectKeeps ==
  ASSUME Inv, Disconnect
  PROVE  Inv'
<1>1. /\ wire' = [e \in Ends |-> <<"EOF">>] /\ broken' = TRUE
      /\ socket' = socket /\ writes' = writes /\ sent' = sent
      /\ state' = state /\ decision' = decision /\ written' = written
      /\ ackPending' = ackPending /\ confirmed' = confirmed /\ lease' = lease
      /\ replay' = replay /\ error' = error /\ trust' = trust /\ user' = user
  BY DEF Disconnect, attempt
<1>2. AttemptTypes' /\ TransportTypes'
  <2>1. <<"EOF">> \in Seq(Frames \cup {"EOF"})
    OBVIOUS
  <2>2. wire' \in [Ends -> Seq(Frames \cup {"EOF"})]
    BY <1>1, <2>1
  <2>3. AttemptTypes /\ TransportTypes
    BY DEF Inv
  <2>4. AttemptTypes'
    BY <1>1, <2>3 DEF AttemptTypes
  <2> QED BY <1>1, <2>2, <2>3, <2>4 DEF TransportTypes
<1>3. ASSUME NEW e \in Ends PROVE EndInv(e)'
  <2>1. EndInv(e) /\ wire'[e] = <<"EOF">>
    BY <1>1 DEF Inv
  <2>2. Local(e)' /\ Heard(e)'
    BY <1>1, <2>1 DEF EndInv, Local, Heard, Terminal
  <2>3. \A f \in Decisions : ~Says(wire'[e], f)
    BY <2>1, SaysShort DEF Decisions
  <2>4. Spoken(e)'
    BY <1>1, <2>1, <2>3 DEF EndInv, Spoken
  <2>5. Told(e)'
    BY <1>1 DEF Told, Announced
  <2> QED BY <2>2, <2>4, <2>5 DEF EndInv
<1> QED BY <1>2, <1>3 DEF Inv

\* The attempts start with their resources and nothing said.
LEMMA InitInv == Init => Inv
<1> SUFFICES ASSUME Init PROVE Inv
  OBVIOUS
<1>1. AttemptTypes
  BY DEF Init, AttemptTypes, States
<1>2. TransportTypes
  <2>1. <<>> \in Seq(Frames) /\ <<>> \in Seq(Frames \cup {"EOF"})
    OBVIOUS
  <2> QED BY <2>1 DEF Init, TransportTypes
<1>3. ASSUME NEW e \in Ends PROVE EndInv(e)
  <2>1. writes[e] = <<>> /\ wire[e] = <<>> /\ state[e] = "PairingTls"
        /\ decision[e] = "none" /\ user[e] = "none" /\ socket[e] = "open"
        /\ replay[e] = "reserved" /\ ~confirmed[e] /\ ~written[e] /\ ~trust[e] /\ ~sent[e]
    BY <1>3 DEF Init
  <2>2. Local(e)
    BY <2>1 DEF Local, Terminal, TerminalStates
  <2>3. Spoken(e) /\ Heard(e) /\ Told(e)
    BY <2>1, NothingSaid DEF Spoken, Heard, Told, ConfirmSent
  <2> QED BY <2>2, <2>3 DEF EndInv
<1> QED BY <1>1, <1>2, <1>3 DEF Inv

\* One step per action.
LEMMA NextInv == Inv /\ [Next]_vars => Inv'
<1> SUFFICES ASSUME Inv, [Next]_vars PROVE Inv'
  OBVIOUS
<1>1. ASSUME NEW e \in Ends, Step(e) PROVE Inv'
  <2>0. Ready(e, "call")
    BY DEF Ready
  <2>1. CASE Start(e)
    BY <1>1, <2>1, StartKeeps
  <2>2. CASE \E d \in Decisions : Decide(e, d)
    BY <1>1, <2>2, DecideKeeps
  <2>3. CASE Cancel(e)
    BY <1>1, <2>0, <2>3, CloseKeeps DEF Cancel, Running, Reasons
  <2>4. CASE Expire(e)
    BY <1>1, <2>0, <2>4, CloseKeeps DEF Expire, Running, Reasons
  <2>5. CASE Revoke(e)
    BY <1>1, <2>5, RevokeKeeps
  <2>6. CASE Busy(e)
    BY <1>1, <2>0, <2>6, CloseKeeps DEF Busy, Running, Reasons
  <2>7. CASE CallFails(e)
    BY <1>1, <2>0, <2>7, CloseKeeps DEF CallFails, Running, Reasons
  <2>8. CASE Stop(e)
    BY <1>1, <2>0, <2>8, FailKeeps, EndedCloseKeeps DEF Stop, Running
  <2>9. CASE FlushExpires(e)
    BY <1>1, <2>9, EndedCloseKeeps DEF FlushExpires
  <2>10. CASE ReceiveFrame(e)
    BY <1>1, <2>10, ReceiveFrameKeeps
  <2>11. CASE ReadEnds(e)
    <3>1. Ready(e, "frame") /\ ~Terminal(e) /\ Fail(e, "frame")
      BY <2>11 DEF ReadEnds, Incoming, Running, Ready
    <3> QED BY <1>1, <3>1, FailKeeps
  <2>12. CASE Transmit(e)
    BY <1>1, <2>12, TransmitKeeps
  <2>13. CASE WriteCompletes(e)
    BY <1>1, <2>13, WriteCompletesKeeps
  <2>14. CASE WriteFails(e)
    BY <1>1, <2>0, <2>14, FailKeeps, EndedCloseKeeps DEF WriteFails, Running
  <2> QED BY <1>1, <2>1, <2>2, <2>3, <2>4, <2>5, <2>6, <2>7, <2>8, <2>9, <2>10, <2>11,
             <2>12, <2>13, <2>14 DEF Step
<1>2. CASE Disconnect
  BY <1>2, DisconnectKeeps
<1>3. CASE UNCHANGED vars
  <2>1. /\ wire' = wire /\ broken' = broken /\ socket' = socket /\ writes' = writes
        /\ sent' = sent /\ state' = state /\ decision' = decision /\ written' = written
        /\ ackPending' = ackPending /\ confirmed' = confirmed /\ lease' = lease
        /\ replay' = replay /\ error' = error /\ trust' = trust /\ user' = user
    BY <1>3 DEF vars, attempt, transport
  <2> QED BY <2>1 DEF Inv, AttemptTypes, TransportTypes, EndInv, Local, Spoken, Heard, Told,
                      Announced, ConfirmSent, Terminal
<1> QED BY <1>1, <1>2, <1>3 DEF Next

------------------------------------------------------------------------------
(* Theorems                                                                  *)

\* The inductive invariant holds in every reachable state of the two attempts and
\* their sockets.
THEOREM PairingInvariant == Spec => []Inv
BY InitInv, NextInv, PTL DEF Spec

\* Every variable of PairingAttempt and PairingSocket keeps its type, and a write
\* under way has its frame at the front of the queue.
THEOREM PairingTypes == Spec => []TypeOK
<1>1. Inv => TypeOK
  BY DEF Inv, AttemptTypes, TransportTypes, TypeOK
<1> QED BY <1>1, PairingInvariant, PTL

\* MaybeCommit commits a peer only after both users confirmed, for every set of
\* disturbances and every interleaving.
THEOREM TrustFollowsBothUsers == Spec => []TrustNeedsBothUsers
<1>1. Inv => TrustNeedsBothUsers
  BY DEF Inv, EndInv, Heard, TrustNeedsBothUsers
<1> QED BY <1>1, PairingInvariant, PTL

\* FinalizeResources leaves nothing held, and every context a user has answered
\* for is remembered by the replay cache.
THEOREM EndedAttemptsHoldNothing == Spec => []EndedHoldsNothing
<1>1. Inv => EndedHoldsNothing
  BY DEF Inv, EndInv, Local, EndedHoldsNothing
<1> QED BY <1>1, PairingInvariant, PTL

\* A device that committed its peer has told the peer so: its confirmation was
\* written before the commit and is not lost when the transport closes.
THEOREM TrustIsNeverSilent == Spec => []TrustIsAnnounced
<1>1. Inv => TrustIsAnnounced
  BY DEF Inv, EndInv, Told, Announced, Says, TrustIsAnnounced
<1> QED BY <1>1, PairingInvariant, PTL
=============================================================================
