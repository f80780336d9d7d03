------------------------- MODULE EstablishedConnection -------------------------
(***************************************************************************)
(* An established connection on the runtime that owns it: the request of     *)
(* OpenEstablished, its TLS handshake (session/tls_handshake.cpp), the reads   *)
(* and writes of the connection (session/established_connection.cpp), and the  *)
(* queues and reserved places through which the runtime                        *)
(* (session/connection_runtime.cpp) brings their results to the handlers.      *)
(*                                                                         *)
(* ConnectionRuntime gives the threads, Start and Stop; each of its actions    *)
(* is taken with what it does to the connection.  Operations of the           *)
(* connection are called by threads of their own, each in two steps (the       *)
(* place for the result is reserved before operation_mutex_ is taken), and a    *)
(* thread calls again once its operation has ended; channel handlers are       *)
(* given to the network thread one at a time.  Bytes are counted, not carried. *)
(* One request and one connection are followed.                                *)
(***************************************************************************)
EXTENDS ConnectionRuntime, Sequences, FiniteSetsExt, SequencesExt

CONSTANTS
  Reads,        \* threads of the application that call ReadSome, again and again
  Writes,       \* threads that call Write
  Size,         \* the bytes each of them writes
  MaxBytes,     \* kMaxEstablishedQueuedWriteBytes
  MaxWrites,    \* kMaxEstablishedPendingWrites
  Places,       \* kEmergencyCompletionCapacity
  MemoryFails,  \* whether an allocation may fail
  NoOp          \* no operation

ASSUME ConnectionAssumption ==
  /\ Reads \cap Writes = {} /\ NoOp \notin Reads \cup Writes
  /\ {"close", "channel"} \cap (Reads \cup Writes) = {}
  /\ Size \in [Writes -> Nat \ {0}]
  /\ {MaxBytes, MaxWrites, Places} \subseteq Nat /\ MemoryFails \in BOOLEAN

Ops == Reads \cup Writes

VARIABLES
  shake,  \* the handshake: whether it has begun, finished_, whether it made a
          \* connection, and the handlers still to come
  known,  \* the application has been handed the connection
  conn    \* the connection, its operations and the queues they pass through

connvars == <<shake, known, conn>>
allvars == <<vars, connvars>>

\* How the two ways of queueing are told apart: asio's post, and the array
\* that is used when post fails.
Ways == IF MemoryFails THEN {"post", "spare"} ELSE {"post"}

NoConnection ==
  [open |-> FALSE, accepting |-> FALSE,   \* open_, operations_open_
   claimed |-> FALSE, read |-> NoOp,      \* read_claimed_, read_
   writes |-> <<>>, active |-> FALSE,     \* writes_, write_active_
   count |-> 0, bytes |-> 0,              \* pending_write_count_, queued_write_bytes_
   posted |-> <<>>, spareClose |-> FALSE, \* in context_, in emergency_network_
   answers |-> <<>>, spare |-> <<>>,      \* in callback_context_, in emergency_completions_
   reserved |-> 0,                        \* completion_reservations_
   op |-> [o \in Ops |-> "idle"]]

InitConnection ==
  /\ Init
  /\ shake = [begun |-> FALSE, finished |-> FALSE, made |-> FALSE, waits |-> {}]
  /\ known = FALSE
  /\ conn = NoConnection

------------------------------------------------------------------------------
(* The connection on the network thread.                                     *)

SizeOf(os) == MapThenSumSet(LAMBDA o : Size[o], os)

\* The results of operations os never reach their handlers; the destructor of
\* CompletionReservation gives their places back.
Drop(c, os) ==
  [c EXCEPT !.op = [o \in Ops |-> IF o \in os THEN "idle" ELSE @[o]],
            !.reserved = @ - Cardinality(os)]

\* CloseOnExecutor up to the handlers: nothing is accepted any more, the
\* socket is closed, the read and the writes that wait are taken off.
Shut(c) ==
  [c EXCEPT !.open = FALSE, !.accepting = FALSE, !.spareClose = FALSE,
            !.read = NoOp, !.writes = <<>>, !.active = FALSE,
            !.claimed = c.claimed /\ c.read # NoOp,
            !.bytes = @ - SizeOf(Range(c.writes))]

Waiting(c) == Range(c.writes) \cup ({c.read} \ {NoOp})

\* CloseOnExecutor(false): the handlers are not told.
CloseSilently(c) ==
  IF ~c.open THEN [c EXCEPT !.accepting = FALSE, !.spareClose = FALSE]
  ELSE Drop([Shut(c) EXCEPT !.claimed = FALSE, !.count = @ - Len(c.writes)], Waiting(c))

\* NotifyCompletion and DispatchCompletion: the result of o is queued for the
\* callback thread, in one of two ways.  Without callbacks it is dropped; if
\* there is no place for it the connection is closed.
Notify(c, o, way) ==
  LET queued == [c EXCEPT !.op[o] = "answered"]
  IN IF ~callbacks THEN Drop(c, {o})
     ELSE IF way = "post" THEN [queued EXCEPT !.answers = Append(@, o)]
     ELSE IF Len(c.spare) < Places THEN [queued EXCEPT !.spare = Append(@, o)]
     ELSE CloseSilently(Drop(c, {o}))

\* CloseOnExecutor(true): whatever waits is answered.
CloseNotifying(c, way) ==
  IF ~c.open THEN CloseSilently(c)
  ELSE FoldLeft(LAMBDA d, o : Notify(d, o, way), Shut(c),
                (IF c.read = NoOp THEN <<>> ELSE <<c.read>>) \o c.writes)

\* StartWrite: the next write begins unless one is under way.
StartWrite(c) == [c EXCEPT !.active = c.open /\ c.writes # <<>>]

\* ReleaseWriteBytes; a read has none.
ReleaseBytes(c, o) == IF o \in Writes THEN [c EXCEPT !.bytes = @ - Size[o]] ELSE c

\* A closure of ReadSome or Write that finds the connection closed.
TooLate(c, o, way) == Notify(ReleaseBytes(c, o), o, way)

\* The closure o at the head of context_ runs.
Begin(c, o, way) ==
  IF o = "close" THEN CloseNotifying(c, way)
  ELSE IF ~c.open THEN TooLate(c, o, way)
  ELSE IF o \in Reads THEN [c EXCEPT !.read = o, !.op[o] = "waiting"]
  ELSE StartWrite([c EXCEPT !.writes = Append(@, o), !.op[o] = "waiting"])

\* The same when memory for it runs out: the operation fails, and with it the
\* connection.
BeginFails(c, o, way) == CloseNotifying(TooLate(c, o, way), way)

\* The handler of async_read_some or async_write: the operation is done.
Finish(c, o, ok, way) ==
  LET taken == IF o \in Reads THEN [c EXCEPT !.read = NoOp]
               ELSE [ReleaseBytes(c, o) EXCEPT !.writes = Tail(@), !.active = FALSE]
      told == Notify(taken, o, way)
  IN IF ~ok THEN CloseNotifying(told, way)
     ELSE IF o \in Reads THEN told ELSE StartWrite(told)

\* What is still in context_ when it is drained runs on a closed connection,
\* without callbacks.
DrainPosted(c) ==
  FoldLeft(LAMBDA d, o : IF o \in Ops THEN TooLate(d, o, "post") ELSE d,
           [c EXCEPT !.posted = <<>>], c.posted)

\* Everything queued for the callback thread is dropped.
DropAnswers(c) ==
  Drop([c EXCEPT !.answers = <<>>, !.spare = <<>>], Range(c.answers) \cup Range(c.spare))

------------------------------------------------------------------------------
(* Steps of the network thread.                                              *)

OnNetwork == worker = "loop" /\ ~shutdown

\* A posted closure is taken from context_.
TakePosted(way) ==
  /\ OnNetwork /\ conn.posted # <<>> /\ Head(conn.posted) # "channel"
  /\ LET c == [conn EXCEPT !.posted = Tail(@)]
         o == Head(conn.posted)
     IN \/ conn' = Begin(c, o, way)
        \/ MemoryFails /\ o # "close" /\ c.open /\ conn' = BeginFails(c, o, way)
  /\ UNCHANGED <<vars, shake, known>>

\* The closure of DispatchChannel: the handler begins unless the connection
\* is closed.  A Stop stops context_ as it sets stopping_, so that handlers
\* which are dispatched again and again do not keep the thread.
TakeChannel ==
  /\ OnNetwork /\ ~stopping /\ conn.posted # <<>> /\ Head(conn.posted) = "channel"
  /\ IF conn.open THEN TakeHandler ELSE UNCHANGED vars
  /\ conn' = [conn EXCEPT !.posted = Tail(@)]
  /\ UNCHANGED <<shake, known>>

\* The channel handler returns, or throws, which closes the connection.
ChannelReturns(throws, way) ==
  /\ LeaveHandler
  /\ conn' = IF throws THEN CloseNotifying(conn, way) ELSE conn
  /\ UNCHANGED <<shake, known>>

\* Data arrives or the peer has taken a write, or the transport fails.
Transport(o, ok, way) ==
  /\ OnNetwork
  /\ \/ o = conn.read
     \/ conn.active /\ o = Head(conn.writes)
  /\ conn' = Finish(conn, o, ok, way)
  /\ UNCHANGED <<vars, shake, known>>

\* DrainEmergencyNetwork: a Close that could not be posted.
SpareClose(way) ==
  /\ OnNetwork /\ ~stopping /\ conn.spareClose
  /\ conn' = CloseNotifying([conn EXCEPT !.spareClose = FALSE], way)
  /\ UNCHANGED <<vars, shake, known>>

------------------------------------------------------------------------------
(* The handshake.                                                            *)

\* OpenEstablished has been run on the network thread: StartClientHandshake
\* and StartClient, or a refusal.
Connects ==
  \/ /\ ~shake.begun /\ running /\ ~stopping
     /\ shake' = [shake EXCEPT !.begun = TRUE, !.waits = {"io", "timer"}]
     /\ UNCHANGED <<known, conn>>
  \/ UNCHANGED connvars

\* Mutated: the handlers do not look at finished_.
NeverFinished == TRUE

\* Only the first of the handlers that come has an effect.
Unfinished == ~shake.finished

\* Mutated: the connection stays although nobody will be told of it.
ForgetLease(c) == c

\* The lease of a connection whose outcome cannot be queued is stopped.
StopLease(c) == CloseSilently(c)

\* QueueEstablishedEvent of an outcome that leaves the connection as c: it is
\* queued while callbacks are open.  When memory for it runs out nobody is
\* told.
TellOutcome(c) ==
  \/ /\ callbacks
     /\ events' = events + 1 /\ published' = published + 1 /\ conn' = c
  \/ ~callbacks /\ conn' = c /\ UNCHANGED queue
  \/ MemoryFails /\ callbacks /\ conn' = StopLease(c) /\ UNCHANGED queue

Fresh == [conn EXCEPT !.open = TRUE, !.accepting = TRUE]

\* The handler of async_connect or async_handshake (Complete); cancelling
\* the timer may come too late.  CompleteHandshake binds the channel to the
\* peer's record and hands it to a new connection, or something in this
\* fails and the outcome says so; a runtime that stops says nothing.
HandshakeDone(made) ==
  /\ OnNetwork /\ "io" \in shake.waits
  /\ IF Unfinished
     THEN /\ \E left \in SUBSET (shake.waits \cap {"timer"}) :
               shake' = [shake EXCEPT !.finished = TRUE, !.made = made, !.waits = left]
          /\ \/ TellOutcome(IF made THEN Fresh ELSE conn)
             \/ stopping /\ ~made /\ UNCHANGED <<queue, conn>>
          /\ made => running /\ ~stopping
     ELSE ~made /\ shake' = [shake EXCEPT !.waits = @ \ {"io"}] /\ UNCHANGED <<queue, conn>>
  /\ UNCHANGED <<pc, calls, lock, flags, threads, work, stopped, known>>

\* The timer of ArmTimeout fires: the socket is closed, whose handler then
\* comes with an error.
HandshakeTimesOut ==
  /\ OnNetwork /\ "timer" \in shake.waits
  /\ shake' = [shake EXCEPT !.finished = TRUE, !.waits = @ \ {"timer"}]
  /\ IF Unfinished THEN TellOutcome(conn) ELSE UNCHANGED <<queue, conn>>
  /\ UNCHANGED <<pc, calls, lock, flags, threads, work, stopped, known>>

------------------------------------------------------------------------------
(* Calls of the application.                                                 *)

\* ReserveCompletion finds a place.
HasPlace == callbacks /\ conn.reserved < Places

\* ReadSome or Write up to the mutex: PrepareRead, PrepareWrite; without a
\* place the call answers FALSE at once.
PrepareOp(o) ==
  /\ known /\ conn.op[o] = "idle" /\ HasPlace
  /\ conn' = [conn EXCEPT !.op[o] = "prepared", !.reserved = @ + 1]
  /\ UNCHANGED <<vars, shake, known>>

\* What ReadSome and Write check under the mutex.
Admits(o) ==
  /\ conn.accepting /\ conn.open
  /\ o \in Reads => ~conn.claimed
  /\ o \in Writes => conn.count < MaxWrites /\ conn.bytes + Size[o] <= MaxBytes

Accept(o) ==
  LET c == [conn EXCEPT !.op[o] = "posted", !.posted = Append(@, o)]
  IN IF o \in Reads THEN [c EXCEPT !.claimed = TRUE]
     ELSE [c EXCEPT !.count = @ + 1, !.bytes = @ + Size[o]]

\* The rest of ReadSome or Write: the closure is posted, or the call answers
\* FALSE and gives everything back.
SubmitOp(o) ==
  /\ conn.op[o] = "prepared"
  /\ \/ Admits(o) /\ conn' = Accept(o)
     \/ /\ Admits(o) => MemoryFails
        /\ conn' = [conn EXCEPT !.op[o] = "idle", !.reserved = @ - 1]
  /\ UNCHANGED <<vars, shake, known>>

\* DispatchChannel; it answers FALSE when the connection is being closed.
DispatchChannel ==
  /\ known /\ conn.accepting /\ conn.open /\ "channel" \notin Range(conn.posted)
  /\ conn' = [conn EXCEPT !.posted = Append(@, "channel")]
  /\ UNCHANGED <<vars, shake, known>>

\* Mutated: a Close that cannot be posted is forgotten.
PostOnly(c, way) == IF way = "post" THEN [c EXCEPT !.posted = Append(@, "close")] ELSE c

\* DispatchNetwork of the closing.
QueueClose(c, way) ==
  IF way = "post" THEN [c EXCEPT !.posted = Append(@, "close")]
  ELSE [c EXCEPT !.spareClose = ~stopping]

\* Close, of the application or of a handler that threw.  When the runtime
\* does not run any more nothing is posted: Stop closes the connection.
Closed(c, way) ==
  IF ~c.accepting \/ ~c.open THEN c
  ELSE LET d == [c EXCEPT !.accepting = FALSE]
       IN IF running /\ ~stopping THEN QueueClose(d, way) ELSE d

Close(way) ==
  /\ known /\ conn.accepting /\ conn.open
  /\ conn' = Closed(conn, way)
  /\ UNCHANGED <<vars, shake, known>>

------------------------------------------------------------------------------
(* The callback thread, and the actions of the runtime with what they do to  *)
(* the connection.                                                           *)

\* The handler of OpenEstablished's outcome begins.
HandleOutcome == Handle /\ known' = shake.made /\ UNCHANGED <<shake, conn>>

\* PrepareRead's and PrepareWrite's callbacks: the place is given back, the
\* next read is allowed or the write is counted off, and the handler begins.
Called(c, o) ==
  LET d == [c EXCEPT !.op[o] = "idle", !.reserved = @ - 1]
  IN IF o \in Reads THEN [d EXCEPT !.claimed = FALSE] ELSE [d EXCEPT !.count = @ - 1]

HandleAnswer ==
  /\ callback = "loop" /\ callbacks
  /\ callback' = "handler"
  /\ \/ /\ conn.answers # <<>>
        /\ conn' = Called([conn EXCEPT !.answers = Tail(@)], Head(conn.answers))
     \/ /\ conn.spare # <<>>
        /\ conn' = Called([conn EXCEPT !.spare = Tail(@)], Head(conn.spare))
  /\ UNCHANGED <<pc, calls, lock, flags, worker, joinable, exited, work, queue, stopped,
                 shake, known>>

\* The emergency array and callback_context_ are drained.
CallbackEnds == CallbackLeaves /\ conn' = DropAnswers(conn) /\ UNCHANGED <<shake, known>>

\* TlsHandshake::Stop.
StoppedShake == [shake EXCEPT !.finished = TRUE]

\* Mutated: ShutdownOwnedState forgets the connections.
KeepConnections(c) == c

\* ShutdownOwnedState: every lease is stopped.
StopLeases(c) == CloseSilently(c)

\* ShutdownOwnedState on the network thread.
WorkerBreaks ==
  /\ WorkerFails
  /\ shake' = StoppedShake /\ conn' = StopLeases(conn)
  /\ UNCHANGED known

\* DrainEmergencyNetwork(false), and the drain of context_ after a failure.
WorkerEnds ==
  /\ WorkerLeaves
  /\ LET c == [conn EXCEPT !.spareClose = FALSE]
     IN conn' = IF shutdown THEN DrainPosted(c) ELSE c
  /\ shake' = [shake EXCEPT !.waits = IF shutdown THEN {} ELSE @]
  /\ UNCHANGED known

\* ShutdownOwnedState in a Stop on the network thread.
StopInChannel ==
  /\ StopOnWorker
  /\ IF stopping THEN UNCHANGED <<shake, conn>>
     ELSE shake' = StoppedShake /\ conn' = StopLeases(conn)
  /\ UNCHANGED known

\* ShutdownOwnedState in Stop, and the drain of context_.
StopOwnedState(t) ==
  /\ StopOwned(t)
  /\ shake' = [StoppedShake EXCEPT !.waits = {}]
  /\ conn' = DrainPosted(StopLeases(conn))
  /\ UNCHANGED known

\* OpenEstablished is the command that runs.
RunsCommand == RunCommand /\ Connects

\* The other steps of the runtime do not touch the connection.
NetworkSteps ==
  \/ (\E c \in Commands : TakeCommand(c)) /\ UNCHANGED connvars
  \/ WorkerExits /\ UNCHANGED connvars
  \/ RunsCommand \/ WorkerEnds
  \/ TakeChannel
  \/ \E way \in Ways :
       \/ TakePosted(way) \/ SpareClose(way)
       \/ \E throws \in BOOLEAN : ChannelReturns(throws, way)
HandlerSteps ==
  \/ (HandlerReturns \/ HandlerThrows \/ CallbackExits) /\ UNCHANGED connvars
  \/ HandleOutcome \/ HandleAnswer \/ CallbackEnds
CallerSteps(t) ==
  \/ (StartSteps(t) \/ RunSteps(t)) /\ UNCHANGED connvars
  \/ (StopWorker(t) \/ StopReturns(t) \/ RollbackSeen(t)) /\ UNCHANGED connvars
  \/ StopOwnedState(t)
  \/ t = "worker" /\ StopInChannel
HandshakeSteps == HandshakeTimesOut \/ \E made \in BOOLEAN : HandshakeDone(made)

NextConnection ==
  \/ \E t \in Callers :
       \/ /\ \/ Register(t) \/ TimesOut(t) \/ StartFails(t) \/ StartBegins(t)
             \/ StopInRollback(t) \/ StopBegins(t)
          /\ UNCHANGED connvars
       \/ CallerSteps(t)
  \/ NetworkSteps \/ HandlerSteps \/ HandshakeSteps \/ WorkerBreaks
  \/ \E o \in Ops : PrepareOp(o) \/ SubmitOp(o)
  \/ DispatchChannel
  \/ \E way \in Ways :
       \/ Close(way)
       \/ \E o \in Ops, ok \in BOOLEAN : Transport(o, ok, way)

\* The threads of the runtime and its callers run, and a handshake ends or
\* its timer fires.  The application and the peer are obliged to nothing.
FairConnection ==
  /\ InitConnection /\ [][NextConnection]_allvars
  /\ \A t \in Callers : WF_allvars(CallerSteps(t))
  /\ WF_allvars(NetworkSteps) /\ WF_allvars(HandlerSteps) /\ WF_allvars(HandshakeSteps)

------------------------------------------------------------------------------
(* Properties.                                                               *)

\* An operation that was accepted and whose handler is still to come.
Accepted == {"posted", "waiting", "answered"}

Held(kinds) == {o \in Ops : conn.op[o] \in kinds}

\* Nothing is counted twice or forgotten, whichever thread ends an operation:
\* a reserved place for each operation whose handler is still to come, the
\* bytes of the writes not yet sent, and, on an open connection whose
\* handlers are told, the writes and the read not yet answered
\* (CompletionReservation, ReleaseWriteBytes, pending_write_count_,
\* read_claimed_).
CountsAreExact ==
  LET sending == Held({"posted", "waiting"}) \cap Writes
      open == Held(Accepted)
  IN /\ conn.reserved = Cardinality(Held(Accepted \cup {"prepared"}))
     /\ conn.bytes = SizeOf(sending)
     /\ callbacks /\ conn.open =>
          /\ conn.count = Cardinality(open \cap Writes)
          /\ conn.claimed <=> open \cap Reads # {}

\* An operation that was accepted loses its answer only when the callbacks
\* are closed: there is always a place left for the answer, also when memory
\* has run out (ReserveCompletion, QueueEmergencyCompletion).
AnswersAreKept ==
  [][\A o \in Ops :
       conn.op[o] \in Accepted /\ conn'.op[o] = "idle" /\ callbacks'
       => callback = "loop" /\ callback' = "handler"]_allvars

\* The request of a connection is told at most one outcome, whichever of the
\* handshake and its timer is first.  While the callbacks are open none is
\* forgotten, except when memory for it ran out; then no connection stays
\* open that nobody was told of (TlsHandshake::Complete, ArmTimeout,
\* QueueEstablishedEvent).
OneOutcome ==
  /\ published <= 1
  /\ callbacks /\ shake.finished /\ published = 0 => MemoryFails /\ ~conn.open

\* When Stop has returned to a user's thread no thread of the runtime is
\* left, no handler runs or will run, and nothing of the connection waits
\* for a thread that is gone (Stop, ShutdownOwnedState, DrainStoppedContext).
StopSettles ==
  /\ StopIsBarrier
  /\ stopped => ~conn.open /\ Held(Accepted) = {}

\* A connection that was open and is being closed closes, and every operation
\* that was accepted is answered, unless the callbacks are closed (Close,
\* CloseOnExecutor).  Of one that is not activated yet it says nothing.
CloseAnswers ==
  (conn.open /\ ~conn.accepting) ~>
    (\/ ~conn.open /\ Held(Accepted) = {}
     \/ ~callbacks)

==============================================================================
