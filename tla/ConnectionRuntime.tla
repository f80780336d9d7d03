--------------------------- MODULE ConnectionRuntime ---------------------------
(***************************************************************************)
(* Start, Stop and the calls of AuthenticatedConnectionRuntime               *)
(* (session/connection_runtime.cpp): its network thread (the worker), its    *)
(* callback thread, and the user's threads.  Handlers run on the callback     *)
(* thread and may themselves call into the runtime, Stop included; so may     *)
(* the channel handlers that the user gives to the worker (DispatchChannel of   *)
(* an established connection).                                                *)
(*                                                                         *)
(* A section under lifecycle_mutex_ is a step, except that Stop closes the    *)
(* command and callback queues in a step of its own; the flags that other     *)
(* threads read without the mutex change between the two.  What a command     *)
(* does, and the connections, are left out (EstablishedConnection,             *)
(* PairingAdmission, PairingCeremony).  A command called on the worker runs at *)
(* once and waits for nobody (RunBool); it is left out too.                    *)
(***************************************************************************)
EXTENDS Naturals, FiniteSets

CONSTANTS
  Users,      \* threads of the user
  Openers,    \* callers among whose calls there are commands (RunBool)
  MaxCalls,   \* bound: calls made by each thread, the handlers' included
  MaxEvents   \* bound: events published to the handlers

ASSUME RuntimeAssumption ==
  /\ {"callback", "worker"} \cap Users = {} /\ MaxEvents \in Nat
  /\ Openers \subseteq Users \cup {"callback"}
  /\ MaxCalls \in [Users \cup {"callback", "worker"} -> Nat]

Callers == Users \cup {"callback", "worker"}

\* A command is named by the caller and the number of its call.
Commands == UNION {{t} \X (1 .. MaxCalls[t]) : t \in Openers}

VARIABLES
  pc,          \* what each caller is doing in the runtime
  calls,       \* calls made so far
  lock,        \* the caller that holds lifecycle_mutex_ between two steps
  attempted,   \* start_attempted_
  rollback,    \* rollback_in_progress_
  running,     \* running_
  stopping,    \* stopping_
  callbacks,   \* callbacks_open_
  commands,    \* commands_open_
  worker,      \* the network thread: none, loop, command, handler, leaving, exited
  callback,    \* the callback thread: none, loop, handler, leaving, exited
  joinable,    \* which of thread_ and callback_thread_ are joinable
  exited,      \* thread_exited_ and callback_thread_exited_
  shutdown,    \* shutdown_started_: ShutdownOwnedState has run
  command,     \* RuntimeCommand::state_ of each command
  posted,      \* commands in context_
  current,     \* the command the worker runs
  ran,         \* history: the commands whose function has run
  events,      \* events in callback_context_
  published,   \* events published so far
  stopped      \* history: a Stop of a user has returned

flags == <<attempted, rollback, running, stopping, callbacks, commands, shutdown>>
threads == <<worker, callback, joinable, exited>>
work == <<command, posted, current, ran>>
queue == <<events, published>>
vars == <<pc, calls, lock, flags, threads, work, queue, stopped>>

Free == "free"
Nobody == <<"nobody", 0>>

Init ==
  /\ pc = [t \in Callers |-> "idle"]
  /\ calls = [t \in Callers |-> 0]
  /\ lock = Free
  /\ attempted = FALSE /\ rollback = FALSE
  /\ running = FALSE /\ stopping = TRUE
  /\ callbacks = FALSE /\ commands = FALSE
  /\ worker = "none" /\ callback = "none"
  /\ joinable = {} /\ exited = {}
  /\ shutdown = FALSE
  /\ command = [c \in Commands |-> "none"]
  /\ posted = {} /\ current = Nobody
  /\ ran = {}
  /\ events = 0 /\ published = 0
  /\ stopped = FALSE

Goto(t, where) == pc' = [pc EXCEPT ![t] = where]

\* A caller may make a call: a user's thread at any time, the callback thread
\* and the worker from the handler that they run.
MayCall(t) ==
  /\ pc[t] = "idle" /\ calls[t] < MaxCalls[t]
  /\ t = "callback" => callback = "handler"
  /\ t = "worker" => worker = "handler"

Calls(t, where) == MayCall(t) /\ Goto(t, where) /\ calls' = [calls EXCEPT ![t] = @ + 1]

------------------------------------------------------------------------------
(* Commands: RunBool and RuntimeCommand.                                     *)

\* Mutated: a command that already runs is cancelled as well.
QueuedOrRunning(s) == s \in {"queued", "running"}

\* The states in which Cancel and CancelIfQueued succeed.
Cancellable(s) == s = "queued"

\* The commands after CancelRuntimeCommands.
Cancelled == [c \in Commands |-> IF Cancellable(command[c]) THEN "cancelled" ELSE command[c]]

Mine(t) == <<t, calls[t]>>

\* RunBool up to RegisterRuntimeCommand; it answers FALSE at once, changing
\* nothing, when the runtime is not running or commands are closed.
Register(t) ==
  /\ t \in Openers /\ running /\ ~stopping /\ commands
  /\ Calls(t, "post")
  /\ command' = [command EXCEPT ![<<t, calls[t] + 1>>] = "queued"]
  /\ UNCHANGED <<lock, flags, threads, posted, current, ran, queue, stopped>>

\* The command is posted to the network thread.
Post(t) ==
  /\ pc[t] = "post"
  /\ posted' = posted \cup {Mine(t)}
  /\ Goto(t, "result")
  /\ UNCHANGED <<calls, lock, flags, threads, command, current, ran, queue, stopped>>

\* The caller has waited for kRuntimeCommandTimeout: CancelIfQueued.
TimesOut(t) ==
  /\ pc[t] = "result" /\ Cancellable(command[Mine(t)])
  /\ command' = [command EXCEPT ![Mine(t)] = "cancelled"]
  /\ UNCHANGED <<pc, calls, lock, flags, threads, posted, current, ran, queue, stopped>>

\* The result is there, and the call returns.
RunReturns(t) ==
  /\ pc[t] = "result" /\ command[Mine(t)] \in {"cancelled", "completed"}
  /\ Goto(t, "idle")
  /\ UNCHANGED <<calls, lock, flags, threads, work, queue, stopped>>

\* DrainStoppedContext(context_): what is still posted is taken, and a
\* command that is still queued is answered without having run.
Drain ==
  /\ command' = [c \in Commands |-> IF c \in posted /\ command[c] = "queued"
                                    THEN "completed" ELSE command[c]]
  /\ posted' = {}

------------------------------------------------------------------------------
(* The network thread.                                                       *)

\* It takes a closure; RuntimeCommand::Start decides whether it is run.
TakeCommand(c) ==
  /\ worker = "loop" /\ c \in posted
  /\ posted' = posted \ {c}
  /\ IF command[c] = "queued"
     THEN /\ command' = [command EXCEPT ![c] = "running"]
          /\ worker' = "command" /\ current' = c
     ELSE UNCHANGED <<command, worker, current>>
  /\ UNCHANGED <<pc, calls, lock, flags, callback, joinable, exited, ran, queue, stopped>>

\* The function runs if the runtime still does; Complete.
RunCommand ==
  /\ worker = "command"
  /\ ran' = IF running /\ ~stopping THEN ran \cup {current} ELSE ran
  /\ command' = [command EXCEPT ![current] = "completed"]
  /\ worker' = "loop" /\ current' = Nobody
  /\ UNCHANGED <<pc, calls, lock, flags, callback, joinable, exited, posted, queue, stopped>>

\* A channel handler of the user runs on the network thread, and returns.
TakeHandler ==
  /\ worker = "loop" /\ worker' = "handler"
  /\ UNCHANGED <<pc, calls, lock, flags, callback, joinable, exited, work, queue, stopped>>

LeaveHandler ==
  /\ worker = "handler" /\ pc["worker"] = "idle"
  /\ worker' = "loop"
  /\ UNCHANGED <<pc, calls, lock, flags, callback, joinable, exited, work, queue, stopped>>

\* A connection has something to tell: DispatchEvent, DispatchCompletion.
Publish ==
  /\ worker = "loop" /\ callbacks /\ published < MaxEvents
  /\ events' = events + 1 /\ published' = published + 1
  /\ UNCHANGED <<pc, calls, lock, flags, threads, work, stopped>>

\* context_.run_for throws: the thread shuts the runtime down by itself.
WorkerFails ==
  /\ worker = "loop" /\ ~stopping
  /\ stopping' = TRUE /\ shutdown' = TRUE
  /\ commands' = FALSE /\ callbacks' = FALSE
  /\ command' = Cancelled
  /\ UNCHANGED <<pc, calls, lock, attempted, rollback, running, threads, posted, current,
                 ran, queue, stopped>>

\* The loop ends, and running_ is cleared before the mutex is taken.  After
\* a failure the closures still posted are drained.
WorkerLeaves ==
  /\ worker = "loop" /\ stopping
  /\ worker' = "leaving" /\ running' = FALSE
  /\ IF shutdown THEN Drain ELSE UNCHANGED <<command, posted>>
  /\ UNCHANGED <<pc, calls, lock, attempted, rollback, stopping, callbacks, commands,
                 shutdown, callback, joinable, exited, current, ran, queue, stopped>>

WorkerExits ==
  /\ worker = "leaving" /\ lock = Free
  /\ worker' = "exited" /\ exited' = exited \cup {"worker"}
  /\ UNCHANGED <<pc, calls, lock, flags, callback, joinable, work, queue, stopped>>

------------------------------------------------------------------------------
(* The callback thread.                                                      *)

\* A handler is begun only while callbacks are open.
Handle ==
  /\ callback = "loop" /\ callbacks /\ events > 0
  /\ callback' = "handler" /\ events' = events - 1
  /\ UNCHANGED <<pc, calls, lock, flags, worker, joinable, exited, work, published, stopped>>

HandlerReturns ==
  /\ callback = "handler" /\ pc["callback"] = "idle"
  /\ callback' = "loop"
  /\ UNCHANGED <<pc, calls, lock, flags, worker, joinable, exited, work, queue, stopped>>

\* run_for throws on the callback thread (what handlers throw is caught
\* before): the thread closes the callbacks, and the runtime goes on without.
HandlerThrows ==
  /\ callback = "handler" /\ pc["callback"] = "idle"
  /\ callback' = "loop" /\ callbacks' = FALSE
  /\ UNCHANGED <<pc, calls, lock, attempted, rollback, running, stopping, commands, shutdown,
                 worker, joinable, exited, work, queue, stopped>>

\* The loop ends; what is left in the queue is dropped.
CallbackLeaves ==
  /\ callback = "loop" /\ ~callbacks
  /\ callback' = "leaving" /\ events' = 0
  /\ UNCHANGED <<pc, calls, lock, flags, worker, joinable, exited, work, published, stopped>>

CallbackExits ==
  /\ callback = "leaving" /\ lock = Free
  /\ callback' = "exited" /\ exited' = exited \cup {"callback"}
  /\ UNCHANGED <<pc, calls, lock, flags, worker, joinable, work, queue, stopped>>

------------------------------------------------------------------------------
(* Start.                                                                    *)

\* Start before any thread is made: it fails and is never tried again.
StartFails(t) ==
  /\ t \in Users /\ lock = Free /\ ~attempted /\ MayCall(t)
  /\ calls' = [calls EXCEPT ![t] = @ + 1]
  /\ attempted' = TRUE
  /\ UNCHANGED <<pc, lock, rollback, running, stopping, callbacks, commands, shutdown,
                 threads, work, queue, stopped>>

\* Start takes the mutex and prepares the contexts and the acceptor.
StartBegins(t) ==
  /\ t \in Users /\ lock = Free /\ ~attempted
  /\ Calls(t, "start")
  /\ lock' = t /\ attempted' = TRUE
  /\ UNCHANGED <<rollback, running, stopping, callbacks, commands, shutdown, threads, work,
                 queue, stopped>>

\* The flags are set and the callback thread is made.
StartCallback(t) ==
  /\ pc[t] = "start"
  /\ commands' = TRUE /\ callbacks' = TRUE /\ running' = TRUE /\ stopping' = FALSE
  /\ callback' = "loop" /\ joinable' = {"callback"}
  /\ Goto(t, "startWorker")
  /\ UNCHANGED <<calls, lock, attempted, rollback, shutdown, worker, exited, work, queue,
                 stopped>>

\* The network thread is made, and Start returns.
StartWorker(t) ==
  /\ pc[t] = "startWorker"
  /\ worker' = "loop" /\ joinable' = joinable \cup {"worker"}
  /\ lock' = Free /\ Goto(t, "idle")
  /\ UNCHANGED <<calls, flags, callback, exited, work, queue, stopped>>

\* Who has the mutex while RollbackStart joins the threads.
RollbackLock(t) == Free

\* A context, the acceptor or the network thread cannot be made:
\* RollbackStart up to the joins, for which it lets go of the mutex.
RollbackBegins(t) ==
  /\ pc[t] \in {"start", "startWorker"}
  /\ rollback' = TRUE /\ running' = FALSE /\ stopping' = TRUE
  /\ callbacks' = FALSE /\ commands' = FALSE
  /\ command' = Cancelled
  /\ joinable' = {}
  /\ lock' = RollbackLock(t) /\ Goto(t, "rollback")
  /\ UNCHANGED <<calls, attempted, shutdown, worker, callback, exited, posted, current, ran,
                 queue, stopped>>

RollbackEnds(t) ==
  /\ pc[t] = "rollback" /\ callback \in {"none", "exited"} /\ lock = Free
  /\ shutdown' = TRUE /\ exited' = {"worker", "callback"} /\ rollback' = FALSE
  /\ Drain /\ events' = 0
  /\ Goto(t, "idle")
  /\ UNCHANGED <<calls, lock, attempted, running, stopping, callbacks, commands, worker,
                 callback, joinable, current, ran, published, stopped>>

------------------------------------------------------------------------------
(* Stop.                                                                     *)

\* Stop on the callback thread of a runtime that stops already, and Stop of
\* one that was never started, return at once and change nothing.  A Stop
\* that meets a rollback waits for its end.
StopInRollback(t) ==
  /\ lock = Free /\ attempted /\ rollback /\ t \in Users
  /\ Calls(t, "awaitRollback")
  /\ UNCHANGED <<lock, flags, threads, work, queue, stopped>>

RollbackSeen(t) ==
  /\ pc[t] = "awaitRollback" /\ lock = Free /\ ~rollback
  /\ Goto(t, "idle") /\ stopped' = TRUE
  /\ UNCHANGED <<calls, lock, flags, threads, work, queue>>

\* CancelRuntimeCommands and BeginCallbackShutdown; the mutex is kept.
StopBegins(t) ==
  /\ lock = Free /\ attempted /\ ~rollback
  /\ t = "callback" => ~stopping
  /\ Calls(t, "stop")
  /\ lock' = t
  /\ commands' = FALSE /\ callbacks' = FALSE
  /\ command' = Cancelled
  /\ UNCHANGED <<attempted, rollback, running, stopping, shutdown, threads, posted, current,
                 ran, queue, stopped>>

\* Stop makes the network thread leave, or finds that it has left or never
\* was; then it waits for its end (stopped_cv_).
StopWorker(t) ==
  /\ pc[t] = "stop" /\ t # "worker"
  /\ stopping' = (stopping \/ running)
  /\ lock' = Free /\ Goto(t, "awaitWorker")
  /\ UNCHANGED <<calls, attempted, rollback, running, callbacks, commands, shutdown, threads,
                 work, queue, stopped>>

\* Mutated: the worker does not ask whether the callback thread waits for it.
NobodyWaits == FALSE

\* callback_stop_waiting_for_worker_: a Stop in a handler of the callback
\* thread waits for the end of the worker.
CallbackWaits == pc["callback"] = "awaitWorker"

\* Stop on the worker itself: the first Stop shuts down what the runtime owns,
\* and the worker waits for the end of the callback thread unless that one
\* waits for it.  It leaves when its handler has returned.
StopOnWorker ==
  /\ pc["worker"] = "stop"
  /\ stopping' = TRUE /\ shutdown' = (shutdown \/ ~stopping)
  /\ lock' = Free /\ Goto("worker", IF CallbackWaits THEN "idle" ELSE "awaitCallback")
  /\ UNCHANGED <<calls, attempted, rollback, running, callbacks, commands, threads, work,
                 queue, stopped>>

\* The network thread has ended: ShutdownOwnedState, join, and the drain of
\* context_, which runs no command any more.
StopOwned(t) ==
  /\ pc[t] = "awaitWorker" /\ lock = Free
  /\ "worker" \in exited \/ "worker" \notin joinable
  /\ shutdown' = TRUE
  /\ joinable' = joinable \ {"worker"}
  /\ Drain
  /\ Goto(t, "awaitCallback")
  /\ UNCHANGED <<calls, lock, attempted, rollback, running, stopping, callbacks, commands,
                 worker, callback, exited, current, ran, queue, stopped>>

\* Mutated: the callback thread waits for itself.
WaitsAnyway(t) == "callback" \in exited \/ "callback" \notin joinable

\* What FinishCallbackShutdown waits for; nothing on the callback thread.
CallbackDone(t) ==
  t = "callback" \/ "callback" \in exited \/ "callback" \notin joinable

\* FinishCallbackShutdown, and Stop returns after another drain; the worker
\* drains context_ only when it leaves.
StopReturns(t) ==
  /\ pc[t] = "awaitCallback" /\ lock = Free /\ CallbackDone(t)
  /\ joinable' = IF t = "callback" THEN joinable ELSE joinable \ {"callback"}
  /\ stopped' = (stopped \/ t \in Users)
  /\ IF t = "worker" THEN UNCHANGED <<command, posted>> ELSE Drain
  /\ Goto(t, "idle")
  /\ UNCHANGED <<calls, lock, flags, worker, callback, exited, current, ran, queue>>

------------------------------------------------------------------------------

StopSteps(t) ==
  \/ StopWorker(t) \/ StopOwned(t) \/ StopReturns(t) \/ RollbackSeen(t)
  \/ t = "worker" /\ StopOnWorker
StartSteps(t) == StartCallback(t) \/ StartWorker(t) \/ RollbackBegins(t) \/ RollbackEnds(t)
RunSteps(t) == Post(t) \/ RunReturns(t)
WorkerSteps ==
  \/ (\E c \in Commands : TakeCommand(c)) \/ RunCommand
  \/ LeaveHandler \/ WorkerLeaves \/ WorkerExits
CallbackSteps == Handle \/ HandlerReturns \/ HandlerThrows \/ CallbackLeaves \/ CallbackExits

Next ==
  \/ \E t \in Callers :
       \/ Register(t) \/ TimesOut(t) \/ StartFails(t) \/ StartBegins(t)
       \/ StopInRollback(t) \/ StopBegins(t)
       \/ StopSteps(t) \/ StartSteps(t) \/ RunSteps(t)
  \/ WorkerSteps \/ TakeHandler \/ CallbackSteps \/ Publish \/ WorkerFails

Spec == Init /\ [][Next]_vars

\* Threads run, and handlers return.  Nobody is obliged to call, no timeout to
\* come, and no connection to publish.
Fairness ==
  /\ \A t \in Callers : WF_vars(StopSteps(t)) /\ WF_vars(StartSteps(t)) /\ WF_vars(RunSteps(t))
  /\ WF_vars(WorkerSteps) /\ WF_vars(CallbackSteps)

FairSpec == Spec /\ Fairness

------------------------------------------------------------------------------
(* Properties.                                                               *)

\* The types of the variables; the mutex is held by a caller that is in the
\* middle of Start or Stop (connection_runtime.cpp, Impl).
TypeOK ==
  /\ pc \in [Callers -> {"idle", "post", "result", "start", "startWorker", "rollback", "awaitRollback",
                         "stop", "awaitWorker", "awaitCallback"}]
  /\ calls \in [Callers -> Nat] /\ \A t \in Callers : calls[t] <= MaxCalls[t]
  /\ \/ lock = Free
     \/ lock \in Callers /\ pc[lock] \in {"start", "startWorker", "stop"}
  /\ {attempted, rollback, running, stopping, callbacks, commands, shutdown, stopped}
       \subseteq BOOLEAN
  /\ worker \in {"none", "loop", "command", "handler", "leaving", "exited"}
  /\ callback \in {"none", "loop", "handler", "leaving", "exited"}
  /\ joinable \subseteq {"worker", "callback"} /\ exited \subseteq {"worker", "callback"}
  /\ command \in [Commands -> {"none", "queued", "running", "cancelled", "completed"}]
  /\ posted \subseteq Commands /\ current \in Commands \cup {Nobody}
  /\ ran \subseteq Commands
  /\ events \in 0 .. MaxEvents /\ published \in 0 .. MaxEvents

\* When Stop has returned to a user's thread no thread of the runtime is
\* left: no handler runs or will run, and what the runtime owned is shut
\* down, also when a handler stopped the runtime at the same time.
StopIsBarrier ==
  stopped => /\ worker \in {"none", "exited"} /\ callback \in {"none", "exited"}
             /\ shutdown /\ ~running

\* A call that was told that its command was cancelled, by Stop or by the
\* timeout, is right: the command has not run and will not.
CancelledNeverRuns ==
  [][\A c \in Commands : command[c] = "cancelled" => c \notin ran']_vars

\* Every call returns: commands whose runtime stops under them, a Stop
\* inside a handler of the callback thread or of the worker or of both at
\* once, Stops of several threads, a Stop that meets a Start that fails.
\* Each thread makes finitely many calls (MaxCalls), so this is that in the
\* end nobody is inside one.
CallsReturn == <>[](\A t \in Callers : pc[t] = "idle")

==============================================================================
