---------------------------- MODULE EventChannel ----------------------------
(***************************************************************************)
(* The wakeup-and-drain event queue of the C ABI                           *)
(* (native/src/bridge/event_channel.hpp) with its one consumer, the Dart   *)
(* isolate (apps/desktop/lib/core/native/native_engine.dart).              *)
(*                                                                         *)
(* Native threads enqueue events; the thread whose event makes the queue   *)
(* non-empty runs the registered wakeup callback outside the channel's     *)
(* mutex.  The callback only schedules a drain on the isolate, which polls *)
(* until the queue is empty or an event cannot be handled.                 *)
(* SetCallback(nullptr) and FinishShutdown are barriers: on any other      *)
(* thread they return only when no callback runs.                          *)
(*                                                                         *)
(* One action is one critical section of mutex_, one callback, or one      *)
(* notification.  Payloads are abstracted away: an event is its sequence   *)
(* number and its EVENTS_DROPPED_BEFORE flag.                              *)
(***************************************************************************)
EXTENDS Naturals, Sequences

CONSTANTS Threads,          \* native threads that call into the bridge
          NoThread,         \* "no thread": the default std::thread::id
          Capacity,         \* XNN_TRANSFER_EVENT_QUEUE_CAPACITY
          MaxEvents,        \* bound: events enqueued in one behaviour
          MaxRegistrations  \* bound: callback registrations in one behaviour

ASSUME CapacityAssumption == Capacity \in Nat \ {0}
ASSUME BoundsAssumption == MaxEvents \in Nat /\ MaxRegistrations \in Nat
ASSUME NoThreadAssumption == NoThread \notin Threads

VARIABLES
  queue,              \* queue_, head_ and size_: the ring as a sequence
  next_sequence,      \* next_sequence_
  callback,           \* callback_: the n-th registration, 0 is nullptr
  callback_thread,    \* callback_thread_; callback_active_ iff not NoThread
  callback_pending,   \* callback_pending_
  registration_open,  \* callback_registration_open_
  events_open,        \* events_open_
  pc,                 \* where each native thread is
  target,             \* the registration each thread is calling
  barrier,            \* registrations a waiting SetCallback(nullptr) outlives
  scheduled,          \* a drain is queued on the isolate
  draining,           \* the isolate is inside _handleEventWakeup
  registrations,      \* history: number of registrations so far
  retired,            \* history: registrations <= retired are unregistered
  finished,           \* history: a FinishShutdown has returned
  lost,               \* history: the last event dropped, 0 once a flag is polled
  abandoned           \* history: the last drain threw and left events behind

channel == <<queue, next_sequence, callback, callback_thread, callback_pending,
             registration_open, events_open>>
isolate == <<scheduled, draining>>
vars == <<channel, pc, target, barrier, isolate, registrations, retired,
          finished, lost, abandoned>>

Running == {"invoke", "return"}          \* inside InvokeCallback's loop body
Waiting == {"unregister_wait", "shutdown_wait"}
Woken == {"unregister_woken", "shutdown_woken"}
Locations == {"idle", "notify"} \cup Running \cup Waiting \cup Woken

Events == [sequence : Nat, dropped_before : BOOLEAN]

callback_active == callback_thread # NoThread

Init ==
  /\ queue = <<>>
  /\ next_sequence = 1
  /\ callback = 0
  /\ callback_thread = NoThread
  /\ callback_pending = FALSE
  /\ registration_open = TRUE
  /\ events_open = TRUE
  /\ pc = [t \in Threads |-> "idle"]
  /\ target = [t \in Threads |-> 0]
  /\ barrier = [t \in Threads |-> 0]
  /\ scheduled = FALSE
  /\ draining = FALSE
  /\ registrations = 0
  /\ retired = 0
  /\ finished = FALSE
  /\ lost = 0
  /\ abandoned = FALSE

-----------------------------------------------------------------------------
(* The room Enqueue makes: a full ring loses its head.                     *)
Kept(q) == IF Len(q) = Capacity THEN Tail(q) ELSE q

(* Mutated: a loss is not flagged.                                         *)
NeverFlagged(q) == FALSE

(* The EVENTS_DROPPED_BEFORE flag of the event that was added to `q`.      *)
DroppedBefore(q) == Len(q) = Capacity

(* The newest event that is missing, and not reported, once `q` got one    *)
(* more.                                                                   *)
LostWith(q) == IF Len(q) = Capacity THEN Head(q).sequence ELSE lost

(* Mutated: the wakeup is not noted.                                       *)
NothingPending == FALSE

(* Enqueue asks the running callback's thread for one more wakeup when a   *)
(* callback is still registered.                                           *)
PendingWakeup == callback # 0

(* Mutated: a barrier waits for nobody.                                    *)
WaitsForNobody(t) == FALSE

(* A barrier waits for a callback that runs on another thread.             *)
MustWait(t) == callback_active /\ callback_thread # t

(* Enqueue prepares the callback itself only while none is running.        *)
MayPrepare == ~callback_active

(* Mutated: waiting threads are not notified.                              *)
InvokeWithoutNotify(cb) == IF cb = 0 THEN "idle" ELSE "invoke"

(* Where InvokeCallback continues with the target it was given: in the     *)
(* callback, or, with an empty target, at callback_finished_.notify_all(). *)
InvokeCallback(cb) == IF cb = 0 THEN "notify" ELSE "invoke"

(* PrepareCallbackLocked for callback `cb`: claim it and carry it out of   *)
(* the critical section, or leave with an empty target.                    *)
PrepareCallback(t, cb) ==
  /\ callback_thread' = IF cb = 0 THEN NoThread ELSE t
  /\ target' = [target EXCEPT ![t] = cb]
  /\ pc' = [pc EXCEPT ![t] = InvokeCallback(cb)]

(* Leaving a critical section without a target.                            *)
NoTarget(t) ==
  /\ pc' = [pc EXCEPT ![t] = InvokeCallback(0)]
  /\ UNCHANGED <<callback_thread, target>>

(* Enqueue: a full ring drops its head and flags the new event; only the   *)
(* event that makes the queue non-empty asks for a wakeup.                  *)
Enqueue(t) ==
  /\ pc[t] = "idle"
  /\ next_sequence <= MaxEvents
  /\ events_open
  /\ queue' = Append(Kept(queue), [sequence |-> next_sequence,
                                   dropped_before |-> DroppedBefore(queue)])
  /\ next_sequence' = next_sequence + 1
  /\ lost' = LostWith(queue)
  /\ IF Kept(queue) # <<>>
       THEN NoTarget(t) /\ UNCHANGED callback_pending
       ELSE IF MayPrepare
              THEN PrepareCallback(t, callback) /\ UNCHANGED callback_pending
              ELSE NoTarget(t) /\ callback_pending' = PendingWakeup
  /\ UNCHANGED <<callback, registration_open, events_open, barrier, isolate,
                 registrations, retired, finished, abandoned>>

(* SetCallback(config): refused once shutdown began, while a callback is   *)
(* set and while one runs; a queue that already holds events is signalled. *)
Register(t) ==
  /\ pc[t] = "idle"
  /\ registrations < MaxRegistrations
  /\ registration_open /\ callback = 0 /\ ~callback_active
  /\ registrations' = registrations + 1
  /\ callback' = registrations'
  /\ IF queue # <<>> THEN PrepareCallback(t, callback') ELSE NoTarget(t)
  /\ UNCHANGED <<queue, next_sequence, callback_pending, registration_open,
                 events_open, barrier, isolate, retired, finished, lost, abandoned>>

(* SetCallback(nullptr): clears the callback, then waits for a callback    *)
(* running on another thread.  The running callback itself may call it and *)
(* does not wait.                                                          *)
Unregister(t) ==
  /\ pc[t] \in {"idle", "invoke"}
  /\ callback' = 0
  /\ callback_pending' = FALSE
  /\ IF MustWait(t)
       THEN /\ pc' = [pc EXCEPT ![t] = "unregister_wait"]
            /\ barrier' = [barrier EXCEPT ![t] = registrations]
            /\ UNCHANGED retired
       ELSE /\ retired' = IF callback_thread = t THEN retired ELSE registrations
            /\ UNCHANGED <<pc, barrier>>
  /\ UNCHANGED <<queue, next_sequence, callback_thread, registration_open,
                 events_open, target, isolate, registrations, finished, lost, abandoned>>

(* The foreign callback: a NativeCallable.listener posts a drain to the    *)
(* isolate and returns.                                                    *)
CallbackRuns(t) ==
  /\ pc[t] = "invoke"
  /\ pc' = [pc EXCEPT ![t] = "return"]
  /\ scheduled' = TRUE
  /\ UNCHANGED <<channel, target, barrier, draining, registrations, retired,
                 finished, lost, abandoned>>

(* The critical section that ends one turn of InvokeCallback's loop: a     *)
(* wakeup that became due meanwhile is delivered by the same thread.       *)
CallbackReturns(t) ==
  /\ pc[t] = "return"
  /\ PrepareCallback(t, IF callback_pending THEN callback ELSE 0)
  /\ callback_pending' = FALSE
  /\ UNCHANGED <<queue, next_sequence, callback, registration_open, events_open,
                 barrier, isolate, registrations, retired, finished, lost, abandoned>>

(* callback_finished_.notify_all() at the end of InvokeCallback.           *)
NotifyAll(t) ==
  /\ pc[t] = "notify"
  /\ pc' = [u \in Threads |->
              CASE u = t                      -> "idle"
                [] pc[u] = "unregister_wait"  -> "unregister_woken"
                [] pc[u] = "shutdown_wait"    -> "shutdown_woken"
                [] OTHER                      -> pc[u]]
  /\ UNCHANGED <<channel, target, barrier, isolate, registrations, retired,
                 finished, lost, abandoned>>

(* A notified SetCallback(nullptr) evaluates its predicate again.          *)
UnregisterWakes(t) ==
  /\ pc[t] = "unregister_woken"
  /\ IF callback_active
       THEN pc' = [pc EXCEPT ![t] = "unregister_wait"] /\ UNCHANGED retired
       ELSE /\ pc' = [pc EXCEPT ![t] = "idle"]
            /\ retired' = IF barrier[t] > retired THEN barrier[t] ELSE retired
  /\ UNCHANGED <<channel, target, barrier, isolate, registrations, finished,
                 lost, abandoned>>

(* BeginShutdown.                                                          *)
BeginShutdown(t) ==
  /\ pc[t] = "idle"
  /\ registration_open
  /\ registration_open' = FALSE
  /\ UNCHANGED <<queue, next_sequence, callback, callback_thread, callback_pending,
                 events_open, pc, target, barrier, isolate, registrations, retired,
                 finished, lost, abandoned>>

(* FinishShutdown: closes the channel, waits for a running callback, and   *)
(* only then clears the callback.  The engine's lifecycle mutex admits one *)
(* shutdown at a time, and never one on the callback's own thread.         *)
FinishShutdown(t) ==
  /\ pc[t] = "idle"
  /\ \A u \in Threads : pc[u] \notin {"shutdown_wait", "shutdown_woken"}
  /\ registration_open' = FALSE
  /\ events_open' = FALSE
  /\ IF MustWait(t)
       THEN /\ pc' = [pc EXCEPT ![t] = "shutdown_wait"]
            /\ UNCHANGED <<callback, callback_pending, finished>>
       ELSE /\ callback' = 0
            /\ callback_pending' = FALSE
            /\ finished' = TRUE
            /\ UNCHANGED pc
  /\ UNCHANGED <<queue, next_sequence, callback_thread, target, barrier, isolate,
                 registrations, retired, lost, abandoned>>

(* A notified FinishShutdown evaluates its predicate again.                *)
ShutdownWakes(t) ==
  /\ pc[t] = "shutdown_woken"
  /\ IF callback_active
       THEN /\ pc' = [pc EXCEPT ![t] = "shutdown_wait"]
            /\ UNCHANGED <<callback, callback_pending, finished>>
       ELSE /\ pc' = [pc EXCEPT ![t] = "idle"]
            /\ callback' = 0
            /\ callback_pending' = FALSE
            /\ finished' = TRUE
  /\ UNCHANGED <<queue, next_sequence, callback_thread, registration_open,
                 events_open, target, barrier, isolate, registrations, retired,
                 lost, abandoned>>

(* _handleEventWakeup starts on the isolate.                               *)
DrainStarts ==
  /\ scheduled /\ ~draining
  /\ scheduled' = FALSE
  /\ draining' = TRUE
  /\ abandoned' = FALSE
  /\ UNCHANGED <<channel, pc, target, barrier, registrations, retired, finished, lost>>

(* Poll takes the oldest event; a flagged one makes the isolate read the   *)
(* recovery snapshots.                                                     *)
TakeEvent ==
  /\ draining /\ queue # <<>>
  /\ queue' = Tail(queue)
  /\ lost' = IF Head(queue).dropped_before THEN 0 ELSE lost
  /\ UNCHANGED <<next_sequence, callback, callback_thread, callback_pending,
                 registration_open, events_open, pc, target, barrier, scheduled,
                 registrations, retired, finished>>

(* One turn of the drain loop: the event is decoded and handed on.         *)
Poll == TakeEvent /\ UNCHANGED <<draining, abandoned>>

(* The event cannot be decoded, or the snapshots it asks for stay stale:   *)
(* the exception ends the loop, every stream gets the error, and what is   *)
(* left in the queue waits for another wakeup.                             *)
PollThrows ==
  /\ TakeEvent
  /\ draining' = FALSE
  /\ abandoned' = (Tail(queue) # <<>>)

(* EVENT_QUEUE_EMPTY ends the loop.                                        *)
DrainEnds ==
  /\ draining /\ queue = <<>>
  /\ draining' = FALSE
  /\ UNCHANGED <<channel, pc, target, barrier, scheduled, registrations, retired,
                 finished, lost, abandoned>>

Step(t) ==
  \/ Enqueue(t) \/ Register(t) \/ Unregister(t)
  \/ BeginShutdown(t) \/ FinishShutdown(t)
  \/ CallbackRuns(t) \/ CallbackReturns(t) \/ NotifyAll(t)
  \/ UnregisterWakes(t) \/ ShutdownWakes(t)

Next == (\E t \in Threads : Step(t)) \/ DrainStarts \/ Poll \/ PollThrows \/ DrainEnds

(* A thread inside InvokeCallback or woken from a wait keeps running, and  *)
(* the isolate serves its message queue.  Nothing obliges a thread to call *)
(* into the bridge.                                                        *)
Fairness ==
  /\ \A t \in Threads :
       WF_vars(CallbackRuns(t) \/ CallbackReturns(t) \/ NotifyAll(t)
               \/ UnregisterWakes(t) \/ ShutdownWakes(t))
  /\ WF_vars(DrainStarts \/ Poll \/ PollThrows \/ DrainEnds)

Spec == Init /\ [][Next]_vars
FairSpec == Spec /\ Fairness

-----------------------------------------------------------------------------
(* Type invariant: the queue never outgrows the ring of                    *)
(* XNN_TRANSFER_EVENT_QUEUE_CAPACITY entries.                              *)
TypeOK ==
  /\ queue \in Seq(Events) /\ Len(queue) <= Capacity
  /\ next_sequence \in Nat
  /\ callback \in Nat
  /\ callback_thread \in Threads \cup {NoThread}
  /\ callback_pending \in BOOLEAN
  /\ registration_open \in BOOLEAN
  /\ events_open \in BOOLEAN
  /\ pc \in [Threads -> Locations]
  /\ target \in [Threads -> Nat]
  /\ barrier \in [Threads -> Nat]
  /\ scheduled \in BOOLEAN
  /\ draining \in BOOLEAN
  /\ registrations \in Nat
  /\ retired \in Nat
  /\ finished \in BOOLEAN
  /\ lost \in Nat
  /\ abandoned \in BOOLEAN

(* SetCallback(nullptr) is a barrier: once it has returned on a thread     *)
(* that is not the callback's own, no thread is inside a callback that was *)
(* registered before the call, and none can start one.  The Dart adapter   *)
(* closes the callback's code pointer on the strength of this.             *)
UnregisterBarrier ==
  /\ \A t \in Threads : pc[t] \in Running => target[t] > retired
  /\ callback # 0 => callback > retired

(* FinishShutdown is a barrier too: after it has returned no callback runs *)
(* or can run, whatever was pending when the engine stopped.               *)
ShutdownBarrier ==
  finished => /\ \A t \in Threads : pc[t] \notin Running
              /\ callback = 0 /\ ~callback_pending

(* Two threads never run the wakeup callback at once, however enqueues,    *)
(* registrations and pending wakeups interleave.                           *)
OneCallback ==
  \A t, u \in Threads : pc[t] \in Running /\ pc[u] \in Running => t = u

(* Loss is not silent: while an event was dropped and the isolate has not  *)
(* polled a flagged event since, a flagged event that is younger than the  *)
(* dropped one is still in the queue, even when flagged events themselves  *)
(* are dropped.  (The flag is on the event that took the room, so events   *)
(* between the gap and the flag come first.)                               *)
LossIsFlagged ==
  lost # 0 => \E i \in 1..Len(queue) :
                queue[i].dropped_before /\ queue[i].sequence > lost

(* The ring holds the youngest events in the order of their numbers, and   *)
(* what was dropped is older than all of them.                             *)
QueueIsSuffix ==
  /\ \A i \in 1..Len(queue) : queue[i].sequence = next_sequence - Len(queue) + i - 1
  /\ lost < next_sequence - Len(queue)

(* Why the barriers hold.  A callback runs exactly on callback_thread_; a  *)
(* wakeup is pending only for a running callback that is still registered; *)
(* registrations made while SetCallback(nullptr) waits are younger than    *)
(* its barrier; a shutdown in progress has closed the channel for good.    *)
BarrierReasons ==
  /\ \A t \in Threads : pc[t] \in Running <=> callback_thread = t
  /\ callback_pending => callback_active /\ callback # 0
  /\ callback <= registrations /\ retired <= registrations
  /\ \A t \in Threads : barrier[t] <= registrations
  /\ \A t \in Threads : pc[t] \in {"unregister_wait", "unregister_woken"}
                         => callback = 0 \/ callback > barrier[t]
  /\ (finished \/ \E t \in Threads : pc[t] \in {"shutdown_wait", "shutdown_woken"})
       => ~registration_open /\ ~events_open

(* The inductive invariant of the channel.                                 *)
ChannelInv ==
  /\ TypeOK
  /\ BarrierReasons
  /\ UnregisterBarrier
  /\ ShutdownBarrier
  /\ QueueIsSuffix
  /\ LossIsFlagged

(* Every SetCallback(nullptr) and every FinishShutdown that waits for a    *)
(* callback on another thread returns.                                     *)
BarriersReturn ==
  \A t \in Threads : pc[t] \in Waiting ~> pc[t] = "idle"

(* The isolate eventually empties a queue it is registered for, unless an  *)
(* exception ended its last drain: enqueueing during a callback, during a  *)
(* drain or just after one never strands an event.                         *)
EventsAreDrained ==
  queue # <<>> /\ callback # 0 ~> queue = <<>> \/ callback = 0 \/ abandoned

(* Without that exception: an event never waits for good.  The code does   *)
(* not promise it, since a wakeup comes only with the event that makes the *)
(* queue non-empty.                                                        *)
NothingStranded ==
  queue # <<>> /\ callback # 0 ~> queue = <<>> \/ callback = 0
=============================================================================
