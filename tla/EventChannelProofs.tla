------------------------- MODULE EventChannelProofs -------------------------
(***************************************************************************)
(* The barriers and the loss flag of the event channel hold for any number *)
(* of threads, any ring size and any number of events and registrations.   *)
(* The argument is one inductive invariant, ChannelInv; each action has a  *)
(* lemma that it preserves ChannelInv.                                     *)
(***************************************************************************)
EXTENDS EventChannel, TLAPS

USE DEF Running, Waiting, Woken, Locations, Events, channel, isolate, vars,
        callback_active, MustWait, MayPrepare, PendingWakeup, InvokeCallback

(* The initial state of the channel satisfies the invariant.               *)
LEMMA InitChannelInv == Init => ChannelInv
  <1> SUFFICES ASSUME Init PROVE ChannelInv
    OBVIOUS
  <1>1. TypeOK
    <2>1. <<>> \in Seq(Events) /\ Len(<<>>) <= Capacity
      BY CapacityAssumption
    <2>2. pc \in [Threads -> Locations] /\ target \in [Threads -> Nat]
          /\ barrier \in [Threads -> Nat]
      BY DEF Init
    <2> QED
      BY <2>1, <2>2 DEF Init, TypeOK
  <1>2. BarrierReasons
    BY NoThreadAssumption DEF Init, BarrierReasons
  <1>3. UnregisterBarrier /\ ShutdownBarrier /\ LossIsFlagged
    BY DEF Init, UnregisterBarrier, ShutdownBarrier, LossIsFlagged
  <1>4. QueueIsSuffix
    <2>1. Len(<<>>) = 0
      OBVIOUS
    <2> QED
      BY <2>1 DEF Init, QueueIsSuffix
  <1> QED
    BY <1>1, <1>2, <1>3, <1>4 DEF ChannelInv

(* A step that changes none of the variables keeps the invariant.          *)
LEMMA StutterChannelInv == ChannelInv /\ UNCHANGED vars => ChannelInv'
  <1> SUFFICES ASSUME ChannelInv, UNCHANGED vars PROVE ChannelInv'
    OBVIOUS
  <1>1. TypeOK'
    BY Zenon DEF ChannelInv, TypeOK
  <1>2. BarrierReasons'
    BY Zenon DEF ChannelInv, BarrierReasons
  <1>3. UnregisterBarrier' /\ ShutdownBarrier'
    BY Zenon DEF ChannelInv, UnregisterBarrier, ShutdownBarrier
  <1>4. QueueIsSuffix' /\ LossIsFlagged'
    BY Zenon DEF ChannelInv, QueueIsSuffix, LossIsFlagged
  <1> QED
    BY Zenon, <1>1, <1>2, <1>3, <1>4 DEF ChannelInv

(* What a step of the isolate leaves alone, the barriers need not fear.    *)
LEMMA BarriersUntouched ==
  ASSUME BarrierReasons, UnregisterBarrier, ShutdownBarrier,
         UNCHANGED <<callback, callback_thread, callback_pending, registration_open, events_open,
                     pc, target, barrier, registrations, retired, finished>>
  PROVE  BarrierReasons' /\ UnregisterBarrier' /\ ShutdownBarrier'
  <1>1. BarrierReasons'
    BY Zenon DEF BarrierReasons
  <1>2. UnregisterBarrier' /\ ShutdownBarrier'
    BY Zenon DEF UnregisterBarrier, ShutdownBarrier
  <1> QED
    BY Zenon, <1>1, <1>2

(* A queue without its head, and with one more entry.                      *)
LEMMA TailOf ==
  ASSUME NEW S, NEW q \in Seq(S), q # <<>>
  PROVE  /\ Tail(q) \in Seq(S) /\ Len(Tail(q)) = Len(q) - 1 /\ Len(q) \in Nat \ {0}
         /\ \A i \in 1..(Len(q) - 1) : Tail(q)[i] = q[i + 1]
         /\ Head(q) = q[1] /\ q[1] \in S
  OBVIOUS

LEMMA AppendOf ==
  ASSUME NEW S, NEW q \in Seq(S)
  PROVE  \A e \in S : /\ Append(q, e) \in Seq(S) /\ Len(Append(q, e)) = Len(q) + 1
                      /\ Append(q, e)[Len(q) + 1] = e
                      /\ \A i \in 1..Len(q) : Append(q, e)[i] = q[i]
  OBVIOUS

(* Where an entry of the ring comes from when event `n` is added: the new  *)
(* one is last and flagged if the ring was full, the others move up by one *)
(* place if it was.                                                        *)
LEMMA EnqueueQueue ==
  ASSUME NEW q \in Seq(Events), Len(q) <= Capacity, NEW n \in Nat
  PROVE  LET r == Append(Kept(q), [sequence |-> n, dropped_before |-> DroppedBefore(q)])
             k == IF Len(q) = Capacity THEN 1 ELSE 0
         IN  /\ r \in Seq(Events)
             /\ Len(r) = Len(q) + 1 - k /\ Len(r) <= Capacity
             /\ r[Len(r)].sequence = n
             /\ r[Len(r)].dropped_before = (Len(q) = Capacity)
             /\ \A i \in 1..(Len(r) - 1) : r[i] = q[i + k]
  <1> DEFINE e == [sequence |-> n, dropped_before |-> DroppedBefore(q)]
  <1>1. e \in Events /\ e.sequence = n /\ e.dropped_before = (Len(q) = Capacity)
    BY Zenon DEF DroppedBefore
  <1>2. Len(q) \in Nat
    OBVIOUS
  <1> HIDE DEF Events, e
  <1>3. CASE Len(q) = Capacity
    <2>1. q # <<>>
      BY <1>3, CapacityAssumption
    <2>2. /\ Tail(q) \in Seq(Events) /\ Len(Tail(q)) = Len(q) - 1
          /\ \A i \in 1..(Len(q) - 1) : Tail(q)[i] = q[i + 1]
      BY Zenon, <2>1, TailOf
    <2>3. /\ Append(Tail(q), e) \in Seq(Events)
          /\ Len(Append(Tail(q), e)) = Len(Tail(q)) + 1
          /\ Append(Tail(q), e)[Len(Tail(q)) + 1] = e
          /\ \A i \in 1..Len(Tail(q)) : Append(Tail(q), e)[i] = Tail(q)[i]
      <3>1. \A x \in Events : /\ Append(Tail(q), x) \in Seq(Events)
                              /\ Len(Append(Tail(q), x)) = Len(Tail(q)) + 1
                              /\ Append(Tail(q), x)[Len(Tail(q)) + 1] = x
                              /\ \A i \in 1..Len(Tail(q)) : Append(Tail(q), x)[i] = Tail(q)[i]
        BY <2>2, AppendOf
      <3> QED
        BY Zenon, <1>1, <3>1
    <2>4. Kept(q) = Tail(q)
      BY Zenon, <1>3 DEF Kept
    <2>5. /\ Len(Append(Tail(q), e)) = Len(q) /\ Len(q) <= Capacity /\ Len(q) = Len(q) + 1 - 1
          /\ \A i \in 1..(Len(q) - 1) : Append(Tail(q), e)[i] = q[i + 1]
          /\ Append(Tail(q), e)[Len(q)] = e
      BY <1>2, <2>2, <2>3
    <2> QED
      BY Zenon, <1>1, <1>3, <2>3, <2>4, <2>5 DEF e
  <1>4. CASE Len(q) # Capacity
    <2>1. /\ Append(q, e) \in Seq(Events) /\ Len(Append(q, e)) = Len(q) + 1
          /\ Append(q, e)[Len(q) + 1] = e
          /\ \A i \in 1..Len(q) : Append(q, e)[i] = q[i]
      <3>1. \A x \in Events : /\ Append(q, x) \in Seq(Events) /\ Len(Append(q, x)) = Len(q) + 1
                              /\ Append(q, x)[Len(q) + 1] = x
                              /\ \A i \in 1..Len(q) : Append(q, x)[i] = q[i]
        BY AppendOf
      <3> QED
        BY Zenon, <1>1, <3>1
    <2>2. Kept(q) = q
      BY Zenon, <1>4 DEF Kept
    <2>3. /\ Len(Append(q, e)) <= Capacity /\ Len(Append(q, e)) = Len(q) + 1 - 0
          /\ Append(q, e)[Len(Append(q, e))] = e
          /\ \A i \in 1..(Len(Append(q, e)) - 1) : Append(q, e)[i] = q[i + 0]
      BY <1>2, <1>4, <2>1, CapacityAssumption
    <2> QED
      BY Zenon, <1>1, <1>4, <2>1, <2>2, <2>3 DEF e
  <1> QED
    BY Zenon, <1>3, <1>4

(* SetCallback(config) numbers the callback above every retired one. *)
LEMMA RegisterInv ==
  ASSUME ChannelInv, NEW t \in Threads, Register(t)
  PROVE  ChannelInv'
  <1> USE DEF ChannelInv
  <1>1. TypeOK'
    <2>1. CASE queue # <<>>
      <3>1. registrations' \in Nat /\ callback' \in Nat /\ callback_thread' \in Threads \cup {NoThread}
        BY <2>1 DEF Register, PrepareCallback, TypeOK
      <3>2. pc' \in [Threads -> Locations] /\ target' \in [Threads -> Nat]
        BY <2>1, <3>1 DEF Register, PrepareCallback, TypeOK
      <3> QED
        BY <3>1, <3>2, Zenon DEF Register, TypeOK
    <2>2. CASE queue = <<>>
      <3>1. registrations' \in Nat /\ callback' \in Nat
        BY DEF Register, TypeOK
      <3>2. pc' \in [Threads -> Locations] /\ UNCHANGED <<callback_thread, target>>
        BY <2>2 DEF Register, NoTarget, TypeOK
      <3> QED
        BY <3>1, <3>2, Zenon DEF Register, TypeOK
    <2> QED
      BY <2>1, <2>2
  <1>2. BarrierReasons'
    BY NoThreadAssumption DEF Register, PrepareCallback, NoTarget, TypeOK, BarrierReasons
  <1>3. UnregisterBarrier'
    BY NoThreadAssumption DEF Register, PrepareCallback, NoTarget, TypeOK, BarrierReasons, UnregisterBarrier
  <1>4. ShutdownBarrier'
    BY NoThreadAssumption DEF Register, PrepareCallback, NoTarget, TypeOK, BarrierReasons, ShutdownBarrier
  <1>5. QueueIsSuffix' /\ LossIsFlagged'
    BY Zenon DEF Register, channel, QueueIsSuffix, LossIsFlagged
  <1> QED
    BY <1>1, <1>2, <1>3, <1>4, <1>5

(* SetCallback(nullptr) either waits or finds no callback running elsewhere. *)
LEMMA UnregisterInv ==
  ASSUME ChannelInv, NEW t \in Threads, Unregister(t)
  PROVE  ChannelInv'
  <1> USE DEF ChannelInv
  <1>1. TypeOK'
    BY ZenonT(60) DEF Unregister, TypeOK, BarrierReasons
  <1>2. BarrierReasons'
    <2>1. CASE MustWait(t)
      <3>1. /\ callback' = 0 /\ callback_pending' = FALSE
            /\ callback_thread' = callback_thread /\ callback_thread # t
            /\ pc[t] \in {"idle", "invoke"}
            /\ pc' = [pc EXCEPT ![t] = "unregister_wait"]
            /\ barrier' = [barrier EXCEPT ![t] = registrations]
            /\ UNCHANGED <<registration_open, events_open, registrations, retired, finished>>
        BY <2>1 DEF Unregister
      <3>2. pc[t] = "idle"
        BY <3>1 DEF BarrierReasons
      <3> QED
        BY <3>1, <3>2, NoThreadAssumption DEF TypeOK, BarrierReasons
    <2>2. CASE ~MustWait(t)
      BY <2>2, NoThreadAssumption DEF Unregister, TypeOK, BarrierReasons
    <2> QED
      BY <2>1, <2>2
  <1>3. UnregisterBarrier'
    BY NoThreadAssumption DEF Unregister, TypeOK, BarrierReasons, UnregisterBarrier
  <1>4. ShutdownBarrier'
    BY NoThreadAssumption DEF Unregister, TypeOK, BarrierReasons, ShutdownBarrier
  <1>5. QueueIsSuffix' /\ LossIsFlagged'
    BY Zenon DEF Unregister, channel, QueueIsSuffix, LossIsFlagged
  <1> QED
    BY <1>1, <1>2, <1>3, <1>4, <1>5

(* The callback itself touches only the isolate's message queue. *)
LEMMA CallbackRunsInv ==
  ASSUME ChannelInv, NEW t \in Threads, CallbackRuns(t)
  PROVE  ChannelInv'
  <1> USE DEF ChannelInv
  <1>1. TypeOK'
    BY DEF CallbackRuns, TypeOK, BarrierReasons
  <1>2. BarrierReasons'
    BY NoThreadAssumption DEF CallbackRuns, TypeOK, BarrierReasons
  <1>3. UnregisterBarrier'
    BY NoThreadAssumption DEF CallbackRuns, TypeOK, BarrierReasons, UnregisterBarrier
  <1>4. ShutdownBarrier'
    BY NoThreadAssumption DEF CallbackRuns, TypeOK, BarrierReasons, ShutdownBarrier
  <1>5. QueueIsSuffix' /\ LossIsFlagged'
    BY Zenon DEF CallbackRuns, channel, QueueIsSuffix, LossIsFlagged
  <1> QED
    BY <1>1, <1>2, <1>3, <1>4, <1>5

(* A pending wakeup is delivered for a registration that is still current. *)
LEMMA CallbackReturnsInv ==
  ASSUME ChannelInv, NEW t \in Threads, CallbackReturns(t)
  PROVE  ChannelInv'
  <1> USE DEF ChannelInv
  <1>1. TypeOK'
    BY DEF CallbackReturns, PrepareCallback, NoTarget, TypeOK, BarrierReasons
  <1>2. BarrierReasons'
    BY NoThreadAssumption DEF CallbackReturns, PrepareCallback, NoTarget, TypeOK, BarrierReasons
  <1>3. UnregisterBarrier'
    BY NoThreadAssumption DEF CallbackReturns, PrepareCallback, NoTarget, TypeOK, BarrierReasons, UnregisterBarrier
  <1>4. ShutdownBarrier'
    BY NoThreadAssumption DEF CallbackReturns, PrepareCallback, NoTarget, TypeOK, BarrierReasons, ShutdownBarrier
  <1>5. QueueIsSuffix' /\ LossIsFlagged'
    BY Zenon DEF CallbackReturns, channel, QueueIsSuffix, LossIsFlagged
  <1> QED
    BY <1>1, <1>2, <1>3, <1>4, <1>5

(* A notification moves waiting threads and nothing else. *)
LEMMA NotifyAllInv ==
  ASSUME ChannelInv, NEW t \in Threads, NotifyAll(t)
  PROVE  ChannelInv'
  <1> USE DEF ChannelInv
  <1>1. TypeOK'
    BY DEF NotifyAll, TypeOK, BarrierReasons
  <1>2. BarrierReasons'
    BY NoThreadAssumption DEF NotifyAll, TypeOK, BarrierReasons
  <1>3. UnregisterBarrier'
    BY NoThreadAssumption DEF NotifyAll, TypeOK, BarrierReasons, UnregisterBarrier
  <1>4. ShutdownBarrier'
    BY NoThreadAssumption DEF NotifyAll, TypeOK, BarrierReasons, ShutdownBarrier
  <1>5. QueueIsSuffix' /\ LossIsFlagged'
    BY Zenon DEF NotifyAll, channel, QueueIsSuffix, LossIsFlagged
  <1> QED
    BY <1>1, <1>2, <1>3, <1>4, <1>5

(* The wait of SetCallback(nullptr) ends with no callback running. *)
LEMMA UnregisterWakesInv ==
  ASSUME ChannelInv, NEW t \in Threads, UnregisterWakes(t)
  PROVE  ChannelInv'
  <1> USE DEF ChannelInv
  <1>1. TypeOK'
    <2>1. CASE callback_active
      BY <2>1 DEF UnregisterWakes, TypeOK
    <2>2. CASE ~callback_active
      BY <2>2 DEF UnregisterWakes, TypeOK
    <2> QED
      BY <2>1, <2>2
  <1>2. BarrierReasons'
    BY NoThreadAssumption DEF UnregisterWakes, TypeOK, BarrierReasons
  <1>3. UnregisterBarrier'
    BY NoThreadAssumption DEF UnregisterWakes, TypeOK, BarrierReasons, UnregisterBarrier
  <1>4. ShutdownBarrier'
    BY NoThreadAssumption DEF UnregisterWakes, TypeOK, BarrierReasons, ShutdownBarrier
  <1>5. QueueIsSuffix' /\ LossIsFlagged'
    BY Zenon DEF UnregisterWakes, channel, QueueIsSuffix, LossIsFlagged
  <1> QED
    BY <1>1, <1>2, <1>3, <1>4, <1>5

(* BeginShutdown closes registration. *)
LEMMA BeginShutdownInv ==
  ASSUME ChannelInv, NEW t \in Threads, BeginShutdown(t)
  PROVE  ChannelInv'
  <1> USE DEF ChannelInv
  <1>1. TypeOK'
    BY DEF BeginShutdown, TypeOK, BarrierReasons
  <1>2. BarrierReasons'
    BY NoThreadAssumption DEF BeginShutdown, TypeOK, BarrierReasons
  <1>3. UnregisterBarrier'
    BY NoThreadAssumption DEF BeginShutdown, TypeOK, BarrierReasons, UnregisterBarrier
  <1>4. ShutdownBarrier'
    BY NoThreadAssumption DEF BeginShutdown, TypeOK, BarrierReasons, ShutdownBarrier
  <1>5. QueueIsSuffix' /\ LossIsFlagged'
    BY Zenon DEF BeginShutdown, channel, QueueIsSuffix, LossIsFlagged
  <1> QED
    BY <1>1, <1>2, <1>3, <1>4, <1>5

(* FinishShutdown closes the channel and waits for a running callback. *)
LEMMA FinishShutdownInv ==
  ASSUME ChannelInv, NEW t \in Threads, FinishShutdown(t)
  PROVE  ChannelInv'
  <1> USE DEF ChannelInv
  <1>1. TypeOK'
    <2>1. CASE MustWait(t)
      BY <2>1 DEF FinishShutdown, TypeOK
    <2>2. CASE ~MustWait(t)
      <3>1. callback' \in Nat /\ pc' = pc
        BY <2>2 DEF FinishShutdown
      <3> QED
        BY <2>2, <3>1, Zenon DEF FinishShutdown, TypeOK
    <2> QED
      BY <2>1, <2>2
  <1>2. BarrierReasons'
    BY NoThreadAssumption DEF FinishShutdown, TypeOK, BarrierReasons
  <1>3. UnregisterBarrier'
    BY NoThreadAssumption DEF FinishShutdown, TypeOK, BarrierReasons, UnregisterBarrier
  <1>4. ShutdownBarrier'
    BY NoThreadAssumption DEF FinishShutdown, TypeOK, BarrierReasons, ShutdownBarrier
  <1>5. QueueIsSuffix' /\ LossIsFlagged'
    BY Zenon DEF FinishShutdown, channel, QueueIsSuffix, LossIsFlagged
  <1> QED
    BY <1>1, <1>2, <1>3, <1>4, <1>5

(* The wait of FinishShutdown ends with no callback running. *)
LEMMA ShutdownWakesInv ==
  ASSUME ChannelInv, NEW t \in Threads, ShutdownWakes(t)
  PROVE  ChannelInv'
  <1> USE DEF ChannelInv
  <1>1. TypeOK'
    <2>1. CASE callback_active
      BY <2>1 DEF ShutdownWakes, TypeOK
    <2>2. CASE ~callback_active
      <3>1. callback' \in Nat /\ pc' \in [Threads -> Locations]
        BY <2>2 DEF ShutdownWakes, TypeOK
      <3> QED
        BY <2>2, <3>1, Zenon DEF ShutdownWakes, TypeOK
    <2> QED
      BY <2>1, <2>2
  <1>2. BarrierReasons'
    BY NoThreadAssumption DEF ShutdownWakes, TypeOK, BarrierReasons
  <1>3. UnregisterBarrier'
    BY NoThreadAssumption DEF ShutdownWakes, TypeOK, BarrierReasons, UnregisterBarrier
  <1>4. ShutdownBarrier'
    BY NoThreadAssumption DEF ShutdownWakes, TypeOK, BarrierReasons, ShutdownBarrier
  <1>5. QueueIsSuffix' /\ LossIsFlagged'
    BY Zenon DEF ShutdownWakes, channel, QueueIsSuffix, LossIsFlagged
  <1> QED
    BY <1>1, <1>2, <1>3, <1>4, <1>5

(* Enqueue keeps the ring bounded and flags what it drops, whether it      *)
(* wakes the isolate itself, leaves that to a running callback or need not. *)
LEMMA EnqueueInv ==
  ASSUME ChannelInv, NEW t \in Threads, Enqueue(t)
  PROVE  ChannelInv'
  <1> USE DEF ChannelInv
  <1> DEFINE k == IF Len(queue) = Capacity THEN 1 ELSE 0
  <1>1. /\ queue \in Seq(Events) /\ Len(queue) <= Capacity /\ Len(queue) \in Nat
        /\ next_sequence \in Nat /\ lost \in Nat
    BY DEF TypeOK
  <1>2. /\ queue' = Append(Kept(queue), [sequence |-> next_sequence,
                                         dropped_before |-> DroppedBefore(queue)])
        /\ next_sequence' = next_sequence + 1 /\ lost' = LostWith(queue)
    BY Zenon DEF Enqueue
  <1>3. /\ queue' \in Seq(Events) /\ Len(queue') = Len(queue) + 1 - k /\ Len(queue') <= Capacity
        /\ queue'[Len(queue')].sequence = next_sequence
        /\ queue'[Len(queue')].dropped_before = (Len(queue) = Capacity)
        /\ \A i \in 1..(Len(queue') - 1) : queue'[i] = queue[i + k]
    BY Zenon, <1>1, <1>2, EnqueueQueue
  <1>9. k \in {0, 1} /\ (Len(queue) = Capacity <=> k = 1) /\ Len(queue) + 1 - k \in Nat \ {0}
    BY <1>1, CapacityAssumption
  <1> HIDE DEF k
  <1>10. \A i \in 1..Len(queue) : queue[i].sequence = next_sequence - Len(queue) + i - 1
    BY Zenon DEF QueueIsSuffix
  <1>11. lost' \in Nat /\ (k = 1 => lost' = next_sequence - Len(queue)) /\ (k = 0 => lost' = lost)
    <2>1. CASE Len(queue) = Capacity
      <3>1. queue # <<>>
        BY <2>1, CapacityAssumption
      <3>2. Head(queue) = queue[1] /\ Len(queue) \in Nat \ {0} /\ queue[1] \in Events
        BY Zenon, <1>1, <3>1, TailOf
      <3>3. lost' = queue[1].sequence /\ queue[1].sequence \in Nat
        BY Zenon, <1>2, <2>1, <3>2 DEF LostWith
      <3>4. 1 # 0 /\ 1 \in 1..Len(queue) /\ next_sequence - Len(queue) + 1 - 1 = next_sequence - Len(queue)
        BY ONLY <1>1, <3>2
      <3> QED
        BY Zenon, <1>9, <1>10, <2>1, <3>3, <3>4
    <2>2. CASE Len(queue) # Capacity
      BY Zenon, <1>1, <1>2, <1>9, <2>2 DEF LostWith
    <2> QED
      BY Zenon, <2>1, <2>2
  <1>12. lost < next_sequence - Len(queue)
    BY Zenon DEF QueueIsSuffix
  <1>4. TypeOK'
    <2>1. next_sequence' \in Nat
      BY <1>1 DEF Enqueue
    <2>4. lost' \in Nat
      BY Zenon, <1>11
    <2>5. callback_pending' \in BOOLEAN
      BY Zenon DEF Enqueue, TypeOK
    <2>2. callback_thread' \in Threads \cup {NoThread}
      BY DEF Enqueue, NoTarget, PrepareCallback, TypeOK
    <2>3. pc' \in [Threads -> Locations] /\ target' \in [Threads -> Nat]
      BY DEF Enqueue, NoTarget, PrepareCallback, TypeOK
    <2> QED
      BY <1>3, <2>1, <2>2, <2>3, <2>4, <2>5, Zenon DEF Enqueue, TypeOK
  <1>5. BarrierReasons'
    BY SMTT(30), NoThreadAssumption DEF Enqueue, NoTarget, PrepareCallback, TypeOK, BarrierReasons
  <1>6. UnregisterBarrier'
    BY NoThreadAssumption
       DEF Enqueue, NoTarget, PrepareCallback, TypeOK, BarrierReasons, UnregisterBarrier
  <1>7. ShutdownBarrier'
    BY NoThreadAssumption
       DEF Enqueue, NoTarget, PrepareCallback, TypeOK, BarrierReasons, ShutdownBarrier
  <1>8. QueueIsSuffix'
    <2>1. \A i \in 1..(Len(queue') - 1) : queue'[i].sequence = next_sequence' - Len(queue') + i - 1
      <3>1. ASSUME NEW i \in 1..(Len(queue') - 1)
            PROVE  queue'[i].sequence = next_sequence' - Len(queue') + i - 1
        <4>1. i + k \in 1..Len(queue)
          BY ONLY <1>1, <1>3, <1>9, <3>1
        <4>2. queue'[i].sequence = next_sequence - Len(queue) + (i + k) - 1
          BY Zenon, <1>3, <1>10, <3>1, <4>1
        <4>3. next_sequence - Len(queue) + (i + k) - 1 = (next_sequence + 1) - (Len(queue) + 1 - k) + i - 1
          BY ONLY <1>1, <1>9, <4>1
        <4> QED
          BY Zenon, <1>2, <1>3, <4>2, <4>3
      <3> QED
        BY Zenon, <3>1
    <2>2. \A i \in 1..Len(queue') : i \in 1..(Len(queue') - 1) \/ i = Len(queue')
      BY ONLY <1>1, <1>3, <1>9
    <2>3. next_sequence = next_sequence' - Len(queue') + Len(queue') - 1
      BY ONLY <1>1, <1>2, <1>3, <1>9
    <2>4. lost' < next_sequence' - Len(queue')
      BY ONLY <1>1, <1>2, <1>3, <1>9, <1>11, <1>12
    <2> QED
      BY Zenon, <1>3, <2>1, <2>2, <2>3, <2>4 DEF QueueIsSuffix
  <1>13. LossIsFlagged'
    <2>1. Len(queue') \in 1..Len(queue')
      BY ONLY <1>1, <1>3, <1>9
    <2>2. CASE k = 1
      <3>1. next_sequence > lost'
        BY ONLY <1>1, <1>3, <1>9, <1>11, <2>2
      <3> QED
        BY Zenon, <1>3, <1>9, <2>1, <2>2, <3>1 DEF LossIsFlagged
    <2>3. CASE k = 0
      <3>1. ASSUME lost' # 0
            PROVE  \E i \in 1..Len(queue') : queue'[i].dropped_before /\ queue'[i].sequence > lost'
        <4>1. PICK i \in 1..Len(queue) : queue[i].dropped_before /\ queue[i].sequence > lost
          BY Zenon, <1>11, <2>3, <3>1 DEF LossIsFlagged
        <4>2. i \in 1..(Len(queue') - 1) /\ i \in 1..Len(queue') /\ i + k = i
          BY ONLY <1>1, <1>3, <2>3, <4>1
        <4> QED
          BY Zenon, <1>3, <1>11, <2>3, <4>1, <4>2
      <3> QED
        BY Zenon, <3>1 DEF LossIsFlagged
    <2> QED
      BY Zenon, <1>9, <2>2, <2>3
  <1> QED
    BY <1>4, <1>5, <1>6, <1>7, <1>8, <1>13

(* The isolate's steps leave the callback machinery alone. *)
LEMMA DrainStartsInv ==
  ASSUME ChannelInv, DrainStarts \/ DrainEnds
  PROVE  ChannelInv'
  <1> USE DEF ChannelInv
  <1>1. TypeOK'
    BY Zenon DEF DrainStarts, DrainEnds, TypeOK
  <1>2. BarrierReasons' /\ UnregisterBarrier' /\ ShutdownBarrier' /\ QueueIsSuffix' /\ LossIsFlagged'
    BY Zenon, BarriersUntouched DEF DrainStarts, DrainEnds, QueueIsSuffix, LossIsFlagged
  <1> QED
    BY Zenon, <1>1, <1>2

(* A Poll hands the flag over before the flagged event leaves the queue,   *)
(* whether or not the isolate can handle the event.                        *)
LEMMA PollInv ==
  ASSUME ChannelInv, Poll \/ PollThrows
  PROVE  ChannelInv'
  <1> USE DEF ChannelInv
  <1>1. /\ queue \in Seq(Events) /\ Len(queue) <= Capacity /\ Len(queue) \in Nat
        /\ next_sequence \in Nat /\ lost \in Nat
    BY DEF TypeOK
  <1>2. /\ queue # <<>> /\ queue' = Tail(queue) /\ next_sequence' = next_sequence
        /\ lost' = IF Head(queue).dropped_before THEN 0 ELSE lost
        /\ draining' \in BOOLEAN /\ abandoned' \in BOOLEAN
    BY Zenon DEF Poll, PollThrows, TakeEvent, TypeOK
  <1>3. /\ queue' \in Seq(Events) /\ Len(queue') = Len(queue) - 1 /\ Len(queue) \in Nat \ {0}
        /\ \A i \in 1..(Len(queue) - 1) : queue'[i] = queue[i + 1]
        /\ Head(queue) = queue[1]
    BY Zenon, <1>1, <1>2, TailOf
  <1>4. lost' \in Nat /\ lost' <= lost
    BY <1>1, <1>2
  <1>5. TypeOK'
    <2>1. Len(queue') <= Capacity
      BY ONLY <1>1, <1>3, CapacityAssumption
    <2> QED
      BY Zenon, <1>2, <1>3, <1>4, <2>1 DEF Poll, PollThrows, TakeEvent, TypeOK
  <1>6. BarrierReasons' /\ UnregisterBarrier' /\ ShutdownBarrier'
    BY Zenon, BarriersUntouched DEF Poll, PollThrows, TakeEvent
  <1>7. QueueIsSuffix'
    <2>1. /\ \A i \in 1..Len(queue) : queue[i].sequence = next_sequence - Len(queue) + i - 1
          /\ lost < next_sequence - Len(queue)
      BY Zenon DEF QueueIsSuffix
    <2>2. ASSUME NEW i \in 1..Len(queue')
          PROVE  queue'[i].sequence = next_sequence' - Len(queue') + i - 1
      <3>1. i \in 1..(Len(queue) - 1) /\ i + 1 \in 1..Len(queue)
        BY ONLY <1>3, <2>2
      <3>2. queue'[i].sequence = next_sequence - Len(queue) + (i + 1) - 1
        BY Zenon, <1>3, <2>1, <3>1
      <3>3. next_sequence - Len(queue) + (i + 1) - 1 = next_sequence - (Len(queue) - 1) + i - 1
        BY ONLY <1>1, <2>2, <3>1
      <3> QED
        BY Zenon, <1>2, <1>3, <3>2, <3>3
    <2>3. lost' < next_sequence' - Len(queue')
      BY ONLY <1>1, <1>2, <1>3, <1>4, <2>1
    <2> QED
      BY Zenon, <2>2, <2>3 DEF QueueIsSuffix
  <1>8. LossIsFlagged'
    <2>1. ASSUME lost' # 0
          PROVE  \E i \in 1..Len(queue') : queue'[i].dropped_before /\ queue'[i].sequence > lost'
      <3>1. lost' = lost /\ ~queue[1].dropped_before
        BY Zenon, <1>2, <1>3, <2>1
      <3>2. PICK i \in 1..Len(queue) : queue[i].dropped_before /\ queue[i].sequence > lost
        BY Zenon, <2>1, <3>1 DEF LossIsFlagged
      <3>3. i # 1
        BY Zenon, <3>1, <3>2
      <3>4. i - 1 \in 1..Len(queue') /\ i - 1 \in 1..(Len(queue) - 1) /\ (i - 1) + 1 = i
        BY ONLY <1>3, <3>2, <3>3
      <3> QED
        BY Zenon, <1>3, <3>1, <3>2, <3>4
    <2> QED
      BY Zenon, <2>1 DEF LossIsFlagged
  <1> QED
    BY Zenon, <1>5, <1>6, <1>7, <1>8

(* Every step of the channel, its threads or the isolate preserves the     *)
(* inductive invariant.                                                    *)
LEMMA NextChannelInv ==
  ASSUME ChannelInv, [Next]_vars
  PROVE  ChannelInv'
  <1>1. ASSUME NEW t \in Threads, Step(t)
        PROVE  ChannelInv'
    BY <1>1, EnqueueInv, RegisterInv, UnregisterInv, CallbackRunsInv, CallbackReturnsInv,
       NotifyAllInv, UnregisterWakesInv, BeginShutdownInv, FinishShutdownInv,
       ShutdownWakesInv DEF Step
  <1>2. CASE UNCHANGED vars
    BY <1>2, StutterChannelInv
  <1> QED
    BY <1>1, <1>2, DrainStartsInv, PollInv DEF Next

(* The inductive invariant holds throughout every behaviour of the         *)
(* channel, for any number of threads and any ring size.                   *)
THEOREM ChannelInvariant == Spec => []ChannelInv
  BY InitChannelInv, NextChannelInv, PTL DEF Spec

(* The ring never holds more than XNN_TRANSFER_EVENT_QUEUE_CAPACITY events *)
(* and every field keeps its type.                                         *)
THEOREM ChannelTypes == Spec => []TypeOK
  <1>1. ChannelInv => TypeOK
    BY DEF ChannelInv
  <1> QED
    BY <1>1, ChannelInvariant, PTL

(* SetCallback(nullptr) is a barrier: no callback registered before it     *)
(* runs, or can start, once it has returned on another thread.             *)
THEOREM UnregisterIsBarrier == Spec => []UnregisterBarrier
  <1>1. ChannelInv => UnregisterBarrier
    BY DEF ChannelInv
  <1> QED
    BY <1>1, ChannelInvariant, PTL

(* FinishShutdown is a barrier: afterwards no callback runs or can run.    *)
THEOREM ShutdownIsBarrier == Spec => []ShutdownBarrier
  <1>1. ChannelInv => ShutdownBarrier
    BY DEF ChannelInv
  <1> QED
    BY <1>1, ChannelInvariant, PTL

(* Callbacks never overlap: InvokeCallback runs on callback_thread_ alone. *)
THEOREM CallbacksNeverOverlap == Spec => []OneCallback
  <1>1. ChannelInv => OneCallback
    BY DEF ChannelInv, BarrierReasons, OneCallback
  <1> QED
    BY <1>1, ChannelInvariant, PTL

(* An event lost to a full ring leaves a flagged event, younger than it,   *)
(* that stays queued until the isolate polls a flag; so an isolate that    *)
(* has emptied the queue has been told of every loss, with nothing but     *)
(* younger events between the loss and the flag.                           *)
THEOREM LossIsNeverSilent ==
  Spec => [](LossIsFlagged /\ QueueIsSuffix /\ (queue = <<>> => lost = 0))
  <1>1. ChannelInv => LossIsFlagged /\ QueueIsSuffix /\ (queue = <<>> => lost = 0)
    <2>1. Len(<<>>) = 0 /\ 1..0 = {}
      OBVIOUS
    <2>2. ~ \E i \in 1..Len(<<>>) : TRUE
      BY Zenon, <2>1
    <2> QED
      BY Zenon, <2>2 DEF ChannelInv, LossIsFlagged
  <1> QED
    BY <1>1, ChannelInvariant, PTL
=============================================================================
