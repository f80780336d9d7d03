-------------------------- MODULE DiscoveryService --------------------------
(***************************************************************************)
(* Discovery as a running service: DiscoveryService and                    *)
(* SystemDiscoveryRuntime (native/src/discovery/service.cpp) over the      *)
(* cache of DiscoveryCache.tla, with the timer, transport and interface    *)
(* monitor they drive, the DiscoveryController of the C API that owns them *)
(* and the DiscoveryPeerRegistry that the published events fill.           *)
(*                                                                         *)
(* Two threads act: the caller (the engine's lifecycle_mutex admits one    *)
(* call at a time) and the runtime's io thread, which runs OnTimer,        *)
(* OnDatagram and OnInterfaceChanged.  A section under mutex_ is one       *)
(* action; events are published after it, one at a time, with the handler  *)
(* called outside every lock.  lifecycle_mutex_ is held across the several *)
(* steps of Start, Stop and a failed refresh or wake.                      *)
(*                                                                         *)
(* The network is any sequence of datagrams at all: late, repeated,        *)
(* reordered or lost ones need no mechanism of their own.  A publisher's   *)
(* interval, rotation and update deadlines fall at any moment.             *)
(***************************************************************************)
EXTENDS DiscoveryCache

ASSUME DatagramsAreValid == Datagrams \subseteq Advertisements

CONSTANTS
  MaxStarts,    \* bound on discovery_start calls
  MaxWakes,     \* bound on SystemDiscoveryRuntime::Wake calls
  MaxChanges,   \* bound on changes of the set of interfaces
  Faults        \* what may fail: subset of {"entropy", "transport", "timer"}

VARIABLES
  state,        \* DiscoveryService::Impl::state_
  lifecycle,    \* holder of lifecycle_mutex_, or "none"
  cache,        \* the DiscoveryCache
  pubs,         \* publishers_: the token in use per scope, 0 without one
  ifaces,       \* the interfaces the system has now
  monitoring,   \* the interface monitor is started
  notified,     \* it has a change to report
  timer,        \* ticks until the timer is due for a lease, NoDeadline, or Fired
  at,           \* what each thread is doing
  inflight,     \* callbacks_in_flight_
  registry,     \* DiscoveryPeerRegistry: content shown per key, 0 is none
  called,       \* how the caller's last start or stop ended
  counts,       \* calls and changes so far
  watch         \* history: per key, the last withdrawal still in quarantine

vars == <<state, lifecycle, cache, pubs, ifaces, monitoring, notified, timer,
          at, inflight, registry, called, counts, watch>>

Threads == {"caller", "io"}
NoDeadline == Max(Ttls) + 1
Fired == NoDeadline + 1   \* the wait is over, its completion is queued
Idle == [pc |-> "idle", op |-> "none", events |-> << >>, ok |-> TRUE]
At(pc, op, events, ok) == [pc |-> pc, op |-> op, events |-> events, ok |-> ok]

(* A thread about to publish events, and then to stop the service if its   *)
(* operation failed.                                                       *)
Publishes(op, events, ok) ==
  IF events # << >> THEN At("publish", op, events, ok)
  ELSE IF ok THEN Idle ELSE At("stop", op, << >>, TRUE)

(* A withdrawal by its sequence and what is left of its quarantine. *)
NoWatch == [seq |-> 0, left |-> 0]

Init ==
  /\ state = "stopped" /\ lifecycle = "none" /\ cache = StoppedCache
  /\ pubs = [s \in Scopes |-> 0]
  /\ ifaces \in SUBSET Scopes
  /\ monitoring = FALSE /\ notified = FALSE /\ timer = NoDeadline
  /\ at = [t \in Threads |-> Idle]
  /\ inflight = 0
  /\ registry = [k \in Keys |-> 0]
  /\ called = "none"
  /\ counts = [starts |-> 0, wakes |-> 0, changes |-> 0]
  /\ watch = [k \in Keys |-> NoWatch]

(* GenerateToken, Jitter and the like: an operation that needs facilities  *)
(* that may fail succeeds or does not.                                     *)
Results(facilities) == IF facilities \cap Faults = {} THEN {TRUE} ELSE BOOLEAN

(* A quarantine ends with the scope of its key. *)
Watched(c) == [k \in Keys |-> IF ScopeOf[k] \in c.scopes THEN watch[k] ELSE NoWatch]

-----------------------------------------------------------------------------
(* Publishers *)

Publishing == {s \in Scopes : pubs[s] # 0}

(* CreatePublisherLocked and RotateLocked: GenerateToken's token is a new  *)
(* one, as far as tokens are told apart; it is recorded as our own before  *)
(* anything is sent with it.  The sequence of a token is not kept:         *)
(* SendAnnounceLocked counts it up and rotates after the last, one more    *)
(* moment at which a rotation is due.                                      *)
NewToken(s) == (pubs[s] % MaxTokens) + 1

(* The cache with the tokens of these publishers. *)
WithTokens(c, publishers) ==
  LET Add(s, x) == SetLocalToken(x, s, publishers[s])
  IN FoldSet(Add, c, {s \in Scopes : publishers[s] # 0})

(* Mutated: the leases are not considered. *)
ScheduleOnlyPublishers(c) == NoDeadline

(* ScheduleNextLocked, as far as the leases are concerned: publishers make *)
(* the timer fire at other moments too.                                    *)
ScheduleNextLocked(c) ==
  IF Deadlines(c) = {} THEN NoDeadline ELSE Min(Deadlines(c))

-----------------------------------------------------------------------------
(* The caller: DiscoveryController::Start, Stop and the runtime's Wake *)

(* DiscoveryController::Start: one runtime at a time, and a new one for    *)
(* each start; its service's locks are free.                               *)
MayStart == at["caller"] = Idle /\ called # "started" /\ lifecycle = "none"

(* SystemDiscoveryRuntime::Start and the first half of Service::Start: the *)
(* monitor is started before the first snapshot is taken.                  *)
Start ==
  /\ MayStart /\ counts.starts < MaxStarts
  /\ counts' = [counts EXCEPT !.starts = @ + 1]
  /\ lifecycle' = "caller" /\ state' = "starting"
  /\ monitoring' = TRUE
  /\ \E ok \in Results({"transport"}) :
       /\ cache' = IF ok THEN StartCache(ifaces) ELSE cache
       /\ at' = [at EXCEPT !["caller"] =
                   At(IF ok THEN "starting" ELSE "failing", "start", << >>, TRUE)]
  /\ UNCHANGED <<pubs, ifaces, notified, timer, inflight, registry, called, watch>>

(* The second half of Service::Start, from the second snapshot: a failure  *)
(* to create publishers leaves the service stopping, one to announce or to *)
(* set the timer is seen only after it has run for a moment.               *)
FinishStart ==
  /\ at["caller"].pc = "starting"
  /\ LET current == ApplyInterfaceSnapshot(cache, ifaces).cache
         publishers == [s \in Scopes |-> IF s \in ifaces THEN NewToken(s) ELSE 0]
     IN \/ /\ pubs' = publishers
           /\ cache' = WithTokens(current, publishers)
           /\ state' = "running"
           /\ timer' = ScheduleNextLocked(current)
           /\ \E ok \in Results({"entropy", "timer"}) :
                /\ at' = [at EXCEPT !["caller"] =
                            IF ok THEN Idle ELSE At("failing", "start", << >>, TRUE)]
                /\ lifecycle' = IF ok THEN "none" ELSE "caller"
                /\ called' = IF ok THEN "started" ELSE called
        \/ /\ {"entropy", "transport"} \cap Faults # {}
           /\ cache' = current /\ state' = "stopping"
           /\ at' = [at EXCEPT !["caller"] = At("failing", "start", << >>, TRUE)]
           /\ UNCHANGED <<pubs, timer, lifecycle, called>>
  /\ UNCHANGED <<ifaces, monitoring, notified, inflight, registry, counts, watch>>

(* FailStart, up to the transport's Stop. *)
FailStart ==
  /\ at["caller"].pc = "failing"
  /\ state' = "stopping" /\ timer' = NoDeadline /\ monitoring' = FALSE
  /\ at' = [at EXCEPT !["caller"].pc = "drain"]
  /\ UNCHANGED <<lifecycle, cache, pubs, ifaces, notified, inflight, registry,
                 called, counts, watch>>

(* DiscoveryController::Stop with a runtime: SystemDiscoveryRuntime::Stop  *)
(* calls the service's Stop.                                               *)
StopRuntime ==
  /\ at["caller"] = Idle /\ called = "started"
  /\ at' = [at EXCEPT !["caller"] = At("stop", "stop", << >>, TRUE)]
  /\ UNCHANGED <<state, lifecycle, cache, pubs, ifaces, monitoring, notified,
                 timer, inflight, registry, called, counts, watch>>

(* DiscoveryController::Stop without one: the registry is cleared all the  *)
(* same.                                                                   *)
StopNothing ==
  /\ at["caller"] = Idle /\ called \in {"none", "failed"}
  /\ registry' = [k \in Keys |-> 0] /\ called' = "stopped"
  /\ UNCHANGED <<state, lifecycle, cache, pubs, ifaces, monitoring, notified,
                 timer, at, inflight, counts, watch>>

(* The end of SystemDiscoveryRuntime::Stop, or of a Start that failed: the *)
(* io thread is joined and the runtime dropped; only Stop clears the       *)
(* registry.                                                               *)
Join ==
  /\ at["caller"].pc = "join" /\ at["io"] = Idle
  /\ notified' = FALSE
  /\ IF at["caller"].op = "stop"
     THEN registry' = [k \in Keys |-> 0] /\ called' = "stopped"
     ELSE called' = "failed" /\ UNCHANGED registry
  /\ at' = [at EXCEPT !["caller"] = Idle]
  /\ UNCHANGED <<state, lifecycle, cache, pubs, ifaces, monitoring, timer,
                 inflight, counts, watch>>

(* DiscoveryService::Wake on the caller's thread: a new token for every    *)
(* publisher, and the cache's events published after both locks are gone.  *)
Wake ==
  /\ at["caller"] = Idle /\ called = "started" /\ lifecycle = "none"
  /\ state = "running" /\ counts.wakes < MaxWakes
  /\ counts' = [counts EXCEPT !.wakes = @ + 1]
  /\ LET woken == WakeCache(cache, ifaces)
         publishers == [s \in Scopes |-> IF s \in ifaces THEN NewToken(s) ELSE 0]
     IN /\ cache' = WithTokens(woken.cache, publishers)
        /\ pubs' = publishers
        /\ watch' = Watched(woken.cache)
        /\ timer' = ScheduleNextLocked(woken.cache)
        /\ \E ok \in Results({"entropy", "transport", "timer"}) :
             /\ at' = [at EXCEPT !["caller"] =
                         IF ok THEN Publishes("wake", woken.events, TRUE)
                         ELSE At("stopping", "wake", << >>, TRUE)]
             /\ lifecycle' = IF ok THEN "none" ELSE "caller"
  /\ UNCHANGED <<state, ifaces, monitoring, notified, inflight, registry, called>>

-----------------------------------------------------------------------------
(* The io thread: the handlers of the transport, the timer, the monitor *)

(* What a datagram makes of the cache, and of the quarantines watched. *)
Received(d, admitted) ==
  LET received == Receive(cache, d, admitted)
      entry == received.cache.entries[d.key]
      withdrawn == /\ d.type = "withdraw" /\ entry # cache.entries[d.key]
                   /\ entry = Tombstone(d.seq)
  IN [cache |-> received.cache, events |-> received.events,
      watch |-> IF ~withdrawn THEN watch
                ELSE [watch EXCEPT ![d.key] = [seq |-> d.seq, left |-> TombstoneLifetime]]]

(* OnDatagram, called by the transport's Deliver: outside kRunning it      *)
(* returns at once.                                                        *)
OnDatagram ==
  /\ at["io"] = Idle /\ state = "running"
  /\ \E received \in {Received(d, admitted) : d \in Datagrams, admitted \in BOOLEAN} :
       /\ cache' = received.cache /\ watch' = received.watch
       /\ timer' = ScheduleNextLocked(received.cache)
       /\ \E ok \in Results({"timer"}) :
            at' = [at EXCEPT !["io"] = Publishes("datagram", received.events, ok)]
  /\ UNCHANGED <<state, lifecycle, pubs, ifaces, monitoring, notified,
                 inflight, registry, called, counts>>

(* A deadline the timer is set to has come: that of a lease, or some       *)
(* publisher's.                                                            *)
TimerDue == timer = 0 \/ Publishing # {}

(* The wait of AsioDiscoveryTimer is over and its completion is queued.    *)
(* Every ScheduleNextLocked starts a new generation, and the completion of *)
(* an older one returns without calling the handler: setting timer forgets *)
(* a completion still in the queue, so a datagram handled first undoes it. *)
TimerExpires ==
  /\ state = "running" /\ timer # Fired
  /\ TimerDue
  /\ timer' = Fired
  /\ UNCHANGED <<state, lifecycle, cache, pubs, ifaces, monitoring, notified,
                 at, inflight, registry, called, counts, watch>>

(* OnTimer, called by the completion of the latest generation: the leases  *)
(* that ran out; and every publisher that is due, and which of them are    *)
(* due is up to their own deadlines, rotates or announces.                 *)
OnTimer ==
  /\ at["io"] = Idle /\ state = "running"
  /\ timer = Fired
  /\ \E publishers \in {[s \in Scopes |-> IF s \in rotating THEN NewToken(s) ELSE pubs[s]] :
                            rotating \in SUBSET Publishing} :
       LET advanced == Advance(cache)
       IN /\ pubs' = publishers
          /\ cache' = WithTokens(advanced.cache, publishers)
          /\ timer' = ScheduleNextLocked(advanced.cache)
          /\ \E ok \in Results(IF Publishing = {} THEN {"timer"} ELSE {"entropy", "timer"}) :
               at' = [at EXCEPT !["io"] = Publishes("timer", advanced.events, ok)]
  /\ UNCHANGED <<state, lifecycle, ifaces, monitoring, notified, inflight,
                 registry, called, counts, watch>>

(* The monitor calls OnInterfaceChanged, which waits for lifecycle_mutex_. *)
InterfaceNotice ==
  /\ at["io"] = Idle /\ monitoring /\ notified
  /\ notified' = FALSE
  /\ at' = [at EXCEPT !["io"] = At("refresh", "interface", << >>, TRUE)]
  /\ UNCHANGED <<state, lifecycle, cache, pubs, ifaces, monitoring, timer,
                 inflight, registry, called, counts, watch>>

(* OnInterfaceChanged and RefreshInterfacesLockedLifecycle: publishers of  *)
(* kept scopes are preserved, those of removed ones withdraw, and a        *)
(* failure stops the service with the lock still held.                     *)
OnInterfaceChanged ==
  /\ at["io"].pc = "refresh" /\ lifecycle = "none"
  /\ IF state # "running"
     THEN /\ at' = [at EXCEPT !["io"] = Idle]
          /\ UNCHANGED <<lifecycle, cache, pubs, timer, watch>>
     ELSE LET applied == ApplyInterfaceSnapshot(cache, ifaces)
              publishers == [s \in Scopes |-> IF s \notin ifaces THEN 0
                                              ELSE IF s \in Publishing THEN pubs[s]
                                              ELSE NewToken(s)]
          IN /\ pubs' = publishers
             /\ cache' = WithTokens(applied.cache, publishers)
             /\ watch' = Watched(applied.cache)
             /\ timer' = ScheduleNextLocked(applied.cache)
             /\ \E ok \in Results({"entropy", "transport", "timer"}) :
                  /\ at' = [at EXCEPT !["io"] =
                              IF ok THEN Publishes("interface", applied.events, TRUE)
                              ELSE At("stopping", "interface", << >>, TRUE)]
                  /\ lifecycle' = IF ok THEN "none" ELSE "io"
  /\ UNCHANGED <<state, ifaces, monitoring, notified, inflight, registry,
                 called, counts>>

-----------------------------------------------------------------------------
(* Publish and Stop, which both threads run *)

(* Publish: each event is given to the handler only while the service      *)
(* runs.  A thread whose operation failed stops the service afterwards.    *)
PublishNext(t) ==
  /\ at[t].pc = "publish"
  /\ IF state = "running"
     THEN /\ inflight' = inflight + 1
          /\ at' = [at EXCEPT ![t].pc = "handler"]
     ELSE /\ at' = [at EXCEPT ![t] = Publishes(@.op, << >>, @.ok)]
          /\ UNCHANGED inflight
  /\ UNCHANGED <<state, lifecycle, cache, pubs, ifaces, monitoring, notified,
                 timer, registry, called, counts, watch>>

(* Mutated: updates of a peer already listed are not applied. *)
ApplyFirst(event) ==
  [registry EXCEPT ![event.key] =
     IF event.kind = "expired" THEN 0
     ELSE IF event.kind = "updated" THEN @
     ELSE IF @ = 0 /\ Cardinality({k \in Keys : registry[k] # 0}) >= MaxCandidates THEN 0
     ELSE event.content]

(* The handler: DiscoveryPeerRegistry::Apply on the event, whose key it    *)
(* lists, replaces or removes.                                             *)
Apply(event) ==
  [registry EXCEPT ![event.key] =
     IF event.kind = "expired" THEN 0
     ELSE IF @ = 0 /\ Cardinality({k \in Keys : registry[k] # 0}) >= MaxCandidates THEN 0
     ELSE event.content]

(* Mutated: the call is counted out only while the service runs. *)
HandlerCountsWhileRunning(t) ==
  /\ at[t].pc = "handler"
  /\ registry' = Apply(Head(at[t].events))
  /\ inflight' = IF state = "running" THEN inflight - 1 ELSE inflight
  /\ at' = [at EXCEPT ![t] = Publishes(@.op, Tail(@.events), @.ok)]
  /\ UNCHANGED <<state, lifecycle, cache, pubs, ifaces, monitoring, notified,
                 timer, called, counts, watch>>

(* The rest of the loop of Publish. *)
Handler(t) ==
  /\ at[t].pc = "handler"
  /\ registry' = Apply(Head(at[t].events))
  /\ inflight' = inflight - 1
  /\ at' = [at EXCEPT ![t] = Publishes(@.op, Tail(@.events), @.ok)]
  /\ UNCHANGED <<state, lifecycle, cache, pubs, ifaces, monitoring, notified,
                 timer, called, counts, watch>>

(* Stop takes lifecycle_mutex_. *)
LockToStop(t) ==
  /\ at[t].pc = "stop" /\ lifecycle = "none"
  /\ lifecycle' = t
  /\ at' = [at EXCEPT ![t].pc = "stopping"]
  /\ UNCHANGED <<state, cache, pubs, ifaces, monitoring, notified, timer,
                 inflight, registry, called, counts, watch>>

(* Where a thread goes when it gives lifecycle_mutex_ back; a wake or a    *)
(* refresh that failed finds the service stopped and publishes nothing.    *)
AfterStop(t) ==
  IF at[t].op \in {"stop", "start"} THEN [at[t] EXCEPT !.pc = "join"]
  ELSE Idle

(* StopWithLifecycleLock up to the transport's Stop: the publishers        *)
(* withdraw, the timer and the monitor are stopped.                        *)
StopWithLifecycleLock(t) ==
  /\ at[t].pc = "stopping" /\ lifecycle = t
  /\ IF state = "stopped"
     THEN /\ at' = [at EXCEPT ![t] = AfterStop(t)]
          /\ lifecycle' = "none"
          /\ UNCHANGED <<state, timer, monitoring>>
     ELSE /\ state' = "stopping" /\ timer' = NoDeadline /\ monitoring' = FALSE
          /\ at' = [at EXCEPT ![t].pc = "drain"]
          /\ UNCHANGED lifecycle
  /\ UNCHANGED <<cache, pubs, ifaces, notified, inflight, registry, called,
                 counts, watch>>

(* Deliver of the transport has called OnDatagram, which has not returned. *)
Delivering == at["io"].op = "datagram"

(* The transport's Stop waits for the deliveries of other threads. *)
TransportDrained(t) == t = "io" \/ ~Delivering

(* StopWithLifecycleLock and FailStart after the transport has stopped:    *)
(* the cache and the publishers are cleared.  A failed Start ends here.    *)
DrainTransport(t) ==
  /\ at[t].pc = "drain"
  /\ TransportDrained(t)
  /\ cache' = StoppedCache /\ pubs' = [s \in Scopes |-> 0]
  /\ state' = "stopped" /\ watch' = [k \in Keys |-> NoWatch]
  /\ IF at[t].op = "start"
     THEN at' = [at EXCEPT ![t] = AfterStop(t)] /\ lifecycle' = "none"
     ELSE at' = [at EXCEPT ![t].pc = "wait"] /\ UNCHANGED lifecycle
  /\ UNCHANGED <<ifaces, monitoring, notified, timer, inflight, registry,
                 called, counts>>

(* The last wait of Stop: no handler is being called. *)
WaitForCallbacks(t) ==
  /\ at[t].pc = "wait" /\ inflight = 0
  /\ lifecycle' = "none"
  /\ at' = [at EXCEPT ![t] = AfterStop(t)]
  /\ UNCHANGED <<state, cache, pubs, ifaces, monitoring, notified, timer,
                 inflight, registry, called, counts, watch>>

-----------------------------------------------------------------------------
(* The environment: the clock and the interfaces *)

Tick ==
  /\ cache' = Elapse(cache)
  /\ timer' = IF timer \in {0, NoDeadline, Fired} THEN timer ELSE timer - 1
  /\ watch' = [k \in Keys |-> IF watch[k].left <= 1 THEN NoWatch
                               ELSE [watch[k] EXCEPT !.left = @ - 1]]
  /\ <<cache, timer, watch>>' # <<cache, timer, watch>>
  /\ UNCHANGED <<state, lifecycle, pubs, ifaces, monitoring, notified, at,
                 inflight, registry, called, counts>>

InterfacesChange ==
  /\ counts.changes < MaxChanges
  /\ counts' = [counts EXCEPT !.changes = @ + 1]
  /\ ifaces' \in (SUBSET Scopes) \ {ifaces}
  /\ notified' = (notified \/ monitoring)
  /\ UNCHANGED <<state, lifecycle, cache, pubs, monitoring, timer, at,
                 inflight, registry, called, watch>>

Caller == Start \/ FinishStart \/ FailStart \/ StopRuntime \/ StopNothing \/ Join \/ Wake

Io == OnDatagram \/ TimerExpires \/ OnTimer \/ InterfaceNotice \/ OnInterfaceChanged

Shared(t) ==
  \/ PublishNext(t) \/ Handler(t) \/ LockToStop(t) \/ StopWithLifecycleLock(t)
  \/ DrainTransport(t) \/ WaitForCallbacks(t)

Next == Caller \/ Io \/ (\E t \in Threads : Shared(t)) \/ Tick \/ InterfacesChange

(* Each thread goes on with what it has begun and time passes.  The io     *)
(* thread serves its queue in order, so a timer's completion runs unless   *)
(* something handled before it set the timer again, and the monitor's      *)
(* notice, which nothing undoes, runs however many datagrams arrive.       *)
(* Nobody has to call, send or unplug anything.                            *)
Fairness ==
  /\ WF_vars(Shared("caller") \/ FinishStart \/ FailStart \/ Join)
  /\ WF_vars(Shared("io") \/ OnInterfaceChanged \/ OnTimer)
  /\ WF_vars(timer = 0 /\ TimerExpires)
  /\ SF_vars(InterfaceNotice)
  /\ WF_vars(Tick)

Spec == Init /\ [][Next]_vars /\ Fairness

-----------------------------------------------------------------------------
(* Properties *)

(* The types of the variables; at most the two threads are in a callback   *)
(* at a time (callbacks_in_flight_).                                       *)
TypeOK ==
  /\ state \in {"starting", "running", "stopping", "stopped"}
  /\ lifecycle \in Threads \cup {"none"}
  /\ cache \in CacheType
  /\ pubs \in [Scopes -> Tokens]
  /\ ifaces \in SUBSET Scopes
  /\ timer \in 0 .. Fired
  /\ inflight \in 0 .. 2
  /\ registry \in [Keys -> Contents \cup {0}]
  /\ \A t \in Threads : \A i \in DOMAIN at[t].events : at[t].events[i] \in Events

(* Once a withdrawal has been accepted, nothing lists its key again on the *)
(* word of an announcement it overtook, for as long as a tombstone is      *)
(* kept: not a replay, not a full cache, not a wake, not a lease that runs *)
(* out in between (Withdraw, Announce and the purges of cache.cpp).        *)
WithdrawalHolds ==
  \A k \in Keys : watch[k] # NoWatch =>
    LET e == cache.entries[k]
    IN e # NoEntry /\ (IF e.candidate THEN e.seq > watch[k].seq ELSE e.seq >= watch[k].seq)

(* The bytes counted against kMaximumRetainedPayloadBytes are those of the *)
(* candidates kept, and no limit is passed: an unsigned count that drifted *)
(* would wrap or close the cache for good (retained_payload_bytes_).       *)
RetainedIsExact ==
  /\ cache.retained = RetainedBy(cache.entries, Candidates(cache.entries))
  /\ cache.retained <= MaxBytes
  /\ Cardinality(Candidates(cache.entries)) <= MaxCandidates
  /\ Cardinality(Held(cache.entries)) <= MaxEntries

Quiet == state = "running" /\ \A t \in Threads : at[t] = Idle

(* When nothing is being published, the peers listed to the application    *)
(* are the candidates of the cache, with their latest content (Publish and *)
(* Apply, against every event the cache returned).  The io thread's events *)
(* are ordered; Wake publishes from the caller's thread and is excluded:   *)
(* see PeersMirrored.                                                      *)
RegistryMirrors ==
  Quiet /\ counts.wakes = 0 /\ counts.starts = 1 => registry = Visible(cache)

(* The same without the exclusion. *)
PeersMirrored == Quiet /\ counts.starts = 1 => registry = Visible(cache)

(* Between changes, discovery observes and announces on the interfaces the *)
(* system has and on no other, and knows its own datagrams by the token    *)
(* each publisher sends (Start's two snapshots, OnInterfaceChanged, Wake,  *)
(* RotateLocked).                                                          *)
InterfacesTracked ==
  Quiet /\ ~notified =>
    /\ cache.scopes = ifaces /\ Publishing = ifaces
    /\ \A s \in ifaces : IsSelf(cache, s, pubs[s])

(* After discovery_stop has returned no peer is listed, and none is listed *)
(* again until the next start (the barrier of StopWithLifecycleLock, the   *)
(* join and DiscoveryPeerRegistry::Clear).                                 *)
StopIsBarrier ==
  called = "stopped" /\ at["caller"] = Idle =>
    /\ \A k \in Keys : registry[k] = 0
    /\ at["io"] = Idle /\ cache = StoppedCache

(* A datagram is handled before the completion of the timer, which it      *)
(* undoes by setting the timer again.                                      *)
Overtaken == timer = Fired /\ OnDatagram

(* A peer is not listed for ever on sequences already heard: with finitely *)
(* many of them, each listed key is dropped again, however many datagrams  *)
(* of other peers or duplicates of its own arrive in between, unless       *)
(* datagrams overtake the timer again and again for ever (the leases and   *)
(* duplicates of Announce, ScheduleNextLocked, OnTimer and the generations *)
(* of AsioDiscoveryTimer).                                                 *)
SilentPeerExpires ==
  \/ []<><<Overtaken>>_vars
  \/ \A k \in Keys :
       []<>(registry[k] = 0 \/ state # "running" \/ counts.wakes > 0 \/ counts.starts > 1)

(* The same whatever arrives: a flood that overtakes every completion      *)
(* keeps OnTimer from running, and the leases that ran out stay listed.    *)
ExpiresInAFlood ==
  \A k \in Keys :
    []<>(registry[k] = 0 \/ state # "running" \/ counts.wakes > 0 \/ counts.starts > 1)

(* Start and Stop return, whatever the io thread is doing or waiting for   *)
(* (lifecycle_mutex_, the transport's and the publisher's drains, join), as *)
(* long as the timer can be armed: with "timer" among the Faults they may   *)
(* wait for each other.                                                     *)
CallsReturn == []<>(at["caller"] = Idle)
=============================================================================
