---------------------------- MODULE PairingBridge ----------------------------
(***************************************************************************)
(* PairingBridge (bridge/pairing_bridge.hpp) between the application and the  *)
(* owner of the pairing sessions: the attempt that is visible, the trust table *)
(* and the events about both.                                                 *)
(*                                                                         *)
(* Two threads use it.  The network's applies the updates of the owner, one    *)
(* after the other; the application's calls its operations, one after the      *)
(* other (lifecycle_mutex).  Each takes the mutex for a part of its work only: *)
(* the owner is called and events are enqueued with the mutex free.            *)
(*                                                                         *)
(* The owner is external: what PairingBackend declares and the comment on      *)
(* Apply says of it.  Attempt identifiers are random, so no two are the same.  *)
(***************************************************************************)
EXTENDS Naturals, Sequences, FiniteSets, TLC

CONSTANTS
  Peers,        \* discovery observations (peer_id)
  Devices,      \* identities (device_id)
  NoOne,        \* neither
  Kept,         \* devices that earlier runs left trusted in the repository
  MaxTrust,     \* kMaxPeerRecords
  Capacity,     \* events in the queue
  MaxAttempts   \* bound: attempts

ASSUME BridgeAssumption ==
  /\ NoOne \notin Peers \cup Devices /\ Kept \subseteq Devices
  /\ MaxTrust \in Nat \ {0} /\ Capacity \in Nat \ {0} /\ MaxAttempts \in Nat

VARIABLES
  active,   \* active_attempt_
  trust,    \* trust_entries_; an entry's place is its trust_id
  pages,    \* trust_revision_ for who reads a snapshot: current or stale, or none
  open,     \* updates_open_
  queue,    \* the queue of the EventChannel
  near,     \* the observations in the discovery registry; gone: no longer
  gone,
  owner,    \* the attempt of the session owner
  last,     \* the last attempt it began
  durable,  \* the devices its repository trusts
  thread    \* what the two threads do

table == <<active, trust, pages, open>>
session == <<owner, last, durable>>
native == <<table, queue, near, gone, session, thread>>

NoAttempt == [id |-> 0, peer |-> NoOne, state |-> "none"]
Resting == [step |-> "idle"]
NoSession == [id |-> 0, peer |-> NoOne, stage |-> "none"]

\* The table starts empty, whatever earlier runs of the program left in the
\* owner's repository.
Init ==
  /\ active = NoAttempt /\ trust = << >> /\ pages = "none" /\ open = TRUE
  /\ queue = << >> /\ near = {} /\ gone = {}
  /\ owner = NoSession /\ last = 0 /\ durable = Kept
  /\ thread = [net |-> Resting, ui |-> Resting]

Does(t, what) == thread' = [thread EXCEPT ![t] = what]
At(t, step) == thread[t].step = step

\* The application's call is over; the isolate goes on with its answer.
Return(t, ok) ==
  IF t = "net" THEN Resting ELSE [step |-> "return", op |-> thread["ui"].op, ok |-> ok]

------------------------------------------------------------------------------
(* Events.                                                                   *)

AttemptEvent(a) == [kind |-> "pairing", id |-> a.id, peer |-> a.peer, state |-> a.state]
TrustEvent(table1, i) ==
  [kind |-> "trust", id |-> i, peer |-> table1[i].peer, state |-> table1[i].state]
PeerEvent(p, state) == [kind |-> "peer", id |-> 0, peer |-> p, state |-> state]

\* EventChannel::Enqueue: a full queue loses its oldest event.
Enqueue(e) ==
  LET full == Len(queue) = Capacity
  IN  queue' = Append(IF full THEN Tail(queue) ELSE queue, [event |-> e, dropped |-> full])

\* The events of a thread that has left the mutex, one by one.  Before the
\* first the network takes it once more to see that Shutdown has not begun.
Publish(t) ==
  /\ At(t, "publish") \/ At(t, "enqueue")
  /\ IF t = "net" /\ At(t, "publish") /\ ~open THEN Does(t, Resting) /\ UNCHANGED queue
     ELSE /\ Enqueue(Head(thread[t].events))
          /\ Does(t, IF Len(thread[t].events) = 1 THEN Return(t, TRUE)
                     ELSE [thread[t] EXCEPT !.step = "enqueue", !.events = Tail(@)])
  /\ UNCHANGED <<table, near, gone, session>>

\* Discovery, until the engine stops, finds an observation or loses it for good.
Appear(p) ==
  /\ open /\ p \notin near \cup gone
  /\ near' = near \cup {p} /\ Enqueue(PeerEvent(p, "found"))
  /\ UNCHANGED <<table, gone, session, thread>>

Expire(p) ==
  /\ open /\ p \in near
  /\ near' = near \ {p} /\ gone' = gone \cup {p} /\ Enqueue(PeerEvent(p, "expired"))
  /\ UNCHANGED <<table, session, thread>>

------------------------------------------------------------------------------
(* The session owner.                                                        *)

Begin(p) ==
  /\ owner = NoSession /\ last < MaxAttempts /\ open
  /\ owner' = [id |-> last + 1, peer |-> p, stage |-> "tls"]
  /\ last' = last + 1

\* An update ends the attempt, or takes it on.
Ends(u) ==
  /\ owner' = NoSession
  /\ durable' = IF u.kind = "paired" THEN durable \cup {u.device} ELSE durable
GoesOn(stage) == owner' = [owner EXCEPT !.stage = stage] /\ UNCHANGED durable

Update(kind) == [kind |-> kind]
Paired(d) == [kind |-> "paired", device |-> d]

\* What the network makes of the attempt.
Makes(u) ==
  \/ owner.stage \in {"tls", "confirmed"} /\ u = Update("progress") /\ GoesOn(owner.stage)
  \/ owner.stage = "tls" /\ u = Update("prompt") /\ GoesOn("prompted")
  \/ owner.stage = "confirmed" /\ (\E d \in Devices : u = Paired(d)) /\ Ends(u)
  \/ owner.stage # "none" /\ u = Update("closed") /\ Ends(u)

\* What a decision makes of it; it may be the last thing missing.
Decides(a, confirm, u) ==
  \/ owner.id = a /\ owner.stage = "prompted"
     /\ \/ confirm /\ u = Update("progress") /\ GoesOn("confirmed")
        \/ confirm /\ (\E d \in Devices : u = Paired(d)) /\ Ends(u)
        \/ u = Update("closed") /\ Ends(u)
  \/ ~(owner.id = a /\ owner.stage = "prompted")
     /\ u = Update("refused") /\ UNCHANGED <<owner, durable>>

Updates == {Update(k) : k \in {"progress", "prompt", "closed", "refused"}}
           \cup {Paired(d) : d \in Devices}

\* A peer starts an attempt; the network goes on with the one there is.
Inbound(p) ==
  /\ At("net", "idle") /\ p \in near /\ Begin(p)
  /\ UNCHANGED <<table, queue, near, gone, durable, thread>>

NetworkUpdate(u) ==
  /\ At("net", "idle") /\ Makes(u)
  /\ Does("net", [step |-> "apply", id |-> owner.id, peer |-> owner.peer, update |-> u])
  /\ UNCHANGED <<table, queue, near, gone, last>>

------------------------------------------------------------------------------
(* Apply.                                                                    *)

\* Mutated: updates are taken after Shutdown.
AnyTime(a) == active = NoAttempt \/ active.id = a

\* An update of another attempt than the active one is refused.
TakesUpdate(a) == open /\ (active = NoAttempt \/ active.id = a)

\* FindTrust by device; none or one entry.
FindTrust(d) == {i \in DOMAIN trust : trust[i].device = d}

\* AdvanceRevision.
Advance == pages' = IF pages = "current" THEN "stale" ELSE pages

\* The trust table after a pairing, and the entry.
Entry(p, d) == [peer |-> p, device |-> d, state |-> "active"]
Slot(d) ==
  IF FindTrust(d) = {} THEN Len(trust) + 1 ELSE CHOOSE i \in FindTrust(d) : TRUE
TrustAfter(p, d) == [i \in DOMAIN trust \cup {Slot(d)} |->
                       IF i = Slot(d) THEN Entry(p, d) ELSE trust[i]]

\* The mutex is left with events to publish, or with none.
Leaves(t, events) ==
  Does(t, IF events = << >> THEN Return(t, TRUE)
          ELSE [step |-> "publish", events |-> events,
                op |-> IF t = "net" THEN "update" ELSE thread[t].op])

ApplyPrompt(t, a, p) ==
  /\ active' = [id |-> a, peer |-> p, state |-> "awaiting"]
  /\ Leaves(t, <<AttemptEvent(active')>>)
  /\ UNCHANGED <<trust, pages>>

ApplyProgress(t, a, p) ==
  IF active = NoAttempt
    THEN /\ active' = [id |-> a, peer |-> p, state |-> "starting"]
         /\ Leaves(t, <<AttemptEvent(active')>>)
         /\ UNCHANGED <<trust, pages>>
    ELSE Leaves(t, << >>) /\ UNCHANGED <<active, trust, pages>>

ApplyClosed(t, a, p) ==
  /\ active' = NoAttempt
  /\ Leaves(t, <<AttemptEvent([id |-> a, peer |-> p, state |-> "closed"])>>)
  /\ UNCHANGED <<trust, pages>>

\* A table that is full: the attempt is gone and nobody is told.
ApplyPaired(t, a, p, d) ==
  /\ active' = NoAttempt
  /\ IF Slot(d) > MaxTrust
       THEN Does(t, Return(t, FALSE)) /\ UNCHANGED <<trust, pages>>
       ELSE /\ trust' = TrustAfter(p, d) /\ Advance
            /\ Leaves(t, <<AttemptEvent([id |-> a, peer |-> p, state |-> "paired"]),
                           TrustEvent(trust', Slot(d))>>)

Apply(t) ==
  /\ At(t, "apply")
  /\ LET a == thread[t].id
         p == thread[t].peer
         u == thread[t].update
     IN  IF ~TakesUpdate(a) THEN Does(t, Return(t, FALSE)) /\ UNCHANGED <<active, trust, pages>>
         ELSE \/ u.kind = "prompt" /\ ApplyPrompt(t, a, p)
              \/ u.kind = "progress" /\ ApplyProgress(t, a, p)
              \/ u.kind = "closed" /\ ApplyClosed(t, a, p)
              \/ u.kind = "paired" /\ ApplyPaired(t, a, p, u.device)
  /\ UNCHANGED <<open, queue, near, gone, session>>

------------------------------------------------------------------------------
(* The calls of the application.                                             *)

CanCall == At("ui", "idle") /\ open

\* Start: only for a live observation; the owner may be busy or have no window.
Start(p, ok) ==
  /\ CanCall
  /\ IF ok THEN p \in near /\ Begin(p) ELSE UNCHANGED <<owner, last>>
  /\ UNCHANGED <<table, queue, near, gone, durable, thread>>

\* Decide: the active attempt only.
Decide(a, confirm) ==
  /\ CanCall
  /\ Does("ui", LET call == [step |-> "decide", op |-> IF confirm THEN "confirm" ELSE "reject"]
                IN  IF active.id # a THEN [call EXCEPT !.step = "return"] @@ [ok |-> FALSE]
                    ELSE call @@ [id |-> a, peer |-> active.peer])
  /\ UNCHANGED <<table, queue, near, gone, session>>

BackendDecides(u) ==
  /\ At("ui", "decide")
  /\ Decides(thread["ui"].id, thread["ui"].op = "confirm", u)
  /\ Does("ui", IF u.kind = "refused" THEN Return("ui", FALSE)
                ELSE [thread["ui"] EXCEPT !.step = "apply"] @@ [update |-> u])
  /\ UNCHANGED <<table, queue, near, gone, last>>

\* Revoke: an entry that is revoked already needs nothing.
Revoke(i) ==
  /\ CanCall /\ i \in DOMAIN trust /\ trust[i].state = "active"
  /\ Does("ui", [step |-> "revoke", op |-> "revoke", id |-> i])
  /\ UNCHANGED <<table, queue, near, gone, session>>

\* Mutated: the owner's answer is not looked at.
RevokesAnyway(ok) == [thread["ui"] EXCEPT !.step = "mark"]

\* The entry is marked only when the repository has it.
AfterRevoke(ok) == IF ok THEN [thread["ui"] EXCEPT !.step = "mark"] ELSE Return("ui", FALSE)

BackendRevokes(ok) ==
  /\ At("ui", "revoke")
  /\ durable' = IF ok THEN durable \ {trust[thread["ui"].id].device} ELSE durable
  /\ Does("ui", AfterRevoke(ok))
  /\ UNCHANGED <<table, queue, near, gone, owner, last>>

MarkRevoked ==
  /\ At("ui", "mark")
  /\ LET i == thread["ui"].id
     IN  /\ trust' = [trust EXCEPT ![i].state = "revoked"]
         /\ Advance
         /\ Does("ui", [step |-> "publish", op |-> "revoke", events |-> <<TrustEvent(trust', i)>>])
  /\ UNCHANGED <<active, open, queue, near, gone, session>>

\* CloseWindow, when there is an attempt to end: the owner's, if any, is
\* cancelled.
CloseWindow ==
  /\ CanCall /\ (active # NoAttempt \/ owner.stage \notin {"none", "cancelled"})
  /\ owner' = IF owner = NoSession THEN owner ELSE [owner EXCEPT !.stage = "cancelled"]
  /\ Does("ui", [step |-> "clear", op |-> "close"])
  /\ UNCHANGED <<table, queue, near, gone, last, durable>>

\* Shutdown: first no update is taken, then the owner has ended its attempt.
Shutdown ==
  /\ CanCall
  /\ open' = FALSE
  /\ Does("ui", [step |-> "stop", op |-> "stop"])
  /\ UNCHANGED <<active, trust, pages, queue, near, gone, session>>

BackendStops ==
  /\ At("ui", "stop")
  /\ owner' = NoSession
  /\ Does("ui", [thread["ui"] EXCEPT !.step = "clear"])
  /\ UNCHANGED <<table, queue, near, gone, last, durable>>

\* ClearActive, of CloseWindow and of Shutdown.
ClearActive ==
  /\ At("ui", "clear")
  /\ active' = NoAttempt
  /\ Does("ui", IF active = NoAttempt THEN Return("ui", TRUE)
                ELSE [step |-> "publish", op |-> thread["ui"].op,
                      events |-> <<AttemptEvent([active EXCEPT !.state = "closed"])>>])
  /\ UNCHANGED <<trust, pages, open, queue, near, gone, session>>

------------------------------------------------------------------------------
\* What goes on whatever the application does.
Network ==
  \/ \E p \in Peers : Appear(p) \/ Expire(p) \/ Inbound(p)
  \/ \E u \in Updates : NetworkUpdate(u)
  \/ Apply("net") \/ Publish("net")

\* The rest of a call of the application.
CallGoesOn ==
  \/ \E u \in Updates : BackendDecides(u)
  \/ \E ok \in BOOLEAN : BackendRevokes(ok)
  \/ MarkRevoked \/ BackendStops \/ ClearActive
  \/ Apply("ui") \/ Publish("ui")

Still == \A t \in {"net", "ui"} : At(t, "idle")
==============================================================================
