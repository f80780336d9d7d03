------------------------------- MODULE PeerView -------------------------------
(***************************************************************************)
(* The application's view of its peers, on top of PairingBridge: what          *)
(* NativeEngine drains (native_engine.dart), what NativeVerticalSliceGateway    *)
(* holds (native_vertical_slice_gateway.dart) and what VerticalSliceController  *)
(* shows and lets the user do (vertical_slice_controller.dart).                *)
(*                                                                         *)
(* All of it runs in one isolate, which is blocked during a native call.       *)
(* Every poll and every page of a snapshot is such a call.  What is drained     *)
(* goes into six broadcast streams.  A stream with something pending has one     *)
(* microtask, which delivers one element and, if there are more, queues up       *)
(* again behind the microtasks of the other streams.  Microtasks come before     *)
(* the next wakeup and the next command of the user.  The controller's events    *)
(* follow the gateway's one by one and are applied with them; those of the       *)
(* initialization are kept back until it is over, before any command.  The       *)
(* pages of the discovery snapshot are read in one step, or stay stale.          *)
(***************************************************************************)
EXTENDS PairingBridge, FiniteSetsExt, SequencesExt

CONSTANTS
  PageSize,     \* XNN_TRANSFER_TRUST_SNAPSHOT_PAGE_CAPACITY
  Tries,        \* times a snapshot that got stale is read again
  MaxWishes     \* bound: calls of Revoke and CloseWindow

ASSUME PeerViewAssumption == PageSize \in Nat \ {0} /\ Tries \in Nat \ {0} /\ MaxWishes \in Nat

VARIABLES
  up,        \* VerticalSliceState: initializing, ready, unavailable or disposed
  isolate,   \* what the isolate does
  page,      \* the trust snapshot being read
  streams,   \* what is pending in each stream
  tasks,     \* microtasks: the streams that deliver, in their order
  gateway,   \* NativeVerticalSliceGateway
  view,      \* VerticalSliceController
  picker,    \* the file selector
  astray,    \* history: devices that got a file meant for another
  wishes,    \* calls of Revoke and CloseWindow so far
  calm,      \* history: no event was lost, no update overlapped a call
  crossed    \* history: devices paired while their revocation was not yet noted

dart == <<up, isolate, page, streams, tasks, gateway, view, picker, astray>>
all == <<native, dart, wishes, calm, crossed>>

Streams == {"peer", "pairing", "trust", "peers", "attempt", "trusts"}
NoPairing == [id |-> 0, peer |-> NoOne]
NewPage(why, try) == [why |-> why, try |-> try, read |-> << >>]
NothingPicked == [peer |-> NoOne]

NoGateway == [peers |-> {}, trusts |-> [p \in Peers |-> 0], published |-> 0]
NoView == [peers |-> [p \in Peers |-> "absent"], pairing |-> NoPairing,
           requested |-> NoOne, attempt |-> 0, cleared |-> NoOne]

ViewInit ==
  /\ Init
  /\ up = "initializing" /\ isolate = "snapshots" /\ page = NewPage("initialize", 1)
  /\ streams = [s \in Streams |-> << >>] /\ tasks = << >>
  /\ gateway = NoGateway /\ view = NoView
  /\ picker = NothingPicked /\ astray = {} /\ wishes = 0
  /\ calm = TRUE /\ crossed = {}

------------------------------------------------------------------------------
(* VerticalSliceController: what an event of the gateway makes of view v.      *)
(* A peer is absent, untrusted, authenticated, or authenticated and offline.   *)

SetPeer(v, p, what) == [v EXCEPT !.peers[p] = what]

UpsertPeer(v, p, trusted) ==
  SetPeer(v, p, IF trusted \/ v.peers[p] \in {"authenticated", "offline"}
                  THEN "authenticated" ELSE "untrusted")

ClearPairing(v) == [v EXCEPT !.attempt = 0, !.requested = NoOne, !.pairing = NoPairing]

ExpirePeer(v, p) ==
  LET w == SetPeer(v, p, IF v.peers[p] \in {"authenticated", "offline"} THEN "offline" ELSE "absent")
  IN  IF v.peers[p] = "absent" THEN v
      ELSE IF v.requested = p THEN ClearPairing(w) ELSE w

\* _applyPairingAttempt: of another attempt than the current one, or of a
\* peer that is not shown, nothing is shown.
Ignores(v, e) ==
  \/ v.peers[e.peer] = "absent"
  \/ v.requested \notin {NoOne, e.peer}
  \/ v.attempt \notin {0, e.id}

ApplyAttempt(v, e) ==
  IF Ignores(v, e) THEN v
  ELSE CASE e.state = "starting" ->
              [v EXCEPT !.attempt = e.id, !.requested = e.peer, !.cleared = NoOne]
         [] e.state = "awaiting" ->
              [v EXCEPT !.attempt = e.id, !.requested = e.peer, !.cleared = NoOne,
                        !.pairing = [id |-> e.id, peer |-> e.peer]]
         [] e.state = "paired" ->
              [v EXCEPT !.attempt = 0, !.cleared = NoOne, !.pairing = NoPairing,
                        !.requested = IF v.peers[e.peer] = "untrusted" THEN e.peer ELSE NoOne]
         [] OTHER -> [ClearPairing(v) EXCEPT !.cleared = NoOne]

PairingCleared(v, id) ==
  IF id \notin {v.attempt, v.pairing.id} THEN v
  ELSE [ClearPairing(v) EXCEPT
          !.cleared = IF v.pairing # NoPairing THEN v.pairing.peer ELSE v.requested]

\* _applyTrustUpdate: an active trust ends the pairing it came from.
Completes(v, p) == p \in {v.requested, v.pairing.peer, v.cleared}

TrustActive(v, p) ==
  LET w == SetPeer(v, p, IF v.peers[p] \in {"untrusted", "authenticated"}
                           THEN "authenticated" ELSE "offline")
  IN  IF Completes(v, p) THEN [ClearPairing(w) EXCEPT !.cleared = NoOne] ELSE w

\* Mutated: a peer that is shown as authenticated stays so.
StaysTrusted(v, p) == v

TrustGone(v, p) ==
  CASE v.peers[p] \in {"untrusted", "authenticated"} -> SetPeer(v, p, "untrusted")
    [] OTHER -> SetPeer(v, p, "absent")

------------------------------------------------------------------------------
(* NativeVerticalSliceGateway: what it makes of an element of each stream,     *)
(* as the pair of itself and the view.                                        *)

PublishPeer(gv, p) ==
  [g |-> [gv.g EXCEPT !.peers = @ \cup {p}],
   v |-> UpsertPeer(gv.v, p, gv.g.trusts[p] # 0)]

LosePeer(gv, p) ==
  [g |-> [gv.g EXCEPT !.peers = @ \ {p}], v |-> ExpirePeer(gv.v, p)]

OnDiscoveryEvent(gv, e) ==
  IF e.state = "expired" THEN LosePeer(gv, e.peer) ELSE PublishPeer(gv, e.peer)

ReconcileDiscovery(gv, peers) ==
  FoldSet(LAMBDA p, x : PublishPeer(x, p),
          FoldSet(LAMBDA p, x : LosePeer(x, p), gv, gv.g.peers \ peers), peers)

ClearPublished(gv) ==
  IF gv.g.published = 0 THEN gv
  ELSE [g |-> [gv.g EXCEPT !.published = 0], v |-> PairingCleared(gv.v, gv.g.published)]

\* _publishPairingAttempt: an attempt that another one replaces is cleared.
\* The identifiers that can be decided on (_attemptIds) are the published one.
PublishAttempt(gv, e) ==
  LET x == IF gv.g.published # e.id THEN ClearPublished(gv) ELSE gv
      terminal == e.state \in {"paired", "closed"}
  IN  [g |-> [x.g EXCEPT !.published = IF ~terminal THEN e.id ELSE IF @ = e.id THEN 0 ELSE @],
       v |-> ApplyAttempt(x.v, e)]

ReconcilePairing(gv, a) ==
  IF a = NoAttempt THEN ClearPublished(gv) ELSE PublishAttempt(gv, AttemptEvent(a))

OnTrustEvent(gv, e) ==
  IF e.state = "active"
    THEN [g |-> [gv.g EXCEPT !.trusts[e.peer] = e.id], v |-> TrustActive(gv.v, e.peer)]
    ELSE [g |-> [gv.g EXCEPT !.trusts[e.peer] = 0], v |-> TrustGone(gv.v, e.peer)]

\* The last active entry of a peer.
TrustOf(rows, p) == Max({0} \cup {i \in DOMAIN rows : rows[i].peer = p /\ rows[i].state = "active"})

ReconcileTrust(gv, rows) ==
  LET next == [p \in Peers |-> TrustOf(rows, p)]
      left == {p \in Peers : gv.g.trusts[p] # 0 /\ next[p] = 0}
      v1 == FoldSet(LAMBDA p, v : TrustGone(v, p), gv.v, left)
  IN  [g |-> [gv.g EXCEPT !.trusts = next],
       v |-> FoldSet(LAMBDA p, v : TrustActive(v, p), v1, {p \in Peers : next[p] # 0})]

Handled(s, gv, x) ==
  CASE s = "peer" -> OnDiscoveryEvent(gv, x)
    [] s = "pairing" -> PublishAttempt(gv, x)
    [] s = "trust" -> OnTrustEvent(gv, x)
    [] s = "peers" -> ReconcileDiscovery(gv, x)
    [] s = "attempt" -> ReconcilePairing(gv, x)
    [] s = "trusts" -> ReconcileTrust(gv, x)

Now == [g |-> gateway, v |-> view]
Become(gv) == gateway' = gv.g /\ view' = IF up = "ready" THEN gv.v ELSE view

\* The deliveries of the microtasks: one element of every stream that has one,
\* in the order in which they queued up, and so on with the second elements.
Longest == Max({0} \cup {Len(streams[s]) : s \in Streams})
Round(i) == LET has == SelectSeq(tasks, LAMBDA s : Len(streams[s]) >= i)
            IN  [j \in DOMAIN has |-> [from |-> has[j], what |-> streams[has[j]][i]]]
Deliveries == FlattenSeq([i \in 1 .. Longest |-> Round(i)])

\* They have no part in what native code does, and are one step.
Deliver ==
  /\ Become(FoldLeft(LAMBDA gv, d : Handled(d.from, gv, d.what), Now, Deliveries))
  /\ streams' = [s \in Streams |-> << >>] /\ tasks' = << >>

------------------------------------------------------------------------------
(* NativeEngine.                                                             *)

Idle == isolate = "idle" /\ At("ui", "idle")

\* Elements for streams, in this order; one that had none queues up.
Add(new) ==
  /\ streams' = [s \in Streams |-> streams[s] \o [i \in DOMAIN SelectSeq(new, LAMBDA x : x.to = s) |->
                                    SelectSeq(new, LAMBDA x : x.to = s)[i].what]]
  /\ tasks' = tasks \o [i \in DOMAIN SelectSeq(new, LAMBDA x : streams[x.to] = << >>) |->
                          SelectSeq(new, LAMBDA x : streams[x.to] = << >>)[i].to]

Wakeup ==
  /\ Idle /\ queue # << >> /\ up # "disposed"
  /\ isolate' = "drain"
  /\ UNCHANGED <<native, up, page, streams, tasks, gateway, view, picker, astray>>

\* _handleEventWakeup: events until there are none; one that follows a loss
\* makes it read the snapshots.
Poll ==
  /\ isolate = "drain"
  /\ IF queue = << >>
       THEN isolate' = "idle" /\ Deliver /\ UNCHANGED <<queue, page>>
       ELSE /\ queue' = Tail(queue)
            /\ Add(<<[to |-> Head(queue).event.kind, what |-> Head(queue).event]>>)
            /\ IF Head(queue).dropped
                 THEN isolate' = "snapshots" /\ page' = NewPage("recover", 1)
                 ELSE UNCHANGED <<isolate, page>>
            /\ UNCHANGED <<gateway, view>>
  /\ UNCHANGED <<table, near, gone, session, thread, up, picker, astray>>

\* What a snapshot that stays stale does: the drain ends with an error, which
\* makes the controller unavailable (through the transfers' stream).
DrainFails ==
  /\ page' = NewPage("none", 1) /\ up' = "unavailable" /\ isolate' = "idle"
  /\ streams' = [s \in Streams |-> << >>] /\ tasks' = << >> /\ view' = NoView

\* A snapshot goes into its stream; that of initialize is applied at once.
TakeSnapshot(s, what) ==
  IF page.why = "recover"
    THEN Add(<<[to |-> s, what |-> what]>>) /\ UNCHANGED <<gateway, view>>
    ELSE LET gv == Handled(s, Now, what)
         IN  gateway' = gv.g /\ view' = gv.v /\ UNCHANGED <<streams, tasks>>

\* The snapshots of discovery and of the attempt.
ReadDiscovery ==
  /\ isolate = "snapshots"
  /\ TakeSnapshot("peers", near)
  /\ isolate' = "attempt"
  /\ UNCHANGED <<native, up, page, picker, astray>>

DiscoveryIsStale ==
  /\ isolate = "snapshots" /\ page.why = "recover"
  /\ DrainFails
  /\ UNCHANGED <<native, gateway, picker, astray>>

ReadAttempt ==
  /\ isolate = "attempt"
  /\ TakeSnapshot("attempt", active)
  /\ isolate' = "pages"
  /\ UNCHANGED <<native, up, page, picker, astray>>

\* The trust snapshot, page by page; a continuation of another revision is
\* refused (TrustSnapshot).
LastPage == Len(page.read) + PageSize >= Len(trust)
Rows == page.read \o SubSeq(trust, Len(page.read) + 1,
                            IF LastPage THEN Len(trust) ELSE Len(page.read) + PageSize)
Stale == pages = "stale"

ReadPage ==
  /\ isolate = "pages" /\ ~Stale /\ ~LastPage
  /\ page' = [page EXCEPT !.read = Rows]
  /\ pages' = "current"
  /\ UNCHANGED <<active, trust, open, queue, near, gone, session, thread,
                 up, isolate, streams, tasks, gateway, view, picker, astray>>

\* The last page; with that of initialize the view is ready.
ReadLastPage ==
  /\ isolate = "pages" /\ ~Stale /\ LastPage
  /\ pages' = "none"
  /\ page' = NewPage("none", 1)
  /\ TakeSnapshot("trusts", Rows)
  /\ IF page.why = "recover" THEN isolate' = "drain" /\ UNCHANGED up
     ELSE up' = "ready" /\ isolate' = "idle"
  /\ UNCHANGED <<active, trust, open, queue, near, gone, session, thread, picker, astray>>

\* A snapshot that got stale is read again, a few times.
PageIsStale ==
  /\ isolate = "pages" /\ Stale
  /\ pages' = "none"
  /\ IF page.try < Tries
       THEN page' = NewPage(page.why, page.try + 1) /\ UNCHANGED <<up, isolate, streams, tasks, view>>
       ELSE DrainFails
  /\ UNCHANGED <<active, trust, open, queue, near, gone, session, thread, gateway, picker, astray>>

------------------------------------------------------------------------------
(* The user.                                                                 *)

Ready == Idle /\ up = "ready"

\* pairPeer, with the native call and what follows it.
PairPeer(p, ok) ==
  /\ Ready /\ view.peers[p] = "untrusted" /\ view.attempt = 0 /\ view.requested = NoOne
  /\ Start(p, ok)
  /\ view' = [view EXCEPT !.requested = IF ok THEN p ELSE NoOne, !.cleared = NoOne]
  /\ UNCHANGED <<up, isolate, page, streams, tasks, gateway, picker, astray>>

\* confirmPairing and rejectPairing: the attempt on the screen, if it can
\* still be decided on.
DecidePairing(confirm) ==
  /\ Ready /\ view.pairing # NoPairing /\ gateway.published = view.pairing.id
  /\ Decide(view.pairing.id, confirm)
  /\ UNCHANGED dart

\* What follows: words that were rejected go from the screen.
AfterCall ==
  /\ At("ui", "return")
  /\ Does("ui", Resting)
  /\ LET call == thread["ui"]
     IN  view' = IF call.op = "reject" /\ call.ok THEN [view EXCEPT !.pairing = NoPairing] ELSE view
  /\ UNCHANGED <<table, queue, near, gone, session, up, isolate, page, streams, tasks, gateway, picker, astray>>

\* selectAndSendFile: the trust is looked up before the file is chosen.
SelectFile(p) ==
  /\ Ready /\ picker = NothingPicked
  /\ view.peers[p] = "authenticated" /\ gateway.trusts[p] # 0
  /\ picker' = [peer |-> p, trust |-> gateway.trusts[p],
                device |-> trust[gateway.trusts[p]].device]
  /\ UNCHANGED <<native, up, isolate, page, streams, tasks, gateway, view, astray>>

\* ResolveActiveTrust.
ActiveTrust(i) == i \in DOMAIN trust /\ trust[i].state = "active"

\* Mutated: the trust is looked up when the file has been chosen.
LatestTrust == gateway.trusts[picker.peer]

\* The trust that was looked up before the selector was opened.
TrustToSend == picker.trust

\* The user has chosen, or given up; xnn_transfer_transfer_send.
FileSelected ==
  /\ Idle /\ up \in {"ready", "unavailable"} /\ CanCall /\ picker # NothingPicked
  /\ picker' = NothingPicked
  /\ astray' = astray \cup (IF ActiveTrust(TrustToSend)
                             THEN {trust[TrustToSend].device} \ {picker.device} ELSE {})
  /\ UNCHANGED <<native, up, isolate, page, streams, tasks, gateway, view>>

SelectionCancelled ==
  /\ Idle /\ picker # NothingPicked
  /\ picker' = NothingPicked
  /\ UNCHANGED <<native, up, isolate, page, streams, tasks, gateway, view, astray>>

\* Other calls of the engine; dispose.
UserWishes ==
  /\ Idle /\ wishes < MaxWishes
  /\ (\E i \in DOMAIN trust : Revoke(i)) \/ CloseWindow
  /\ wishes' = wishes + 1
  /\ UNCHANGED dart
UserStops ==
  /\ Idle /\ Shutdown
  /\ up' = "disposed" /\ gateway' = NoGateway /\ view' = NoView
  /\ picker' = NothingPicked
  /\ UNCHANGED <<isolate, page, streams, tasks, astray>>

User ==
  \/ \E p \in Peers, ok \in BOOLEAN : PairPeer(p, ok)
  \/ \E confirm \in BOOLEAN : DecidePairing(confirm)
  \/ \E p \in Peers : SelectFile(p)
  \/ FileSelected \/ SelectionCancelled
  \/ UserStops

Isolate ==
  Wakeup \/ Poll \/ ReadDiscovery \/ DiscoveryIsStale \/ ReadAttempt \/ ReadPage \/ ReadLastPage \/ PageIsStale \/ AfterCall

\* What the properties set aside: a lost event, two threads at once, a device
\* paired again under another observation, an observation of two devices.
Disturbs ==
  \/ \E i \in DOMAIN queue' : queue'[i].dropped
  \/ thread'["net"] # Resting /\ thread'["ui"] # Resting
  \/ \E i \in DOMAIN trust : trust'[i].peer # trust[i].peer
  \/ \E i, j \in DOMAIN trust' : i # j /\ trust'[i].peer = trust'[j].peer

\* The owner has revoked a device and the bridge not noted it, while a pairing
\* with the same device has been committed and not applied: nothing orders the
\* two changes of the table as the owner ordered its own.
Crossing ==
  {d \in Devices : /\ thread["net"].step = "apply" /\ thread["net"].update = Paired(d)
                   /\ At("ui", "mark") /\ trust[thread["ui"].id].device = d}

\* Discovery is what initialize starts last.
Steps ==
  \/ (up = "initializing" => UNCHANGED near) /\ (Network \/ CallGoesOn) /\ UNCHANGED <<dart, wishes>>
  \/ (User \/ Isolate) /\ UNCHANGED wishes
  \/ UserWishes
Next == Steps /\ calm' = (calm /\ ~Disturbs) /\ crossed' = crossed \cup Crossing'

ViewSpec == ViewInit /\ [][Next]_all

------------------------------------------------------------------------------
Settled == Idle /\ Still /\ queue = << >> /\ up = "ready"

Shown == {p \in Peers : view.peers[p] # "absent"}

\* What is settled and was never disturbed is exact: the trusted peers are
\* those shown as authenticated, and a pairing is shown, or keeps the user
\* from starting one, only while the bridge has it.  (With a peer that has
\* been revoked and is shown no more it may stay, see NeverLockedOut.)
\* (_onTrustEvent, _publishPairingAttempt and the snapshots of the gateway,
\* _applyPairingAttempt, _applyTrustUpdate and _expirePeer of the controller.)
ViewIsExact ==
  calm /\ Settled =>
    /\ {p \in Peers : view.peers[p] \in {"authenticated", "offline"}} =
         {trust[i].peer : i \in {j \in DOMAIN trust : trust[j].state = "active"}}
    /\ view.requested \in Shown => {view.attempt, view.pairing.id} \subseteq {0, active.id}

\* An attempt that has ended does not keep the user from starting another
\* (_requestedPairPeerId and _activeAttemptId of the controller).
NeverLockedOut == calm /\ Settled => view.attempt \in {0, active.id}

\* The words on the screen are those of the controller's current attempt,
\* with the peer it was asked for: what the user decides on is what it follows.
WordsAreCurrent ==
  view.pairing # NoPairing =>
    view.attempt = view.pairing.id /\ view.requested = view.pairing.peer

\* A file goes to the device the user had in front of them when they chose to
\* send, whatever was revoked, paired again or moved while they looked for it
\* (selectAndSendFile, which asks for the trust before the file).
SentAsMeant == astray = {}

\* Once stopped the bridge has no attempt, however late an update comes
\* (Shutdown and Apply of the bridge).
StopEndsAttempt == up = "disposed" /\ At("ui", "idle") => active = NoAttempt

\* With both threads at rest, an entry is reported active or revoked as the
\* owner's repository has its device, whatever updates came during a revocation,
\* unless the device was paired in the moment Crossing describes; after a
\* shutdown a pairing may stay unreported.  (Revoke, which asks the owner with
\* the mutex free, and Apply.)
TrustIsDurable ==
  Still => \A i \in DOMAIN trust :
    trust[i].device \notin crossed =>
      /\ trust[i].state = "active" => trust[i].device \in durable
      /\ trust[i].device \in durable /\ open => trust[i].state = "active"

\* The same of every device.
TrustNeverDiverges ==
  Still /\ open => \A i \in DOMAIN trust :
    (trust[i].state = "active") = (trust[i].device \in durable)
==============================================================================
