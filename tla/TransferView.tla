----------------------------- MODULE TransferView -----------------------------
(***************************************************************************)
(* The application's view of the transfers: NativeEngine's drain and       *)
(* snapshot reader (native_engine.dart), NativeTransferGateway             *)
(* (native_engine_gateway.dart) and TransferController                     *)
(* (transfer_controller.dart), on top of TransferBridge.                   *)
(*                                                                         *)
(* All of it runs in one isolate.  A drain or a snapshot read runs to its  *)
(* end, but every poll and every page is a call of its own into native     *)
(* code, which goes on in between.  Drained events and recovery snapshots  *)
(* reach the gateway through two streams, after the drain and before the   *)
(* next wakeup or user command.  The controller's events follow the        *)
(* gateway's one by one and are applied with them.                         *)
(***************************************************************************)
EXTENDS TransferBridge

CONSTANTS PageSize,  \* XNN_TRANSFER_TRANSFER_SNAPSHOT_PAGE_CAPACITY
          Attempts   \* times a stale snapshot is read again

ASSUME ViewAssumption == PageSize \in Nat \ {0} /\ Attempts \in Nat \ {0}

VARIABLES
  isolate,      \* what the isolate does: idle, drain, or read a snapshot
  page,         \* the snapshot being read
  events,       \* the transferEvents stream
  snapshots,    \* the transferSnapshots stream
  gateway,      \* NativeTransferGateway: _revision and _records
  shown,        \* TransferController: what is shown of each transfer
  unavailable   \* TransferUnavailable

dart == <<isolate, page, events, snapshots, gateway, shown, unavailable>>
all == <<vars, dart>>

None == [state |-> "absent"]
NothingShown == [offer |-> FALSE, status |-> "none", bytes |-> 0]
NewPage(why, attempt) == [why |-> why, attempt |-> attempt, rev |-> 0, read |-> << >>]

ViewInit ==
  /\ Init
  /\ isolate = "page" /\ page = NewPage("initialize", 1)
  /\ events = << >> /\ snapshots = << >>
  /\ gateway = [rev |-> 0, records |-> [id \in Ids |-> None]]
  /\ shown = [id \in Ids |-> NothingShown]
  /\ unavailable = FALSE

ByName(seq) == [id \in Ids |->
  IF \E i \in DOMAIN seq : seq[i].id = id
    THEN (CHOOSE r \in Range(seq) : r.id = id) ELSE None]

-----------------------------------------------------------------------------
(* TransferController: the transitions it takes from the gateway.          *)
Status(state) ==
  CASE state = "queued" -> "queued"
    [] state \in {"running", "cancelling"} -> "running"
    [] state \in {"rejected", "failed"} -> "failed"
    [] OTHER -> state

LegalTransition(old, new) ==
  \/ old = new
  \/ old = "queued" /\ new \in {"running", "cancelled", "failed"}
  \/ old = "running" /\ new \in {"cancelled", "failed", "completed"}

TransferUpdated(s, record) ==
  LET status == Status(record.state)
  IN  IF s.status = "none" \/ (s.bytes <= record.bytes /\ LegalTransition(s.status, status))
        THEN [s EXCEPT !.status = status, !.bytes = record.bytes] ELSE s

(* What the controller makes of a record it is told about.                 *)
Told(s, record) ==
  IF record.state = "offered" THEN [s EXCEPT !.offer = TRUE] ELSE TransferUpdated(s, record)

(* _applyRecord: an offer that is gone is withdrawn.                       *)
IsOffer(record) == record # None /\ record.state = "offered"
AfterEvent(s, old, new) ==
  LET t == IF IsOffer(old) /\ ~IsOffer(new) THEN [s EXCEPT !.offer = FALSE] ELSE s
  IN  IF new = None \/ (IsOffer(old) /\ IsOffer(new)) THEN t ELSE Told(t, new)

ApplyRecord(event) ==
  LET id == event.record.id
      new == IF event.change = "removed" THEN None ELSE event.record
  IN  /\ gateway' = [rev |-> event.rev, records |-> [gateway.records EXCEPT ![id] = new]]
      /\ shown' = IF unavailable THEN shown
                  ELSE [shown EXCEPT ![id] = AfterEvent(@, gateway.records[id], new)]

(* _reconcileSnapshot: an older snapshot is ignored; offers that are not   *)
(* in it are withdrawn, and the controller is told of all it contains.     *)
NotOlder(rev) == rev >= gateway.rev

AfterSnapshot(s, old, new) ==
  IF new = None THEN (IF IsOffer(old) THEN [s EXCEPT !.offer = FALSE] ELSE s) ELSE Told(s, new)

Reconcile(rev, recs) ==
  LET next == ByName(recs)
  IN  IF NotOlder(rev)
        THEN /\ gateway' = [rev |-> rev, records |-> next]
             /\ shown' = IF unavailable THEN shown
                         ELSE [id \in Ids |-> AfterSnapshot(shown[id], gateway.records[id], next[id])]
        ELSE UNCHANGED <<gateway, shown>>

-----------------------------------------------------------------------------
Idle == isolate = "idle" /\ call = NoCall
Settled == Idle /\ events = << >> /\ snapshots = << >>

(* _handleEventWakeup.                                                     *)
Wakeup ==
  /\ Settled /\ wakeups > 0
  /\ wakeups' = wakeups - 1
  /\ isolate' = "drain"
  /\ UNCHANGED <<bridge, queue, noise, history, page, events, snapshots, gateway, shown, unavailable>>

(* Mutated: the loss is not noticed.                                       *)
Ignores(event) == FALSE

(* A drained event that follows a loss makes the engine read snapshots.    *)
LossSeen(event) == event.dropped

Poll ==
  /\ isolate = "drain"
  /\ \/ /\ queue = << >>
        /\ isolate' = "idle"
        /\ UNCHANGED <<queue, events, page>>
     \/ /\ queue # << >>
        /\ queue' = Tail(queue)
        /\ events' = IF Head(queue).kind = "transfer" THEN Append(events, Head(queue)) ELSE events
        /\ IF LossSeen(Head(queue))
             THEN isolate' = "page" /\ page' = NewPage("recovery", 1)
             ELSE UNCHANGED <<isolate, page>>
  /\ UNCHANGED <<bridge, wakeups, noise, history, snapshots, gateway, shown, unavailable>>

(* Mutated: pages of different revisions are put together.                 *)
NeverStale(expected) == FALSE

(* _readTransferSnapshot page by page; the bridge's Snapshot refuses a     *)
(* continuation when the revision is no longer the expected one.           *)
StaleSnapshot(expected) == expected # 0 /\ expected # revision

LastPage == Len(page.read) + PageSize >= Len(records)
Rows == page.read \o SubSeq(records, Len(page.read) + 1,
                            IF LastPage THEN Len(records) ELSE Len(page.read) + PageSize)

ReadPage ==
  /\ isolate = "page" /\ ~StaleSnapshot(page.rev) /\ ~LastPage
  /\ page' = [page EXCEPT !.rev = revision, !.read = Rows]
  /\ UNCHANGED <<vars, isolate, events, snapshots, gateway, shown, unavailable>>

(* The last page: where the snapshot goes.                                 *)
ReadLastPage ==
  /\ isolate = "page" /\ ~StaleSnapshot(page.rev) /\ LastPage
  /\ IF page.why = "recovery"
       THEN /\ snapshots' = Append(snapshots, [rev |-> revision, read |-> Rows])
            /\ isolate' = "drain"
            /\ UNCHANGED <<gateway, shown>>
       ELSE /\ Reconcile(revision, Rows)
            /\ isolate' = "idle"
            /\ UNCHANGED snapshots
  /\ page' = NewPage("none", 0)
  /\ UNCHANGED <<vars, events, unavailable>>

(* Giving up on a snapshot: an error in both streams ends the drain, a gap *)
(* or the initial read makes the application unavailable at once.          *)
Error == [kind |-> "error"]
GivesUp ==
  /\ page' = NewPage("none", 0)
  /\ IF page.why = "recovery"
       THEN /\ events' = Append(events, Error) /\ snapshots' = Append(snapshots, Error)
            /\ UNCHANGED unavailable
       ELSE unavailable' = TRUE /\ UNCHANGED <<events, snapshots>>
  /\ isolate' = IF page.why = "initialize" THEN "failed" ELSE "idle"

(* STALE_SNAPSHOT: read again from the start, a few times.                 *)
PageIsStale ==
  /\ isolate = "page" /\ StaleSnapshot(page.rev)
  /\ IF page.attempt < Attempts
       THEN /\ page' = NewPage(page.why, page.attempt + 1)
            /\ UNCHANGED <<isolate, events, snapshots, unavailable>>
       ELSE GivesUp
  /\ UNCHANGED <<vars, gateway, shown>>

(* The snapshots of discovery, pairing and trust are read before that of   *)
(* the transfers, and may stay stale just the same.                        *)
OtherSnapshotFails ==
  /\ isolate = "page" /\ page = NewPage("recovery", 1)
  /\ GivesUp
  /\ UNCHANGED <<vars, gateway, shown>>

(* _onTransferEvent: a flagged event waits for the recovery snapshot, an   *)
(* old one is ignored, a gap makes the gateway read a snapshot.            *)
Outdated(event) == event.dropped \/ event.rev <= gateway.rev
Follows(event) == gateway.rev = 0 \/ event.rev = gateway.rev + 1

OnTransferEvent(event) ==
  /\ IF Outdated(event) THEN UNCHANGED <<isolate, page, gateway, shown>>
     ELSE IF Follows(event) THEN ApplyRecord(event) /\ UNCHANGED <<isolate, page>>
     ELSE isolate' = "page" /\ page' = NewPage("gap", 1) /\ UNCHANGED <<gateway, shown>>
  /\ UNCHANGED unavailable

StreamError == unavailable' = TRUE /\ UNCHANGED <<isolate, page, gateway, shown>>

DeliverEvent ==
  /\ Idle /\ events # << >>
  /\ events' = Tail(events)
  /\ IF Head(events) = Error THEN StreamError ELSE OnTransferEvent(Head(events))
  /\ UNCHANGED <<vars, snapshots>>

DeliverSnapshot ==
  /\ Idle /\ snapshots # << >>
  /\ snapshots' = Tail(snapshots)
  /\ IF Head(snapshots) = Error THEN StreamError
     ELSE Reconcile(Head(snapshots).rev, Head(snapshots).read) /\ UNCHANGED <<isolate, page, unavailable>>
  /\ UNCHANGED <<vars, events>>

-----------------------------------------------------------------------------
(* The user's commands: the controller checks what it shows, the gateway   *)
(* what it holds, and the native command runs to its end.                  *)
UserSend(id) ==
  /\ Settled /\ ~unavailable /\ Send(id)
  /\ UNCHANGED dart

UserDecides(op, id) ==
  /\ Settled /\ ~unavailable /\ shown[id].offer
  /\ gateway.records[id] # None /\ gateway.records[id].state = "offered"
  /\ Command(op, id)
  /\ UNCHANGED dart

CanCancel(id) ==
  /\ Settled /\ ~unavailable /\ shown[id].status \in {"queued", "running"}
  /\ gateway.records[id] # None /\ gateway.records[id].state \in Active

UserCancels(id) == CanCancel(id) /\ Command("cancel", id) /\ UNCHANGED dart

(* A transfer that is cancelling already: the command succeeds at once.    *)
UserCancelsAgain(id) ==
  /\ CanCancel(id) /\ open /\ StateOf(id) = "cancelling"
  /\ shown' = [shown EXCEPT ![id].status = "cancelled"]
  /\ UNCHANGED <<vars, isolate, page, events, snapshots, gateway, unavailable>>

(* The application stops the engine; what is queued can still be drained.  *)
UserStops == Settled /\ Shutdown /\ UNCHANGED dart

(* The controller after the command succeeded: an accepted offer becomes a *)
(* queued transfer, a cancelled transfer is shown as cancelled.            *)
AfterCommand(op, s) ==
  CASE op = "accept" -> [s EXCEPT !.offer = FALSE, !.status = "queued"]
    [] op = "reject" -> [s EXCEPT !.offer = FALSE]
    [] op = "cancel" -> [s EXCEPT !.status = "cancelled"]

Returns ==
  /\ \/ SendReturns /\ UNCHANGED <<shown, unavailable>>
     \/ \E ok \in BOOLEAN :
          /\ CommandReturns(ok)
          /\ LET done == Succeeds(ok, call.op, call.id)
                 twice == call.op = "accept" /\ shown[call.id].status # "none"
             IN  /\ unavailable' = (unavailable \/ (done /\ twice))
                 /\ shown' = IF done /\ ~twice
                               THEN [shown EXCEPT ![call.id] = AfterCommand(call.op, @)] ELSE shown
  /\ UNCHANGED <<isolate, page, events, snapshots, gateway>>

Native == (Network \/ Publish \/ BackendStops \/ Project) /\ UNCHANGED dart

Isolate == Wakeup \/ Poll \/ ReadPage \/ ReadLastPage \/ PageIsStale \/ OtherSnapshotFails
           \/ DeliverEvent \/ DeliverSnapshot

User ==
  \/ \E id \in Ids : UserSend(id) \/ UserCancels(id) \/ UserCancelsAgain(id)
  \/ \E id \in Ids, op \in {"accept", "reject"} : UserDecides(op, id)
  \/ UserStops

Next == Native \/ Isolate \/ User \/ Returns

ViewSpec == ViewInit /\ [][Next]_all

(* The isolate goes on with what it does, handles every message posted to  *)
(* it in turn, whatever else the user asks for, and native calls return.   *)
Fairness ==
  /\ WF_all(Isolate) /\ SF_all(Wakeup) /\ WF_all(Returns)
  /\ WF_all((Publish \/ BackendStops \/ Project) /\ UNCHANGED dart)
FairSpec == ViewSpec /\ Fairness

-----------------------------------------------------------------------------
(* The gateway's records are, at every moment, exactly those the bridge    *)
(* had at the revision the gateway holds, whatever was dropped, reordered  *)
(* between the two streams or changed while a snapshot was being read.     *)
ViewIsARevision ==
  gateway.rev # 0 => gateway.records = ByName(history[gateway.rev])

(* The gateway never goes back to an older revision.                       *)
ViewMovesForward == [][gateway'.rev >= gateway.rev]_all

(* Nothing is under way and the gateway is up to date.                     *)
CaughtUp == Settled /\ ~unavailable /\ gateway.rev = revision

(* When the native side is quiet the gateway ends up with its records, or  *)
(* reports itself unavailable.                                             *)
ViewCatchesUp == <>[](unavailable \/ gateway.records = ByName(records))

(* A transfer that has ended is not shown as one that is under way, once   *)
(* the gateway is up to date.                                              *)
EndShown ==
  CaughtUp => \A id \in Ids : Terminal(StateOf(id)) => shown[id].status \notin {"queued", "running"}
=============================================================================
