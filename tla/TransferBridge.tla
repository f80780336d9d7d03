---------------------------- MODULE TransferBridge ----------------------------
(***************************************************************************)
(* TransferBridge (native/src/bridge/transfer_bridge.hpp): the records of  *)
(* all transfers, changed by commands of the application and by updates of *)
(* the native network owner, and published as events.                      *)
(*                                                                         *)
(* The engine's lifecycle mutex (c_api.cpp) lets one command run at a      *)
(* time; `call` is that command.  A command calls the backend without the  *)
(* bridge's mutex, so the network owner's updates run between its check    *)
(* and its change.  mutation_mutex_ is held from a change of the records   *)
(* to the publication of its event: `publishing` holds the events of the   *)
(* change whose publication is under way, and is empty when it is free.    *)
(*                                                                         *)
(* Of the event channel only its ring is here: it drops its oldest event   *)
(* when full and flags the new one.  Other components publish there too.   *)
(***************************************************************************)
EXTENDS Naturals, Sequences, SequencesExt, FiniteSets

CONSTANTS Ids,         \* transfer ids
          Total,       \* the size of every file
          MaxRecords,  \* kMaximumTransferRecords
          Capacity,    \* XNN_TRANSFER_EVENT_QUEUE_CAPACITY
          MaxRevision, \* bound: changes of the records
          MaxNoise     \* bound: events of other components

ASSUME BridgeAssumption ==
  /\ IsFiniteSet(Ids)
  /\ Total \in Nat /\ MaxRecords \in Nat \ {0} /\ Capacity \in Nat \ {0}
  /\ MaxRevision \in Nat /\ MaxNoise \in Nat

VARIABLES
  records,     \* records_
  revision,    \* revision_
  pending,     \* pending_starts_
  open,        \* updates_open_
  publishing,  \* events of the change whose publication is under way
  call,        \* the command under way
  backend,     \* "up", or "down" after the backend's Shutdown
  queue,       \* the event ring
  wakeups,     \* wakeups posted to the application
  noise,       \* events of other components so far
  history      \* what the records were at each revision

bridge == <<records, revision, pending, open, publishing, call, backend>>
channel == <<queue, wakeups, noise>>
vars == <<bridge, channel, history>>

Final == {"completed", "cancelled", "rejected", "failed"}
Active == {"queued", "running", "cancelling"}
States == {"offered"} \cup Active \cup Final
Records == [id : Ids, state : States, bytes : 0..Total]
Terminal(state) == state \in Final

NoCall == [op |-> "none", id |-> "none", at |-> "none"]
Ops == {"send", "accept", "reject", "cancel"}

Init ==
  /\ records = << >> /\ revision = 1 /\ pending = 0 /\ open = TRUE
  /\ publishing = << >> /\ call = NoCall /\ backend = "up"
  /\ queue = << >> /\ wakeups = 0 /\ noise = 0
  /\ history = << << >> >>

(* Find, and the ids never used so far: transfer ids are random.           *)
Known(id) == \E i \in DOMAIN records : records[i].id = id
At(id) == CHOOSE i \in DOMAIN records : records[i].id = id
Fresh(id) == \A n \in DOMAIN history : \A i \in DOMAIN history[n] : history[n][i].id # id
StateOf(id) == IF Known(id) THEN records[At(id)].state ELSE "absent"

-----------------------------------------------------------------------------
(* EventChannel::Enqueue: a wakeup when the ring was empty.                *)
Enqueue(event) ==
  LET full == Len(queue) = Capacity
      kept == IF full THEN Tail(queue) ELSE queue
  IN  /\ queue' = Append(kept, [event EXCEPT !.dropped = full])
      /\ wakeups' = IF kept = << >> THEN wakeups + 1 ELSE wakeups

(* MakePayload: the revision is that of the change.                        *)
Payload(change, record, rev) ==
  [kind |-> "transfer", change |-> change, record |-> record, rev |-> rev, dropped |-> FALSE]
Other == [kind |-> "other", dropped |-> FALSE]

(* AdvanceRevision, the new records and the event that tells of them.      *)
Change(next, change, record) ==
  /\ revision < MaxRevision
  /\ records' = next
  /\ revision' = revision + 1
  /\ publishing' = << Payload(change, record, revision + 1) >>
  /\ history' = Append(history, next)

Insert(record) == Change(Append(records, record), "upserted", record)
Replace(record) == Change([records EXCEPT ![At(record.id)] = record], "upserted", record)
Erase(id) == Change(RemoveAt(records, At(id)), "removed", records[At(id)])

(* Mutated: the mutation mutex is not taken.                               *)
IgnoresLock == TRUE

(* mutation_mutex_.                                                        *)
Unlocked == publishing = << >>

(* PublishIfOpen and, for Shutdown, the loop over its events.              *)
Publish ==
  /\ publishing # << >>
  /\ Enqueue(Head(publishing))
  /\ publishing' = Tail(publishing)
  /\ call' = IF call.at = "publish" /\ Len(publishing) = 1 THEN NoCall ELSE call
  /\ UNCHANGED <<records, revision, pending, open, backend, noise, history>>

OtherEvent ==
  /\ noise < MaxNoise
  /\ noise' = noise + 1
  /\ Enqueue(Other)
  /\ UNCHANGED <<bridge, history>>

-----------------------------------------------------------------------------
(* Send: the capacity check counts starts under way.                       *)
HasRoom == Len(records) + pending < MaxRecords

Send(id) ==
  /\ call = NoCall /\ open /\ Fresh(id) /\ HasRoom
  /\ pending' = pending + 1
  /\ call' = [op |-> "send", id |-> id, at |-> "backend"]
  /\ UNCHANGED <<records, revision, open, publishing, backend, channel, history>>

(* The backend answered: an error, or a transfer.  A result that names a   *)
(* known transfer is invalid: the backend is told to cancel it.            *)
SendReturns ==
  /\ call.op = "send" /\ call.at = "backend" /\ Unlocked
  /\ pending' = pending - 1
  /\ \/ /\ open /\ ~Known(call.id) /\ Len(records) < MaxRecords
        /\ Insert([id |-> call.id, state |-> "queued", bytes |-> 0])
        /\ call' = [call EXCEPT !.at = "publish"]
     \/ /\ call' = NoCall
        /\ UNCHANGED <<records, revision, publishing, history>>
  /\ UNCHANGED <<open, backend, channel>>

(* Which records Accept, Reject and Cancel apply to: they check it before  *)
(* they call the backend and again after.                                  *)
StaysCurrent(op, id) == Known(id)
Current(op, id) ==
  StateOf(id) \in IF op = "cancel" THEN {"queued", "running"} ELSE {"offered"}

Command(op, id) ==
  /\ call = NoCall /\ open /\ Current(op, id)
  /\ call' = [op |-> op, id |-> id, at |-> "backend"]
  /\ UNCHANGED <<records, revision, pending, open, publishing, backend, channel, history>>

CommandReturns(ok) ==
  /\ call.op \in {"accept", "reject", "cancel"} /\ call.at = "backend"
  /\ IF ok /\ Current(call.op, call.id)
       THEN /\ Unlocked
            /\ CASE call.op = "accept" -> Replace([records[At(call.id)] EXCEPT !.state = "queued"])
                 [] call.op = "cancel" -> Replace([records[At(call.id)] EXCEPT !.state = "cancelling"])
                 [] call.op = "reject" -> Erase(call.id)
            /\ call' = [call EXCEPT !.at = "publish"]
       ELSE /\ call' = NoCall
            /\ UNCHANGED <<records, revision, publishing, history>>
  /\ UNCHANGED <<pending, open, backend, channel>>

(* The status the command then returns: cancelling twice is no error.      *)
Succeeds(ok, op, id) == ok /\ (Current(op, id) \/ (op = "cancel" /\ StateOf(id) = "cancelling"))

-----------------------------------------------------------------------------
(* ApplyIncomingOffer.                                                     *)
Offer(id) ==
  /\ Unlocked /\ open /\ Fresh(id) /\ HasRoom
  /\ Insert([id |-> id, state |-> "offered", bytes |-> 0])
  /\ UNCHANGED <<pending, open, call, backend, channel>>

(* Apply: what it refuses.                                                 *)
Applies(record, state, bytes) ==
  /\ record.state # "offered" /\ ~Terminal(record.state)
  /\ record.bytes <= bytes /\ bytes <= Total
  /\ state # "offered"
  /\ state = "completed" => bytes = Total

(* The owner reports every state of a transfer, so none completes that was *)
(* not reported as running; otherwise its reports may come at any time.    *)
Reported(record, state) == state = "completed" => record.state # "queued"

Apply(id, state, bytes) ==
  /\ Unlocked /\ open /\ Known(id)
  /\ Reported(records[At(id)], state)
  /\ Applies(records[At(id)], state, bytes)
  /\ Replace([id |-> id, state |-> state, bytes |-> bytes])
  /\ UNCHANGED <<pending, open, call, backend, channel>>

-----------------------------------------------------------------------------
(* Shutdown: the sink closes, the backend stops, then pending offers are   *)
(* withdrawn and active transfers projected as cancelled.                  *)
Shutdown ==
  /\ call = NoCall /\ open /\ Unlocked
  /\ open' = FALSE
  /\ call' = [op |-> "shutdown", id |-> "none", at |-> "backend"]
  /\ UNCHANGED <<records, revision, pending, publishing, backend, channel, history>>

BackendStops ==
  /\ call.op = "shutdown" /\ call.at = "backend"
  /\ backend' = "down"
  /\ call' = [call EXCEPT !.at = "project"]
  /\ UNCHANGED <<records, revision, pending, open, publishing, channel, history>>

(* Which records the loop over the records changes, in order, and what it  *)
(* leaves after its first k changes.                                       *)
Unfinished == SetToSortSeq({i \in DOMAIN records : ~Terminal(records[i].state)}, <)

Withdrawn(record) == record.state = "offered"
Cancelled(record) == IF Withdrawn(record) THEN record ELSE [record EXCEPT !.state = "cancelled"]

AfterChanges(k) ==
  LET done == {Unfinished[j] : j \in 1..k}
      kept == SelectSeq([i \in DOMAIN records |-> i],
                        LAMBDA i : ~(i \in done /\ Withdrawn(records[i])))
  IN  [n \in DOMAIN kept |-> IF kept[n] \in done THEN Cancelled(records[kept[n]])
                                                 ELSE records[kept[n]]]

Project ==
  /\ call.op = "shutdown" /\ call.at = "project" /\ Unlocked
  /\ LET n == Len(Unfinished)
         event(k) == LET record == records[Unfinished[k]]
                     IN  Payload(IF Withdrawn(record) THEN "removed" ELSE "upserted",
                                 Cancelled(record), revision + k)
     IN  /\ records' = AfterChanges(n)
         /\ revision' = revision + n
         /\ publishing' = [k \in 1..n |-> event(k)]
         /\ history' = history \o [k \in 1..n |-> AfterChanges(k)]
         /\ call' = IF n = 0 THEN NoCall ELSE [call EXCEPT !.at = "publish"]
  /\ UNCHANGED <<pending, open, backend, channel>>

-----------------------------------------------------------------------------
Network ==
  \/ \E id \in Ids : Offer(id)
  \/ \E id \in Ids, state \in States, bytes \in 0..Total : Apply(id, state, bytes)
  \/ OtherEvent

(* Every field keeps its range, and the table its capacity.                *)
TypeOK ==
  /\ records \in Seq(Records) /\ Len(records) + pending <= MaxRecords
  /\ revision \in 1..(MaxRevision + MaxRecords) /\ pending \in 0..1 /\ open \in BOOLEAN
  /\ call.op \in Ops \cup {"none", "shutdown"}
  /\ call.at \in {"none", "backend", "project", "publish"}
  /\ backend \in {"up", "down"}
  /\ Len(queue) <= Capacity
  /\ Len(history) = revision

(* Events are published in the order of the changes, none left out: the    *)
(* last one published and those of the change under way lead up to the     *)
(* revision of the records.                                                *)
Published == SelectSeq(queue \o publishing, LAMBDA e : e.kind = "transfer")
PublishedInOrder ==
  \A i \in DOMAIN Published : Published[i].rev = revision + i - Len(Published)

(* Shutdown leaves no offer and no active transfer behind.                 *)
StoppedIsSettled ==
  ~open /\ call = NoCall => \A i \in DOMAIN records : Terminal(records[i].state)

(* The backend is stopped only once offers were withdrawn and active       *)
(* transfers shown as cancelled.                                           *)
BackendOutlivesTransfers ==
  backend = "down" => \A i \in DOMAIN records : Terminal(records[i].state)
=============================================================================
