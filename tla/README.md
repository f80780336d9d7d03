# A verification model of XnnTransfer

XnnTransfer sends files between two desktop computers on a local network. A
C++20 core (`native/`) does discovery, pairing, sessions, transfers, storage and
the protection of the device's identity; a Flutter application (`apps/desktop/`)
talks to it through a C ABI. This directory holds TLA+ models of the parts of
that program that are concurrent, distributed or must survive crashes, TLC
configurations that check them on small instances, and TLAPS proofs of the most
important properties for every value of the constants. `PROJECT.json` maps every
definition to the source lines it translates.

## 1. The system and its parts

| Part | State | Operations | What is hard | Module |
|---|---|---|---|---|
| Event channel (`bridge/event_channel.hpp`) | ring of events, registered callback, who runs it, open flags | `Enqueue`, `Poll`, `SetCallback`, `BeginShutdown`, `FinishShutdown` | callback runs outside the mutex; unregistering and shutting down are barriers, also from inside the callback | `EventChannel` |
| One-file transfer (`transfer/sender.cpp`, `receiver.cpp`) | two state machines, credit, stream, transaction | `Start`, `Accept`, `Reject`, `Cancel`, `Receive`, `NextOutbound`, `Advance`, `ConfirmChunkAckWritten`, `Shutdown` | frames crossing cancels; who knows of the durable commit; credit returned once | `OneFileTransfer`, `TransferOutcome` |
| Receive storage (`storage/receive_transaction.cpp`, `filesystem_backend.cpp`) | temporary files, destinations, bytes (seen and on disk), budget, root lock | create, write, seal, commit, abort, clean up | kill or power loss between any two system calls | `ReceiveStorage` |
| Transfer bridge (`bridge/transfer_bridge.hpp`) | records, revision, pending starts | commands of the application, updates of the network owner, publication, shutdown | backend calls without the mutex; order of publication | `TransferBridge` |
| Application's view (`native_engine.dart`, `native_engine_gateway.dart`, `transfer_controller.dart`) | revision, records, what is shown | drain, paged snapshots, recovery, commands | events dropped, two streams, pages of different revisions | `TransferView` |
| Pairing attempt and socket (`session/pairing.cpp`, `pairing_socket.cpp`) | protocol state, decisions, lease, replay reservation, write queue | start, frames, decide, cancel, deadlines, commit, close | the peer's answer, the completion of a write and the user's decision in any order | `PairingCeremony` |
| Pairing admission (`session/admission.cpp`) | entries, windows, token buckets | open/close window, reserve, select protocol, bind, show, release | shared by all runtimes; windows closing under handshakes | `PairingAdmission`, `CrossedPairing` |
| Connection runtime (`session/connection_runtime.cpp`) | network and callback thread, commands, lifecycle flags | `Start` and its rollback, `Stop`, commands, handlers | stop from handlers, timeouts racing the network thread | `ConnectionRuntime` |
| Established connections and TLS handshake (`session/established_connection.cpp`, `tls_handshake.cpp`) | the request, its timer, reads, writes, reserved completions, spare queues | open, `ReadSome`, `Write`, `Close`, completion, timeout, stop | results pass through two queues; memory may run out in each; close crosses all of it | `EstablishedConnection` |
| Identity repository (`security/identity/identity_repository.cpp`) on the protected store (`platform_protected_store.cpp`) | root, peers' items, revisions; a copy in each process | open, refresh, commit, rotate, revoke, forget, reset, clean up | several processes, a crash between two store calls | `IdentityRepository` |
| Session authority (`session/authority.cpp`, `channels.cpp`) | channels with their binding, active sessions | create, bind, activate, authorize, revoke, invalidate, shut down | a session outliving the trust it rests on | `SessionAuthority` |
| Discovery (`discovery/cache.cpp`, `service.cpp`, `system_runtime.cpp`, `bridge/discovery_bridge.hpp`) | entries and tombstones with their leases, scopes, tokens, timer, peer registry | datagrams, timer, interface changes, `Wake`, start, stop | datagrams in any order; two threads and two mutexes; events published without either | `DiscoveryCache`, `DiscoveryService` |
| Pairing bridge (`bridge/pairing_bridge.hpp`) | visible attempt, trust table, revisions | start, decide, revoke, updates of the session owner, snapshots, shutdown | the owner is called, and events are enqueued, with the mutex free | `PairingBridge` |
| Application's view of peers (`native_vertical_slice_gateway.dart`, `vertical_slice_controller.dart`) | peers, trust, the pairing on the screen | six streams, snapshots, pair, decide, send a file | each stream delivers in microtasks of its own; the file selector is awaited | `PeerView` |
| Replay cache, engine lifecycle as a whole, Windows storage | | | | see sections 8 and 9 |
| Wire encodings, cryptography, operating-system adapters, pages of the application, the development harness | | | | not modelled, see section 9 |

How they interact: the connection runtime accepts and opens TLS connections, asks
admission for a place, and runs a pairing attempt on each admitted connection;
an attempt that both users confirm commits its peer to the identity repository.
Sessions of such a peer are opened as established connections and stand as long
as the session authority finds their peer in the repository as it was. On one
of them the sender and the receiver of a transfer exchange
frames; the receiver writes into a receive transaction. The transfer bridge
keeps a record of every transfer and publishes changes through the event channel
to the isolate of the application, which drains it, recovers from dropped events
with snapshots, and shows the result. Discovery fills the list of peers that the
user can pair with; the pairing bridge tells the application of the attempt and
of the trusted devices.

## 2. How the models are built

* One module per component, its variables named after the members they stand
  for. An action is one critical section, one call, or one step after which
  other threads, processes or messages can act. Where the code holds a mutex for
  the length of a method, the method is one action.
* Data is abstracted to what the control looks at. A frame keeps its type,
  offset, size and error class; an event its sequence number and flag; a file its
  length; a peer its key. Nonces, authenticators and encodings are left out.
* Time is left out: a timer that runs may fire at any moment, a token may be
  refilled at any moment. A property that holds in these models holds for every
  choice of the timeouts.
* What may go wrong is a constant where different questions need different
  environments (`Environment` of `OneFileTransfer` and `PairingCeremony`).
* Counters that the program leaves unbounded are bounded by constants whose names
  begin with `Max`; the bounds are guards of actions.
* Each operator commented "Mutated" is a plausible mistake in the definition
  that follows it. `PROJECT.json` names, for each property, a mistake that
  violates it; it is used for nothing else.

## 3. The modules

### EventChannel
`queue` is the ring (`queue_`, `head_`, `size_`). A thread is in one of the
`Locations`: about to invoke the callback, inside it, about to notify, waiting in
a barrier, or idle. `Enqueue`, `Register`, `Unregister`, `BeginShutdown` and so on
are the critical sections of `mutex_`; the callback itself is a step without the
mutex, in which it posts a message to the isolate. `DrainStarts`, `Poll`,
`PollThrows` and `DrainEnds` are the isolate's drain, which ends when the queue
is empty or when an event cannot be decoded or a snapshot be read. `retired`,
`finished`, `lost` and `abandoned` are history variables: the last registration
that an unregistration has ended, a finished shutdown, the youngest dropped event
that no flag has announced to the isolate yet, and a drain that left events behind.

### OneFileTransfer and TransferOutcome
`snd` and `rcv` are the two `Implementation` structures, `to_receiver` and
`to_sender` the ordered bytes of the TLS channel, `unconfirmed` the
acknowledgements whose write the driver has not yet reported, `budget` what the
stream holds of each end's `ConnectionCreditBudget`. Each public method is one
action that handles one frame, or produces one, including its failures (message
ids used up, memory, storage, lost authority). `TransferOutcome` is the abstract
specification: a file is published at most once, the receiving user is told
once what became of it, and the sending user is told of success only when it is
published. `KeepsOutcome` states that the two machines implement it.

### ReceiveStorage
For each directory and each file there is what a process sees and what is on the
disk (`dest`/`dest_disk`, `temp`/`temp_disk`, `bytes`/`bytes_disk`); `fsync` makes
them equal, and after `PowerLoss` every entry that was not synchronised is found
in its old or its new state. `Create` is `CreateTemporary` with each way it can
fail; when its own unlink fails too an empty file stays that no transaction knows
of (`Stray`). A commit is the sequence of system calls of
`CommitTemporary` (`Seal`, `CommitLink`, `CommitSyncParent`, `CommitUnlink`,
`CommitFinish`), each of which may fail; a cleanup likewise.

### TransferBridge and TransferView
`TransferBridge` has the records, and one command of the application at a time
(the engine's lifecycle mutex), in two or three steps because the backend is
called without the bridge's mutex. `publishing` is non-empty while
`mutation_mutex_` is held between a change and its publication. `TransferView`
extends it with the isolate: a drain, a paged snapshot read that starts again
when the revision moved, the two streams to the gateway, the gateway and the
controller. `history` records what the records were at each revision, so that
`ViewIsARevision` can say which one the gateway shows.

### PairingCeremony
The two ends of one attempt, each with its `PairingAttempt` and its
`PairingSocket`. The bytes of a write reach the peer (`Transmit`) before its
completion handler runs (`WriteCompletes`); with `"late"` in `Environment` the
peer's answer may be handled in between.

### PairingAdmission and CrossedPairing
A lease is a number, its holder a handshake and then an attempt. `owner` is the
connection runtime, `start` the window in which the handshake began. `closed`,
`granted` and `refills` are history variables. `CrossedPairing` is the case that
needs two devices: both connect to each other at once, and each applies the
rules of `Bind` to what it sees. `MCPairingAdmission` chooses one of the two for
a behaviour.

### ConnectionRuntime
The user's threads and the callback thread are `Callers`. `Start` makes the two
threads one after the other and rolls back when the second cannot be made;
`Stop` closes the queues, joins the network thread and waits for the callback
thread, unless it is called on it. A channel's function on the network thread may
stop the runtime as well (`StopOnWorker`); it then neither joins nor waits. A
command is queued, running, cancelled or completed.

### EstablishedConnection
Extends `ConnectionRuntime`: each action of the runtime is taken together with
what it does to one connection. `shake` is the `TlsHandshake` of a request with
the handlers asio still has to call, in either order. `conn` is the connection:
an operation is prepared (its completion reserved), posted to the network
thread, waiting, answered, and at last handled on the callback thread. When
`MemoryFails`, a post may fail and the runtime's preallocated arrays are used
(`spare`, `spareClose`).

### IdentityRepository and SessionAuthority
Every call of the protected store is a step, because the store takes its lock
for the length of a call and no longer. `root` and `items` are what is stored,
`mine` and `peers` the copy of each process, `loading`, `listed` and `got` what a
load has read so far. A process can die at any step (`Dies`) and a store call can
fail (`StoreFails`). `SessionAuthority` adds the channels and sessions of one
process. A channel keeps the key, the revision of the record and the revision of
the root of its handshake; `IsAuthorized` compares them with the repository's
copy at every use. Every step of the repository may come between two calls of
the authority, and `Revoke` of the authority is itself such a call, in two steps.

### DiscoveryCache and DiscoveryService
`DiscoveryCache` has the operations of the cache as functions from a cache to a
cache and the events it returns, since each runs under one mutex. Leases are
kept as the ticks that are left. `DiscoveryService` has the two threads, with
what each is doing in `at`; sections under `mutex_` are steps, `lifecycle_mutex_`
is held across them, and each event is published and handled in steps of their
own. The network is any sequence of valid datagrams, so late, repeated and lost
ones need no mechanism. The timer that is due first completes (`TimerExpires`)
and its handler runs later (`OnTimer`); arming it again in between makes the
queued completion void, as the generation in `ScheduleAt` does. `watch` remembers
for each key an accepted withdrawal for as long as its tombstone has to last.

### PairingBridge and PeerView
`PairingBridge` has two threads, the network's and the application's. `Revoke`
and `Decide` call the session owner with the mutex free and go on afterwards.
The owner is external (the one in `c_api.cpp` refuses every attempt so far) and
may do what `PairingBackend` allows; `durable` is what its repository trusts,
which at the start is what an earlier run left there (`Kept`), whereas the
bridge's table starts empty. A revocation that the owner refuses is taken to
leave its repository as it was.
`PeerView` extends it with the isolate, which is blocked during a native call,
and with its microtasks: a stream that has something to deliver delivers one
element and queues up again. `calm` says that no event was lost and no update
overlapped a call; what the view promises then is stronger than otherwise. A
recovery needs a lost event, so `ViewIsExact` says nothing about the view after
recovery snapshots; the order of microtasks between streams matters there and in
`SentAsMeant`. `crossed` are the devices that were paired between the two halves
of their own revocation.

## 4. Runs

State counts are distinct states.

| Run | Instance | What it shows | States |
|---|---|---|---|
| `event_channel` | 2 threads, ring of 2, 4 events, 2 registrations | unregistering is a barrier, no silent loss; barriers return and events are drained unless a drain throws | 50,948 |
| `transfer_faults` | an empty file or three chunks of which the last is short, windows of one and two chunks, every fault | refinement of `TransferOutcome`, credit conserved, the ends agree | 4,188,625 |
| `transfer_ends` | up to three chunks, credit for one or two, the sender may cancel, fair driver | an accepted transfer ends without any timer | 997 |
| `receive_storage` | 2 processes, 2 files, 2 paths, sizes 0 to 2, budget 2 | no crash exposes part of a file or loses a committed one; live temporary files stay and all that can hold data are paid for | 322,359 |
| `transfer_view` | 2 transfers, ring of 2, pages of 1, 4 revisions | events follow the order of changes, the application always shows one revision and catches up | 513,830 |
| `pairing` | every disturbance, fair executors and users | trust needs both users, the devices agree, the ceremony ends | 40,277 |
| `admission` | 2 runtimes, 2 sources, 2 peers, 3 leases, 3 places, 2 windows; or 2 devices that both connect | rates are kept, nobody is admitted by a window that has closed, two users never look at two different connections | 299,014 |
| `runtime_connection` | 2 user threads with 3 calls, 1 handler call or function on the network thread, 1 request, a reading and 2 writing threads, memory that runs out | one outcome of a request, a stop leaves nothing behind, a close answers everything, cancelled commands never run, calls return | 392,093 |
| `identity_sessions` | 1 process that may die, 2 keys, 1 peer at a time, 3 generations, 2 sessions | memory and store agree, nothing is orphaned, a session is authorized only by what is stored, revoked ones stay ended | 1,450,050 |
| `identity_processes` | 2 processes that may die, 2 keys, 2 generations, 3 items | one identity, trust is unambiguous, a late cleanup spares the current generation | 977,778 |
| `discovery` | 3 peers on 1 interface that may go and come back, room for 1 candidate and 2 entries, tombstones that outlast the leases, 1 wake | withdrawals hold, the registry mirrors the cache, silent peers expire unless datagrams overtake every timer, start and stop return | 286,904 |
| `peer_view` | 1 observation, 2 devices that an earlier run left trusted, 2 attempts, 2 trust entries, queue of 2, pages of 1 | what is shown is exact when nothing was disturbed, files go to the device that was meant, a stop ends the attempt, the table and the repository agree | 1,084,059 |

The runs check what is hard to see in the code. Properties that follow from
those, and most type invariants, are left to the proofs of section 6
(`OneCallback`, `ShutdownBarrier`, `SuccessIsDurable`, `DurableOutcome`,
`NothingHeldAtEnd`, `DiscardedIsAbsent`, `NeverReplaced`, `EndedHoldsNothing`,
`TrustIsAnnounced`, `LimitsKept`, `EntriesHaveHolders`, `OneAttemptPerPeer`,
`ShownIsFrozen`, `RuntimesApart`). Others hold in the instances above and can be
added to the configurations: `StoppedIsSettled` and `ViewMovesForward`,
`CountsAreExact` and `AnswersAreKept`, `AlwaysLoadable`, `RetainedIsExact`,
`InterfacesTracked` and `StopIsBarrier`, `WordsAreCurrent`, and the type
invariants of `TransferBridge`, `ConnectionRuntime` and `DiscoveryService`.

The configurations of section 7 are expected to fail; they show where the code
and a document of the repository disagree.

**Why the bounds are enough to be interesting.** Two threads suffice for every
pair of critical sections to interleave, including a callback that re-enters;
four events overflow a ring of two twice, so that flagged events are themselves
dropped. With chunks of two bytes a file of five is two full chunks and a short
one; with a window of two chunks a second chunk is under way when the first is
acknowledged, and with either window the credit runs out. Two processes and
two files at two paths have a stale temporary file of each kind, and a third
path adds nothing that two do not have. Two transfers and pages of one make a
snapshot need two pages and so a change in between. Three leases
for two peers have a duplicate and a bystander, and with one bucket for two
sources a bucket has to be forgotten. Three generations of the identity are the
least in which an item can be two resets old, and two tombstones let a record
reach the largest revision. Three items let a generation be full while the
other has one; without that bound (`FewItems`) two processes have 1,440,063
states and the same result. A queue of two completions for three operations
runs out of places, and two writes of one byte fill a limit of two. Two sessions
of one peer are the least of which a revocation can end one and forget the other.
Of the three peers one announces, changes and withdraws, one announces and one
withdraws: with one candidate and two entries the cache refuses, evicts and
replaces, and a live tombstone competes with two others for its place. A lease of
one tick runs out between any two datagrams and before the tombstone of two does;
sequences up to two have an older, an equal and a newer one. Instance tokens are
told apart by one bit here; with two the run has 571,405 states and the same
result. One observation that two devices
can stand behind is the case in which the application could take one for the
other; both devices are trusted in the repository at the start, so that they are
revoked, paired anew and left alone (any other subset gives the same result). A trust snapshot that gets stale between two pages needs two
trusted peers and a third attempt, which the run does not reach; `PeerPaired.cfg`,
run by hand, starts where both observations are paired (187,868 states with
`Tries = 2`, where the snapshot is read again; 187,724 with `Tries = 1`, where
the view becomes unavailable), and the same properties hold. A full trust table
is reached by neither: the repository has the same limit and refuses first.

**Deadlock** is not checked where the system may stop for good: an ended
transfer or ceremony, a stopped runtime, bounded counters used up. The identity
repository never stops, and its runs check deadlock.

## 5. Fairness

* `EventChannel`: a thread that runs the callback, has to notify, or was woken
  goes on; the isolate serves its queue. No thread is obliged to call.
* `OneFileTransfer` (`Driven`): the connection's driver delivers frames, asks for
  outbound frames and reports writes, which the loop of the connection does as
  long as it is open. No user decides and no timer fires by fairness.
* `TransferView`: the isolate goes on with what it does; a posted wakeup is
  handled even if the user keeps giving commands (strong fairness, because a
  Dart isolate handles its messages in order and the model has the queue as a
  count); native calls return.
* `PairingCeremony`: the executor runs what is ready, and each user answers in
  the end. Nobody cancels and no deadline passes by fairness.
* `EstablishedConnection`: the threads of the runtime and its callers run, and a
  handshake ends or its timer fires, because asio calls the handlers of both.
  No command's timeout, no call and no answer of the peer is obliged.
* `DiscoveryService`: each thread goes on with what it has begun, time passes, a
  timer that stays due completes, and its completion is handled unless it is
  made void first (weak fairness only: a datagram may always be handled before it
  and arm the timer anew). A notice of the monitor is served however many
  datagrams arrive (strong fairness: nothing takes it out of asio's queue).
  Nobody has to call or send.
* `PairingAdmission`, `IdentityRepository`, `SessionAuthority` and `PeerView` are
  checked for safety only, without fairness.

## 6. Proofs

`tlapm` checks every theorem below for all values of the constants that satisfy
the assumptions named in the modules (sizes and limits are naturals, a chunk is
not empty, a window holds a chunk, special values are not members of the sets).

| Module | Inductive invariant | Theorems |
|---|---|---|
| `EventChannelProofs` | `ChannelInv` | `ChannelTypes`, `UnregisterIsBarrier`, `ShutdownIsBarrier`, `CallbacksNeverOverlap`, `LossIsNeverSilent` |
| `OneFileTransferProofs` | `Inv` | `TransferTypes`, `CreditIsConserved`, `SuccessMeansCommitted`, `OutcomeMeansCommitted`, `OutcomesAlwaysAgree`, `NothingLeaks`, `TransferImplementsOutcome` |
| `ReceiveStorageProofs` | `Inv` | `PublishedFilesAreWhole`, `CommittedFilesStay`, `TemporariesArePaidFor`, `DiscardedFilesAreAbsent`, `LiveTemporariesStay`, `DurableNamesStay` |
| `PairingCeremonyProofs` | `Inv` | `PairingTypes`, `TrustFollowsBothUsers`, `EndedAttemptsHoldNothing`, `TrustIsNeverSilent` |
| `PairingAdmissionProofs` | `Inv` | `AdmissionTypes`, `LimitsHold`, `RatesHold`, `NoEntryLeaks`, `OneAttempt`, `WindowsAreKept`, `ShownAttemptsStay`, `RuntimesStayApart` |

**Event channel.** The barriers are not inductive by themselves: one has to know
that a callback runs exactly on `callback_thread_`, that a wakeup is pending only
for a callback that is registered, and that registrations made while
`SetCallback(nullptr)` waits are younger than the one it retires. These are
`BarrierReasons`. That no loss is silent needs that the ring is the youngest part
of what was enqueued (`QueueIsSuffix`): the flag is put on the newest event, so
that it is younger than whatever was dropped before.

**Transfer.** The invariant has four parts: facts about the sender alone, facts
about the receiver alone, what the frames under way say, and the claims that
connect the two ends. Its core is that a frame that tells of success
(`FileCommit`, a `CompleteAck`, a `CancelAck` with the code COMPLETED) is on the
wire only if the receiver's transaction is committed, and that a committed
transaction stays so. Refinement follows: each action of `OneFileTransfer` is a
step of `TransferOutcome` or leaves its three variables unchanged. For the credit
and for the agreement of the two ends `Inv` is strengthened to `Accounts`, which
also follows the content and the credit through the frames: what the sender has
sent is what the receiver has stored and what is on the wire, and each
acknowledgement on the wire gives back at most what is unacknowledged.

**Storage.** Publishing is safe because the file is synchronised before it is
linked (`Synced`), and a name that is on the disk is one that is seen (`Names`).
`Running` ties each step of the call under way to the process that holds the
lock; without it a cleanup of another process could take a live temporary file.
That the budget covers the temporary files rests on `Budgeted`: the reservation of
the process that holds the root is the sum over its open transactions and over
those it could not clean up, and every file in the temporary directory is one of
these or an empty stray. The sums are cardinalities of sets of bytes, which the
library's theorems on finite sets can add and subtract.

**Pairing.** For each end the invariant says what its own variables allow
(`Local`), what it has sent (`Spoken`), what it has heard (`Heard`) and that a
committed end has told the other (`Told`). `confirmed` implies that the other
user confirmed because only a user's decision puts a `Confirm` on the wire.

**Admission.** The limits need that a lease not yet handed out has no entry
(`Fresh`) and that each listed entry has an owner and a source (`Owned`); the
rates need `Debts`: a source that is no longer tracked was granted no more than
it was refilled, so that the full bucket it gets when it comes back is its due.

Three things stay with TLC. Liveness, since the proof system has no rules for
fairness and `ENABLED` here: `BarriersReturn`, `EventsAreDrained`,
`AcceptedTransferEnds`, `PairingEnds`, `ViewCatchesUp`, `CallsReturn`,
`CloseAnswers`, `SilentPeerExpires`. What a recursive definition computes for
every input. And, for now, the agreement of two paired devices, and the
properties of the two views, the connection runtime and its connections, the
identity repository, the session authority and discovery.

## 7. Where the code and its documents disagree

In each of these configurations TLC finds a behaviour of the model that a
document excludes, or, in `PeerLockedOut.cfg`, that nobody can have wanted. They
are kept to be run by hand, with the module that the
component's run uses (`CrossedLosers.cfg` with `CrossedPairing`). The last three
rows have no configuration of their own: in the one that is named, replace the
second property of the row by the first.

| Configuration | Property | Behaviour | Document |
|---|---|---|---|
| `TransferEndShown.cfg` | `EndShown` | a transfer that ended is shown as queued for good: the event that said running was dropped, and the controller refuses the jump | ADR 0008, line 111 |
| `TransferCompletion.cfg` | `CompletionIsAnswered` | a sender that waits for the answer to TRANSFER_COMPLETE waits for its timer when the receiver's user cancelled in the meantime | `v1.md`, line 624 |
| `TransferCancelRace.cfg` | `CancellationWins` | a frame that was under way turns a receiver's cancellation into a failure | `v1.md`, line 664 |
| `TransferCreditRace.cfg` | `GrantedCreditIsHonoured` | a sender that used exactly the credit it was granted is refused, because the receiver counts the credit only when the write of the acknowledgement is reported | `v1.md`, line 594 |
| `TransferShutdownOrder.cfg` | `BackendOutlivesTransfers` | the backend is shut down while a record is not settled | ADR 0008, line 114 |
| `PairingEarlyDecision.cfg` | `FramesAreExpected` | a decision of the peer that arrives before the completion of the local write is answered with a violation | `pairing-v1.md`, line 253 |
| `CrossedLosers.cfg` | `LosersAreNotShown` | the connection that loses the tie-break at one device was already shown at the other | `pairing-v1.md`, line 405 |
| `IdentityRevival.cfg` | `RevokedStaysRevoked` | with two processes on one store, a stale copy replaces the revoked record of a later pairing by an active one, because revisions begin again at one | ADR 0009, line 181 |
| `SessionRevival.cfg` | `LostStaysLost` | a peer is revoked in the repository without the authority, forgotten and paired anew; the new record has the revision of the first, and a session of before that was not invalidated meanwhile is authorized again | ADR 0002, line 476 |
| `DiscoveryWakeOrder.cfg` | `PeersMirrored` | `Wake` publishes on its caller's thread what the io thread's events overtake: a peer that the cache has dropped stays listed | `discovery-v1.md`, line 252 |
| `DiscoveryTimerFails.cfg` | `CallsReturn` | a `Start` that cannot arm its timer holds `lifecycle_mutex_` and waits for the io thread, which could not arm it either and waits for the mutex; the two wait for each other | `discovery-v1.md`, line 330 |
| `PeerLockedOut.cfg` | `NeverLockedOut` | the trust of a peer that went offline is revoked while the user pairs with it again; the peer leaves the list, the end of the attempt is ignored, and no pairing can be started until the peer is seen and lost again | none mentions it |
| `EventChannel.cfg` | `NothingStranded` for `EventsAreDrained` | an exception (an event that cannot be decoded, a snapshot that stays stale) ends the isolate's drain with events left; a wakeup is posted only by the event that makes the queue non-empty, so later events wake nobody. The streams do get the error | `c_api.h`, lines 81 and 452 |
| `discovery.cfg` | `ExpiresInAFlood` for `SilentPeerExpires` | every datagram computes the next deadline and arms the timer again, which makes a queued completion void; while datagrams keep overtaking it, leases that have run out stay listed | `discovery-v1.md`, lines 130 and 298 |
| `PeerView.cfg` | `TrustNeverDiverges` for `TrustIsDurable` | the owner has revoked a device and the bridge not yet noted it when a new pairing with the device is committed and applied: the mark then falls on the new pairing. The device is shown as revoked but trusted, and `Revoke` of an entry that says revoked returns early; with the updates in the other order it is shown as active and is not | ADR 0008, line 77 |

Smaller ones that the properties of `peer_view` exclude (`calm`), because the
comment on `Apply` leaves the order to a session owner that does not exist yet:
an update that the owner applies between the two halves of `Decide` is
overwritten by the second half; an event enqueued before a recovery snapshot
is applied after it; a trust table that is full loses the final event of an
attempt. A device that is paired again under another observation is shown under
both until the next snapshot.

## 8. Plan

In order of importance, with what each would add:

1. *Proofs* of `StopIsBarrier`, `CancelledNeverRuns` and `OneOutcome` of the
   connection runtime, of `OneIdentity`, `CleanupSparesCurrent` and
   `AuthorizedIsDurable`, of `WithdrawalHolds`, and of the order of publication of
   the transfer bridge.
2. *Engine lifecycle* (`c_api.cpp`): start, stop and destroy with all bridges at
   once. Each bridge has its own part of the stop already.
3. *Replay cache* (`PairingReplayState`): a context is remembered until it
   expires, whatever fills the cache.
4. *Windows storage backend*, which publishes with a rename, as a second instance
   of `ReceiveStorage`.

## 9. Not modelled

Wire encodings and parsers keep no state and are tested with vectors.
Cryptography (TLS, MACs, the confirmation string) is assumed to work: a record
that is read is the one that was put, and a connection delivers the bytes of its
peer in order or breaks. Operating-system adapters (interface monitors, secret
stores, sockets) appear as the calls their users make. The pages of the
application keep no state of their own. The development harness under `tool/` is
not part of the running program.

Inside modelled parts these are left out: a put to the protected store whose
outcome the backend does not know; the emergency entries of pairing connections
in the connection runtime; the token buckets of the discovery cache, whose
refusals are datagrams that the network lost; the publishers' own sequence
numbers; the identifiers and the paged snapshot of the peer registry; a `Stop`
of discovery from inside an event handler; allocation failures of the storage
backend itself, as in its table of temporary files; commands that a function on
the network thread gives, which run at once; channels that are not activated yet
when their connection is closed. In the transfer two error paths end like one
that is modelled and are not told apart from it: a CANCEL_ACK whose failure is
terminal by itself (`sender.cpp` 283, `receiver.cpp` 335) and a chunk commitment
that cannot be built (`sender.cpp` 620).

Some promises are weaker than a reader may expect. A file whose creation failed
and that could not be unlinked either stays, empty, until the next process opens
the root. When memory runs out the outcome of a connection's request may be lost;
`OneOutcome` says that its connection is then closed. After a restart the trust
table of the bridge is empty although the repository is not; it is filled by the
owner's updates only.
