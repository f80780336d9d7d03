---------------------------- MODULE ReceiveStorage ----------------------------
(***************************************************************************)
(* Receiving files into a destination root: ReceiveTransaction and         *)
(* TemporaryBudget (native/src/storage/receive_transaction.cpp) on the     *)
(* POSIX backend (filesystem_backend.cpp), with processes that are killed  *)
(* and a machine that loses power at any point.                            *)
(*                                                                         *)
(* A file system keeps for every directory what a process sees and what is *)
(* on the disk; fsync makes the two equal, and after a power loss every    *)
(* unsynchronised entry is found in its old or its new state.  The same    *)
(* holds of the bytes of a file.  A system call that fails may have any    *)
(* error.  The backend's mutex lets one call into the backend run at a     *)
(* time, so `call` is the one whose system calls are under way.            *)
(***************************************************************************)
EXTENDS Naturals, FiniteSets

CONSTANTS Processes,    \* processes that may open the same destination root
          Files,        \* transactions, each with a temporary file of its own
          Paths,        \* validated destination paths
          Sizes,        \* declared sizes
          Limit         \* limit_bytes of each process's TemporaryBudget

ASSUME SizesAssumption == Sizes \subseteq Nat /\ Limit \in Nat
Nobody == "nobody"
Foreign == "foreign"   \* a file the user had at a destination before
NoFile == "no file"

ASSUME FilesAssumption == IsFiniteSet(Files) /\ NoFile \notin Files /\ Foreign \notin Files
ASSUME ProcessesAssumption == Nobody \notin Processes

VARIABLES
  lock,        \* the process that holds the root's flock
  state, owner, held, received,   \* each ReceiveTransaction: state_, its process,
                                  \* reservation_held_, received_bytes_ ...
  request,                        \* ... and the request it was made for
  busy, at, failed, \* the transaction whose system calls are under way, the next
                    \* one, and whether an error was met
  reserved, unresolved,  \* each process's TemporaryBudget
  temp, temp_disk,   \* files named in the temporary directory: seen and on the disk
  dest, dest_disk,   \* what each destination path names: seen and on the disk
  bytes, bytes_disk  \* bytes of each file: seen and on the disk

txn == <<state, owner, held, received, request>>
call == <<busy, at, failed>>
budget == <<reserved, unresolved>>
temps == <<temp, temp_disk>>
dests == <<dest, dest_disk>>
data == <<bytes, bytes_disk>>
vars == <<lock, txn, call, budget, temps, dests, data>>

States == {"New", "Created", "Receiving", "Committed", "Aborted", "OutcomeUncertain",
           "CleanupUnresolved", "Gone"}
Steps == {"idle", "unlink", "sync", "link", "sync parent", "unlink temp", "sync temp"}

Init ==
  /\ lock = Nobody
  /\ state = [f \in Files |-> "New"]
  /\ owner = [f \in Files |-> Nobody]
  /\ held = [f \in Files |-> FALSE]
  /\ received = [f \in Files |-> 0]
  /\ request \in [Files -> [path : Paths, size : Sizes]]
  /\ busy = NoFile /\ at = "idle" /\ failed = FALSE
  /\ reserved = [p \in Processes |-> 0]
  /\ unresolved = [p \in Processes |-> 0]
  /\ temp = {} /\ temp_disk = {}
  /\ dest \in [Paths -> {NoFile, Foreign}] /\ dest_disk = dest
  /\ bytes = [f \in Files |-> 0] /\ bytes_disk = bytes

-----------------------------------------------------------------------------
(* Mutated: a process opens the root although another one has it.          *)
OpensAnyway(p) == lock # p

(* OpenPosixBackend and CleanupStaleFiles: first the lock, then every      *)
(* leftover is removed and the directory synchronised; if anything of this *)
(* fails the lock is given back.                                           *)
MayOpen(p) == lock = Nobody

Open(p) ==
  /\ MayOpen(p)
  /\ \E left \in SUBSET temp, scanned \in BOOLEAN, synchronised \in BOOLEAN :
       /\ temp' = left
       /\ temp_disk' = IF left # temp /\ synchronised THEN left ELSE temp_disk
       /\ lock' = IF left = {} /\ scanned /\ (temp = {} \/ synchronised) THEN p ELSE lock
  /\ UNCHANGED <<txn, call, budget, dests, data>>

(* The backend's destructor, after the transactions that refer to it.      *)
Close(p) ==
  /\ lock = p
  /\ \A f \in Files : owner[f] = p => state[f] \notin {"Created", "Receiving"}
  /\ lock' = Nobody
  /\ owner' = [f \in Files |-> IF owner[f] = p THEN Nobody ELSE owner[f]]
  /\ reserved' = [reserved EXCEPT ![p] = 0]
  /\ unresolved' = [unresolved EXCEPT ![p] = 0]
  /\ UNCHANGED <<state, held, received, request, call, temps, dests, data>>

-----------------------------------------------------------------------------
(* TemporaryBudget.                                                        *)
TryReserve(p, size) == reserved[p] <= Limit /\ size <= Limit - reserved[p]

ReleaseReservation(f) ==
  /\ reserved' = [reserved EXCEPT ![owner[f]] = @ - (IF held[f] THEN request[f].size ELSE 0)]
  /\ UNCHANGED unresolved

(* What an orphan costs: its bytes stay reserved.                          *)
MarkUnresolved(f) ==
  /\ unresolved' = [unresolved EXCEPT ![owner[f]] = @ + request[f].size]
  /\ UNCHANGED reserved

Becomes(f, s) ==
  /\ state' = [state EXCEPT ![f] = s]
  /\ held' = [held EXCEPT ![f] = FALSE]
  /\ UNCHANGED <<owner, received, request>>

Idle == busy = NoFile
Returns == busy' = NoFile /\ at' = "idle" /\ failed' = FALSE

(* A new transaction, and the reservation at the start of Begin.           *)
Reserve(p, f) ==
  /\ lock = p /\ state[f] = "New"
  /\ owner' = [owner EXCEPT ![f] = p]
  /\ \/ /\ TryReserve(p, request[f].size)
        /\ state' = [state EXCEPT ![f] = "Created"]
        /\ held' = [held EXCEPT ![f] = TRUE]
        /\ reserved' = [reserved EXCEPT ![p] = @ + request[f].size]
     \/ /\ ~TryReserve(p, request[f].size)
        /\ state' = [state EXCEPT ![f] = "Aborted"]
        /\ UNCHANGED <<held, reserved>>
  /\ UNCHANGED <<lock, received, request, call, unresolved, temps, dests, data>>

(* CreateTemporary, the rest of Begin.  When the file exists but its fstat *)
(* fails or finds another link, it is unlinked without a look at the       *)
(* result: Begin gives the reservation back whether or not the empty file  *)
(* is still there.                                                         *)
Create(f) ==
  /\ Idle /\ state[f] = "Created"
  /\ \/ /\ temp' = temp \cup {f}
        /\ state' = [state EXCEPT ![f] = "Receiving"]
        /\ UNCHANGED <<owner, held, received, request, budget>>
     \/ /\ ReleaseReservation(f) /\ Becomes(f, "Aborted")
        /\ temp' \in {temp, temp \cup {f}}
  /\ UNCHANGED <<lock, call, temp_disk, dests, data>>

(* FailAndCleanup starts: CleanupTemporary takes the handle.               *)
StartCleanup(f) == busy' = f /\ at' = "unlink" /\ failed' = FALSE

(* Write: too much data, a write that fails half way and a verifier that   *)
(* objects all end the transaction.                                        *)
Write(f, n) ==
  /\ Idle /\ state[f] = "Receiving"
  /\ \/ /\ n > request[f].size - received[f]
        /\ StartCleanup(f)
        /\ UNCHANGED <<bytes, received>>
     \/ /\ n <= request[f].size - received[f]
        /\ bytes' = [bytes EXCEPT ![f] = @ + n]
        /\ received' = [received EXCEPT ![f] = @ + n]
        /\ UNCHANGED call
     \/ /\ n <= request[f].size - received[f]
        /\ \E k \in 0..n : bytes' = [bytes EXCEPT ![f] = @ + k]
        /\ StartCleanup(f)
        /\ UNCHANGED received
  /\ UNCHANGED <<lock, state, owner, held, request, budget, temps, dests, bytes_disk>>

(* Abort, also run by the destructor; before Begin there is nothing to do. *)
Abort(f) ==
  /\ \/ Idle /\ state[f] = "Receiving" /\ StartCleanup(f) /\ UNCHANGED txn
     \/ state[f] = "New" /\ Becomes(f, "Aborted") /\ UNCHANGED call
  /\ UNCHANGED <<lock, budget, temps, dests, data>>

(* CleanupTemporary: unlink and fsync, each of which may fail; errors of   *)
(* the two and of close are kept.                                          *)
CleanupUnlink ==
  /\ at = "unlink"
  /\ \/ temp' = temp \ {busy} /\ failed' \in BOOLEAN
     \/ failed' = TRUE /\ UNCHANGED temp
  /\ at' = "sync"
  /\ UNCHANGED <<lock, txn, busy, budget, temp_disk, dests, data>>

CleanupFinish ==
  /\ at = "sync"
  /\ \/ /\ ~failed
        /\ temp_disk' = temp
        /\ ReleaseReservation(busy) /\ Becomes(busy, "Aborted")
     \/ /\ \/ failed /\ temp_disk' = temp
           \/ UNCHANGED temp_disk
        /\ MarkUnresolved(busy) /\ Becomes(busy, "CleanupUnresolved")
  /\ Returns
  /\ UNCHANGED <<lock, temp, dests, data>>

-----------------------------------------------------------------------------
(* Mutated: the file is not flushed.                                       *)
FlushLater(f) == bytes_disk

(* SealAndCommit: the length, the verifier's seal and the flush of the     *)
(* file, all before the file gets its name.                                *)
FlushFirst(f) == [bytes_disk EXCEPT ![f] = bytes[f]]

Seal(f) ==
  /\ Idle /\ state[f] = "Receiving"
  /\ \/ /\ received[f] = request[f].size
        /\ bytes_disk' = FlushFirst(f)
        /\ busy' = f /\ at' = "link" /\ failed' = FALSE
     \/ StartCleanup(f) /\ UNCHANGED bytes_disk
  /\ UNCHANGED <<lock, txn, budget, temps, dests, bytes>>

(* CommitTemporary: linkat never replaces what is there.                   *)
Free(path) == dest[path] = NoFile

CommitLink ==
  /\ at = "link"
  /\ LET path == request[busy].path
     IN  \/ /\ Free(path)
            /\ dest' = [dest EXCEPT ![path] = busy]
            /\ at' = "sync parent"
         \/ /\ at' = "unlink"    \* not committed: FailAndCleanup
            /\ UNCHANGED dest
  /\ UNCHANGED <<lock, txn, busy, failed, budget, temps, dest_disk, data>>

(* Mutated: the directory is not synchronised.                             *)
NotPublished == dest_disk

(* fsync of the destination's directory.                                   *)
Published == dest

(* What follows it, also when it failed: the file may be there for good.   *)
AfterSyncParent(ok) == "unlink temp"

CommitSyncParent ==
  /\ at = "sync parent"
  /\ \E ok \in BOOLEAN :
       /\ dest_disk' = IF ok THEN Published ELSE dest_disk
       /\ at' = AfterSyncParent(ok)
       /\ failed' = ~ok
  /\ UNCHANGED <<lock, txn, busy, budget, temps, dest, data>>

CommitUnlink ==
  /\ at = "unlink temp"
  /\ \/ temp' = temp \ {busy} /\ UNCHANGED failed
     \/ failed' = TRUE /\ UNCHANGED temp
  /\ at' = "sync temp"
  /\ UNCHANGED <<lock, txn, busy, budget, temp_disk, dests, data>>

(* The rest of SealAndCommit: any error since the link leaves the outcome  *)
(* uncertain and the file's bytes reserved.                                *)
CommitFinish ==
  /\ at = "sync temp"
  /\ \/ /\ ~failed
        /\ temp_disk' = temp
        /\ ReleaseReservation(busy) /\ Becomes(busy, "Committed")
     \/ /\ temp_disk' \in {temp, temp_disk}
        /\ MarkUnresolved(busy) /\ Becomes(busy, "OutcomeUncertain")
  /\ Returns
  /\ UNCHANGED <<lock, temp, dests, data>>

-----------------------------------------------------------------------------
(* The process that holds the lock dies; the kernel frees the lock.        *)
Dies(p) ==
  /\ lock' = Nobody
  /\ state' = [f \in Files |-> IF owner[f] = p /\ state[f] \in {"Created", "Receiving"}
                                 THEN "Gone" ELSE state[f]]
  /\ owner' = [f \in Files |-> IF owner[f] = p THEN Nobody ELSE owner[f]]
  /\ held' = [f \in Files |-> IF owner[f] = p THEN FALSE ELSE held[f]]
  /\ reserved' = [q \in Processes |-> IF q = p THEN 0 ELSE reserved[q]]
  /\ unresolved' = [q \in Processes |-> IF q = p THEN 0 ELSE unresolved[q]]
  /\ Returns
  /\ UNCHANGED <<received, request>>

Kill(p) ==
  /\ lock = p
  /\ Dies(p)
  /\ UNCHANGED <<temps, dests, data>>

(* Power is lost: what was not synchronised is found old or new.           *)
PowerLoss ==
  /\ Dies(lock)
  /\ \E there \in SUBSET (temp \cup temp_disk) :
       /\ temp \cap temp_disk \subseteq there
       /\ temp' = there /\ temp_disk' = there
  /\ \E new \in SUBSET Paths :
       dest' = [path \in Paths |-> IF path \in new THEN dest[path] ELSE dest_disk[path]]
  /\ dest_disk' = dest'
  /\ \E new \in SUBSET Files :
       bytes' = [f \in Files |-> IF f \in new THEN bytes[f] ELSE bytes_disk[f]]
  /\ bytes_disk' = bytes'

Next ==
  \/ \E p \in Processes : Open(p) \/ Close(p) \/ Kill(p)
  \/ \E p \in Processes, f \in Files : Reserve(p, f)
  \/ \E f \in Files : Create(f) \/ Abort(f) \/ Seal(f)
  \/ \E f \in Files, n \in Sizes \ {0} : Write(f, n)
  \/ CleanupUnlink \/ CleanupFinish
  \/ CommitLink \/ CommitSyncParent \/ CommitUnlink \/ CommitFinish
  \/ PowerLoss

Spec == Init /\ [][Next]_vars

-----------------------------------------------------------------------------
(* Every field keeps its range; the budget never exceeds its limit.        *)
TypeOK ==
  /\ lock \in Processes \cup {Nobody}
  /\ state \in [Files -> States]
  /\ owner \in [Files -> Processes \cup {Nobody}]
  /\ held \in [Files -> BOOLEAN]
  /\ received \in [Files -> Nat]
  /\ request \in [Files -> [path : Paths, size : Sizes]]
  /\ busy \in Files \cup {NoFile} /\ at \in Steps /\ failed \in BOOLEAN
  /\ reserved \in [Processes -> 0..Limit]
  /\ unresolved \in [Processes -> 0..Limit]
  /\ temp \subseteq Files /\ temp_disk \subseteq Files
  /\ dest \in [Paths -> Files \cup {NoFile, Foreign}]
  /\ dest_disk \in [Paths -> Files \cup {NoFile, Foreign}]
  /\ bytes \in [Files -> Nat] /\ bytes_disk \in [Files -> Nat]

(* A destination path that names a received file names all of it: no crash *)
(* or power loss during CommitTemporary exposes a file whose bytes are not *)
(* on the disk.                                                            *)
PublishedIsWhole ==
  \A path \in Paths, f \in Files :
    f \in {dest[path], dest_disk[path]} =>
      bytes[f] = request[f].size /\ bytes_disk[f] = request[f].size

(* A transaction that reported kCommitted has its file at its destination, *)
(* also after any number of kills, restarts and power losses.              *)
CommittedIsKept ==
  \A f \in Files : state[f] = "Committed" =>
    dest[request[f].path] = f /\ dest_disk[request[f].path] = f

(* A transaction that reported failure, other than an uncertain commit,    *)
(* has not left its file at any destination.                               *)
DiscardedIsAbsent ==
  \A f \in Files, path \in Paths : state[f] \in {"Aborted", "CleanupUnresolved"} =>
    f \notin {dest[path], dest_disk[path]}

(* The files that a failed CreateTemporary could not unlink.               *)
Stray == {f \in temp : state[f] = "Aborted"}

(* While a process holds the root, its budget accounts for every open      *)
(* transaction and every orphan and covers the bytes declared for the      *)
(* temporary files on the disk.  The one kind of file that it does not     *)
(* count, what a failed creation left behind, never holds a byte.          *)
Held(p) == {f \in Files : owner[f] = p /\ held[f]}
Bytes(S) == UNION {{f} \X (1 .. request[f].size) : f \in S}
Declared(S) == Cardinality(Bytes(S))
BudgetCoversTemporaries ==
  lock # Nobody =>
    /\ reserved[lock] = Declared(Held(lock)) + unresolved[lock]
    /\ Declared(temp \ Stray) <= reserved[lock]
    /\ \A f \in Stray : bytes[f] = 0

(* The stale-file cleanup of a starting process never takes the temporary  *)
(* file of a transaction that is receiving.                                *)
LiveTemporaryKept ==
  \A f \in Files : state[f] = "Receiving" /\ busy # f => f \in temp

(* Temporary files stay while their transactions receive, and every one    *)
(* on the disk that can hold data is paid for: whoever opens the root      *)
(* takes no live file and inherits no space that nobody counts             *)
(* (OpenPosixBackend, CleanupStaleFiles, MarkUnresolved).                  *)
TemporariesAccounted == LiveTemporaryKept /\ BudgetCoversTemporaries

(* What a destination path durably names is never replaced or removed.     *)
NeverReplaced ==
  [][\A path \in Paths : dest_disk[path] # NoFile =>
       dest'[path] = dest_disk[path] /\ dest_disk'[path] = dest_disk[path]]_vars
=============================================================================
