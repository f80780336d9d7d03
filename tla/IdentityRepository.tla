-------------------------- MODULE IdentityRepository --------------------------
(***************************************************************************)
(* The identity repository (security/identity/identity_repository.cpp) on    *)
(* the protected store (platform_protected_store.cpp): one root item and one  *)
(* item per trusted peer, each with a revision, changed by compare-and-swap   *)
(* under a lock shared by all processes.                                      *)
(*                                                                         *)
(* A call of the store is a step; between two of them other processes act,    *)
(* and the process may die.  A generation stands for the store id and the     *)
(* seed that belong together; a peer's key stands for its device id, and the  *)
(* key of its first commit for its record id.  Records the store gives back   *)
(* are the ones that were put: encodings and authenticators are left out.     *)
(* What a call computes before its last read of the root depends on the       *)
(* process alone and is one step with that read.                              *)
(***************************************************************************)
EXTENDS Naturals, FiniteSets

CONSTANTS
  Procs,         \* processes
  Mortal,        \* those that may die and start again
  Keys,          \* keys of peers
  NoKey,         \* no key
  MaxPeers,      \* kMaxPeerRecords
  MaxTombstones, \* kMaxPeerTombstones
  MaxRevision,   \* the largest revision of a peer's record
  MaxGenerations \* bound: roots made

ASSUME RepositoryAssumption ==
  /\ Mortal \subseteq Procs
  /\ NoKey \notin Keys
  /\ {MaxPeers, MaxRevision, MaxGenerations} \subseteq Nat \ {0}
  /\ MaxTombstones \in Nat

Generations == 1 .. MaxGenerations

Roots == [rev : 0 .. MaxGenerations, gen : 0 .. MaxGenerations, retired : 0 .. MaxGenerations]
Records == [rev : 0 .. MaxRevision, key : Keys \cup {NoKey}, tombstones : SUBSET Keys,
            trust : {"none", "active", "revoked"}]

NoRoot == [rev |-> 0, gen |-> 0, retired |-> 0]
NoRecord == [rev |-> 0, key |-> NoKey, tombstones |-> {}, trust |-> "none"]
NoPeers == [r \in Keys |-> NoRecord]

VARIABLES
  root,     \* the root item
  items,    \* the peers' items, by generation and record id
  made,     \* generations made so far
  pc,       \* what each process is doing
  ready,    \* ready_
  mine,     \* state_->root of each process
  peers,    \* state_->stored_peers of each process, by record id
  loading,  \* the root a load started with
  listed,   \* revisions that the load's or the cleanup's enumeration listed, 0: not to be read
  got,      \* records the load has read
  record,   \* the record id a mutation is about
  next      \* the record it is about to put

store == <<root, items, made>>
memory == <<ready, mine, peers>>
load == <<loading, listed, got>>
change == <<record, next>>
vars == <<store, pc, memory, load, change>>

NothingListed == [r \in Keys |-> 0]

Init ==
  /\ root = NoRoot /\ items = [g \in Generations |-> NoPeers] /\ made = 0
  /\ pc = [p \in Procs |-> "idle"]
  /\ ready = [p \in Procs |-> FALSE]
  /\ mine = [p \in Procs |-> NoRoot]
  /\ peers = [p \in Procs |-> NoPeers]
  /\ loading = [p \in Procs |-> NoRoot]
  /\ listed = [p \in Procs |-> NothingListed]
  /\ got = [p \in Procs |-> NoPeers]
  /\ record = [p \in Procs |-> NoKey]
  /\ next = [p \in Procs |-> NoRecord]

Goto(p, where) == pc' = [pc EXCEPT ![p] = where]

\* The call ends, and what it had read is dropped.
Done(p) ==
  /\ Goto(p, "idle")
  /\ loading' = [loading EXCEPT ![p] = NoRoot]
  /\ listed' = [listed EXCEPT ![p] = NothingListed]
  /\ got' = [got EXCEPT ![p] = NoPeers]
  /\ record' = [record EXCEPT ![p] = NoKey]
  /\ next' = [next EXCEPT ![p] = NoRecord]

Present(rs) == {r \in Keys : rs[r].rev > 0}

\* KeyIsKnown.
Known(rs, k) == \E r \in Present(rs) : rs[r].key = k \/ k \in rs[r].tombstones

\* Mutated: keys are not compared across records.
NoCheck(rs) == TRUE

\* ValidateUniquePeerKeys.
Unique(rs) ==
  \A r, s \in Present(rs) :
    /\ rs[r].key \notin rs[s].tombstones
    /\ r # s => rs[r].key # rs[s].key /\ rs[r].tombstones \cap rs[s].tombstones = {}

\* Mutated: the revision is not compared.
AnyRevision(stored, expected) == TRUE

\* PlatformProtectedStore::CompareRevision; 0 is an absent item.
CompareRevision(stored, expected) == stored = expected

------------------------------------------------------------------------------
(* Open, Refresh and LoadFromRoot.                                           *)

LoadsRoot(p) ==
  /\ loading' = [loading EXCEPT ![p] = root]
  /\ Goto(p, "list")

\* Open or Refresh: Get of the root.
ReadRoot(p) ==
  /\ pc[p] = "idle"
  /\ IF root # NoRoot
     THEN LoadsRoot(p)
     ELSE ~ready[p] /\ Goto(p, "empty") /\ UNCHANGED loading
  /\ UNCHANGED <<store, memory, listed, got, change>>

\* Open found no root: Enumerate.
SeeEmpty(p) ==
  /\ pc[p] = "empty"
  /\ Goto(p, IF root = NoRoot /\ \A g \in Generations : Present(items[g]) = {}
             THEN "create" ELSE "again")
  /\ UNCHANGED <<store, memory, load, change>>

\* The store was not empty: Open reads the root again, which another
\* process has made meanwhile (AlwaysLoadable: items have a root).
ReadRootAgain(p) ==
  /\ pc[p] = "again"
  /\ root # NoRoot
  /\ LoadsRoot(p)
  /\ UNCHANGED <<store, memory, listed, got, change>>

\* InitializeEmpty: the new root, unless another process was first; then
\* that one is loaded.
InitializeEmpty(p) ==
  /\ pc[p] = "create"
  /\ IF CompareRevision(root.rev, 0)
     THEN /\ made < MaxGenerations
          /\ root' = [rev |-> 1, gen |-> made + 1, retired |-> 0]
          /\ made' = made + 1
          /\ ready' = [ready EXCEPT ![p] = TRUE]
          /\ mine' = [mine EXCEPT ![p] = root']
          /\ peers' = [peers EXCEPT ![p] = NoPeers]
          /\ Done(p)
     ELSE Goto(p, "winner") /\ UNCHANGED <<root, made, memory, load, change>>
  /\ UNCHANGED items

ReadWinner(p) ==
  /\ pc[p] = "winner"
  /\ LoadsRoot(p)
  /\ UNCHANGED <<store, memory, listed, got, change>>

\* Enumerate: the revisions of the generation's items.
ListPeers(p) ==
  /\ pc[p] = "list"
  /\ LET now == items[loading[p].gen]
     IN IF root.rev = loading[p].rev /\ Cardinality(Present(now)) <= MaxPeers
        THEN /\ listed' = [listed EXCEPT ![p] = [r \in Keys |-> now[r].rev]]
             /\ Goto(p, "get") /\ UNCHANGED <<loading, got, change>>
        ELSE Done(p)
  /\ UNCHANGED <<store, memory>>

Unread(p) == {r \in Keys : listed[p][r] > 0}

\* Get of another listed item, which must not have changed.
GetPeer(p) ==
  /\ pc[p] = "get"
  /\ \E r \in Unread(p) :
       LET now == items[loading[p].gen][r]
       IN IF now.rev = listed[p][r]
          THEN /\ got' = [got EXCEPT ![p][r] = now]
               /\ listed' = [listed EXCEPT ![p][r] = 0]
               /\ UNCHANGED <<pc, loading, change>>
          ELSE Done(p)
  /\ UNCHANGED <<store, memory>>

\* Everything is read: the keys are compared, the root is read again, and
\* what was loaded is adopted.
Adopt(p) ==
  /\ pc[p] = "get" /\ Unread(p) = {}
  /\ IF Unique(got[p]) /\ root = loading[p]
     THEN /\ ready' = [ready EXCEPT ![p] = TRUE]
          /\ mine' = [mine EXCEPT ![p] = loading[p]]
          /\ peers' = [peers EXCEPT ![p] = got[p]]
     ELSE UNCHANGED memory
  /\ Done(p)
  /\ UNCHANGED store

------------------------------------------------------------------------------
(* Changes of one peer: the candidate, EnsureRootCurrent, compare-and-swap.  *)

\* A mutation of record r is prepared, and the root is still the one loaded.
Prepare(p, r, new) ==
  /\ ready[p] /\ pc[p] = "idle" /\ root = mine[p]
  /\ Goto(p, "put")
  /\ record' = [record EXCEPT ![p] = r] /\ next' = [next EXCEPT ![p] = new]
  /\ UNCHANGED <<store, memory, load>>

\* PutPeer: a record is new exactly when none is expected, and the keys of
\* the candidate are unique.
PutPeer(p, r, new) ==
  /\ r \in Present(peers[p]) <=> new.rev > 1
  /\ Unique([peers[p] EXCEPT ![r] = new])
  /\ Prepare(p, r, new)

HasRoom(p) == Cardinality(Present(peers[p])) < MaxPeers

\* A record whose revision can still grow.
CanGrow(old) == old.rev < MaxRevision

CommitPeer(p, k) ==
  /\ HasRoom(p)
  /\ ~Known(peers[p], k)
  /\ PutPeer(p, k, [rev |-> 1, key |-> k, tombstones |-> {}, trust |-> "active"])

RotatePeer(p, r, k) ==
  LET old == peers[p][r]
      new == [old EXCEPT !.rev = @ + 1, !.key = k, !.tombstones = @ \cup {old.key}]
  IN /\ r \in Present(peers[p]) /\ old.trust = "active"
     /\ CanGrow(old) /\ Cardinality(old.tombstones) < MaxTombstones
     /\ ~Known(peers[p], k)
     /\ PutPeer(p, r, new)

RevokePeer(p, r) ==
  LET old == peers[p][r]
  IN /\ r \in Present(peers[p]) /\ old.trust = "active" /\ CanGrow(old)
     /\ PutPeer(p, r, [old EXCEPT !.rev = @ + 1, !.trust = "revoked"])

ForgetPeer(p, r) ==
  /\ r \in Present(peers[p]) /\ peers[p][r].trust = "revoked"
  /\ Prepare(p, r, NoRecord)

\* CompareExchangePut or CompareExchangeDelete, and the new state of the
\* process; a conflict changes nothing.
Exchange(p) ==
  /\ pc[p] = "put"
  /\ LET g == mine[p].gen
         r == record[p]
     IN IF CompareRevision(items[g][r].rev, peers[p][r].rev)
        THEN /\ items' = [items EXCEPT ![g][r] = next[p]]
             /\ peers' = [peers EXCEPT ![p][r] = next[p]]
        ELSE UNCHANGED <<items, peers>>
  /\ Done(p)
  /\ UNCHANGED <<root, made, ready, mine>>

------------------------------------------------------------------------------
(* Reset and the cleanup of the retired generation.                          *)

\* Mutated: the retired generation is not looked at.
AnyState(p) == TRUE

\* GenerationHasItems is false for the generation that the root retires.
RetiredIsGone(p) == Present(items[mine[p].retired]) = {}

\* Reset: EnsureRootCurrent.
BeginReset(p) ==
  /\ ready[p] /\ pc[p] = "idle"
  /\ root = mine[p]
  /\ Goto(p, IF mine[p].retired # 0 THEN "pending" ELSE "reset")
  /\ UNCHANGED <<store, memory, load, change>>

\* Nothing of the retired generation may be left.
SeePending(p) ==
  /\ pc[p] = "pending"
  /\ IF RetiredIsGone(p) THEN Goto(p, "reset") /\ UNCHANGED <<load, change>> ELSE Done(p)
  /\ UNCHANGED <<store, memory>>

\* Mutated: the peers of the old identity are kept.
KeepsPeers(p) == peers[p]

\* The peers in memory after a reset.
PeersAfterReset(p) == NoPeers

\* The new root: the commit point of the reset.
CommitReset(p) ==
  /\ pc[p] = "reset"
  /\ IF CompareRevision(root.rev, mine[p].rev)
     THEN /\ made < MaxGenerations
          /\ root' = [rev |-> mine[p].rev + 1, gen |-> made + 1, retired |-> mine[p].gen]
          /\ made' = made + 1
          /\ mine' = [mine EXCEPT ![p] = root']
          /\ peers' = [peers EXCEPT ![p] = PeersAfterReset(p)]
          /\ Goto(p, "clean") /\ UNCHANGED <<load, change>>
     ELSE Done(p) /\ UNCHANGED <<root, made, mine, peers>>
  /\ UNCHANGED <<items, ready>>

\* CleanupStaleItems, called by itself or at the end of Reset:
\* EnsureRootCurrent.
CleanupStaleItems(p) ==
  /\ ready[p] /\ pc[p] \in {"idle", "clean"}
  /\ IF root = mine[p] /\ mine[p].retired # 0
     THEN Goto(p, "listRetired") /\ UNCHANGED <<load, change>>
     ELSE Done(p)
  /\ UNCHANGED <<store, memory>>

\* Mutated: the generation in memory is listed, not the one it retired.
Mine(p) == {mine[p].gen}

\* The generations whose items are stale.
Stale(p) == {mine[p].retired}

\* Enumerate; the items are deleted one by one.
ListRetired(p) ==
  /\ pc[p] = "listRetired"
  /\ \E g \in Stale(p) :
       /\ listed' = [listed EXCEPT ![p] = [r \in Keys |-> items[g][r].rev]]
       /\ loading' = [loading EXCEPT ![p] = [NoRoot EXCEPT !.gen = g]]
  /\ Goto(p, "delete")
  /\ UNCHANGED <<store, memory, got, change>>

DeleteStale(p) ==
  /\ pc[p] = "delete"
  /\ \/ Unread(p) = {} /\ Done(p) /\ UNCHANGED items
     \/ \E r \in Unread(p) :
          LET g == loading[p].gen
          IN IF CompareRevision(items[g][r].rev, listed[p][r])
             THEN /\ items' = [items EXCEPT ![g][r] = NoRecord]
                  /\ listed' = [listed EXCEPT ![p][r] = 0]
                  /\ UNCHANGED <<pc, loading, got, change>>
             ELSE Done(p) /\ UNCHANGED items
  /\ UNCHANGED <<root, made, memory>>

------------------------------------------------------------------------------
(* The store refuses a call, or the process dies.                            *)

StoreFails(p) == pc[p] # "idle" /\ Done(p) /\ UNCHANGED <<store, memory>>

Dies(p) ==
  /\ p \in Mortal
  /\ ready[p] \/ pc[p] # "idle"
  /\ ready' = [ready EXCEPT ![p] = FALSE]
  /\ mine' = [mine EXCEPT ![p] = NoRoot]
  /\ peers' = [peers EXCEPT ![p] = NoPeers]
  /\ Done(p)
  /\ UNCHANGED store

Loads(p) ==
  \/ ReadRoot(p) \/ SeeEmpty(p) \/ ReadRootAgain(p) \/ InitializeEmpty(p) \/ ReadWinner(p)
  \/ ListPeers(p) \/ GetPeer(p) \/ Adopt(p)

Changes(p) ==
  \/ /\ ready[p] /\ pc[p] = "idle"
     /\ \/ \E k \in Keys : CommitPeer(p, k)
        \/ \E r, k \in Keys : RotatePeer(p, r, k)
        \/ \E r \in Keys : RevokePeer(p, r) \/ ForgetPeer(p, r)
  \/ Exchange(p)

Resets(p) ==
  \/ BeginReset(p) \/ SeePending(p) \/ CommitReset(p)
  \/ CleanupStaleItems(p) \/ ListRetired(p) \/ DeleteStale(p)

Next == \E p \in Procs : Loads(p) \/ Changes(p) \/ Resets(p) \/ StoreFails(p) \/ Dies(p)

Spec == Init /\ [][Next]_vars

------------------------------------------------------------------------------
(* Properties.                                                               *)

\* The items and what the processes hold have their types; no revision of a
\* record passes the largest one (RotatePeer, RevokePeer).
TypeOK ==
  /\ root \in Roots /\ made \in 0 .. MaxGenerations
  /\ items \in [Generations -> [Keys -> Records]]
  /\ pc \in [Procs -> {"idle", "empty", "create", "again", "winner", "list", "get", "put",
                       "pending", "reset", "clean", "listRetired", "delete"}]
  /\ ready \in [Procs -> BOOLEAN]
  /\ mine \in [Procs -> Roots] /\ loading \in [Procs -> Roots]
  /\ peers \in [Procs -> [Keys -> Records]] /\ got \in [Procs -> [Keys -> Records]]
  /\ listed \in [Procs -> [Keys -> 0 .. MaxRevision]]
  /\ record \in [Procs -> Keys \cup {NoKey}] /\ next \in [Procs -> Records]

\* Processes that initialise or reset at the same time end up with one
\* identity: a process holds the root of the store or one of an earlier
\* revision, and two that hold the same revision hold the same identity
\* (InitializeEmpty's conflict, Reset's commit point).
OneIdentity ==
  /\ \A p \in Procs : ready[p] =>
       /\ mine[p].rev <= root.rev
       /\ mine[p].rev = root.rev => mine[p] = root
  /\ \A p, q \in Procs : ready[p] /\ ready[q] /\ mine[p].rev = mine[q].rev => mine[p] = mine[q]

\* No two records of rs share a key, current or rotated away, and none has
\* gone back to a key it was rotated away from.
KeysApart(rs) ==
  \A r, s \in Present(rs) :
    IF r = s THEN rs[r].key \notin rs[r].tombstones
    ELSE ({rs[r].key} \cup rs[r].tombstones) \cap ({rs[s].key} \cup rs[s].tombstones) = {}

\* No process trusts one key under two records or a key that was rotated
\* away, whatever other processes changed while it loaded (LoadFromRoot,
\* PutPeer).
TrustIsUnambiguous == \A p \in Procs : KeysApart(peers[p])

\* A cleanup, however late, removes no peer of the current generation,
\* whichever process reset the repository meanwhile (CleanupStaleItems).
CleanupSparesCurrent ==
  [][\A p \in Procs :
       pc[p] = "delete" /\ listed'[p] # listed[p] /\ root # NoRoot
       => items'[root.gen] = items[root.gen]]_vars

\* A revoked peer becomes active again only after it was forgotten and
\* committed anew (RevokePeer, RotatePeer).
RevokedStaysRevoked ==
  [][\A g \in Generations, r \in Keys :
       items[g][r].trust = "revoked" => items'[g][r].trust # "active"]_vars

\* With one process memory and store agree whenever no call is under way,
\* also after failed calls and restarts (PutPeer, ForgetPeer, Reset).
MemoryIsDurable ==
  \A p \in Procs : ready[p] /\ pc[p] = "idle" => mine[p] = root /\ peers[p] = items[root.gen]

\* With one process the store can always be loaded: no crash leaves two
\* records with a common key, more records than are allowed, or items
\* without a root (Open, LoadFromRoot).
AlwaysLoadable ==
  /\ root # NoRoot =>
       KeysApart(items[root.gen]) /\ Cardinality(Present(items[root.gen])) <= MaxPeers
  /\ root = NoRoot => \A g \in Generations : Present(items[g]) = {}

\* With one process every item is of the current or of the retired
\* generation, the only one that cleanup can still remove (Reset,
\* GenerationHasItems).
NothingOrphaned ==
  \A g \in Generations : Present(items[g]) # {} => g \in {root.gen, root.retired}

==============================================================================
