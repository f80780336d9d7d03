--------------------------- MODULE DiscoveryCache ---------------------------
(***************************************************************************)
(* The candidate cache of discovery (native/src/discovery/cache.cpp): what *)
(* each operation of DiscoveryCache::Impl makes of the cache, and the peer *)
(* events it returns.  Every operation runs under the cache's mutex_, so   *)
(* each is one function from a cache to an outcome [cache, events];        *)
(* DiscoveryService.tla holds the cache in a variable and applies them.    *)
(*                                                                         *)
(* A key stands for CandidateKey (observer scope, source address, token).  *)
(* A scope is an interface generation: an interface that returns after it  *)
(* was removed has nothing left of its earlier generation, so the model    *)
(* may use its name again.  Deadlines are kept as the ticks left until     *)
(* them: now >= deadline is left = 0, and Elapse is the passing of a tick. *)
(* The steady clock never runs backwards and its uint64 sums do not wrap.  *)
(***************************************************************************)
EXTENDS Naturals, Sequences, FiniteSets, SequencesExt, FiniteSetsExt

CONSTANTS
  Keys,                   \* candidate keys: observer, source and token
  Scopes,                 \* interfaces a datagram can be observed on
  ScopeOf,                \* the observer scope of a key
  MaxSequence,            \* the largest sequence (2^64 - 1 in the code)
  Contents,               \* what an announcement shows, as its size in bytes
  Ttls,                   \* lease lengths, in ticks
  Datagrams,              \* the datagrams that may arrive, any number of times
  TombstoneLifetime,      \* kTombstoneLifetimeMs, in ticks
  MaxCandidates,          \* kMaxCandidates
  MaxCandidatesPerScope,  \* kMaxCandidatesPerScope
  MaxEntries,             \* kMaxEntries
  MaxEntriesPerScope,     \* kMaxEntriesPerScope
  MaxBytes,               \* kMaximumRetainedPayloadBytes
  MaxTokens,              \* instance tokens of our own that are told apart
  NoEntry                 \* no entry is kept for a key

ASSUME CacheConstants ==
  /\ IsFiniteSet(Keys) /\ IsFiniteSet(Scopes)
  /\ ScopeOf \in [Keys -> Scopes]
  /\ Contents \subseteq Nat \ {0} /\ Ttls \subseteq Nat \ {0}
  /\ {MaxSequence, TombstoneLifetime, MaxCandidates, MaxCandidatesPerScope,
      MaxEntries, MaxEntriesPerScope, MaxBytes} \subseteq Nat
  /\ MaxTokens \in Nat \ {0}

Tokens == 0 .. MaxTokens  \* a publisher's instance tokens; 0 is no token

Entry ==
  [candidate : BOOLEAN, seq : 1 .. MaxSequence, content : Contents \cup {0},
   left : 0 .. Max(Ttls \cup {TombstoneLifetime})]

(* What is read from a valid datagram; a withdrawal has no content. *)
Advertisements ==
  [type : {"announce"}, key : Keys, seq : 1 .. MaxSequence,
   content : Contents, ttl : Ttls]
    \cup [type : {"withdraw"}, key : Keys, seq : 1 .. MaxSequence]

CacheType ==
  [running : BOOLEAN, scopes : SUBSET Scopes, tokens : [Scopes -> Tokens],
   entries : [Keys -> Entry \cup {NoEntry}], retained : Nat]

Candidates(entries) ==
  {k \in Keys : entries[k] # NoEntry /\ entries[k].candidate}

Held(entries) == {k \in Keys : entries[k] # NoEntry}

In(scope, keys) == {k \in keys : ScopeOf[k] = scope}

(* A cache that was never started, or was stopped. *)
StoppedCache ==
  [running |-> FALSE, scopes |-> {}, tokens |-> [s \in Scopes |-> 0],
   entries |-> [k \in Keys |-> NoEntry], retained |-> 0]

(* Start: the first snapshot's scopes, no token, no entry. *)
StartCache(scopes) == [StoppedCache EXCEPT !.running = TRUE, !.scopes = scopes]

(* SetLocalToken: the token whose datagrams are our own on this scope. *)
SetLocalToken(cache, scope, token) ==
  IF scope \in cache.scopes THEN [cache EXCEPT !.tokens[scope] = token] ELSE cache

CandidateCapacity(entries, scope) ==
  /\ Cardinality(Candidates(entries)) < MaxCandidates
  /\ Cardinality(In(scope, Candidates(entries))) < MaxCandidatesPerScope

EntryCapacity(entries, scope) ==
  /\ Cardinality(Held(entries)) < MaxEntries
  /\ Cardinality(In(scope, Held(entries))) < MaxEntriesPerScope

(* Mutated: an entry is forgotten one tick before its time. *)
EraseTombstonesEarly(cache) ==
  [cache EXCEPT !.entries =
     [k \in Keys |-> IF @[k] # NoEntry /\ ~@[k].candidate /\ @[k].left <= 1
                     THEN NoEntry ELSE @[k]]]

(* EraseExpiredTombstones. *)
EraseExpiredTombstones(cache) ==
  [cache EXCEPT !.entries =
     [k \in Keys |-> IF @[k] # NoEntry /\ ~@[k].candidate /\ @[k].left = 0
                     THEN NoEntry ELSE @[k]]]

Appeared(k, content) == [kind |-> "appeared", key |-> k, content |-> content]
Updated(k, content) == [kind |-> "updated", key |-> k, content |-> content]
Expired(k) == [kind |-> "expired", key |-> k, content |-> 0]

Events == [kind : {"appeared", "updated", "expired"}, key : Keys,
           content : Contents \cup {0}]

ExpiredAll(keys) == SetToSeq({Expired(k) : k \in keys})

Outcome(cache, events) == [cache |-> cache, events |-> events]

Tombstone(seq) ==
  [candidate |-> FALSE, seq |-> seq, content |-> 0, left |-> TombstoneLifetime]

RetainedBy(entries, keys) ==
  FoldSet(LAMBDA k, sum : sum + entries[k].content, 0, keys)

(* The candidates of keys become tombstones at their highest sequence. *)
Bury(cache, keys) ==
  [cache EXCEPT
     !.entries = [k \in Keys |-> IF k \in keys THEN Tombstone(@[k].seq) ELSE @[k]],
     !.retained = @ - RetainedBy(cache.entries, keys)]

(* Whether Announce takes the datagram: it is newer than what is known of  *)
(* its key, and what it adds fits (the early returns of Announce).         *)
Accepts(cache, d) ==
  LET e == cache.entries[d.key] scope == ScopeOf[d.key]
      known == e # NoEntry
      replaced == IF known THEN e.content ELSE 0
  IN /\ known => d.seq > e.seq
     /\ known => e.candidate \/ CandidateCapacity(cache.entries, scope)
     /\ ~known => /\ CandidateCapacity(cache.entries, scope)
                  /\ EntryCapacity(cache.entries, scope)
     /\ cache.retained - replaced + d.content <= MaxBytes

(* Announce: a fresh sequence starts a new lease, and a change that can be *)
(* seen is an event; anything else is dropped and renews nothing.          *)
Announce(cache, d) ==
  LET e == cache.entries[d.key]
      entry == [candidate |-> TRUE, seq |-> d.seq, content |-> d.content, left |-> d.ttl]
      replaced == IF e = NoEntry THEN 0 ELSE e.content
      isNew == e = NoEntry \/ ~e.candidate
  IN IF ~Accepts(cache, d) THEN Outcome(cache, << >>)
     ELSE Outcome([cache EXCEPT !.entries[d.key] = entry,
                                !.retained = @ - replaced + d.content],
                  IF isNew THEN <<Appeared(d.key, d.content)>>
                  ELSE IF e.content # d.content THEN <<Updated(d.key, d.content)>>
                  ELSE << >>)

(* Withdraw: a newer withdrawal leaves a tombstone, with or without a      *)
(* candidate to remove.                                                    *)
Withdraw(cache, d) ==
  LET e == cache.entries[d.key]
      removed == IF e # NoEntry /\ e.candidate THEN {d.key} ELSE {}
      taken == IF e = NoEntry THEN EntryCapacity(cache.entries, ScopeOf[d.key])
               ELSE d.seq > e.seq
  IN IF ~taken THEN Outcome(cache, << >>)
     ELSE Outcome([cache EXCEPT !.entries[d.key] = Tombstone(d.seq),
                                !.retained = @ - RetainedBy(cache.entries, removed)],
                  ExpiredAll(removed))

(* Receive: forgotten tombstones go first; a datagram of an unknown scope, *)
(* one a rate limit refuses (admitted is FALSE) or one that does not parse *)
(* changes nothing else.                                                   *)
Receive(cache, d, admitted) ==
  LET fresh == EraseExpiredTombstones(cache)
  IN IF ~admitted \/ ScopeOf[d.key] \notin cache.scopes THEN Outcome(fresh, << >>)
     ELSE IF d.type = "withdraw" THEN Withdraw(fresh, d) ELSE Announce(fresh, d)

(* IsSelf: a looped-back datagram of our own is recognised by its token. *)
IsSelf(cache, scope, token) == cache.tokens[scope] = token

(* Advance and Purge: the leases that ran out. *)
Advance(cache) ==
  LET over == {k \in Candidates(cache.entries) : cache.entries[k].left = 0}
  IN Outcome(EraseExpiredTombstones(Bury(cache, over)), ExpiredAll(over))

(* RemoveAbsentScopes and InstallScopes: every trace of a scope that is    *)
(* gone goes with it, its tombstones included.                             *)
ReplaceScopes(cache, scopes) ==
  LET gone == {k \in Held(cache.entries) : ScopeOf[k] \notin scopes}
      shown == gone \cap Candidates(cache.entries)
  IN Outcome([cache EXCEPT
                !.scopes = scopes,
                !.entries = [k \in Keys |-> IF k \in gone THEN NoEntry ELSE @[k]],
                !.tokens = [s \in Scopes |-> IF s \in scopes THEN @[s] ELSE 0],
                !.retained = @ - RetainedBy(cache.entries, shown)],
             ExpiredAll(shown))

ApplyInterfaceSnapshot(cache, scopes) ==
  ReplaceScopes(EraseExpiredTombstones(cache), scopes)

(* Wake: every candidate is buried, then the absent scopes are removed and *)
(* every local token is forgotten.                                         *)
WakeCache(cache, scopes) ==
  LET fresh == EraseExpiredTombstones(cache)
      shown == Candidates(fresh.entries)
      replaced == ReplaceScopes(Bury(fresh, shown), scopes)
  IN Outcome([replaced.cache EXCEPT !.tokens = [s \in Scopes |-> 0]],
             ExpiredAll(shown) \o replaced.events)

(* NextDeadlineMs: the ticks until the first lease runs out, if one runs. *)
Deadlines(cache) == {cache.entries[k].left : k \in Candidates(cache.entries)}

(* A tick of the steady clock. *)
Elapse(cache) ==
  [cache EXCEPT !.entries =
     [k \in Keys |-> IF @[k] = NoEntry \/ @[k].left = 0 THEN @[k]
                     ELSE [@[k] EXCEPT !.left = @ - 1]]]

(* What a user may see of the cache: the content of each candidate. *)
Visible(cache) ==
  [k \in Keys |-> IF k \in Candidates(cache.entries)
                  THEN cache.entries[k].content ELSE 0]
=============================================================================
