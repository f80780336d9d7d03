--------------------------- MODULE PairingAdmission ---------------------------
(***************************************************************************)
(* The process-wide admission of pairing connections: PairingAdmission-     *)
(* Controller, its leases and the state they share (session/admission.cpp),  *)
(* and the calls the connection runtimes of the process make to it           *)
(* (session/connection_runtime.cpp).  Every runtime is an owner with a        *)
(* pairing window of its own; entries and token buckets are shared.           *)
(*                                                                         *)
(* A lease is named by its lease_generation, which is never reused.  The     *)
(* holder of a lease is a TLS handshake, then the pairing attempt.  A key     *)
(* is a member of Peers; all that admission asks of it is whether it is       *)
(* smaller than the local key.  Time is left out: a window's deadline may     *)
(* pass, and a bucket may gain a token, at any moment.                        *)
(***************************************************************************)
EXTENDS Integers, FiniteSets

CONSTANTS
  Owners,        \* connection runtimes of the process
  Sources,       \* source tokens, one per remote address
  Peers,         \* keys of the devices that connect
  Smaller,       \* the keys smaller than the local key
  None,
  MaxEntries,    \* kMaxIncompletePairingHandshakes
  UserSlots,     \* kReservedUserInitiatedPairingSlots
  PerSource,     \* kMaxIncompletePairingHandshakesPerSource
  GlobalTokens,  \* kGlobalAdmissionBucketCapacity
  SourceTokens,  \* kSourceAdmissionBucketCapacity
  MaxSources,    \* kMaxTrackedSourceBuckets
  MaxLeases,     \* bound: leases handed out
  MaxWindows,    \* bound: windows opened
  MaxRefills     \* bound: refill intervals of a bucket

ASSUME AdmissionAssumption ==
  /\ Smaller \subseteq Peers /\ None \notin Owners \cup Sources \cup Peers
  /\ "all" \notin Sources
  /\ {MaxEntries, UserSlots, PerSource, GlobalTokens, SourceTokens,
      MaxSources, MaxLeases, MaxWindows, MaxRefills} \subseteq Nat
  /\ UserSlots <= MaxEntries

VARIABLES
  holder,    \* of each lease: unused, handshake, attempt, gone
  listed,    \* the entry of the lease is in entries
  bound,     \* Entry::bound
  visible,   \* Entry::visible
  owner,     \* Entry::owner_generation
  source,    \* Entry::source
  user,      \* Entry::user_initiated: this device opened the connection
  peer,      \* Entry::peer_key
  start,     \* the window_generation the handshake started in, 0 for none
  next,      \* next_lease_generation
  enabled,   \* Owner::window_enabled
  past,      \* Owner::window_deadline_ms has passed
  window,    \* Owner::window_generation
  windows,   \* windows opened so far: next_window_generation - 1
  running,   \* the owner is registered
  tokens,    \* global_bucket.tokens
  buckets,   \* source_buckets: tokens, or -1 for a source not tracked
  closed,    \* history: the windows closed by CloseWindow
  granted,   \* history: leases handed out to each source
  refills    \* history: intervals that passed for each source and for "all"

entry == <<listed, bound, visible>>
lease == <<owner, source, user, peer, start, next>>
windowState == <<enabled, past, window, windows, running, closed>>
rates == <<tokens, buckets, granted, refills>>
vars == <<holder, entry, lease, windowState, rates>>

Leases == 1 .. MaxLeases

Init ==
  /\ holder = [l \in Leases |-> "unused"]
  /\ listed = [l \in Leases |-> FALSE]
  /\ bound = [l \in Leases |-> FALSE]
  /\ visible = [l \in Leases |-> FALSE]
  /\ owner = [l \in Leases |-> None]
  /\ source = [l \in Leases |-> None]
  /\ user = [l \in Leases |-> FALSE]
  /\ peer = [l \in Leases |-> None]
  /\ start = [l \in Leases |-> 0]
  /\ next = 1
  /\ enabled = [o \in Owners |-> FALSE]
  /\ past = [o \in Owners |-> FALSE]
  /\ window = [o \in Owners |-> 0]
  /\ windows = 0
  /\ running = [o \in Owners |-> TRUE]
  /\ closed = {}
  /\ tokens = GlobalTokens
  /\ buckets = [s \in Sources |-> -1]
  /\ granted = [s \in Sources |-> 0]
  /\ refills = [s \in Sources \cup {"all"} |-> 0]

Listed == {l \in Leases : listed[l]}

\* window_open and window_generation: 0 unless the window accepts attempts.
WindowOpen(o) == running[o] /\ enabled[o] /\ ~past[o]
WindowGeneration(o) == IF WindowOpen(o) THEN window[o] ELSE 0

\* f, with the value v for the leases of S.
Without(f, S, v) == [l \in Leases |-> IF l \in S THEN v ELSE f[l]]

\* Release, ReleaseOwner and CloseWindow: the entries of S leave the list.
Erase(S) ==
  /\ listed' = Without(listed, S, FALSE)
  /\ bound' = Without(bound, S, FALSE)
  /\ visible' = Without(visible, S, FALSE)

\* The holders of S are gone, and with them all that was known of their leases.
Forget(S) ==
  /\ owner' = Without(owner, S, None)
  /\ source' = Without(source, S, None)
  /\ user' = Without(user, S, FALSE)
  /\ start' = Without(start, S, 0)

------------------------------------------------------------------------------
(* Windows.                                                                  *)

\* OpenWindow: refused while the owner's window is open.
OpenWindow(o) ==
  /\ running[o] /\ ~WindowOpen(o) /\ windows < MaxWindows
  /\ windows' = windows + 1
  /\ window' = [window EXCEPT ![o] = windows + 1]
  /\ enabled' = [enabled EXCEPT ![o] = TRUE]
  /\ past' = [past EXCEPT ![o] = FALSE]
  /\ UNCHANGED <<holder, entry, lease, running, closed, rates>>

\* The deadline of the window passes; nobody is told.
WindowExpires(o) ==
  /\ WindowOpen(o)
  /\ past' = [past EXCEPT ![o] = TRUE]
  /\ UNCHANGED <<holder, entry, lease, enabled, window, windows, running, closed, rates>>

\* The entries that CloseWindow erases.
AdmittedBy(o) == {l \in Listed : owner[l] = o /\ bound[l]}

\* CloseWindow: the owner's attempts lose their entries; they find out at
\* their next CheckDeadline.  Handshakes keep theirs.
CloseWindow(o) ==
  /\ running[o]
  /\ enabled' = [enabled EXCEPT ![o] = FALSE]
  /\ closed' = IF window[o] = 0 THEN closed ELSE closed \cup {window[o]}
  /\ Erase(AdmittedBy(o))
  /\ UNCHANGED <<holder, lease, past, window, windows, running, rates>>

\* ShutdownOwnedState: pairing sockets stop and give their leases back, the
\* window closes and the owner retires with every entry it has.
Shutdown(o) ==
  LET stopped == {l \in Leases : owner[l] = o /\ holder[l] = "attempt"} IN
  /\ running[o]
  /\ holder' = Without(holder, stopped, "gone")
  /\ Forget(stopped) /\ peer' = Without(peer, stopped, None)
  /\ enabled' = [enabled EXCEPT ![o] = FALSE]
  /\ running' = [running EXCEPT ![o] = FALSE]
  /\ closed' = IF window[o] = 0 THEN closed ELSE closed \cup {window[o]}
  /\ Erase({l \in Listed : owner[l] = o})
  /\ UNCHANGED <<next, past, window, windows, rates>>

------------------------------------------------------------------------------
(* Handshakes.                                                               *)

\* A refill interval of the global bucket, or of a source's, passes.
Refill(s) ==
  /\ refills[s] < MaxRefills
  /\ IF s = "all"
     THEN tokens < GlobalTokens /\ tokens' = tokens + 1 /\ UNCHANGED buckets
     ELSE /\ buckets[s] \in 0 .. SourceTokens - 1
          /\ buckets' = [buckets EXCEPT ![s] = @ + 1]
          /\ UNCHANGED tokens
  /\ refills' = [refills EXCEPT ![s] = @ + 1]
  /\ UNCHANGED <<holder, entry, lease, windowState, granted>>

\* The entries counted by ActiveForSource.
ActiveForSource(s) == {l \in Listed : source[l] = s}

\* Mutated: a bucket is forgotten as soon as its source is idle.
ForgetsDebt == [s \in Sources |-> IF ActiveForSource(s) = {} THEN -1 ELSE buckets[s]]

\* PruneSourceBuckets: a full bucket of an idle source is forgotten.
PruneSourceBuckets ==
  [s \in Sources |-> IF buckets[s] = SourceTokens /\ ActiveForSource(s) = {}
                     THEN -1 ELSE buckets[s]]

\* The places ReserveHandshake counts before it looks at the buckets.
HasRoom(u, s) ==
  /\ Cardinality(Listed) < MaxEntries
  /\ u \/ Cardinality({l \in Listed : ~user[l]}) < MaxEntries - UserSlots
  /\ Cardinality(ActiveForSource(s)) < PerSource

\* ReserveHandshake, called for an outgoing connection (u, in the mode
\* established or pairing) by StartClientHandshake, and for an incoming one
\* by DoAccept.  A pairing client notes the generation of the open window.
ReserveHandshake(o, s, u, pairing) ==
  /\ running[o] /\ next \in Leases
  /\ pairing => u /\ WindowGeneration(o) # 0
  /\ LET pruned == PruneSourceBuckets
         tracked == {t \in Sources : pruned[t] # -1}
         left == IF pruned[s] = -1 THEN SourceTokens ELSE pruned[s]
     IN /\ HasRoom(u, s) /\ tokens > 0 /\ left > 0
        /\ s \in tracked \/ Cardinality(tracked) < MaxSources
        /\ buckets' = [pruned EXCEPT ![s] = left - 1]
  /\ tokens' = tokens - 1
  /\ granted' = [granted EXCEPT ![s] = @ + 1]
  /\ holder' = [holder EXCEPT ![next] = "handshake"]
  /\ listed' = [listed EXCEPT ![next] = TRUE]
  /\ owner' = [owner EXCEPT ![next] = o]
  /\ source' = [source EXCEPT ![next] = s]
  /\ user' = [user EXCEPT ![next] = u]
  /\ start' = [start EXCEPT ![next] = IF pairing THEN WindowGeneration(o) ELSE 0]
  /\ next' = next + 1
  /\ UNCHANGED <<bound, visible, peer, windowState, refills>>

\* The TLS server selects the pairing protocol for an incoming connection
\* and notes the window it does so in.
SelectProtocol(l) ==
  /\ holder[l] = "handshake" /\ ~user[l] /\ start[l] = 0
  /\ WindowGeneration(owner[l]) # 0
  /\ start' = [start EXCEPT ![l] = WindowGeneration(owner[l])]
  /\ UNCHANGED <<holder, entry, owner, source, user, peer, next, windowState, rates>>

------------------------------------------------------------------------------
(* Bind, called by BeginPairing once a handshake for pairing has completed.  *)

\* Mutated: any open window will do.
AnyWindow(l) == listed[l] /\ WindowOpen(owner[l]) /\ start[l] # 0

\* The lease is still listed, and the window it started in is still open.
Current(l) ==
  listed[l] /\ start[l] # 0 /\ start[l] = WindowGeneration(owner[l])

\* The entry, if any, that holds the same pair of keys for this owner.
Duplicates(l, p) ==
  {k \in Listed \ {l} : owner[k] = owner[l] /\ bound[k] /\ peer[k] = p}

\* The candidate's initiator is the device with the smaller key.
Canonical(l, p) == user[l] = (p \notin Smaller)

\* The candidate l takes the place of the duplicate k.
Displaces(l, k, p) == ~visible[k] /\ user[k] # user[l] /\ Canonical(l, p)

\* Bind accepts the lease: what it displaces is released, and stopped by
\* BeginPairing in the same handler, which gives the other lease back.
BindAccepts(l, p) ==
  LET displaced == Duplicates(l, p) IN
  /\ holder[l] = "handshake" /\ Current(l)
  /\ \A k \in displaced : Displaces(l, k, p)
  /\ holder' = [Without(holder, displaced, "gone") EXCEPT ![l] = "attempt"]
  /\ listed' = Without(listed, displaced, FALSE)
  /\ bound' = [Without(bound, displaced, FALSE) EXCEPT ![l] = TRUE]
  /\ visible' = Without(visible, displaced, FALSE)
  /\ peer' = [Without(peer, displaced, None) EXCEPT ![l] = p]
  /\ Forget(displaced)
  /\ UNCHANGED <<next, windowState, rates>>

\* ~PairingAdmissionLease.
GiveBack(l) ==
  /\ holder' = [holder EXCEPT ![l] = "gone"]
  /\ Erase({l})
  /\ Forget({l}) /\ peer' = [peer EXCEPT ![l] = None]
  /\ UNCHANGED <<next, windowState, rates>>

\* Bind refuses the lease, which dies with the call.
BindRefuses(l, p) ==
  /\ holder[l] = "handshake"
  /\ ~Current(l) \/ \E k \in Duplicates(l, p) : ~Displaces(l, k, p)
  /\ GiveBack(l)

------------------------------------------------------------------------------
(* Attempts.                                                                 *)

\* No attempt of this owner is displayed (kMaxVisiblePairingAttempts is 1).
NobodyShown(l) == \A k \in Listed : owner[k] = owner[l] => ~visible[k]

\* MarkVisible, called when the attempt is ready to display its string.
MarkVisible(l) ==
  /\ holder[l] = "attempt" /\ listed[l] /\ bound[l] /\ ~visible[l] /\ NobodyShown(l)
  /\ visible' = [visible EXCEPT ![l] = TRUE]
  /\ UNCHANGED <<holder, listed, bound, lease, windowState, rates>>

\* The handshake or the attempt ends, whatever the reason, or MarkVisible
\* answered kBusy.
End(l) == holder[l] \in {"handshake", "attempt"} /\ GiveBack(l)

Next ==
  \/ \E o \in Owners : OpenWindow(o) \/ WindowExpires(o) \/ CloseWindow(o) \/ Shutdown(o)
  \/ \E s \in Sources \cup {"all"} : Refill(s)
  \/ \E o \in Owners, s \in Sources, u, pairing \in BOOLEAN : ReserveHandshake(o, s, u, pairing)
  \/ \E l \in Leases : SelectProtocol(l) \/ MarkVisible(l) \/ End(l)
  \/ \E l \in Leases, p \in Peers : BindAccepts(l, p) \/ BindRefuses(l, p)

Spec == Init /\ [][Next]_vars

------------------------------------------------------------------------------
(* Properties.                                                               *)

\* The types of the variables; an entry's fields are meaningful only while
\* the entry is listed (admission.cpp, Entry and Owner).
TypeOK ==
  /\ holder \in [Leases -> {"unused", "handshake", "attempt", "gone"}]
  /\ listed \in [Leases -> BOOLEAN] /\ bound \in [Leases -> BOOLEAN]
  /\ visible \in [Leases -> BOOLEAN] /\ user \in [Leases -> BOOLEAN]
  /\ owner \in [Leases -> Owners \cup {None}]
  /\ source \in [Leases -> Sources \cup {None}]
  /\ peer \in [Leases -> Peers \cup {None}]
  /\ start \in [Leases -> 0 .. MaxWindows]
  /\ next \in 1 .. MaxLeases + 1
  /\ enabled \in [Owners -> BOOLEAN] /\ past \in [Owners -> BOOLEAN]
  /\ running \in [Owners -> BOOLEAN]
  /\ window \in [Owners -> 0 .. windows] /\ windows \in 0 .. MaxWindows
  /\ closed \subseteq 1 .. windows
  /\ tokens \in 0 .. GlobalTokens
  /\ buckets \in [Sources -> -1 .. SourceTokens]
  /\ granted \in [Sources -> Nat]
  /\ refills \in [Sources \cup {"all"} -> 0 .. MaxRefills]

\* Every entry belongs to a live handshake or attempt, and a bound entry to
\* an attempt: however a connection ends - refused, displaced, its window
\* closed, its runtime stopped - no place stays taken (~PairingAdmissionLease).
EntriesHaveHolders ==
  \A l \in Leases :
    /\ listed[l] => holder[l] \in {"handshake", "attempt"}
    /\ bound[l] => listed[l] /\ holder[l] = "attempt"
    /\ visible[l] => bound[l]

\* Incoming connections never take the place kept for the user of this
\* device, no source has more than its share, and the total is bounded,
\* over any order of reservations, ends and displacements.
LimitsKept ==
  /\ Cardinality(Listed) <= MaxEntries
  /\ Cardinality({l \in Listed : ~user[l]}) <= MaxEntries - UserSlots
  /\ \A s \in Sources : Cardinality({l \in Listed : source[l] = s}) <= PerSource

\* A source never gets more handshakes than its bucket holds plus the refill
\* intervals that passed, although buckets are forgotten and made anew.
RateKept == \A s \in Sources : granted[s] <= SourceTokens + refills[s]

\* A runtime has at most one attempt per peer, also when both devices connect
\* to each other at once (Bind).
OneAttemptPerPeer ==
  \A l, k \in Leases :
    bound[l] /\ bound[k] /\ owner[l] = owner[k] /\ peer[l] = peer[k] => l = k

\* A runtime displays at most one attempt (MarkVisible).
OneAttemptShown ==
  \A l, k \in Leases : visible[l] /\ visible[k] /\ owner[l] = owner[k] => l = k

\* An attempt was admitted in the window its handshake started in, and no
\* attempt outlives the closing of that window: a handshake that was under
\* way when the user closed the window does not get into the next one.
AdmittedInItsWindow ==
  \A l \in Leases : bound[l] => start[l] # 0 /\ start[l] \notin closed

\* The runtimes of a process do not end each other's attempts: an entry goes
\* when its holder is through with it or its own runtime's window is closed.
RuntimesApart ==
  [][\A l \in Leases :
       listed[l] /\ ~listed'[l] => holder'[l] = "gone" \/ ~enabled'[owner[l]]]_vars

\* A displayed attempt is never displaced: while another connection is
\* admitted it keeps its entry (Bind).
ShownIsFrozen ==
  [][\A l, k \in Leases : ~bound[l] /\ bound'[l] /\ visible[k] => visible'[k]]_vars

==============================================================================
