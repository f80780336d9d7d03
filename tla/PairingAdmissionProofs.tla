------------------------ MODULE PairingAdmissionProofs ------------------------
(***************************************************************************)
(* The invariants of PairingAdmission for any number of runtimes, sources,  *)
(* peers, leases and windows, and any limits.                               *)
(*                                                                         *)
(* Leases only move forward (Fresh), windows are numbered apart (Windows),   *)
(* and a source's bucket together with what it was granted never exceeds     *)
(* its capacity and refills (Debts); with the properties themselves these    *)
(* are inductive.  The limits on the number of entries follow from how each   *)
(* action changes the set of listed entries.                                 *)
(***************************************************************************)
EXTENDS PairingAdmission, FiniteSetTheorems, TLAPS

\* No lease that was not handed out yet has a holder.
Fresh == \A l \in Leases : l >= next => holder[l] = "unused"

\* An open window was not closed; no two runtimes share a window, and no
\* handshake started in the window of another runtime.
Windows ==
  /\ \A o \in Owners : enabled[o] /\ running[o] => window[o] \notin closed
  /\ \A o, q \in Owners : window[o] = window[q] /\ window[o] # 0 => o = q
  /\ \A l \in Leases, o \in Owners : start[l] # 0 /\ start[l] = window[o] => owner[l] = o
  /\ \A l \in Leases : start[l] <= windows

\* What a source was granted and has left is covered by its bucket.
Debts ==
  \A s \in Sources :
    IF buckets[s] = -1 THEN granted[s] <= refills[s]
    ELSE granted[s] + buckets[s] <= SourceTokens + refills[s]

\* An entry is listed with its runtime and its source.
Owned ==
  \A l \in Leases :
    holder[l] \in {"handshake", "attempt"} => owner[l] \in Owners /\ source[l] \in Sources

Inv ==
  /\ TypeOK /\ Fresh /\ Owned /\ Windows /\ Debts
  /\ EntriesHaveHolders /\ OneAttemptPerPeer /\ OneAttemptShown /\ AdmittedInItsWindow

------------------------------------------------------------------------------
(* Initial states.                                                           *)

\* The process starts with no entry and no window (PairingAdmissionState).
LEMMA InitInv == Init => Inv
<1> SUFFICES ASSUME Init PROVE Inv
  OBVIOUS
<1>1. TypeOK
  BY AdmissionAssumption DEF Init, TypeOK, Leases
<1>2. Fresh /\ Owned /\ EntriesHaveHolders /\ OneAttemptPerPeer /\ OneAttemptShown
      /\ AdmittedInItsWindow
  BY DEF Init, Fresh, Owned, EntriesHaveHolders, OneAttemptPerPeer, OneAttemptShown,
         AdmittedInItsWindow
<1>3. Windows /\ Debts
  BY AdmissionAssumption DEF Init, Windows, Debts
<1> QED
  BY <1>1, <1>2, <1>3 DEF Inv

------------------------------------------------------------------------------
(* Windows.                                                                  *)

\* OpenWindow gives the runtime a window with a new number.
LEMMA OpenWindowInv ==
  ASSUME Inv, NEW o \in Owners, OpenWindow(o) PROVE Inv'
<1> USE DEF OpenWindow, entry, lease, rates
<1>1. TypeOK'
  BY AdmissionAssumption DEF Inv, TypeOK
<1>2. Windows'
  BY AdmissionAssumption DEF Inv, TypeOK, Windows
<1>3. AdmittedInItsWindow' /\ EntriesHaveHolders' /\ OneAttemptPerPeer' /\ OneAttemptShown'
  BY DEF Inv, AdmittedInItsWindow, EntriesHaveHolders, OneAttemptPerPeer, OneAttemptShown
<1>4. Fresh' /\ Owned' /\ Debts'
  BY DEF Inv, Fresh, Owned, Debts
<1> QED
  BY <1>1, <1>2, <1>3, <1>4 DEF Inv

\* Nothing but the flag changes when a window expires.
LEMMA WindowExpiresInv ==
  ASSUME Inv, NEW o \in Owners, WindowExpires(o) PROVE Inv'
<1> USE DEF WindowExpires, entry, lease, rates
<1>1. TypeOK'
  BY DEF Inv, TypeOK
<1>2. Windows' /\ AdmittedInItsWindow' /\ EntriesHaveHolders' /\ OneAttemptPerPeer'
      /\ OneAttemptShown' /\ Fresh' /\ Owned' /\ Debts'
  BY DEF Inv, Windows, AdmittedInItsWindow, EntriesHaveHolders, OneAttemptPerPeer,
         OneAttemptShown, Fresh, Owned, Debts
<1> QED
  BY <1>1, <1>2 DEF Inv

\* The windows closed so far are windows that were opened.
LEMMA ClosedWindows ==
  ASSUME NEW n \in Nat, NEW w \in 0 .. n, NEW c \in SUBSET (1 .. n)
  PROVE  (IF w = 0 THEN c ELSE c \cup {w}) \subseteq 1 .. n
OBVIOUS

\* CloseWindow erases the runtime's attempts together with its window.
LEMMA CloseWindowInv ==
  ASSUME Inv, NEW o \in Owners, CloseWindow(o) PROVE Inv'
<1> USE DEF CloseWindow, Erase, Without, AdmittedBy, Listed, lease, rates
<1>1. TypeOK'
  <2>1. closed' \subseteq 1 .. windows'
    <3>1. /\ windows \in Nat /\ window[o] \in 0 .. windows /\ windows' = windows
          /\ closed \in SUBSET (1 .. windows)
          /\ closed' = IF window[o] = 0 THEN closed ELSE closed \cup {window[o]}
      BY AdmissionAssumption DEF Inv, TypeOK
    <3> QED
      BY ONLY <3>1, ClosedWindows
  <2>2. /\ listed' \in [Leases -> BOOLEAN] /\ bound' \in [Leases -> BOOLEAN]
        /\ visible' \in [Leases -> BOOLEAN]
    BY DEF Inv, TypeOK
  <2> QED
    BY <2>1, <2>2 DEF Inv, TypeOK
<1>2. Windows'
  BY DEF Inv, TypeOK, Windows
<1>3. EntriesHaveHolders' /\ OneAttemptPerPeer' /\ OneAttemptShown'
  BY DEF Inv, TypeOK, EntriesHaveHolders, OneAttemptPerPeer, OneAttemptShown
<1>4. AdmittedInItsWindow'
  BY DEF Inv, TypeOK, AdmittedInItsWindow, EntriesHaveHolders, Windows
<1>5. Fresh' /\ Owned' /\ Debts'
  BY DEF Inv, Fresh, Owned, Debts
<1> QED
  BY <1>1, <1>2, <1>3, <1>4, <1>5 DEF Inv

\* ShutdownOwnedState ends every entry of the runtime.
LEMMA ShutdownInv ==
  ASSUME Inv, NEW o \in Owners, Shutdown(o) PROVE Inv'
<1> USE DEF Shutdown, Erase, Forget, Without, Listed, rates
<1>1. TypeOK'
  <2>1. closed' \subseteq 1 .. windows'
    <3>1. /\ windows \in Nat /\ window[o] \in 0 .. windows /\ windows' = windows
          /\ closed \in SUBSET (1 .. windows)
          /\ closed' = IF window[o] = 0 THEN closed ELSE closed \cup {window[o]}
      BY AdmissionAssumption DEF Inv, TypeOK
    <3> QED
      BY ONLY <3>1, ClosedWindows
  <2>2. /\ listed' \in [Leases -> BOOLEAN] /\ bound' \in [Leases -> BOOLEAN]
        /\ visible' \in [Leases -> BOOLEAN]
    BY DEF Inv, TypeOK
  <2>3. /\ holder' \in [Leases -> {"unused", "handshake", "attempt", "gone"}]
        /\ owner' \in [Leases -> Owners \cup {None}]
        /\ source' \in [Leases -> Sources \cup {None}]
        /\ peer' \in [Leases -> Peers \cup {None}]
    BY DEF Inv, TypeOK
  <2>4. user' \in [Leases -> BOOLEAN]
    BY DEF Inv, TypeOK
  <2>5. start' \in [Leases -> 0 .. MaxWindows]
    BY AdmissionAssumption DEF Inv, TypeOK
  <2> QED
    BY <2>1, <2>2, <2>3, <2>4, <2>5 DEF Inv, TypeOK
<1>2. Windows'
  BY DEF Inv, TypeOK, Windows
<1>3. EntriesHaveHolders'
  BY DEF Inv, TypeOK, EntriesHaveHolders
<1>4. OneAttemptPerPeer' /\ OneAttemptShown'
  BY DEF Inv, TypeOK, EntriesHaveHolders, OneAttemptPerPeer, OneAttemptShown
<1>5. AdmittedInItsWindow'
  BY DEF Inv, TypeOK, AdmittedInItsWindow, EntriesHaveHolders, Windows
<1>6. Fresh' /\ Owned' /\ Debts'
  BY DEF Inv, TypeOK, Fresh, Owned, Debts
<1> QED
  BY <1>1, <1>2, <1>3, <1>4, <1>5, <1>6 DEF Inv

------------------------------------------------------------------------------
(* Handshakes.                                                               *)

\* A refill interval adds a token and is counted.
LEMMA RefillInv ==
  ASSUME Inv, NEW s \in Sources \cup {"all"}, Refill(s) PROVE Inv'
<1> USE DEF Refill, entry, lease, windowState
<1>1. TypeOK'
  BY AdmissionAssumption DEF Inv, TypeOK
<1>2. Debts'
  BY AdmissionAssumption DEF Inv, TypeOK, Debts
<1>3. Windows' /\ AdmittedInItsWindow' /\ EntriesHaveHolders' /\ OneAttemptPerPeer'
      /\ OneAttemptShown' /\ Fresh' /\ Owned'
  BY DEF Inv, Windows, AdmittedInItsWindow, EntriesHaveHolders, OneAttemptPerPeer,
         OneAttemptShown, Fresh, Owned
<1> QED
  BY <1>1, <1>2, <1>3 DEF Inv

\* ReserveHandshake hands out the next lease and takes a token of the source.
LEMMA ReserveInv ==
  ASSUME Inv, NEW o \in Owners, NEW s \in Sources, NEW u \in BOOLEAN, NEW pairing \in BOOLEAN,
         ReserveHandshake(o, s, u, pairing)
  PROVE  Inv'
<1> USE DEF ReserveHandshake, windowState
<1>1. TypeOK' /\ Debts'
  <2>0. PruneSourceBuckets \in [Sources -> -1 .. SourceTokens]
    BY SMTT(30), AdmissionAssumption DEF Inv, TypeOK, PruneSourceBuckets
  <2>1. PICK left \in 1 .. SourceTokens :
          /\ left = IF PruneSourceBuckets[s] = -1 THEN SourceTokens ELSE PruneSourceBuckets[s]
          /\ buckets' = [PruneSourceBuckets EXCEPT ![s] = left - 1]
    <3> DEFINE left == IF PruneSourceBuckets[s] = -1 THEN SourceTokens ELSE PruneSourceBuckets[s]
    <3>1. left > 0 /\ buckets' = [PruneSourceBuckets EXCEPT ![s] = left - 1]
      OBVIOUS
    <3>2. left \in 1 .. SourceTokens
      BY <2>0, <3>1, AdmissionAssumption
    <3> QED
      BY <3>1, <3>2
  <2>2. buckets' \in [Sources -> -1 .. SourceTokens]
    BY SMTT(30), <2>1, AdmissionAssumption DEF Inv, TypeOK, PruneSourceBuckets
  <2>3. Debts'
    BY SMTT(30), <2>1, AdmissionAssumption DEF Inv, TypeOK, Debts, PruneSourceBuckets
  <2>4. start' \in [Leases -> 0 .. MaxWindows]
    BY SMTT(30), AdmissionAssumption DEF Inv, TypeOK, WindowGeneration
  <2>5. next' \in 1 .. MaxLeases + 1 /\ tokens' \in 0 .. GlobalTokens
    <3>1. next \in Leases /\ next' = next + 1 /\ tokens > 0 /\ tokens' = tokens - 1
      OBVIOUS
    <3>2. tokens \in 0 .. GlobalTokens /\ MaxLeases \in Nat /\ GlobalTokens \in Nat
      BY AdmissionAssumption DEF Inv, TypeOK
    <3> QED
      BY ONLY <3>1, <3>2 DEF Leases
  <2>6. granted' \in [Sources -> Nat]
    BY DEF Inv, TypeOK
  <2> QED
    BY <2>2, <2>3, <2>4, <2>5, <2>6 DEF Inv, TypeOK
<1>2. ~bound[next] /\ ~visible[next]
  BY DEF Inv, Fresh, EntriesHaveHolders, TypeOK, Leases
<1>3. Windows'
  BY SMTT(30), AdmissionAssumption DEF Inv, TypeOK, Windows, WindowGeneration
<1>4. EntriesHaveHolders' /\ OneAttemptPerPeer' /\ OneAttemptShown' /\ AdmittedInItsWindow'
  BY SMTT(30), <1>2 DEF Inv, TypeOK, EntriesHaveHolders, OneAttemptPerPeer, OneAttemptShown,
         AdmittedInItsWindow
<1>5. Fresh' /\ Owned'
  BY DEF Inv, TypeOK, Fresh, Owned, Leases
<1> QED
  BY <1>1, <1>3, <1>4, <1>5 DEF Inv

\* The server notes the open window of its own runtime.
LEMMA SelectProtocolInv ==
  ASSUME Inv, NEW l \in Leases, SelectProtocol(l) PROVE Inv'
<1> USE DEF SelectProtocol, entry, windowState, rates
<1>1. owner[l] \in Owners /\ ~bound[l] /\ WindowGeneration(owner[l]) \in 1 .. windows
  BY AdmissionAssumption DEF Inv, TypeOK, Owned, EntriesHaveHolders, WindowGeneration
<1>2. TypeOK'
  BY <1>1, AdmissionAssumption DEF Inv, TypeOK
<1>3. Windows'
  BY SMTT(30), <1>1, AdmissionAssumption DEF Inv, TypeOK, Windows, WindowGeneration
<1>4. AdmittedInItsWindow'
  BY <1>1 DEF Inv, TypeOK, AdmittedInItsWindow
<1>5. EntriesHaveHolders' /\ OneAttemptPerPeer' /\ OneAttemptShown' /\ Fresh' /\ Owned' /\ Debts'
  BY DEF Inv, EntriesHaveHolders, OneAttemptPerPeer, OneAttemptShown, Fresh, Owned, Debts
<1> QED
  BY <1>2, <1>3, <1>4, <1>5 DEF Inv

------------------------------------------------------------------------------
(* Bind, MarkVisible and the end of a lease.                                 *)

\* An accepted lease is bound in its window, in the place of its duplicate.
LEMMA BindAcceptsInv ==
  ASSUME Inv, NEW l \in Leases, NEW p \in Peers, BindAccepts(l, p) PROVE Inv'
<1> DEFINE D == Duplicates(l, p)
<1> USE DEF BindAccepts, Forget, Without, windowState, rates
<1>1. D \subseteq Leases /\ l \notin D
  BY DEF Duplicates, Listed
<1>2. TypeOK'
  <2>1. /\ holder' \in [Leases -> {"unused", "handshake", "attempt", "gone"}]
        /\ owner' \in [Leases -> Owners \cup {None}]
        /\ source' \in [Leases -> Sources \cup {None}]
        /\ peer' \in [Leases -> Peers \cup {None}]
    BY DEF Inv, TypeOK
  <2>2. listed' \in [Leases -> BOOLEAN] /\ bound' \in [Leases -> BOOLEAN]
    BY DEF Inv, TypeOK
  <2>3. visible' \in [Leases -> BOOLEAN] /\ user' \in [Leases -> BOOLEAN]
    BY DEF Inv, TypeOK
  <2>4. start' \in [Leases -> 0 .. MaxWindows]
    BY SMTT(30), AdmissionAssumption DEF Inv, TypeOK
  <2> QED
    BY <2>1, <2>2, <2>3, <2>4 DEF Inv, TypeOK
<1>3. Fresh' /\ Owned' /\ Debts'
  BY <1>1 DEF Inv, TypeOK, Fresh, Owned, Debts, Duplicates, Listed, EntriesHaveHolders
<1>4. Windows'
  BY SMTT(30), <1>1, AdmissionAssumption DEF Inv, TypeOK, Windows
<1>5. EntriesHaveHolders'
  BY <1>1 DEF Inv, TypeOK, EntriesHaveHolders, Current
<1>6. OneAttemptPerPeer' /\ OneAttemptShown'
  BY <1>1 DEF Inv, TypeOK, EntriesHaveHolders, OneAttemptPerPeer, OneAttemptShown,
              Duplicates, Listed
<1>7. AdmittedInItsWindow'
  <2>1. start[l] # 0 /\ start[l] \notin closed
    BY DEF Inv, Current, Windows, WindowGeneration, WindowOpen, Owned
  <2> QED
    BY <1>1, <2>1 DEF Inv, TypeOK, AdmittedInItsWindow
<1> QED
  BY <1>2, <1>3, <1>4, <1>5, <1>6, <1>7 DEF Inv

\* A lease that is given back takes its entry along.
LEMMA GiveBackInv ==
  ASSUME Inv, NEW l \in Leases, holder[l] # "unused", GiveBack(l) PROVE Inv'
<1> USE DEF GiveBack, Erase, Forget, Without, windowState, rates
<1>1. TypeOK'
  <2>1. /\ holder' \in [Leases -> {"unused", "handshake", "attempt", "gone"}]
        /\ owner' \in [Leases -> Owners \cup {None}]
        /\ source' \in [Leases -> Sources \cup {None}]
        /\ peer' \in [Leases -> Peers \cup {None}]
    BY DEF Inv, TypeOK
  <2>2. listed' \in [Leases -> BOOLEAN] /\ bound' \in [Leases -> BOOLEAN]
    BY DEF Inv, TypeOK
  <2>3. visible' \in [Leases -> BOOLEAN] /\ user' \in [Leases -> BOOLEAN]
    BY DEF Inv, TypeOK
  <2>4. start' \in [Leases -> 0 .. MaxWindows]
    BY AdmissionAssumption DEF Inv, TypeOK
  <2> QED
    BY <2>1, <2>2, <2>3, <2>4 DEF Inv, TypeOK
<1>2. Fresh' /\ Owned' /\ Debts'
  BY DEF Inv, TypeOK, Fresh, Owned, Debts
<1>3. Windows'
  BY AdmissionAssumption DEF Inv, TypeOK, Windows
<1>4. EntriesHaveHolders' /\ OneAttemptPerPeer' /\ OneAttemptShown' /\ AdmittedInItsWindow'
  BY DEF Inv, TypeOK, EntriesHaveHolders, OneAttemptPerPeer, OneAttemptShown,
         AdmittedInItsWindow
<1> QED
  BY <1>1, <1>2, <1>3, <1>4 DEF Inv

\* MarkVisible displays an attempt when its runtime displays none.
LEMMA MarkVisibleInv ==
  ASSUME Inv, NEW l \in Leases, MarkVisible(l) PROVE Inv'
<1> USE DEF MarkVisible, lease, windowState, rates
<1>1. TypeOK'
  BY DEF Inv, TypeOK
<1>2. OneAttemptShown' /\ EntriesHaveHolders'
  BY DEF Inv, TypeOK, OneAttemptShown, EntriesHaveHolders, NobodyShown, Listed
<1>3. Fresh' /\ Owned' /\ Debts' /\ Windows' /\ OneAttemptPerPeer' /\ AdmittedInItsWindow'
  BY DEF Inv, Fresh, Owned, Debts, Windows, OneAttemptPerPeer, AdmittedInItsWindow
<1> QED
  BY <1>1, <1>2, <1>3 DEF Inv

------------------------------------------------------------------------------
(* The number of entries.                                                    *)

\* Every set of leases is finite.
LEMMA LeasesFinite ==
  \A S \in SUBSET Leases : IsFiniteSet(S) /\ Cardinality(S) \in Nat
<1>1. IsFiniteSet(Leases)
  BY FS_Interval, AdmissionAssumption DEF Leases
<1> QED
  BY <1>1, FS_Subset, FS_CardinalityType

\* When entries only leave the list, every limit still holds.
LEMMA FewerEntries ==
  ASSUME LimitsKept, Listed' \subseteq Listed,
         \A l \in Listed' : user'[l] = user[l] /\ source'[l] = source[l]
  PROVE  LimitsKept'
<1>1. ASSUME NEW S \in SUBSET Leases, NEW T \in SUBSET S, NEW n \in Int, Cardinality(S) <= n
      PROVE  Cardinality(T) <= n
  BY <1>1, LeasesFinite, FS_Subset
<1>2. Listed \in SUBSET Leases /\ MaxEntries \in Int /\ PerSource \in Int
      /\ MaxEntries - UserSlots \in Int
  BY AdmissionAssumption DEF Listed
<1>3. Cardinality(Listed') <= MaxEntries
  BY <1>1, <1>2 DEF LimitsKept
<1>4. Cardinality({l \in Listed' : ~user'[l]}) <= MaxEntries - UserSlots
  <2>1. {l \in Listed' : ~user'[l]} \in SUBSET {l \in Listed : ~user[l]}
    OBVIOUS
  <2>2. {l \in Listed : ~user[l]} \in SUBSET Leases
    BY <1>2
  <2>3. Cardinality({l \in Listed : ~user[l]}) <= MaxEntries - UserSlots
    BY DEF LimitsKept
  <2> QED
    BY ONLY <1>1, <1>2, <2>1, <2>2, <2>3
<1>5. ASSUME NEW s \in Sources
      PROVE  Cardinality({l \in Listed' : source'[l] = s}) <= PerSource
  <2>1. {l \in Listed' : source'[l] = s} \in SUBSET {l \in Listed : source[l] = s}
    OBVIOUS
  <2>2. {l \in Listed : source[l] = s} \in SUBSET Leases
    BY <1>2
  <2>3. Cardinality({l \in Listed : source[l] = s}) <= PerSource
    BY DEF LimitsKept
  <2> QED
    BY ONLY <1>1, <1>2, <2>1, <2>2, <2>3
<1> QED
  BY <1>3, <1>4, <1>5 DEF LimitsKept

\* ReserveHandshake adds one entry, to sets that had room for it.
LEMMA ReserveLimits ==
  ASSUME Inv, LimitsKept, NEW o \in Owners, NEW s \in Sources, NEW u \in BOOLEAN,
         NEW pairing \in BOOLEAN, ReserveHandshake(o, s, u, pairing)
  PROVE  LimitsKept'
<1>1. ASSUME NEW S \in SUBSET Leases, NEW n \in Int, Cardinality(S) < n
      PROVE  Cardinality(S \cup {next}) <= n
  <2>1. IsFiniteSet(S) /\ Cardinality(S) \in Nat
    BY LeasesFinite
  <2>2. Cardinality(S \cup {next}) = IF next \in S THEN Cardinality(S) ELSE Cardinality(S) + 1
    BY <2>1, FS_AddElement
  <2> QED
    BY <1>1, <2>1, <2>2
<1>2. /\ MaxEntries \in Int /\ PerSource \in Int /\ MaxEntries - UserSlots \in Int
      /\ Listed \in SUBSET Leases /\ next \in Leases /\ next \notin Listed
  <2>1. MaxEntries \in Int /\ PerSource \in Int /\ MaxEntries - UserSlots \in Int
    BY AdmissionAssumption
  <2>2. next \in Leases /\ next >= next
    BY DEF ReserveHandshake, Leases
  <2>3. ~listed[next]
    BY <2>2 DEF Inv, Fresh, EntriesHaveHolders
  <2> QED
    BY <2>1, <2>2, <2>3 DEF Listed
<1>3. HasRoom(u, s)
  BY DEF ReserveHandshake
<1>4. Listed' = Listed \cup {next}
  BY SMTT(30), <1>2 DEF Inv, TypeOK, ReserveHandshake, Listed
<1>5. \A l \in Listed : user'[l] = user[l] /\ source'[l] = source[l]
  BY <1>2 DEF Inv, TypeOK, ReserveHandshake
<1>6. user'[next] = u /\ source'[next] = s
  BY <1>2 DEF Inv, TypeOK, ReserveHandshake
<1>7. Cardinality(Listed') <= MaxEntries
  BY <1>1, <1>2, <1>3, <1>4 DEF HasRoom
<1>8. Cardinality({l \in Listed' : ~user'[l]}) <= MaxEntries - UserSlots
  <2> DEFINE S == {l \in Listed : ~user[l]}
  <2>1. S \in SUBSET Leases
    BY <1>2
  <2>2. CASE u
    <3>1. {l \in Listed' : ~user'[l]} = S
      BY <1>4, <1>5, <1>6, <2>2
    <3> QED
      BY <3>1 DEF LimitsKept
  <2>3. CASE ~u
    <3>1. {l \in Listed' : ~user'[l]} = S \cup {next}
      BY <1>4, <1>5, <1>6, <2>3
    <3>2. Cardinality(S) < MaxEntries - UserSlots
      BY <1>3, <2>3 DEF HasRoom
    <3> QED
      BY <1>1, <1>2, <2>1, <3>1, <3>2
  <2> QED
    BY <2>2, <2>3
<1>9. ASSUME NEW t \in Sources
      PROVE  Cardinality({l \in Listed' : source'[l] = t}) <= PerSource
  <2> DEFINE S == {l \in Listed : source[l] = t}
  <2>1. S \in SUBSET Leases
    BY <1>2
  <2>2. CASE t # s
    <3>1. {l \in Listed' : source'[l] = t} = S
      BY <1>4, <1>5, <1>6, <2>2
    <3> QED
      BY <3>1 DEF LimitsKept
  <2>3. CASE t = s
    <3>1. {l \in Listed' : source'[l] = t} = S \cup {next}
      BY <1>4, <1>5, <1>6, <2>3
    <3>2. Cardinality(S) < PerSource
      BY <1>3, <2>3 DEF HasRoom, ActiveForSource
    <3> QED
      BY <1>1, <1>2, <2>1, <3>1, <3>2
  <2> QED
    BY <2>2, <2>3
<1> QED
  BY <1>7, <1>8, <1>9 DEF LimitsKept

\* Every action but ReserveHandshake leaves the limits kept.
LEMMA OtherLimits ==
  ASSUME Inv, LimitsKept,
         \/ \E o \in Owners : OpenWindow(o) \/ WindowExpires(o) \/ CloseWindow(o) \/ Shutdown(o)
         \/ \E s \in Sources \cup {"all"} : Refill(s)
         \/ \E l \in Leases : SelectProtocol(l) \/ MarkVisible(l) \/ GiveBack(l)
         \/ \E l \in Leases, p \in Peers : BindAccepts(l, p)
  PROVE  LimitsKept'
<1> SUFFICES /\ Listed' \subseteq Listed
             /\ \A l \in Listed' : user'[l] = user[l] /\ source'[l] = source[l]
  BY FewerEntries
<1>1. ASSUME NEW o \in Owners, OpenWindow(o) \/ WindowExpires(o)
      PROVE  listed' = listed /\ user' = user /\ source' = source
  BY <1>1 DEF OpenWindow, WindowExpires, entry, lease
<1>2. ASSUME NEW o \in Owners, CloseWindow(o)
      PROVE  /\ Listed' \subseteq Listed
             /\ \A l \in Listed' : user'[l] = user[l] /\ source'[l] = source[l]
  BY <1>2 DEF CloseWindow, Erase, Without, lease, Listed
<1>3. ASSUME NEW o \in Owners, Shutdown(o)
      PROVE  /\ Listed' \subseteq Listed
             /\ \A l \in Listed' : user'[l] = user[l] /\ source'[l] = source[l]
  BY <1>3 DEF Shutdown, Erase, Forget, Without, Listed
<1>4. ASSUME NEW s \in Sources \cup {"all"}, Refill(s)
      PROVE  listed' = listed /\ user' = user /\ source' = source
  BY <1>4 DEF Refill, entry, lease
<1>5. ASSUME NEW l \in Leases, SelectProtocol(l) \/ MarkVisible(l)
      PROVE  listed' = listed /\ user' = user /\ source' = source
  BY <1>5 DEF SelectProtocol, MarkVisible, entry, lease
<1>6. ASSUME NEW l \in Leases, GiveBack(l)
      PROVE  /\ Listed' \subseteq Listed
             /\ \A k \in Listed' : user'[k] = user[k] /\ source'[k] = source[k]
  BY <1>6 DEF GiveBack, Erase, Forget, Without, Listed
<1>7. ASSUME NEW l \in Leases, NEW p \in Peers, BindAccepts(l, p)
      PROVE  /\ Listed' \subseteq Listed
             /\ \A k \in Listed' : user'[k] = user[k] /\ source'[k] = source[k]
  BY <1>7 DEF BindAccepts, Forget, Without, Listed
<1> QED
  BY <1>1, <1>2, <1>3, <1>4, <1>5, <1>6, <1>7 DEF Listed

------------------------------------------------------------------------------
(* The theorems.                                                             *)

\* The refusal of a lease, and the end of its holder, give it back.
LEMMA GivesBack ==
  ASSUME NEW l \in Leases, End(l) \/ \E p \in Peers : BindRefuses(l, p)
  PROVE  GiveBack(l) /\ holder[l] # "unused"
BY DEF End, BindRefuses

\* Every step keeps the inductive invariant and the limits.
LEMMA StepInv == Inv /\ LimitsKept /\ [Next]_vars => Inv' /\ LimitsKept'
<1> SUFFICES ASSUME Inv, LimitsKept, [Next]_vars PROVE Inv' /\ LimitsKept'
  OBVIOUS
<1>1. CASE UNCHANGED vars
  <2>1. Inv'
    BY <1>1 DEF vars, entry, lease, windowState, rates, Inv, TypeOK, Fresh, Owned, Windows,
       Debts, EntriesHaveHolders, OneAttemptPerPeer, OneAttemptShown, AdmittedInItsWindow
  <2>2. LimitsKept'
    BY <1>1 DEF vars, entry, lease, LimitsKept, Listed
  <2> QED
    BY <2>1, <2>2
<1>2. CASE \E o \in Owners : OpenWindow(o) \/ WindowExpires(o) \/ CloseWindow(o) \/ Shutdown(o)
  BY <1>2, OpenWindowInv, WindowExpiresInv, CloseWindowInv, ShutdownInv, OtherLimits
<1>3. CASE \E s \in Sources \cup {"all"} : Refill(s)
  BY <1>3, RefillInv, OtherLimits
<1>4. CASE \E o \in Owners, s \in Sources, u, pairing \in BOOLEAN :
             ReserveHandshake(o, s, u, pairing)
  BY <1>4, ReserveInv, ReserveLimits
<1>5. CASE \E l \in Leases : SelectProtocol(l) \/ MarkVisible(l)
  BY <1>5, SelectProtocolInv, MarkVisibleInv, OtherLimits
<1>6. CASE \E l \in Leases : End(l) \/ \E p \in Peers : BindRefuses(l, p)
  BY <1>6, GivesBack, GiveBackInv, OtherLimits
<1>7. CASE \E l \in Leases, p \in Peers : BindAccepts(l, p)
  BY <1>7, BindAcceptsInv, OtherLimits
<1> QED
  BY <1>1, <1>2, <1>3, <1>4, <1>5, <1>6, <1>7 DEF Next

\* No entry counts against a limit at the start.
LEMMA InitLimits == Init => LimitsKept
<1> SUFFICES ASSUME Init PROVE LimitsKept
  OBVIOUS
<1>1. Listed = {}
  BY DEF Init, Listed
<1>2. {l \in Listed : ~user[l]} = {} /\ \A s \in Sources : {l \in Listed : source[l] = s} = {}
  BY <1>1
<1> QED
  BY SMTT(30), <1>1, <1>2, FS_EmptySet, AdmissionAssumption DEF LimitsKept

\* The inductive invariant and the limits hold in every state.
THEOREM AdmissionInvariant == Spec => [](Inv /\ LimitsKept)
BY InitInv, InitLimits, StepInv, PTL DEF Spec

\* The controller's state keeps its types, for any limits.
THEOREM AdmissionTypes == Spec => []TypeOK
<1>1. Inv => TypeOK
  BY DEF Inv
<1> QED
  BY <1>1, AdmissionInvariant, PTL

\* Whatever the limits and however many connections come and go, the limits
\* of ReserveHandshake hold of the entries, the reserved place included.
THEOREM LimitsHold == Spec => []LimitsKept
BY AdmissionInvariant, PTL

\* A source gets no more handshakes than its bucket and the time passed allow.
THEOREM RatesHold == Spec => []RateKept
<1>1. Inv => RateKept
  BY AdmissionAssumption DEF Inv, TypeOK, Debts, RateKept
<1> QED
  BY <1>1, AdmissionInvariant, PTL

\* No entry outlives the handshake or attempt that holds its lease.
THEOREM NoEntryLeaks == Spec => []EntriesHaveHolders
<1>1. Inv => EntriesHaveHolders
  BY DEF Inv
<1> QED
  BY <1>1, AdmissionInvariant, PTL

\* Crossed connections leave a runtime one attempt per peer, one displayed.
THEOREM OneAttempt == Spec => [](OneAttemptPerPeer /\ OneAttemptShown)
<1>1. Inv => OneAttemptPerPeer /\ OneAttemptShown
  BY DEF Inv
<1> QED
  BY <1>1, AdmissionInvariant, PTL

\* No attempt is admitted through a window that has been closed.
THEOREM WindowsAreKept == Spec => []AdmittedInItsWindow
<1>1. Inv => AdmittedInItsWindow
  BY DEF Inv
<1> QED
  BY <1>1, AdmissionInvariant, PTL

\* Bind never displaces an attempt that is displayed.
THEOREM ShownAttemptsStay == Spec => ShownIsFrozen
<1>1. Inv /\ [Next]_vars
        => [\A l, k \in Leases : ~bound[l] /\ bound'[l] /\ visible[k] => visible'[k]]_vars
  <2> SUFFICES ASSUME Inv, Next, NEW l \in Leases, NEW k \in Leases,
                      ~bound[l], bound'[l], visible[k]
               PROVE  visible'[k]
    OBVIOUS
  <2>1. ASSUME NEW j \in Leases, NEW p \in Peers, BindAccepts(j, p) PROVE visible'[k]
    BY <2>1 DEF BindAccepts, Without, Displaces
  <2>2. CASE bound' = bound
    BY <2>2
  <2>3. ASSUME NEW S, Erase(S) PROVE FALSE
    BY <2>3 DEF Erase, Without, Inv, TypeOK
  <2>4. \A j \in Leases : ~GiveBack(j)
    BY <2>3 DEF GiveBack
  <2>5. \A o \in Owners : ~CloseWindow(o) /\ ~Shutdown(o)
    BY <2>3 DEF CloseWindow, Shutdown
  <2>6. ASSUME NEW o \in Owners, OpenWindow(o) \/ WindowExpires(o) PROVE bound' = bound
    BY <2>6 DEF OpenWindow, WindowExpires, entry
  <2>7. ASSUME NEW s \in Sources \cup {"all"}, Refill(s) PROVE bound' = bound
    BY <2>7 DEF Refill, entry
  <2>8. ASSUME NEW o \in Owners, NEW s \in Sources, NEW u \in BOOLEAN, NEW pairing \in BOOLEAN,
               ReserveHandshake(o, s, u, pairing) PROVE bound' = bound
    BY <2>8 DEF ReserveHandshake
  <2>9. ASSUME NEW j \in Leases, SelectProtocol(j) \/ MarkVisible(j) PROVE bound' = bound
    BY <2>9 DEF SelectProtocol, MarkVisible, entry
  <2> QED
    BY <2>1, <2>2, <2>4, <2>5, <2>6, <2>7, <2>8, <2>9, GivesBack DEF Next
<1> QED
  BY <1>1, AdmissionInvariant, PTL DEF Spec, ShownIsFrozen

\* A runtime's entries go only with their holders or with its own window.
THEOREM RuntimesStayApart == Spec => RuntimesApart
<1> DEFINE Apart == \A l \in Leases :
      listed[l] /\ ~listed'[l] => holder'[l] = "gone" \/ ~enabled'[owner[l]]
<1>1. Inv /\ [Next]_vars => [Apart]_vars
  <2> SUFFICES ASSUME Inv, Next, NEW l \in Leases, listed[l], ~listed'[l]
               PROVE  holder'[l] = "gone" \/ ~enabled'[owner[l]]
    OBVIOUS
  <2>1. ASSUME NEW j \in Leases, NEW p \in Peers, BindAccepts(j, p)
        PROVE  holder'[l] = "gone"
    BY <2>1 DEF BindAccepts, Without, Duplicates, Listed, Inv, TypeOK
  <2>2. ASSUME NEW j \in Leases, GiveBack(j) PROVE holder'[l] = "gone"
    BY <2>2 DEF GiveBack, Erase, Without, Inv, TypeOK
  <2>3. ASSUME NEW o \in Owners, CloseWindow(o) \/ Shutdown(o) PROVE ~enabled'[owner[l]]
    <3>1. owner[l] = o
      BY <2>3 DEF CloseWindow, Shutdown, Erase, AdmittedBy, Without, Listed
    <3>2. enabled \in [Owners -> BOOLEAN] /\ enabled' = [enabled EXCEPT ![o] = FALSE]
      BY <2>3 DEF CloseWindow, Shutdown, Inv, TypeOK
    <3> QED
      BY <3>1, <3>2
  <2>4. ASSUME NEW o \in Owners, OpenWindow(o) \/ WindowExpires(o) PROVE FALSE
    BY <2>4 DEF OpenWindow, WindowExpires, entry
  <2>5. ASSUME NEW s \in Sources \cup {"all"}, Refill(s) PROVE FALSE
    BY <2>5 DEF Refill, entry
  <2>6. ASSUME NEW o \in Owners, NEW s \in Sources, NEW u \in BOOLEAN, NEW pairing \in BOOLEAN,
               ReserveHandshake(o, s, u, pairing) PROVE FALSE
    BY <2>6 DEF ReserveHandshake, Inv, TypeOK
  <2>7. ASSUME NEW j \in Leases, SelectProtocol(j) \/ MarkVisible(j) PROVE FALSE
    BY <2>7 DEF SelectProtocol, MarkVisible, entry
  <2> QED
    BY <2>1, <2>2, <2>3, <2>4, <2>5, <2>6, <2>7, GivesBack DEF Next
<1> QED
  BY <1>1, AdmissionInvariant, PTL DEF Spec, RuntimesApart

==============================================================================
