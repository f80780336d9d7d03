------------------------ MODULE ReceiveStorageProofs ------------------------
(***************************************************************************)
(* Proofs about ReceiveStorage for any number of processes, files, paths   *)
(* and sizes.  Inv is about the files and their names and does not depend  *)
(* on the temporary budget; Budgeted is about the budget and rests on Inv. *)
(***************************************************************************)
EXTENDS ReceiveStorage, Integers, TLAPS


Directory == [Paths -> Files \cup {NoFile, Foreign}]

Types ==
  /\ lock \in Processes \cup {Nobody}
  /\ state \in [Files -> States]
  /\ owner \in [Files -> Processes \cup {Nobody}]
  /\ held \in [Files -> BOOLEAN]
  /\ received \in [Files -> Nat]
  /\ request \in [Files -> [path : Paths, size : Sizes]]
  /\ busy \in Files \cup {NoFile} /\ at \in Steps /\ failed \in BOOLEAN
  /\ temp \subseteq Files /\ temp_disk \subseteq Files
  /\ dest \in Directory /\ dest_disk \in Directory
  /\ bytes \in [Files -> Nat] /\ bytes_disk \in [Files -> Nat]

Underway == {"Created", "Receiving"}
Publishing == {"sync parent", "unlink temp", "sync temp"}

(* A transaction is open only in the process that holds the lock, and only *)
(* a receiving one is in the middle of system calls.                       *)
Serving ==
  /\ at = "idle" <=> busy = NoFile
  /\ busy # NoFile => state[busy] = "Receiving"
  /\ \A f \in Files : state[f] \in Underway => owner[f] = lock /\ lock # Nobody

(* What the bytes of a file are as the transaction goes on.                *)
Contents ==
  \A f \in Files :
    /\ state[f] \in {"New", "Created"} =>
         received[f] = 0 /\ bytes[f] = 0 /\ bytes_disk[f] = 0
    /\ state[f] = "Receiving" /\ busy # f => bytes[f] = received[f]
    /\ busy = f /\ at \in Publishing \cup {"link"} =>
         bytes[f] = request[f].size /\ bytes_disk[f] = request[f].size

(* Where the name of a file may be.                                        *)
Names ==
  \A f \in Files, path \in Paths : f \in {dest[path], dest_disk[path]} =>
    /\ path = request[f].path
    /\ bytes[f] = request[f].size /\ bytes_disk[f] = request[f].size
    /\ \/ state[f] \in {"Committed", "OutcomeUncertain", "Gone"}
       \/ busy = f /\ at \in Publishing

(* What a synchronised name says of the one a process sees.                *)
Synced ==
  /\ \A path \in Paths : dest_disk[path] # NoFile => dest[path] = dest_disk[path]
  /\ \A f \in Files : state[f] = "Committed" =>
       dest[request[f].path] = f /\ dest_disk[request[f].path] = f
  /\ at \in Publishing => dest[request[busy].path] = busy
  /\ at \in {"unlink temp", "sync temp"} /\ ~failed => dest_disk[request[busy].path] = busy

Inv == Types /\ Serving /\ Contents /\ Names /\ Synced /\ LiveTemporaryKept

-----------------------------------------------------------------------------
(* The invariant holds before any process opened the root.                 *)
LEMMA InitInv == Init => Inv
  <1> SUFFICES ASSUME Init PROVE Inv
    OBVIOUS
  <1> USE DEF Init
  <1>1. Types
    BY Zenon, SizesAssumption DEF Types, Directory, States, Steps
  <1>2. Serving
    BY DEF Serving, Underway
  <1>3. Contents
    BY FilesAssumption DEF Contents, Publishing
  <1>4. Names
    BY FilesAssumption DEF Names
  <1>5. Synced
    BY DEF Synced, Publishing
  <1>6. LiveTemporaryKept
    BY DEF LiveTemporaryKept
  <1> QED
    BY <1>1, <1>2, <1>3, <1>4, <1>5, <1>6 DEF Inv

(* Open keeps the invariant.                                              *)
LEMMA OpenKeeps ==
  ASSUME NEW p \in Processes, Inv, Open(p) PROVE Inv'
  <1> USE SizesAssumption, FilesAssumption, ProcessesAssumption
      DEF Inv, Open, MayOpen, txn, call, budget, temps, dests, data
  <1>1. Types'
    BY Zenon DEF Types, Directory, States, Steps
  <1>2. Serving'
    BY DEF Types, Serving, Underway, Idle
  <1>3. Contents'
    BY Zenon DEF Types, Serving, Underway, Idle, Contents, Publishing
  <1>4. Names'
    BY Zenon DEF Types, Directory, Serving, Underway, Idle, Contents, Names, Publishing
  <1>5. Synced'
    BY Zenon DEF Types, Directory, Serving, Underway, Idle, Names, Synced, Publishing
  <1>6. LiveTemporaryKept'
    BY Zenon DEF Types, Serving, Underway, Idle, LiveTemporaryKept
  <1> QED
    BY <1>1, <1>2, <1>3, <1>4, <1>5, <1>6 DEF Inv

(* Close keeps the invariant.                                             *)
LEMMA CloseKeeps ==
  ASSUME NEW p \in Processes, Inv, Close(p) PROVE Inv'
  <1> USE SizesAssumption, FilesAssumption, ProcessesAssumption
      DEF Inv, Close, txn, call, budget, temps, dests, data
  <1>1. Types'
    BY Zenon DEF Types, Directory, States, Steps
  <1>2. Serving'
    BY DEF Types, Serving, Underway, Idle
  <1>3. Contents'
    BY Zenon DEF Types, Serving, Underway, Idle, Contents, Publishing
  <1>4. Names'
    BY Zenon DEF Types, Directory, Serving, Underway, Idle, Contents, Names, Publishing
  <1>5. Synced'
    BY Zenon DEF Types, Directory, Serving, Underway, Idle, Names, Synced, Publishing
  <1>6. LiveTemporaryKept'
    BY Zenon DEF Types, Serving, Underway, Idle, LiveTemporaryKept
  <1> QED
    BY <1>1, <1>2, <1>3, <1>4, <1>5, <1>6 DEF Inv

(* Kill keeps the invariant.                                              *)
LEMMA KillKeeps ==
  ASSUME NEW p \in Processes, Inv, Kill(p) PROVE Inv'
  <1> USE SizesAssumption, FilesAssumption, ProcessesAssumption
      DEF Inv, Kill, Dies, Returns, txn, call, budget, temps, dests, data
  <1>1. Types'
    BY Zenon DEF Types, Directory, States, Steps
  <1>2. Serving'
    BY DEF Types, Serving, Underway, Idle
  <1>3. Contents'
    BY Zenon DEF Types, Serving, Underway, Idle, Contents, Publishing
  <1>4. Names'
    BY Zenon DEF Types, Directory, Serving, Underway, Idle, Contents, Names, Publishing
  <1>5. Synced'
    BY Zenon DEF Types, Directory, Serving, Underway, Idle, Names, Synced, Publishing
  <1>6. LiveTemporaryKept'
    BY Zenon DEF Types, Serving, Underway, Idle, LiveTemporaryKept
  <1> QED
    BY <1>1, <1>2, <1>3, <1>4, <1>5, <1>6 DEF Inv

(* Reserve keeps the invariant.                                           *)
LEMMA ReserveKeeps ==
  ASSUME NEW p \in Processes, NEW f \in Files, Inv, Reserve(p, f) PROVE Inv'
  <1> USE SizesAssumption, FilesAssumption, ProcessesAssumption
      DEF Inv, Reserve, txn, call, budget, temps, dests, data
  <1>1. Types'
    <2>1. lock' \in Processes \cup {Nobody} /\ temp' \subseteq Files /\ temp_disk' \subseteq Files
      BY Zenon DEF Types
    <2>2. state' \in [Files -> States]
      BY DEF Types, States
    <2>3. owner' \in [Files -> Processes \cup {Nobody}] /\ held' \in [Files -> BOOLEAN]
      BY Zenon DEF Types
    <2>4. received' \in [Files -> Nat] /\ bytes' \in [Files -> Nat] /\ bytes_disk' \in [Files -> Nat]
      BY Zenon DEF Types
    <2>5. request' \in [Files -> [path : Paths, size : Sizes]]
      BY DEF Types
    <2>6. busy' \in Files \cup {NoFile} /\ at' \in Steps /\ failed' \in BOOLEAN
      BY Zenon DEF Types, Steps
    <2>7. dest' \in Directory /\ dest_disk' \in Directory
      BY Zenon DEF Types
    <2> QED
      BY Zenon, <2>1, <2>2, <2>3, <2>4, <2>5, <2>6, <2>7 DEF Types
  <1>2. Serving'
    BY DEF Types, Serving, Underway, Idle
  <1>3. Contents'
    BY Zenon DEF Types, Serving, Underway, Idle, Contents, Publishing
  <1>4. Names'
    BY ZenonT(60) DEF Types, Directory, Serving, Underway, Idle, Contents, Names, Publishing
  <1>5. Synced'
    <2>1. \A path \in Paths : dest_disk'[path] # NoFile => dest'[path] = dest_disk'[path]
      BY Zenon DEF Synced, Types
    <2>2. \A g \in Files : state'[g] = "Committed" =>
            dest'[request'[g].path] = g /\ dest_disk'[request'[g].path] = g
      <3>1. \A g \in Files : state'[g] = "Committed" => state[g] = "Committed"
        BY DEF Types
      <3> QED
        BY Zenon, <3>1 DEF Synced
    <2>3. at' \in Publishing => dest'[request'[busy'].path] = busy'
      BY Zenon DEF Synced, Types, Idle, Publishing
    <2>4. at' \in {"unlink temp", "sync temp"} /\ ~failed' => dest_disk'[request'[busy'].path] = busy'
      BY Zenon DEF Synced, Types, Idle
    <2> QED
      BY Zenon, <2>1, <2>2, <2>3, <2>4 DEF Synced
  <1>6. LiveTemporaryKept'
    BY DEF Types, Serving, Underway, Idle, LiveTemporaryKept
  <1> QED
    BY Zenon, <1>1, <1>2, <1>3, <1>4, <1>5, <1>6 DEF Inv

(* A transaction whose file has no name yet moves on, and no name and no   *)
(* byte changes.                                                           *)
LEMMA NamelessKeepsNames ==
  ASSUME Inv, NEW f \in Files, state[f] \in Underway, busy = f => at \notin Publishing,
         state'[f] # "Committed", \A g \in Files : g = f \/ state'[g] = state[g],
         UNCHANGED <<request, dests, data>>,
         UNCHANGED <<busy, at, failed>> \/ (busy = f /\ at' = "idle")
  PROVE  Names' /\ Synced'
  <1>1. /\ request' = request /\ dest' = dest /\ dest_disk' = dest_disk
        /\ bytes' = bytes /\ bytes_disk' = bytes_disk
    BY Zenon DEF dests, data
  <1>2. Names'
    <2> SUFFICES ASSUME NEW g \in Files, NEW path \in Paths, g \in {dest'[path], dest_disk'[path]}
                 PROVE  /\ path = request'[g].path
                        /\ bytes'[g] = request'[g].size /\ bytes_disk'[g] = request'[g].size
                        /\ \/ state'[g] \in {"Committed", "OutcomeUncertain", "Gone"}
                           \/ busy' = g /\ at' \in Publishing
      BY Zenon DEF Names
    <2>0. g \in {dest[path], dest_disk[path]}
      BY Zenon, <1>1
    <2>1. /\ path = request[g].path
          /\ bytes[g] = request[g].size /\ bytes_disk[g] = request[g].size
          /\ \/ state[g] \in {"Committed", "OutcomeUncertain", "Gone"}
             \/ busy = g /\ at \in Publishing
      BY Zenon, <2>0 DEF Inv, Names
    <2>2. g # f
      BY Zenon, <2>1 DEF Underway
    <2> QED
      BY Zenon, <1>1, <2>1, <2>2
  <1>3. at' \in Publishing => UNCHANGED <<busy, at, failed>>
    BY Zenon DEF Publishing
  <1>4. at' \in {"unlink temp", "sync temp"} => at' \in Publishing
    BY Zenon DEF Publishing
  <1>5. \A g \in Files : state'[g] = "Committed" => state[g] = "Committed"
    BY Zenon
  <1>6. Synced'
    BY Zenon, <1>1, <1>3, <1>4, <1>5 DEF Inv, Synced
  <1> QED
    BY Zenon, <1>2, <1>6

(* Create keeps the invariant.                                            *)
LEMMA CreateKeeps ==
  ASSUME NEW f \in Files, Inv, Create(f) PROVE Inv'
  <1> USE SizesAssumption, FilesAssumption, ProcessesAssumption
      DEF Inv, Create, Becomes, txn, call, budget, temps, dests, data
  <1>1. Types'
    <2>1. lock' \in Processes \cup {Nobody} /\ temp' \subseteq Files /\ temp_disk' \subseteq Files
      BY DEF Types
    <2>2. state' \in [Files -> States]
      BY Zenon DEF Types, States
    <2>3. owner' \in [Files -> Processes \cup {Nobody}] /\ held' \in [Files -> BOOLEAN]
      BY Zenon DEF Types
    <2>4. received' \in [Files -> Nat] /\ bytes' \in [Files -> Nat] /\ bytes_disk' \in [Files -> Nat]
      BY Zenon DEF Types
    <2>5. request' \in [Files -> [path : Paths, size : Sizes]]
      BY DEF Types
    <2>6. busy' \in Files \cup {NoFile} /\ at' \in Steps /\ failed' \in BOOLEAN
      BY Zenon DEF Types, Steps
    <2>7. dest' \in Directory /\ dest_disk' \in Directory
      BY Zenon DEF Types
    <2> QED
      BY Zenon, <2>1, <2>2, <2>3, <2>4, <2>5, <2>6, <2>7 DEF Types
  <1>2. Serving'
    BY Zenon DEF Types, Serving, Underway, Idle
  <1>3. Contents'
    BY Zenon DEF Types, Serving, Underway, Idle, Contents, Publishing
  <1>4. Names' /\ Synced'
    <2>1. (\A g \in Files : g = f \/ state'[g] = state[g]) /\ state'[f] \in {"Receiving", "Aborted"}
      BY Zenon DEF Types
    <2>2. state[f] \in Underway /\ busy # f
      BY Zenon DEF Underway, Idle
    <2>3. UNCHANGED <<request, dests, data>> /\ UNCHANGED <<busy, at, failed>>
      BY Zenon
    <2> QED
      BY Zenon, <2>1, <2>2, <2>3, NamelessKeepsNames
  <1>6. LiveTemporaryKept'
    BY DEF Types, Serving, Underway, Idle, LiveTemporaryKept
  <1> QED
    BY Zenon, <1>1, <1>2, <1>3, <1>4, <1>6 DEF Inv

(* Abort keeps the invariant.                                             *)
LEMMA AbortKeeps ==
  ASSUME NEW f \in Files, Inv, Abort(f) PROVE Inv'
  <1> USE SizesAssumption, FilesAssumption, ProcessesAssumption
      DEF Inv, Abort, StartCleanup, Becomes, txn, call, budget, temps, dests, data
  <1>1. Types'
    <2>1. lock' \in Processes \cup {Nobody} /\ temp' \subseteq Files /\ temp_disk' \subseteq Files
      BY Zenon DEF Types
    <2>2. state' \in [Files -> States]
      BY DEF Types, States
    <2>3. owner' \in [Files -> Processes \cup {Nobody}] /\ held' \in [Files -> BOOLEAN]
      BY Zenon DEF Types
    <2>4. received' \in [Files -> Nat] /\ bytes' \in [Files -> Nat] /\ bytes_disk' \in [Files -> Nat]
      BY DEF Types
    <2>5. request' \in [Files -> [path : Paths, size : Sizes]]
      BY DEF Types
    <2>6. busy' \in Files \cup {NoFile} /\ at' \in Steps /\ failed' \in BOOLEAN
      BY Zenon DEF Types, Steps
    <2>7. dest' \in Directory /\ dest_disk' \in Directory
      BY Zenon DEF Types
    <2> QED
      BY Zenon, <2>1, <2>2, <2>3, <2>4, <2>5, <2>6, <2>7 DEF Types
  <1>2. Serving'
    BY DEF Types, Serving, Underway, Idle
  <1>3. Contents'
    BY ZenonT(60) DEF Types, Serving, Underway, Idle, Contents, Publishing
  <1>4. Names'
    <2> SUFFICES ASSUME NEW g \in Files, NEW path \in Paths, g \in {dest'[path], dest_disk'[path]}
               PROVE  /\ path = request'[g].path
                      /\ bytes'[g] = request'[g].size /\ bytes_disk'[g] = request'[g].size
                      /\ \/ state'[g] \in {"Committed", "OutcomeUncertain", "Gone"}
                         \/ busy' = g /\ at' \in Publishing
      BY Zenon DEF Names
    <2>1. /\ path = request[g].path
          /\ bytes[g] = request[g].size /\ bytes_disk[g] = request[g].size
          /\ \/ state[g] \in {"Committed", "OutcomeUncertain", "Gone"}
             \/ busy = g /\ at \in Publishing
      BY Zenon DEF Names
    <2>2. state[g] # "New" \/ busy = g
      BY Zenon, <2>1
    <2>3. state'[g] = state[g]
      BY <2>2 DEF Types, Serving
    <2>4. busy = g => UNCHANGED call
      BY Zenon DEF Idle
    <2> QED
      BY Zenon, <2>1, <2>3, <2>4 DEF Publishing
  <1>5. Synced'
    <2>1. \A path \in Paths : dest_disk'[path] # NoFile => dest'[path] = dest_disk'[path]
      BY Zenon DEF Synced, Types
    <2>2. \A g \in Files : state'[g] = "Committed" =>
            dest'[request'[g].path] = g /\ dest_disk'[request'[g].path] = g
      <3>1. \A g \in Files : state'[g] = "Committed" => state[g] = "Committed"
        BY DEF Types
      <3> QED
        BY Zenon, <3>1 DEF Synced
    <2>3. at' \in Publishing => dest'[request'[busy'].path] = busy'
      BY Zenon DEF Synced, Types, Idle, Publishing
    <2>4. at' \in {"unlink temp", "sync temp"} /\ ~failed' => dest_disk'[request'[busy'].path] = busy'
      BY Zenon DEF Synced, Types, Idle
    <2> QED
      BY Zenon, <2>1, <2>2, <2>3, <2>4 DEF Synced
  <1>6. LiveTemporaryKept'
    BY Zenon DEF Types, Serving, Underway, Idle, LiveTemporaryKept
  <1> QED
    BY Zenon, <1>1, <1>2, <1>3, <1>4, <1>5, <1>6 DEF Inv

(* Seal keeps the invariant.                                              *)
LEMMA SealKeeps ==
  ASSUME NEW f \in Files, Inv, Seal(f) PROVE Inv'
  <1> USE SizesAssumption, FilesAssumption, ProcessesAssumption
      DEF Inv, Seal, StartCleanup, FlushFirst, txn, call, budget, temps, dests, data
  <1>1. Types'
    <2>1. lock' \in Processes \cup {Nobody} /\ temp' \subseteq Files /\ temp_disk' \subseteq Files
      BY DEF Types
    <2>2. state' \in [Files -> States]
      BY DEF Types, States
    <2>3. owner' \in [Files -> Processes \cup {Nobody}] /\ held' \in [Files -> BOOLEAN]
      BY DEF Types
    <2>4. received' \in [Files -> Nat] /\ bytes' \in [Files -> Nat] /\ bytes_disk' \in [Files -> Nat]
      BY Zenon DEF Types
    <2>5. request' \in [Files -> [path : Paths, size : Sizes]]
      BY DEF Types
    <2>6. busy' \in Files \cup {NoFile} /\ at' \in Steps /\ failed' \in BOOLEAN
      BY Zenon DEF Types, Steps
    <2>7. dest' \in Directory /\ dest_disk' \in Directory
      BY DEF Types
    <2> QED
      BY Zenon, <2>1, <2>2, <2>3, <2>4, <2>5, <2>6, <2>7 DEF Types
  <1>2. Serving'
    BY DEF Types, Serving, Underway, Idle
  <1>3. Contents'
    BY ZenonT(60) DEF Types, Serving, Underway, Idle, Contents, Publishing
  <1>4. Names'
    <2> SUFFICES ASSUME NEW g \in Files, NEW path \in Paths, g \in {dest'[path], dest_disk'[path]}
               PROVE  /\ path = request'[g].path
                      /\ bytes'[g] = request'[g].size /\ bytes_disk'[g] = request'[g].size
                      /\ \/ state'[g] \in {"Committed", "OutcomeUncertain", "Gone"}
                         \/ busy' = g /\ at' \in Publishing
      BY Zenon DEF Names
    <2>1. /\ path = request[g].path
          /\ bytes[g] = request[g].size /\ bytes_disk[g] = request[g].size
          /\ \/ state[g] \in {"Committed", "OutcomeUncertain", "Gone"}
             \/ busy = g /\ at \in Publishing
      BY Zenon DEF Names
    <2>2. busy # g /\ g # f
      BY Zenon, <2>1 DEF Idle
    <2> QED
      BY <2>1, <2>2 DEF Types
  <1>5. Synced'
    BY Zenon DEF Types, Directory, Serving, Underway, Idle, Names, Synced, Publishing
  <1>6. LiveTemporaryKept'
    BY DEF Types, Serving, Underway, Idle, LiveTemporaryKept
  <1> QED
    BY Zenon, <1>1, <1>2, <1>3, <1>4, <1>5, <1>6 DEF Inv

(* Write keeps the invariant.                                             *)
LEMMA WriteKeeps ==
  ASSUME NEW f \in Files, NEW n \in Sizes \ {0}, Inv, Write(f, n) PROVE Inv'
  <1> USE SizesAssumption, FilesAssumption, ProcessesAssumption
      DEF Inv, Write, StartCleanup, txn, call, budget, temps, dests, data
  <1>1. Types'
    <2>1. lock' \in Processes \cup {Nobody} /\ temp' \subseteq Files /\ temp_disk' \subseteq Files
      BY Zenon DEF Types
    <2>2. state' \in [Files -> States]
      BY DEF Types, States
    <2>3. owner' \in [Files -> Processes \cup {Nobody}] /\ held' \in [Files -> BOOLEAN]
      BY Zenon DEF Types
    <2>4. received' \in [Files -> Nat] /\ bytes' \in [Files -> Nat] /\ bytes_disk' \in [Files -> Nat]
      <3>1. n \in Nat
        BY Zenon
      <3>2. /\ bytes \in [Files -> Nat] /\ received \in [Files -> Nat] /\ bytes_disk' \in [Files -> Nat]
            /\ received' = received \/ received' = [received EXCEPT ![f] = @ + n]
            /\ \/ bytes' = bytes \/ bytes' = [bytes EXCEPT ![f] = @ + n]
               \/ \E k \in 0 .. n : bytes' = [bytes EXCEPT ![f] = @ + k]
        BY Zenon DEF Types
      <3>3. bytes' \in [Files -> Nat] /\ received' \in [Files -> Nat]
        BY ONLY <3>1, <3>2
      <3> QED
        BY Zenon, <3>2, <3>3
    <2>5. request' \in [Files -> [path : Paths, size : Sizes]]
      BY DEF Types
    <2>6. busy' \in Files \cup {NoFile} /\ at' \in Steps /\ failed' \in BOOLEAN
      BY Zenon DEF Types, Steps
    <2>7. dest' \in Directory /\ dest_disk' \in Directory
      BY Zenon DEF Types
    <2> QED
      BY Zenon, <2>1, <2>2, <2>3, <2>4, <2>5, <2>6, <2>7 DEF Types
  <1>2. Serving'
    BY Zenon DEF Types, Serving, Underway, Idle
  <1>3. Contents'
    <2>1. ASSUME NEW g \in Files, g # f
          PROVE  bytes'[g] = bytes[g] /\ received'[g] = received[g]
      BY <2>1 DEF Types
    <2>2. bytes[f] = received[f] /\ busy = NoFile
      BY Zenon DEF Contents, Idle
    <2>3. \/ busy' = f /\ at' = "unlink"
          \/ UNCHANGED call /\ bytes'[f] = bytes[f] + n /\ received'[f] = received[f] + n
      BY DEF Types
    <2> QED
      BY ZenonT(60), <2>1, <2>2, <2>3 DEF Contents, Publishing, Types, Serving
  <1>4. Names'
    BY ZenonT(60) DEF Types, Directory, Serving, Underway, Idle, Contents, Names, Publishing
  <1>5. Synced'
    BY Zenon DEF Types, Directory, Serving, Underway, Idle, Names, Synced, Publishing
  <1>6. LiveTemporaryKept'
    BY DEF Types, Serving, Underway, Idle, LiveTemporaryKept
  <1> QED
    BY Zenon, <1>1, <1>2, <1>3, <1>4, <1>5, <1>6 DEF Inv

(* CleanupUnlink keeps the invariant.                                     *)
LEMMA CleanupUnlinkKeeps ==
  ASSUME Inv, CleanupUnlink PROVE Inv'
  <1> USE SizesAssumption, FilesAssumption, ProcessesAssumption
      DEF Inv, CleanupUnlink, txn, call, budget, temps, dests, data
  <1>1. Types'
    BY Zenon DEF Types, Directory, States, Steps
  <1>2. Serving'
    BY DEF Types, Serving, Underway, Idle
  <1>3. Contents'
    BY Zenon DEF Types, Serving, Underway, Idle, Contents, Publishing
  <1>4. Names'
    BY Zenon DEF Types, Directory, Serving, Underway, Idle, Contents, Names, Publishing
  <1>5. Synced'
    BY Zenon DEF Types, Directory, Serving, Underway, Idle, Names, Synced, Publishing
  <1>6. LiveTemporaryKept'
    BY Zenon DEF Types, Serving, Underway, Idle, LiveTemporaryKept
  <1> QED
    BY <1>1, <1>2, <1>3, <1>4, <1>5, <1>6 DEF Inv

(* CleanupFinish keeps the invariant.                                     *)
LEMMA CleanupFinishKeeps ==
  ASSUME Inv, CleanupFinish PROVE Inv'
  <1> USE SizesAssumption, FilesAssumption, ProcessesAssumption
      DEF Inv, CleanupFinish, Becomes, Returns, txn, call, budget, temps, dests, data
  <1>1. Types'
    BY ZenonT(60) DEF Types, Directory, States, Steps
  <1>2. Serving'
    BY DEF Types, Serving, Underway, Idle
  <1>3. Contents'
    BY Zenon DEF Types, Serving, Underway, Idle, Contents, Publishing
  <1>4. Names' /\ Synced'
    <2>1. busy \in Files /\ state[busy] \in Underway /\ at = "sync"
      BY Zenon DEF Types, Serving, Underway
    <2>2. state' = [state EXCEPT ![busy] = state'[busy]] /\ state'[busy] \in {"Aborted", "CleanupUnresolved"}
      BY Zenon, <2>1 DEF Types
    <2>3. UNCHANGED <<request, dests, data>> /\ at' = "idle"
      BY Zenon
    <2> QED
      BY Zenon, <2>1, <2>2, <2>3, NamelessKeepsNames DEF Types, Publishing
  <1>6. LiveTemporaryKept'
    BY Zenon DEF Types, Serving, Underway, Idle, LiveTemporaryKept
  <1> QED
    BY Zenon, <1>1, <1>2, <1>3, <1>4, <1>6 DEF Inv

(* CommitLink keeps the invariant.                                        *)
LEMMA CommitLinkKeeps ==
  ASSUME Inv, CommitLink PROVE Inv'
  <1> USE SizesAssumption, FilesAssumption, ProcessesAssumption
      DEF Inv, CommitLink, Free, txn, call, budget, temps, dests, data
  <1>1. Types'
    BY Zenon DEF Types, Directory, States, Steps
  <1>2. Serving'
    BY Zenon DEF Types, Serving, Underway, Idle
  <1>3. Contents'
    BY Zenon DEF Types, Serving, Underway, Idle, Contents, Publishing
  <1>4. Names'
    <2> SUFFICES ASSUME NEW g \in Files, NEW path \in Paths, g \in {dest'[path], dest_disk'[path]}
               PROVE  /\ path = request'[g].path
                      /\ bytes'[g] = request'[g].size /\ bytes_disk'[g] = request'[g].size
                      /\ \/ state'[g] \in {"Committed", "OutcomeUncertain", "Gone"}
                         \/ busy' = g /\ at' \in Publishing
      BY Zenon DEF Names
    <2>1. busy \in Files /\ state[busy] = "Receiving" /\ request[busy].path \in Paths
      BY Zenon DEF Types, Serving
    <2>2. CASE g = busy
      <3>1. \A q \in Paths : g \notin {dest[q], dest_disk[q]}
        BY Zenon, <2>1, <2>2 DEF Names, Publishing
      <3>2. dest' # dest
        BY Zenon, <3>1
      <3>3. path = request[g].path /\ at' = "sync parent"
        BY Zenon, <2>1, <2>2, <3>1, <3>2 DEF Types, Directory
      <3>4. bytes[g] = request[g].size /\ bytes_disk[g] = request[g].size
        BY Zenon, <2>2 DEF Contents
      <3> QED
        BY Zenon, <2>2, <3>3, <3>4 DEF Publishing
    <2>3. CASE g # busy
      <3>1. g \in {dest[path], dest_disk[path]}
        BY Zenon, <2>1, <2>3 DEF Types, Directory
      <3> QED
        BY Zenon, <2>3, <3>1 DEF Names
    <2> QED
      BY Zenon, <2>2, <2>3
  <1>5. Synced'
    <2>1. \A path \in Paths : dest_disk'[path] # NoFile => dest'[path] = dest_disk'[path]
      BY Zenon DEF Synced, Types, Directory
    <2>2. \A g \in Files : state'[g] = "Committed" =>
            dest'[request'[g].path] = g /\ dest_disk'[request'[g].path] = g
      <3> SUFFICES ASSUME NEW g \in Files, state[g] = "Committed"
                   PROVE  dest'[request[g].path] = g /\ dest_disk[request[g].path] = g
        BY Zenon
      <3>1. dest[request[g].path] = g /\ dest_disk[request[g].path] = g /\ request[g].path \in Paths
        BY Zenon DEF Synced, Types
      <3>2. dest[request[g].path] # NoFile
        BY Zenon, <3>1
      <3> QED
        BY Zenon, <3>1, <3>2 DEF Types, Directory
    <2>3. at' \in Publishing => dest'[request'[busy'].path] = busy'
      <3>1. busy \in Files /\ request[busy].path \in Paths
        BY Zenon DEF Types, Serving
      <3> QED
        BY Zenon, <3>1 DEF Types, Directory, Publishing
    <2>4. at' \in {"unlink temp", "sync temp"} /\ ~failed' => dest_disk'[request'[busy'].path] = busy'
      BY Zenon DEF Synced, Types, Idle
    <2> QED
      BY Zenon, <2>1, <2>2, <2>3, <2>4 DEF Synced
  <1>6. LiveTemporaryKept'
    BY Zenon DEF Types, Serving, Underway, Idle, LiveTemporaryKept
  <1> QED
    BY Zenon, <1>1, <1>2, <1>3, <1>4, <1>5, <1>6 DEF Inv

(* CommitSyncParent keeps the invariant.                                  *)
LEMMA CommitSyncParentKeeps ==
  ASSUME Inv, CommitSyncParent PROVE Inv'
  <1> USE SizesAssumption, FilesAssumption, ProcessesAssumption
      DEF Inv, CommitSyncParent, Published, AfterSyncParent, txn, call, budget, temps, dests, data
  <1>1. Types'
    BY Zenon DEF Types, Directory, States, Steps
  <1>2. Serving'
    BY Zenon DEF Types, Serving, Underway, Idle
  <1>3. Contents'
    BY Zenon DEF Types, Serving, Underway, Idle, Contents, Publishing
  <1>4. Names'
    <2> SUFFICES ASSUME NEW g \in Files, NEW path \in Paths, g \in {dest'[path], dest_disk'[path]}
               PROVE  /\ path = request'[g].path
                      /\ bytes'[g] = request'[g].size /\ bytes_disk'[g] = request'[g].size
                      /\ \/ state'[g] \in {"Committed", "OutcomeUncertain", "Gone"}
                         \/ busy' = g /\ at' \in Publishing
      BY Zenon DEF Names
    <2>1. g \in {dest[path], dest_disk[path]}
      BY Zenon
    <2> QED
      BY Zenon, <2>1 DEF Names, Publishing
  <1>5. Synced'
    <2>1. /\ at = "sync parent" /\ at' = "unlink temp"
          /\ UNCHANGED <<dest, request, state, busy>>
          /\ dest_disk' = dest \/ (dest_disk' = dest_disk /\ failed')
      BY Zenon
    <2>2. /\ \A path \in Paths : dest_disk'[path] # NoFile => dest'[path] = dest_disk'[path]
          /\ \A f \in Files : state'[f] = "Committed" =>
               dest'[request'[f].path] = f /\ dest_disk'[request'[f].path] = f
      BY Zenon, <2>1 DEF Synced
    <2>3. dest'[request'[busy'].path] = busy' /\ (~failed' => dest_disk'[request'[busy'].path] = busy')
      BY Zenon, <2>1 DEF Synced, Publishing
    <2> QED
      BY Zenon, <2>2, <2>3 DEF Synced
  <1>6. LiveTemporaryKept'
    BY Zenon DEF Types, Serving, Underway, Idle, LiveTemporaryKept
  <1> QED
    BY Zenon, <1>1, <1>2, <1>3, <1>4, <1>5, <1>6 DEF Inv

(* CommitUnlink keeps the invariant.                                      *)
LEMMA CommitUnlinkKeeps ==
  ASSUME Inv, CommitUnlink PROVE Inv'
  <1> USE SizesAssumption, FilesAssumption, ProcessesAssumption
      DEF Inv, CommitUnlink, txn, call, budget, temps, dests, data
  <1>1. Types'
    BY Zenon DEF Types, Directory, States, Steps
  <1>2. Serving'
    BY Zenon DEF Types, Serving, Underway, Idle
  <1>3. Contents'
    BY Zenon DEF Types, Serving, Underway, Idle, Contents, Publishing
  <1>4. Names'
    BY ZenonT(60) DEF Types, Directory, Serving, Underway, Idle, Contents, Names, Publishing
  <1>5. Synced'
    BY Zenon DEF Types, Directory, Serving, Underway, Idle, Names, Synced, Publishing
  <1>6. LiveTemporaryKept'
    BY Zenon DEF Types, Serving, Underway, Idle, LiveTemporaryKept
  <1> QED
    BY Zenon, <1>1, <1>2, <1>3, <1>4, <1>5, <1>6 DEF Inv

(* CommitFinish keeps the invariant.                                      *)
LEMMA CommitFinishKeeps ==
  ASSUME Inv, CommitFinish PROVE Inv'
  <1> USE SizesAssumption, FilesAssumption, ProcessesAssumption
      DEF Inv, CommitFinish, Becomes, Returns, txn, call, budget, temps, dests, data
  <1>1. Types'
    BY ZenonT(60) DEF Types, Directory, States, Steps
  <1>2. Serving'
    BY Zenon DEF Types, Serving, Underway, Idle
  <1>3. Contents'
    BY Zenon DEF Types, Serving, Underway, Idle, Contents, Publishing
  <1>4. Names'
    <2> SUFFICES ASSUME NEW g \in Files, NEW path \in Paths, g \in {dest'[path], dest_disk'[path]}
               PROVE  /\ path = request'[g].path
                      /\ bytes'[g] = request'[g].size /\ bytes_disk'[g] = request'[g].size
                      /\ \/ state'[g] \in {"Committed", "OutcomeUncertain", "Gone"}
                         \/ busy' = g /\ at' \in Publishing
      BY Zenon DEF Names
    <2>1. /\ path = request[g].path
          /\ bytes[g] = request[g].size /\ bytes_disk[g] = request[g].size
          /\ \/ state[g] \in {"Committed", "OutcomeUncertain", "Gone"}
             \/ busy = g /\ at \in Publishing
      BY Zenon DEF Names
    <2>2. busy \in Files
      BY Zenon DEF Types, Serving
    <2>3. state'[g] = state[g] \/ state'[g] \in {"Committed", "OutcomeUncertain"}
      BY Zenon DEF Types
    <2>4. busy = g => state'[g] \in {"Committed", "OutcomeUncertain"}
      BY Zenon, <2>2 DEF Types
    <2> QED
      BY Zenon, <2>1, <2>3, <2>4
  <1>5. Synced'
    <2>1. \A path \in Paths : dest_disk'[path] # NoFile => dest'[path] = dest_disk'[path]
      BY Zenon DEF Synced, Types
    <2>2. \A g \in Files : state'[g] = "Committed" =>
            dest'[request'[g].path] = g /\ dest_disk'[request'[g].path] = g
      <3>1. \A g \in Files : state'[g] = "Committed" => state[g] = "Committed" \/ (g = busy /\ ~failed)
        BY Zenon DEF Types
      <3>2. ~failed => dest[request[busy].path] = busy /\ dest_disk[request[busy].path] = busy
        BY Zenon DEF Synced, Publishing
      <3> QED
        BY Zenon, <3>1, <3>2 DEF Synced
    <2>3. at' \in Publishing => dest'[request'[busy'].path] = busy'
      BY Zenon DEF Synced, Types, Idle, Publishing
    <2>4. at' \in {"unlink temp", "sync temp"} /\ ~failed' => dest_disk'[request'[busy'].path] = busy'
      BY Zenon DEF Synced, Types, Idle
    <2> QED
      BY Zenon, <2>1, <2>2, <2>3, <2>4 DEF Synced
  <1>6. LiveTemporaryKept'
    BY Zenon DEF Types, Serving, Underway, Idle, LiveTemporaryKept
  <1> QED
    BY Zenon, <1>1, <1>2, <1>3, <1>4, <1>5, <1>6 DEF Inv

(* PowerLoss keeps the invariant.                                         *)
LEMMA PowerLossKeeps ==
  ASSUME Inv, PowerLoss PROVE Inv'
  <1> USE SizesAssumption, FilesAssumption, ProcessesAssumption
      DEF Inv, PowerLoss, Dies, Returns, txn, call, budget, temps, dests, data
  <1>1. Types'
    BY ZenonT(60) DEF Types, Directory, States, Steps
  <1>2. Serving'
    BY Zenon DEF Types, Serving, Underway, Idle
  <1>3. Contents'
    <2>1. \A g \in Files : bytes'[g] \in {bytes[g], bytes_disk[g]}
      BY Zenon DEF Types
    <2>2. \A g \in Files : state'[g] \notin Underway
      BY Zenon DEF Types, Serving, Underway
    <2> QED
      <3>1. \A g \in Files : state'[g] = "New" => state[g] = "New"
        BY Zenon DEF Types
      <3>2. \A g \in Files : bytes_disk'[g] = bytes'[g]
        BY Zenon
      <3> QED
        BY Zenon, <2>1, <2>2, <3>1, <3>2 DEF Contents, Underway, Publishing
  <1>4. Names'
    <2> SUFFICES ASSUME NEW g \in Files, NEW path \in Paths, g \in {dest'[path], dest_disk'[path]}
               PROVE  /\ path = request'[g].path
                      /\ bytes'[g] = request'[g].size /\ bytes_disk'[g] = request'[g].size
                      /\ \/ state'[g] \in {"Committed", "OutcomeUncertain", "Gone"}
                         \/ busy' = g /\ at' \in Publishing
      BY Zenon DEF Names
    <2>1. g \in {dest[path], dest_disk[path]}
      BY Zenon DEF Types
    <2>2. bytes'[g] \in {bytes[g], bytes_disk[g]} /\ bytes_disk'[g] = bytes'[g]
      BY Zenon DEF Types
    <2>3. path = request[g].path /\ bytes[g] = request[g].size /\ bytes_disk[g] = request[g].size
      BY Zenon, <2>1 DEF Names
    <2>4. state[g] \in {"Committed", "OutcomeUncertain", "Gone", "Receiving"}
      BY <2>1 DEF Names, Serving
    <2>5. state'[g] \in {"Committed", "OutcomeUncertain", "Gone"}
      BY Zenon, <2>4 DEF Types, Serving, Underway
    <2> QED
      BY Zenon, <2>2, <2>3, <2>5
  <1>5. Synced'
    <2>1. \A path \in Paths : dest_disk'[path] # NoFile => dest'[path] = dest_disk'[path]
      BY Zenon DEF Synced, Types
    <2>2. \A g \in Files : state'[g] = "Committed" =>
            dest'[request'[g].path] = g /\ dest_disk'[request'[g].path] = g
      BY ZenonT(60) DEF Synced, Types
    <2>3. at' \in Publishing => dest'[request'[busy'].path] = busy'
      BY Zenon DEF Synced, Types, Idle, Publishing
    <2>4. at' \in {"unlink temp", "sync temp"} /\ ~failed' => dest_disk'[request'[busy'].path] = busy'
      BY Zenon DEF Synced, Types, Idle
    <2> QED
      BY Zenon, <2>1, <2>2, <2>3, <2>4 DEF Synced
  <1>6. LiveTemporaryKept'
    BY Zenon DEF Types, Serving, Underway, Idle, LiveTemporaryKept
  <1> QED
    BY Zenon, <1>1, <1>2, <1>3, <1>4, <1>5, <1>6 DEF Inv

-----------------------------------------------------------------------------
(* Every step keeps the invariant.                                         *)
LEMMA NextKeeps == Inv /\ [Next]_vars => Inv'
  <1> SUFFICES ASSUME Inv, [Next]_vars PROVE Inv'
    OBVIOUS
  <1>1. CASE UNCHANGED vars
    BY Zenon, <1>1 DEF Inv, Types, Serving, Contents, Names, Synced, LiveTemporaryKept, vars,
                txn, call, temps, dests, data
  <1>2. CASE Next
    BY Zenon, <1>2, OpenKeeps, CloseKeeps, KillKeeps, ReserveKeeps, CreateKeeps, AbortKeeps, SealKeeps,
       WriteKeeps, CleanupUnlinkKeeps, CleanupFinishKeeps, CommitLinkKeeps, CommitSyncParentKeeps,
       CommitUnlinkKeeps, CommitFinishKeeps, PowerLossKeeps DEF Next
  <1> QED
    BY <1>1, <1>2

(* The invariant of the receive storage, for every value of the constants. *)
THEOREM StorageInvariant == Spec => []Inv
  BY InitInv, NextKeeps, PTL DEF Spec

(* No kill or power loss exposes a partly written file at a destination:   *)
(* FlushTemporary comes before linkat.                                     *)
THEOREM PublishedFilesAreWhole == Spec => []PublishedIsWhole
  <1>1. Inv => PublishedIsWhole
    BY Zenon DEF Inv, Names, PublishedIsWhole
  <1> QED
    BY <1>1, StorageInvariant, PTL

(* A file reported as committed stays at its destination: SealAndCommit    *)
(* reports kCommitted only after the fsync of the destination's directory. *)
THEOREM CommittedFilesStay == Spec => []CommittedIsKept
  <1>1. Inv => CommittedIsKept
    BY Zenon DEF Inv, Synced, CommittedIsKept
  <1> QED
    BY <1>1, StorageInvariant, PTL

(* A transaction that reports plain failure has published nothing: once    *)
(* linkat succeeded CommitTemporary never reports kNotCommitted.           *)
THEOREM DiscardedFilesAreAbsent == Spec => []DiscardedIsAbsent
  <1>1. Inv => DiscardedIsAbsent
    <2> SUFFICES ASSUME Inv, NEW f \in Files, NEW path \in Paths,
                        state[f] \in {"Aborted", "CleanupUnresolved"},
                        f \in {dest[path], dest_disk[path]}
                 PROVE  FALSE
      BY Zenon DEF DiscardedIsAbsent
    <2>1. busy = f
      BY Zenon DEF Inv, Names
    <2>2. state[f] = "Receiving"
      BY <2>1, FilesAssumption DEF Inv, Serving
    <2> QED
      BY Zenon, <2>2
  <1> QED
    BY <1>1, StorageInvariant, PTL

(* CleanupStaleFiles of a process that opens the root never removes the    *)
(* temporary file of a transaction another process has under way.          *)
THEOREM LiveTemporariesStay == Spec => []LiveTemporaryKept
  <1>1. Inv => LiveTemporaryKept
    BY DEF Inv
  <1> QED
    BY <1>1, StorageInvariant, PTL

(* linkat publishes only under a free name, so no durable name is ever     *)
(* replaced or removed, by any process, kill or power loss.                *)
THEOREM DurableNamesStay == Spec => NeverReplaced
  <1> DEFINE Stays == \A path \in Paths : dest_disk[path] # NoFile =>
                        dest'[path] = dest_disk[path] /\ dest_disk'[path] = dest_disk[path]
  <1>1. Inv /\ [Next]_vars => Stays
    <2> SUFFICES ASSUME Inv, [Next]_vars, NEW path \in Paths, dest_disk[path] # NoFile
                 PROVE  dest'[path] = dest_disk[path] /\ dest_disk'[path] = dest_disk[path]
      BY Zenon
    <2>1. dest[path] = dest_disk[path]
      BY Zenon DEF Inv, Synced
    <2>2. CASE UNCHANGED dests
      BY Zenon, <2>1, <2>2 DEF dests
    <2>3. CASE CommitLink
      <3>1. dest' = dest \/ (dest[request[busy].path] = NoFile
                              /\ dest' = [dest EXCEPT ![request[busy].path] = busy])
        BY Zenon, <2>3 DEF CommitLink, Free
      <3>2. dest \in Directory /\ dest_disk' = dest_disk
        BY Zenon, <2>3 DEF Inv, Types, CommitLink
      <3> QED
        BY <2>1, <3>1, <3>2 DEF Directory
    <2>4. CASE CommitSyncParent
      BY Zenon, <2>1, <2>4 DEF CommitSyncParent, Published
    <2>5. CASE PowerLoss
      BY <2>1, <2>5 DEF PowerLoss
    <2>6. UNCHANGED dests \/ CommitLink \/ CommitSyncParent \/ PowerLoss
      BY Zenon DEF Next, vars, dests, Open, Close, Kill, Reserve, Create, Abort, Seal, Write,
             CleanupUnlink, CleanupFinish, CommitUnlink, CommitFinish
    <2> QED
      BY <2>2, <2>3, <2>4, <2>5, <2>6
  <1>2. Stays <=> \A path \in Paths : dest_disk[path] # NoFile =>
                    dest'[path] = dest_disk[path] /\ dest_disk'[path] = dest_disk[path]
    OBVIOUS
  <1> HIDE DEF Stays
  <1>3. Spec => [][Stays]_vars
    BY <1>1, StorageInvariant, PTL DEF Spec
  <1> QED
    BY Zenon, <1>3 DEF NeverReplaced, Stays

-----------------------------------------------------------------------------
(* The bytes declared in the requests r for the files of S.                *)
Total(r, S) == Cardinality(UNION {{f} \X (1 .. r[f].size) : f \in S})

(* Transactions of p whose temporary file may still be on the disk.        *)
Orphaned == {"CleanupUnresolved", "OutcomeUncertain"}
Orphans(p) == {f \in Files : owner[f] = p /\ state[f] \in Orphaned}

(* Only the process that holds the lock has transactions and a budget in   *)
(* use.  The budget is what its open transactions and its orphans declared *)
(* and every file in the temporary directory belongs to one of these or is *)
(* what a failed creation left, without a byte.                            *)
Budgets ==
  /\ reserved \in [Processes -> Nat] /\ unresolved \in [Processes -> Nat]
  /\ \A p \in Processes \ {lock} : reserved[p] = 0 /\ unresolved[p] = 0

Tenants ==
  \A f \in Files :
    /\ owner[f] \in {lock, Nobody}
    /\ held[f] <=> state[f] \in Underway
    /\ state[f] = "New" => owner[f] = Nobody

Paid ==
  lock # Nobody =>
    /\ reserved[lock] = Total(request, Held(lock)) + unresolved[lock]
    /\ unresolved[lock] = Total(request, Orphans(lock))

Housed(f) ==
  \/ owner[f] = lock /\ state[f] \in Orphaned \cup {"Receiving"}
  \/ state[f] = "Aborted" /\ bytes[f] = 0

Lodged ==
  /\ lock # Nobody => \A f \in temp : Housed(f)
  /\ at \in {"sync", "sync temp"} /\ ~failed => busy \notin temp

Budgeted == Budgets /\ Tenants /\ Paid /\ Lodged

Requests == [Files -> [path : Paths, size : Sizes]]

(* A declared size is a natural number.                                    *)
LEMMA RequestSize ==
  ASSUME NEW r \in Requests, NEW f \in Files PROVE r[f].size \in Nat /\ r[f].size \in Int
  <1>1. r[f] \in [path : Paths, size : Sizes]
    BY DEF Requests
  <1>2. r[f].size \in Nat
    BY Zenon, <1>1, SizesAssumption
  <1> QED
    BY <1>2

(* How declared bytes add up.  It follows from the library's theorems on   *)
(* finite sets, in the last section.                                       *)
Adding ==
  \A r \in Requests, S \in SUBSET Files :
    /\ Total(r, S) \in Nat /\ Total(r, {}) = 0
    /\ \A f \in Files \ S : Total(r, S \cup {f}) = Total(r, S) + r[f].size

(* The budget of the holder in terms of the declared bytes.                *)
LEMMA DeclaredTotal == \A S : Declared(S) = Total(request, S)
  BY Zenon DEF Declared, Bytes, Total

(* What the invariants say of the types of the budget's terms.             *)
LEMMA BudgetTypes ==
  ASSUME Inv, Budgeted
  PROVE  /\ request \in Requests /\ state \in [Files -> States]
         /\ owner \in [Files -> Processes \cup {Nobody}] /\ held \in [Files -> BOOLEAN]
         /\ reserved \in [Processes -> Nat] /\ unresolved \in [Processes -> Nat]
         /\ lock # Nobody => lock \in Processes
         /\ \A p : Held(p) \in SUBSET Files /\ Orphans(p) \in SUBSET Files
  <1>1. Types /\ Budgets
    BY Zenon DEF Inv, Budgeted
  <1>2. \A p : Held(p) \in SUBSET Files /\ Orphans(p) \in SUBSET Files
    BY DEF Held, Orphans
  <1> QED
    BY Zenon, <1>1, <1>2 DEF Types, Budgets, Requests

(* Before a process opens the root nothing is reserved.                    *)
LEMMA InitBudgeted == Init => Budgeted
  <1> SUFFICES ASSUME Init PROVE Budgeted
    OBVIOUS
  <1>1. Budgets
    BY DEF Init, Budgets
  <1>2. Tenants
    BY Zenon DEF Init, Tenants, Underway
  <1>3. Paid
    BY Zenon DEF Init, Paid
  <1>4. Lodged
    BY DEF Init, Lodged
  <1> QED
    BY Zenon, <1>1, <1>2, <1>3, <1>4 DEF Budgeted

(* A step that changes no transaction and no reservation.                  *)
LEMMA QuietBudget ==
  ASSUME Budgeted, UNCHANGED <<lock, state, owner, held, request, reserved, unresolved>>
  PROVE  Budgets' /\ Tenants' /\ Paid'
  <1>1. Budgets'
    BY Zenon DEF Budgeted, Budgets
  <1>2. Tenants'
    BY Zenon DEF Budgeted, Tenants
  <1>3. Held(lock)' = Held(lock) /\ Orphans(lock)' = Orphans(lock)
    BY DEF Held, Orphans
  <1>4. Paid
    BY DEF Budgeted
  <1>5. Paid'
    BY Zenon, <1>3, <1>4 DEF Paid
  <1> QED
    BY <1>1, <1>2, <1>5

(* A sum of bytes.                                                         *)
LEMMA NatSum ==
  ASSUME NEW a \in Nat, NEW b \in Nat PROVE a + b \in Nat
  OBVIOUS

(* A size is added to what is open.                                        *)
LEMMA AddedTo ==
  ASSUME NEW held1 \in Nat, NEW size \in Nat, NEW open1 \in Nat
  PROVE  (held1 + open1) + size = (held1 + size) + open1
  OBVIOUS

(* A size is moved from what is open to what is unresolved.                *)
LEMMA MovedOver ==
  ASSUME NEW rest \in Nat, NEW size \in Nat, NEW open1 \in Nat
  PROVE  (rest + size) + open1 = rest + (open1 + size)
  OBVIOUS

(* Nothing is taken away.                                                  *)
LEMMA NothingLess ==
  ASSUME NEW a \in Nat, NEW b \in Nat PROVE a + b - 0 = a + b
  OBVIOUS

(* A size is given back.                                                   *)
LEMMA GivenBack ==
  ASSUME NEW rest \in Nat, NEW size \in Nat, NEW open1 \in Nat
  PROVE  ((rest + size) + open1) - size = rest + open1 /\ rest + open1 \in Nat
  OBVIOUS

(* ReleaseReservation: a transaction ends and gives its bytes back.        *)
LEMMA ReleaseKeepsBudget ==
  ASSUME Adding, Inv, Budgeted, NEW f \in Files, state[f] \in Underway, lock' = lock,
         NEW s \in {"Aborted", "Committed"}, ReleaseReservation(f), Becomes(f, s)
  PROVE  Budgets' /\ Tenants' /\ Paid'
  <1>1. owner[f] = lock /\ lock \in Processes /\ lock # Nobody
    BY BudgetTypes DEF Inv, Serving
  <1>2. held[f]
    BY Zenon DEF Budgeted, Tenants
  <1>3. /\ request \in Requests /\ state \in [Files -> States] /\ held \in [Files -> BOOLEAN]
        /\ reserved \in [Processes -> Nat] /\ unresolved \in [Processes -> Nat]
        /\ Held(lock) \in SUBSET Files
    BY BudgetTypes
  <1>4. /\ state' = [state EXCEPT ![f] = s] /\ held' = [held EXCEPT ![f] = FALSE]
        /\ owner' = owner /\ request' = request /\ unresolved' = unresolved
        /\ reserved' = [reserved EXCEPT ![lock] = @ - request[f].size]
    BY Zenon, <1>1, <1>2 DEF Becomes, ReleaseReservation
  <1>5. Held(lock)' = Held(lock) \ {f}
    BY Zenon, <1>3, <1>4 DEF Held
  <1>6. Orphans(lock)' = Orphans(lock)
    BY Zenon, <1>3, <1>4 DEF Orphans, Orphaned, Underway
  <1>7. f \in Held(lock)
    BY Zenon, <1>1, <1>2 DEF Held
  <1>8. Total(request, Held(lock)) = Total(request, Held(lock) \ {f}) + request[f].size
    <2>1. Held(lock) \ {f} \in SUBSET Files /\ f \in Files \ (Held(lock) \ {f})
            /\ Held(lock) = (Held(lock) \ {f}) \cup {f}
      BY <1>3, <1>7
    <2> QED
      BY Zenon, <1>3, <2>1 DEF Adding
  <1>9. Total(request, Held(lock) \ {f}) \in Nat
    BY Zenon, <1>3, Held(lock) \ {f} \in SUBSET Files DEF Adding
  <1>10. request[f].size \in Nat
    BY Zenon, <1>3, RequestSize
  <1>11. /\ reserved[lock] = Total(request, Held(lock)) + unresolved[lock]
         /\ unresolved[lock] = Total(request, Orphans(lock))
    BY Zenon, <1>1 DEF Budgeted, Paid
  <1>12. reserved[lock] - request[f].size = Total(request, Held(lock) \ {f}) + unresolved[lock]
           /\ reserved[lock] - request[f].size \in Nat
    <2>1. unresolved[lock] \in Nat
      BY Zenon, <1>1, <1>3
    <2>2. /\ ((Total(request, Held(lock) \ {f}) + request[f].size) + unresolved[lock]) - request[f].size
               = Total(request, Held(lock) \ {f}) + unresolved[lock]
          /\ Total(request, Held(lock) \ {f}) + unresolved[lock] \in Nat
      BY Zenon, <1>9, <1>10, <2>1, GivenBack
    <2> QED
      BY Zenon, <1>8, <1>11, <2>2
  <1>13. Budgets'
    BY Zenon, <1>1, <1>3, <1>4, <1>12 DEF Budgeted, Budgets
  <1>14. Tenants'
    BY Zenon, <1>3, <1>4 DEF Budgeted, Tenants, Underway
  <1>15. reserved'[lock] = reserved[lock] - request[f].size
    BY Zenon, <1>1, <1>3, <1>4
  <1>16. Paid'
    BY Zenon, <1>4, <1>5, <1>6, <1>11, <1>12, <1>15 DEF Paid
  <1> QED
    BY Zenon, <1>13, <1>14, <1>16

(* MarkUnresolved: a transaction ends and its bytes stay reserved.         *)
LEMMA MarkKeepsBudget ==
  ASSUME Adding, Inv, Budgeted, NEW f \in Files, state[f] \in Underway, lock' = lock,
         NEW s \in Orphaned, MarkUnresolved(f), Becomes(f, s)
  PROVE  Budgets' /\ Tenants' /\ Paid'
  <1>1. owner[f] = lock /\ lock \in Processes /\ lock # Nobody
    BY BudgetTypes DEF Inv, Serving
  <1>2. held[f]
    BY Zenon DEF Budgeted, Tenants
  <1>3. /\ request \in Requests /\ state \in [Files -> States] /\ held \in [Files -> BOOLEAN]
        /\ reserved \in [Processes -> Nat] /\ unresolved \in [Processes -> Nat]
        /\ Held(lock) \in SUBSET Files /\ Orphans(lock) \in SUBSET Files
    BY BudgetTypes
  <1>4. /\ state' = [state EXCEPT ![f] = s] /\ held' = [held EXCEPT ![f] = FALSE]
        /\ owner' = owner /\ request' = request /\ reserved' = reserved
        /\ unresolved' = [unresolved EXCEPT ![lock] = @ + request[f].size]
    BY Zenon, <1>1, <1>2 DEF Becomes, MarkUnresolved
  <1>5. Held(lock)' = Held(lock) \ {f}
    BY Zenon, <1>3, <1>4 DEF Held
  <1>6. Orphans(lock)' = Orphans(lock) \cup {f} /\ f \notin Orphans(lock)
    BY Zenon, <1>1, <1>3, <1>4 DEF Orphans, Orphaned, Underway
  <1>7. f \in Held(lock)
    BY <1>1, <1>2 DEF Held
  <1>8. Total(request, Held(lock)) = Total(request, Held(lock) \ {f}) + request[f].size
    <2>1. Held(lock) \ {f} \in SUBSET Files /\ f \in Files \ (Held(lock) \ {f})
            /\ Held(lock) = (Held(lock) \ {f}) \cup {f}
      BY <1>3, <1>7
    <2> QED
      BY Zenon, <1>3, <2>1 DEF Adding
  <1>9. Total(request, Orphans(lock) \cup {f}) = Total(request, Orphans(lock)) + request[f].size
    <2>1. f \in Files \ Orphans(lock)
      BY <1>6
    <2> QED
      BY Zenon, <1>3, <2>1 DEF Adding
  <1>10. /\ Total(request, Held(lock) \ {f}) \in Nat /\ Total(request, Orphans(lock)) \in Nat
         /\ request[f].size \in Nat
    BY Zenon, <1>3, RequestSize, Held(lock) \ {f} \in SUBSET Files DEF Adding
  <1>11. /\ reserved[lock] = Total(request, Held(lock)) + unresolved[lock]
         /\ unresolved[lock] = Total(request, Orphans(lock))
    BY Zenon, <1>1 DEF Budgeted, Paid
  <1>12. /\ reserved[lock] = Total(request, Held(lock) \ {f}) + (unresolved[lock] + request[f].size)
         /\ unresolved[lock] + request[f].size = Total(request, Orphans(lock) \cup {f})
    <2>1. unresolved[lock] \in Nat
      BY Zenon, <1>1, <1>3
    <2>2. (Total(request, Held(lock) \ {f}) + request[f].size) + unresolved[lock]
            = Total(request, Held(lock) \ {f}) + (unresolved[lock] + request[f].size)
      BY Zenon, <1>10, <2>1, MovedOver
    <2> QED
      BY Zenon, <1>8, <1>9, <1>11, <2>2
  <1>13. Budgets'
    <2>1. unresolved[lock] + request[f].size \in Nat
      BY Zenon, <1>1, <1>3, <1>10, NatSum
    <2>2. unresolved' \in [Processes -> Nat]
      BY Zenon, <1>1, <1>3, <1>4, <2>1
    <2> QED
      BY Zenon, <1>3, <1>4, <2>2 DEF Budgeted, Budgets
  <1>14. Tenants'
    BY Zenon, <1>3, <1>4 DEF Budgeted, Tenants, Underway, Orphaned
  <1>15. unresolved'[lock] = unresolved[lock] + request[f].size
    BY Zenon, <1>1, <1>3, <1>4
  <1>16. Paid'
    BY Zenon, <1>4, <1>5, <1>6, <1>12, <1>15 DEF Paid
  <1> QED
    BY <1>13, <1>14, <1>16

(* CleanupStaleFiles leaves the new holder an empty directory, which an    *)
(* empty budget pays for.                                                  *)
LEMMA OpenKeepsBudget ==
  ASSUME Adding, NEW p \in Processes, Inv, Budgeted, Open(p) PROVE Budgeted'
  <1>1. /\ lock = Nobody /\ lock' \in {p, Nobody} /\ (lock' = p => temp' = {})
        /\ UNCHANGED <<txn, call, budget>>
    <2>1. PICK left \in SUBSET temp, scanned \in BOOLEAN, synchronised \in BOOLEAN :
            /\ temp' = left
            /\ lock' = IF left = {} /\ scanned /\ (temp = {} \/ synchronised) THEN p ELSE lock
      BY Zenon DEF Open
    <2>2. lock = Nobody /\ UNCHANGED <<txn, call, budget>>
      BY Zenon DEF Open, MayOpen
    <2>3. (lock' = p /\ temp' = {}) \/ lock' = Nobody
      BY <2>1, <2>2
    <2> QED
      BY <2>2, <2>3, ProcessesAssumption
  <1>2. UNCHANGED <<state, owner, held, request, busy, at, failed, reserved, unresolved>>
    BY <1>1 DEF txn, call, budget
  <1>3. \A f \in Files : owner[f] = Nobody /\ state[f] \notin Underway
    BY Zenon, <1>1 DEF Inv, Serving, Budgeted, Tenants
  <1>4. busy = NoFile /\ at = "idle"
    BY <1>3 DEF Inv, Types, Serving, Underway
  <1>5. \A q \in Processes : reserved[q] = 0 /\ unresolved[q] = 0
    BY <1>1, ProcessesAssumption DEF Budgeted, Budgets
  <1>6. Budgets'
    BY <1>2, <1>5 DEF Budgeted, Budgets
  <1>7. Tenants'
    BY Zenon, <1>2, <1>3 DEF Budgeted, Tenants
  <1>8. Paid'
    <2>1. CASE lock' = Nobody
      BY <2>1 DEF Paid
    <2>2. CASE lock' = p
      <3>1. Held(lock)' = {} /\ Orphans(lock)' = {}
        BY <1>2, <1>3, <2>2, ProcessesAssumption DEF Held, Orphans
      <3>2. Total(request, {}) = 0
        BY Zenon, BudgetTypes DEF Adding
      <3>3. reserved'[lock'] = 0 /\ unresolved'[lock'] = 0
        BY Zenon, <1>2, <1>5, <2>2
      <3>4. reserved'[lock'] = Total(request', Held(lock)') + unresolved'[lock']
              /\ unresolved'[lock'] = Total(request', Orphans(lock)')
        <4>1. Total(request', Held(lock)') = 0 /\ Total(request', Orphans(lock)') = 0
          BY Zenon, <1>2, <3>1, <3>2
        <4> QED
          BY ONLY <3>3, <4>1
      <3> QED
        BY Zenon, <3>4 DEF Paid
    <2> QED
      BY Zenon, <1>1, <2>1, <2>2
  <1>9. Lodged'
    BY Zenon, <1>1, <1>2, <1>4 DEF Lodged
  <1> QED
    BY Zenon, <1>6, <1>7, <1>8, <1>9 DEF Budgeted

(* Close gives every reservation of its process back.                      *)
LEMMA CloseKeepsBudget ==
  ASSUME NEW p \in Processes, Inv, Budgeted, Close(p) PROVE Budgeted'
  <1>1. /\ lock = p /\ lock' = Nobody
        /\ owner' = [f \in Files |-> IF owner[f] = p THEN Nobody ELSE owner[f]]
        /\ reserved' = [reserved EXCEPT ![p] = 0] /\ unresolved' = [unresolved EXCEPT ![p] = 0]
        /\ UNCHANGED <<state, held, busy, at, failed, temp>>
    BY Zenon DEF Close, call, temps
  <1>2. Budgets'
    BY Zenon, <1>1 DEF Budgeted, Budgets
  <1>3. Tenants'
    BY Zenon, <1>1 DEF Budgeted, Tenants
  <1>4. Paid' /\ Lodged'
    BY Zenon, <1>1 DEF Budgeted, Paid, Lodged
  <1> QED
    BY Zenon, <1>2, <1>3, <1>4 DEF Budgeted

(* The death of the process that holds the lock, or of none.               *)
LEMMA DiesKeepsBudget ==
  ASSUME Inv, Budgeted, Dies(lock) PROVE Budgeted'
  <1>1. Budgets'
    BY Zenon DEF Budgeted, Budgets, Dies
  <1>2. Tenants'
    BY Zenon DEF Budgeted, Tenants, Dies, Underway, Inv, Types, States
  <1>3. Paid' /\ Lodged'
    BY Zenon DEF Paid, Lodged, Dies, Returns
  <1> QED
    BY Zenon, <1>1, <1>2, <1>3 DEF Budgeted

(* Begin reserves the declared size or ends the transaction.               *)
LEMMA ReserveKeepsBudget ==
  ASSUME Adding, NEW p \in Processes, NEW f \in Files, Inv, Budgeted, Reserve(p, f) PROVE Budgeted'
  <1>1. /\ lock = p /\ state[f] = "New" /\ owner' = [owner EXCEPT ![f] = p]
        /\ UNCHANGED <<lock, request, busy, at, failed, unresolved, temp>>
    BY Zenon DEF Reserve, call, temps
  <1>2. /\ request \in Requests /\ state \in [Files -> States] /\ held \in [Files -> BOOLEAN]
        /\ owner \in [Files -> Processes \cup {Nobody}]
        /\ reserved \in [Processes -> Nat] /\ unresolved \in [Processes -> Nat]
        /\ Held(lock) \in SUBSET Files /\ lock \in Processes /\ lock # Nobody
    BY Zenon, <1>1, BudgetTypes, ProcessesAssumption
  <1>3. owner[f] = Nobody /\ held[f] = FALSE
    BY <1>1, <1>2 DEF Budgeted, Tenants, Underway
  <1>4. Lodged'
    <2>1. \A g \in temp : Housed(g)
      BY Zenon, <1>2 DEF Budgeted, Lodged
    <2>2. f \notin temp
      BY Zenon, <1>1, <2>1 DEF Housed, Orphaned
    <2>3. temp \subseteq Files
      BY DEF Inv, Types
    <2>4. bytes' = bytes /\ \A g \in Files \ {f} : state'[g] = state[g] /\ owner'[g] = owner[g]
      BY Zenon, <1>1, <1>2 DEF Reserve, data
    <2>5. \A g \in temp : Housed(g)'
      BY Zenon, <1>1, <2>1, <2>2, <2>3, <2>4 DEF Housed
    <2> QED
      BY Zenon, <1>1, <2>5 DEF Budgeted, Lodged
  <1>5. /\ reserved[lock] = Total(request, Held(lock)) + unresolved[lock]
        /\ unresolved[lock] = Total(request, Orphans(lock))
    BY Zenon, <1>2 DEF Budgeted, Paid
  <1>6. CASE /\ state' = [state EXCEPT ![f] = "Created"] /\ held' = [held EXCEPT ![f] = TRUE]
             /\ reserved' = [reserved EXCEPT ![p] = @ + request[f].size]
    <2>1. Held(lock)' = Held(lock) \cup {f} /\ f \notin Held(lock)
      BY Zenon, <1>1, <1>2, <1>3, <1>6 DEF Held
    <2>2. Orphans(lock)' = Orphans(lock)
      BY Zenon, <1>1, <1>2, <1>6 DEF Orphans, Orphaned
    <2>3. Total(request, Held(lock) \cup {f}) = Total(request, Held(lock)) + request[f].size
      <3>1. f \in Files \ Held(lock)
        BY <2>1
      <3> QED
        BY Zenon, <1>2, <3>1 DEF Adding
    <2>4. Total(request, Held(lock)) \in Nat /\ request[f].size \in Nat
      BY Zenon, <1>2, RequestSize DEF Adding
    <2>5. reserved[lock] + request[f].size = Total(request, Held(lock) \cup {f}) + unresolved[lock]
      <3>1. unresolved[lock] \in Nat
        BY Zenon, <1>2
      <3>2. (Total(request, Held(lock)) + unresolved[lock]) + request[f].size
              = (Total(request, Held(lock)) + request[f].size) + unresolved[lock]
        BY Zenon, <2>4, <3>1, AddedTo
      <3> QED
        BY Zenon, <1>5, <2>3, <3>2
    <2>6. reserved'[lock] = reserved[lock] + request[f].size
      BY Zenon, <1>1, <1>2, <1>6
    <2>7. Budgets'
      <3>1. reserved[lock] \in Nat
        BY Zenon, <1>2
      <3>2. reserved[lock] + request[f].size \in Nat
        BY Zenon, <2>4, <3>1, NatSum
      <3>3. reserved' \in [Processes -> Nat] /\ \A q \in Processes \ {lock} : reserved'[q] = reserved[q]
        BY Zenon, <1>1, <1>2, <1>6, <3>2
      <3> QED
        BY Zenon, <1>1, <3>3 DEF Budgeted, Budgets
    <2>8. Tenants'
      BY Zenon, <1>1, <1>2, <1>6 DEF Budgeted, Tenants, Underway
    <2>9. Paid'
      BY Zenon, <1>1, <1>5, <2>1, <2>2, <2>5, <2>6 DEF Paid
    <2> QED
      BY Zenon, <1>4, <2>7, <2>8, <2>9 DEF Budgeted
  <1>7. CASE state' = [state EXCEPT ![f] = "Aborted"] /\ UNCHANGED <<held, reserved>>
    <2>1. Held(lock)' = Held(lock) /\ Orphans(lock)' = Orphans(lock)
      BY <1>1, <1>2, <1>3, <1>7 DEF Held, Orphans, Orphaned
    <2>2. Budgets'
      BY Zenon, <1>1, <1>7 DEF Budgeted, Budgets
    <2>3. Tenants'
      BY <1>1, <1>2, <1>3, <1>7 DEF Budgeted, Tenants, Underway
    <2>4. Paid'
      BY Zenon, <1>1, <1>5, <1>7, <2>1 DEF Paid
    <2> QED
      BY Zenon, <1>4, <2>2, <2>3, <2>4 DEF Budgeted
  <1> QED
    BY Zenon, <1>6, <1>7 DEF Reserve

(* CreateTemporary: the new file belongs to an open transaction.           *)
LEMMA CreateKeepsBudget ==
  ASSUME Adding, NEW f \in Files, Inv, Budgeted, Create(f) PROVE Budgeted'
  <1>1. busy = NoFile /\ state[f] = "Created" /\ UNCHANGED <<lock, busy, at, failed>>
    BY Zenon DEF Create, Idle, call
  <1>2. at = "idle" /\ owner[f] = lock /\ lock # Nobody
    BY Zenon, <1>1 DEF Inv, Serving, Underway
  <1>3. /\ state \in [Files -> States] /\ held \in [Files -> BOOLEAN] /\ temp \subseteq Files
    BY DEF Inv, Types
  <1>4. \A g \in temp : Housed(g)
    BY Zenon, <1>2 DEF Budgeted, Lodged
  <1>5. f \notin temp
    BY Zenon, <1>1, <1>4 DEF Housed, Orphaned
  <1>6. bytes' = bytes /\ bytes[f] = 0
    BY Zenon, <1>1 DEF Create, data, Inv, Contents
  <1>7. CASE /\ temp' = temp \cup {f} /\ state' = [state EXCEPT ![f] = "Receiving"]
             /\ UNCHANGED <<owner, held, request, reserved, unresolved>>
    <2>1. Held(lock)' = Held(lock) /\ Orphans(lock)' = Orphans(lock)
      BY <1>1, <1>3, <1>7 DEF Held, Orphans, Orphaned
    <2>2. Budgets'
      BY Zenon, <1>1, <1>7 DEF Budgeted, Budgets
    <2>3. Tenants'
      BY <1>1, <1>3, <1>7 DEF Budgeted, Tenants, Underway
    <2>4. Paid'
      BY Zenon, <1>1, <1>7, <2>1 DEF Budgeted, Paid
    <2>5. \A g \in temp' : Housed(g)'
      BY Zenon, <1>1, <1>2, <1>3, <1>4, <1>5, <1>6, <1>7 DEF Housed
    <2>6. Lodged'
      BY Zenon, <1>1, <1>2, <2>5 DEF Lodged
    <2> QED
      BY Zenon, <2>2, <2>3, <2>4, <2>6 DEF Budgeted
  <1>8. CASE /\ ReleaseReservation(f) /\ Becomes(f, "Aborted")
             /\ temp' \in {temp, temp \cup {f}}
    <2>1. Budgets' /\ Tenants' /\ Paid'
      BY <1>1, <1>8, ReleaseKeepsBudget DEF Underway
    <2>2. /\ state'[f] = "Aborted" /\ owner' = owner /\ temp' \subseteq temp \cup {f}
          /\ \A g \in Files \ {f} : state'[g] = state[g]
      BY Zenon, <1>3, <1>8 DEF Becomes
    <2>3. \A g \in temp : Housed(g)'
      BY Zenon, <1>1, <1>3, <1>4, <1>5, <1>6, <2>2 DEF Housed
    <2>4. Housed(f)'
      BY Zenon, <1>6, <2>2 DEF Housed
    <2>5. Lodged'
      BY Zenon, <1>1, <1>2, <2>2, <2>3, <2>4 DEF Lodged
    <2> QED
      BY Zenon, <2>1, <2>5 DEF Budgeted
  <1> QED
    BY Zenon, <1>7, <1>8 DEF Create, budget

(* The steps between two system calls of a transaction move no byte of the *)
(* budget; only an unlink moves a file, and only away.                     *)
LEMMA QuietKeepsBudget ==
  ASSUME Inv, Budgeted,
         UNCHANGED <<lock, state, owner, held, request, reserved, unresolved>>,
         temp' \subseteq temp,
         \A g \in Files : state[g] = "Aborted" => bytes'[g] = bytes[g],
         at' \in {"sync", "sync temp"} /\ ~failed' => busy' \notin temp'
  PROVE  Budgeted'
  <1>1. Budgets' /\ Tenants' /\ Paid'
    BY Zenon, QuietBudget
  <1>2. lock # Nobody => \A g \in temp' : Housed(g)'
    BY Zenon DEF Budgeted, Lodged, Housed, Inv, Types
  <1>3. Lodged'
    BY Zenon, <1>2 DEF Lodged
  <1> QED
    BY Zenon, <1>1, <1>3 DEF Budgeted

(* Write starts a cleanup or moves no file.                                *)
LEMMA WriteKeepsBudget ==
  ASSUME NEW f \in Files, NEW n, Inv, Budgeted, Write(f, n) PROVE Budgeted'
  <1>1. /\ UNCHANGED <<lock, state, owner, held, request, reserved, unresolved, temp>>
        /\ UNCHANGED call \/ StartCleanup(f)
    BY Zenon DEF Write, budget, temps
  <1>2. at' \in {"sync", "sync temp"} /\ ~failed' => busy' \notin temp'
    BY Zenon, <1>1 DEF call, StartCleanup, Budgeted, Lodged
  <1>3. \A g \in Files : state[g] = "Aborted" => bytes'[g] = bytes[g]
    <2>1. state[f] = "Receiving" /\ \A g \in Files \ {f} : bytes'[g] = bytes[g]
      BY Zenon DEF Write, Inv, Types
    <2> QED
      BY Zenon, <2>1
  <1> QED
    BY Zenon, <1>1, <1>2, <1>3, QuietKeepsBudget

(* SealAndCommit starts a commit or a cleanup.                             *)
LEMMA SealKeepsBudget ==
  ASSUME NEW f \in Files, Inv, Budgeted, Seal(f) PROVE Budgeted'
  <1>1. /\ UNCHANGED <<lock, state, owner, held, request, reserved, unresolved, temp, bytes>>
        /\ at' = "link" \/ StartCleanup(f)
    BY Zenon DEF Seal, txn, budget, temps
  <1>2. at' \in {"sync", "sync temp"} /\ ~failed' => busy' \notin temp'
    BY Zenon, <1>1 DEF StartCleanup
  <1> QED
    BY Zenon, <1>1, <1>2, QuietKeepsBudget

(* Abort starts a cleanup, or ends a transaction that has reserved nothing. *)
LEMMA AbortKeepsBudget ==
  ASSUME NEW f \in Files, Inv, Budgeted, Abort(f) PROVE Budgeted'
  <1>1. UNCHANGED <<lock, reserved, unresolved, temp, bytes>>
    BY Zenon DEF Abort, budget, temps, data
  <1>2. CASE StartCleanup(f) /\ UNCHANGED txn
    <2>1. UNCHANGED <<state, owner, held, request>>
      BY Zenon, <1>2 DEF txn
    <2>2. at' \in {"sync", "sync temp"} /\ ~failed' => busy' \notin temp'
      BY <1>2 DEF StartCleanup
    <2> QED
      BY Zenon, <1>1, <2>1, <2>2, QuietKeepsBudget
  <1>3. CASE state[f] = "New" /\ Becomes(f, "Aborted") /\ UNCHANGED call
    <2>1. /\ state' = [state EXCEPT ![f] = "Aborted"] /\ held' = [held EXCEPT ![f] = FALSE]
          /\ UNCHANGED <<owner, request, busy, at, failed>>
      BY Zenon, <1>3 DEF Becomes, call
    <2>2. /\ state \in [Files -> States] /\ held \in [Files -> BOOLEAN] /\ temp \subseteq Files
      BY DEF Inv, Types
    <2>3. held[f] = FALSE
      BY Zenon, <1>3, <2>2 DEF Budgeted, Tenants, Underway
    <2>4. Held(lock)' = Held(lock) /\ Orphans(lock)' = Orphans(lock)
      BY <1>1, <1>3, <2>1, <2>2, <2>3 DEF Held, Orphans, Orphaned
    <2>5. Budgets'
      BY <1>1 DEF Budgeted, Budgets
    <2>6. Tenants'
      BY <1>1, <1>3, <2>1, <2>2 DEF Budgeted, Tenants, Underway
    <2>7. Paid'
      BY Zenon, <1>1, <2>1, <2>4 DEF Budgeted, Paid
    <2>8. Lodged'
      <3>1. lock # Nobody => f \notin temp
        BY Zenon, <1>3 DEF Budgeted, Lodged, Housed, Orphaned
      <3>2. lock # Nobody => \A g \in temp : Housed(g)'
        BY Zenon, <1>1, <2>1, <2>2, <3>1 DEF Budgeted, Lodged, Housed
      <3> QED
        BY Zenon, <1>1, <2>1, <3>2 DEF Budgeted, Lodged
    <2> QED
      BY Zenon, <2>5, <2>6, <2>7, <2>8 DEF Budgeted
  <1> QED
    BY Zenon, <1>2, <1>3 DEF Abort

(* The system calls of CleanupTemporary and CommitTemporary.               *)
LEMMA CallsKeepBudget ==
  ASSUME Inv, Budgeted, CleanupUnlink \/ CommitLink \/ CommitSyncParent \/ CommitUnlink
  PROVE  Budgeted'
  <1>1. UNCHANGED <<lock, state, owner, held, request, reserved, unresolved, bytes>>
    BY Zenon DEF CleanupUnlink, CommitLink, CommitSyncParent, CommitUnlink, txn, budget, data
  <1>2. temp' \subseteq temp
    BY Zenon DEF CleanupUnlink, CommitLink, CommitSyncParent, CommitUnlink, temps
  <1>3. at' \in {"sync", "sync temp"} /\ ~failed' => busy' \notin temp'
    BY Zenon DEF CleanupUnlink, CommitLink, CommitSyncParent, CommitUnlink, AfterSyncParent
  <1> QED
    BY Zenon, <1>1, <1>2, <1>3, QuietKeepsBudget

(* The end of CleanupTemporary and of CommitTemporary: the bytes of a file *)
(* that may still be there stay reserved.                                  *)
LEMMA FinishKeepsBudget ==
  ASSUME Adding, Inv, Budgeted, CleanupFinish \/ CommitFinish PROVE Budgeted'
  <1>1. /\ at \in {"sync", "sync temp"} /\ lock' = lock /\ temp' = temp /\ at' = "idle"
        /\ bytes' = bytes
        /\ \/ /\ ~failed /\ ReleaseReservation(busy)
              /\ \E s \in {"Aborted", "Committed"} : Becomes(busy, s)
           \/ MarkUnresolved(busy) /\ \E s \in Orphaned : Becomes(busy, s)
    BY Zenon DEF CleanupFinish, CommitFinish, Returns, Orphaned, data
  <1>2. busy \in Files /\ state[busy] = "Receiving"
    BY Zenon, <1>1 DEF Inv, Types, Serving
  <1>3. state[busy] \in Underway /\ owner[busy] = lock /\ lock # Nobody
    BY <1>2 DEF Inv, Serving, Underway
  <1>4. state \in [Files -> States] /\ temp \subseteq Files
    BY DEF Inv, Types
  <1>5. \A g \in temp : Housed(g)
    BY Zenon, <1>3 DEF Budgeted, Lodged
  <1>6. CASE /\ ~failed /\ ReleaseReservation(busy)
             /\ \E s \in {"Aborted", "Committed"} : Becomes(busy, s)
    <2>1. Budgets' /\ Tenants' /\ Paid'
      BY Zenon, <1>1, <1>2, <1>3, <1>6, ReleaseKeepsBudget
    <2>2. busy \notin temp
      BY Zenon, <1>1, <1>6 DEF Budgeted, Lodged
    <2>3. \A g \in temp : Housed(g)'
      BY Zenon, <1>1, <1>2, <1>4, <1>5, <1>6, <2>2 DEF Housed, Becomes
    <2>4. Lodged'
      BY Zenon, <1>1, <2>3 DEF Lodged
    <2> QED
      BY Zenon, <2>1, <2>4 DEF Budgeted
  <1>7. CASE MarkUnresolved(busy) /\ \E s \in Orphaned : Becomes(busy, s)
    <2>1. Budgets' /\ Tenants' /\ Paid'
      BY Zenon, <1>1, <1>2, <1>3, <1>7, MarkKeepsBudget
    <2>2. \A g \in temp : Housed(g)'
      BY Zenon, <1>1, <1>2, <1>3, <1>4, <1>5, <1>7 DEF Housed, Becomes
    <2>3. Lodged'
      BY Zenon, <1>1, <2>2 DEF Lodged
    <2> QED
      BY Zenon, <2>1, <2>3 DEF Budgeted
  <1> QED
    BY Zenon, <1>1, <1>6, <1>7

(* Every step keeps the budget's invariant.                                *)
LEMMA NextKeepsBudget ==
  ASSUME Adding, Inv, Budgeted, [Next]_vars PROVE Budgeted'
  <1>1. ASSUME NEW p \in Processes, Open(p) \/ Close(p) \/ Kill(p) PROVE Budgeted'
    BY <1>1, OpenKeepsBudget, CloseKeepsBudget, DiesKeepsBudget DEF Kill
  <1>2. ASSUME NEW f \in Files, Create(f) \/ Abort(f) \/ Seal(f) PROVE Budgeted'
    BY <1>2, CreateKeepsBudget, AbortKeepsBudget, SealKeepsBudget
  <1>3. CASE CleanupUnlink \/ CleanupFinish \/ CommitLink \/ CommitSyncParent
               \/ CommitUnlink \/ CommitFinish
    BY Zenon, <1>3, CallsKeepBudget, FinishKeepsBudget
  <1>4. CASE PowerLoss
    BY Zenon, <1>4, DiesKeepsBudget DEF PowerLoss
  <1>5. CASE UNCHANGED vars
    <2>1. UNCHANGED <<lock, state, owner, held, request, reserved, unresolved, temp, busy, at, failed,
                    bytes>>
      BY <1>5 DEF vars, txn, call, budget, temps, data
    <2>2. Lodged
      BY DEF Budgeted
    <2> QED
      BY Zenon, <2>1, <2>2, QuietKeepsBudget DEF Lodged
  <1> QED
    BY Zenon, <1>1, <1>2, <1>3, <1>4, <1>5, ReserveKeepsBudget, WriteKeepsBudget DEF Next


-----------------------------------------------------------------------------
(* Sums of declared bytes.                                                 *)

INSTANCE FiniteSetTheorems

(* The elements of two finite sets that have nothing in common add up.     *)
LEMMA DisjointUnion ==
  ASSUME NEW A, NEW B, IsFiniteSet(A), IsFiniteSet(B), A \cap B = {}
  PROVE  Cardinality(A \cup B) = Cardinality(A) + Cardinality(B)
  <1>1. Cardinality(A) \in Nat /\ Cardinality(B) \in Nat
    BY Zenon, FS_CardinalityType
  <1>2. Cardinality(A \cup B) = Cardinality(A) + Cardinality(B) - Cardinality(A \cap B)
    BY FS_Union
  <1>3. Cardinality(A \cap B) = 0
    BY FS_EmptySet
  <1> QED
    BY Zenon, <1>1, <1>2, <1>3, NothingLess

(* The bytes of finitely many files are finitely many.                     *)
LEMMA BytesFinite ==
  ASSUME NEW r \in Requests, NEW S \in SUBSET Files
  PROVE  IsFiniteSet(UNION {{f} \X (1 .. r[f].size) : f \in S})
  <1> DEFINE part == [f \in S |-> {f} \X (1 .. r[f].size)]
             parts == {{f} \X (1 .. r[f].size) : f \in S}
  <1>1. IsFiniteSet(S)
    BY FilesAssumption, FS_Subset
  <1>2. part \in Surjection(S, parts)
    BY Zenon DEF Surjection
  <1>3. IsFiniteSet(parts)
    <2> HIDE DEF part, parts
    <2> QED
      BY <1>1, <1>2, FS_Surjection
  <1>4. \A f \in S : IsFiniteSet({f} \X (1 .. r[f].size))
    <2> TAKE f \in S
    <2>1. r[f].size \in Int
      BY Zenon, RequestSize
    <2>2. IsFiniteSet(1 .. r[f].size)
      BY <2>1, FS_Interval
    <2>3. IsFiniteSet({f})
      BY Zenon, FS_Singleton
    <2> QED
      BY Zenon, <2>2, <2>3, FS_Product
  <1>5. \A T \in parts : IsFiniteSet(T)
    BY Zenon, <1>4
  <1> QED
    BY Zenon, <1>3, <1>5, FS_UNION

(* No file has no bytes, and a sum over files is a natural number.         *)
LEMMA TotalNat ==
  ASSUME NEW r \in Requests, NEW S \in SUBSET Files
  PROVE  Total(r, S) \in Nat /\ Total(r, {}) = 0
  <1>1. Total(r, S) \in Nat
    BY Zenon, BytesFinite, FS_CardinalityType DEF Total
  <1>2. UNION {{f} \X (1 .. r[f].size) : f \in {}} = {}
    BY Zenon
  <1> QED
    BY <1>1, <1>2, FS_EmptySet DEF Total

(* More files have at least as many bytes, and the bytes of files that     *)
(* have nothing in common add up.                                          *)
LEMMA TotalUnion ==
  ASSUME NEW r \in Requests, NEW S \in SUBSET Files, NEW T \in SUBSET Files, S \cap T = {}
  PROVE  Total(r, S \cup T) = Total(r, S) + Total(r, T)
  <1> DEFINE BytesOf(U) == UNION {{f} \X (1 .. r[f].size) : f \in U}
  <1>1. IsFiniteSet(BytesOf(S)) /\ IsFiniteSet(BytesOf(T))
    BY Zenon, BytesFinite
  <1>2. BytesOf(S \cup T) = BytesOf(S) \cup BytesOf(T)
    BY Zenon
  <1>3. BytesOf(S) \cap BytesOf(T) = {}
    OBVIOUS
  <1>4. Total(r, S) = Cardinality(BytesOf(S)) /\ Total(r, T) = Cardinality(BytesOf(T))
          /\ Total(r, S \cup T) = Cardinality(BytesOf(S \cup T))
    BY DEF Total
  <1> HIDE DEF BytesOf
  <1>5. Cardinality(BytesOf(S) \cup BytesOf(T)) = Cardinality(BytesOf(S)) + Cardinality(BytesOf(T))
    BY <1>1, <1>3, DisjointUnion
  <1> QED
    BY Zenon, <1>2, <1>4, <1>5

(* The bytes of one file are the size of its request.                      *)
LEMMA TotalOne ==
  ASSUME NEW r \in Requests, NEW f \in Files PROVE Total(r, {f}) = r[f].size
  <1> DEFINE n == r[f].size
  <1>1. n \in Nat
    BY RequestSize
  <1>2. UNION {{g} \X (1 .. r[g].size) : g \in {f}} = {f} \X (1 .. n)
    OBVIOUS
  <1> HIDE DEF n
  <1>3. IsFiniteSet({f}) /\ Cardinality({f}) = 1
    BY FS_Singleton
  <1>4. IsFiniteSet(1 .. n) /\ Cardinality(1 .. n) = n
    <2>1. 1 \in Int /\ n \in Int
      BY <1>1
    <2>2. IsFiniteSet(1 .. n) /\ Cardinality(1 .. n) = IF 1 > n THEN 0 ELSE n - 1 + 1
      BY Zenon, <2>1, FS_Interval
    <2> QED
      BY <1>1, <2>2
  <1>5. Cardinality({f} \X (1 .. n)) = Cardinality({f}) * Cardinality(1 .. n)
    BY Zenon, <1>3, <1>4, FS_Product
  <1>6. Cardinality({f} \X (1 .. n)) = n
    BY <1>1, <1>3, <1>4, <1>5
  <1> QED
    BY Zenon, <1>2, <1>6 DEF Total, n

(* What one file more adds.                                                *)
LEMMA TotalMore ==
  ASSUME NEW r \in Requests, NEW S \in SUBSET Files, NEW f \in Files \ S
  PROVE  Total(r, S \cup {f}) = Total(r, S) + r[f].size
  <1>1. S \cap {f} = {} /\ {f} \in SUBSET Files /\ f \in Files
    OBVIOUS
  <1>2. Total(r, S \cup {f}) = Total(r, S) + Total(r, {f})
    BY Zenon, <1>1, TotalUnion
  <1>3. Total(r, {f}) = r[f].size
    BY Zenon, <1>1, TotalOne
  <1> QED
    BY Zenon, <1>2, <1>3

(* Fewer files need no more bytes.                                         *)
LEMMA TotalLess ==
  ASSUME NEW r \in Requests, NEW T \in SUBSET Files, NEW S \in SUBSET T
  PROVE  Total(r, S) <= Total(r, T)
  <1>1. T = S \cup (T \ S) /\ S \cap (T \ S) = {}
    BY Zenon
  <1>2. Total(r, T) = Total(r, S) + Total(r, T \ S)
    BY <1>1, TotalUnion
  <1>3. Total(r, S) \in Nat /\ Total(r, T \ S) \in Nat
    BY TotalNat
  <1> QED
    BY <1>2, <1>3

(* Declared bytes add up.                                                  *)
LEMMA AddingHolds == Adding
  BY Zenon, TotalNat, TotalMore DEF Adding

(* The reservations of the process that holds the root are the declared    *)
(* bytes of its open transactions and of its orphans, and every file in    *)
(* the temporary directory is one of theirs or the empty leftover of a     *)
(* failed creation: no order of failed unlinks, uncertain commits, kills,  *)
(* restarts and power losses leaves bytes on the disk that the budget does *)
(* not count, nor takes a live file.                                       *)
THEOREM TemporariesArePaidFor == Spec => []TemporariesAccounted
  <1>1. Inv /\ Budgeted => TemporariesAccounted
    <2> SUFFICES ASSUME Inv, Budgeted PROVE TemporariesAccounted
      OBVIOUS
    <2>1. SUFFICES ASSUME lock # Nobody
                   PROVE  /\ reserved[lock] = Declared(Held(lock)) + unresolved[lock]
                          /\ Declared(temp \ Stray) <= reserved[lock]
                          /\ \A f \in Stray : bytes[f] = 0
      BY Zenon DEF TemporariesAccounted, BudgetCoversTemporaries, Inv
    <2>2. /\ request \in Requests /\ Held(lock) \in SUBSET Files /\ Orphans(lock) \in SUBSET Files
      BY BudgetTypes
    <2>3. /\ reserved[lock] = Total(request, Held(lock)) + unresolved[lock]
          /\ unresolved[lock] = Total(request, Orphans(lock))
      BY Zenon, <2>1 DEF Budgeted, Paid
    <2>4. Held(lock) \cap Orphans(lock) = {}
      BY DEF Budgeted, Tenants, Held, Orphans, Orphaned, Underway
    <2>5. temp \subseteq Files /\ \A f \in temp : Housed(f)
      BY Zenon, <2>1 DEF Budgeted, Lodged, Inv, Types
    <2>6. \A f \in Stray : bytes[f] = 0
      BY Zenon, <2>5 DEF Stray, Housed, Orphaned
    <2>7. temp \ Stray \subseteq Held(lock) \cup Orphans(lock)
      BY Zenon, <2>5 DEF Budgeted, Tenants, Held, Orphans, Underway, Stray, Housed
    <2>8. Total(request, Held(lock) \cup Orphans(lock))
            = Total(request, Held(lock)) + Total(request, Orphans(lock))
      BY Zenon, <2>2, <2>4, TotalUnion
    <2>9. Total(request, temp \ Stray) <= Total(request, Held(lock) \cup Orphans(lock))
      <3>1. Held(lock) \cup Orphans(lock) \in SUBSET Files
              /\ temp \ Stray \in SUBSET (Held(lock) \cup Orphans(lock))
        BY <2>2, <2>7
      <3> QED
        BY Zenon, <2>2, <3>1, TotalLess
    <2>10. Total(request, temp \ Stray) <= reserved[lock]
      BY Zenon, <2>3, <2>8, <2>9
    <2> QED
      BY Zenon, <2>3, <2>6, <2>10, DeclaredTotal
  <1>2. Inv /\ Budgeted /\ [Next]_vars => Budgeted'
    BY NextKeepsBudget, AddingHolds
  <1>3. Spec => []Budgeted
    BY <1>2, InitBudgeted, StorageInvariant, PTL DEF Spec
  <1> QED
    BY <1>1, <1>3, StorageInvariant, PTL
=============================================================================
