------------------------------ MODULE MCPeerView ------------------------------
(* The view with small sets of observations and devices for TLC.              *)
EXTENDS PeerView

CONSTANTS o1, o2, d1, d2

OnePeer == {o1}
TwoPeers == {o1, o2}
TwoDevices == {d1, d2}

\* Observations and devices are told apart by nothing.
Symmetry == Permutations(Peers) \cup Permutations(Devices)

\* Both observations are paired and shown, and one attempt is left: where the
\* trust snapshot has two pages.
PairedInit ==
  /\ active = NoAttempt /\ pages = "none" /\ open = TRUE
  /\ trust = <<Entry(o1, d1), Entry(o2, d2)>> /\ durable = {d1, d2}
  /\ queue = << >> /\ near = Peers /\ gone = {}
  /\ owner = NoSession /\ last = MaxAttempts - 1
  /\ thread = [net |-> Resting, ui |-> Resting]
  /\ up = "ready" /\ isolate = "idle" /\ page = NewPage("none", 1)
  /\ streams = [s \in Streams |-> << >>] /\ tasks = << >>
  /\ gateway = [peers |-> Peers, trusts |-> (o1 :> 1) @@ (o2 :> 2), published |-> 0]
  /\ view = [NoView EXCEPT !.peers = [p \in Peers |-> "authenticated"]]
  /\ picker = NothingPicked /\ astray = {} /\ wishes = 0
  /\ calm = TRUE /\ crossed = {}
PairedSpec == PairedInit /\ [][Next]_all

==============================================================================
