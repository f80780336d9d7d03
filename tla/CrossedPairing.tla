---------------------------- MODULE CrossedPairing ----------------------------
(***************************************************************************)
(* Two devices connect to each other for pairing at the same time.  Each    *)
(* decides on its own, when the handshake of a connection completes, which   *)
(* of the two it keeps: BeginPairing (session/connection_runtime.cpp) with    *)
(* the rules of PairingAdmissionController::Bind (session/admission.cpp);     *)
(* and each displays the string of a connection when its attempt reaches      *)
(* CompleteSelection (session/pairing.cpp).                                   *)
(*                                                                         *)
(* The windows of both devices stay open and each device opens one            *)
(* connection.  The device "a" has the smaller key.  A connection is named    *)
(* after its initiator.  What is left of the ceremony is the exchange that    *)
(* leads to the display: Hello both ways, Select, SelectAck; what follows is  *)
(* in PairingCeremony, and admission with other peers in PairingAdmission.    *)
(***************************************************************************)
Devices == {"a", "b"}
Other(d) == IF d = "a" THEN "b" ELSE "a"
Connections == Devices
Responder(c) == Other(c)

VARIABLES
  phase,     \* of a connection at a device: idle, handshake, attempt, shown, closed
  sent,      \* the frames a device has sent on a connection
  lost,      \* history: the connections that the tie-break ended somewhere
  displayed  \* history: the pairs of device and connection displayed so far

vars == <<phase, sent, lost, displayed>>

Init ==
  /\ phase = [d \in Devices |-> [c \in Connections |-> "idle"]]
  /\ sent = [d \in Devices |-> [c \in Connections |-> {}]]
  /\ lost = {}
  /\ displayed = {}

Sends(d, c, f) == sent' = [sent EXCEPT ![d][c] = @ \cup {f}]

\* StartClientHandshake at the initiator, DoAccept at the responder.
Connect(c) ==
  /\ phase[c][c] = "idle"
  /\ phase' = [d \in Devices |-> [phase[d] EXCEPT ![c] = "handshake"]]
  /\ UNCHANGED <<sent, lost, displayed>>

\* The client's side of a TLS handshake completes first.
Completed(d, c) == phase[d][c] = "handshake" /\ (d # c => phase[c][c] # "handshake")

\* Mutated: only connections in the same direction are duplicates.
IgnoresCrossed(d, c) == FALSE

\* The other connection of the pair of keys is bound at d.
Duplicate(d, c) == phase[d][Other(c)] \in {"attempt", "shown"}

\* The rule of Bind for a connection c whose duplicate is bound: it takes the
\* duplicate's place unless that is displayed, or c's initiator is not the
\* device with the smaller key.
Displaces(d, c) == phase[d][Other(c)] # "shown" /\ c = "a"

\* BeginPairing with an accepted lease: the displaced connection is stopped,
\* and the new attempt sends its Hello.
BeginPairing(d, c) ==
  /\ Completed(d, c)
  /\ IF Duplicate(d, c)
     THEN /\ Displaces(d, c)
          /\ phase' = [phase EXCEPT ![d][c] = "attempt", ![d][Other(c)] = "closed"]
          /\ lost' = lost \cup {Other(c)}
     ELSE /\ phase' = [phase EXCEPT ![d][c] = "attempt"]
          /\ UNCHANGED lost
  /\ Sends(d, c, "Hello")
  /\ UNCHANGED displayed

\* BeginPairing with a refused lease.
RefusePairing(d, c) ==
  /\ Completed(d, c)
  /\ Duplicate(d, c) /\ ~Displaces(d, c)
  /\ phase' = [phase EXCEPT ![d][c] = "closed"]
  /\ lost' = lost \cup {c}
  /\ UNCHANGED <<sent, displayed>>

\* ReceiveHello at the initiator, which sends its selection.
SendSelect(c) ==
  /\ phase[c][c] = "attempt"
  /\ "Hello" \in sent[Responder(c)][c] /\ "Select" \notin sent[c][c]
  /\ Sends(c, c, "Select")
  /\ UNCHANGED <<phase, lost, displayed>>

\* ReceiveSelection at the responder, which sends the acknowledgement.
SendSelectAck(c) ==
  /\ phase[Responder(c)][c] = "attempt"
  /\ "Select" \in sent[c][c] /\ "SelectAck" \notin sent[Responder(c)][c]
  /\ Sends(Responder(c), c, "SelectAck")
  /\ UNCHANGED <<phase, lost, displayed>>

\* CompleteSelection: at the initiator when the acknowledgement arrives, at
\* the responder when the completion handler of its write runs.  MarkVisible
\* refuses a second display.
CompleteSelection(d, c) ==
  /\ phase[d][c] = "attempt"
  /\ "SelectAck" \in sent[Responder(c)][c]
  /\ IF phase[d][Other(c)] = "shown"
     THEN /\ phase' = [phase EXCEPT ![d][c] = "closed"]
          /\ UNCHANGED displayed
     ELSE /\ phase' = [phase EXCEPT ![d][c] = "shown"]
          /\ displayed' = displayed \cup {<<d, c>>}
  /\ UNCHANGED <<sent, lost>>

\* The frame that the end d of c reads before the end of the stream.
Unread(d, c) ==
  /\ phase[d][c] = "attempt" /\ d = c
  /\ "SelectAck" \in sent[Responder(c)][c]

\* The other end has closed the connection.
PeerCloses(d, c) ==
  /\ phase[d][c] \in {"handshake", "attempt", "shown"}
  /\ phase[Other(d)][c] = "closed" /\ ~Unread(d, c)
  /\ phase' = [phase EXCEPT ![d][c] = "closed"]
  /\ UNCHANGED <<sent, lost, displayed>>

\* The connection fails, or its user cancels it.
Fails(d, c) ==
  /\ phase[d][c] \in {"handshake", "attempt", "shown"}
  /\ phase' = [phase EXCEPT ![d][c] = "closed"]
  /\ UNCHANGED <<sent, lost, displayed>>

Next ==
  \/ \E c \in Connections : Connect(c) \/ SendSelect(c) \/ SendSelectAck(c)
  \/ \E d \in Devices, c \in Connections :
       \/ BeginPairing(d, c) \/ RefusePairing(d, c) \/ CompleteSelection(d, c)
       \/ PeerCloses(d, c) \/ Fails(d, c)

Spec == Init /\ [][Next]_vars

------------------------------------------------------------------------------
(* Properties.                                                               *)

\* The two users never look at the strings of two different connections at
\* once, which would make them reject each other (Bind and MarkVisible).
SameConnectionShown ==
  \A c, e \in Connections : phase["a"][c] = "shown" /\ phase["b"][e] = "shown" => c = e

\* A connection that the tie-break of Bind ends at one device is displayed
\* at neither.
LosersAreNotShown == \A c \in lost, d \in Devices : <<d, c>> \notin displayed

==============================================================================
