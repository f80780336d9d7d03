--------------------------- MODULE SessionAuthority ---------------------------
(***************************************************************************)
(* The sessions of one process (session/authority.cpp) on its identity       *)
(* repository: established TLS channels (session/channels.cpp) that remember   *)
(* the key, the record and the identity they were made with, and the           *)
(* authority that answers, at every use, whether a session still stands.       *)
(*                                                                         *)
(* The repository is used by one thread of the process, so that a call of the  *)
(* authority happens between calls of the repository, except Revoke, which      *)
(* makes one.  Handles are drawn at random and stand for the session itself;   *)
(* an Activate that finds no handle, no room or no memory fails.  There is     *)
(* one security profile.                                                      *)
(***************************************************************************)
EXTENDS IdentityRepository

CONSTANTS
  Owner,      \* the process
  Sessions,   \* bound: channels and sessions at a time
  MaxPending, \* bound: channels that are not yet sessions
  NoSession   \* no session

ASSUME SessionAssumption ==
  Owner \in Procs /\ NoSession \notin Sessions /\ MaxPending \in Nat

VARIABLES
  channel,   \* the channel of each session, as its handshake made it
  entries,   \* the sessions of the authority
  shut,      \* shutdown
  revoking,  \* the session whose Revoke is in the repository
  revoked    \* history: sessions that went with a Revoke of their peer

authority == <<channel, entries, shut, revoking, revoked>>
sessionvars == <<vars, authority>>

\* A channel that is free; bound holds what of the transport binding is done.
NoChannel == [key |-> NoKey, rev |-> 0, root |-> 0, bound |-> {}, same |-> FALSE]
Binding == {"prepared", "written", "verified"}

InitSessions ==
  /\ Init
  /\ channel = [s \in Sessions |-> NoChannel]
  /\ entries = {} /\ shut = FALSE /\ revoking = NoSession /\ revoked = {}

Idle == ready[Owner] /\ pc[Owner] = "idle"

\* FindPeer, by the device id that its key gives; none or one record.
FindPeer(k) == {r \in Present(peers[Owner]) : peers[Owner][r].key = k}

Used(s) == channel[s] # NoChannel

SetChannel(s, c) == channel' = [channel EXCEPT ![s] = c]

------------------------------------------------------------------------------
(* Channels.                                                                 *)

\* EstablishedTlsChannel::Create after a handshake with an active peer.
CreateChannel(s, k) ==
  /\ Idle /\ ~Used(s) /\ s \notin revoked
  /\ Cardinality({t \in Sessions \ entries : Used(t)}) < MaxPending
  /\ \E r \in FindPeer(k) :
       /\ peers[Owner][r].trust = "active"
       /\ SetChannel(s, [key |-> k, rev |-> peers[Owner][r].rev, root |-> mine[Owner].rev,
                         bound |-> {}, same |-> TRUE])
  /\ UNCHANGED <<vars, entries, shut, revoking, revoked>>

\* BeginTransportBinding, on the connection of the handshake.
BeginTransportBinding(s) ==
  /\ Used(s) /\ channel[s].bound = {} /\ channel[s].same
  /\ SetChannel(s, [channel[s] EXCEPT !.bound = {"prepared"}])
  /\ UNCHANGED <<vars, entries, shut, revoking, revoked>>

\* LocalTransportFinishedWritten or VerifyPeerTransportFinished.
Finished(s, step) ==
  /\ "prepared" \in channel[s].bound /\ step \notin channel[s].bound
  /\ SetChannel(s, [channel[s] EXCEPT !.bound = @ \cup {step}])
  /\ UNCHANGED <<vars, entries, shut, revoking, revoked>>

\* The connection under the channel is used for another handshake.
Reused(s) ==
  /\ Used(s) /\ channel[s].same
  /\ SetChannel(s, [channel[s] EXCEPT !.same = FALSE])
  /\ UNCHANGED <<vars, entries, shut, revoking, revoked>>

\* transport_bound and current_transport.
CurrentTransport(s) == channel[s].bound = Binding /\ channel[s].same

------------------------------------------------------------------------------
(* The authority.                                                            *)

\* Mutated: the revision of the identity is not compared.
AnyIdentity(s) ==
  \E r \in FindPeer(channel[s].key) :
    /\ peers[Owner][r].trust = "active" /\ peers[Owner][r].rev = channel[s].rev

\* The record of the peer is the one the channel was made with.
SameRecord(s) ==
  /\ mine[Owner].rev = channel[s].root
  /\ \E r \in FindPeer(channel[s].key) :
       peers[Owner][r].trust = "active" /\ peers[Owner][r].rev = channel[s].rev

\* Implementation::Current.
Current(s) == ~shut /\ ready[Owner] /\ CurrentTransport(s) /\ SameRecord(s)

\* IsAuthorized; a call of the repository is never under way then.
IsAuthorized(s) == s \in entries /\ Current(s)

Free(ss) == channel' = [s \in Sessions |-> IF s \in ss THEN NoChannel ELSE channel[s]]

\* Activate takes the channel; when it fails the channel is gone.
Activate(s) ==
  /\ Idle /\ Used(s) /\ s \notin entries
  /\ \/ ~shut /\ CurrentTransport(s) /\ SameRecord(s) /\ entries' = entries \cup {s}
        /\ UNCHANGED channel
     \/ Free({s}) /\ UNCHANGED entries
  /\ UNCHANGED <<vars, shut, revoking, revoked>>

Deactivate(s) ==
  /\ Idle /\ s \in entries
  /\ entries' = entries \ {s} /\ Free({s})
  /\ UNCHANGED <<vars, shut, revoking, revoked>>

\* Revoke: the repository is asked to revoke the peer of a current session.
BeginRevoke(s) ==
  /\ IsAuthorized(s)
  /\ \E r \in FindPeer(channel[s].key) : RevokePeer(Owner, r)
  /\ revoking' = s
  /\ UNCHANGED <<channel, entries, shut, revoked>>

\* Mutated: only the session named ends.
OnlyThis(s) == {s}

\* The sessions that end with the peer's revocation.
SessionsOfPeer(s) == {t \in entries : channel[t].key = channel[s].key}

\* The store's answer: with success the sessions of the peer are erased.
EndRevoke ==
  /\ revoking # NoSession
  /\ \/ /\ Exchange(Owner)
        /\ IF items' # items
           THEN /\ entries' = entries \ SessionsOfPeer(revoking)
                /\ revoked' = revoked \cup {t \in entries : channel[t].key = channel[revoking].key}
                /\ Free(SessionsOfPeer(revoking))
           ELSE UNCHANGED <<entries, revoked, channel>>
     \/ StoreFails(Owner) /\ UNCHANGED <<entries, revoked, channel>>
  /\ revoking' = NoSession
  /\ UNCHANGED shut

InvalidateStale ==
  /\ Idle
  /\ LET stale == {s \in entries : ~Current(s)}
     IN stale # {} /\ entries' = entries \ stale /\ Free(stale)
  /\ UNCHANGED <<vars, shut, revoking, revoked>>

Shutdown ==
  /\ Idle /\ ~shut
  /\ shut' = TRUE /\ entries' = {} /\ Free(entries)
  /\ UNCHANGED <<vars, revoking, revoked>>

\* The process dies, and its sessions with it.
OwnerDies ==
  /\ Dies(Owner)
  /\ channel' = [s \in Sessions |-> NoChannel]
  /\ entries' = {} /\ shut' = FALSE /\ revoking' = NoSession
  /\ UNCHANGED revoked

\* The steps of the repository that no session asks for.
RepositorySteps(p) ==
  /\ Loads(p) \/ Changes(p) \/ Resets(p) \/ StoreFails(p) \/ (p # Owner /\ Dies(p))
  /\ p = Owner => revoking = NoSession
  /\ UNCHANGED authority

NextSession ==
  \/ \E p \in Procs : RepositorySteps(p)
  \/ \E s \in Sessions :
       \/ \E k \in Keys : CreateChannel(s, k)
       \/ BeginTransportBinding(s) \/ Reused(s)
       \/ \E step \in Binding : Finished(s, step)
       \/ Activate(s) \/ Deactivate(s) \/ BeginRevoke(s)
  \/ EndRevoke \/ InvalidateStale \/ Shutdown \/ OwnerDies

SessionSpec == InitSessions /\ [][NextSession]_sessionvars

------------------------------------------------------------------------------
(* Properties.                                                               *)

\* With one process a session is authorized only while the store itself
\* holds its peer as trusted, with the key and the revision of the
\* handshake, under the identity of the handshake: no failed call, restart,
\* reset or rotation leaves a session behind (Implementation::Current).
AuthorizedIsDurable ==
  \A s \in Sessions :
    IsAuthorized(s) /\ Idle =>
      /\ root.rev = channel[s].root
      /\ \E r \in Keys : /\ items[root.gen][r].key = channel[s].key
                         /\ items[root.gen][r].trust = "active"
                         /\ items[root.gen][r].rev = channel[s].rev

\* A session that was there when its peer was revoked through the authority
\* is never authorized again, whatever happens to the peer's record later
\* (SessionAuthority::Revoke).
RevokedSessionsStayEnded == \A s \in revoked : ~IsAuthorized(s)

\* A session that has lost its authorization does not get it back.
LostStaysLost ==
  [][\A s \in Sessions :
       s \in entries /\ s \in entries' /\ ~IsAuthorized(s) => ~IsAuthorized(s)']_sessionvars

==============================================================================
