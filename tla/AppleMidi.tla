------------------------------- MODULE AppleMidi -------------------------------
(***************************************************************************)
(* CAppleMIDIParticipant (net/applemidi.cpp): the session protocol of      *)
(* RTP-MIDI.  A peer invites mt32-pi on the control port, then on the MIDI *)
(* port; once both are accepted it sends MIDI and, now and then, a sync;   *)
(* it ends the session or falls silent.  The peers are modelled from what  *)
(* the code expects of them, and the network loses, repeats and delays     *)
(* datagrams.  What the receiver feedback reports, the sync's timestamps   *)
(* and names are left out: no transition depends on them.  MIDI packets    *)
(* are opened in RtpMidi.                                                  *)
(***************************************************************************)
EXTENDS Naturals, Sequences, FiniteSets

CONSTANTS Peers, Nobody,
          Tokens,      \* random numbers: initiator token and SSRC of an attempt
          QueueSize,   \* bound: datagrams waiting in a socket
          MaxFaults    \* bound: datagrams lost, repeated or late, socket errors, silences

VARIABLES m_State,
          m_Initiator,        \* whose address and control port are stored
          m_nInitiatorSSRC,   \* and m_nInitiatorToken: 0 after Reset
          m_InitiatorMIDI,    \* whose m_nInitiatorMIDIPort is stored
          m_ControlBuffer,    \* the packet the control socket received last
          overdue,            \* more than the state's timeout since m_nLastSyncTime
          ctl, midi,          \* the datagrams waiting in the two sockets
          late,               \* those on a longer way
          peer,               \* what each peer believes, and the replies it has yet to read
          oneHost,            \* all peers run on one machine
          faults,
          dropped             \* attempts mt32-pi was connected to, and is no longer

stateVars   == <<m_State, overdue>>
sessionVars == <<m_Initiator, m_nInitiatorSSRC, m_InitiatorMIDI>>
ownVars     == <<stateVars, sessionVars, m_ControlBuffer, dropped>>
netVars     == <<ctl, midi, late, faults>>
vars        == <<ownVars, netVars, peer, oneHost>>

Packet(kind, p, token) == [kind |-> kind, from |-> p, token |-> token]
Nothing == Packet("none", Nobody, 0)

SameHost(p, q) == p = q \/ oneHost

Fault == faults < MaxFaults /\ faults' = faults + 1

Init ==
    /\ m_State = "ControlInvitation" /\ overdue = FALSE
    /\ m_Initiator = Nobody /\ m_nInitiatorSSRC = 0 /\ m_InitiatorMIDI = Nobody
    /\ m_ControlBuffer = Nothing
    /\ ctl = <<>> /\ midi = <<>> /\ late = {} /\ faults = 0
    /\ peer = [p \in Peers |-> [status |-> "idle", token |-> 0, inbox |-> <<>>]]
    /\ oneHost \in BOOLEAN
    /\ dropped = {}

--------------------------------------------------------------------------------
(* The network: a datagram arrives; or it is lost or late; or it arrives and *)
(* a copy comes later.                                                       *)
Deliver(socket, packet) ==
    \/ /\ socket = "ctl" /\ Len(ctl) < QueueSize
       /\ ctl' = Append(ctl, packet)
       /\ UNCHANGED midi
    \/ /\ socket = "midi" /\ Len(midi) < QueueSize
       /\ midi' = Append(midi, packet)
       /\ UNCHANGED ctl

Send(socket, packet) ==
    \/ Deliver(socket, packet) /\ UNCHANGED <<late, faults>>
    \/ /\ Fault
       /\ late' = late \cup {<<socket, packet>>}
       /\ Deliver(socket, packet) \/ UNCHANGED <<ctl, midi>>

Arrive ==
    \E m \in late :
        /\ Deliver(m[1], m[2])
        /\ late' = late \ {m}
        /\ UNCHANGED <<ownVars, peer, oneHost, faults>>

--------------------------------------------------------------------------------
(* The peers.  Tokens are random: none that is still about comes up again.   *)
TokensInUse(p) ==
    {m_nInitiatorSSRC, m_ControlBuffer.token} \cup {m[2].token : m \in late}
    \cup {peer[q].token : q \in Peers} \cup {(ctl \o midi)[i].token : i \in DOMAIN (ctl \o midi)}
    \cup {peer[p].inbox[i].token : i \in DOMAIN peer[p].inbox}

Becomes(p, status) ==
    [peer[p] EXCEPT !.status = status, !.token = IF status = "idle" THEN 0 ELSE @]

Invite(p) ==
    /\ peer[p].status = "idle"
    /\ Tokens \ TokensInUse(p) # {}
    /\ LET fresh == CHOOSE t \in Tokens \ TokensInUse(p) : TRUE
       IN  /\ peer' = [peer EXCEPT ![p].status = "invited", ![p].token = fresh]
           /\ Send("ctl", Packet("IN", p, fresh))
           /\ dropped' = dropped \ {fresh}
    /\ UNCHANGED <<stateVars, sessionVars, m_ControlBuffer, oneHost>>

(* What a reply makes of a peer; one to an earlier attempt, nothing. *)
StatusAfter(p, reply) ==
    LET now  == peer[p].status
        mine == reply.token = peer[p].token
    IN  CASE mine /\ reply.kind = "NO" /\ now \in {"invited", "accepted"}           -> "idle"
          [] mine /\ reply.kind = "OK" /\ reply.socket = "ctl"  /\ now = "invited"  -> "accepted"
          [] mine /\ reply.kind = "OK" /\ reply.socket = "midi" /\ now = "accepted" -> "in"
          [] mine /\ reply.kind = "CK" /\ now = "synced"                            -> "in"
          [] OTHER                                                                  -> now

ReadReply(p) ==
    /\ peer[p].inbox # <<>>
    /\ LET status == StatusAfter(p, Head(peer[p].inbox))
       IN  /\ peer' = [peer EXCEPT ![p] = [Becomes(p, status) EXCEPT !.inbox = Tail(@)]]
           /\ IF status = "accepted" /\ peer[p].status = "invited"
              THEN Send("midi", Packet("IN", p, peer[p].token))
              ELSE UNCHANGED netVars
    /\ UNCHANGED <<ownVars, oneHost>>

PeerSends(p, socket, kind, status) ==
    /\ peer' = [peer EXCEPT ![p] = Becomes(p, status)]
    /\ Send(socket, Packet(kind, p, peer[p].token))
    /\ UNCHANGED <<ownVars, oneHost>>

(* No answer, and none on its way: the peer gives up. *)
InTransit(p) ==
    peer[p].inbox # <<>> \/ \E i \in DOMAIN (ctl \o midi) : (ctl \o midi)[i].from = p

InSession(p) == peer[p].status \in {"in", "synced"}

(* Bound: one datagram of a peer is under way at a time, but for late ones.  *)
SyncNow(p) == peer[p].status = "in" /\ ~InTransit(p) /\ PeerSends(p, "midi", "CK", "synced")
Leave(p)   == InSession(p) /\ ~InTransit(p) /\ PeerSends(p, "ctl", "BY", "idle")

GiveUp(p) ==
    /\ peer[p].status \in {"invited", "accepted", "synced"}
    /\ ~InTransit(p)
    /\ peer' = [peer EXCEPT ![p] = Becomes(p, "idle")]
    /\ UNCHANGED <<ownVars, netVars, oneHost>>

--------------------------------------------------------------------------------
(* mt32-pi: a turn of Run receives c from the control socket and m from the  *)
(* other, each a packet or Nothing, and calls the handler of the state.      *)
NoAnswer == [p \in Peers |-> <<>>]

Answer(to, socket, kind, token) ==
    [NoAnswer EXCEPT ![to] = <<[socket |-> socket, kind |-> kind, token |-> token]>>]

(* The answers a, then the answers b. *)
Both(a, b) == [p \in Peers |-> a[p] \o b[p]]

Sent(answers) == peer' = [p \in Peers |-> [peer[p] EXCEPT !.inbox = @ \o answers[p]]]

(* The addresses stay in the code, and nothing reads them again. *)
Reset ==
    /\ m_State' = "ControlInvitation" /\ overdue' = FALSE
    /\ m_Initiator' = Nobody /\ m_nInitiatorSSRC' = 0 /\ m_InitiatorMIDI' = Nobody
    /\ dropped' = IF m_State = "Connected" THEN dropped \cup {m_nInitiatorSSRC} ELSE dropped

ControlInvitationState(packet) ==
    /\ m_State = "ControlInvitation"
    /\ \/ /\ packet.kind = "IN"
          /\ m_Initiator' = packet.from /\ m_nInitiatorSSRC' = packet.token
          /\ Sent(Answer(packet.from, "ctl", "OK", packet.token))
          /\ m_State' = "MIDIInvitation" /\ overdue' = FALSE
       \/ /\ packet.kind # "IN"
          /\ Sent(NoAnswer)
          /\ UNCHANGED <<stateVars, m_Initiator, m_nInitiatorSSRC>>
    /\ UNCHANGED <<m_InitiatorMIDI, dropped>>

(* A stranger's invitation is rejected; the initiator's own is out of turn. *)
Rejected(socket, packet) ==
    IF packet.kind = "IN" /\ packet.from # m_Initiator
    THEN Answer(packet.from, socket, "NO", packet.token) ELSE NoAnswer

AcceptsFrom_Anyone(p) == TRUE   \* mutant
AcceptsFrom(p) == SameHost(p, m_Initiator)

AcceptToken_OfPacket(m) == m.token   \* mutant
AcceptToken(m) == m_nInitiatorSSRC

MIDIInvitationState(c, m) ==
    /\ m_State = "MIDIInvitation"
    /\ \/ /\ m.kind = "IN" /\ AcceptsFrom(m.from)
          /\ m_InitiatorMIDI' = m.from
          /\ Sent(Both(Rejected("ctl", c), Answer(m.from, "midi", "OK", AcceptToken(m))))
          /\ m_State' = "Connected" /\ overdue' = FALSE
          /\ UNCHANGED <<m_Initiator, m_nInitiatorSSRC, dropped>>
       \/ /\ m.kind = "IN" /\ ~AcceptsFrom(m.from)
          /\ Sent(Both(Rejected("ctl", c), Answer(m.from, "midi", "NO", m.token)))
          /\ UNCHANGED <<stateVars, sessionVars, dropped>>
       \/ /\ m.kind # "IN" /\ (m # Nothing \/ ~overdue)
          /\ Sent(Rejected("ctl", c))
          /\ UNCHANGED <<stateVars, sessionVars, dropped>>
       \/ /\ m = Nothing /\ overdue
          /\ Sent(Rejected("ctl", c))
          /\ Reset

EndsSession_AnyAttempt(c) == c.kind = "BY" /\ c.from = m_Initiator   \* mutant
EndsSession(c) == c.kind = "BY" /\ c.from = m_Initiator /\ c.token = m_nInitiatorSSRC

(* MIDI packets are opened in RtpMidi; they leave the session as it is. *)
Synced(m) == m.kind = "CK" /\ m.from = m_InitiatorMIDI /\ m.token = m_nInitiatorSSRC

TimesOut_Never(m) == FALSE   \* mutant
TimesOut(m) == overdue /\ ~Synced(m)

ConnectedState(c, m) ==
    /\ m_State = "Connected"
    /\ \/ EndsSession(c) /\ Sent(NoAnswer) /\ Reset
       \/ /\ ~EndsSession(c)
          /\ Sent(Both(Rejected("ctl", c),
                       IF Synced(m) THEN Answer(m.from, "midi", "CK", m.token) ELSE NoAnswer))
          /\ IF TimesOut(m) THEN Reset
             ELSE /\ overdue' = (overdue /\ ~Synced(m))
                  /\ UNCHANGED <<m_State, sessionVars, dropped>>

Received(socket) == IF socket = <<>> THEN {Nothing} ELSE {Head(socket)}
Rest(socket) == IF socket = <<>> THEN <<>> ELSE Tail(socket)

(* After an error of the control socket the packet received before is still  *)
(* in the buffer, and ControlInvitationState takes the result for its size.  *)
(* Bound: the buffer is forgotten when no fault is left to read it again.    *)
Turn(error) ==
    \E c \in (IF error THEN {Nothing} ELSE Received(ctl)), m \in Received(midi) :
        /\ IF error THEN Fault ELSE UNCHANGED faults
        /\ ctl' = IF error THEN ctl ELSE Rest(ctl)
        /\ midi' = Rest(midi)
        /\ m_ControlBuffer' = IF faults' = MaxFaults THEN Nothing
                              ELSE IF c = Nothing THEN m_ControlBuffer ELSE c
        /\ \/ ControlInvitationState(IF error THEN m_ControlBuffer ELSE c)
           \/ MIDIInvitationState(c, m)
           \/ ConnectedState(c, m)
        /\ UNCHANGED <<late, oneHost>>

(* The accepting packet cannot be sent: the invitation has been in vain.     *)
SendFails ==
    /\ Fault
    /\ \/ /\ m_State = "ControlInvitation" /\ ctl # <<>> /\ Head(ctl).kind = "IN"
          /\ m_Initiator' = Head(ctl).from /\ m_nInitiatorSSRC' = Head(ctl).token
          /\ UNCHANGED <<stateVars, m_InitiatorMIDI, dropped>>
          /\ Sent(NoAnswer)
       \/ /\ m_State = "MIDIInvitation" /\ midi # <<>>
          /\ Head(midi).kind = "IN" /\ AcceptsFrom(Head(midi).from)
          /\ Reset
          /\ Sent(IF ctl = <<>> THEN NoAnswer ELSE Rejected("ctl", Head(ctl)))
    /\ m_ControlBuffer' = IF ctl = <<>> THEN m_ControlBuffer ELSE Head(ctl)
    /\ ctl' = Rest(ctl) /\ midi' = Rest(midi)
    /\ UNCHANGED <<late, oneHost>>

(* The timeout passes: an invited peer has nothing more to say, and one in   *)
(* the session has stopped its syncs, or the network is down for so long.    *)
Waited == ~InTransit(m_Initiator)
          /\ ~(m_State = "Connected" /\ InSession(m_Initiator)
               /\ peer[m_Initiator].token = m_nInitiatorSSRC)

TimePasses ==
    /\ m_State # "ControlInvitation" /\ ~overdue
    /\ overdue' = TRUE
    /\ IF Waited THEN UNCHANGED faults ELSE Fault
    /\ UNCHANGED <<m_State, sessionVars, m_ControlBuffer, dropped, ctl, midi, late, peer, oneHost>>

PeerNext(p) == Invite(p) \/ ReadReply(p) \/ SyncNow(p) \/ Leave(p) \/ GiveUp(p)

Next ==
    \/ \E p \in Peers : PeerNext(p)
    \/ Turn(FALSE) \/ Turn(TRUE) \/ SendFails \/ TimePasses \/ Arrive

Spec == Init /\ [][Next]_vars

(* The task runs, time passes, and peers go on as the protocol has them.     *)
FairSpec ==
    /\ Spec
    /\ WF_vars(Turn(FALSE)) /\ SF_vars(TimePasses)
    /\ \A p \in Peers : /\ SF_vars(Invite(p)) /\ SF_vars(ReadReply(p))
                        /\ SF_vars(SyncNow(p)) /\ WF_vars(GiveUp(p))

--------------------------------------------------------------------------------
(* Whoever has been told it is in a session is in it, on both ports, until   *)
(* that session is dropped; also when the invitation that completed it was a *)
(* late one of an earlier attempt, or of a program next to it.               *)
WhoIsInIsHeard ==
    \A p \in Peers :
        InSession(p) /\ peer[p].token \notin dropped
            => m_State = "Connected" /\ m_nInitiatorSSRC = peer[p].token /\ m_InitiatorMIDI = p

(* A session has one machine at its other end: what is heard comes from the  *)
(* one that was accepted.                                                    *)
OneMachinePerSession == m_State = "Connected" => SameHost(m_InitiatorMIDI, m_Initiator)

(* A session that its initiator is in ends for want of syncs only: not by a  *)
(* goodbye that belongs to an earlier session, or by what a stranger sends.  *)
KeepsLiveSessions ==
    [][m_State = "Connected" /\ m_State' # "Connected" /\ ~overdue
         => ~(InSession(m_Initiator) /\ peer[m_Initiator].token = m_nInitiatorSSRC)]_vars

(* Lost, late and repeated datagrams, sessions left without a word and half  *)
(* an invitation keep mt32-pi busy for a while only: again and again a peer  *)
(* is in a session with it.                                                  *)
SomebodyGetsIn ==
    []<>(/\ m_State = "Connected" /\ m_InitiatorMIDI = m_Initiator
         /\ InSession(m_Initiator) /\ peer[m_Initiator].token = m_nInitiatorSSRC)
================================================================================
