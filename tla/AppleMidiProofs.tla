---------------------------- MODULE AppleMidiProofs ----------------------------
(***************************************************************************)
(* For any number of peers, datagrams and faults: who was told that it is  *)
(* in a session is heard until that session is dropped, the two ports of a *)
(* session belong to one machine, and a session its initiator is in ends   *)
(* for want of syncs only.                                                 *)
(***************************************************************************)
EXTENDS AppleMidi, SequenceTheorems, TLAPS

Token    == Tokens \cup {0}
Status   == {"idle", "invited", "accepted", "in", "synced"}
Datagram == [kind : {"IN", "CK", "BY"}, from : Peers, token : Token]
Reply    == [socket : {"ctl", "midi"}, kind : {"OK", "NO", "CK"}, token : Token]

PeerRecord == [status : Status, token : Token, inbox : Seq(Reply)]

OwnType ==
    /\ m_State \in {"ControlInvitation", "MIDIInvitation", "Connected"}
    /\ overdue \in BOOLEAN
    /\ m_Initiator \in Peers \cup {Nobody} /\ m_InitiatorMIDI \in Peers \cup {Nobody}
    /\ m_nInitiatorSSRC \in Token /\ dropped \subseteq Token

TypeOK ==
    /\ OwnType
    /\ m_ControlBuffer \in Datagram \cup {Nothing}
    /\ ctl \in Seq(Datagram) /\ midi \in Seq(Datagram)
    /\ late \subseteq {"ctl", "midi"} \X Datagram
    /\ peer \in [Peers -> PeerRecord]
    /\ oneHost \in BOOLEAN

(* Whoever takes part in an attempt has a token, and nobody else. *)
TokensOfAttempts == \A p \in Peers : peer[p].status = "idle" <=> peer[p].token = 0

(* A goodbye under way belongs to a session its sender has left. *)
Waiting == {ctl[i] : i \in DOMAIN ctl} \cup {m[2] : m \in late}

ByesAreOld == \A b \in Waiting : b.kind = "BY" => b.token \notin {0, peer[b.from].token}

(* Who is in, or has yet to read that it is, is heard. *)
Has(s, r) == \E i \in DOMAIN s : s[i] = r
AReply(socket, kind, token) == [socket |-> socket, kind |-> kind, token |-> token]
MidiOK(token) == AReply("midi", "OK", token)
Told(p) == InSession(p) \/ Has(peer[p].inbox, MidiOK(peer[p].token))

WhoIsToldIsHeard ==
    \A p \in Peers :
        Told(p) /\ peer[p].status # "idle" /\ peer[p].token \notin dropped
            => m_State = "Connected" /\ m_nInitiatorSSRC = peer[p].token /\ m_InitiatorMIDI = p

IInv == /\ TypeOK /\ TokensOfAttempts
        /\ ByesAreOld /\ WhoIsToldIsHeard /\ OneMachinePerSession

--------------------------------------------------------------------------------
(* Sequences of replies. *)
LEMMA HasConcat ==
    ASSUME NEW S, NEW s \in Seq(S), NEW t \in Seq(S), NEW r, Has(s \o t, r)
    PROVE  Has(s, r) \/ Has(t, r)
  <1>1. PICK i \in 1..Len(s)+Len(t) : (s \o t)[i] = r
    BY ConcatProperties DEF Has
  <1>2. CASE i <= Len(s)
    BY <1>1, <1>2 DEF Has
  <1>3. CASE i > Len(s)
    BY <1>1, <1>3 DEF Has
  <1> QED
    BY <1>1, <1>2, <1>3

LEMMA HasTail ==
    ASSUME NEW S, NEW s \in Seq(S), s # <<>>, NEW r, Has(Tail(s), r)
    PROVE  Has(s, r)
  BY DEF Has

LEMMA AnswerType ==
    ASSUME NEW to \in Peers, NEW socket, NEW kind, NEW token,
           AReply(socket, kind, token) \in Reply
    PROVE  Answer(to, socket, kind, token) \in [Peers -> Seq(Reply)]
  <1> DEFINE reply == AReply(socket, kind, token)
  <1>1. Answer(to, socket, kind, token) = [p \in Peers |-> IF p = to THEN <<reply>> ELSE <<>>]
    BY DEF Answer, NoAnswer, reply, AReply
  <1> HIDE DEF reply
  <1>2. <<reply>> \in Seq(Reply) /\ <<>> \in Seq(Reply)
    BY DEF reply
  <1> QED
    BY <1>1, <1>2

LEMMA AnswerTo ==
    ASSUME NEW to \in Peers, NEW socket, NEW kind, NEW token, NEW p \in Peers, NEW r,
           Has(Answer(to, socket, kind, token)[p], r)
    PROVE  p = to
  BY DEF Answer, NoAnswer, AReply, Has

LEMMA AnswerHas ==
    ASSUME NEW to \in Peers, NEW socket, NEW kind, NEW token, NEW p \in Peers, NEW r,
           Has(Answer(to, socket, kind, token)[p], r)
    PROVE  r = AReply(socket, kind, token)
  BY DEF Answer, NoAnswer, AReply, Has

(* Answers that accept nobody on the MIDI port. *)
Plain(answers) == /\ answers \in [Peers -> Seq(Reply)]
                  /\ \A p \in Peers : \A t : ~Has(answers[p], MidiOK(t))

LEMMA OtherAnswers ==
    ASSUME NEW to \in Peers, NEW socket, NEW kind, NEW token,
           AReply(socket, kind, token) \in Reply,
           \A t : MidiOK(t) # AReply(socket, kind, token)
    PROVE  Plain(Answer(to, socket, kind, token))
  <1>1. ASSUME NEW p \in Peers, NEW t, Has(Answer(to, socket, kind, token)[p], MidiOK(t))
        PROVE  FALSE
    <2>1. MidiOK(t) = AReply(socket, kind, token)
      BY <1>1, AnswerHas
    <2> QED
      BY <2>1
  <1> QED
    BY <1>1, AnswerType DEF Plain

LEMMA AnswersPlain ==
    ASSUME NEW to \in Peers, NEW token \in Token
    PROVE  /\ Plain(Answer(to, "ctl", "OK", token))
           /\ Plain(Answer(to, "ctl", "NO", token))
           /\ Plain(Answer(to, "midi", "NO", token))
           /\ Plain(Answer(to, "midi", "CK", token))
  <1>1. Plain(Answer(to, "ctl", "OK", token))
    <2>1. AReply("ctl", "OK", token) \in Reply /\ \A t : MidiOK(t) # AReply("ctl", "OK", token)
      BY DEF AReply, Reply, MidiOK
    <2> QED
      BY <2>1, OtherAnswers
  <1>2. Plain(Answer(to, "ctl", "NO", token))
    <2>1. AReply("ctl", "NO", token) \in Reply /\ \A t : MidiOK(t) # AReply("ctl", "NO", token)
      BY DEF AReply, Reply, MidiOK
    <2> QED
      BY <2>1, OtherAnswers
  <1>3. Plain(Answer(to, "midi", "NO", token))
    <2>1. AReply("midi", "NO", token) \in Reply /\ \A t : MidiOK(t) # AReply("midi", "NO", token)
      BY DEF AReply, Reply, MidiOK
    <2> QED
      BY <2>1, OtherAnswers
  <1>4. Plain(Answer(to, "midi", "CK", token))
    <2>1. AReply("midi", "CK", token) \in Reply /\ \A t : MidiOK(t) # AReply("midi", "CK", token)
      BY DEF AReply, Reply, MidiOK
    <2> QED
      BY <2>1, OtherAnswers
  <1> QED
    BY <1>1, <1>2, <1>3, <1>4

LEMMA NoAnswerPlain == Plain(NoAnswer)
  BY DEF NoAnswer, Has, Plain

LEMMA BothType ==
    ASSUME NEW a \in [Peers -> Seq(Reply)], NEW b \in [Peers -> Seq(Reply)]
    PROVE  /\ Both(a, b) \in [Peers -> Seq(Reply)]
           /\ \A p \in Peers : \A r : Has(Both(a, b)[p], r) => Has(a[p], r) \/ Has(b[p], r)
  BY HasConcat DEF Both

LEMMA BothPlain ==
    ASSUME NEW a, NEW b, Plain(a), Plain(b)
    PROVE  Plain(Both(a, b))
  BY BothType DEF Plain

(* What a socket gives a turn of Run. *)
Input == Datagram \cup {Nothing}

LEMMA InputFields ==
    ASSUME NEW c \in Input, c.kind \in {"IN", "CK", "BY"}
    PROVE  c \in Datagram /\ c.from \in Peers /\ c.token \in Token
  <1>1. Nothing.kind = "none"
    BY DEF Nothing, Packet
  <1>2. c \in Datagram
    BY <1>1 DEF Input
  <1> QED
    BY <1>2 DEF Datagram

LEMMA RejectedPlain ==
    ASSUME NEW c \in Input
    PROVE  Plain(Rejected("ctl", c))
  <1>1. CASE c.kind = "IN" /\ c.from # m_Initiator
    <2>1. c.from \in Peers /\ c.token \in Token
      BY <1>1, InputFields
    <2>2. Plain(Answer(c.from, "ctl", "NO", c.token))
      BY <2>1, AnswersPlain
    <2> QED
      BY <1>1, <2>2 DEF Rejected
  <1>2. CASE ~(c.kind = "IN" /\ c.from # m_Initiator)
    BY <1>2, NoAnswerPlain DEF Rejected
  <1> QED
    BY <1>1, <1>2

--------------------------------------------------------------------------------
(* The two ways out of a socket: nobody changes what waits but by adding its *)
(* own datagram, and an answer changes nothing of a peer but its inbox.      *)
LEMMA SendAdds ==
    ASSUME TypeOK, NEW socket \in {"ctl", "midi"}, NEW packet \in Datagram,
           Send(socket, packet)
    PROVE  /\ ctl' \in Seq(Datagram) /\ midi' \in Seq(Datagram)
           /\ late' \subseteq {"ctl", "midi"} \X Datagram
           /\ Waiting' \subseteq Waiting \cup {packet}
  <1>1. ctl' = ctl \/ ctl' = Append(ctl, packet)
    BY DEF Send, Deliver
  <1>2. midi' = midi \/ midi' = Append(midi, packet)
    BY DEF Send, Deliver
  <1>3. late' = late \/ late' = late \cup {<<socket, packet>>}
    BY DEF Send
  <1>4. /\ ctl' \in Seq(Datagram)
        /\ \A i \in DOMAIN ctl' : ctl'[i] \in {ctl[j] : j \in DOMAIN ctl} \cup {packet}
    <2>1. ctl \in Seq(Datagram)
      BY DEF TypeOK
    <2>2. /\ Append(ctl, packet) \in Seq(Datagram)
          /\ \A i \in DOMAIN Append(ctl, packet) :
                Append(ctl, packet)[i] = packet
                \/ (i \in DOMAIN ctl /\ Append(ctl, packet)[i] = ctl[i])
      BY <2>1, AppendProperties
    <2> QED
      BY <1>1, <2>1, <2>2
  <1>5. midi' \in Seq(Datagram)
    BY <1>2 DEF TypeOK
  <1>6. late' \subseteq {"ctl", "midi"} \X Datagram /\ \A m \in late' : m[2] \in {n[2] : n \in late} \cup {packet}
    BY <1>3 DEF TypeOK
  <1> QED
    BY <1>4, <1>5, <1>6 DEF Waiting

LEMMA WaitingType ==
    ASSUME TypeOK
    PROVE  \A b \in Waiting : b \in Datagram /\ b.from \in Peers /\ b.token \in Token
  <1>1. \A i \in DOMAIN ctl : ctl[i] \in Datagram
    BY DEF TypeOK
  <1>2. \A m \in late : m[2] \in Datagram
    BY DEF TypeOK
  <1>3. \A b \in Waiting : b \in Datagram
    BY <1>1, <1>2 DEF Waiting
  <1> QED
    BY <1>3 DEF Datagram

PeersKeep == /\ peer' \in [Peers -> PeerRecord]
             /\ \A p \in Peers : /\ peer'[p].status = peer[p].status
                                 /\ peer'[p].token = peer[p].token

LEMMA SentKeeps ==
    ASSUME TypeOK, NEW answers \in [Peers -> Seq(Reply)], Sent(answers)
    PROVE  /\ PeersKeep
           /\ \A p \in Peers : \A r : Has(peer'[p].inbox, r) =>
                                      Has(peer[p].inbox, r) \/ Has(answers[p], r)
  <1> SUFFICES ASSUME NEW p \in Peers
               PROVE  /\ peer'[p] \in PeerRecord
                      /\ peer'[p].status = peer[p].status /\ peer'[p].token = peer[p].token
                      /\ \A r : Has(peer'[p].inbox, r) =>
                                  Has(peer[p].inbox, r) \/ Has(answers[p], r)
    BY DEF Sent, PeersKeep
  <1> DEFINE inbox == peer[p].inbox \o answers[p]
  <1>1. peer[p] \in PeerRecord /\ peer[p].inbox \in Seq(Reply) /\ answers[p] \in Seq(Reply)
    BY DEF TypeOK, PeerRecord
  <1>2. inbox \in Seq(Reply)
    BY <1>1
  <1>3. \A r : Has(inbox, r) => Has(peer[p].inbox, r) \/ Has(answers[p], r)
    BY <1>1, HasConcat
  <1>4. peer'[p] = [peer[p] EXCEPT !.inbox = inbox]
    BY DEF Sent
  <1> HIDE DEF inbox
  <1>5. /\ peer'[p] \in PeerRecord /\ peer'[p].inbox = inbox
        /\ peer'[p].status = peer[p].status /\ peer'[p].token = peer[p].token
    BY <1>1, <1>2, <1>4 DEF PeerRecord
  <1> QED
    BY <1>3, <1>5

LEMMA AttemptsKept ==
    ASSUME IInv, PeersKeep, Waiting' \subseteq Waiting
    PROVE  TokensOfAttempts' /\ ByesAreOld'
  <1>1. \A b \in Waiting : b.from \in Peers
    BY WaitingType DEF IInv
  <1> QED
    BY <1>1 DEF IInv, PeersKeep, TokensOfAttempts, ByesAreOld

(* Nobody is told anew, and no session is dropped without a note of it. *)
LEMMA NoneToldAnew ==
    ASSUME IInv, PeersKeep,
           \A p \in Peers : \A t : Has(peer'[p].inbox, MidiOK(t)) => Has(peer[p].inbox, MidiOK(t)),
           \/ UNCHANGED <<m_State, m_nInitiatorSSRC, m_InitiatorMIDI, dropped>>
           \/ m_State # "Connected" /\ UNCHANGED dropped
           \/ m_State = "Connected" /\ dropped' = dropped \cup {m_nInitiatorSSRC}
    PROVE  WhoIsToldIsHeard'
  <1> SUFFICES ASSUME NEW p \in Peers, Told(p)', peer'[p].status # "idle",
                      peer'[p].token \notin dropped'
               PROVE  /\ m_State' = "Connected" /\ m_nInitiatorSSRC' = peer'[p].token
                      /\ m_InitiatorMIDI' = p
    BY DEF WhoIsToldIsHeard
  <1>1. Told(p) /\ peer[p].status # "idle" /\ peer'[p].token = peer[p].token
    BY DEF PeersKeep, Told, InSession
  <1>2. peer[p].token \notin dropped
    BY <1>1
  <1>3. m_State = "Connected" /\ m_nInitiatorSSRC = peer[p].token /\ m_InitiatorMIDI = p
    BY <1>1, <1>2 DEF IInv, WhoIsToldIsHeard
  <1> QED
    BY <1>1, <1>2, <1>3

LEMMA PlainKeeps ==
    ASSUME IInv, NEW answers, Plain(answers), Sent(answers),
           \/ UNCHANGED <<m_State, m_nInitiatorSSRC, m_InitiatorMIDI, dropped>>
           \/ m_State # "Connected" /\ UNCHANGED dropped
           \/ m_State = "Connected" /\ dropped' = dropped \cup {m_nInitiatorSSRC}
    PROVE  PeersKeep /\ WhoIsToldIsHeard'
  <1>1. /\ PeersKeep
        /\ \A p \in Peers : \A r : Has(peer'[p].inbox, r) =>
                                   Has(peer[p].inbox, r) \/ Has(answers[p], r)
    BY SentKeeps DEF IInv, Plain
  <1>2. \A p \in Peers : \A t : Has(peer'[p].inbox, MidiOK(t)) => Has(peer[p].inbox, MidiOK(t))
    BY <1>1 DEF Plain
  <1> QED
    BY <1>1, <1>2, NoneToldAnew

--------------------------------------------------------------------------------
(* The handlers of the three states, with what the two sockets gave them. *)
LEMMA ResetKeeps ==
    ASSUME OwnType, Reset
    PROVE  /\ OwnType' /\ m_State' # "Connected"
           /\ \/ m_State # "Connected" /\ UNCHANGED dropped
              \/ m_State = "Connected" /\ dropped' = dropped \cup {m_nInitiatorSSRC}
  BY DEF OwnType, Reset, Token

LEMMA ControlInvitationKeeps ==
    ASSUME IInv, NEW c \in Input, ControlInvitationState(c)
    PROVE  PeersKeep /\ OwnType' /\ WhoIsToldIsHeard' /\ OneMachinePerSession'
  <1>1. CASE c.kind = "IN"
    <2>1. c.from \in Peers /\ c.token \in Token
      BY <1>1, InputFields
    <2> DEFINE answer == Answer(c.from, "ctl", "OK", c.token)
    <2>2. /\ m_State = "ControlInvitation" /\ m_State' = "MIDIInvitation" /\ overdue' = FALSE
          /\ m_Initiator' = c.from /\ m_nInitiatorSSRC' = c.token
          /\ UNCHANGED <<m_InitiatorMIDI, dropped>>
          /\ Sent(answer)
      BY <1>1 DEF ControlInvitationState
    <2>3. Plain(answer)
      BY <2>1, AnswersPlain
    <2> HIDE DEF answer
    <2>5. PeersKeep /\ WhoIsToldIsHeard'
      BY <2>2, <2>3, PlainKeeps DEF IInv
    <2>6. OwnType' /\ OneMachinePerSession'
      BY <2>1, <2>2 DEF IInv, TypeOK, OwnType, OneMachinePerSession
    <2> QED
      BY <2>5, <2>6
  <1>2. CASE c.kind # "IN"
    <2>1. Sent(NoAnswer) /\ UNCHANGED <<stateVars, sessionVars, dropped>>
      BY <1>2 DEF ControlInvitationState, sessionVars
    <2>2. PeersKeep /\ WhoIsToldIsHeard'
      BY <2>1, NoAnswerPlain, PlainKeeps DEF stateVars, sessionVars
    <2>3. OwnType' /\ OneMachinePerSession'
      BY <2>1 DEF ControlInvitationState, IInv, TypeOK, OwnType, OneMachinePerSession,
                  stateVars, sessionVars
    <2> QED
      BY <2>2, <2>3
  <1> QED
    BY <1>1, <1>2

(* An acceptance tells one peer that it is in, and has it heard. *)
LEMMA AcceptKeeps ==
    ASSUME IInv, NEW c \in Input, NEW m \in Input, m.kind = "IN", AcceptsFrom(m.from),
           m_State = "MIDIInvitation",
           m_InitiatorMIDI' = m.from,
           Sent(Both(Rejected("ctl", c), Answer(m.from, "midi", "OK", AcceptToken(m)))),
           m_State' = "Connected", overdue' = FALSE,
           UNCHANGED <<m_Initiator, m_nInitiatorSSRC, dropped>>, UNCHANGED oneHost
    PROVE  PeersKeep /\ OwnType' /\ WhoIsToldIsHeard' /\ OneMachinePerSession'
  <1> DEFINE rejected == Rejected("ctl", c)
             accepted == Answer(m.from, "midi", "OK", m_nInitiatorSSRC)
             answers  == Both(rejected, accepted)
  <1>1. m.from \in Peers /\ m_nInitiatorSSRC \in Token
    BY InputFields DEF IInv, TypeOK, OwnType
  <1>2. AReply("midi", "OK", m_nInitiatorSSRC) \in Reply
    BY <1>1 DEF Reply, AReply
  <1>2a. accepted \in [Peers -> Seq(Reply)]
    BY <1>1, <1>2, AnswerType
  <1>2b. \A p \in Peers : \A r : Has(accepted[p], r) => p = m.from
    BY <1>1, AnswerTo
  <1>2c. \A p \in Peers : \A r : Has(accepted[p], r) => r = AReply("midi", "OK", m_nInitiatorSSRC)
    BY ZenonT(30), <1>1, AnswerHas
  <1>3. /\ rejected \in [Peers -> Seq(Reply)]
        /\ \A p \in Peers : \A t : ~Has(rejected[p], MidiOK(t))
    BY RejectedPlain DEF Plain
  <1>4. Sent(answers)
    BY DEF AcceptToken
  <1> HIDE DEF accepted, rejected
  <1>5. /\ answers \in [Peers -> Seq(Reply)]
        /\ \A p \in Peers : \A r : Has(answers[p], r) => Has(rejected[p], r) \/ Has(accepted[p], r)
    BY <1>2a, <1>3, BothType
  <1> HIDE DEF answers
  <1>6. \A p \in Peers : \A t : Has(answers[p], MidiOK(t)) => p = m.from /\ t = m_nInitiatorSSRC
    BY <1>2b, <1>2c, <1>3, <1>5 DEF MidiOK, AReply
  <1>7. /\ PeersKeep
        /\ \A p \in Peers : \A r : Has(peer'[p].inbox, r) =>
                                   Has(peer[p].inbox, r) \/ Has(answers[p], r)
    BY <1>4, <1>5, SentKeeps DEF IInv
  <1>8. WhoIsToldIsHeard'
    <2> SUFFICES ASSUME NEW p \in Peers, Told(p)', peer'[p].status # "idle",
                        peer'[p].token \notin dropped'
                 PROVE  m_nInitiatorSSRC' = peer'[p].token /\ m_InitiatorMIDI' = p
      BY DEF WhoIsToldIsHeard
    <2>1. peer'[p].status = peer[p].status /\ peer'[p].token = peer[p].token
      BY <1>7 DEF PeersKeep
    <2>2. ~Told(p)
      BY <2>1 DEF IInv, WhoIsToldIsHeard
    <2>3. Has(answers[p], MidiOK(peer[p].token))
      BY <1>7, <2>1, <2>2 DEF Told, InSession
    <2> QED
      BY <1>6, <2>1, <2>3
  <1>9. OwnType' /\ OneMachinePerSession'
    BY <1>1 DEF IInv, TypeOK, OwnType, OneMachinePerSession, AcceptsFrom, SameHost
  <1> QED
    BY <1>7, <1>8, <1>9

LEMMA PlainAnswers ==
    ASSUME NEW c \in Input
    PROVE  /\ Plain(NoAnswer) /\ Plain(Rejected("ctl", c))
           /\ Plain(Both(Rejected("ctl", c), NoAnswer))
           /\ \A m \in Input, kind \in {"NO", "CK"} : m.kind \in {"IN", "CK", "BY"} =>
                 Plain(Both(Rejected("ctl", c), Answer(m.from, "midi", kind, m.token)))
  <1>1. Plain(NoAnswer) /\ Plain(Rejected("ctl", c))
    BY NoAnswerPlain, RejectedPlain
  <1>2. ASSUME NEW m \in Input, NEW kind \in {"NO", "CK"}, m.kind \in {"IN", "CK", "BY"}
        PROVE  Plain(Answer(m.from, "midi", kind, m.token))
    <2>1. m.from \in Peers /\ m.token \in Token
      BY <1>2, InputFields
    <2> QED
      BY <2>1, AnswersPlain
  <1> QED
    BY <1>1, <1>2, BothPlain

LEMMA MIDIInvitationKeeps ==
    ASSUME IInv, NEW c \in Input, NEW m \in Input, MIDIInvitationState(c, m), UNCHANGED oneHost
    PROVE  PeersKeep /\ OwnType' /\ WhoIsToldIsHeard' /\ OneMachinePerSession'
  <1>0. m_State = "MIDIInvitation" /\ OwnType
    BY DEF MIDIInvitationState, IInv, TypeOK
  <1>1. ASSUME NEW answers, Plain(answers), Sent(answers),
               UNCHANGED <<stateVars, sessionVars, dropped>>
        PROVE  PeersKeep /\ OwnType' /\ WhoIsToldIsHeard' /\ OneMachinePerSession'
    <2>1. PeersKeep /\ WhoIsToldIsHeard'
      BY <1>1, PlainKeeps DEF stateVars, sessionVars
    <2>2. OwnType' /\ OneMachinePerSession'
      BY <1>0, <1>1 DEF stateVars, sessionVars, OwnType, OneMachinePerSession
    <2> QED
      BY <2>1, <2>2
  <1>2. CASE m.kind = "IN" /\ AcceptsFrom(m.from) /\ m_State' = "Connected"
    <2>1. /\ m_InitiatorMIDI' = m.from
          /\ Sent(Both(Rejected("ctl", c), Answer(m.from, "midi", "OK", AcceptToken(m))))
          /\ overdue' = FALSE
          /\ UNCHANGED <<m_Initiator, m_nInitiatorSSRC, dropped>>
      BY <1>0, <1>2 DEF MIDIInvitationState, stateVars, Nothing, Packet
    <2> QED
      BY <1>0, <1>2, <2>1, AcceptKeeps
  <1>3. CASE m.kind = "IN" /\ ~AcceptsFrom(m.from)
    <2> DEFINE answers == Both(Rejected("ctl", c), Answer(m.from, "midi", "NO", m.token))
    <2>1. Sent(answers) /\ UNCHANGED <<stateVars, sessionVars, dropped>>
      BY <1>3 DEF MIDIInvitationState, Nothing, Packet
    <2>2. Plain(answers)
      BY <1>3, PlainAnswers
    <2> QED
      BY <1>1, <2>1, <2>2
  <1>4. CASE m.kind # "IN"
    <2>1. Plain(Rejected("ctl", c)) /\ Sent(Rejected("ctl", c))
      BY <1>4, PlainAnswers DEF MIDIInvitationState
    <2>2. CASE UNCHANGED <<stateVars, sessionVars, dropped>>
      BY <1>1, <2>1, <2>2
    <2>3. CASE Reset
      <3>1. OwnType' /\ m_State' # "Connected" /\ UNCHANGED dropped
        BY <1>0, <2>3, ResetKeeps
      <3>2. PeersKeep /\ WhoIsToldIsHeard'
        BY <1>0, <2>1, <3>1, PlainKeeps
      <3> QED
        BY <3>1, <3>2 DEF OneMachinePerSession
    <2> QED
      BY <1>4, <2>2, <2>3 DEF MIDIInvitationState
  <1> QED
    BY <1>2, <1>3, <1>4 DEF MIDIInvitationState, Nothing, Packet

LEMMA ConnectedKeeps ==
    ASSUME IInv, NEW c \in Input, NEW m \in Input, ConnectedState(c, m), UNCHANGED oneHost
    PROVE  PeersKeep /\ OwnType' /\ WhoIsToldIsHeard' /\ OneMachinePerSession'
  <1>0. m_State = "Connected" /\ OwnType
    BY DEF ConnectedState, IInv, TypeOK
  <1>1. PICK answers : Plain(answers) /\ Sent(answers)
    <2>1. CASE EndsSession(c) /\ Sent(NoAnswer)
      BY <2>1, PlainAnswers
    <2>2. CASE Synced(m) /\ Sent(Both(Rejected("ctl", c), Answer(m.from, "midi", "CK", m.token)))
      <3>1. m.kind \in {"IN", "CK", "BY"} /\ "CK" \in {"NO", "CK"}
        BY <2>2 DEF Synced
      <3> QED
        BY <2>2, <3>1, PlainAnswers
    <2>3. CASE Sent(Both(Rejected("ctl", c), NoAnswer))
      BY <2>3, PlainAnswers
    <2> QED
      BY <2>1, <2>2, <2>3 DEF ConnectedState
  <1>2. CASE Reset
    <2>1. /\ OwnType' /\ m_State' # "Connected"
          /\ dropped' = dropped \cup {m_nInitiatorSSRC}
      BY <1>0, <1>2, ResetKeeps
    <2>2. PeersKeep /\ WhoIsToldIsHeard'
      BY <1>0, <1>1, <2>1, PlainKeeps
    <2> QED
      BY <2>1, <2>2 DEF OneMachinePerSession
  <1>3. CASE ~Reset
    <2>1. /\ overdue' = (overdue /\ ~Synced(m))
          /\ UNCHANGED <<m_State, sessionVars, dropped>>
      BY <1>3, Zenon DEF ConnectedState
    <2>2. PeersKeep /\ WhoIsToldIsHeard'
      BY <1>1, <2>1, PlainKeeps DEF sessionVars
    <2>3. overdue' \in BOOLEAN
      BY <2>1
    <2>4. OwnType' /\ OneMachinePerSession'
      BY <1>0, <2>1, <2>3 DEF sessionVars, IInv, OwnType, OneMachinePerSession, SameHost
    <2> QED
      BY <2>2, <2>4
  <1> QED
    BY <1>2, <1>3

--------------------------------------------------------------------------------
(* A turn of Run takes a packet from each socket, and leaves the rest. *)
LEMMA SocketGives ==
    ASSUME NEW s \in Seq(Datagram)
    PROVE  /\ Received(s) \subseteq Input
           /\ Rest(s) \in Seq(Datagram)
           /\ \A i \in DOMAIN Rest(s) : \E j \in DOMAIN s : Rest(s)[i] = s[j]
  <1>1. CASE s = <<>>
    BY <1>1 DEF Received, Rest, Input
  <1>2. CASE s # <<>>
    BY <1>2 DEF Received, Rest, Input
  <1> QED
    BY <1>1, <1>2

LEMMA TurnKeeps ==
    ASSUME IInv, PeersKeep, OwnType', WhoIsToldIsHeard', OneMachinePerSession',
           ctl' \in {ctl, Rest(ctl)}, midi' = Rest(midi), m_ControlBuffer' \in Input,
           UNCHANGED <<late, oneHost>>
    PROVE  IInv'
  <1>1. /\ ctl' \in Seq(Datagram) /\ midi' \in Seq(Datagram)
        /\ \A i \in DOMAIN ctl' : \E j \in DOMAIN ctl : ctl'[i] = ctl[j]
    BY SocketGives DEF IInv, TypeOK
  <1>2. Waiting' \subseteq Waiting
    BY <1>1 DEF Waiting
  <1>3. TokensOfAttempts' /\ ByesAreOld'
    BY <1>2, AttemptsKept
  <1>4. TypeOK'
    BY <1>1 DEF IInv, TypeOK, PeersKeep, Input
  <1> QED
    BY <1>3, <1>4 DEF IInv

LEMMA RunKeeps ==
    ASSUME IInv, NEW error \in BOOLEAN, Turn(error)
    PROVE  IInv'
  <1> PICK c \in (IF error THEN {Nothing} ELSE Received(ctl)), m \in Received(midi) :
        /\ ctl' = IF error THEN ctl ELSE Rest(ctl)
        /\ midi' = Rest(midi)
        /\ m_ControlBuffer' \in {Nothing, m_ControlBuffer, c}
        /\ \/ ControlInvitationState(IF error THEN m_ControlBuffer ELSE c)
           \/ MIDIInvitationState(c, m)
           \/ ConnectedState(c, m)
        /\ UNCHANGED <<late, oneHost>>
    BY DEF Turn
  <1>1. c \in Input /\ m \in Input /\ m_ControlBuffer \in Input /\ m_ControlBuffer' \in Input
    BY SocketGives DEF IInv, TypeOK, Input
  <1>2. PeersKeep /\ OwnType' /\ WhoIsToldIsHeard' /\ OneMachinePerSession'
    BY <1>1, ControlInvitationKeeps, MIDIInvitationKeeps, ConnectedKeeps
  <1> QED
    BY <1>1, <1>2, TurnKeeps

(* An acceptance that could not be sent was heard by nobody. *)
LEMMA SendFailsKeeps ==
    ASSUME IInv, SendFails
    PROVE  IInv'
  <1>1. PICK answers : Plain(answers) /\ Sent(answers)
    <2>1. ctl # <<>> => Head(ctl) \in Input
      BY SocketGives DEF IInv, TypeOK, Received
    <2> QED
      BY <2>1, NoAnswerPlain, RejectedPlain DEF SendFails
  <1>2. m_State # "Connected" /\ m_State' # "Connected" /\ UNCHANGED dropped /\ OwnType'
    <2>1. CASE m_State = "MIDIInvitation"
      BY <2>1, ResetKeeps DEF SendFails, IInv, TypeOK
    <2>2. CASE m_State = "ControlInvitation"
      <3>1. Head(ctl) \in Datagram
        BY <2>2 DEF SendFails, IInv, TypeOK
      <3>2. Head(ctl).from \in Peers /\ Head(ctl).token \in Token
        BY <3>1 DEF Datagram
      <3> QED
        BY <2>2, <3>2 DEF SendFails, stateVars, IInv, TypeOK, OwnType
    <2> QED
      BY <2>1, <2>2 DEF SendFails
  <1>3. PeersKeep /\ WhoIsToldIsHeard'
    BY <1>1, <1>2, PlainKeeps
  <1>4. /\ ctl' = Rest(ctl) /\ midi' = Rest(midi) /\ m_ControlBuffer' \in Input
        /\ UNCHANGED <<late, oneHost>>
    BY SocketGives DEF SendFails, IInv, TypeOK, Input, Received
  <1>5. OneMachinePerSession'
    BY <1>2 DEF OneMachinePerSession
  <1> QED
    BY <1>2, <1>3, <1>4, <1>5, TurnKeeps

--------------------------------------------------------------------------------
(* The peers. *)
Moves(p, status, token, inbox) ==
    /\ peer' \in [Peers -> PeerRecord]
    /\ \A q \in Peers \ {p} : peer'[q] = peer[q]
    /\ peer'[p].status = status /\ peer'[p].token = token /\ peer'[p].inbox = inbox

(* A peer that goes on within its attempt, or ends it. *)
LEMMA AttemptGoesOn ==
    ASSUME IInv, NEW p \in Peers, NEW status \in Status, NEW inbox \in Seq(Reply),
           Moves(p, status, IF status = "idle" THEN 0 ELSE peer[p].token, inbox),
           peer[p].status = "idle" => status = "idle",
           status \in {"in", "synced"} \/ Has(inbox, MidiOK(peer[p].token)) => Told(p),
           UNCHANGED ownVars, UNCHANGED oneHost,
           ctl' \in Seq(Datagram), midi' \in Seq(Datagram),
           late' \subseteq {"ctl", "midi"} \X Datagram,
           \A b \in Waiting' \ Waiting :
               b.kind = "BY" => b.from = p /\ status = "idle" /\ b.token # 0
    PROVE  IInv'
  <1>1. TypeOK'
    BY DEF IInv, TypeOK, OwnType, ownVars, stateVars, sessionVars, Moves
  <1>2. TokensOfAttempts'
    BY DEF IInv, TokensOfAttempts, Moves
  <1>3. ByesAreOld'
    <2> SUFFICES ASSUME NEW b \in Waiting', b.kind = "BY"
                 PROVE  b.token \notin {0, peer'[b.from].token}
      BY DEF ByesAreOld
    <2>2. CASE b \in Waiting
      <3>1. b.from \in Peers
        BY <2>2, WaitingType DEF IInv
      <3> QED
        BY <2>2, <3>1 DEF IInv, ByesAreOld, Moves
    <2>3. CASE b \notin Waiting
      BY <2>3 DEF Moves
    <2> QED
      BY <2>2, <2>3
  <1>4. WhoIsToldIsHeard'
    <2> SUFFICES ASSUME NEW q \in Peers, Told(q)', peer'[q].status # "idle",
                        peer'[q].token \notin dropped'
                 PROVE  /\ m_State = "Connected" /\ m_nInitiatorSSRC = peer'[q].token
                        /\ m_InitiatorMIDI = q
      BY DEF WhoIsToldIsHeard, ownVars, stateVars, sessionVars
    <2>1. Told(q) /\ peer[q].status # "idle" /\ peer'[q].token = peer[q].token
      BY DEF Moves, Told, InSession
    <2> QED
      BY <2>1 DEF IInv, WhoIsToldIsHeard, ownVars
  <1>5. OneMachinePerSession'
    BY DEF IInv, OneMachinePerSession, SameHost, ownVars, stateVars, sessionVars
  <1> QED
    BY <1>1, <1>2, <1>3, <1>4, <1>5 DEF IInv

(* A fresh token: nobody holds it, and nothing under way carries it. *)
LEMMA InviteKeeps ==
    ASSUME IInv, NEW p \in Peers, Invite(p)
    PROVE  IInv'
  <1> DEFINE fresh == CHOOSE t \in Tokens \ TokensInUse(p) : TRUE
             inbox == peer[p].inbox
             invitation == Packet("IN", p, fresh)
  <1>1. /\ fresh \in Tokens /\ fresh \notin TokensInUse(p)
        /\ peer[p].status = "idle"
        /\ peer' = [peer EXCEPT ![p].status = "invited", ![p].token = fresh]
        /\ Send("ctl", invitation) /\ dropped' = dropped \ {fresh}
        /\ UNCHANGED <<stateVars, sessionVars, m_ControlBuffer, oneHost>>
    BY DEF Invite
  <1> HIDE DEF fresh, invitation
  <1>2. peer[p] \in PeerRecord /\ inbox \in Seq(Reply) /\ fresh \in Token
    BY <1>1 DEF IInv, TypeOK, PeerRecord, Token
  <1>3. Moves(p, "invited", fresh, inbox)
    <2>1. /\ peer'[p] = [[peer[p] EXCEPT !.status = "invited"] EXCEPT !.token = fresh]
          /\ \A q \in Peers \ {p} : peer'[q] = peer[q] /\ peer'[q] \in PeerRecord
          /\ peer' \in [Peers -> {peer'[q] : q \in Peers}]
      BY <1>1 DEF IInv, TypeOK
    <2>2. /\ peer'[p] \in PeerRecord
          /\ peer'[p].status = "invited" /\ peer'[p].token = fresh /\ peer'[p].inbox = inbox
      BY <1>2, <2>1 DEF PeerRecord, Status
    <2> QED
      BY <2>1, <2>2 DEF Moves
  <1>4. /\ \A q \in Peers : fresh # peer[q].token
        /\ \A i \in DOMAIN inbox : inbox[i].token # fresh
        /\ \A b \in Waiting : b.token # fresh
    <2>1. \A i \in DOMAIN ctl : i \in DOMAIN (ctl \o midi) /\ (ctl \o midi)[i] = ctl[i]
      BY DEF IInv, TypeOK
    <2> QED
      BY <1>1, <2>1 DEF TokensInUse, Waiting
  <1>5. fresh # 0
    BY <1>1, <1>4 DEF IInv, TokensOfAttempts
  <1>6. /\ ctl' \in Seq(Datagram) /\ midi' \in Seq(Datagram)
        /\ late' \subseteq {"ctl", "midi"} \X Datagram
        /\ \A b \in Waiting' : b.kind = "BY" => b \in Waiting
    <2>1. invitation \in Datagram /\ invitation.kind = "IN"
      BY <1>2 DEF invitation, Packet, Datagram
    <2> QED
      BY <1>1, <2>1, SendAdds DEF IInv
  <1>7. TypeOK'
    BY <1>1, <1>3, <1>6 DEF IInv, TypeOK, OwnType, stateVars, sessionVars, Moves
  <1>8. TokensOfAttempts'
    BY <1>3, <1>5 DEF IInv, TokensOfAttempts, Moves
  <1>9. ByesAreOld'
    <2> SUFFICES ASSUME NEW b \in Waiting', b.kind = "BY"
                 PROVE  b.token \notin {0, peer'[b.from].token}
      BY DEF ByesAreOld
    <2>1. b \in Waiting /\ b.from \in Peers
      BY <1>6, WaitingType DEF IInv
    <2> QED
      BY <1>3, <1>4, <2>1 DEF IInv, ByesAreOld, Moves
  <1>10. WhoIsToldIsHeard'
    <2> SUFFICES ASSUME NEW q \in Peers, Told(q)', peer'[q].status # "idle",
                        peer'[q].token \notin dropped'
                 PROVE  /\ m_State = "Connected" /\ m_nInitiatorSSRC = peer'[q].token
                        /\ m_InitiatorMIDI = q
      BY <1>1 DEF WhoIsToldIsHeard, stateVars, sessionVars
    <2>1. q # p
      <3> SUFFICES ASSUME q = p PROVE FALSE
        OBVIOUS
      <3>1. Has(inbox, MidiOK(fresh))
        BY <1>3 DEF Told, InSession, Moves
      <3> QED
        BY <1>4, <3>1 DEF Has, MidiOK, AReply
    <2>2. Told(q) /\ peer'[q] = peer[q] /\ peer[q].token \notin dropped
      BY <1>1, <1>3, <1>4, <2>1 DEF Moves, Told, InSession
    <2> QED
      BY <2>2 DEF IInv, WhoIsToldIsHeard
  <1>11. OneMachinePerSession'
    BY <1>1 DEF IInv, OneMachinePerSession, SameHost, stateVars, sessionVars
  <1> QED
    BY <1>7, <1>8, <1>9, <1>10, <1>11 DEF IInv

(* What Becomes makes of a peer that stays in its attempt or leaves it. *)
LEMMA BecomesMoves ==
    ASSUME TypeOK, NEW p \in Peers, NEW status \in Status,
           peer' = [peer EXCEPT ![p] = Becomes(p, status)]
    PROVE  Moves(p, status, IF status = "idle" THEN 0 ELSE peer[p].token, peer[p].inbox)
  <1> DEFINE token == IF status = "idle" THEN 0 ELSE peer[p].token
             r     == [peer[p] EXCEPT !.status = status, !.token = token]
  <1>1. peer[p] \in PeerRecord /\ peer[p].inbox \in Seq(Reply) /\ token \in Token
    BY DEF TypeOK, PeerRecord, Token
  <1>2. peer' = [peer EXCEPT ![p] = r]
    BY DEF Becomes
  <1> HIDE DEF token
  <1>3. r \in PeerRecord /\ r.status = status /\ r.token = token /\ r.inbox = peer[p].inbox
    BY <1>1 DEF PeerRecord
  <1> HIDE DEF r
  <1>4. Moves(p, status, token, peer[p].inbox)
    BY <1>2, <1>3 DEF TypeOK, Moves
  <1> QED
    BY <1>4 DEF token

LEMMA SendsKeeps ==
    ASSUME IInv, NEW p \in Peers, SyncNow(p) \/ Leave(p)
    PROVE  IInv'
  <1>1. PICK socket \in {"ctl", "midi"}, kind \in {"CK", "BY"}, status \in {"synced", "idle"} :
          /\ PeerSends(p, socket, kind, status)
          /\ kind = "BY" => status = "idle"
    BY DEF SyncNow, Leave
  <1>2. InSession(p) /\ status \in Status
    BY DEF SyncNow, Leave, InSession, Status
  <1> DEFINE packet == Packet(kind, p, peer[p].token)
  <1>3. peer[p] \in PeerRecord /\ peer[p].token \in Token /\ peer[p].inbox \in Seq(Reply)
    BY DEF IInv, TypeOK, PeerRecord
  <1>4. packet \in Datagram /\ packet.from = p /\ packet.token = peer[p].token /\ packet.kind = kind
    BY <1>3 DEF Packet, Datagram
  <1>5. peer[p].token # 0
    BY <1>2 DEF IInv, TokensOfAttempts, InSession
  <1>6. Send(socket, packet) /\ UNCHANGED ownVars /\ UNCHANGED oneHost
    BY <1>1 DEF PeerSends
  <1> HIDE DEF packet
  <1>7. /\ ctl' \in Seq(Datagram) /\ midi' \in Seq(Datagram)
        /\ late' \subseteq {"ctl", "midi"} \X Datagram
        /\ Waiting' \subseteq Waiting \cup {packet}
    BY <1>4, <1>6, SendAdds DEF IInv
  <1>8. Moves(p, status, IF status = "idle" THEN 0 ELSE peer[p].token, peer[p].inbox)
    BY <1>1, <1>2, BecomesMoves DEF PeerSends, IInv
  <1>9. /\ peer[p].status # "idle" /\ Told(p)
        /\ \A b \in Waiting' \ Waiting :
              b.kind = "BY" => b.from = p /\ status = "idle" /\ b.token # 0
    BY <1>1, <1>2, <1>4, <1>5, <1>7 DEF InSession, Told
  <1> QED
    BY <1>2, <1>3, <1>6, <1>7, <1>8, <1>9, AttemptGoesOn

LEMMA GiveUpKeeps ==
    ASSUME IInv, NEW p \in Peers, GiveUp(p)
    PROVE  IInv'
  <1>1. peer[p] \in PeerRecord /\ peer[p].inbox \in Seq(Reply) /\ "idle" \in Status
    BY DEF IInv, TypeOK, PeerRecord, Status
  <1>2. Moves(p, "idle", IF "idle" = "idle" THEN 0 ELSE peer[p].token, peer[p].inbox)
    BY <1>1, BecomesMoves DEF GiveUp, IInv
  <1>3. /\ ctl' \in Seq(Datagram) /\ midi' \in Seq(Datagram)
        /\ late' \subseteq {"ctl", "midi"} \X Datagram
        /\ Waiting' = Waiting /\ UNCHANGED ownVars /\ UNCHANGED oneHost
    BY DEF GiveUp, netVars, IInv, TypeOK, Waiting
  <1>4. "idle" \in {"in", "synced"} \/ Has(peer[p].inbox, MidiOK(peer[p].token)) => Told(p)
    BY DEF Told
  <1> QED
    BY <1>1, <1>2, <1>3, <1>4, AttemptGoesOn

(* A reply to an earlier attempt changes nothing; one to this attempt takes  *)
(* the peer on, into the session only if the MIDI port was accepted.         *)
LEMMA StatusAfterType ==
    ASSUME TypeOK, NEW p \in Peers, NEW reply \in Reply
    PROVE  /\ StatusAfter(p, reply) \in Status
           /\ peer[p].status = "idle" => StatusAfter(p, reply) = "idle"
           /\ StatusAfter(p, reply) \in {"in", "synced"} =>
                 InSession(p) \/ reply = MidiOK(peer[p].token)
  <1> DEFINE now == peer[p].status
  <1>1. peer[p] \in PeerRecord /\ now \in Status
    BY DEF TypeOK, PeerRecord
  <1>2. \/ StatusAfter(p, reply) = now
        \/ StatusAfter(p, reply) = "idle"
        \/ StatusAfter(p, reply) = "accepted" /\ now = "invited"
        \/ /\ StatusAfter(p, reply) = "in" /\ now = "accepted"
           /\ reply.token = peer[p].token /\ reply.kind = "OK" /\ reply.socket = "midi"
        \/ StatusAfter(p, reply) = "in" /\ now = "synced"
    <2> HIDE DEF now
    <2>1. CASE reply.token # peer[p].token
      BY <2>1 DEF StatusAfter, now
    <2>2. CASE reply.token = peer[p].token /\ reply.kind = "NO"
      BY <2>2 DEF StatusAfter, now
    <2>3. CASE reply.token = peer[p].token /\ reply.kind = "CK"
      BY <2>3 DEF StatusAfter, now
    <2>4. CASE reply.token = peer[p].token /\ reply.kind = "OK" /\ reply.socket = "ctl"
      BY <2>4 DEF StatusAfter, now
    <2>5. CASE reply.token = peer[p].token /\ reply.kind = "OK" /\ reply.socket = "midi"
      BY <2>5 DEF StatusAfter, now
    <2>6. reply.kind \in {"OK", "NO", "CK"} /\ reply.socket \in {"ctl", "midi"}
      BY DEF Reply
    <2> QED
      BY <2>1, <2>2, <2>3, <2>4, <2>5, <2>6
  <1>3. reply.token = peer[p].token /\ reply.kind = "OK" /\ reply.socket = "midi"
          => reply = MidiOK(peer[p].token)
    BY DEF Reply, MidiOK, AReply
  <1> QED
    BY <1>1, <1>2, <1>3 DEF Status, InSession

LEMMA ReadReplyKeeps ==
    ASSUME IInv, NEW p \in Peers, ReadReply(p)
    PROVE  IInv'
  <1> DEFINE inbox  == peer[p].inbox
             reply  == Head(inbox)
             status == StatusAfter(p, reply)
             token  == IF status = "idle" THEN 0 ELSE peer[p].token
  <1>1. /\ peer[p] \in PeerRecord /\ inbox \in Seq(Reply) /\ inbox # <<>>
        /\ reply \in Reply /\ Tail(inbox) \in Seq(Reply)
        /\ token \in Token /\ peer[p].token \in Token
    BY DEF IInv, TypeOK, PeerRecord, ReadReply, Token
  <1>2. /\ status \in Status
        /\ peer[p].status = "idle" => status = "idle"
        /\ status \in {"in", "synced"} => InSession(p) \/ reply = MidiOK(peer[p].token)
    BY <1>1, StatusAfterType DEF IInv
  <1>3. status \in {"in", "synced"} \/ Has(Tail(inbox), MidiOK(peer[p].token)) => Told(p)
    <2>1. Has(inbox, reply)
      BY <1>1 DEF Has
    <2>2. \A r : Has(Tail(inbox), r) => Has(inbox, r)
      BY <1>1, HasTail
    <2> HIDE DEF status, reply
    <2> QED
      BY <1>2, <2>1, <2>2 DEF Told
  <1>4. Moves(p, status, token, Tail(inbox))
    <2> DEFINE r == [peer[p] EXCEPT !.status = status, !.token = token]
               s == [r EXCEPT !.inbox = Tail(@)]
    <2>1. peer' = [peer EXCEPT ![p] = s]
      BY DEF ReadReply, Becomes
    <2> HIDE DEF status, token, reply
    <2>2. r \in PeerRecord /\ r.status = status /\ r.token = token /\ r.inbox = inbox
      BY <1>1, <1>2 DEF PeerRecord
    <2> HIDE DEF r
    <2>3. s \in PeerRecord /\ s.status = status /\ s.token = token /\ s.inbox = Tail(inbox)
      BY <1>1, <2>2 DEF PeerRecord
    <2> HIDE DEF s
    <2> QED
      BY <2>1, <2>3 DEF IInv, TypeOK, Moves
  <1>5. /\ ctl' \in Seq(Datagram) /\ midi' \in Seq(Datagram)
        /\ late' \subseteq {"ctl", "midi"} \X Datagram
        /\ \A b \in Waiting' \ Waiting : b.kind # "BY"
    <2>1. CASE UNCHANGED netVars
      BY <2>1 DEF netVars, IInv, TypeOK, Waiting
    <2>2. CASE Send("midi", Packet("IN", p, peer[p].token))
      <3> DEFINE packet == Packet("IN", p, peer[p].token)
      <3>1. packet \in Datagram /\ packet.kind = "IN"
        BY <1>1 DEF Packet, Datagram
      <3>2. Send("midi", packet)
        BY <2>2
      <3> HIDE DEF packet
      <3> QED
        BY <3>1, <3>2, SendAdds DEF IInv
    <2> QED
      BY <2>1, <2>2 DEF ReadReply
  <1>6. UNCHANGED ownVars /\ UNCHANGED oneHost
    BY DEF ReadReply
  <1> HIDE DEF status, reply
  <1> QED
    BY <1>1, <1>2, <1>3, <1>4, <1>5, <1>6, AttemptGoesOn

LEMMA ArriveKeeps ==
    ASSUME IInv, Arrive
    PROVE  IInv'
  <1> PICK m \in late : Deliver(m[1], m[2]) /\ late' = late \ {m}
    BY DEF Arrive
  <1>1. UNCHANGED ownVars /\ UNCHANGED <<peer, oneHost>>
    BY DEF Arrive
  <1>2. m[2] \in Datagram /\ m[2] \in Waiting
    BY DEF IInv, TypeOK, Waiting
  <1>3. /\ ctl' = ctl \/ ctl' = Append(ctl, m[2])
        /\ midi' = midi \/ midi' = Append(midi, m[2])
    BY DEF Deliver
  <1>4. /\ ctl' \in Seq(Datagram) /\ midi' \in Seq(Datagram)
        /\ \A i \in DOMAIN ctl' : ctl'[i] \in Waiting
    <2>1. ctl \in Seq(Datagram) /\ midi \in Seq(Datagram) /\ \A i \in DOMAIN ctl : ctl[i] \in Waiting
      BY DEF IInv, TypeOK, Waiting
    <2>2. /\ Append(ctl, m[2]) \in Seq(Datagram)
          /\ \A i \in DOMAIN Append(ctl, m[2]) :
                Append(ctl, m[2])[i] = m[2]
                \/ (i \in DOMAIN ctl /\ Append(ctl, m[2])[i] = ctl[i])
      BY <1>2, <2>1, AppendProperties
    <2>3. midi' \in Seq(Datagram)
      BY <1>2, <1>3, <2>1
    <2>4. CASE ctl' = ctl
      BY <2>1, <2>3, <2>4
    <2>5. CASE ctl' = Append(ctl, m[2])
      BY <1>2, <2>1, <2>2, <2>3, <2>5
    <2> QED
      BY <1>3, <2>4, <2>5
  <1>5. Waiting' \subseteq Waiting
    BY <1>4 DEF Waiting
  <1>6. TypeOK'
    BY <1>1, <1>4 DEF IInv, TypeOK, OwnType, ownVars, stateVars, sessionVars
  <1>7. TokensOfAttempts' /\ WhoIsToldIsHeard' /\ OneMachinePerSession'
    BY <1>1 DEF IInv, TokensOfAttempts, WhoIsToldIsHeard, Told, InSession, OneMachinePerSession,
                SameHost, ownVars, stateVars, sessionVars
  <1>8. ByesAreOld'
    BY <1>1, <1>5 DEF IInv, ByesAreOld
  <1> QED
    BY <1>6, <1>7, <1>8 DEF IInv

LEMMA TimeKeeps ==
    ASSUME IInv, TimePasses
    PROVE  IInv'
  BY DEF TimePasses, IInv, TypeOK, OwnType, sessionVars, TokensOfAttempts, ByesAreOld, Waiting,
         WhoIsToldIsHeard, Told, InSession, OneMachinePerSession, SameHost

LEMMA StepKeeps ==
    ASSUME IInv, [Next]_vars
    PROVE  IInv'
  <1>1. ASSUME NEW p \in Peers, PeerNext(p)
        PROVE  IInv'
    BY <1>1, InviteKeeps, ReadReplyKeeps, SendsKeeps, GiveUpKeeps DEF PeerNext
  <1>2. CASE Turn(FALSE) \/ Turn(TRUE)
    BY <1>2, RunKeeps
  <1>3. CASE SendFails \/ TimePasses \/ Arrive
    BY <1>3, SendFailsKeeps, TimeKeeps, ArriveKeeps
  <1>4. CASE UNCHANGED vars
    BY <1>4 DEF vars, ownVars, stateVars, sessionVars, netVars, IInv, TypeOK, OwnType,
                TokensOfAttempts, ByesAreOld, Waiting, WhoIsToldIsHeard, Told, InSession,
                OneMachinePerSession, SameHost
  <1> QED
    BY <1>1, <1>2, <1>3, <1>4 DEF Next

LEMMA InitHolds == Init => IInv
  <1> SUFFICES ASSUME Init PROVE IInv
    OBVIOUS
  <1> DEFINE r == [status |-> "idle", token |-> 0, inbox |-> <<>>]
  <1>1. r \in PeerRecord
    BY DEF PeerRecord, Status, Token
  <1>2. TypeOK
    <2>1. peer \in [Peers -> PeerRecord] /\ oneHost \in BOOLEAN
      BY <1>1 DEF Init
    <2>2. OwnType
      BY DEF Init, OwnType, Token
    <2>3. m_ControlBuffer = Nothing /\ ctl = <<>> /\ midi = <<>> /\ late = {}
      BY DEF Init
    <2> QED
      BY <2>1, <2>2, <2>3 DEF TypeOK
  <1>3. \A p \in Peers : peer[p].status = "idle" /\ peer[p].token = 0
    BY DEF Init
  <1>4. Waiting = {}
    BY DEF Init, Waiting
  <1>5. m_State # "Connected"
    BY DEF Init
  <1> QED
    BY <1>2, <1>3, <1>4, <1>5
       DEF IInv, TokensOfAttempts, ByesAreOld, WhoIsToldIsHeard, OneMachinePerSession

LEMMA InvariantHolds == Spec => []IInv
  BY InitHolds, StepKeeps, PTL DEF Spec

--------------------------------------------------------------------------------
(* Whoever has been told that it is in a session is in it, on both ports,    *)
(* until that session is dropped: whatever is lost, late or comes twice.     *)
THEOREM ToldMeansHeard == Spec => []WhoIsInIsHeard
  <1>1. IInv => WhoIsInIsHeard
    BY DEF IInv, WhoIsToldIsHeard, WhoIsInIsHeard, Told, InSession
  <1> QED
    BY <1>1, InvariantHolds, PTL

(* MIDIInvitationState looks at the host of an invitation only, and that is  *)
(* enough for both ports of a session to be on one machine.                  *)
THEOREM OneMachine == Spec => []OneMachinePerSession
  <1>1. IInv => OneMachinePerSession
    BY DEF IInv
  <1> QED
    BY <1>1, InvariantHolds, PTL

(* A session that its initiator is in ends for want of syncs only: a goodbye *)
(* under way is an old one, and the token it carries tells.                  *)
THEOREM LiveSessionsStay == Spec => KeepsLiveSessions
  <1> DEFINE live == InSession(m_Initiator) /\ peer[m_Initiator].token = m_nInitiatorSSRC
             A    == m_State = "Connected" /\ m_State' # "Connected" /\ ~overdue => ~live
  <1>1. IInv /\ [Next]_vars => [A]_vars
    <2> SUFFICES ASSUME IInv, Next, m_State = "Connected", m_State' # "Connected", ~overdue
                 PROVE  ~live
      OBVIOUS
    <2>1. PICK error \in BOOLEAN : Turn(error)
      BY DEF Next, PeerNext, Invite, ReadReply, PeerSends, SyncNow, Leave, GiveUp, SendFails,
             TimePasses, Arrive, ownVars, stateVars
    <2>2. PICK c \in (IF error THEN {Nothing} ELSE Received(ctl)) : EndsSession(c)
      BY <2>1 DEF Turn, ControlInvitationState, MIDIInvitationState, ConnectedState, TimesOut
    <2>3. c \in Waiting
      BY <2>2 DEF EndsSession, Nothing, Packet, Received, Waiting, IInv, TypeOK
    <2>4. c.kind = "BY" /\ c.token # peer[m_Initiator].token /\ c.token = m_nInitiatorSSRC
      BY <2>2, <2>3 DEF EndsSession, IInv, ByesAreOld
    <2> QED
      BY <2>4
  <1> QED
    BY <1>1, InvariantHolds, PTL DEF Spec, KeepsLiveSessions
================================================================================
