---------------------------- MODULE MidiInputProofs ----------------------------
(***************************************************************************)
(* The way from the accordion to the synth, for buffers of every size and  *)
(* any number of scripts: channel messages are heard once and in order,    *)
(* no note stays behind, and no purge starts one.                          *)
(***************************************************************************)
EXTENDS MidiInput, MidiParserProofs, NaturalsInduction, WellFoundedInduction

(* The way of the accordion's messages.  They are channel messages here: a    *)
(* SysEx in between makes sender and parser disagree on the running status.   *)
ChannelMessages == {msg \in Seq(Octet) : WholeShort(msg) /\ msg[1] < SysExStart}

Size(msg) == ShortSize(msg[1])

(* Bytes written and not yet parsed, wherever they are. *)
InFlight == (rx \o shared) \o outbox

(* The status a parser knows when message i of those to be heard begins. *)
Known(p, msgs, i) == IF i = 1 THEN p.m_MessageBuffer[0] ELSE msgs[i-1][1]

(* The S bytes s, after what the parser p holds already, are the N messages   *)
(* msgs: message i ends at end[i], and has its status left out if omit[i] is  *)
(* 1, which is only so when it is known by then.                              *)
Divides(p, s, S, msgs, N, end, omit) ==
    /\ end \in [0..N -> Int] /\ omit \in [1..N -> 0..1]
    /\ end[0] = 0 - p.m_nMessageLength /\ end[N] = S
    /\ \A i, j \in 0..N : i < j => end[i] < end[j]
    /\ \A i \in 1..N :
         /\ end[i] = end[i-1] + Size(msgs[i]) - omit[i]
         /\ omit[i] = 1 => /\ msgs[i][1] = Known(p, msgs, i)
                           /\ i = 1 => p.m_nMessageLength = 0
         /\ \A j \in 1..Size(msgs[i]) :
              j > omit[i] /\ end[i-1] + j - omit[i] >= 1
                  => s[end[i-1] + j - omit[i]] = msgs[i][j]

(* How many bytes of its message the parser will have with the next one. *)
Coming(p, omit) == p.m_nMessageLength + 1 + omit[1]

(* The parser stands between two messages, or in the middle of the first of  *)
(* the N to be heard.                                                        *)
Amid(p, msgs, N) ==
    /\ p \in Parser
    /\ p.m_State \in {"StatusByte", "DataByte"}
    /\ p.m_MessageBuffer[0] \in {0} \cup 128..239
    /\ p.m_State = "StatusByte" => p.m_nMessageLength = 0
    /\ p.m_State = "DataByte" =>
         /\ p.m_nMessageLength \in 1..2 /\ N >= 1
         /\ p.m_nMessageLength < Size(msgs[1])
         /\ \A j \in 1..p.m_nMessageLength : p.m_MessageBuffer[j-1] = msgs[1][j]

(* The N messages msgs turn the notes from into the notes to. *)
Leads(msgs, N, from, to) ==
    \E notes : /\ DOMAIN notes = 0..N
               /\ notes[0] = from /\ notes[N] = to
               /\ \A i \in 1..N : notes[i] = NotesAfter(notes[i-1], msgs[i])

(* All that was sent and not yet heard is under way, and leads from what the *)
(* synth plays to what the sender holds.                                     *)
Flows(p, s, S, msgs, N, status, from, to) ==
    /\ N \in Nat /\ S \in Nat /\ msgs \in [1..N -> ChannelMessages]
    /\ Amid(p, msgs, N)
    /\ \E end, omit : Divides(p, s, S, msgs, N, end, omit)
    /\ status = IF N = 0 THEN p.m_MessageBuffer[0] ELSE msgs[N][1]
    /\ Leads(msgs, N, from, to)

LEMMA ChannelMessageType ==
    ASSUME NEW msg \in ChannelMessages
    PROVE  /\ msg \in Seq(Octet) /\ Len(msg) = Size(msg)
           /\ Size(msg) \in 2..3 /\ (Size(msg) = 2 <=> OneDataByte(msg[1]))
           /\ msg[1] \in 128..239 /\ msg[1] \in Octet
           /\ \A i \in 2..Size(msg) : msg[i] \in Octet /\ ~IsStatus(msg[i]) /\ msg[i] < 128
  <1>1. /\ msg \in Seq(Octet) /\ WholeShort(msg) /\ msg[1] < SysExStart
    BY DEF ChannelMessages
  <1>2. /\ msg[1] \in Octet /\ msg[1] \in 128..239
    <2>1. ShortSize(msg[1]) \in 1..3
      BY DEF ShortSize
    <2>2. msg[1] \in Octet
      BY <1>1, <2>1 DEF WholeShort
    <2>3. IsStatus(msg[1])
      BY <1>1 DEF WholeShort
    <2> QED BY <1>1, <2>2, <2>3, OctetParts
  <1>3. Size(msg) \in 2..3 /\ (Size(msg) = 2 <=> OneDataByte(msg[1]))
    BY <1>2, OctetParts DEF Size, ShortSize
  <1>4. Len(msg) = Size(msg)
    BY <1>1, <1>3 DEF WholeShort, Size
  <1>5. \A i \in 2..Size(msg) : msg[i] \in Octet /\ ~IsStatus(msg[i])
    BY <1>1, <1>3 DEF WholeShort, Size
  <1>6. ASSUME NEW i \in 2..Size(msg) PROVE msg[i] < 128
    BY <1>5, OctetParts
  <1> QED BY <1>1, <1>2, <1>3, <1>4, <1>5, <1>6

--------------------------------------------------------------------------------
(* A parser that has got n bytes of msg. *)
Holds(q, n, msg) ==
    /\ q \in Parser /\ q.m_nMessageLength = n
    /\ \A j \in 1..n : q.m_MessageBuffer[j-1] = msg[j]

(* What it does then: hand the message on, or wait for the rest. *)
HeardOrHeld(r, n, msg) ==
    /\ r.p \in Parser
    /\ n >= Size(msg) => /\ r.calls = <<Short(msg)>>
                       /\ r.p.m_State = "StatusByte" /\ r.p.m_nMessageLength = 0
                       /\ r.p.m_MessageBuffer[0] = msg[1]
    /\ n < Size(msg) => /\ r.calls = <<>> /\ n \in 1..2
                       /\ r.p.m_State = "DataByte" /\ Holds(r.p, n, msg)

LEMMA DeliverKeeps ==
    ASSUME NEW msg \in ChannelMessages, NEW n \in 2..3, n <= Size(msg),
           NEW q, Holds(q, n, msg), q.m_State = "DataByte" \/ n >= Size(msg), NEW ign \in BOOLEAN,
           ~(IsNoteOn(msg[1]) /\ ign)
    PROVE  HeardOrHeld(CheckCompleteShortMessage(q, ign), n, msg)
  <1> DEFINE r == CheckCompleteShortMessage(q, ign)
             st == q.m_MessageBuffer[0]
             clear == st >= 241 /\ st <= 247
  <1>1. /\ Size(msg) \in 2..3 /\ (Size(msg) = 2 <=> OneDataByte(msg[1]))
        /\ msg[1] \in 128..239 /\ msg[1] \in Octet /\ msg \in Seq(Octet) /\ Len(msg) = Size(msg)
    BY ChannelMessageType
  <1>2. st = msg[1] /\ q.m_nMessageLength = n /\ q \in Parser
        /\ \A j \in 1..n : q.m_MessageBuffer[j-1] = msg[j]
    BY DEF Holds
  <1>3. Complete(q) <=> n = Size(msg)
    BY <1>1, <1>2 DEF Complete
  <1>4. CASE n = Size(msg)
    <2>1. ~clear
      <3>1. st \in Octet /\ st \in 128..239
        BY <1>1, <1>2
      <3> QED BY <3>1, OctetParts
    <2>2. /\ r.p = ResetState(q, FALSE) /\ r.calls = <<Short(Bytes(q, n))>>
      BY <1>2, <1>3, <1>4, <2>1 DEF CheckCompleteShortMessage, Result
    <2>3. Bytes(q, n) = msg
      <3>1. msg \in [1..n -> Octet]
        BY <1>1, <1>4
      <3>2. Bytes(q, n) = [i \in 1..n |-> msg[i]]
        BY <1>2 DEF Bytes
      <3> QED BY <3>1, <3>2
    <2>4. /\ ResetState(q, FALSE).m_State = "StatusByte"
          /\ ResetState(q, FALSE).m_nMessageLength = 0
          /\ ResetState(q, FALSE) \in Parser
      BY <1>1, <1>2, ResetFields DEF WellFormed
    <2>5. ResetState(q, FALSE).m_MessageBuffer[0] = msg[1]
      BY <1>2 DEF ResetState, Parser
    <2> HIDE DEF r
    <2>6. /\ r.calls = <<Short(msg)>> /\ r.p \in Parser
          /\ r.p.m_State = "StatusByte" /\ r.p.m_nMessageLength = 0
          /\ r.p.m_MessageBuffer[0] = msg[1]
      BY <2>2, <2>3, <2>4, <2>5
    <2>7. ~(n < Size(msg))
      BY <1>1, <1>4
    <2>8. HeardOrHeld(r, n, msg)
      BY <2>6, <2>7 DEF HeardOrHeld
    <2> QED BY <2>8 DEF r
  <1>5. CASE n < Size(msg)
    <2>1. r.p = q /\ r.calls = <<>>
      BY <1>3, <1>5 DEF CheckCompleteShortMessage, Result
    <2>2. n \in 1..2
      BY <1>1, <1>5
    <2>3. r.p.m_State = "DataByte" /\ Holds(r.p, n, msg) /\ r.p \in Parser
      BY <1>1, <1>2, <1>5, <2>1
    <2> HIDE DEF r
    <2>4. HeardOrHeld(r, n, msg)
      BY <1>1, <1>5, <2>1, <2>2, <2>3 DEF HeardOrHeld
    <2> QED BY <2>4 DEF r
  <1> QED BY <1>1, <1>4, <1>5

(* The status that begins a message. *)
LEMMA StatusTaken ==
    ASSUME NEW msg \in ChannelMessages, NEW p \in Parser, NEW ign \in BOOLEAN,
           p.m_State = "StatusByte", p.m_nMessageLength = 0
    PROVE  HeardOrHeld(ParseByte(p, msg[1], ign), 1, msg)
  <1> DEFINE b == msg[1]
             q == [p EXCEPT !.m_State = "DataByte"]
             r == Push(q, b)
  <1>1. b \in 128..239 /\ b \in Octet
    BY ChannelMessageType
  <1>2. Size(msg) \in Nat /\ Size(msg) >= 2
    BY ChannelMessageType
  <1> HIDE DEF b
  <1>3. ParseByte(p, b, ign) = ParseStatus(p, b)
    BY <1>1, OctetParts DEF ParseByte, ParseStatusByte
  <1>4. ParseStatus(p, b) = Result(r, <<>>)
    <2>1. b \notin {244, 245, 240, 246, 247}
      BY <1>1
    <2> QED BY <2>1 DEF ParseStatus, SysExStart, SysExEnd, TuneRequest
  <1>5. q \in Parser /\ q.m_State = "DataByte" /\ q.m_nMessageLength = 0
    BY DEF Parser
  <1> HIDE DEF q
  <1>6. /\ r \in Parser /\ r.m_State = "DataByte" /\ r.m_nMessageLength = 1
        /\ r.m_MessageBuffer[0] = b
    <2>1. q.m_nMessageLength < SysExBufferSize
      BY <1>5, ParserAssumption
    <2> QED BY <1>1, <1>5, <2>1, PushFields
  <1> HIDE DEF r
  <1>7. Holds(r, 1, msg)
    BY <1>6 DEF Holds, b
  <1>8. 1 < Size(msg) /\ ~(1 >= Size(msg)) /\ 1 \in 1..2
    BY <1>2
  <1>9. HeardOrHeld(Result(r, <<>>), 1, msg)
    BY <1>6, <1>7, <1>8 DEF HeardOrHeld, Result
  <1> QED BY <1>3, <1>4, <1>9 DEF b

(* The first data byte of a message whose status was left out. *)
LEMMA RunningTaken ==
    ASSUME NEW msg \in ChannelMessages, NEW p \in Parser, NEW ign \in BOOLEAN,
           p.m_State = "StatusByte", p.m_MessageBuffer[0] = msg[1]
    PROVE  HeardOrHeld(ParseByte(p, msg[2], ign), 2, msg)
  <1> DEFINE b == msg[2]
             buffer == Store(p, 1, b)
             two == [p EXCEPT !.m_MessageBuffer = buffer, !.m_nMessageLength = 2]
             one == [two EXCEPT !.m_State = "DataByte"]
  <1>1. b \in Octet /\ ~IsStatus(b) /\ b < 128
    <2>1. 2 \in 2..Size(msg)
      BY ChannelMessageType
    <2> QED BY <2>1, ChannelMessageType
  <1>2. /\ Size(msg) \in Nat /\ Size(msg) >= 2 /\ Size(msg) <= 3
        /\ (Size(msg) <= 2 <=> OneDataByte(msg[1]))
    BY ChannelMessageType
  <1>2a. msg[1] # 0
    BY ChannelMessageType, OctetParts
  <1> HIDE DEF b
  <1>3. ParseByte(p, b, ign) = ParseRunning(p, b)
    BY <1>1, OctetParts DEF ParseByte, ParseStatusByte
  <1>4. ParseRunning(p, b) = IF Complete(two) THEN CheckCompleteShortMessage(two, FALSE)
                             ELSE Result(one, <<>>)
    BY <1>2a DEF ParseRunning
  <1>5. buffer \in [BufferSlot -> Octet] /\ buffer[0] = msg[1] /\ buffer[1] = b
    <2>1. 0 \in BufferSlot /\ 1 \in BufferSlot
      BY ParserAssumption DEF BufferSlot
    <2> QED BY <1>1, <2>1, StoreType
  <1> HIDE DEF buffer
  <1>6. two \in Parser /\ two.m_nMessageLength = 2 /\ two.m_MessageBuffer = buffer
    <2>1. 2 \in 0..SysExBufferSize
      BY ParserAssumption
    <2> QED BY <1>5, <2>1 DEF Parser
  <1> HIDE DEF two
  <1>7. Holds(two, 2, msg)
    BY <1>5, <1>6 DEF Holds, b
  <1>8. Complete(two) <=> Size(msg) <= 2
    BY <1>2, <1>5, <1>6 DEF Complete
  <1>9. CASE Complete(two)
    <2>1. 2 >= Size(msg) /\ 2 <= Size(msg)
      BY <1>2, <1>8, <1>9
    <2>2. HeardOrHeld(CheckCompleteShortMessage(two, FALSE), 2, msg)
      <3>1. 2 \in 2..3 /\ FALSE \in BOOLEAN
        OBVIOUS
      <3> QED BY <1>7, <2>1, <3>1, DeliverKeeps
    <2> QED BY <1>3, <1>4, <1>9, <2>2 DEF b
  <1>10. CASE ~Complete(two)
    <2>1. one \in Parser /\ one.m_State = "DataByte" /\ one.m_nMessageLength = 2
          /\ one.m_MessageBuffer = buffer
      BY <1>6 DEF Parser
    <2> HIDE DEF one
    <2>2. Holds(one, 2, msg)
      BY <1>5, <2>1 DEF Holds, b
    <2>3. 2 < Size(msg) /\ ~(2 >= Size(msg)) /\ 2 \in 1..2
      BY <1>2, <1>8, <1>10
    <2>4. HeardOrHeld(Result(one, <<>>), 2, msg)
      BY <2>1, <2>2, <2>3 DEF HeardOrHeld, Result
    <2> QED BY <1>3, <1>4, <1>10, <2>4 DEF b
  <1> QED BY <1>9, <1>10

(* Another byte of a message. *)
LEMMA DataTaken ==
    ASSUME NEW msg \in ChannelMessages, NEW p \in Parser, NEW ign \in BOOLEAN,
           p.m_State = "DataByte", NEW n \in 1..2, n < Size(msg), Holds(p, n, msg),
           ~(IsNoteOn(msg[1]) /\ ign)
    PROVE  HeardOrHeld(ParseByte(p, msg[n+1], ign), n + 1, msg)
  <1> DEFINE b == msg[n+1]
             q == Push(p, b)
  <1>1. b \in Octet /\ ~IsStatus(b) /\ b < 128
    <2>1. n + 1 \in 2..Size(msg)
      BY ChannelMessageType
    <2> QED BY <2>1, ChannelMessageType
  <1>2. n + 1 \in 2..3 /\ n + 1 <= Size(msg)
    BY ChannelMessageType
  <1> HIDE DEF b
  <1>3. ParseByte(p, b, ign) = CheckCompleteShortMessage(q, ign)
    BY <1>1, OctetParts DEF ParseByte, ParseDataByte
  <1>4. /\ q \in Parser /\ q.m_State = "DataByte" /\ q.m_nMessageLength = n + 1
        /\ q.m_MessageBuffer[n] = b
        /\ \A j \in BufferSlot \ {n} : q.m_MessageBuffer[j] = p.m_MessageBuffer[j]
    <2>1. p.m_nMessageLength = n /\ n < SysExBufferSize
      BY ParserAssumption DEF Holds
    <2> QED BY <1>1, <2>1, PushFields
  <1> HIDE DEF q
  <1>5. Holds(q, n + 1, msg)
    <2>1. ASSUME NEW j \in 1..n+1 PROVE q.m_MessageBuffer[j-1] = msg[j]
      <3>1. CASE j = n + 1
        <4>1. j - 1 = n
          BY <3>1
        <4> QED BY <1>4, <3>1, <4>1 DEF b
      <3>2. CASE j # n + 1
        <4>1. j - 1 \in BufferSlot \ {n} /\ j \in 1..n
          BY <3>2, ParserAssumption DEF BufferSlot
        <4> QED BY <1>4, <4>1 DEF Holds
      <3> QED BY <3>1, <3>2
    <2> QED BY <1>4, <2>1 DEF Holds
  <1>6. HeardOrHeld(CheckCompleteShortMessage(q, ign), n + 1, msg)
    BY <1>2, <1>4, <1>5, DeliverKeeps
  <1> QED BY <1>3, <1>6 DEF b

(* A byte under way belongs to the first message to be heard: it is the next *)
(* one of it that the parser has not got.                                    *)
LEMMA NextByte ==
    ASSUME NEW S \in Nat \ {0}, NEW s, NEW N \in Nat, NEW msgs \in [1..N -> ChannelMessages],
           NEW p, Amid(p, msgs, N), NEW end, NEW omit, Divides(p, s, S, msgs, N, end, omit)
    PROVE  LET n == Coming(p, omit) IN
           /\ N >= 1 /\ omit[1] \in 0..1 /\ p.m_nMessageLength \in 0..2
           /\ n \in 1..3 /\ n <= Size(msgs[1])
           /\ s[1] = msgs[1][n]
           /\ HeardOrHeld(ParseByte(p, s[1], FALSE), n, msgs[1])
  <1> DEFINE len == p.m_nMessageLength
             m   == msgs[1]
             n   == len + 1 + omit[1]
             M   == Size(m)
  <1>1. N \in Nat /\ S \in Nat /\ S >= 1
    OBVIOUS
  <1>2. p \in Parser /\ p.m_State \in {"StatusByte", "DataByte"} /\ len \in Nat /\ len <= 2
        /\ (p.m_State = "StatusByte" => len = 0)
        /\ (p.m_State = "DataByte" => len \in 1..2 /\ len < M)
    BY DEF Amid, Parser
  <1>3. end[0] = 0 - len /\ end[N] = S
    BY DEF Divides
  <1>4. N >= 1
    <2> SUFFICES ASSUME N = 0 PROVE FALSE
      BY <1>1
    <2> QED BY <1>1, <1>2, <1>3
  <1>5. m \in ChannelMessages
    BY <1>1, <1>4
  <1>6. /\ omit[1] \in 0..1
        /\ omit[1] = 1 => m[1] = p.m_MessageBuffer[0] /\ len = 0
        /\ \A j \in 1..M : j > omit[1] /\ end[0] + j - omit[1] >= 1
                              => s[end[0] + j - omit[1]] = m[j]
    <2>1. 1 \in 1..N /\ 1 - 1 = 0
      BY <1>1, <1>4
    <2>2. /\ omit[1] = 1 => m[1] = Known(p, msgs, 1) /\ len = 0
          /\ \A j \in 1..M : j > omit[1] /\ end[1-1] + j - omit[1] >= 1
                                => s[end[1-1] + j - omit[1]] = m[j]
      BY <2>1 DEF Divides
    <2>3. omit[1] \in 0..1
      BY <2>1 DEF Divides
    <2> QED BY <2>1, <2>2, <2>3 DEF Known
  <1>7. M \in Nat /\ M >= 2
    <2>1. M \in 2..3
      BY <1>5, ChannelMessageType
    <2> HIDE DEF M
    <2> QED BY <2>1
  <1> HIDE DEF m, M, len
  <1>8. n \in 1..3 /\ n <= M
    BY <1>2, <1>6, <1>7
  <1>9. s[1] = m[n]
    <2>1. n \in 1..M /\ n > omit[1] /\ end[0] + n - omit[1] = 1
      BY <1>2, <1>3, <1>6, <1>7, <1>8
    <2> QED BY <1>6, <2>1
  <1>10. HeardOrHeld(ParseByte(p, m[n], FALSE), n, m)
    <2>0. FALSE \in BOOLEAN /\ ~(IsNoteOn(m[1]) /\ FALSE)
      OBVIOUS
    <2>1. CASE p.m_State = "StatusByte" /\ omit[1] = 0
      <3>1. n = 1 /\ p.m_nMessageLength = 0
        BY <1>2, <2>1 DEF len
      <3>2. HeardOrHeld(ParseByte(p, m[1], FALSE), 1, m)
        BY <1>2, <1>5, <2>0, <2>1, <3>1, StatusTaken
      <3> QED BY <3>1, <3>2
    <2>2. CASE p.m_State = "StatusByte" /\ omit[1] = 1
      <3>1. n = 2
        BY <1>2, <2>2
      <3>2. HeardOrHeld(ParseByte(p, m[2], FALSE), 2, m)
        BY <1>2, <1>5, <1>6, <2>0, <2>2, RunningTaken
      <3> QED BY <3>1, <3>2
    <2>3. CASE p.m_State = "DataByte"
      <3>1. n = len + 1 /\ len \in 1..2 /\ len < Size(m)
        BY <1>2, <1>6, <2>3 DEF M
      <3>2. Holds(p, len, m)
        BY <1>2, <2>3 DEF Amid, Holds, m, len
      <3>3. HeardOrHeld(ParseByte(p, m[len+1], FALSE), len + 1, m)
        BY <1>2, <1>5, <2>0, <2>3, <3>1, <3>2, DataTaken
      <3> QED BY <3>1, <3>3
    <2>4. omit[1] = 0 \/ omit[1] = 1
      BY <1>6
    <2> HIDE DEF n
    <2> QED BY <1>2, <2>1, <2>2, <2>3, <2>4
  <1>11. len \in 0..2
    BY <1>2
  <1>12. HeardOrHeld(ParseByte(p, s[1], FALSE), n, m)
    BY <1>9, <1>10
  <1>13. omit[1] \in 0..1
    BY <1>6
  <1> HIDE DEF n
  <1> QED BY <1>4, <1>8, <1>9, <1>11, <1>12, <1>13 DEF m, M, len, n, Coming

(* The parser is about to get the next of S bytes under way. *)
Taken(p, s, S, msgs, N, end, omit) ==
    /\ S \in Nat \ {0} /\ N \in Nat \ {0} /\ msgs \in [1..N -> ChannelMessages]
    /\ Divides(p, s, S, msgs, N, end, omit)
    /\ p.m_nMessageLength \in 0..2 /\ omit[1] \in 0..1

Shifted(s, S, t) == \A k \in 1..S-1 : t[k] = s[k+1]

(* What Divides says of numbers. *)
LEMMA DividesFacts ==
    ASSUME NEW S, NEW s, NEW N, NEW msgs, NEW p, NEW end, NEW omit,
           Taken(p, s, S, msgs, N, end, omit)
    PROVE  /\ N \in Nat /\ S \in Nat /\ S >= 1 /\ N >= 1
           /\ end \in [0..N -> Int] /\ omit \in [1..N -> 0..1]
           /\ \A i \in 1..N : Size(msgs[i]) \in 2..3
           /\ \A i \in 0..N : end[i] <= S
           /\ \A i \in 1..N : /\ i - 1 \in 0..N /\ i \in 0..N
                              /\ end[i] = end[i-1] + Size(msgs[i]) - omit[i]
  <1>0. N \in Nat /\ S \in Nat /\ S >= 1 /\ N >= 1
    BY DEF Taken
  <1>1. \A i \in 1..N : Size(msgs[i]) \in 2..3
    BY ChannelMessageType DEF Taken
  <1>2. /\ end \in [0..N -> Int] /\ omit \in [1..N -> 0..1] /\ end[N] = S
        /\ \A i, j \in 0..N : i < j => end[i] < end[j]
        /\ \A i \in 1..N : end[i] = end[i-1] + Size(msgs[i]) - omit[i]
    BY DEF Taken, Divides
  <1>3. ASSUME NEW i \in 0..N PROVE end[i] <= S
    <2>1. N \in 0..N /\ end[i] \in Int /\ (i = N \/ i < N)
      BY <1>0, <1>2
    <2> QED BY <1>2, <2>1
  <1> QED BY <1>0, <1>1, <1>2, <1>3

(* A byte that does not complete its message: the parser keeps it. *)
LEMMA KeptOnTheWay ==
    ASSUME NEW S, NEW s, NEW t, NEW N, NEW msgs, NEW p, NEW end, NEW omit, NEW n, NEW q,
           Taken(p, s, S, msgs, N, end, omit), n = Coming(p, omit), Shifted(s, S, t),
           q.m_State = "DataByte", Holds(q, n, msgs[1])
    PROVE  n \in 1..2 /\ n < Size(msgs[1]) =>
             Amid(q, msgs, N) /\ \E e, o : Divides(q, t, S-1, msgs, N, e, o)
  <1>0. SUFFICES ASSUME n \in 1..2, n < Size(msgs[1])
        PROVE  Amid(q, msgs, N) /\ \E e, o : Divides(q, t, S-1, msgs, N, e, o)
    OBVIOUS
  <1> DEFINE e == [i \in 0..N |-> IF i = 0 THEN 0 - n ELSE end[i] - 1]
             o == [i \in 1..N |-> IF i = 1 THEN 0 ELSE omit[i]]
             len == p.m_nMessageLength
  <1>1. /\ N \in Nat /\ S \in Nat /\ S >= 1 /\ N >= 1
        /\ end \in [0..N -> Int] /\ omit \in [1..N -> 0..1]
        /\ \A i \in 1..N : Size(msgs[i]) \in 2..3
        /\ \A i \in 0..N : end[i] <= S
        /\ \A i \in 1..N : /\ i - 1 \in 0..N /\ i \in 0..N
                           /\ end[i] = end[i-1] + Size(msgs[i]) - omit[i]
    BY DividesFacts
  <1>2. /\ end[0] = 0 - len /\ end[N] = S
        /\ \A i, j \in 0..N : i < j => end[i] < end[j]
        /\ \A i \in 1..N :
             /\ omit[i] = 1 => msgs[i][1] = Known(p, msgs, i)
             /\ \A j \in 1..Size(msgs[i]) :
                  j > omit[i] /\ end[i-1] + j - omit[i] >= 1
                      => s[end[i-1] + j - omit[i]] = msgs[i][j]
    BY DEF Taken, Divides
  <1>4. /\ \A i \in 1..N : e[i] = end[i] - 1
        /\ e[0] = 0 - n
        /\ o[1] = 0
        /\ \A i \in 2..N : o[i] = omit[i]
        /\ e \in [0..N -> Int] /\ o \in [1..N -> 0..1]
    <2>1. /\ \A i \in 1..N : e[i] = end[i] - 1
          /\ e[0] = 0 - n
          /\ o[1] = 0
          /\ \A i \in 2..N : o[i] = omit[i]
      BY <1>1
    <2>2. e \in [0..N -> Int]
      BY <1>0, <1>1
    <2>3. o \in [1..N -> 0..1]
      BY <1>1
    <2> QED BY <2>1, <2>2, <2>3
  <1>5. 1 \in 1..N /\ msgs[1] \in ChannelMessages /\ n \in Int
    BY <1>0, <1>1 DEF Taken
  <1>6. Size(msgs[1]) > n /\ len \in Nat /\ omit[1] \in 0..1 /\ n = len + 1 + omit[1]
    BY <1>0 DEF Coming, Taken
  <1> HIDE DEF e, o, len
  <1>7. /\ end[1] = Size(msgs[1]) + 1 - n /\ e[1] = Size(msgs[1]) - n
        /\ end[0] - omit[1] = 1 - n
    <2>1. end[1] = end[0] + Size(msgs[1]) - omit[1] /\ Size(msgs[1]) \in Nat
      <3>1. end[1] = end[1-1] + Size(msgs[1]) - omit[1] /\ Size(msgs[1]) \in 2..3
        BY ONLY <1>1, <1>5
      <3>2. 1 - 1 = 0 /\ 2..3 \subseteq Nat
        OBVIOUS
      <3> QED BY <3>1, <3>2
    <2> QED BY SMTT(20), <1>2, <1>4, <1>5, <1>6, <2>1
  <1>8. ASSUME NEW i \in 0..N, NEW j \in 0..N, i < j
        PROVE  e[i] < e[j]
    <2>1. j \in 1..N /\ e[j] = end[j] - 1 /\ end[j] \in Int
      BY <1>1, <1>4, <1>8
    <2>2. CASE i = 0
      <3>1. end[1] <= end[j]
        <4>1. CASE j = 1
          BY <1>1, <4>1, <2>1
        <4>2. CASE j > 1
          <5>1. 1 \in 0..N /\ end[1] \in Int
            BY <1>1
          <5> QED BY <1>2, <2>1, <4>2, <5>1
        <4> QED BY <2>1, <4>1, <4>2
      <3>2. Size(msgs[1]) \in Nat
        BY SMTT(40), <1>1, <1>5
      <3> QED BY <1>4, <1>6, <1>7, <2>1, <2>2, <3>1, <3>2
    <2>3. CASE i # 0
      <3>1. i \in 1..N /\ e[i] = end[i] - 1 /\ end[i] \in Int
        BY <1>1, <1>4, <2>3
      <3>2. end[i] < end[j]
        BY <1>2, <1>8
      <3> QED BY <2>1, <3>1, <3>2
    <2> QED BY <2>2, <2>3
  <1>9. ASSUME NEW i \in 1..N
        PROVE  /\ e[i] = e[i-1] + Size(msgs[i]) - o[i]
               /\ o[i] = 1 => /\ msgs[i][1] = Known(q, msgs, i)
                              /\ i = 1 => q.m_nMessageLength = 0
               /\ \A j \in 1..Size(msgs[i]) :
                    j > o[i] /\ e[i-1] + j - o[i] >= 1 => t[e[i-1] + j - o[i]] = msgs[i][j]
    <2>1. /\ i \in Int /\ Size(msgs[i]) \in Nat /\ Size(msgs[i]) <= 3
          /\ end[i] \in Int /\ end[i-1] \in Int /\ omit[i] \in Int /\ end[i] <= S
      <3>1. i \in Int /\ i - 1 \in 0..N /\ i \in 0..N
        BY <1>1
      <3>2. Size(msgs[i]) \in 2..3 /\ end[i] <= S /\ omit[i] \in 0..1
        BY <1>1, <3>1
      <3> QED BY SMTT(20), <1>1, <3>1, <3>2
    <2>1a. end[i] = end[i-1] + Size(msgs[i]) - omit[i]
      BY <1>1
    <2>2. CASE i = 1
      <3>0. e[i] = Size(msgs[1]) - n /\ e[i-1] = 0 - n /\ o[i] = 0
        BY <1>4, <1>7, <2>2
      <3>1. e[i] = e[i-1] + Size(msgs[i]) - o[i] /\ o[i] # 1
        BY <1>5, <2>1, <2>2, <3>0
      <3>2. ASSUME NEW j \in 1..Size(msgs[i]), e[i-1] + j - o[i] >= 1
            PROVE  t[e[i-1] + j - o[i]] = msgs[i][j]
        <4>1. e[i-1] + j - o[i] = j - n /\ j \in Int /\ j <= Size(msgs[1]) /\ j > n
          BY <1>5, <2>1, <2>2, <3>0, <3>2
        <4>2. j \in 1..Size(msgs[1]) /\ j > omit[1] /\ end[0] + j - omit[1] = (j - n) + 1
          BY <1>5, <1>6, <1>7, <2>1, <2>2, <4>1
        <4>3. s[(j - n) + 1] = msgs[1][j]
          <5>1. (j - n) + 1 >= 1 /\ 1 - 1 = 0
            BY <1>5, <4>1
          <5> QED BY <1>2, <1>5, <4>2, <5>1
        <4>4. j - n \in 1..S-1
          <5>1. end[1] <= S /\ S \in Int /\ Size(msgs[1]) \in Int
            BY <1>1, <2>1, <2>2
          <5> QED BY <1>5, <1>7, <4>1, <5>1
        <4> QED BY <2>2, <4>1, <4>3, <4>4 DEF Shifted
      <3> QED BY <3>1, <3>2
    <2>3. CASE i # 1
      <3>1. /\ i \in 2..N /\ i - 1 \in 1..N /\ o[i] = omit[i]
            /\ e[i] = end[i] - 1 /\ e[i-1] = end[i-1] - 1
        <4>1. i \in 2..N /\ i - 1 \in 1..N
          BY <1>1, <2>3
        <4> QED BY <1>4, <4>1
      <3>2. e[i] = e[i-1] + Size(msgs[i]) - o[i]
        BY <2>1, <2>1a, <3>1
      <3>3. Known(q, msgs, i) = Known(p, msgs, i)
        BY <2>3 DEF Known
      <3>4. ASSUME NEW j \in 1..Size(msgs[i]), j > o[i], e[i-1] + j - o[i] >= 1
            PROVE  t[e[i-1] + j - o[i]] = msgs[i][j]
        <4> DEFINE k == end[i-1] + j - omit[i]
        <4>0. j \in Int /\ j <= Size(msgs[i]) /\ k \in Int /\ j > omit[i]
          BY <2>1, <3>1, <3>4
        <4>0a. e[i-1] + j - o[i] = k - 1
          BY <2>1, <3>1, <4>0
        <4>0b. k <= end[i]
          BY <2>1, <2>1a, <4>0
        <4>1. e[i-1] + j - o[i] = k - 1 /\ k \in Int /\ k >= 2 /\ k <= S /\ j \in 1..Size(msgs[i])
              /\ j > omit[i]
          <5> HIDE DEF k
          <5> QED BY SMTT(20), <1>1, <2>1, <3>4, <4>0, <4>0a, <4>0b
        <4>2. s[k] = msgs[i][j]
          <5>1. k >= 1
            BY <4>1
          <5> QED BY <1>2, <4>1, <5>1
        <4> HIDE DEF k
        <4>3. k - 1 \in 1..S-1 /\ (k - 1) + 1 = k
          BY <1>1, <4>1
        <4> QED BY <4>1, <4>2, <4>3 DEF Shifted
      <3> QED BY <1>2, <2>3, <3>1, <3>2, <3>3, <3>4
    <2> QED BY <2>2, <2>3
  <1>10. q.m_nMessageLength = n /\ \A j \in 1..n : q.m_MessageBuffer[j-1] = msgs[1][j]
    BY DEF Holds
  <1>11. Amid(q, msgs, N)
    <2>1. q.m_MessageBuffer[0] \in 128..239
      <3>1. 1 \in 1..n /\ 1 - 1 = 0
        BY <1>0
      <3>2. q.m_MessageBuffer[0] = msgs[1][1]
        BY <1>10, <3>1
      <3> QED BY <1>5, <3>2, ChannelMessageType
    <2>2. N >= 1
      BY <1>1
    <2> QED BY <1>0, <1>10, <2>1, <2>2 DEF Amid, Holds
  <1>12. e[0] = 0 - q.m_nMessageLength /\ e[N] = S - 1
    <2>1. N \in 1..N /\ N \in 0..N
      BY <1>1
    <2> QED BY <1>2, <1>4, <1>10, <2>1
  <1>13. Divides(q, t, S-1, msgs, N, e, o)
    BY <1>4, <1>8, <1>9, <1>12 DEF Divides
  <1> QED BY <1>11, <1>13
(* A byte that completes its message: the next message moves up. *)
LEMMA HeardOnTheWay ==
    ASSUME NEW S, NEW s, NEW t, NEW N, NEW msgs, NEW rest, NEW p, NEW end, NEW omit, NEW n, NEW q,
           Taken(p, s, S, msgs, N, end, omit), n = Coming(p, omit), Shifted(s, S, t),
           rest \in [1..N-1 -> ChannelMessages], Shifted(msgs, N, rest),
           n = Size(msgs[1]), q \in Parser, q.m_State = "StatusByte",
           q.m_nMessageLength = 0, q.m_MessageBuffer[0] = msgs[1][1]
    PROVE  Amid(q, rest, N-1) /\ \E e, o : Divides(q, t, S-1, rest, N-1, e, o)
  <1> DEFINE e == [i \in 0..N-1 |-> end[i+1] - 1]
             o == [i \in 1..N-1 |-> omit[i+1]]
             len == p.m_nMessageLength
  <1>1. /\ N \in Nat /\ S \in Nat /\ S >= 1 /\ N >= 1
        /\ end \in [0..N -> Int] /\ omit \in [1..N -> 0..1]
        /\ \A i \in 1..N : Size(msgs[i]) \in 2..3
        /\ \A i \in 0..N : end[i] <= S
        /\ \A i \in 1..N : /\ i - 1 \in 0..N /\ i \in 0..N
                           /\ end[i] = end[i-1] + Size(msgs[i]) - omit[i]
    BY DividesFacts
  <1>2. /\ end[0] = 0 - len /\ end[N] = S
        /\ \A i, j \in 0..N : i < j => end[i] < end[j]
        /\ \A i \in 1..N :
             /\ omit[i] = 1 => msgs[i][1] = Known(p, msgs, i)
             /\ \A j \in 1..Size(msgs[i]) :
                  j > omit[i] /\ end[i-1] + j - omit[i] >= 1
                      => s[end[i-1] + j - omit[i]] = msgs[i][j]
    BY DEF Taken, Divides
  <1>3. /\ \A i \in 0..N-1 : e[i] = end[i+1] - 1
        /\ \A i \in 1..N-1 : o[i] = omit[i+1]
        /\ e \in [0..N-1 -> Int] /\ o \in [1..N-1 -> 0..1]
    <2>1. \A i \in 0..N-1 : i + 1 \in 0..N
      BY <1>1
    <2>2. \A i \in 1..N-1 : i + 1 \in 1..N
      BY <1>1
    <2> QED BY <1>1, <2>1, <2>2
  <1>4. end[1] = 1
    <2>1. 1 \in 1..N /\ 1 - 1 = 0
      BY <1>1
    <2>2. end[1] = end[0] + Size(msgs[1]) - omit[1] /\ Size(msgs[1]) \in Int /\ omit[1] \in Int
      <3>1. Size(msgs[1]) \in 2..3 /\ omit[1] \in 0..1
        BY <1>1, <2>1
      <3> QED BY <1>1, <2>1, <3>1
    <2>3. len \in Int /\ Size(msgs[1]) = len + 1 + omit[1]
      BY DEF Taken, Coming
    <2> HIDE DEF len
    <2> QED BY <1>2, <2>2, <2>3
  <1>5. msgs[1][1] \in 128..239
    <2>1. msgs[1] \in ChannelMessages
      BY <1>1 DEF Taken
    <2> QED BY <2>1, ChannelMessageType
  <1> HIDE DEF e, o, len
  <1>6. Amid(q, rest, N-1)
    BY <1>5 DEF Amid
  <1>7. e[0] = 0 - q.m_nMessageLength /\ e[N-1] = S - 1
    <2>1. 0 \in 0..N-1 /\ N - 1 \in 0..N-1 /\ (N - 1) + 1 = N /\ 0 + 1 = 1
      BY <1>1
    <2>2. e[0] = end[1] - 1 /\ e[N-1] = end[N] - 1
      BY <1>3, <2>1
    <2> QED BY <1>2, <1>4, <2>2
  <1>8. ASSUME NEW i \in 0..N-1, NEW j \in 0..N-1, i < j
        PROVE  e[i] < e[j]
    <2>1. i + 1 \in 0..N /\ j + 1 \in 0..N /\ i + 1 < j + 1
      BY <1>1, <1>8
    <2>2. end[i+1] < end[j+1] /\ end[i+1] \in Int /\ end[j+1] \in Int
      BY <1>1, <1>2, <2>1
    <2>3. e[i] = end[i+1] - 1 /\ e[j] = end[j+1] - 1
      BY <1>3
    <2> QED BY <2>2, <2>3
  <1>9. ASSUME NEW i \in 1..N-1
        PROVE  /\ e[i] = e[i-1] + Size(rest[i]) - o[i]
               /\ o[i] = 1 => rest[i][1] = Known(q, rest, i)
               /\ \A j \in 1..Size(rest[i]) :
                    j > o[i] /\ e[i-1] + j - o[i] >= 1 => t[e[i-1] + j - o[i]] = rest[i][j]
    <2> DEFINE k == i + 1
               x == end[i]
               y == end[k]
               z == Size(msgs[k])
               w == omit[k]
    <2>1. /\ i \in Nat /\ i >= 1 /\ k \in 1..N /\ k - 1 = i /\ k # 1 /\ i \in 0..N /\ k \in 0..N
          /\ i \in 0..N-1 /\ i - 1 \in 0..N-1 /\ (i - 1) + 1 = i
      BY <1>1
    <2>2. /\ x \in Int /\ y \in Int /\ y <= S /\ z \in 2..3 /\ w \in 0..1 /\ y = x + z - w
      BY <1>1, <2>1
    <2>3. e[i] = y - 1 /\ e[i-1] = x - 1 /\ o[i] = w
      BY <1>3, <2>1
    <2>4. rest[i] = msgs[k]
      BY DEF Shifted
    <2>5. /\ w = 1 => msgs[k][1] = Known(p, msgs, k)
          /\ \A j \in 1..z : j > w /\ x + j - w >= 1 => s[x + j - w] = msgs[k][j]
      BY <1>2, <2>1
    <2>6. Known(p, msgs, k) = Known(q, rest, i)
      <3>1. Known(p, msgs, k) = msgs[i][1]
        BY <2>1 DEF Known
      <3>2. CASE i = 1
        BY <3>1, <3>2 DEF Known
      <3>3. CASE i # 1
        <4>1. i - 1 \in 1..N-1
          BY <1>1, <2>1, <3>3
        <4>2. rest[i-1] = msgs[i]
          BY <2>1, <4>1 DEF Shifted
        <4> QED BY <3>1, <3>3, <4>2 DEF Known
      <3> QED BY <3>2, <3>3
    <2> HIDE DEF k, x, y, z, w
    <2>7. ASSUME NEW j \in 1..z, j > w, (x - 1) + j - w >= 1
          PROVE  t[(x - 1) + j - w] = msgs[k][j]
      <3> DEFINE u == x + j - w
      <3>1. j \in Int /\ u \in Int /\ u >= 2 /\ u <= S /\ (x - 1) + j - w = u - 1
        BY <2>2, <2>7, <1>1
      <3>2. s[u] = msgs[k][j]
        <4>1. u >= 1
          BY <3>1
        <4> QED BY <2>5, <2>7, <4>1
      <3> HIDE DEF u
      <3>3. u - 1 \in 1..S-1 /\ (u - 1) + 1 = u
        BY <1>1, <3>1
      <3> QED BY <3>1, <3>2, <3>3 DEF Shifted
    <2>8. y - 1 = (x - 1) + z - w
      BY <2>2
    <2>9. Size(rest[i]) = z
      BY <2>4 DEF z
    <2> QED BY <2>3, <2>4, <2>5, <2>6, <2>7, <2>8, <2>9
  <1>10. Divides(q, t, S-1, rest, N-1, e, o)
    BY <1>3, <1>7, <1>8, <1>9 DEF Divides
  <1> QED BY <1>6, <1>10
--------------------------------------------------------------------------------
(* What is under way stays so: a byte the parser takes brings it one byte    *)
(* nearer, and the handler gets the message that is due, if any.             *)
LEMMA ByteKeepsFlow ==
    ASSUME NEW p, NEW s, NEW S, NEW msgs, NEW N, NEW status, NEW from, NEW to, NEW t, NEW rest,
           Flows(p, s, S, msgs, N, status, from, to), S # 0, Shifted(s, S, t),
           N # 0 => rest \in [1..N-1 -> ChannelMessages], Shifted(msgs, N, rest)
    PROVE  LET r == ParseByte(p, s[1], FALSE) IN
           \/ r.calls = <<>> /\ Flows(r.p, t, S-1, msgs, N, status, from, to)
           \/ /\ r.calls = <<Short(msgs[1])>> /\ N # 0
              /\ Flows(r.p, t, S-1, rest, N-1, status, NotesAfter(from, msgs[1]), to)
  <1> DEFINE r == ParseByte(p, s[1], FALSE)
  <1>1. PICK end, omit : Divides(p, s, S, msgs, N, end, omit)
    BY DEF Flows
  <1>2. /\ N \in Nat /\ S \in Nat \ {0} /\ msgs \in [1..N -> ChannelMessages] /\ Amid(p, msgs, N)
        /\ status = IF N = 0 THEN p.m_MessageBuffer[0] ELSE msgs[N][1]
        /\ Leads(msgs, N, from, to)
    BY DEF Flows
  <1> DEFINE n == Coming(p, omit)
  <1>3. /\ N >= 1 /\ omit[1] \in 0..1 /\ p.m_nMessageLength \in 0..2
        /\ n \in 1..3 /\ n <= Size(msgs[1])
        /\ HeardOrHeld(r, n, msgs[1])
    BY <1>1, <1>2, NextByte
  <1>4. Taken(p, s, S, msgs, N, end, omit) /\ N # 0 /\ N \in Nat \ {0}
    BY <1>1, <1>2, <1>3 DEF Taken
  <1>5. 1 \in 1..N /\ N \in 1..N /\ msgs[1] \in ChannelMessages /\ Size(msgs[1]) \in 2..3
    BY <1>2, <1>3, ChannelMessageType
  <1> HIDE DEF r, n
  <1>6. CASE n < Size(msgs[1])
    <2>1. r.calls = <<>> /\ n \in 1..2 /\ r.p.m_State = "DataByte" /\ Holds(r.p, n, msgs[1])
      BY <1>3, <1>6 DEF HeardOrHeld
    <2>2. Amid(r.p, msgs, N) /\ \E e, o : Divides(r.p, t, S-1, msgs, N, e, o)
      BY <1>4, <1>6, <2>1, KeptOnTheWay DEF n
    <2>3. S - 1 \in Nat
      BY <1>2
    <2>4. status = IF N = 0 THEN r.p.m_MessageBuffer[0] ELSE msgs[N][1]
      BY <1>2, <1>4
    <2> QED BY <1>2, <2>1, <2>2, <2>3, <2>4 DEF Flows, r
  <1>7. CASE ~(n < Size(msgs[1]))
    <2>1. n = Size(msgs[1]) /\ n >= Size(msgs[1])
      BY <1>3, <1>5, <1>7
    <2>2. /\ r.p \in Parser /\ r.calls = <<Short(msgs[1])>>
          /\ r.p.m_State = "StatusByte" /\ r.p.m_nMessageLength = 0
          /\ r.p.m_MessageBuffer[0] = msgs[1][1]
      BY <1>3, <2>1 DEF HeardOrHeld
    <2>3. Amid(r.p, rest, N-1) /\ \E e, o : Divides(r.p, t, S-1, rest, N-1, e, o)
      BY <1>4, <2>1, <2>2, HeardOnTheWay DEF n
    <2>4. S - 1 \in Nat /\ N - 1 \in Nat
      BY <1>2, <1>3
    <2>5. status = IF N - 1 = 0 THEN r.p.m_MessageBuffer[0] ELSE rest[N-1][1]
      <3>1. CASE N = 1
        BY <1>2, <2>2, <3>1
      <3>2. CASE N # 1
        <4>1. N - 1 \in 1..N-1 /\ (N - 1) + 1 = N /\ N - 1 # 0
          BY <1>2, <1>3, <3>2
        <4>2. rest[N-1] = msgs[N]
          BY <4>1 DEF Shifted
        <4> QED BY <1>2, <1>4, <4>1, <4>2
      <3> QED BY <3>1, <3>2
    <2>6. Leads(rest, N-1, NotesAfter(from, msgs[1]), to)
      <3>1. PICK notes : /\ DOMAIN notes = 0..N
                         /\ notes[0] = from /\ notes[N] = to
                         /\ \A i \in 1..N : notes[i] = NotesAfter(notes[i-1], msgs[i])
        BY <1>2 DEF Leads
      <3> DEFINE later == [i \in 0..N-1 |-> notes[i+1]]
      <3>2. \A i \in 0..N-1 : later[i] = notes[i+1]
        OBVIOUS
      <3>3. DOMAIN later = 0..N-1
        OBVIOUS
      <3> HIDE DEF later
      <3>4. later[0] = NotesAfter(from, msgs[1])
        <4>1. 0 \in 0..N-1 /\ 0 + 1 = 1 /\ 1 - 1 = 0
          BY <1>2, <1>3
        <4> QED BY <1>5, <3>1, <3>2, <4>1
      <3>5. later[N-1] = to
        <4>1. N - 1 \in 0..N-1 /\ (N - 1) + 1 = N
          BY <1>2, <1>3
        <4> QED BY <3>1, <3>2, <4>1
      <3>6. ASSUME NEW i \in 1..N-1 PROVE later[i] = NotesAfter(later[i-1], rest[i])
        <4>1. /\ i \in 0..N-1 /\ i - 1 \in 0..N-1 /\ i + 1 \in 1..N
              /\ (i - 1) + 1 = i /\ (i + 1) - 1 = i
          BY <1>2
        <4>2. rest[i] = msgs[i+1]
          BY DEF Shifted
        <4>3. notes[i+1] = NotesAfter(notes[(i+1)-1], msgs[i+1])
          BY <3>1, <4>1
        <4> QED BY <3>2, <4>1, <4>2, <4>3
      <3> QED BY <3>3, <3>4, <3>5, <3>6 DEF Leads
    <2>7. Flows(r.p, t, S-1, rest, N-1, status, NotesAfter(from, msgs[1]), to)
      BY <1>4, <2>3, <2>4, <2>5, <2>6 DEF Flows
    <2> QED BY <1>4, <2>2, <2>7 DEF r
  <1> QED BY <1>6, <1>7

(* s2 and msgs2 are s and msgs with msg behind them, w bytes left out. *)
Grown(s, S, msgs, N, status, msg, w, s2, msgs2) ==
    /\ w \in 0..1
    /\ w = 1 => msg[1] = status
    /\ \A k \in 1..S : s2[k] = s[k]
    /\ \A j \in 1..Size(msg) : j > w => s2[S + j - w] = msg[j]
    /\ msgs2 \in [1..N+1 -> ChannelMessages]
    /\ \A i \in 1..N : msgs2[i] = msgs[i]
    /\ msgs2[N+1] = msg

(* A message that is sent gets in line, its status left out if it is that of *)
(* the message before it.                                                    *)
LEMMA SentKeepsFlow ==
    ASSUME NEW p, NEW s, NEW S, NEW msgs, NEW N, NEW status, NEW from, NEW to,
           Flows(p, s, S, msgs, N, status, from, to),
           NEW msg \in ChannelMessages, NEW w, NEW s2, NEW msgs2,
           Grown(s, S, msgs, N, status, msg, w, s2, msgs2)
    PROVE  Flows(p, s2, S + Size(msg) - w, msgs2, N+1, msg[1], from, NotesAfter(to, msg))
  <1> w \in 0..1 /\ (w = 1 => msg[1] = status)
    BY DEF Grown
  <1> DEFINE M == N + 1
             z == Size(msg)
             T == S + z - w
  <1>1. PICK end, omit : Divides(p, s, S, msgs, N, end, omit)
    BY DEF Flows
  <1>2. /\ N \in Nat /\ S \in Nat /\ msgs \in [1..N -> ChannelMessages] /\ Amid(p, msgs, N)
        /\ status = IF N = 0 THEN p.m_MessageBuffer[0] ELSE msgs[N][1]
        /\ Leads(msgs, N, from, to)
    BY DEF Flows
  <1>3. z \in 2..3
    BY ChannelMessageType
  <1>4. /\ end \in [0..N -> Int] /\ omit \in [1..N -> 0..1]
        /\ end[0] = 0 - p.m_nMessageLength /\ end[N] = S
        /\ \A i, j \in 0..N : i < j => end[i] < end[j]
        /\ \A i \in 1..N :
             /\ end[i] = end[i-1] + Size(msgs[i]) - omit[i]
             /\ omit[i] = 1 => /\ msgs[i][1] = Known(p, msgs, i)
                               /\ i = 1 => p.m_nMessageLength = 0
             /\ \A j \in 1..Size(msgs[i]) :
                  j > omit[i] /\ end[i-1] + j - omit[i] >= 1
                      => s[end[i-1] + j - omit[i]] = msgs[i][j]
    BY <1>1 DEF Divides
  <1>5. /\ M \in Nat /\ M >= 1 /\ M - 1 = N /\ T \in Nat /\ T > S
        /\ \A i \in 0..M : i \in 0..N \/ i = M
        /\ \A i \in 1..M : i \in 1..N \/ i = M
        /\ M \notin 0..N
    <2>1. T \in Nat /\ T > S
      <3> HIDE DEF z
      <3> QED BY <1>2, <1>3
    <2>2. M \in Nat /\ M >= 1 /\ M - 1 = N
      BY <1>2
    <2> HIDE DEF M, T
    <2>3. /\ \A i \in 0..M : i \in 0..N \/ i = M
          /\ \A i \in 1..M : i \in 1..N \/ i = M
          /\ M \notin 0..N
      BY <1>2, <2>2
    <2> QED BY <2>1, <2>2, <2>3
  <1> DEFINE e == [i \in 0..M |-> IF i = M THEN T ELSE end[i]]
             o == [i \in 1..M |-> IF i = M THEN w ELSE omit[i]]
  <1>6. /\ \A i \in 0..N : e[i] = end[i]
        /\ e[M] = T
        /\ \A i \in 1..N : o[i] = omit[i]
        /\ o[M] = w
        /\ e \in [0..M -> Int] /\ o \in [1..M -> 0..1]
    <2> HIDE DEF M, T
    <2>1. \A i \in 0..N : i \in 0..M /\ i # M
      BY <1>5 DEF M
    <2>2. \A i \in 1..N : i \in 1..M /\ i # M
      BY <1>5 DEF M
    <2>3. \A i \in 0..N : e[i] = end[i]
      BY <2>1
    <2>4. \A i \in 1..N : o[i] = omit[i]
      BY <2>2
    <2>5. M \in 0..M /\ M \in 1..M
      BY <1>5
    <2>6. e[M] = T /\ o[M] = w
      BY <2>5
    <2>7. e \in [0..M -> Int]
      <3>1. ASSUME NEW i \in 0..M PROVE (IF i = M THEN T ELSE end[i]) \in Int
        BY SMTT(20), <1>4, <1>5
      <3> QED BY <3>1
    <2>8. o \in [1..M -> 0..1]
      <3>1. ASSUME NEW i \in 1..M PROVE (IF i = M THEN w ELSE omit[i]) \in 0..1
        BY <1>4, <1>5
      <3> QED BY <3>1
    <2> QED BY <2>3, <2>4, <2>6, <2>7, <2>8
  <1> HIDE DEF e, o
  <1> \A k \in 1..S : s2[k] = s[k]
    BY DEF Grown
  <1> \A j \in 1..Size(msg) : j > w => s2[S + j - w] = msg[j]
    BY DEF Grown
  <1> msgs2 \in [1..N+1 -> ChannelMessages]
    BY DEF Grown
  <1> (\A i \in 1..N : msgs2[i] = msgs[i]) /\ msgs2[N+1] = msg
    BY DEF Grown
  <1>7. N = 0 => p.m_nMessageLength = 0
    BY <1>2 DEF Amid
  <1>8. \A i \in 1..N : Known(p, msgs2, i) = Known(p, msgs, i)
    <2>1. ASSUME NEW i \in 1..N PROVE Known(p, msgs2, i) = Known(p, msgs, i)
      <3>1. CASE i = 1
        BY <3>1 DEF Known
      <3>2. CASE i # 1
        <4>1. i - 1 \in 1..N
          BY <1>2, <3>2
        <4> QED BY <3>2, <4>1 DEF Known
      <3> QED BY <3>1, <3>2
    <2> QED BY <2>1
  <1>9. Known(p, msgs2, M) = status
    <2>1. CASE N = 0
      BY <1>2, <2>1 DEF Known
    <2>2. CASE N # 0
      <3>1. N \in 1..N /\ M # 1 /\ M - 1 = N
        BY <1>2, <2>2
      <3>2. Known(p, msgs2, M) = msgs2[N][1]
        BY <3>1 DEF Known
      <3> QED BY <1>2, <2>2, <3>1, <3>2
    <2> QED BY <2>1, <2>2
  <1> HIDE DEF M, T, z
  <1>10. ASSUME NEW i \in 0..M, NEW j \in 0..M, i < j
         PROVE  e[i] < e[j]
    <2>1. i \in 0..N
      BY <1>2, <1>5, <1>10
    <2>2. CASE j \in 0..N
      BY <1>4, <1>6, <1>10, <2>1, <2>2
    <2>3. CASE j = M
      <3>1. end[i] <= S /\ end[i] \in Int
        <4>1. i = N \/ i < N
          BY <1>2, <2>1
        <4>2. N \in 0..N
          BY <1>2
        <4> QED BY <1>2, <1>4, <2>1, <4>1, <4>2
      <3> QED BY <1>2, <1>5, <1>6, <2>1, <2>3, <3>1
    <2> QED BY <1>5, <2>2, <2>3
  <1>11. ASSUME NEW i \in 1..M
         PROVE  /\ e[i] = e[i-1] + Size(msgs2[i]) - o[i]
                /\ o[i] = 1 => /\ msgs2[i][1] = Known(p, msgs2, i)
                               /\ i = 1 => p.m_nMessageLength = 0
                /\ \A j \in 1..Size(msgs2[i]) :
                     j > o[i] /\ e[i-1] + j - o[i] >= 1 => s2[e[i-1] + j - o[i]] = msgs2[i][j]
    <2>1. CASE i \in 1..N
      <3>1. i \in 0..N /\ i - 1 \in 0..N
        BY <1>2, <2>1
      <3>2. e[i] = end[i] /\ e[i-1] = end[i-1] /\ o[i] = omit[i] /\ msgs2[i] = msgs[i]
        BY <1>6, <2>1, <3>1
      <3>3. ASSUME NEW j \in 1..Size(msgs[i]), j > omit[i], end[i-1] + j - omit[i] >= 1
            PROVE  s2[end[i-1] + j - omit[i]] = msgs[i][j]
        <4>1. Size(msgs[i]) \in 2..3
          BY <1>2, <2>1, ChannelMessageType
        <4>2. end[i-1] \in Int /\ omit[i] \in 0..1 /\ end[i] \in Int /\ end[i] <= S
          <5>1. i = N \/ i < N
            BY <1>2, <2>1
          <5>2. N \in 0..N
            BY <1>2
          <5> QED BY SMTT(20), <1>2, <1>4, <2>1, <3>1, <5>1, <5>2
        <4>3. end[i] = end[i-1] + Size(msgs[i]) - omit[i]
          BY <1>4, <2>1
        <4>4. end[i-1] + j - omit[i] \in 1..S
          <5> DEFINE a == end[i-1]
                     u == omit[i]
                     k == Size(msgs[i])
          <5>1. a \in Int /\ u \in Int /\ k \in Int /\ j \in Int /\ j <= k /\ a + k - u <= S
            BY <1>2, <4>1, <4>2, <4>3
          <5>2. a + j - u >= 1
            BY <3>3
          <5> HIDE DEF a, u, k
          <5>3. a + j - u \in 1..S
            BY <1>2, <5>1, <5>2
          <5> QED BY <5>3 DEF a, u
        <4>5. s[end[i-1] + j - omit[i]] = msgs[i][j]
          BY <1>4, <2>1, <3>3
        <4> QED BY <4>4, <4>5
      <3> QED BY <1>4, <1>8, <2>1, <3>2, <3>3
    <2>2. CASE i = M
      <3>1. e[i] = T /\ e[i-1] = S /\ o[i] = w /\ msgs2[i] = msg
        <4>1. N \in 0..N /\ M - 1 = N
          BY <1>2, <1>5
        <4> QED BY <1>4, <1>6, <2>2, <4>1 DEF M
      <3>2. i = 1 => N = 0
        BY <1>5, <2>2
      <3>3. T = S + Size(msg) - w /\ z = Size(msg)
        BY DEF T, z
      <3> QED BY <1>7, <1>9, <2>2, <3>1, <3>2, <3>3
    <2> QED BY <1>5, <2>1, <2>2
  <1>12. Divides(p, s2, T, msgs2, M, e, o)
    <2>1. 0 \in 0..N
      BY <1>2
    <2> QED BY <1>4, <1>6, <1>10, <1>11, <2>1 DEF Divides
  <1>13. Amid(p, msgs2, M)
    <2>1. p.m_State = "DataByte" => N >= 1 /\ msgs2[1] = msgs[1]
      <3>1. N >= 1 => 1 \in 1..N
        BY <1>2
      <3> QED BY <1>2, <3>1 DEF Amid
    <2> QED BY <1>2, <1>5, <2>1 DEF Amid
  <1>14. Leads(msgs2, M, from, NotesAfter(to, msg))
    <2>1. PICK notes : /\ DOMAIN notes = 0..N
                       /\ notes[0] = from /\ notes[N] = to
                       /\ \A i \in 1..N : notes[i] = NotesAfter(notes[i-1], msgs[i])
      BY <1>2 DEF Leads
    <2> DEFINE more == [i \in 0..M |-> IF i = M THEN NotesAfter(to, msg) ELSE notes[i]]
    <2>2. DOMAIN more = 0..M
      OBVIOUS
    <2>3. more[M] = NotesAfter(to, msg)
      BY <1>5
    <2>4. \A i \in 0..N : more[i] = notes[i]
      <3>1. \A i \in 0..N : i \in 0..M /\ i # M
        BY <1>2, <1>5
      <3> QED BY <3>1
    <2> HIDE DEF more
    <2>5. more[0] = from
      <3>1. 0 \in 0..N
        BY <1>2
      <3> QED BY <2>1, <2>4, <3>1
    <2>6. ASSUME NEW i \in 1..M PROVE more[i] = NotesAfter(more[i-1], msgs2[i])
      <3>1. CASE i \in 1..N
        <4>1. i \in 0..N /\ i - 1 \in 0..N
          BY <1>2, <3>1
        <4> QED BY <2>1, <2>4, <3>1, <4>1
      <3>2. CASE i = M
        <4>1. N \in 0..N /\ M - 1 = N
          BY <1>2, <1>5
        <4>2. more[i-1] = to
          BY <2>1, <2>4, <3>2, <4>1
        <4> QED BY <2>3, <3>2, <4>2 DEF M
      <3> QED BY <1>5, <3>1, <3>2
    <2> QED BY <2>2, <2>3, <2>5, <2>6 DEF Leads
  <1>15. msg[1] = IF M = 0 THEN p.m_MessageBuffer[0] ELSE msgs2[M][1]
    <2>1. M # 0
      BY <1>5
    <2> QED BY <2>1 DEF M
  <1>16. msgs2 \in [1..M -> ChannelMessages]
    BY DEF M
  <1>17. Flows(p, s2, T, msgs2, M, msg[1], from, NotesAfter(to, msg))
    BY <1>5, <1>12, <1>13, <1>14, <1>15, <1>16 DEF Flows
  <1> QED BY <1>17 DEF M, T, z

--------------------------------------------------------------------------------

(* Induction over the natural numbers. *)
LEMMA LeastNatural ==
    ASSUME NEW S, S \subseteq Nat, S # {}
    PROVE  \E x \in S : \A y \in S : x <= y
  <1> DEFINE R == OpToRel(<, Nat)
  <1>1. IsWellFoundedOn(R, Nat)
    BY NatLessThanWellFounded
  <1>2. \A x, y \in Nat : x < y => <<x, y>> \in R
    BY DEF OpToRel
  <1> HIDE DEF R
  <1>3. PICK x \in S : \A y \in S : ~(<<y, x>> \in R)
    BY <1>1, WFMin
  <1>4. ASSUME NEW y \in S PROVE x <= y
    <2>1. ~(y < x)
      BY <1>2, <1>3
    <2> QED BY <2>1
  <1> QED BY <1>3, <1>4

LEMMA Induction ==
    ASSUME NEW S, 0 \in S, \A n \in Nat : n \in S => n + 1 \in S
    PROVE  Nat \subseteq S
  <1> SUFFICES ASSUME Nat \ S # {} PROVE FALSE
    OBVIOUS
  <1>1. PICK x \in Nat \ S : \A y \in Nat \ S : x <= y
    BY LeastNatural
  <1>2. x - 1 \in Nat /\ x - 1 \in S
    BY <1>1
  <1> QED BY <1>1, <1>2

LEMMA Restored ==
    ASSUME NEW a, NEW b, NEW c, NEW e, e = [status |-> a, bytes |-> b, notes |-> c], NEW msg
    PROVE  [e EXCEPT !.notes = NotesAfter(@, msg)]
             = [status |-> a, bytes |-> b, notes |-> NotesAfter(c, msg)]
  OBVIOUS

(* Sending msg with the encoder at status writes more: the message, less w.  *)
Writes(status, bytes, notes, msg, more, w) ==
    /\ Send([status |-> status, bytes |-> bytes, notes |-> notes], msg)
         = [status |-> msg[1], bytes |-> bytes \o more, notes |-> NotesAfter(notes, msg)]
    /\ w = 1 => msg[1] = status
    /\ Len(more) = Size(msg) - w
    /\ \A j \in 1..Size(msg) : j > w => more[j - w] = msg[j]

(* One message through the encoder: its status is left out if it is the last *)
(* one written, and what the sender holds follows the message.               *)
LEMMA OneSent ==
    ASSUME NEW status, NEW bytes \in Seq(Octet), NEW notes, NEW msg \in ChannelMessages
    PROVE  \E more \in Seq(Octet), w \in 0..1 : Writes(status, bytes, notes, msg, more, w)
  <1> DEFINE acc == [status |-> status, bytes |-> bytes, notes |-> notes]
  <1>0. msg \in Seq(Octet) /\ Len(msg) = Size(msg) /\ Size(msg) \in 2..3 /\ msg[1] \in 128..239
    BY ChannelMessageType
  <1>1. msg[1] # SysExStart
    <2> DEFINE st == msg[1]
    <2>1. st \in 128..239
      BY ChannelMessageType
    <2> HIDE DEF st
    <2>2. st # 240
      BY <2>1
    <2> QED BY <2>2 DEF SysExStart, st
  <1>2. CASE msg[1] = status
    <2>1. Encode(acc, msg) = [status |-> msg[1], bytes |-> bytes \o Tail(msg), notes |-> notes]
      BY <1>1, <1>2 DEF Encode
    <2> DEFINE more == Tail(msg)
    <2> HIDE DEF more
    <2>2. Send(acc, msg) = [status |-> msg[1], bytes |-> bytes \o more,
                            notes |-> NotesAfter(notes, msg)]
      <3> DEFINE c == Encode(acc, msg)
      <3>1. c = [status |-> msg[1], bytes |-> bytes \o more, notes |-> notes]
        BY <2>1 DEF more
      <3>2. Send(acc, msg) = [c EXCEPT !.notes = NotesAfter(@, msg)]
        BY DEF Send
      <3> HIDE DEF c, acc
      <3> QED BY <3>1, <3>2, Restored
    <2>4. /\ more \in Seq(Octet) /\ Len(more) = Size(msg) - 1
          /\ \A j \in 1..Size(msg) : j > 1 => more[j - 1] = msg[j]
      <3> DEFINE z == Size(msg)
      <3>1. z \in 2..3 /\ Len(msg) = z /\ msg \in Seq(Octet)
        BY <1>0
      <3> HIDE DEF z
      <3>2. Len(msg) # 0
        BY <3>1
      <3>3. msg # <<>>
        BY <3>2
      <3>4. more \in Seq(Octet) /\ Len(more) = z - 1
        BY <3>1, <3>3 DEF more
      <3>5. \A j \in 1..z : j > 1 => more[j - 1] = msg[j]
        BY <3>1, <3>3 DEF more
      <3> QED BY <3>4, <3>5 DEF z
    <2>5. 1 \in 0..1
      OBVIOUS
    <2>6. Writes(status, bytes, notes, msg, more, 1)
      BY <1>2, <2>2, <2>4 DEF Writes
    <2> QED BY <2>4, <2>5, <2>6
  <1>3. CASE msg[1] # status
    <2>1. Encode(acc, msg) = [status |-> msg[1], bytes |-> bytes \o msg, notes |-> notes]
      BY <1>1, <1>3 DEF Encode
    <2>2. Send(acc, msg) = [status |-> msg[1], bytes |-> bytes \o msg,
                            notes |-> NotesAfter(notes, msg)]
      <3> DEFINE c == Encode(acc, msg)
      <3>1. c = [status |-> msg[1], bytes |-> bytes \o msg, notes |-> notes]
        BY <2>1
      <3>2. Send(acc, msg) = [c EXCEPT !.notes = NotesAfter(@, msg)]
        BY DEF Send
      <3> HIDE DEF c, acc
      <3> QED BY <3>1, <3>2, Restored
    <2>3. Len(msg) = Size(msg) - 0 /\ \A j \in 1..Size(msg) : msg[j - 0] = msg[j]
      BY <1>0
    <2>4. 0 \in 0..1 /\ ~(0 = 1)
      OBVIOUS
    <2>5. Writes(status, bytes, notes, msg, msg, 0)
      BY <2>2, <2>3, <2>4 DEF Writes
    <2> QED BY <1>0, <2>4, <2>5
  <1> QED BY <1>2, <1>3

(* What SendAll leaves behind after each message. *)
LEMMA SendAllUnfolds ==
    ASSUME NEW acc, NEW X, NEW script \in Seq(X)
    PROVE  \E U : /\ U[0] = acc
                  /\ \A i \in 1..Len(script) : U[i] = Send(U[i-1], script[i])
                  /\ SendAll(acc, script) = U[Len(script)]
  <1> DEFINE Step(f, i) == IF i = 0 THEN acc ELSE Send(f[i-1], script[i])
             L == Len(script)
             Upto == CHOOSE f : f = [i \in 0..L |-> Step(f, i)]
  <1>1. SendAll(acc, script) = Upto[L]
    BY DEF SendAll
  <1>2. ASSUME NEW f, NEW g, NEW i, i = 0 \/ f[i-1] = g[i-1]
        PROVE  Step(f, i) = Step(g, i)
    BY <1>2
  <1>3. /\ \A f : Step(f, 0) = acc
        /\ \A f, i : i # 0 => Step(f, i) = Send(f[i-1], script[i])
    OBVIOUS
  <1>4. L \in Nat
    OBVIOUS
  <1> HIDE DEF Step, L
  <1>5. \A n \in Nat : \E f : f = [i \in 0..n |-> Step(f, i)]
    <2> DEFINE S == {n \in Nat : \E f : f = [i \in 0..n |-> Step(f, i)]}
    <2>1. 0 \in S
      <3> DEFINE f == [i \in 0..0 |-> acc]
      <3>1. \A i \in 0..0 : Step(f, i) = acc
        BY <1>3
      <3>2. f = [i \in 0..0 |-> Step(f, i)]
        BY <3>1
      <3> QED BY <3>2
    <2>2. ASSUME NEW n \in Nat, n \in S
          PROVE  n + 1 \in S
      <3>1. PICK f : f = [i \in 0..n |-> Step(f, i)]
        BY <2>2
      <3> DEFINE g == [i \in 0..n+1 |-> IF i <= n THEN f[i] ELSE Step(f, i)]
      <3>1a. \A i \in 0..n : f[i] = Step(f, i)
        BY <3>1
      <3>1b. \A i \in 0..n : g[i] = f[i]
        OBVIOUS
      <3>2. \A i \in 0..n : g[i] = f[i] /\ f[i] = Step(f, i)
        BY <3>1a, <3>1b
      <3>3. ASSUME NEW i \in 0..n+1
            PROVE  g[i] = Step(g, i)
        <4>1. i = 0 \/ f[i-1] = g[i-1]
          BY <3>2
        <4>2. g[i] = Step(f, i)
          <5>1. CASE i \in 0..n
            BY <3>2, <5>1
          <5>2. CASE i = n + 1
            BY <5>2
          <5> QED BY <5>1, <5>2
        <4> HIDE DEF g
        <4> QED BY <1>2, <4>1, <4>2
      <3>4. DOMAIN g = 0..n+1 /\ g = [i \in DOMAIN g |-> g[i]]
        OBVIOUS
      <3> HIDE DEF g
      <3>5. g = [i \in 0..n+1 |-> Step(g, i)]
        BY <3>3, <3>4
      <3>6. \E e : e = [i \in 0..n+1 |-> Step(e, i)]
        BY <3>5
      <3> QED BY <3>6
    <2> HIDE DEF S
    <2>3. Nat \subseteq S
      BY <2>1, <2>2, Induction
    <2> QED BY <2>3 DEF S
  <1>6. Upto = [i \in 0..L |-> Step(Upto, i)]
    BY <1>4, <1>5
  <1> HIDE DEF Upto
  <1>7. Upto[0] = acc
    BY <1>3, <1>4, <1>6
  <1>8. ASSUME NEW i \in 1..L PROVE Upto[i] = Send(Upto[i-1], script[i])
    <2>1. i \in 0..L /\ i # 0
      BY <1>4
    <2> QED BY <1>3, <1>6, <2>1
  <1> QED BY <1>1, <1>7, <1>8 DEF L

(* The messages msgs, and the first n of script behind them. *)
Joined(msgs, m, script, n) == [k \in 1..m+n |-> IF k <= m THEN msgs[k] ELSE script[k-m]]

(* A script is sent behind msgs, and its bytes behind base. *)
SentOn(p, base, msgs, status, from, to, script) ==
    \E st, bytes, notes :
        /\ SendAll([status |-> status, bytes |-> <<>>, notes |-> to], script)
             = [status |-> st, bytes |-> bytes, notes |-> notes]
        /\ bytes \in Seq(Octet)
        /\ Flows(p, base \o bytes, Len(base \o bytes), msgs \o script, Len(msgs \o script),
                 st, from, notes)

(* A script, sent message by message. *)
LEMMA ScriptKeepsFlow ==
    ASSUME NEW p, NEW base \in Seq(Octet), NEW msgs \in Seq(ChannelMessages),
           NEW status, NEW from, NEW to,
           Flows(p, base, Len(base), msgs, Len(msgs), status, from, to),
           NEW script \in Seq(ChannelMessages)
    PROVE  SentOn(p, base, msgs, status, from, to, script)
  <1> DEFINE acc == [status |-> status, bytes |-> <<>>, notes |-> to]
             L == Len(script)
             m == Len(msgs)
  <1>1. PICK Upto : /\ Upto[0] = acc
                    /\ \A i \in 1..L : Upto[i] = Send(Upto[i-1], script[i])
                    /\ SendAll(acc, script) = Upto[L]
    BY SendAllUnfolds
  <1>4. L \in Nat /\ m \in Nat /\ \A i \in 1..L : script[i] \in ChannelMessages
    OBVIOUS
  <1>4a. msgs \in [1..m -> ChannelMessages]
    OBVIOUS
  <1> HIDE DEF L, m
  <1> DEFINE Done(i) ==
               \E st, bytes, notes :
                 /\ Upto[i] = [status |-> st, bytes |-> bytes, notes |-> notes]
                 /\ bytes \in Seq(Octet)
                 /\ Flows(p, base \o bytes, Len(base \o bytes), Joined(msgs, m, script, i), m + i,
                          st, from, notes)
             S == {i \in Nat : i <= L => Done(i)}
  <1> HIDE DEF Done
  <1>7. 0 \in S
    <2>1. Upto[0] = acc
      BY <1>1
    <2>2. base \o <<>> = base
      OBVIOUS
    <2>3. m + 0 = m
      BY <1>4
    <2>4. Joined(msgs, m, script, 0) = msgs
      <3>1. msgs = [k \in 1..m |-> msgs[k]]
        BY <1>4a
      <3>2. \A k \in 1..m : k <= m
        BY <1>4
      <3> QED BY <2>3, <3>1, <3>2 DEF Joined
    <2>5. Flows(p, base, Len(base), msgs, m, status, from, to)
      BY DEF m
    <2>6. <<>> \in Seq(Octet)
      OBVIOUS
    <2>7. Done(0)
      BY <2>1, <2>2, <2>3, <2>4, <2>5, <2>6 DEF Done
    <2> QED BY <2>7
  <1>8. ASSUME NEW i \in Nat, i \in S
        PROVE  i + 1 \in S
    <2> SUFFICES ASSUME i + 1 <= L PROVE Done(i + 1)
      OBVIOUS
    <2>1. Done(i)
      BY <1>4, <1>8
    <2>2. PICK st, bytes, notes :
                 /\ Upto[i] = [status |-> st, bytes |-> bytes, notes |-> notes]
                 /\ bytes \in Seq(Octet)
                 /\ Flows(p, base \o bytes, Len(base \o bytes), Joined(msgs, m, script, i), m + i,
                          st, from, notes)
      BY <2>1 DEF Done
    <2> DEFINE msg == script[i+1]
               s == base \o bytes
    <2>3. msg \in ChannelMessages
      <3>1. i + 1 \in 1..L
        BY <1>4
      <3> QED BY <1>4, <3>1
    <2>4. Upto[i+1] = Send(Upto[i], msg)
      <3>1. i + 1 \in 1..L /\ (i + 1) - 1 = i
        BY <1>4
      <3> QED BY <1>1, <3>1
    <2> HIDE DEF msg
    <2>5a. PICK more \in Seq(Octet), w \in 0..1 : Writes(st, bytes, notes, msg, more, w)
      <3> HIDE DEF Done, S
      <3>1. bytes \in Seq(Octet)
        BY <2>2
      <3> QED BY <2>3, <3>1, OneSent
    <2>5. /\ Send([status |-> st, bytes |-> bytes, notes |-> notes], msg)
               = [status |-> msg[1], bytes |-> bytes \o more, notes |-> NotesAfter(notes, msg)]
          /\ w = 1 => msg[1] = st
          /\ Len(more) = Size(msg) - w
          /\ \A j \in 1..Size(msg) : j > w => more[j - w] = msg[j]
      BY <2>5a DEF Writes
    <2>6. base \o (bytes \o more) = s \o more /\ bytes \o more \in Seq(Octet)
      BY SMTT(20), <2>2, LaidInOneGo
    <2>7. s \in Seq(Octet)
      BY <2>2
    <2> DEFINE T == Len(s)
               z == Size(msg)
               late == s \o more
    <2>8. /\ T \in Nat /\ Len(late) = T + Len(more)
          /\ \A k \in 1..T : late[k] = s[k]
          /\ \A k \in 1..Len(more) : late[T + k] = more[k]
      BY <2>7, LaidEndToEnd
    <2>9. z \in 2..3
      BY <2>3, ChannelMessageType
    <2> DEFINE v == Len(more)
    <2>10. /\ v = z - w /\ Len(late) = T + v
           /\ \A k \in 1..v : late[T + k] = more[k]
           /\ \A j \in 1..z : j > w => more[j - w] = msg[j]
      BY <2>5, <2>8
    <2> HIDE DEF s, T, z, v, late
    <2>11. Len(late) = T + z - w /\ w \in Int
      BY <2>8, <2>9, <2>10
    <2>12. \A j \in 1..z : j > w => late[T + j - w] = msg[j]
      <3>1. ASSUME NEW j \in 1..z, j > w PROVE late[T + j - w] = msg[j]
        <4>1. j - w \in 1..v /\ T + (j - w) = T + j - w
          BY <2>8, <2>9, <2>10, <3>1
        <4>2. late[T + (j - w)] = more[j - w]
          BY <2>10, <4>1
        <4>3. more[j - w] = msg[j]
          BY <2>10, <3>1
        <4> QED BY <4>1, <4>2, <4>3
      <3> QED BY <3>1
    <2>13. /\ Joined(msgs, m, script, i+1) \in [1..(m+i)+1 -> ChannelMessages]
           /\ \A k \in 1..m+i : Joined(msgs, m, script, i+1)[k] = Joined(msgs, m, script, i)[k]
           /\ Joined(msgs, m, script, i+1)[(m+i)+1] = msg
      <3> DEFINE J == Joined(msgs, m, script, i+1)
      <3>1. m + (i + 1) = (m + i) + 1
        BY <1>4
      <3>2. J = [k \in 1..(m+i)+1 |-> IF k <= m THEN msgs[k] ELSE script[k-m]]
        BY <3>1 DEF Joined
      <3>3. \A k \in 1..(m+i)+1 : k <= m => k \in 1..m
        BY <1>4
      <3>4. \A k \in 1..(m+i)+1 : ~(k <= m) => k - m \in 1..L
        BY <1>4
      <3>5. \A k \in 1..(m+i)+1 : J[k] \in ChannelMessages
        BY <1>4, <1>4a, <3>2, <3>3, <3>4
      <3>6. (m+i)+1 \in 1..(m+i)+1 /\ ~((m+i)+1 <= m) /\ ((m+i)+1) - m = i + 1
        BY <1>4
      <3>7. J[(m+i)+1] = msg
        BY <3>2, <3>6 DEF msg
      <3>8. \A k \in 1..m+i : k \in 1..(m+i)+1
        BY <1>4
      <3>9. \A k \in 1..m+i : J[k] = Joined(msgs, m, script, i)[k]
        BY <3>2, <3>8 DEF Joined
      <3>10. J = [k \in 1..(m+i)+1 |-> J[k]]
        BY <3>2
      <3> HIDE DEF J
      <3>11. J \in [1..(m+i)+1 -> ChannelMessages]
        BY <3>5, <3>10
      <3> QED BY <3>7, <3>9, <3>11 DEF J
    <2> DEFINE J == Joined(msgs, m, script, i)
               K == Joined(msgs, m, script, i+1)
               N == m + i
    <2>14. Flows(p, s, T, J, N, st, from, notes)
      BY <2>2 DEF s, T
    <2>15. /\ \A k \in 1..T : late[k] = s[k]
           /\ \A j \in 1..Size(msg) : j > w => late[T + j - w] = msg[j]
           /\ K \in [1..N+1 -> ChannelMessages]
           /\ \A k \in 1..N : K[k] = J[k]
           /\ K[N+1] = msg
      BY <2>8, <2>12, <2>13 DEF z
    <2> HIDE DEF J, K, N
    <2>16. Flows(p, late, T + Size(msg) - w, K, N+1, msg[1], from, NotesAfter(notes, msg))
      <3>1. Grown(s, T, J, N, st, msg, w, late, K)
        BY <2>5, <2>15 DEF Grown
      <3> QED BY <2>3, <2>14, <3>1, SentKeepsFlow
    <2>17. N + 1 = m + (i + 1)
      BY <1>4 DEF N
    <2>18. Flows(p, base \o (bytes \o more), Len(base \o (bytes \o more)),
                 Joined(msgs, m, script, i+1), m + (i+1), msg[1], from, NotesAfter(notes, msg))
      BY <2>6, <2>11, <2>16, <2>17 DEF K, z, late
    <2>19. Upto[i+1] = [status |-> msg[1], bytes |-> bytes \o more,
                        notes |-> NotesAfter(notes, msg)]
      BY <2>2, <2>4, <2>5
    <2> QED BY <2>6, <2>18, <2>19 DEF Done
  <1>9. L \in S
    <2> HIDE DEF S
    <2>1. Nat \subseteq S
      BY <1>7, <1>8, Induction
    <2> QED BY <1>4, <2>1
  <1>10. Done(L)
    BY <1>4, <1>9
  <1>11. Joined(msgs, m, script, L) = msgs \o script /\ Len(msgs \o script) = m + L
    <2> DEFINE c == msgs \o script
               J == Joined(msgs, m, script, L)
    <2>1. /\ c \in Seq(ChannelMessages) /\ Len(c) = m + L
          /\ \A k \in 1..m : c[k] = msgs[k]
          /\ \A k \in 1..L : c[m + k] = script[k]
      BY LaidEndToEnd DEF m, L
    <2>2. c \in [1..m+L -> ChannelMessages]
      <3>0. ASSUME NEW d \in Seq(ChannelMessages) PROVE d \in [1..Len(d) -> ChannelMessages]
        OBVIOUS
      <3> HIDE DEF c
      <3>1. c \in [1..Len(c) -> ChannelMessages]
        BY <2>1, <3>0
      <3> QED BY <2>1, <3>1
    <2> HIDE DEF c
    <2>3. ASSUME NEW k \in 1..m+L PROVE c[k] = IF k <= m THEN msgs[k] ELSE script[k-m]
      <3>1. CASE k <= m
        BY <1>4, <2>1, <3>1
      <3>2. CASE ~(k <= m)
        <4>1. k - m \in 1..L /\ m + (k - m) = k
          BY <1>4, <3>2
        <4>2. c[m + (k - m)] = script[k-m]
          BY <2>1, <4>1
        <4> QED BY <3>2, <4>1, <4>2
      <3> QED BY <3>1, <3>2
    <2>4. c = [k \in 1..m+L |-> c[k]]
      BY <2>2
    <2>5. c = [k \in 1..m+L |-> IF k <= m THEN msgs[k] ELSE script[k-m]]
      BY <2>3, <2>4
    <2> QED BY <2>1, <2>5 DEF Joined, c
  <1> QED BY <1>1, <1>10, <1>11 DEF Done, SentOn
--------------------------------------------------------------------------------
(* A parser of bytes, however long it thinks its message is. *)
LooseParser == [m_State : {"StatusByte", "DataByte", "SysExByte"},
                m_MessageBuffer : [BufferSlot -> Octet],
                m_nMessageLength : Nat]

(* What came of a byte parsed during a purge: no call of a Note On. *)
Quiet(r) == \/ r.calls = <<>>
            \/ \E c : r.calls = <<c>> /\ (c.kind = "sysex" \/ ~IsNoteOn(c.msg[1]))

LEMMA StoreKeepsType ==
    ASSUME NEW p \in LooseParser, NEW i, NEW b \in Octet
    PROVE  /\ Store(p, i, b) \in [BufferSlot -> Octet]
           /\ \A j \in BufferSlot : j # i => Store(p, i, b)[j] = p.m_MessageBuffer[j]
           /\ i \in BufferSlot => Store(p, i, b)[i] = b
  BY DEF LooseParser, Store

LEMMA PushLoose ==
    ASSUME NEW p \in LooseParser, NEW b \in Octet
    PROVE  Push(p, b) \in LooseParser
  <1> DEFINE stored == Store(p, p.m_nMessageLength, b)
  <1>1. stored \in [BufferSlot -> Octet]
    BY StoreKeepsType
  <1>2. Push(p, b) = [p EXCEPT !.m_MessageBuffer = stored, !.m_nMessageLength = @ + 1]
    BY DEF Push
  <1> HIDE DEF stored
  <1>3. p.m_nMessageLength + 1 \in Nat
    BY DEF LooseParser
  <1> QED BY <1>1, <1>2, <1>3 DEF LooseParser

LEMMA ResetLoose ==
    ASSUME NEW p \in LooseParser, NEW clear \in BOOLEAN
    PROVE  /\ ResetState(p, clear) \in LooseParser
           /\ clear => ResetState(p, clear).m_MessageBuffer[0] = 0
  <1> DEFINE buffer == IF clear THEN Store(p, 0, 0) ELSE p.m_MessageBuffer
  <1>1. 0 \in BufferSlot /\ 0 \in Octet
    BY ParserAssumption DEF BufferSlot, Octet
  <1>2. buffer \in [BufferSlot -> Octet] /\ (clear => buffer[0] = 0)
    BY <1>1, StoreKeepsType DEF LooseParser
  <1>3. ResetState(p, clear) = [p EXCEPT !.m_State = "StatusByte", !.m_nMessageLength = 0,
                                         !.m_MessageBuffer = buffer]
    BY DEF ResetState
  <1> HIDE DEF buffer
  <1>4. ResetState(p, clear) \in LooseParser
    <2>1. 0 \in Nat
      OBVIOUS
    <2> QED BY <1>2, <1>3, <2>1 DEF LooseParser
  <1>5. ResetState(p, clear).m_MessageBuffer = buffer
    BY <1>3 DEF LooseParser
  <1> QED BY <1>2, <1>4, <1>5

LEMMA CheckLoose ==
    ASSUME NEW p \in LooseParser, NEW ign \in BOOLEAN
    PROVE  LET r == CheckCompleteShortMessage(p, ign) IN
           /\ r.p \in LooseParser
           /\ ign \/ (Complete(p) => ~IsNoteOn(p.m_MessageBuffer[0])) => Quiet(r)
  <1> DEFINE st == p.m_MessageBuffer[0]
             n  == p.m_nMessageLength
             r  == CheckCompleteShortMessage(p, ign)
             clear == st >= 241 /\ st <= 247
  <1>1. CASE ~Complete(p)
    <2>1. r.p = p /\ r.calls = <<>>
      BY <1>1 DEF CheckCompleteShortMessage, Result
    <2> QED BY <2>1 DEF Quiet
  <1>2. CASE Complete(p)
    <2>1. /\ r.p = ResetState(p, clear)
          /\ r.calls = IF IsNoteOn(st) /\ ign THEN <<>> ELSE <<Short(Bytes(p, n))>>
      BY <1>2 DEF CheckCompleteShortMessage, Result
    <2>2. clear \in BOOLEAN
      OBVIOUS
    <2> HIDE DEF r, clear
    <2>3. r.p \in LooseParser
      BY <2>1, <2>2, ResetLoose
    <2>4. Bytes(p, n)[1] = st
      <3>1. n \in 2..3
        BY <1>2 DEF Complete
      <3>2. 1 \in 1..n /\ 1 - 1 = 0
        BY <3>1
      <3> QED BY <3>2 DEF Bytes
    <2>5. ASSUME ign \/ ~IsNoteOn(st)
          PROVE  Quiet(r)
      <3>1. CASE IsNoteOn(st)
        <4>1. r.calls = <<>>
          BY <2>1, <2>5, <3>1
        <4> QED BY <4>1 DEF Quiet
      <3>2. CASE ~IsNoteOn(st)
        <4> DEFINE c == Short(Bytes(p, n))
        <4>1. r.calls = <<c>>
          BY <2>1, <3>2
        <4>2. c.msg = Bytes(p, n)
          BY DEF Short
        <4> HIDE DEF c
        <4>3. ~IsNoteOn(c.msg[1])
          BY <2>4, <3>2, <4>2
        <4> QED BY <4>1, <4>3 DEF Quiet
      <3> QED BY <3>1, <3>2
    <2>6. ign \/ (Complete(p) => ~IsNoteOn(st)) => Quiet(r)
      BY <1>2, <2>5
    <2> QED BY <2>3, <2>6 DEF r
  <1> QED BY <1>1, <1>2

LEMMA StatusLoose ==
    ASSUME NEW p \in LooseParser, NEW b \in Octet
    PROVE  ParseStatus(p, b).p \in LooseParser /\ Quiet(ParseStatus(p, b))
  <1> DEFINE cleared == [p EXCEPT !.m_MessageBuffer = Store(p, 0, 0)]
             sysex   == [p EXCEPT !.m_State = "SysExByte"]
             data    == [p EXCEPT !.m_State = "DataByte"]
             r == ParseStatus(p, b)
  <1>1. cleared \in LooseParser /\ sysex \in LooseParser /\ data \in LooseParser
    <2>1. 0 \in Octet
      BY DEF Octet
    <2>2. Store(p, 0, 0) \in [BufferSlot -> Octet]
      BY <2>1, StoreKeepsType
    <2> QED BY <2>2 DEF LooseParser
  <1>2. \/ r.p = cleared /\ r.calls = <<>>
        \/ r.p = Push(sysex, b) /\ r.calls = <<>>
        \/ r.p = Push(data, b) /\ r.calls = <<>>
        \/ r.p = Push(cleared, b) /\ r.calls = <<Short(<<b>>)>> /\ b = TuneRequest
    BY DEF ParseStatus, Result
  <1> HIDE DEF cleared, sysex, data, r
  <1>3. r.p \in LooseParser
    BY <1>1, <1>2, PushLoose
  <1>4. Quiet(r)
    <2>1. ~IsNoteOn(TuneRequest)
      BY DEF IsNoteOn, TuneRequest
    <2>2. Short(<<b>>).msg[1] = b
      BY DEF Short
    <2> QED BY <1>2, <2>1, <2>2 DEF Quiet
  <1> QED BY <1>3, <1>4 DEF r

LEMMA RunningLoose ==
    ASSUME NEW p \in LooseParser, NEW b \in Octet
    PROVE  ParseRunning(p, b).p \in LooseParser /\ Quiet(ParseRunning(p, b))
  <1> DEFINE buffer == Store(p, 1, b)
             two == [p EXCEPT !.m_MessageBuffer = buffer, !.m_nMessageLength = 2]
             one == [two EXCEPT !.m_State = "DataByte"]
             r == ParseRunning(p, b)
  <1>1. buffer \in [BufferSlot -> Octet]
    BY StoreKeepsType
  <1>2. /\ two \in LooseParser /\ one \in LooseParser
        /\ two.m_nMessageLength = 2
    <2> HIDE DEF buffer
    <2> QED BY <1>1 DEF LooseParser
  <1>3. \/ r.p = p /\ r.calls = <<>>
        \/ r.p = one /\ r.calls = <<>>
        \/ r = CheckCompleteShortMessage(two, FALSE)
    BY DEF ParseRunning, Result
  <1> HIDE DEF two, one, r
  <1>4. Complete(two) => ~IsNoteOn(two.m_MessageBuffer[0])
    <2>1. Complete(two) => OneDataByte(two.m_MessageBuffer[0])
      BY <1>2 DEF Complete
    <2>2. two.m_MessageBuffer[0] \in Octet
      <3>1. 0 \in BufferSlot
        BY ParserAssumption DEF BufferSlot
      <3> QED BY <1>2, <3>1 DEF LooseParser
    <2> DEFINE st == two.m_MessageBuffer[0]
    <2> HIDE DEF st
    <2>3. st \in Octet => (OneDataByte(st) => ~IsNoteOn(st))
      BY DEF OneDataByte, IsNoteOn, Octet
    <2> QED BY <2>1, <2>2, <2>3 DEF st
  <1>5. CASE r = CheckCompleteShortMessage(two, FALSE)
    <2>1. FALSE \in BOOLEAN
      OBVIOUS
    <2> QED BY <1>2, <1>4, <1>5, <2>1, CheckLoose DEF r
  <1>6. CASE r.calls = <<>> /\ r.p \in {p, one}
    BY <1>2, <1>6 DEF r, Quiet
  <1> QED BY <1>3, <1>5, <1>6

(* Whatever byte comes, the parser keeps its type; and if Note Ons are to be *)
(* ignored, none is handed on.                                               *)
LEMMA ByteLoose ==
    ASSUME NEW p \in LooseParser, NEW b \in Octet, NEW ign \in BOOLEAN
    PROVE  LET r == ParseByte(p, b, ign) IN r.p \in LooseParser /\ (ign => Quiet(r))
  <1> DEFINE r == ParseByte(p, b, ign)
             q == ResetState(p, TRUE)
  <1>1. CASE IsRealTime(b)
    <2>1. r.p = p /\ r.calls = IF b \in {249, 253} THEN <<>> ELSE <<Short(<<b>>)>>
      BY <1>1 DEF ParseByte, Result
    <2>2. ~IsNoteOn(b) /\ Short(<<b>>).msg[1] = b
      BY <1>1 DEF IsNoteOn, IsRealTime, Octet, Short
    <2> HIDE DEF r
    <2>3. r.p \in LooseParser /\ Quiet(r)
      BY <2>1, <2>2 DEF Quiet
    <2> QED BY <2>3 DEF r
  <1>2. q \in LooseParser
    BY ResetLoose
  <1>3. ASSUME NEW x \in LooseParser
        PROVE  ParseStatusByte(x, b).p \in LooseParser /\ Quiet(ParseStatusByte(x, b))
    BY StatusLoose, RunningLoose DEF ParseStatusByte
  <1> HIDE DEF q
  <1>4. CASE ~IsRealTime(b) /\ p.m_State = "StatusByte"
    <2>1. r = ParseStatusByte(p, b)
      BY <1>4 DEF ParseByte
    <2> QED BY <1>3, <2>1
  <1>5. CASE ~IsRealTime(b) /\ p.m_State = "DataByte"
    <2>1. r = IF IsStatus(b) THEN ParseStatusByte(q, b)
              ELSE CheckCompleteShortMessage(Push(p, b), ign)
      BY <1>5 DEF ParseByte, ParseDataByte, q
    <2>2. CASE IsStatus(b)
      BY <1>2, <1>3, <2>1, <2>2
    <2>3. CASE ~IsStatus(b)
      <3>1. Push(p, b) \in LooseParser
        BY PushLoose
      <3> QED BY <2>1, <2>3, <3>1, CheckLoose
    <2> QED BY <2>2, <2>3
  <1>6. CASE ~IsRealTime(b) /\ p.m_State = "SysExByte"
    <2> DEFINE full == Push(p, b)
               done == SysEx(Bytes(full, full.m_nMessageLength))
    <2>1. r = ParseSysExByte(p, b)
      BY <1>6 DEF ParseByte
    <2>2. \/ r = ParseStatusByte(q, b)
          \/ r.p = ResetState(full, TRUE) /\ r.calls = <<done>>
          \/ r.p = full /\ r.calls = <<>>
      <3>1. CASE IsStatus(b) /\ b # SysExEnd
        BY <2>1, <3>1 DEF ParseSysExByte, q
      <3>2. CASE (~IsStatus(b) \/ b = SysExEnd) /\ p.m_nMessageLength = SysExBufferSize
        BY <2>1, <3>2 DEF ParseSysExByte, q
      <3>3. CASE b = SysExEnd /\ p.m_nMessageLength # SysExBufferSize
        <4>1. r = Result(ResetState(full, TRUE), <<done>>)
          BY <2>1, <3>3 DEF ParseSysExByte
        <4> HIDE DEF full, done, r
        <4> QED BY <4>1 DEF Result
      <3>4. CASE ~IsStatus(b) /\ p.m_nMessageLength # SysExBufferSize
        <4>1. b # SysExEnd
          BY <3>4 DEF IsStatus, SysExEnd
        <4>2. r = Result(full, <<>>)
          BY <2>1, <3>4, <4>1 DEF ParseSysExByte
        <4> QED BY <4>2 DEF Result
      <3> QED BY <3>1, <3>2, <3>3, <3>4
    <2>3. full \in LooseParser
      BY PushLoose
    <2>4. done.kind = "sysex"
      BY DEF SysEx
    <2> HIDE DEF full, done, r
    <2>5. CASE r = ParseStatusByte(q, b)
      BY <1>2, <1>3, <2>5 DEF r
    <2>6. CASE r.p = ResetState(full, TRUE) /\ r.calls = <<done>>
      BY <2>3, <2>4, <2>6, ResetLoose DEF Quiet, r
    <2>7. CASE r.p = full /\ r.calls = <<>>
      BY <2>3, <2>7 DEF Quiet, r
    <2> QED BY <2>2, <2>5, <2>6, <2>7
  <1>7. p.m_State \in {"StatusByte", "DataByte", "SysExByte"}
    BY DEF LooseParser
  <1> QED BY <1>1, <1>4, <1>5, <1>6, <1>7

(* Whatever a script says, what is written is bytes. *)
LEMMA ScriptIsBytes ==
    ASSUME NEW status, NEW notes, NEW script \in Seq(Seq(Octet) \ {<<>>})
    PROVE  SendAll([status |-> status, bytes |-> <<>>, notes |-> notes], script).bytes \in Seq(Octet)
  <1> DEFINE acc == [status |-> status, bytes |-> <<>>, notes |-> notes]
             L == Len(script)
             Written(a) == \E st, bytes, ns : /\ a = [status |-> st, bytes |-> bytes, notes |-> ns]
                                              /\ bytes \in Seq(Octet)
  <1>1. PICK Upto : /\ Upto[0] = acc
                    /\ \A i \in 1..L : Upto[i] = Send(Upto[i-1], script[i])
                    /\ SendAll(acc, script) = Upto[L]
    BY ZenonT(30), SendAllUnfolds
  <1>2. L \in Nat /\ \A i \in 1..L : script[i] \in Seq(Octet) /\ script[i] # <<>>
    OBVIOUS
  <1> DEFINE S == {i \in Nat : i <= L => Written(Upto[i])}
  <1>3. ASSUME NEW a, Written(a), NEW msg \in Seq(Octet), msg # <<>>
        PROVE  Written(Send(a, msg))
    <2>1. PICK st, bytes, ns : a = [status |-> st, bytes |-> bytes, notes |-> ns]
                               /\ bytes \in Seq(Octet)
      BY <1>3
    <2>2. bytes \o msg \in Seq(Octet) /\ bytes \o Tail(msg) \in Seq(Octet)
      BY <1>3, <2>1
    <2> DEFINE c == Encode(a, msg)
    <2>3. \E more \in Seq(Octet) : \/ c = [status |-> st, bytes |-> more, notes |-> ns]
                                  \/ c = [status |-> msg[1], bytes |-> more, notes |-> ns]
      <3>1. \/ c = [a EXCEPT !.bytes = @ \o msg]
            \/ c = [a EXCEPT !.bytes = @ \o Tail(msg)]
            \/ c = [a EXCEPT !.status = msg[1], !.bytes = @ \o msg]
        BY DEF Encode
      <3> HIDE DEF c
      <3>2. \/ c = [status |-> st, bytes |-> bytes \o msg, notes |-> ns]
            \/ c = [status |-> st, bytes |-> bytes \o Tail(msg), notes |-> ns]
            \/ c = [status |-> msg[1], bytes |-> bytes \o msg, notes |-> ns]
        BY <2>1, <3>1
      <3> QED BY <2>2, <3>2
    <2>4. Send(a, msg) = [c EXCEPT !.notes = NotesAfter(@, msg)]
      BY DEF Send
    <2> HIDE DEF c
    <2>5. PICK more \in Seq(Octet) : \/ c = [status |-> st, bytes |-> more, notes |-> ns]
                                    \/ c = [status |-> msg[1], bytes |-> more, notes |-> ns]
      BY <2>3
    <2>6. \/ Send(a, msg) = [status |-> st, bytes |-> more, notes |-> NotesAfter(ns, msg)]
          \/ Send(a, msg) = [status |-> msg[1], bytes |-> more, notes |-> NotesAfter(ns, msg)]
      BY <2>4, <2>5, Restored
    <2> QED BY <2>6
  <1> HIDE DEF L, Written
  <1>4. 0 \in S
    <2>1. <<>> \in Seq(Octet)
      OBVIOUS
    <2>2. Written(acc)
      BY <2>1 DEF Written
    <2> QED BY <1>1, <2>2
  <1>5. ASSUME NEW i \in Nat, i \in S PROVE i + 1 \in S
    <2> SUFFICES ASSUME i + 1 <= L PROVE Written(Upto[i+1])
      OBVIOUS
    <2>1. i + 1 \in 1..L /\ (i + 1) - 1 = i /\ Written(Upto[i])
      BY <1>2, <1>5
    <2>2. Upto[i+1] = Send(Upto[i], script[i+1])
      BY <1>1, <2>1
    <2> QED BY <1>2, <1>3, <2>1, <2>2
  <1>6. Written(Upto[L])
    <2> HIDE DEF S
    <2>1. Nat \subseteq S
      BY <1>4, <1>5, Induction
    <2>2. L \in S
      BY <1>2, <2>1
    <2> QED BY <1>2, <2>2 DEF S
  <1>7. PICK st, bytes, ns : /\ SendAll(acc, script) = [status |-> st, bytes |-> bytes, notes |-> ns]
                             /\ bytes \in Seq(Octet)
    BY <1>1, <1>6 DEF Written
  <1>8. SendAll(acc, script).bytes = bytes
    BY <1>7
  <1> QED BY <1>7, <1>8

--------------------------------------------------------------------------------
(* What is in the buffers is bytes, and the parser is one of bytes. *)
Chunk == [chunk : Seq(Octet), inSysEx : BOOLEAN]

BytesInv ==
    /\ outbox \in Seq(Octet) /\ shared \in Seq(Octet)
    /\ ring \in Seq(Octet) /\ rx \in Seq(Octet)
    /\ purges \in Seq(Chunk)
    /\ parser \in LooseParser

LEMMA MinOfTwo ==
    ASSUME NEW a \in Nat, NEW b \in Nat
    PROVE  Min({a, b}) \in Nat /\ Min({a, b}) <= a /\ Min({a, b}) <= b
  <1>1. \E x \in {a, b} : \A y \in {a, b} : x <= y
    <2>1. a <= b \/ b <= a
      OBVIOUS
    <2> QED BY <2>1
  <1>2. /\ Min({a, b}) \in {a, b}
        /\ \A y \in {a, b} : Min({a, b}) <= y
    BY <1>1 DEF Min
  <1> QED BY <1>2

(* The purge that runs is the innermost; chunks are emptied and filled. *)
LEMMA TopFacts ==
    ASSUME NEW ps \in Seq(Chunk), ps # <<>>, NEW c \in Seq(Octet)
    PROVE  /\ Last(ps) \in Chunk
           /\ Front(ps) \in Seq(Chunk)
           /\ [ps EXCEPT ![Len(ps)].chunk = c] \in Seq(Chunk)
           /\ [ps EXCEPT ![Len(ps)].chunk = c] # <<>>
  <1>1. Len(ps) \in Nat /\ Len(ps) >= 1 /\ Len(ps) \in 1..Len(ps)
    BY HeadAndTail
  <1>2. ps[Len(ps)] \in Chunk
    BY <1>1
  <1>3. Front(ps) \in Seq(Chunk)
    BY <1>1 DEF Front
  <1> DEFINE x == [ps[Len(ps)] EXCEPT !.chunk = c]
             qs == [ps EXCEPT ![Len(ps)].chunk = c]
  <1>4. x \in Chunk
    BY <1>2 DEF Chunk
  <1>5. qs = [ps EXCEPT ![Len(ps)] = x]
    OBVIOUS
  <1> HIDE DEF x, qs
  <1>6. qs \in [1..Len(ps) -> Chunk]
    <2>1. ps \in [1..Len(ps) -> Chunk]
      OBVIOUS
    <2> QED BY <1>1, <1>4, <1>5, <2>1
  <1>7. qs \in Seq(Chunk) /\ Len(qs) = Len(ps)
    BY <1>1, <1>6
  <1>8. qs # <<>>
    BY <1>1, <1>7
  <1> QED BY <1>2, <1>3, <1>7, <1>8 DEF Last, qs

LEMMA ParseOneKeeps ==
    ASSUME NEW b \in Octet, NEW ign \in BOOLEAN, NEW outer \in Seq(Chunk),
           parser \in LooseParser, ParseOne(b, ign, outer)
    PROVE  parser' \in LooseParser /\ purges' \in Seq(Chunk)
  <1>1. ParseByte(parser, b, ign).p \in LooseParser /\ Push(parser, b) \in LooseParser
    BY ByteLoose, PushLoose
  <1>2. [chunk |-> <<>>, inSysEx |-> TRUE] \in Chunk
    BY DEF Chunk
  <1>3. Append(outer, [chunk |-> <<>>, inSysEx |-> TRUE]) \in Seq(Chunk)
    BY <1>2, Appended
  <1>4. \/ parser' = ParseByte(parser, b, ign).p /\ purges' = outer
        \/ parser' = Push(parser, b) /\ purges' = Append(outer, [chunk |-> <<>>, inSysEx |-> TRUE])
    BY DEF ParseOne
  <1> QED BY <1>1, <1>3, <1>4

LEMMA BytesKept ==
    ASSUME BytesInv, [MidiNext]_inputVars
    PROVE  BytesInv'
  <1>0. /\ outbox \in Seq(Octet) /\ shared \in Seq(Octet)
        /\ ring \in Seq(Octet) /\ rx \in Seq(Octet)
        /\ purges \in Seq(Chunk) /\ parser \in LooseParser
    BY DEF BytesInv
  <1>1. ASSUME NEW script \in Scripts, SendScript(script)
        PROVE  BytesInv'
    <2>1. script \in Seq(Seq(Octet) \ {<<>>})
      BY InputAssumption DEF Octet
    <2>2. outbox' \in Seq(Octet)
      <3>1. outbox' = SendAll([status |-> mRunningStatus_TX, bytes |-> <<>>, notes |-> held],
                              script).bytes
        BY <1>1 DEF SendScript
      <3> QED BY <2>1, <3>1, ScriptIsBytes
    <2>3. UNCHANGED <<shared, ring, rx, purges, parser>>
      BY <1>1 DEF SendScript, core0
    <2> QED BY <1>0, <2>2, <2>3 DEF BytesInv
  <1>2. CASE WriteByte
    <2>1. UNCHANGED <<ring, rx, purges, parser>> /\ outbox # <<>> /\ outbox' = Tail(outbox)
          /\ shared' \in {shared, Append(shared, Head(outbox))}
      BY <1>2 DEF WriteByte, core0
    <2>2. Tail(outbox) \in Seq(Octet) /\ Append(shared, Head(outbox)) \in Seq(Octet)
      BY <1>0, <2>1, HeadAndTail, Appended
    <2> QED BY <1>0, <2>1, <2>2 DEF BytesInv
  <1>3. ASSUME NEW packet \in Packets, IRQMIDIReceiveHandler(packet)
        PROVE  BytesInv'
    <2> DEFINE all == ring \o packet
               n == Min({RingSize, Len(all)})
    <2>1. all \in Seq(Octet)
      <3>1. packet \in Seq(Octet)
        BY InputAssumption DEF Octet
      <3> QED BY <1>0, <3>1
    <2>2. n \in Nat /\ n <= Len(all)
      BY <2>1, InputAssumption, MinOfTwo
    <2>3. ring' = SubSeq(all, 1, n) /\ UNCHANGED <<outbox, shared, rx, purges, parser>>
      BY <1>3 DEF IRQMIDIReceiveHandler, core0, core3
    <2> HIDE DEF all, n
    <2>4. SubSeq(all, 1, n) \in Seq(Octet)
      BY <2>1, <2>2
    <2> QED BY <1>0, <2>3, <2>4 DEF BytesInv
  <1>4. CASE UpdateMIDIBegin \/ ReadEnd
    <2>1. UNCHANGED <<outbox, shared, ring, rx, purges, parser>>
      BY <1>4 DEF UpdateMIDIBegin, ReadEnd, core3
    <2> QED BY <1>0, <2>1 DEF BytesInv
  <1>5. CASE ReadByte
    <2>1. /\ UNCHANGED <<outbox, ring, purges, parser>> /\ shared # <<>>
          /\ shared' = Tail(shared) /\ rx' = Append(rx, Head(shared))
      BY <1>5 DEF ReadByte, core3
    <2>2. Tail(shared) \in Seq(Octet) /\ Append(rx, Head(shared)) \in Seq(Octet)
      BY <1>0, <2>1, HeadAndTail, Appended
    <2> QED BY <1>0, <2>1, <2>2 DEF BytesInv
  <1>6. CASE ParseRx
    <2>1. /\ UNCHANGED <<outbox, shared, ring>> /\ rx # <<>> /\ rx' = Tail(rx)
          /\ ParseOne(Head(rx), FALSE, <<>>)
      BY <1>6 DEF ParseRx, core3
    <2>2. Head(rx) \in Octet /\ Tail(rx) \in Seq(Octet)
      BY <1>0, <2>1, HeadAndTail
    <2>3. <<>> \in Seq(Chunk) /\ FALSE \in BOOLEAN
      OBVIOUS
    <2>4. parser' \in LooseParser /\ purges' \in Seq(Chunk)
      BY <1>0, <2>1, <2>2, <2>3, ParseOneKeeps
    <2> QED BY <1>0, <2>1, <2>2, <2>4 DEF BytesInv
  <1>7. CASE DeferredSwitch
    <2>1. UNCHANGED <<outbox, shared, ring, rx, parser>>
          /\ purges' = <<[chunk |-> <<>>, inSysEx |-> FALSE]>>
      BY <1>7 DEF DeferredSwitch, core3
    <2>2. [chunk |-> <<>>, inSysEx |-> FALSE] \in Chunk
      BY DEF Chunk
    <2>3. purges' \in Seq(Chunk)
      BY <2>1, <2>2
    <2> QED BY <1>0, <2>1, <2>3 DEF BytesInv
  <1>8. CASE PurgeRead
    <2> DEFINE c == Append(Top.chunk, Head(shared))
    <2>1. /\ UNCHANGED <<outbox, ring, rx, parser>> /\ shared # <<>> /\ purges # <<>>
          /\ shared' = Tail(shared)
          /\ purges' = [purges EXCEPT ![Len(purges)].chunk = c]
      BY <1>8 DEF PurgeRead, core3, Top, Last
    <2>2. Top \in Chunk
      <3>1. <<>> \in Seq(Octet)
        OBVIOUS
      <3> QED BY <1>0, <2>1, <3>1, TopFacts DEF Top
    <2>3. Tail(shared) \in Seq(Octet) /\ Head(shared) \in Octet
      BY <1>0, <2>1, HeadAndTail
    <2>4. c \in Seq(Octet)
      BY <2>2, <2>3, Appended DEF Chunk
    <2> HIDE DEF c
    <2>5. purges' \in Seq(Chunk)
      BY <1>0, <2>1, <2>4, TopFacts
    <2> QED BY <1>0, <2>1, <2>3, <2>5 DEF BytesInv
  <1>9. CASE PurgeParse
    <2> DEFINE outer == [purges EXCEPT ![Len(purges)].chunk = <<>>]
    <2>1. /\ UNCHANGED <<outbox, shared, ring, rx>> /\ purges # <<>> /\ Top.chunk # <<>>
          /\ ParseOne(Head(Top.chunk), TRUE, outer)
      BY <1>9 DEF PurgeParse, core3
    <2>2. Top \in Chunk /\ outer \in Seq(Chunk)
      <3>1. <<>> \in Seq(Octet)
        OBVIOUS
      <3> QED BY <1>0, <2>1, <3>1, TopFacts DEF Top
    <2>3. Head(Top.chunk) \in Octet
      <3>1. Top.chunk \in Seq(Octet)
        BY <2>2 DEF Chunk
      <3> QED BY <2>1, <3>1, HeadAndTail
    <2> HIDE DEF outer
    <2>4. parser' \in LooseParser /\ purges' \in Seq(Chunk)
      BY <1>0, <2>1, <2>2, <2>3, ParseOneKeeps
    <2> QED BY <1>0, <2>1, <2>4 DEF BytesInv
  <1>10. CASE PurgeRing
    <2>1. /\ UNCHANGED <<outbox, shared, rx>> /\ ring # <<>> /\ ring' = Tail(ring)
          /\ ParseOne(Head(ring), TRUE, purges)
      BY <1>10 DEF PurgeRing, core3
    <2>2. Head(ring) \in Octet /\ Tail(ring) \in Seq(Octet)
      BY <1>0, <2>1, HeadAndTail
    <2>4. parser' \in LooseParser /\ purges' \in Seq(Chunk)
      BY <1>0, <2>1, <2>2, ParseOneKeeps
    <2> QED BY <1>0, <2>1, <2>2, <2>4 DEF BytesInv
  <1>11. CASE PurgeEnd
    <2>1. /\ UNCHANGED <<outbox, shared, ring, rx>> /\ purges # <<>> /\ purges' = Front(purges)
          /\ parser' \in {parser, ResetState(parser, TRUE)}
      BY <1>11 DEF PurgeEnd, core3
    <2>2. ResetState(parser, TRUE) \in LooseParser
      BY <1>0, ResetLoose
    <2>3. Front(purges) \in Seq(Chunk)
      <3>1. <<>> \in Seq(Octet)
        OBVIOUS
      <3> QED BY <1>0, <2>1, <3>1, TopFacts
    <2> QED BY <1>0, <2>1, <2>2, <2>3 DEF BytesInv
  <1>12. CASE UNCHANGED inputVars
    <2>1. UNCHANGED <<outbox, shared, ring, rx, purges, parser>>
      BY <1>12 DEF inputVars, core3, core0
    <2> QED BY <1>0, <2>1 DEF BytesInv
  <1> QED BY <1>1, <1>2, <1>3, <1>4, <1>5, <1>6, <1>7, <1>8, <1>9, <1>10, <1>11, <1>12
       DEF MidiNext, Core3Next, Core0Next

LEMMA BytesHold == MidiSpec => []BytesInv
  <1>1. MidiInit => BytesInv
    <2> SUFFICES ASSUME MidiInit PROVE BytesInv
      OBVIOUS
    <2>1. outbox = <<>> /\ shared = <<>> /\ ring = <<>> /\ rx = <<>> /\ purges = <<>>
          /\ parser = EmptyParser
      BY DEF MidiInit, ParserInit
    <2>2. EmptyParser \in LooseParser
      BY DEF EmptyParser, LooseParser, Octet
    <2> QED BY <2>1, <2>2 DEF BytesInv
  <1>2. BytesInv /\ [MidiNext]_inputVars => BytesInv'
    BY BytesKept
  <1> QED BY <1>1, <1>2, PTL DEF MidiSpec

(* No purge makes the synth start a note: "but ignore note-ons", however the  *)
(* purges nest and wherever a chunk or a purge cuts a message in two.  The    *)
(* parser ignores the Note Ons it is told to ignore, but parses the data of   *)
(* running status under no such order; that completes messages of one data    *)
(* byte only.                                                                 *)
THEOREM PurgesAreQuiet == MidiSpec => PurgeStartsNoNote
  <1> DEFINE A == purges # <<>> => sounding' \subseteq sounding
  <1>1. ASSUME NEW b \in Octet, NEW outer, parser \in LooseParser, ParseOne(b, TRUE, outer)
        PROVE  sounding' \subseteq sounding
    <2> DEFINE r == ParseByte(parser, b, TRUE)
    <2>1. Quiet(r)
      <3>1. TRUE \in BOOLEAN
        OBVIOUS
      <3> QED BY <1>1, <3>1, ByteLoose
    <2>2. sounding' \in {SoundsAfter(r.calls), sounding, {}}
      BY <1>1 DEF ParseOne
    <2> HIDE DEF r
    <2>3. SoundsAfter(r.calls) \subseteq sounding
      <3>1. CASE r.calls = <<>>
        BY <3>1 DEF SoundsAfter
      <3>2. ASSUME NEW c, r.calls = <<c>>, c.kind = "sysex" PROVE SoundsAfter(r.calls) \subseteq sounding
        <4>1. r.calls[1] = c
          BY <3>2
        <4> QED BY <3>2, <4>1 DEF SoundsAfter
      <3>3. ASSUME NEW c, r.calls = <<c>>, ~IsNoteOn(c.msg[1]) PROVE SoundsAfter(r.calls) \subseteq sounding
        <4>1. r.calls[1] = c
          BY <3>3
        <4>2. NotesAfter(sounding, c.msg) = sounding
          BY <3>3 DEF NotesAfter
        <4> QED BY <4>1, <4>2 DEF SoundsAfter
      <3> QED BY <2>1, <3>1, <3>2, <3>3 DEF Quiet
    <2> QED BY <2>2, <2>3
  <1>2. BytesInv /\ [MidiNext]_inputVars => [A]_inputVars
    <2> SUFFICES ASSUME BytesInv, MidiNext, purges # <<>> PROVE sounding' \subseteq sounding
      BY DEF inputVars
    <2>0. /\ ring \in Seq(Octet) /\ purges \in Seq(Chunk) /\ parser \in LooseParser
      BY DEF BytesInv
    <2>1. ASSUME NEW script \in Scripts, SendScript(script) PROVE sounding' \subseteq sounding
      BY <2>1 DEF SendScript, core0
    <2>2. ASSUME NEW packet \in Packets, IRQMIDIReceiveHandler(packet)
          PROVE  sounding' \subseteq sounding
      BY <2>2 DEF IRQMIDIReceiveHandler, core0
    <2>3. CASE WriteByte \/ UpdateMIDIBegin \/ ReadByte \/ ReadEnd \/ ParseRx \/ DeferredSwitch
                 \/ PurgeRead \/ PurgeEnd
      BY <2>3 DEF WriteByte, UpdateMIDIBegin, ReadByte, ReadEnd, ParseRx, DeferredSwitch,
                  PurgeRead, PurgeEnd, core0
    <2>4. CASE PurgeParse
      <3>1. Top.chunk # <<>>
            /\ ParseOne(Head(Top.chunk), TRUE, [purges EXCEPT ![Len(purges)].chunk = <<>>])
        BY <2>4 DEF PurgeParse
      <3>2. Top \in Chunk
        <4>1. <<>> \in Seq(Octet)
          OBVIOUS
        <4> QED BY <2>0, <4>1, TopFacts DEF Top
      <3>3. Head(Top.chunk) \in Octet
        <4>1. Top.chunk \in Seq(Octet)
          BY <3>2 DEF Chunk
        <4> QED BY <3>1, <4>1, HeadAndTail
      <3> QED BY <1>1, <2>0, <3>1, <3>3
    <2>5. CASE PurgeRing
      <3>1. ring # <<>> /\ ParseOne(Head(ring), TRUE, purges)
        BY <2>5 DEF PurgeRing
      <3>2. Head(ring) \in Octet
        BY <2>0, <3>1, HeadAndTail
      <3> QED BY <1>1, <2>0, <3>1, <3>2
    <2> QED BY <2>1, <2>2, <2>3, <2>4, <2>5 DEF MidiNext, Core3Next, Core0Next
  <1> QED BY <1>2, BytesHold, PTL DEF MidiSpec, PurgeStartsNoNote
--------------------------------------------------------------------------------
(* Nothing was lost: then all that was sent is under way, in order. *)
OnTheWay ==
    /\ ~garbled /\ purges = <<>>
    /\ due \in Seq(ChannelMessages)
    /\ Flows(parser, InFlight, Len(InFlight), due, Len(due), mRunningStatus_TX, sounding, held)

FlowInv == BytesInv /\ (dropped \/ OnTheWay)

LEMMA FlowBegins == MidiInit => OnTheWay
  <1> SUFFICES ASSUME MidiInit PROVE OnTheWay
    OBVIOUS
  <1>1. /\ rx = <<>> /\ shared = <<>> /\ outbox = <<>> /\ due = <<>> /\ purges = <<>>
        /\ ~garbled /\ mRunningStatus_TX = 0 /\ sounding = {} /\ held = {}
        /\ parser = EmptyParser
    BY DEF MidiInit, ParserInit
  <1>2. InFlight = <<>> /\ Len(InFlight) = 0 /\ Len(due) = 0 /\ due \in Seq(ChannelMessages)
    BY <1>1 DEF InFlight
  <1> DEFINE p == EmptyParser
             s == InFlight
  <1>3. /\ p \in Parser /\ p.m_State = "StatusByte" /\ p.m_nMessageLength = 0
        /\ p.m_MessageBuffer[0] = 0
    <2>1. 0 \in BufferSlot
      BY ParserAssumption DEF BufferSlot
    <2>2. p.m_State = "StatusByte" /\ p.m_nMessageLength = 0 /\ p.m_MessageBuffer[0] = 0
      BY <2>1 DEF EmptyParser
    <2>3. p \in Parser
      BY EmptyIsWellFormed DEF WellFormed
    <2> QED BY <2>2, <2>3
  <1> HIDE DEF p, s
  <1>4. due \in [1..0 -> ChannelMessages]
    BY <1>1
  <1>5. Amid(p, due, 0)
    BY <1>3 DEF Amid
  <1>6. \E end, omit : Divides(p, s, 0, due, 0, end, omit)
    <2> DEFINE end == [i \in 0..0 |-> 0]
               omit == [i \in 1..0 |-> 0]
    <2>1. end \in [0..0 -> Int] /\ omit \in [1..0 -> 0..1] /\ end[0] = 0
      OBVIOUS
    <2> HIDE DEF end, omit
    <2>2. \A i, j \in 0..0 : ~(i < j)
      OBVIOUS
    <2>3. \A i \in 1..0 : FALSE
      OBVIOUS
    <2>4. 0 = 0 - p.m_nMessageLength
      BY <1>3
    <2>5. Divides(p, s, 0, due, 0, end, omit)
      BY <2>1, <2>2, <2>3, <2>4 DEF Divides
    <2> QED BY <2>5
  <1>7. Leads(due, 0, {}, {})
    <2> DEFINE notes == [i \in 0..0 |-> {}]
    <2>1. DOMAIN notes = 0..0 /\ notes[0] = {} /\ \A i \in 1..0 : FALSE
      OBVIOUS
    <2> HIDE DEF notes
    <2> QED BY <2>1 DEF Leads
  <1>8. Flows(p, s, 0, due, 0, 0, {}, {})
    BY <1>3, <1>4, <1>5, <1>6, <1>7 DEF Flows
  <1> QED BY <1>1, <1>2, <1>8 DEF OnTheWay, p, s

(* Sequences cut in two, and read from the front. *)
LEMMA Regrouped ==
    ASSUME NEW a \in Seq(Octet), NEW b \in Seq(Octet), NEW c \in Seq(Octet)
    PROVE  /\ (a \o b) \o c \in Seq(Octet)
           /\ c # <<>> => (a \o Append(b, Head(c))) \o Tail(c) = (a \o b) \o c
           /\ b # <<>> => (Append(a, Head(b)) \o Tail(b)) \o c = (a \o b) \o c
  <1>1. a \o b \in Seq(Octet) /\ (a \o b) \o c \in Seq(Octet)
    OBVIOUS
  <1>2. ASSUME NEW u \in Seq(Octet), NEW v \in Seq(Octet), v # <<>>
        PROVE  /\ Append(u, Head(v)) \o Tail(v) = u \o v
               /\ Append(u, Head(v)) = u \o <<Head(v)>>
               /\ Head(v) \in Octet /\ Tail(v) \in Seq(Octet)
    <2>1. Head(v) \in Octet /\ Tail(v) \in Seq(Octet)
      BY <1>2
    <2>2. Append(u, Head(v)) = u \o <<Head(v)>>
      BY <2>1
    <2>3. <<Head(v)>> \o Tail(v) = v /\ <<Head(v)>> \in Seq(Octet)
      BY <1>2, <2>1
    <2> DEFINE h == <<Head(v)>>
               w == Tail(v)
    <2> HIDE DEF h, w
    <2>4. (u \o h) \o w = u \o (h \o w)
      BY <2>1, <2>3 DEF h, w
    <2>5. Append(u, Head(v)) \o Tail(v) = u \o v
      BY <2>2, <2>3, <2>4 DEF h, w
    <2> QED BY <2>1, <2>2, <2>5
  <1>3. ASSUME c # <<>>
        PROVE  (a \o Append(b, Head(c))) \o Tail(c) = (a \o b) \o c
    <2>1. a \o Append(b, Head(c)) = Append(a \o b, Head(c))
      <3>1. Head(c) \in Octet
        BY <1>2, <1>3
      <3> QED BY <3>1
    <2> QED BY <1>1, <1>2, <1>3, <2>1
  <1> QED BY <1>1, <1>2, <1>3

LEMMA FrontByte ==
    ASSUME NEW a \in Seq(Octet), NEW b \in Seq(Octet), NEW c \in Seq(Octet), a # <<>>
    PROVE  LET s == (a \o b) \o c
               t == (Tail(a) \o b) \o c
           IN  /\ s[1] = Head(a) /\ Len(s) \in Nat /\ Len(s) # 0
               /\ Len(t) = Len(s) - 1 /\ Shifted(s, Len(s), t)
  <1> DEFINE d == b \o c
             s == (a \o b) \o c
             t == (Tail(a) \o b) \o c
  <1>1. Tail(a) \in Seq(Octet) /\ d \in Seq(Octet)
    OBVIOUS
  <1>2. s = a \o d /\ t = Tail(a) \o d
    BY <1>1
  <1>3. s \in Seq(Octet) /\ s # <<>> /\ Tail(s) = t /\ Head(s) = Head(a)
    <2> HIDE DEF d
    <2>1. (a \o d) # <<>> /\ Tail(a \o d) = Tail(a) \o d /\ Head(a \o d) = Head(a)
          /\ a \o d \in Seq(Octet)
      BY <1>1
    <2> HIDE DEF s, t
    <2> QED BY <1>2, <2>1
  <1> HIDE DEF s, t
  <1>4. /\ Head(s) = s[1] /\ Len(s) \in Nat \ {0} /\ Len(Tail(s)) = Len(s) - 1
        /\ \A k \in 1..Len(s)-1 : Tail(s)[k] = s[k+1]
    BY <1>3, HeadAndTail
  <1>5. Shifted(s, Len(s), t)
    BY <1>3, <1>4 DEF Shifted
  <1> QED BY <1>3, <1>4, <1>5 DEF s, t

LEMMA FlowKept ==
    ASSUME Scripts \subseteq Seq(ChannelMessages), FlowInv, [MidiNext]_inputVars
    PROVE  dropped' \/ OnTheWay'
  <1>0. BytesInv /\ (dropped \/ OnTheWay)
    BY DEF FlowInv
  <1>0a. /\ outbox \in Seq(Octet) /\ shared \in Seq(Octet) /\ rx \in Seq(Octet)
    BY <1>0 DEF BytesInv
  <1>0b. InFlight \in Seq(Octet)
    BY <1>0a, Regrouped DEF InFlight
  <1>s. SUFFICES ASSUME ~dropped' PROVE OnTheWay'
    OBVIOUS
  <1>1. ~dropped
    <2>1. ASSUME dropped PROVE dropped'
      <3>1. ASSUME NEW b, NEW ign, NEW outer, ParseOne(b, ign, outer) PROVE dropped'
        BY <2>1, <3>1 DEF ParseOne
      <3>2. CASE UNCHANGED inputVars
        BY <2>1, <3>2 DEF inputVars
      <3>3. CASE Core3Next
        BY <2>1, <3>3 DEF Core3Next, SendScript, WriteByte
      <3>4. CASE UpdateMIDIBegin \/ ReadByte \/ ReadEnd \/ PurgeRead \/ PurgeEnd
        BY <2>1, <3>4 DEF UpdateMIDIBegin, ReadByte, ReadEnd, PurgeRead, PurgeEnd
      <3>5. CASE ParseRx \/ PurgeParse \/ PurgeRing
        BY <3>1, <3>5 DEF ParseRx, PurgeParse, PurgeRing
      <3>6. CASE DeferredSwitch
        BY <3>6 DEF DeferredSwitch
      <3>7. ASSUME NEW packet \in Packets, IRQMIDIReceiveHandler(packet) PROVE dropped'
        BY <2>1, <3>7 DEF IRQMIDIReceiveHandler
      <3> QED BY <3>2, <3>3, <3>4, <3>5, <3>6, <3>7 DEF MidiNext, Core0Next
    <2> QED BY <1>s, <2>1
  <1>2. /\ ~garbled /\ purges = <<>> /\ due \in Seq(ChannelMessages)
        /\ Flows(parser, InFlight, Len(InFlight), due, Len(due), mRunningStatus_TX, sounding, held)
    BY <1>0, <1>1 DEF OnTheWay
  <1>3. ASSUME InFlight' = InFlight,
               UNCHANGED <<garbled, purges, due, parser, mRunningStatus_TX, sounding, held>>
        PROVE  OnTheWay'
    BY <1>2, <1>3 DEF OnTheWay
  <1>4. ASSUME NEW script \in Scripts, SendScript(script)
        PROVE  OnTheWay'
    <2> DEFINE base == rx \o shared
    <2>1. /\ outbox = <<>> /\ due' = due \o script /\ UNCHANGED <<core0, shared>>
          /\ LET e == SendAll([status |-> mRunningStatus_TX, bytes |-> <<>>, notes |-> held], script)
             IN  mRunningStatus_TX' = e.status /\ outbox' = e.bytes /\ held' = e.notes
      BY <1>4 DEF SendScript
    <2>2. script \in Seq(ChannelMessages)
      OBVIOUS
    <2>3. base \in Seq(Octet) /\ InFlight = base
      BY <1>0a, <2>1 DEF InFlight
    <2>4. Flows(parser, base, Len(base), due, Len(due), mRunningStatus_TX, sounding, held)
      BY <1>2, <2>3
    <2> HIDE DEF base
    <2>5. PICK st, bytes, notes :
             /\ SendAll([status |-> mRunningStatus_TX, bytes |-> <<>>, notes |-> held], script)
                  = [status |-> st, bytes |-> bytes, notes |-> notes]
             /\ bytes \in Seq(Octet)
             /\ Flows(parser, base \o bytes, Len(base \o bytes), due \o script, Len(due \o script),
                      st, sounding, notes)
      <3>1. base \in Seq(Octet) /\ due \in Seq(ChannelMessages)
        BY <1>2, <2>3
      <3>2. SentOn(parser, base, due, mRunningStatus_TX, sounding, held, script)
        BY ONLY <2>2, <2>4, <3>1, ScriptKeepsFlow
      <3> QED BY <3>2 DEF SentOn
    <2>6. mRunningStatus_TX' = st /\ outbox' = bytes /\ held' = notes
      BY <2>1, <2>5
    <2>7. InFlight' = base \o bytes /\ UNCHANGED <<garbled, purges, parser, sounding>>
      BY <2>1, <2>6 DEF InFlight, core0, base
    <2>8. due' \in Seq(ChannelMessages)
      BY <1>2, <2>1, <2>2
    <2> QED BY <1>2, <2>1, <2>5, <2>6, <2>7, <2>8 DEF OnTheWay
  <1>5. CASE WriteByte
    <2>1. /\ outbox # <<>> /\ outbox' = Tail(outbox) /\ shared' = Append(shared, Head(outbox))
          /\ rx' = rx /\ UNCHANGED <<garbled, purges, due, parser, mRunningStatus_TX, sounding, held>>
      BY <1>s, <1>5 DEF WriteByte, core0
    <2>2. InFlight' = InFlight
      BY <1>0a, <2>1, Regrouped DEF InFlight
    <2> QED BY <1>3, <2>1, <2>2
  <1>6. CASE ReadByte
    <2>1. /\ shared # <<>> /\ shared' = Tail(shared) /\ rx' = Append(rx, Head(shared))
          /\ outbox' = outbox
          /\ UNCHANGED <<garbled, purges, due, parser, mRunningStatus_TX, sounding, held>>
      BY <1>6 DEF ReadByte, core3
    <2>2. InFlight' = InFlight
      BY <1>0a, <2>1, Regrouped DEF InFlight
    <2> QED BY <1>3, <2>1, <2>2
  <1>7. CASE UpdateMIDIBegin \/ ReadEnd
    <2>1. UNCHANGED <<rx, shared, outbox>>
          /\ UNCHANGED <<garbled, purges, due, parser, mRunningStatus_TX, sounding, held>>
      BY <1>7 DEF UpdateMIDIBegin, ReadEnd, core3
    <2>2. InFlight' = InFlight
      BY <2>1 DEF InFlight
    <2> QED BY <1>3, <2>1, <2>2
  <1>8. ASSUME NEW packet \in Packets, IRQMIDIReceiveHandler(packet)
        PROVE  OnTheWay'
    <2>1. UNCHANGED <<rx, shared, outbox>>
          /\ UNCHANGED <<garbled, purges, due, parser, mRunningStatus_TX, sounding, held>>
      BY <1>8 DEF IRQMIDIReceiveHandler, core3, core0
    <2>2. InFlight' = InFlight
      BY <2>1 DEF InFlight
    <2> QED BY <1>3, <2>1, <2>2
  <1>9. CASE UNCHANGED inputVars
    <2>1. UNCHANGED <<rx, shared, outbox>>
          /\ UNCHANGED <<garbled, purges, due, parser, mRunningStatus_TX, sounding, held>>
      BY <1>9 DEF inputVars, core3, core0
    <2>2. InFlight' = InFlight
      BY <2>1 DEF InFlight
    <2> QED BY <1>3, <2>1, <2>2
  <1>10. CASE ParseRx
    <2> DEFINE r == ParseByte(parser, Head(rx), FALSE)
               s == InFlight
               S == Len(InFlight)
               t == (Tail(rx) \o shared) \o outbox
               m == Len(due)
    <2>1. /\ rx # <<>> /\ rx' = Tail(rx) /\ ParseOne(Head(rx), FALSE, <<>>)
          /\ UNCHANGED <<shared, outbox, mRunningStatus_TX, held>>
      BY <1>10 DEF ParseRx, core3
    <2>2. /\ s[1] = Head(rx) /\ S \in Nat /\ S # 0 /\ Len(t) = S - 1 /\ Shifted(s, S, t)
      BY <1>0a, <2>1, FrontByte DEF InFlight
    <2>3. InFlight' = t
      BY <2>1 DEF InFlight
    <2>4. /\ m # 0 => Tail(due) \in [1..m-1 -> ChannelMessages]
          /\ Shifted(due, m, Tail(due))
      <3>1. CASE due = <<>>
        <4>1. m = 0 /\ \A k \in 1..m-1 : FALSE
          BY <3>1
        <4> QED BY <4>1 DEF Shifted
      <3>2. CASE due # <<>>
        <4>1. /\ Tail(due) \in Seq(ChannelMessages) /\ m \in Nat \ {0} /\ Len(Tail(due)) = m - 1
              /\ \A k \in 1..m-1 : Tail(due)[k] = due[k+1]
          BY <1>2, <3>2, HeadAndTail
        <4>2. ASSUME NEW d \in Seq(ChannelMessages) PROVE d \in [1..Len(d) -> ChannelMessages]
          OBVIOUS
        <4>3. Tail(due) \in [1..m-1 -> ChannelMessages]
          BY <4>1, <4>2
        <4> QED BY <4>1, <4>3 DEF Shifted
      <3> QED BY <3>1, <3>2
    <2>5. Flows(parser, s, S, due, m, mRunningStatus_TX, sounding, held)
      BY <1>2
    <2> HIDE DEF s, S, t, m, r
    <2> DEFINE rest == Tail(due)
    <2> HIDE DEF rest
    <2>5a. /\ S # 0 /\ Shifted(s, S, t)
           /\ m # 0 => rest \in [1..m-1 -> ChannelMessages]
           /\ Shifted(due, m, rest)
      BY <2>2, <2>4 DEF rest
    <2>5b. r = ParseByte(parser, s[1], FALSE)
      BY <2>2 DEF r
    <2>5c. LET x == ParseByte(parser, s[1], FALSE) IN
           \/ x.calls = <<>> /\ Flows(x.p, t, S-1, due, m, mRunningStatus_TX, sounding, held)
           \/ /\ x.calls = <<Short(due[1])>> /\ m # 0
              /\ Flows(x.p, t, S-1, rest, m-1, mRunningStatus_TX,
                       NotesAfter(sounding, due[1]), held)
      BY ONLY <2>5, <2>5a, ByteKeepsFlow
    <2>6. \/ /\ r.calls = <<>>
             /\ Flows(r.p, t, S-1, due, m, mRunningStatus_TX, sounding, held)
          \/ /\ r.calls = <<Short(due[1])>> /\ m # 0
             /\ Flows(r.p, t, S-1, Tail(due), m-1, mRunningStatus_TX,
                      NotesAfter(sounding, due[1]), held)
      BY <2>5b, <2>5c DEF rest
    <2>7. ~AsksForSoundFont(r.calls)
      <3>1. \A i \in DOMAIN r.calls : r.calls[i].kind # "sysex"
        <4>1. Short(due[1]).kind = "short"
          BY DEF Short
        <4>2. CASE r.calls = <<>>
          BY <4>2
        <4> DEFINE c == Short(due[1])
        <4> HIDE DEF c
        <4>3. CASE r.calls = <<c>>
          <5>1. \A i \in DOMAIN r.calls : r.calls[i] = c
            BY <4>3
          <5> QED BY <4>1, <5>1 DEF c
        <4> QED BY <2>6, <4>2, <4>3 DEF c
      <3> QED BY <3>1 DEF AsksForSoundFont
    <2>8. /\ Score(r.calls) /\ parser' = r.p /\ purges' = <<>>
          /\ sounding' = SoundsAfter(r.calls)
      BY <2>1, <2>7 DEF ParseOne, r
    <2>9. CASE r.calls = <<>>
      <3>1. due' = due /\ garbled' = garbled /\ sounding' = sounding
        BY <2>8, <2>9 DEF Score, SoundsAfter
      <3>2. Flows(r.p, t, S-1, due, m, mRunningStatus_TX, sounding, held)
        BY <2>6, <2>9
      <3> QED BY <1>2, <2>1, <2>2, <2>3, <2>8, <3>1, <3>2 DEF OnTheWay, m
    <2>10. CASE r.calls # <<>>
      <3> DEFINE c == Short(due[1])
      <3>1. r.calls = <<c>> /\ m # 0
            /\ Flows(r.p, t, S-1, Tail(due), m-1, mRunningStatus_TX,
                      NotesAfter(sounding, due[1]), held)
        BY <2>6, <2>10
      <3>2. c.kind = "short" /\ c.msg = due[1]
        BY DEF Short
      <3> HIDE DEF c
      <3>3. r.calls[1] = c /\ r.calls # <<>>
        BY <3>1
      <3>4. due # <<>>
        BY <3>1 DEF m
      <3>5. Head(due) = due[1] /\ Tail(due) \in Seq(ChannelMessages) /\ Len(Tail(due)) = m - 1
        BY <1>2, <3>4, HeadAndTail DEF m
      <3>6. due' = Tail(due) /\ garbled' = garbled
        BY <2>8, <3>2, <3>3, <3>4, <3>5 DEF Score
      <3>7. sounding' = NotesAfter(sounding, due[1])
        BY <2>8, <3>2, <3>3 DEF SoundsAfter
      <3> QED BY <1>2, <2>1, <2>2, <2>3, <2>8, <3>1, <3>5, <3>6, <3>7 DEF OnTheWay
    <2> QED BY <2>9, <2>10
  <1>11. CASE DeferredSwitch
    BY <1>s, <1>11 DEF DeferredSwitch
  <1>12. CASE PurgeRead \/ PurgeParse \/ PurgeRing \/ PurgeEnd
    BY <1>2, <1>12 DEF PurgeRead, PurgeParse, PurgeRing, PurgeEnd
  <1> QED BY <1>4, <1>5, <1>6, <1>7, <1>8, <1>9, <1>10, <1>11, <1>12
       DEF MidiNext, Core3Next, Core0Next

LEMMA FlowHolds ==
    ASSUME Scripts \subseteq Seq(ChannelMessages)
    PROVE  MidiSpec => []FlowInv
  <1>1. MidiInit => (dropped \/ OnTheWay)
    BY FlowBegins
  <1>2. BytesInv /\ (dropped \/ OnTheWay) /\ [MidiNext]_inputVars => (dropped \/ OnTheWay)'
    BY FlowKept DEF FlowInv
  <1>3. BytesInv /\ (dropped \/ OnTheWay) => FlowInv
    BY DEF FlowInv
  <1> QED BY <1>1, <1>2, <1>3, BytesHold, PTL DEF MidiSpec

(* The synth hears the messages the accordion sent, each once and in order:   *)
(* whatever status bytes the MIDI library left out, wherever the race of      *)
(* writer and reader cut the stream in chunks - as long as no write found the *)
(* buffer full, no purge threw bytes away, and all that was sent are channel  *)
(* messages (a SysEx in between makes the two ends disagree).                 *)
THEOREM MessagesHeardInOrder ==
    ASSUME Scripts \subseteq Seq(ChannelMessages)
    PROVE  MidiSpec => []HeardInOrder
  <1>1. FlowInv => HeardInOrder
    BY DEF FlowInv, OnTheWay, HeardInOrder
  <1> QED BY <1>1, FlowHolds, PTL

(* And when all is parsed nothing is owed, and the synth plays exactly the    *)
(* notes the accordion holds.                                                 *)
THEOREM NotesSettleInTheEnd ==
    ASSUME Scripts \subseteq Seq(ChannelMessages)
    PROVE  MidiSpec => []NotesSettle
  <1>1. FlowInv => NotesSettle
    <2> SUFFICES ASSUME FlowInv, Quiescent, ~dropped PROVE sounding = held /\ due = <<>>
      BY DEF NotesSettle
    <2>1. /\ due \in Seq(ChannelMessages)
          /\ Flows(parser, InFlight, Len(InFlight), due, Len(due), mRunningStatus_TX, sounding, held)
      BY DEF FlowInv, OnTheWay
    <2>2. Len(InFlight) = 0
      BY DEF Quiescent, InFlight
    <2> DEFINE N == Len(due)
    <2>3. PICK end, omit : Divides(parser, InFlight, 0, due, N, end, omit)
      BY <2>1, <2>2 DEF Flows
    <2>4. N \in Nat /\ due \in [1..N -> ChannelMessages] /\ Leads(due, N, sounding, held)
          /\ Amid(parser, due, N)
      BY <2>1 DEF Flows
    <2> HIDE DEF N
    <2>5. N = 0
      <3> SUFFICES ASSUME N # 0 PROVE FALSE
        OBVIOUS
      <3> DEFINE len == parser.m_nMessageLength
                 z == Size(due[1])
                 a == end[0]
                 b == end[1]
                 w == omit[1]
      <3>1. 1 \in 1..N /\ 1 \in 0..N /\ N \in 0..N /\ 0 \in 0..N /\ 1 - 1 = 0
        BY <2>4
      <3>2. a = 0 - len /\ b = a + z - w /\ end[N] = 0 /\ w \in 0..1 /\ b \in Int
            /\ (w = 1 => len = 0) /\ (1 < N => b < end[N])
        BY <2>3, <3>1 DEF Divides
      <3>3. z \in 2..3
        BY <2>4, <3>1, ChannelMessageType
      <3>4. len \in Int /\ (len = 0 \/ len < z)
        BY <2>4 DEF Amid
      <3> HIDE DEF len, z, a, b, w
      <3>5. b >= 1
        BY <3>2, <3>3, <3>4
      <3>6. b <= 0
        <4>1. CASE N = 1
          BY <3>2, <4>1 DEF b
        <4>2. CASE N # 1
          <5>1. 1 < N
            BY <2>4, <4>2
          <5> QED BY <3>2, <5>1
        <4> QED BY <4>1, <4>2
      <3> QED BY <3>2, <3>5, <3>6
    <2>6. due = <<>>
      BY <2>1, <2>5 DEF N
    <2>7. sounding = held
      BY <2>4, <2>5 DEF Leads
    <2> QED BY <2>6, <2>7
  <1> QED BY <1>1, FlowHolds, PTL
================================================================================
