--------------------------- MODULE MidiParserProofs ---------------------------
(***************************************************************************)
(* The parser, for every buffer of three bytes and more and whatever bytes *)
(* come, Tune Request excepted: it stays inside its buffer, its length is  *)
(* what its state allows, and its handlers get whole messages only.  What  *)
(* each byte does in each state is stated at the end, for the proofs about *)
(* the ways bytes take to the parser.                                      *)
(***************************************************************************)
EXTENDS MidiParser, TLAPS

(* Messages as the MIDI standard has them. *)
ShortSize(st) == IF IsRealTime(st) THEN 1 ELSE IF OneDataByte(st) THEN 2 ELSE 3

WholeShort(msg) ==
    /\ msg \in [1..ShortSize(msg[1]) -> Octet]
    /\ IsStatus(msg[1]) /\ msg[1] \notin {SysExStart, 244, 245, TuneRequest, SysExEnd, 249, 253}
    /\ \A i \in 2..ShortSize(msg[1]) : ~IsStatus(msg[i])

WholeSysEx(msg) ==
    \E n \in 2..SysExBufferSize :
        /\ msg \in [1..n -> Octet]
        /\ msg[1] = SysExStart /\ msg[n] = SysExEnd
        /\ \A i \in 2..n-1 : ~IsStatus(msg[i])

WholeCall(c) == \/ c.kind = "short" /\ WholeShort(c.msg)
                \/ c.kind = "sysex" /\ WholeSysEx(c.msg)

(* A result: at most one call, of a whole message, and a well-formed parser. *)
Sound(r) == /\ WellFormed(r.p)
            /\ \/ r.calls = <<>>
               \/ \E c : WholeCall(c) /\ r.calls = <<c>>

--------------------------------------------------------------------------------
(* The helpers, field by field. *)
LEMMA EmptyIsWellFormed == WellFormed(EmptyParser)
  BY ParserAssumption
     DEF WellFormed, EmptyParser, Parser, LengthMatches, DataFollows, BufferSlot, Octet

LEMMA StoreType ==
    ASSUME NEW p \in Parser, NEW i \in BufferSlot, NEW b \in Octet
    PROVE  /\ Store(p, i, b) \in [BufferSlot -> Octet]
           /\ Store(p, i, b)[i] = b
           /\ \A j \in BufferSlot \ {i} : Store(p, i, b)[j] = p.m_MessageBuffer[j]
  BY DEF Parser, Store

LEMMA PushFields ==
    ASSUME NEW p \in Parser, NEW b \in Octet, p.m_nMessageLength < SysExBufferSize
    PROVE  /\ Push(p, b) \in Parser
           /\ Push(p, b).m_State = p.m_State
           /\ Push(p, b).m_nMessageLength = p.m_nMessageLength + 1
           /\ Push(p, b).m_MessageBuffer[p.m_nMessageLength] = b
           /\ \A j \in BufferSlot \ {p.m_nMessageLength} :
                 Push(p, b).m_MessageBuffer[j] = p.m_MessageBuffer[j]
  <1> DEFINE stored == Store(p, p.m_nMessageLength, b)
  <1>1. p.m_nMessageLength \in BufferSlot /\ p.m_nMessageLength + 1 \in 0..SysExBufferSize
    BY ParserAssumption DEF Parser, BufferSlot
  <1>2. /\ stored \in [BufferSlot -> Octet]
        /\ stored[p.m_nMessageLength] = b
        /\ \A j \in BufferSlot \ {p.m_nMessageLength} : stored[j] = p.m_MessageBuffer[j]
    BY <1>1, StoreType
  <1>3. Push(p, b) = [p EXCEPT !.m_MessageBuffer = stored, !.m_nMessageLength = @ + 1]
    BY DEF Push
  <1> HIDE DEF stored
  <1> QED
    BY <1>1, <1>2, <1>3 DEF Parser

(* ResetState(TRUE) always leads between messages; ResetState(FALSE) does    *)
(* with a status that may run on.                                            *)
LEMMA ResetFields ==
    ASSUME NEW p \in Parser, NEW clear \in BOOLEAN,
           clear \/ p.m_MessageBuffer[0] \in 128..239
    PROVE  /\ WellFormed(ResetState(p, clear))
           /\ ResetState(p, clear).m_State = "StatusByte"
           /\ ResetState(p, clear).m_nMessageLength = 0
  <1> DEFINE buffer == IF clear THEN Store(p, 0, 0) ELSE p.m_MessageBuffer
  <1>1. 0 \in BufferSlot /\ 0 \in Octet /\ 0 \in 0..SysExBufferSize
    BY ParserAssumption DEF BufferSlot, Octet
  <1>2. ResetState(p, clear) = [p EXCEPT !.m_State = "StatusByte", !.m_nMessageLength = 0,
                                         !.m_MessageBuffer = buffer]
    BY DEF ResetState
  <1>3. buffer \in [BufferSlot -> Octet] /\ (buffer[0] = 0 \/ buffer[0] \in 128..239)
    BY <1>1, StoreType DEF Parser
  <1> HIDE DEF buffer
  <1>4. /\ ResetState(p, clear) \in Parser
        /\ ResetState(p, clear).m_State = "StatusByte"
        /\ ResetState(p, clear).m_nMessageLength = 0
        /\ ResetState(p, clear).m_MessageBuffer = buffer
    BY ZenonT(30), <1>1, <1>2, <1>3 DEF Parser
  <1> QED
    BY <1>3, <1>4 DEF WellFormed, LengthMatches, DataFollows

(* The bytes of a message are what the buffer holds. *)
LEMMA BytesType ==
    ASSUME NEW p \in Parser, NEW n \in 1..SysExBufferSize
    PROVE  /\ Bytes(p, n) \in [1..n -> Octet]
           /\ \A i \in 1..n : Bytes(p, n)[i] = p.m_MessageBuffer[i-1]
  BY ParserAssumption DEF Bytes, Parser, BufferSlot

--------------------------------------------------------------------------------
(* A finished message goes to the handler whole, and leaves a parser that    *)
(* may run on only with a channel status.                                    *)
LEMMA CheckSound ==
    ASSUME NEW p \in Parser, NEW ign \in BOOLEAN, DataFollows(p), Complete(p),
           p.m_MessageBuffer[0] \in 128..243 \ {SysExStart},
           p.m_nMessageLength = 3 => ~OneDataByte(p.m_MessageBuffer[0])
    PROVE  Sound(CheckCompleteShortMessage(p, ign))
  <1> DEFINE st    == p.m_MessageBuffer[0]
             n     == p.m_nMessageLength
             msg   == Bytes(p, n)
             clear == st >= 241 /\ st <= 247
             r     == CheckCompleteShortMessage(p, ign)
  <1>1. n \in 2..3 /\ n \in 1..SysExBufferSize /\ n = ShortSize(st)
    BY ParserAssumption DEF Complete, Parser, ShortSize, IsRealTime, OneDataByte, SysExStart
  <1>2. /\ msg \in [1..n -> Octet]
        /\ \A i \in 1..n : msg[i] = p.m_MessageBuffer[i-1]
    BY <1>1, BytesType
  <1>3. msg[1] = st
    BY <1>1, <1>2
  <1>4. \A i \in 2..n : ~IsStatus(msg[i])
    BY <1>1, <1>2 DEF DataFollows
  <1>5. WholeShort(msg)
    <2>1. IsStatus(st) /\ st \notin {SysExStart, 244, 245, TuneRequest, SysExEnd, 249, 253}
      BY DEF IsStatus, SysExStart, TuneRequest, SysExEnd
    <2> HIDE DEF msg, st, n
    <2> QED
      BY <1>1, <1>2, <1>3, <1>4, <2>1 DEF WholeShort
  <1>6. WellFormed(ResetState(p, clear))
    <2>1. clear \in BOOLEAN /\ (clear \/ st \in 128..239)
      BY DEF SysExStart
    <2> HIDE DEF clear
    <2> QED
      BY <2>1, ResetFields
  <1>7. /\ r.p = ResetState(p, clear)
        /\ r.calls = <<>> \/ r.calls = <<Short(msg)>>
    BY DEF CheckCompleteShortMessage, Result
  <1> HIDE DEF msg, st, n, r, clear
  <1>8. WholeCall(Short(msg))
    BY <1>5 DEF WholeCall, Short
  <1>9. Sound(r)
    BY <1>6, <1>7, <1>8 DEF Sound
  <1> QED
    BY <1>9 DEF r

(* A status byte starts a message of its own, between two others. *)
LEMMA StatusSound ==
    ASSUME NEW p \in Parser, NEW b \in Octet, WellFormed(p), p.m_State = "StatusByte",
           IsStatus(b), ~IsRealTime(b), b # TuneRequest
    PROVE  Sound(ParseStatus(p, b))
  <1>0. /\ p.m_nMessageLength = 0 /\ p.m_nMessageLength < SysExBufferSize
        /\ 0 \in BufferSlot /\ 0 \in Octet
        /\ 1 \in 1..SysExBufferSize
    BY ParserAssumption DEF WellFormed, LengthMatches, BufferSlot, Octet
  <1>1. CASE b \in {244, 245, SysExEnd}
    <2> DEFINE buffer == Store(p, 0, 0)
               q == [p EXCEPT !.m_MessageBuffer = buffer]
    <2>1. ParseStatus(p, b) = Result(q, <<>>)
      BY <1>1 DEF ParseStatus, SysExStart, SysExEnd, TuneRequest
    <2>2. buffer \in [BufferSlot -> Octet] /\ buffer[0] = 0
      BY <1>0, StoreType
    <2> HIDE DEF buffer
    <2>3. q \in Parser /\ q.m_State = "StatusByte" /\ q.m_nMessageLength = 0
          /\ q.m_MessageBuffer = buffer
      BY <1>0, <2>2 DEF Parser
    <2>4. WellFormed(q)
      BY <2>2, <2>3 DEF WellFormed, LengthMatches, DataFollows
    <2> QED
      BY <2>1, <2>4 DEF Sound, Result
  <1>2. CASE b \notin {244, 245, SysExEnd}
    <2> DEFINE state == IF b = SysExStart THEN "SysExByte" ELSE "DataByte"
               q == [p EXCEPT !.m_State = state]
               r == Push(q, b)
    <2>1. ParseStatus(p, b) = Result(r, <<>>)
      BY <1>2 DEF ParseStatus, SysExStart, SysExEnd, TuneRequest
    <2>2. state \in {"SysExByte", "DataByte"}
      OBVIOUS
    <2>2a. state = "SysExByte" <=> b = SysExStart
      OBVIOUS
    <2> HIDE DEF state
    <2>3. q \in Parser /\ q.m_State = state /\ q.m_nMessageLength = 0
      BY <1>0, <2>2 DEF Parser
    <2> HIDE DEF q
    <2>4. r \in Parser /\ r.m_State = state /\ r.m_nMessageLength = 1 /\ r.m_MessageBuffer[0] = b
      BY <1>0, <2>3, PushFields
    <2> HIDE DEF r
    <2>5. b \in 128..243
      BY <1>2 DEF IsStatus, IsRealTime, Octet, TuneRequest, SysExEnd
    <2>6. LengthMatches(r)
      BY <1>0, <2>2, <2>2a, <2>4, <2>5 DEF LengthMatches
    <2>7. DataFollows(r)
      BY <2>4 DEF DataFollows
    <2> QED
      BY <2>1, <2>4, <2>6, <2>7 DEF Sound, Result, WellFormed
  <1> QED
    BY <1>1, <1>2

(* A data byte between messages runs on with the stored status, if any. *)
LEMMA RunningSound ==
    ASSUME NEW p \in Parser, NEW b \in Octet, WellFormed(p), p.m_State = "StatusByte",
           ~IsStatus(b)
    PROVE  Sound(ParseRunning(p, b))
  <1> DEFINE st == p.m_MessageBuffer[0]
  <1>1. CASE st = 0
    BY <1>1 DEF ParseRunning, Sound, Result
  <1>2. CASE st # 0
    <2> DEFINE buffer == Store(p, 1, b)
               two == [p EXCEPT !.m_MessageBuffer = buffer, !.m_nMessageLength = 2]
               one == [two EXCEPT !.m_State = "DataByte"]
    <2>1. /\ 0 \in BufferSlot /\ 1 \in BufferSlot /\ 2 \in 0..SysExBufferSize
          /\ st \in 128..239
      BY <1>2, ParserAssumption DEF BufferSlot, WellFormed, LengthMatches
    <2>2. buffer \in [BufferSlot -> Octet] /\ buffer[0] = st /\ buffer[1] = b
      BY <2>1, StoreType
    <2>3. ParseRunning(p, b) = IF Complete(two) THEN CheckCompleteShortMessage(two, FALSE)
                               ELSE Result(one, <<>>)
      BY <1>2 DEF ParseRunning
    <2> HIDE DEF buffer
    <2>4. /\ two \in Parser
          /\ two.m_MessageBuffer = buffer /\ two.m_nMessageLength = 2
      BY <2>1, <2>2 DEF Parser
    <2> HIDE DEF two
    <2>5. DataFollows(two)
      BY <2>2, <2>4 DEF DataFollows
    <2>6. CASE Complete(two)
      <3>1. two.m_MessageBuffer[0] \in 128..243 \ {SysExStart}
        BY <2>1, <2>2, <2>4 DEF SysExStart
      <3>2. Sound(CheckCompleteShortMessage(two, FALSE))
        <4>1. FALSE \in BOOLEAN /\ two.m_nMessageLength # 3
          BY <2>4
        <4> QED
          BY <2>4, <2>5, <2>6, <3>1, <4>1, CheckSound
      <3> QED
        BY <2>3, <2>6, <3>2
    <2>7. CASE ~Complete(two)
      <3>1. one \in Parser /\ one.m_State = "DataByte" /\ one.m_nMessageLength = 2
            /\ one.m_MessageBuffer = buffer
        BY <2>4 DEF Parser
      <3> HIDE DEF one
      <3>2. ~OneDataByte(st)
        BY <2>2, <2>4, <2>7 DEF Complete
      <3>3. WellFormed(one)
        BY <2>1, <2>2, <2>4, <2>5, <3>1, <3>2
           DEF WellFormed, LengthMatches, DataFollows, SysExStart
      <3> QED
        BY <2>3, <2>7, <3>3 DEF Sound, Result
    <2> QED
      BY <2>6, <2>7
  <1> QED
    BY <1>1, <1>2

LEMMA StatusByteSound ==
    ASSUME NEW p \in Parser, NEW b \in Octet, WellFormed(p), p.m_State = "StatusByte",
           ~IsRealTime(b), b # TuneRequest
    PROVE  Sound(ParseStatusByte(p, b))
  BY StatusSound, RunningSound DEF ParseStatusByte

(* A status that breaks into a message drops it and starts its own. *)
LEMMA BreakSound ==
    ASSUME NEW p \in Parser, NEW b \in Octet, ~IsRealTime(b), b # TuneRequest
    PROVE  Sound(ParseStatusByte(ResetState(p, TRUE), b))
  <1>1. WellFormed(ResetState(p, TRUE)) /\ ResetState(p, TRUE).m_State = "StatusByte"
    BY ResetFields
  <1> QED
    BY <1>1, StatusByteSound DEF WellFormed

LEMMA DataByteSound ==
    ASSUME NEW p \in Parser, NEW b \in Octet, NEW ign \in BOOLEAN,
           WellFormed(p), p.m_State = "DataByte", ~IsRealTime(b), b # TuneRequest
    PROVE  Sound(ParseDataByte(p, b, ign))
  <1>1. CASE IsStatus(b)
    BY <1>1, BreakSound DEF ParseDataByte
  <1>2. CASE ~IsStatus(b)
    <2> DEFINE q   == Push(p, b)
               st  == p.m_MessageBuffer[0]
               len == p.m_nMessageLength
    <2>1. /\ len \in 1..2 /\ len < SysExBufferSize
          /\ st \in 128..243 \ {SysExStart}
          /\ len = 2 => ~OneDataByte(st)
          /\ 0 \in BufferSlot /\ 1 \in BufferSlot /\ 2 \in BufferSlot
      BY ParserAssumption DEF WellFormed, LengthMatches, BufferSlot
    <2>2. /\ q \in Parser /\ q.m_State = "DataByte" /\ q.m_nMessageLength = len + 1
          /\ q.m_MessageBuffer[len] = b
          /\ \A j \in BufferSlot \ {len} : q.m_MessageBuffer[j] = p.m_MessageBuffer[j]
      BY <2>1, PushFields
    <2>3. ParseDataByte(p, b, ign) = CheckCompleteShortMessage(q, ign)
      BY <1>2 DEF ParseDataByte
    <2> HIDE DEF q
    <2>4. q.m_MessageBuffer[0] = st
      BY <2>1, <2>2
    <2>5. DataFollows(q)
      BY <1>2, <2>1, <2>2 DEF DataFollows, WellFormed
    <2>6. CASE Complete(q)
      BY <2>1, <2>2, <2>3, <2>4, <2>5, <2>6, CheckSound
    <2>7. CASE ~Complete(q)
      <3>1. CheckCompleteShortMessage(q, ign) = Result(q, <<>>)
        BY <2>7 DEF CheckCompleteShortMessage
      <3>2. q.m_nMessageLength = 2 /\ ~OneDataByte(st)
        BY <2>1, <2>2, <2>4, <2>7 DEF Complete
      <3>3. WellFormed(q)
        BY <2>1, <2>2, <2>4, <2>5, <3>2 DEF WellFormed, LengthMatches
      <3> QED
        BY <2>3, <3>1, <3>3 DEF Sound, Result
    <2> QED
      BY <2>6, <2>7
  <1> QED
    BY <1>1, <1>2

(* A SysEx message is delivered whole or not at all. *)
LEMMA SysExByteSound ==
    ASSUME NEW p \in Parser, NEW b \in Octet,
           WellFormed(p), p.m_State = "SysExByte", ~IsRealTime(b), b # TuneRequest
    PROVE  Sound(ParseSysExByte(p, b))
  <1> DEFINE q    == Push(p, b)
             len  == p.m_nMessageLength
             ends == b = SysExEnd
             full == len = SysExBufferSize
  <1>1. /\ len \in 1..SysExBufferSize /\ len \in Nat /\ SysExBufferSize \in Nat
        /\ p.m_MessageBuffer[0] = SysExStart
        /\ 0 \in BufferSlot
    BY ParserAssumption DEF WellFormed, LengthMatches, BufferSlot
  <1>2. IsStatus(SysExEnd)
    BY DEF IsStatus, SysExEnd
  <1>3. CASE (IsStatus(b) /\ ~ends) \/ full
    <2>1. ParseSysExByte(p, b) = ParseStatusByte(ResetState(p, TRUE), b)
      BY <1>2, <1>3 DEF ParseSysExByte
    <2> QED
      BY <2>1, BreakSound
  <1>4. CASE (~IsStatus(b) \/ ends) /\ ~full
    <2>1. len < SysExBufferSize
      BY <1>1, <1>4
    <2>2. /\ q \in Parser /\ q.m_State = "SysExByte" /\ q.m_nMessageLength = len + 1
          /\ q.m_MessageBuffer[len] = b
          /\ \A j \in BufferSlot \ {len} : q.m_MessageBuffer[j] = p.m_MessageBuffer[j]
      BY <2>1, PushFields
    <2>3. q.m_MessageBuffer[0] = SysExStart /\ len + 1 \in 2..SysExBufferSize
          /\ len + 1 \in 1..SysExBufferSize
      BY <1>1, <2>1, <2>2
    <2>4. \A i \in 1..len-1 : ~IsStatus(q.m_MessageBuffer[i])
      BY <1>1, <2>1, <2>2 DEF DataFollows, WellFormed, BufferSlot
    <2>5. CASE ends
      <3> DEFINE msg == Bytes(q, len + 1)
      <3>1. ParseSysExByte(p, b) = Result(ResetState(q, TRUE), <<SysEx(msg)>>)
        BY <1>2, <1>4, <2>2, <2>5 DEF ParseSysExByte
      <3> HIDE DEF q
      <3>2. msg \in [1..len+1 -> Octet] /\ \A i \in 1..len+1 : msg[i] = q.m_MessageBuffer[i-1]
        BY <2>2, <2>3, BytesType
      <3>3. msg[1] = SysExStart /\ msg[len+1] = SysExEnd
        <4> HIDE DEF msg, ends, len
        <4>1. msg[1] = q.m_MessageBuffer[1-1] /\ msg[len+1] = q.m_MessageBuffer[len+1-1]
          BY <1>1, <3>2
        <4>2. 1-1 = 0 /\ len+1-1 = len
          BY <1>1
        <4>3. b = SysExEnd
          BY <2>5 DEF ends
        <4> QED
          BY <2>2, <2>3, <4>1, <4>2, <4>3
      <3>4. \A i \in 2..len : ~IsStatus(msg[i])
        BY SMTT(20), <1>1, <2>4, <3>2
      <3>5. WholeSysEx(msg)
        <4> HIDE DEF msg, len
        <4>1. (len + 1) - 1 = len
          BY <1>1
        <4> QED
          BY <2>3, <3>2, <3>3, <3>4, <4>1 DEF WholeSysEx
      <3>6. WellFormed(ResetState(q, TRUE))
        BY <2>2, ResetFields
      <3> HIDE DEF msg
      <3>7. WholeCall(SysEx(msg))
        BY <3>5 DEF WholeCall, SysEx
      <3> DEFINE r == ParseSysExByte(p, b)
      <3>8. r.p = ResetState(q, TRUE) /\ r.calls = <<SysEx(msg)>>
        BY <3>1 DEF Result
      <3> QED
        BY <3>6, <3>7, <3>8 DEF Sound
    <2>6. CASE ~ends
      <3>1. ParseSysExByte(p, b) = Result(q, <<>>)
        BY <1>4, <2>6 DEF ParseSysExByte
      <3>2. ~IsStatus(q.m_MessageBuffer[len])
        BY <1>4, <2>2, <2>6
      <3> HIDE DEF q
      <3>3. DataFollows(q)
        BY <1>1, <2>2, <2>4, <3>2 DEF DataFollows
      <3>4. LengthMatches(q)
        BY <2>2, <2>3 DEF LengthMatches
      <3> QED
        BY <2>2, <3>1, <3>3, <3>4 DEF Sound, Result, WellFormed
    <2> QED
      BY <2>5, <2>6
  <1> QED
    BY <1>3, <1>4

(* One turn of the loop of ParseMIDIBytes.  A System Real-Time byte passes   *)
(* by whatever message it comes in the middle of.                            *)
LEMMA ParseByteSound ==
    ASSUME NEW p, NEW b \in Octet, NEW ign \in BOOLEAN, WellFormed(p), b # TuneRequest
    PROVE  Sound(ParseByte(p, b, ign))
  <1>1. p \in Parser /\ p.m_State \in {"StatusByte", "DataByte", "SysExByte"}
    BY DEF WellFormed, Parser
  <1>2. CASE IsRealTime(b)
    <2>1. b \notin {249, 253} => WholeShort(<<b>>)
      <3> DEFINE msg == <<b>>
      <3>1. msg \in [1..1 -> Octet] /\ msg[1] = b
        OBVIOUS
      <3> HIDE DEF msg
      <3>2. ShortSize(msg[1]) = 1 /\ IsStatus(msg[1])
        BY <1>2, <3>1 DEF ShortSize, IsRealTime, IsStatus, Octet
      <3>3. b \notin {SysExStart, 244, 245, TuneRequest, SysExEnd}
        BY <1>2 DEF IsRealTime, SysExStart, TuneRequest, SysExEnd
      <3>4. b \notin {249, 253} => WholeShort(msg)
        BY <3>1, <3>2, <3>3 DEF WholeShort
      <3> QED
        BY <3>4 DEF msg
    <2>2. /\ ParseByte(p, b, ign).p = p
          /\ ParseByte(p, b, ign).calls = IF b \in {249, 253} THEN <<>> ELSE <<Short(<<b>>)>>
      BY <1>2 DEF ParseByte, Result
    <2> QED
      BY <2>1, <2>2 DEF Sound, WholeCall, Short
  <1>3. CASE ~IsRealTime(b)
    <2>1. CASE p.m_State = "StatusByte"
      BY <1>1, <1>3, <2>1, StatusByteSound DEF ParseByte
    <2>2. CASE p.m_State = "DataByte"
      BY <1>1, <1>3, <2>2, DataByteSound DEF ParseByte
    <2>3. CASE p.m_State = "SysExByte"
      BY <1>1, <1>3, <2>3, SysExByteSound DEF ParseByte
    <2> QED
      BY <1>1, <2>1, <2>2, <2>3
  <1> QED
    BY <1>2, <1>3

--------------------------------------------------------------------------------
(* What the handlers were called with. *)
HandlersGetWholeMessages == calls = <<>> \/ \E c : WholeCall(c) /\ calls = <<c>>

ParserIInv == WellFormed(parser) /\ HandlersGetWholeMessages

LEMMA ParserInvariantHolds ==
    ASSUME TuneRequest \notin Byte
    PROVE  ParserSpec => []ParserIInv
  <1>1. ParserInit => ParserIInv
    BY EmptyIsWellFormed DEF ParserInit, ParserIInv, HandlersGetWholeMessages
  <1>2. ParserIInv /\ [ParserNext]_parserVars => ParserIInv'
    <2> SUFFICES ASSUME ParserIInv, [ParserNext]_parserVars PROVE ParserIInv'
      OBVIOUS
    <2>1. CASE ParserNext
      <3> PICK b \in Byte, ign \in BOOLEAN : Parse(b, ign)
        BY <2>1 DEF ParserNext
      <3>1. b \in Octet /\ b # TuneRequest
        BY ParserAssumption DEF Octet
      <3>2. Sound(ParseByte(parser, b, ign))
        BY <3>1, ParseByteSound DEF ParserIInv
      <3> QED
        BY <3>2 DEF Parse, Sound, ParserIInv, HandlersGetWholeMessages
    <2>2. CASE UNCHANGED parserVars
      BY <2>2 DEF parserVars, ParserIInv, HandlersGetWholeMessages
    <2> QED
      BY <2>1, <2>2
  <1> QED
    BY <1>1, <1>2, PTL DEF ParserSpec

(* The length that ParseMIDIBytes indexes its buffer with always fits the    *)
(* state of the parser, as long as nobody sends a Tune Request.              *)
THEOREM LengthAlwaysMatches ==
    ASSUME TuneRequest \notin Byte
    PROVE  ParserSpec => []LengthMatchesState
  <1>1. ParserIInv => LengthMatchesState
    BY DEF ParserIInv, WellFormed, LengthMatchesState
  <1> QED
    BY <1>1, ParserInvariantHolds, PTL

(* OnShortMessage and OnSysExMessage are called once a byte at most, with a  *)
(* message of the right number of bytes, its status in front and data bytes  *)
(* behind it; what a stray status or a full buffer cuts off reaches nobody.  *)
THEOREM MessagesAreWhole ==
    ASSUME TuneRequest \notin Byte
    PROVE  ParserSpec => []HandlersGetWholeMessages
  <1>1. ParserIInv => HandlersGetWholeMessages
    BY DEF ParserIInv
  <1> QED
    BY <1>1, ParserInvariantHolds, PTL

--------------------------------------------------------------------------------
(* Bytes, and sequences laid end to end. *)
LEMMA OctetParts ==
    ASSUME NEW b \in Octet
    PROVE  /\ IsStatus(b) /\ b < SysExStart => b \in 128..239
           /\ ~IsStatus(b) => b < 128
           /\ b \in 128..239 => /\ IsStatus(b) /\ ~IsRealTime(b)
                               /\ ~(b >= 241 /\ b <= 247)
                               /\ b # 0
           /\ b < 128 => ~IsRealTime(b)
  BY DEF Octet, IsStatus, IsRealTime, SysExStart

LEMMA LaidEndToEnd ==
    ASSUME NEW X, NEW a \in Seq(X), NEW b \in Seq(X)
    PROVE  /\ a \o b \in Seq(X)
           /\ Len(a) \in Nat /\ Len(b) \in Nat
           /\ Len(a \o b) = Len(a) + Len(b)
           /\ \A k \in 1..Len(a) : (a \o b)[k] = a[k]
           /\ \A k \in 1..Len(b) : (a \o b)[Len(a) + k] = b[k]
  OBVIOUS

LEMMA LaidInOneGo ==
    ASSUME NEW X, NEW a \in Seq(X), NEW b \in Seq(X), NEW c \in Seq(X)
    PROVE  a \o (b \o c) = (a \o b) \o c /\ b \o c \in Seq(X)
  OBVIOUS

LEMMA HeadAndTail ==
    ASSUME NEW X, NEW s \in Seq(X), s # <<>>
    PROVE  /\ Head(s) \in X /\ Tail(s) \in Seq(X)
           /\ Head(s) = s[1] /\ Len(s) \in Nat \ {0} /\ Len(Tail(s)) = Len(s) - 1
           /\ \A k \in 1..Len(s)-1 : Tail(s)[k] = s[k+1]
  OBVIOUS

LEMMA Appended ==
    ASSUME NEW X, NEW s \in Seq(X), NEW x \in X
    PROVE  Append(s, x) \in Seq(X)
  OBVIOUS

LEMMA Piece ==
    ASSUME NEW X, NEW s \in Seq(X), NEW i \in 1..Len(s)+1, NEW j \in i-1..Len(s)
    PROVE  /\ SubSeq(s, i, j) \in Seq(X) /\ Len(SubSeq(s, i, j)) = j - i + 1
           /\ \A k \in 1..j-i+1 : SubSeq(s, i, j)[k] = s[i+k-1]
  OBVIOUS

LEMMA IsSequence ==
    ASSUME NEW X, NEW n \in Nat, NEW f \in [1..n -> X]
    PROVE  f \in Seq(X) /\ Len(f) = n
  OBVIOUS

LEMMA Parity ==
    ASSUME NEW x \in Nat
    PROVE  /\ x % 2 = 0 => (x + 1) % 2 = 1
           /\ x % 2 = 1 => (x + 1) % 2 = 0
           /\ x % 2 \in {0, 1} /\ x % 1 = 0
  OBVIOUS

LEMMA SameSequence ==
    ASSUME NEW X, NEW a \in Seq(X), NEW b \in Seq(X), Len(a) = Len(b),
           \A i \in 1..Len(a) : a[i] = b[i]
    PROVE  a = b
  OBVIOUS

LEMMA Concat ==
    ASSUME NEW X, NEW a \in Seq(X), NEW b \in Seq(X), NEW k \in 1..Len(a)+Len(b)
    PROVE  (a \o b)[k] = IF k <= Len(a) THEN a[k] ELSE b[k - Len(a)]
  OBVIOUS

--------------------------------------------------------------------------------
(* What each byte does.  The parser between messages, with the status that   *)
(* may run on, and in the middle of one.                                     *)
Between(p, st) ==
    p.m_State = "StatusByte" /\ p.m_nMessageLength = 0 /\ p.m_MessageBuffer[0] = st

Within(p, state, n) == p.m_State = state /\ p.m_nMessageLength = n

(* A status begins a message, or none. *)
Began(p, b) == /\ b \in {244, 245, SysExEnd} => Between(p, 0)
               /\ b = SysExStart => Within(p, "SysExByte", 1)
               /\ b \in 128..243 \ {SysExStart} => Within(p, "DataByte", 1)
               /\ b \in 128..243 => p.m_MessageBuffer[0] = b

LEMMA StatusTakenBetween ==
    ASSUME NEW p \in Parser, NEW b \in Octet, WellFormed(p), p.m_State = "StatusByte",
           IsStatus(b), ~IsRealTime(b), b # TuneRequest
    PROVE  ParseStatusByte(p, b).calls = <<>> /\ Began(ParseStatusByte(p, b).p, b)
  <1>0. /\ p.m_nMessageLength = 0 /\ p.m_nMessageLength < SysExBufferSize
        /\ 0 \in BufferSlot /\ 0 \in Octet
        /\ ParseStatusByte(p, b) = ParseStatus(p, b)
    BY ParserAssumption DEF WellFormed, LengthMatches, BufferSlot, Octet, ParseStatusByte
  <1>1. CASE b \in {244, 245, SysExEnd}
    <2> DEFINE buffer == Store(p, 0, 0)
               q == [p EXCEPT !.m_MessageBuffer = buffer]
    <2>1. ParseStatus(p, b) = Result(q, <<>>)
      BY <1>1 DEF ParseStatus, SysExStart, SysExEnd, TuneRequest
    <2>2. buffer \in [BufferSlot -> Octet] /\ buffer[0] = 0
      BY <1>0, StoreType
    <2> HIDE DEF buffer
    <2>3. Between(q, 0)
      BY <1>0, <2>2 DEF Parser, Between
    <2>4. b \notin 128..243 /\ b # SysExStart
      BY <1>1 DEF SysExStart, SysExEnd
    <2> HIDE DEF q
    <2> QED
      BY <1>0, <2>1, <2>3, <2>4 DEF Result, Began
  <1>2. CASE b \notin {244, 245, SysExEnd}
    <2> DEFINE state == IF b = SysExStart THEN "SysExByte" ELSE "DataByte"
               q == [p EXCEPT !.m_State = state]
               r == Push(q, b)
    <2>1. ParseStatus(p, b) = Result(r, <<>>)
      BY <1>2 DEF ParseStatus, SysExStart, SysExEnd, TuneRequest
    <2>2. state \in {"SysExByte", "DataByte"}
      OBVIOUS
    <2>2a. state = "SysExByte" <=> b = SysExStart
      OBVIOUS
    <2> HIDE DEF state
    <2>3. q \in Parser /\ q.m_State = state /\ q.m_nMessageLength = 0
      BY <1>0, <2>2 DEF Parser
    <2> HIDE DEF q
    <2>4. r \in Parser /\ r.m_State = state /\ r.m_nMessageLength = 1 /\ r.m_MessageBuffer[0] = b
      BY <1>0, <2>3, PushFields
    <2> HIDE DEF r
    <2>5. Began(r, b)
      BY <1>2, <2>2, <2>2a, <2>4 DEF Began, Within
    <2> QED
      BY <1>0, <2>1, <2>5 DEF Result
  <1> QED
    BY <1>1, <1>2

(* From whatever state: a status that breaks into a message drops it. *)
LEMMA StatusBegins ==
    ASSUME NEW p, WellFormed(p), NEW b \in Octet, NEW ign \in BOOLEAN,
           IsStatus(b), ~IsRealTime(b), b # TuneRequest,
           ~(/\ p.m_State = "SysExByte" /\ b = SysExEnd
             /\ p.m_nMessageLength < SysExBufferSize)
    PROVE  ParseByte(p, b, ign).calls = <<>> /\ Began(ParseByte(p, b, ign).p, b)
  <1>1. p \in Parser /\ p.m_State \in {"StatusByte", "DataByte", "SysExByte"}
        /\ p.m_nMessageLength \in 0..SysExBufferSize /\ SysExBufferSize \in Nat
    BY ParserAssumption DEF WellFormed, Parser
  <1>2. CASE p.m_State = "StatusByte"
    BY <1>1, <1>2, StatusTakenBetween DEF ParseByte
  <1> DEFINE q == ResetState(p, TRUE)
  <1>3. q \in Parser /\ WellFormed(q) /\ q.m_State = "StatusByte"
    BY <1>1, ResetFields DEF WellFormed
  <1>4. CASE p.m_State = "DataByte"
    <2>1. ParseByte(p, b, ign) = ParseStatusByte(q, b)
      BY <1>4 DEF ParseByte, ParseDataByte
    <2> HIDE DEF q
    <2> QED BY <1>3, <2>1, StatusTakenBetween
  <1>5. CASE p.m_State = "SysExByte"
    <2>1. ParseByte(p, b, ign) = ParseSysExByte(p, b)
      BY <1>5 DEF ParseByte
    <2>2. b = SysExEnd => p.m_nMessageLength = SysExBufferSize
      BY <1>1, <1>5
    <2>3. ParseSysExByte(p, b) = ParseStatusByte(q, b)
      BY <2>2 DEF ParseSysExByte
    <2> HIDE DEF q
    <2> QED BY <1>3, <2>1, <2>3, StatusTakenBetween
  <1> QED BY <1>1, <1>2, <1>4, <1>5

(* SysEx: another data byte, the last one, one too many. *)
LEMMA SysExGrows ==
    ASSUME NEW p, WellFormed(p), NEW b \in Octet, NEW ign \in BOOLEAN, ~IsStatus(b),
           p.m_State = "SysExByte", p.m_nMessageLength < SysExBufferSize
    PROVE  LET r == ParseByte(p, b, ign)
               n == p.m_nMessageLength
           IN  /\ r.calls = <<>> /\ Within(r.p, "SysExByte", n + 1)
               /\ r.p.m_MessageBuffer[n] = b
               /\ \A j \in 0..n-1 : r.p.m_MessageBuffer[j] = p.m_MessageBuffer[j]
  <1>1. p \in Parser /\ p.m_nMessageLength \in Nat
    BY DEF WellFormed, Parser
  <1>2. b # SysExEnd /\ ~IsRealTime(b)
    BY DEF IsStatus, SysExEnd, IsRealTime, Octet
  <1> DEFINE q == Push(p, b)
             n == p.m_nMessageLength
  <1>3. ParseByte(p, b, ign) = Result(q, <<>>)
    <2>1. p.m_nMessageLength # SysExBufferSize
      BY <1>1, ParserAssumption
    <2> QED BY <1>2, <2>1 DEF ParseByte, ParseSysExByte
  <1>4. /\ Within(q, "SysExByte", n + 1)
        /\ q.m_MessageBuffer[n] = b
        /\ \A j \in BufferSlot \ {n} : q.m_MessageBuffer[j] = p.m_MessageBuffer[j]
    BY <1>1, PushFields DEF Within
  <1>5. \A j \in 0..n-1 : j \in BufferSlot \ {n}
    BY <1>1, ParserAssumption DEF BufferSlot
  <1> HIDE DEF q
  <1> QED BY <1>3, <1>4, <1>5 DEF Result

LEMMA SysExCompletes ==
    ASSUME NEW p, WellFormed(p), NEW ign \in BOOLEAN,
           p.m_State = "SysExByte", p.m_nMessageLength < SysExBufferSize
    PROVE  LET r == ParseByte(p, SysExEnd, ign)
               n == p.m_nMessageLength
           IN  /\ Between(r.p, 0)
               /\ \E msg \in [1..n+1 -> Octet] :
                     /\ r.calls = <<SysEx(msg)>> /\ msg[n+1] = SysExEnd
                     /\ \A i \in 1..n : msg[i] = p.m_MessageBuffer[i-1]
  <1> DEFINE q == Push(p, SysExEnd)
             n == p.m_nMessageLength
             msg == Bytes(q, n + 1)
             r == ParseByte(p, SysExEnd, ign)
  <1>1. p \in Parser /\ n \in Nat /\ n + 1 \in 1..SysExBufferSize /\ SysExEnd \in Octet
    BY ParserAssumption DEF WellFormed, Parser, Octet, SysExEnd
  <1>2. /\ q \in Parser /\ q.m_nMessageLength = n + 1
        /\ q.m_MessageBuffer[n] = SysExEnd
        /\ \A j \in BufferSlot \ {n} : q.m_MessageBuffer[j] = p.m_MessageBuffer[j]
    BY <1>1, PushFields
  <1>3. ParseByte(p, SysExEnd, ign) = Result(ResetState(q, TRUE), <<SysEx(msg)>>)
    <2>1. IsStatus(SysExEnd) /\ ~IsRealTime(SysExEnd)
      BY DEF IsStatus, IsRealTime, SysExEnd
    <2>2. p.m_nMessageLength # SysExBufferSize
      BY <1>1
    <2> QED BY <1>2, <2>1, <2>2 DEF ParseByte, ParseSysExByte
  <1> HIDE DEF q
  <1>4. msg \in [1..n+1 -> Octet] /\ \A i \in 1..n+1 : msg[i] = q.m_MessageBuffer[i-1]
    BY <1>1, <1>2, BytesType
  <1>5. msg[n+1] = SysExEnd
    BY <1>1, <1>2, <1>4
  <1>6. \A i \in 1..n : msg[i] = p.m_MessageBuffer[i-1]
    <2>1. \A i \in 1..n : i - 1 \in BufferSlot \ {n} /\ i \in 1..n+1
      BY <1>1, ParserAssumption DEF BufferSlot
    <2> QED BY <1>2, <1>4, <2>1
  <1>7. Between(ResetState(q, TRUE), 0)
    <2>1. 0 \in BufferSlot /\ 0 \in Octet
      BY ParserAssumption DEF BufferSlot, Octet
    <2>2. Store(q, 0, 0)[0] = 0
      BY <1>2, <2>1, StoreType
    <2> QED BY <1>2, <2>2 DEF ResetState, Between, Parser
  <1> HIDE DEF msg
  <1>8. r.p = ResetState(q, TRUE) /\ r.calls = <<SysEx(msg)>>
    BY <1>3 DEF Result
  <1> QED BY <1>4, <1>5, <1>6, <1>7, <1>8

LEMMA SysExOverflows ==
    ASSUME NEW p, WellFormed(p), NEW b \in Octet, NEW ign \in BOOLEAN, ~IsStatus(b),
           p.m_State = "SysExByte", p.m_nMessageLength = SysExBufferSize
    PROVE  ParseByte(p, b, ign).calls = <<>> /\ Between(ParseByte(p, b, ign).p, 0)
  <1> DEFINE q == ResetState(p, TRUE)
  <1>1. p \in Parser
    BY DEF WellFormed
  <1>2. 0 \in BufferSlot /\ 0 \in Octet
    BY ParserAssumption DEF BufferSlot, Octet
  <1>3. Between(q, 0)
    <2>1. Store(p, 0, 0)[0] = 0
      BY <1>1, <1>2, StoreType
    <2> QED BY <1>1, <2>1 DEF ResetState, Between, Parser
  <1>4. ParseByte(p, b, ign) = ParseStatusByte(q, b)
    <2>1. ~IsRealTime(b)
      BY DEF IsStatus, IsRealTime, Octet
    <2> QED BY <2>1 DEF ParseByte, ParseSysExByte
  <1> HIDE DEF q
  <1>5. ParseStatusByte(q, b) = Result(q, <<>>)
    BY <1>3 DEF ParseStatusByte, ParseRunning, Between
  <1> QED BY <1>3, <1>4, <1>5 DEF Result

(* Data between messages: stray, or the first of a message that runs on. *)
LEMMA DataStrays ==
    ASSUME NEW p, NEW b \in Octet, NEW ign \in BOOLEAN, ~IsStatus(b), Between(p, 0)
    PROVE  ParseByte(p, b, ign).calls = <<>> /\ ParseByte(p, b, ign).p = p
  <1>1. ~IsRealTime(b)
    BY DEF IsStatus, IsRealTime, Octet
  <1>2. ParseByte(p, b, ign) = Result(p, <<>>)
    BY <1>1 DEF ParseByte, ParseStatusByte, ParseRunning, Between
  <1> QED BY <1>2 DEF Result

(* A finished message, and what may run on. *)
RunOn(st) == IF st < SysExStart THEN st ELSE 0

Delivers(r, q, n, st, ign) ==
    /\ Between(r.p, RunOn(st))
    /\ \E msg \in [1..n -> Octet] :
          /\ r.calls = IF IsNoteOn(st) /\ ign THEN <<>> ELSE <<Short(msg)>>
          /\ \A i \in 1..n : msg[i] = q.m_MessageBuffer[i-1]

LEMMA CheckDelivers ==
    ASSUME NEW q \in Parser, NEW ign \in BOOLEAN, Complete(q), NEW n, NEW st,
           n = q.m_nMessageLength, st = q.m_MessageBuffer[0], st \in 128..243 \ {SysExStart}
    PROVE  Delivers(CheckCompleteShortMessage(q, ign), q, n, st, ign)
  <1> DEFINE msg == Bytes(q, n)
             clear == st >= 241 /\ st <= 247
             r == CheckCompleteShortMessage(q, ign)
  <1>1. n \in 1..SysExBufferSize
    BY ParserAssumption DEF Complete, Parser
  <1>2. msg \in [1..n -> Octet] /\ \A i \in 1..n : msg[i] = q.m_MessageBuffer[i-1]
    BY <1>1, BytesType
  <1>3. /\ r.p = ResetState(q, clear)
        /\ r.calls = IF IsNoteOn(st) /\ ign THEN <<>> ELSE <<Short(msg)>>
    BY DEF CheckCompleteShortMessage, Result
  <1>4. Between(ResetState(q, clear), RunOn(st))
    <2>1. 0 \in BufferSlot /\ 0 \in Octet
      BY ParserAssumption DEF BufferSlot, Octet
    <2>2. Store(q, 0, 0)[0] = 0
      BY <2>1, StoreType
    <2>3. clear <=> ~(st < SysExStart)
      BY DEF SysExStart
    <2>4. CASE clear
      BY <2>2, <2>3, <2>4 DEF ResetState, Between, Parser, RunOn
    <2>5. CASE ~clear
      BY <2>3, <2>5 DEF ResetState, Between, Parser, RunOn
    <2> QED BY <2>4, <2>5
  <1> HIDE DEF msg, r
  <1>5. Delivers(r, q, n, st, ign)
    BY <1>2, <1>3, <1>4 DEF Delivers
  <1> QED BY <1>5 DEF r

(* Data in the middle of a short message, the last or not. *)
Completes(r, p, b, ign) ==
    LET n  == p.m_nMessageLength
        st == p.m_MessageBuffer[0]
    IN  /\ Between(r.p, RunOn(st))
        /\ \E msg \in [1..n+1 -> Octet] :
              /\ r.calls = IF IsNoteOn(st) /\ ign THEN <<>> ELSE <<Short(msg)>>
              /\ msg[n+1] = b /\ \A i \in 1..n : msg[i] = p.m_MessageBuffer[i-1]

LEMMA DataCompletes ==
    ASSUME NEW p, WellFormed(p), NEW b \in Octet, NEW ign \in BOOLEAN, ~IsStatus(b),
           p.m_State = "DataByte",
           p.m_nMessageLength = 2 \/ OneDataByte(p.m_MessageBuffer[0])
    PROVE  Completes(ParseByte(p, b, ign), p, b, ign)
  <1> DEFINE q == Push(p, b)
             n == p.m_nMessageLength
             st == p.m_MessageBuffer[0]
  <1>1. p \in Parser /\ n \in 1..2 /\ n < SysExBufferSize /\ st \in 128..243 \ {SysExStart}
        /\ (n = 2 => ~OneDataByte(st))
    BY ParserAssumption DEF WellFormed, LengthMatches
  <1>2. /\ q \in Parser /\ q.m_nMessageLength = n + 1
        /\ q.m_MessageBuffer[n] = b
        /\ \A j \in BufferSlot \ {n} : q.m_MessageBuffer[j] = p.m_MessageBuffer[j]
    BY <1>1, PushFields
  <1>3. ParseByte(p, b, ign) = CheckCompleteShortMessage(q, ign)
    <2>1. ~IsRealTime(b)
      BY DEF IsStatus, IsRealTime, Octet
    <2> QED BY <2>1 DEF ParseByte, ParseDataByte
  <1> HIDE DEF q
  <1>4. \A i \in 1..n : i - 1 \in BufferSlot \ {n}
    BY <1>1, ParserAssumption DEF BufferSlot
  <1>5. q.m_MessageBuffer[0] = st
    BY <1>1, <1>2, <1>4
  <1>6. Complete(q)
    BY <1>1, <1>2, <1>5 DEF Complete
  <1> DEFINE r == CheckCompleteShortMessage(q, ign)
  <1>7. Delivers(r, q, n + 1, st, ign)
    BY <1>1, <1>2, <1>5, <1>6, CheckDelivers
  <1> HIDE DEF r
  <1>8. PICK msg \in [1..n+1 -> Octet] :
              /\ r.calls = IF IsNoteOn(st) /\ ign THEN <<>> ELSE <<Short(msg)>>
              /\ \A i \in 1..n+1 : msg[i] = q.m_MessageBuffer[i-1]
    BY <1>7 DEF Delivers
  <1>9. msg[n+1] = b /\ \A i \in 1..n : msg[i] = p.m_MessageBuffer[i-1]
    <2> HIDE DEF n
    <2>1. n + 1 \in 1..n+1 /\ (n + 1) - 1 = n /\ 1..n \subseteq 1..n+1
      BY <1>1
    <2> QED BY <1>2, <1>4, <1>8, <2>1
  <1>10. /\ Between(r.p, RunOn(st))
         /\ \E m \in [1..n+1 -> Octet] :
               /\ r.calls = IF IsNoteOn(st) /\ ign THEN <<>> ELSE <<Short(m)>>
               /\ m[n+1] = b /\ \A i \in 1..n : m[i] = p.m_MessageBuffer[i-1]
    BY <1>7, <1>8, <1>9 DEF Delivers
  <1>11. ParseByte(p, b, ign) = r
    BY <1>3 DEF r
  <1> QED BY <1>10, <1>11 DEF Completes

LEMMA DataWaits ==
    ASSUME NEW p, WellFormed(p), NEW b \in Octet, NEW ign \in BOOLEAN, ~IsStatus(b),
           p.m_State = "DataByte", p.m_nMessageLength = 1, ~OneDataByte(p.m_MessageBuffer[0])
    PROVE  LET r == ParseByte(p, b, ign)
           IN  /\ r.calls = <<>> /\ Within(r.p, "DataByte", 2)
               /\ r.p.m_MessageBuffer[0] = p.m_MessageBuffer[0]
               /\ r.p.m_MessageBuffer[1] = b
  <1> DEFINE q == Push(p, b)
  <1>1. p \in Parser /\ 1 < SysExBufferSize /\ 0 \in BufferSlot \ {1}
    BY ParserAssumption DEF WellFormed, BufferSlot
  <1>2. /\ Within(q, "DataByte", 2)
        /\ q.m_MessageBuffer[1] = b /\ q.m_MessageBuffer[0] = p.m_MessageBuffer[0]
    BY <1>1, PushFields DEF Within
  <1>3. ParseByte(p, b, ign) = CheckCompleteShortMessage(q, ign)
    <2>1. ~IsRealTime(b)
      BY DEF IsStatus, IsRealTime, Octet
    <2> QED BY <2>1 DEF ParseByte, ParseDataByte
  <1> HIDE DEF q
  <1>4. CheckCompleteShortMessage(q, ign) = Result(q, <<>>)
    BY <1>2 DEF CheckCompleteShortMessage, Complete, Within
  <1> QED BY <1>2, <1>3, <1>4 DEF Result

RunsOnAtOnce(r, st, b) ==
    /\ Between(r.p, st)
    /\ \E msg \in [1..2 -> Octet] : r.calls = <<Short(msg)>> /\ msg[1] = st /\ msg[2] = b

RunsOnLater(r, st, b) ==
    /\ r.calls = <<>> /\ Within(r.p, "DataByte", 2)
    /\ r.p.m_MessageBuffer[0] = st /\ r.p.m_MessageBuffer[1] = b

LEMMA RunningData ==
    ASSUME NEW p, WellFormed(p), NEW b \in Octet, NEW ign \in BOOLEAN, ~IsStatus(b),
           NEW st \in 128..239, Between(p, st)
    PROVE  /\ OneDataByte(st) => RunsOnAtOnce(ParseByte(p, b, ign), st, b)
           /\ ~OneDataByte(st) => RunsOnLater(ParseByte(p, b, ign), st, b)
  <1> DEFINE buffer == Store(p, 1, b)
             two == [p EXCEPT !.m_MessageBuffer = buffer, !.m_nMessageLength = 2]
             one == [two EXCEPT !.m_State = "DataByte"]
             r == ParseByte(p, b, ign)
  <1>1. p \in Parser /\ 1 \in BufferSlot /\ 0 \in BufferSlot \ {1} /\ 2 \in 0..SysExBufferSize
    BY ParserAssumption DEF WellFormed, BufferSlot
  <1>2. buffer \in [BufferSlot -> Octet] /\ buffer[0] = st /\ buffer[1] = b
    <2>1. /\ buffer \in [BufferSlot -> Octet] /\ buffer[1] = b
          /\ \A j \in BufferSlot \ {1} : buffer[j] = p.m_MessageBuffer[j]
      BY <1>1, StoreType
    <2> HIDE DEF buffer
    <2> QED BY <1>1, <2>1 DEF Between
  <1>3. r = IF Complete(two) THEN CheckCompleteShortMessage(two, FALSE) ELSE Result(one, <<>>)
    <2>1. ~IsRealTime(b)
      BY DEF IsStatus, IsRealTime, Octet
    <2>2. r = ParseRunning(p, b)
      BY <2>1 DEF ParseByte, ParseStatusByte, Between
    <2>3. p.m_MessageBuffer[0] # 0
      BY DEF Between
    <2>4. ParseRunning(p, b) = IF Complete(two) THEN CheckCompleteShortMessage(two, FALSE)
                               ELSE Result(one, <<>>)
      BY <2>3 DEF ParseRunning
    <2> QED BY <2>2, <2>4
  <1> HIDE DEF buffer
  <1>4. two \in Parser /\ two.m_nMessageLength = 2 /\ two.m_MessageBuffer = buffer
    BY <1>1, <1>2 DEF Parser
  <1> HIDE DEF two, r
  <1>5. Complete(two) <=> OneDataByte(st)
    BY <1>2, <1>4 DEF Complete
  <1>6. CASE OneDataByte(st)
    <2>1. st \in 128..243 \ {SysExStart} /\ FALSE \in BOOLEAN /\ st < SysExStart
      BY DEF SysExStart
    <2>2. Complete(two) /\ two.m_MessageBuffer[0] = st
      BY <1>2, <1>4, <1>5, <1>6
    <2>2a. Delivers(CheckCompleteShortMessage(two, FALSE), two, 2, st, FALSE)
      BY <1>4, <2>1, <2>2, CheckDelivers
    <2>2b. /\ Between(r.p, RunOn(st))
           /\ \E msg \in [1..2 -> Octet] :
                /\ r.calls = <<Short(msg)>>
                /\ \A i \in 1..2 : msg[i] = two.m_MessageBuffer[i-1]
      BY <1>3, <2>2, <2>2a DEF Delivers
    <2>3. \A msg : (\A i \in 1..2 : msg[i] = two.m_MessageBuffer[i-1])
                      => msg[1] = st /\ msg[2] = b
      BY <1>2, <1>4
    <2> QED BY <1>6, <2>1, <2>2b, <2>3 DEF RunOn, RunsOnAtOnce, r
  <1>7. CASE ~OneDataByte(st)
    <2>1. r = Result(one, <<>>)
      BY <1>3, <1>5, <1>7
    <2>2. Within(one, "DataByte", 2) /\ one.m_MessageBuffer = buffer
      BY <1>4 DEF Parser, Within
    <2> HIDE DEF one
    <2> QED BY <1>2, <1>7, <2>1, <2>2 DEF Result, RunsOnLater, r
  <1> QED BY <1>6, <1>7

(* A System Real-Time byte passes by. *)
LEMMA RealTimePasses ==
    ASSUME NEW p, NEW b \in Octet, NEW ign \in BOOLEAN, IsRealTime(b)
    PROVE  /\ ParseByte(p, b, ign).p = p
           /\ ParseByte(p, b, ign).calls = IF b \in {249, 253} THEN <<>> ELSE <<Short(<<b>>)>>
  BY DEF ParseByte, Result

================================================================================
