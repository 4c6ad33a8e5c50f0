------------------------------ MODULE MidiParser -------------------------------
(***************************************************************************)
(* CMIDIParser (midiparser.cpp): the byte-at-a-time MIDI decoder that all  *)
(* of mt32-pi's inputs share.  The parser is a record, so that the models  *)
(* of its users can hold one; ParserSpec feeds it one byte after another.  *)
(***************************************************************************)
EXTENDS Naturals, Sequences

CONSTANTS Byte,             \* the bytes on the wire
          SysExBufferSize   \* sizeof(m_MessageBuffer): 1000

ASSUME ParserAssumption == /\ Byte \subseteq 0..255
                           /\ SysExBufferSize \in Nat
                           /\ SysExBufferSize >= 3

IsStatus(b)   == b >= 128
IsRealTime(b) == b >= 248
IsNoteOn(b)   == b >= 144 /\ b <= 159
SysExStart  == 240
SysExEnd    == 247
TuneRequest == 246

(* Messages of one data byte; all others have two (CheckCompleteShortMessage). *)
OneDataByte(st) == (st >= 192 /\ st <= 223) \/ st \in {241, 243}

BufferSlot == 0..SysExBufferSize-1

Short(msg) == [kind |-> "short", msg |-> msg]
SysEx(msg) == [kind |-> "sysex", msg |-> msg]

EmptyParser == [m_State |-> "StatusByte",
                m_MessageBuffer |-> [i \in BufferSlot |-> 0],
                m_nMessageLength |-> 0]

Store(p, i, b) == [p.m_MessageBuffer EXCEPT ![i] = b]

(* m_MessageBuffer[m_nMessageLength++] = nByte *)
Push(p, b) == [p EXCEPT !.m_MessageBuffer = Store(p, p.m_nMessageLength, b),
                        !.m_nMessageLength = @ + 1]

(* The first n bytes of the message buffer. *)
Bytes(p, n) == [i \in 1..n |-> p.m_MessageBuffer[i-1]]

ResetState(p, clear) ==
    [p EXCEPT !.m_State = "StatusByte",
              !.m_nMessageLength = 0,
              !.m_MessageBuffer = IF clear THEN Store(p, 0, 0) ELSE @]

Complete(p) ==
    \/ p.m_nMessageLength = 3
    \/ p.m_nMessageLength = 2 /\ OneDataByte(p.m_MessageBuffer[0])

(* What a parsing function leaves behind: the parser, and the handlers it     *)
(* called (OnShortMessage, OnSysExMessage), in order.                         *)
Result(p, calls) == [p |-> p, calls |-> calls]

CheckCompleteShortMessage_ForgetsStatus(p, ign) ==   \* mutant
    IF Complete(p)
    THEN Result(ResetState(p, TRUE),
                IF IsNoteOn(p.m_MessageBuffer[0]) /\ ign THEN <<>>
                ELSE <<Short(Bytes(p, p.m_nMessageLength))>>)
    ELSE Result(p, <<>>)
CheckCompleteShortMessage_KeepsCommon(p, ign) ==   \* mutant
    LET st == p.m_MessageBuffer[0] IN
    IF Complete(p) THEN
      Result(ResetState(p, st > 241 /\ st <= 247),
             IF IsNoteOn(st) /\ ign THEN <<>> ELSE <<Short(Bytes(p, p.m_nMessageLength))>>)
    ELSE Result(p, <<>>)
(* CheckCompleteShortMessage: deliver a finished message (a Note On only if   *)
(* it is not to be ignored) and keep the status byte unless System Common.    *)
CheckCompleteShortMessage(p, ign) ==
    LET st == p.m_MessageBuffer[0] IN
    IF Complete(p)
    THEN Result(ResetState(p, st >= 241 /\ st <= 247),
                IF IsNoteOn(st) /\ ign THEN <<>>
                ELSE <<Short(Bytes(p, p.m_nMessageLength))>>)
    ELSE Result(p, <<>>)

(* ParseStatusByte for a byte that is a status. *)
ParseStatus(p, b) ==
    CASE b \in {244, 245, SysExEnd} ->
            Result([p EXCEPT !.m_MessageBuffer = Store(p, 0, 0)], <<>>)
      [] b = SysExStart ->
            Result(Push([p EXCEPT !.m_State = "SysExByte"], b), <<>>)
      [] b = TuneRequest ->
            Result(Push([p EXCEPT !.m_MessageBuffer = Store(p, 0, 0)], b),
                   <<Short(<<b>>)>>)
      [] OTHER ->
            Result(Push([p EXCEPT !.m_State = "DataByte"], b), <<>>)

(* ParseStatusByte for a data byte: running status, if one is stored.  The    *)
(* call of CheckCompleteShortMessage passes no bIgnoreNoteOns.                *)
ParseRunning(p, b) ==
    IF p.m_MessageBuffer[0] = 0 THEN Result(p, <<>>)
    ELSE LET two == [p EXCEPT !.m_MessageBuffer = Store(p, 1, b),
                              !.m_nMessageLength = 2]
         IN  IF Complete(two) THEN CheckCompleteShortMessage(two, FALSE)
             ELSE Result([two EXCEPT !.m_State = "DataByte"], <<>>)

ParseStatusByte(p, b) == IF IsStatus(b) THEN ParseStatus(p, b) ELSE ParseRunning(p, b)

ParseDataByte_NoReset(p, b, ign) ==   \* mutant
    IF IsStatus(b) THEN ParseStatusByte(p, b)
    ELSE CheckCompleteShortMessage(Push(p, b), ign)
(* The byte is no System Real-Time one; SysEx completion calls the handler    *)
(* before the state is reset, which matters to a handler that parses on.      *)
ParseDataByte(p, b, ign) ==
    IF IsStatus(b) THEN ParseStatusByte(ResetState(p, TRUE), b)
    ELSE CheckCompleteShortMessage(Push(p, b), ign)

ParseSysExByte(p, b) ==
    CASE IsStatus(b) /\ b # SysExEnd ->
            ParseStatusByte(ResetState(p, TRUE), b)
      [] (~IsStatus(b) \/ b = SysExEnd) /\ p.m_nMessageLength = SysExBufferSize ->
            ParseStatusByte(ResetState(p, TRUE), b)
      [] b = SysExEnd /\ p.m_nMessageLength # SysExBufferSize ->
            LET full == Push(p, b)
            IN  Result(ResetState(full, TRUE), <<SysEx(Bytes(full, full.m_nMessageLength))>>)
      [] OTHER -> Result(Push(p, b), <<>>)

(* One turn of the loop of ParseMIDIBytes. *)
ParseByte(p, b, ign) ==
    IF IsRealTime(b) THEN Result(p, IF b \in {249, 253} THEN <<>> ELSE <<Short(<<b>>)>>)
    ELSE CASE p.m_State = "StatusByte" -> ParseStatusByte(p, b)
           [] p.m_State = "DataByte"   -> ParseDataByte(p, b, ign)
           [] p.m_State = "SysExByte"  -> ParseSysExByte(p, b)

--------------------------------------------------------------------------------
(* The length says how far into a message the parser is: nothing stored      *)
(* between messages, one or two bytes of a short message with its status in  *)
(* front, at least F0 of a SysEx.  Everything ParseMIDIBytes indexes with    *)
(* m_nMessageLength relies on it; no line of the code states it.             *)
LengthMatches(p) ==
    LET st  == p.m_State
        len == p.m_nMessageLength
        b0  == p.m_MessageBuffer[0]
    IN  /\ st = "StatusByte" => len = 0 /\ (b0 = 0 \/ b0 \in 128..239)
        /\ st = "DataByte"   => /\ len \in 1..2
                                /\ b0 \in 128..243 \ {SysExStart}
                                /\ len = 2 => ~OneDataByte(b0)
        /\ st = "SysExByte"  => len \in 1..SysExBufferSize /\ b0 = SysExStart

Octet == 0..255

Parser == [m_State : {"StatusByte", "DataByte", "SysExByte"},
           m_MessageBuffer : [BufferSlot -> Octet],
           m_nMessageLength : 0..SysExBufferSize]

(* Behind its first byte the message holds data bytes. *)
DataFollows(p) == \A i \in 1..p.m_nMessageLength-1 : ~IsStatus(p.m_MessageBuffer[i])

WellFormed(p) == p \in Parser /\ LengthMatches(p) /\ DataFollows(p)

--------------------------------------------------------------------------------
VARIABLES parser,
          calls,   \* the handlers the last byte made the parser call
          last     \* that byte, with the bIgnoreNoteOns it was parsed under

parserVars == <<parser, calls, last>>

ParserInit == parser = EmptyParser /\ calls = <<>> /\ last = <<>>

Parse(b, ign) ==
    LET r == ParseByte(parser, b, ign) IN
    /\ parser' = r.p
    /\ calls' = r.calls
    /\ last' = <<b, ign>>

ParserNext == \E b \in Byte, ign \in BOOLEAN : Parse(b, ign)

ParserSpec == ParserInit /\ [][ParserNext]_parserVars

--------------------------------------------------------------------------------
(* The parser never loses track of how far into a message it is. *)
LengthMatchesState == LengthMatches(parser)
================================================================================
