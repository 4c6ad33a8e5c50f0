------------------------------ MODULE MidiStream -------------------------------
(***************************************************************************)
(* What a stream of MIDI bytes means, read as a whole and not byte by      *)
(* byte: the definition the parser (midiparser.cpp) is held against.  The  *)
(* bytes are kept as they come, but for Real-Time ones, which stand for    *)
(* themselves and leave the message they come in alone; after every byte   *)
(* the handlers called must be those that the whole stream calls for.      *)
(***************************************************************************)
EXTENDS MidiParser, FiniteSetsExt

CONSTANT MaxBytes   \* bound: length of the histories

VARIABLE history

streamVars == <<parserVars, history>>

StreamInit == ParserInit /\ history = <<>>

Receive(b, ign) ==
    /\ Len(history) < MaxBytes
    /\ Parse(b, ign)
    /\ history' = IF IsRealTime(b) THEN history ELSE Append(history, b)

(* On to the next history. *)
Restarts ==
    /\ Len(history) = MaxBytes
    /\ parser' = EmptyParser /\ calls' = <<>> /\ last' = <<>> /\ history' = <<>>

StreamNext == (\E b \in Byte, ign \in BOOLEAN : Receive(b, ign)) \/ Restarts

StreamSpec == StreamInit /\ [][StreamNext]_streamVars

--------------------------------------------------------------------------------
(* Position of the last status byte of s up to i, 0 if there is none. *)
StatusBefore(s, i) == Max({j \in 1..i : IsStatus(s[j])} \cup {0})

DataBytes(st) == IF OneDataByte(st) THEN 1 ELSE 2

(* The short message whose last byte is the last of s, if there is one: the  *)
(* data bytes since the status fill a whole number of messages, and exactly  *)
(* one if the status is a System Common one, which does not run on.          *)
ShortMessages(s, ign) ==
    LET n  == Len(s)
        j  == StatusBefore(s, n)
        st == s[j]
        d  == DataBytes(st)
    IN  IF \/ j = 0 \/ n = j
           \/ st \in {SysExStart, 244, 245, TuneRequest, SysExEnd}
           \/ (n - j) % d # 0
           \/ st > SysExStart /\ n - j # d
           \/ ign /\ IsNoteOn(st)
        THEN <<>>
        ELSE <<Short(<<st>> \o SubSeq(s, n - d + 1, n))>>

(* The SysEx message that the last byte of s ends: EOX, with nothing but     *)
(* data since F0, no longer in all than the buffer.                          *)
SysExMessages(s) ==
    LET n == Len(s)
        j == StatusBefore(s, n - 1)
    IN  IF n > 1 /\ s[n] = SysExEnd /\ j # 0 /\ s[j] = SysExStart
           /\ n - j + 1 <= SysExBufferSize
        THEN <<SysEx(SubSeq(s, j, n))>> ELSE <<>>

(* What the byte b calls for at the end of the stream s. *)
Expected(s, b, ign) ==
    CASE IsRealTime(b) -> IF b \in {249, 253} THEN <<>> ELSE <<Short(<<b>>)>>
      [] b = TuneRequest -> <<Short(<<b>>)>>
      [] IsStatus(b) /\ ~IsRealTime(b) /\ b # TuneRequest -> SysExMessages(s)
      [] ~IsStatus(b) -> ShortMessages(s, ign)

(* After any bytes whatever - truncated messages, stray data, SysEx that is  *)
(* interrupted or too long, Real-Time bytes anywhere - the parser calls the  *)
(* handlers that reading the whole stream calls for, no more and no fewer.   *)
DecodesTheStream ==
    calls = IF last = <<>> THEN <<>> ELSE Expected(history, last[1], last[2])
================================================================================
