------------------------------- MODULE MidiInput -------------------------------
(***************************************************************************)
(* From the accordion's keys to the synthesizer: the task on core 3        *)
(* (MIDI library, running status) writes bytes into m_sharedbuffer, the    *)
(* main task on core 0 reads them in chunks (UpdateMIDI), parses them and  *)
(* calls the synth; a SoundFont switch empties the buffers on its way      *)
(* (PurgeMIDIBuffers), from inside the parser when a SysEx asked for it.   *)
(* Interrupt handlers put USB and Pisound bytes into m_MIDIRxBuffer.       *)
(***************************************************************************)
EXTENDS MidiParser, SequencesExt, FiniteSetsExt

CONSTANTS Scripts,      \* what one call of the accordion task sends: message sequences
          Packets,      \* bytes of a USB/Pisound packet
          SharedSize,   \* bytes m_sharedbuffer holds: 4096
          RxBufferSize, \* MIDIRxBufferSize: 2048
          RingSize,     \* bytes m_MIDIRxBuffer holds: 2047
          MaxInputs     \* bound: scripts, packets and SoundFont switches in a behaviour

VARIABLES mRunningStatus_TX,  \* of the MIDI library object of DiatoTask
          outbox,     \* bytes of the script not yet written
          shared,     \* m_sharedbuffer
          ring,       \* m_MIDIRxBuffer
          rx,         \* what is left to parse of UpdateMIDI's Buffer
          reading,    \* UpdateMIDI is inside ReceiveSharedbuffer
          purges,     \* the running PurgeMIDIBuffers, innermost last
          sounding,   \* notes the current synth plays
          held,       \* notes the sender has on
          due,        \* messages sent and not yet heard
          garbled,    \* the synth heard a message that was not the next one due
          dropped,    \* a write found m_sharedbuffer full, or a purge has begun
          inputs      \* counted against MaxInputs

core3 == <<mRunningStatus_TX, outbox, held>>
core0 == <<parser, calls, last, rx, reading, purges, sounding, garbled>>
inputVars == <<core3, core0, shared, ring, due, dropped, inputs>>

MidiInit ==
    /\ ParserInit
    /\ mRunningStatus_TX = 0 /\ outbox = <<>> /\ held = {}
    /\ shared = <<>> /\ ring = <<>> /\ due = <<>> /\ inputs = 0
    /\ rx = <<>> /\ reading = FALSE /\ purges = <<>> /\ sounding = {}
    /\ garbled = FALSE /\ dropped = FALSE

(* Scripts are messages of at least a byte, packets are bytes. *)
ASSUME InputAssumption == /\ Scripts \subseteq Seq(Seq(0..255) \ {<<>>})
                          /\ Packets \subseteq Seq(0..255)
                          /\ RingSize \in Nat

--------------------------------------------------------------------------------
(* Notes on after a message: a Note On of velocity 0 is the accordion's way  *)
(* of saying Note Off (midi_broadcast_note_off).                             *)
NotesAfter(notes, msg) ==
    CASE IsNoteOn(msg[1]) /\ msg[3] > 0 -> notes \cup {msg[2]}
      [] IsNoteOn(msg[1]) /\ msg[3] = 0 -> notes \ {msg[2]}
      [] OTHER -> notes

Encode_ComparesChannels(acc, msg) ==   \* mutant
    IF msg[1] # SysExStart /\ acc.status # 0 /\ msg[1] % 16 = acc.status % 16
    THEN [acc EXCEPT !.bytes = @ \o Tail(msg)]
    ELSE [acc EXCEPT !.status = msg[1], !.bytes = @ \o msg]
(* MidiInterface::send leaves out a status byte equal to the last one.  SysEx *)
(* goes out through a copy of the object (mt32.h takes MIDI by value), so the *)
(* running status it clears is the copy's.                                    *)
Encode(acc, msg) ==
    CASE msg[1] = SysExStart -> [acc EXCEPT !.bytes = @ \o msg]
      [] msg[1] # SysExStart /\ msg[1] = acc.status -> [acc EXCEPT !.bytes = @ \o Tail(msg)]
      [] OTHER -> [acc EXCEPT !.status = msg[1], !.bytes = @ \o msg]

Send(acc, msg) == [Encode(acc, msg) EXCEPT !.notes = NotesAfter(@, msg)]

(* What a script leaves behind: the encoder's status, the bytes it wrote and  *)
(* the notes the sender has on.                                               *)
SendAll(acc, script) ==
    LET upto[i \in 0..Len(script)] ==
            IF i = 0 THEN acc ELSE Send(upto[i-1], script[i])
    IN  upto[Len(script)]

(* Core 3 sends a script: one message, or the few a menu function sends. *)
SendScript(script) ==
    /\ outbox = <<>>
    /\ inputs < MaxInputs
    /\ LET e == SendAll([status |-> mRunningStatus_TX, bytes |-> <<>>, notes |-> held], script)
       IN  mRunningStatus_TX' = e.status /\ outbox' = e.bytes /\ held' = e.notes
    /\ due' = due \o script
    /\ inputs' = inputs + 1
    /\ UNCHANGED <<core0, shared, ring, dropped>>

(* One mSerial.write; the byte is lost when the queue is full. *)
WriteByte ==
    /\ outbox # <<>>
    /\ outbox' = Tail(outbox)
    /\ \/ /\ Len(shared) < SharedSize
          /\ shared' = Append(shared, Head(outbox))
          /\ UNCHANGED dropped
       \/ /\ Len(shared) >= SharedSize
          /\ dropped' = TRUE
          /\ UNCHANGED shared
    /\ UNCHANGED <<core0, ring, due, inputs, mRunningStatus_TX, held>>

(* IRQMIDIReceiveHandler: what does not fit is lost (and logged). *)
IRQMIDIReceiveHandler(packet) ==
    /\ inputs < MaxInputs
    /\ inputs' = inputs + 1
    /\ ring' = SubSeq(ring \o packet, 1, Min({RingSize, Len(ring \o packet)}))
    /\ UNCHANGED <<core3, core0, shared, due, dropped>>

--------------------------------------------------------------------------------
(* A SoundFont switch (F0 7D 02 xx F7) among the handlers a byte called. *)
AsksForSoundFont(hs) ==
    \E i \in DOMAIN hs : /\ hs[i].kind = "sysex" /\ Len(hs[i].msg) = 5
                         /\ hs[i].msg[2] = 125 /\ hs[i].msg[3] = 2

(* Whether what the handlers were given is what was to be heard next. *)
Score(hs) ==
    LET inTurn == due # <<>> /\ Head(due) = hs[1].msg IN
    \/ /\ hs = <<>>
       /\ UNCHANGED <<due, garbled>>
    \/ /\ hs # <<>> /\ inTurn
       /\ due' = Tail(due)
       /\ UNCHANGED garbled
    \/ /\ hs # <<>> /\ ~inTurn
       /\ garbled' = TRUE
       /\ UNCHANGED due

(* OnShortMessage: the current synth plays. *)
SoundsAfter(hs) ==
    IF hs # <<>> /\ hs[1].kind = "short" THEN NotesAfter(sounding, hs[1].msg) ELSE sounding

(* One byte through ParseMIDIBytes.  On a SoundFont switch SwitchSoundFont    *)
(* purges before OnSysExMessage returns, hence before ResetState: the nested  *)
(* parser still stands in the SysEx.  The new SoundFont silences the synth,   *)
(* if that is the current one; a switch that fails purges nothing.            *)
ParseOne(b, ign, outer) ==
    LET r == ParseByte(parser, b, ign) IN
    /\ calls' = r.calls /\ last' = <<b, ign>>
    /\ Score(r.calls)
    /\ \/ /\ parser' = r.p
          /\ purges' = outer
          /\ sounding' = SoundsAfter(r.calls)
          /\ UNCHANGED dropped
       \/ /\ AsksForSoundFont(r.calls)
          /\ parser' = Push(parser, b)
          /\ purges' = Append(outer, [chunk |-> <<>>, inSysEx |-> TRUE])
          /\ sounding' \in {sounding, {}}
          /\ dropped' = TRUE

(* UpdateMIDI: ReceiveSharedbuffer takes bytes one by one - core 3 may write  *)
(* between two reads - until the buffer is empty or Buffer is full.           *)
UpdateMIDIBegin ==
    /\ purges = <<>> /\ rx = <<>> /\ ~reading
    /\ reading' = TRUE
    /\ UNCHANGED <<core3, parser, calls, last, rx, purges, sounding, garbled,
                   shared, ring, due, dropped, inputs>>

ReadByte ==
    /\ purges = <<>> /\ reading
    /\ shared # <<>> /\ Len(rx) < RxBufferSize
    /\ rx' = Append(rx, Head(shared))
    /\ shared' = Tail(shared)
    /\ UNCHANGED <<core3, parser, calls, last, reading, purges, sounding, garbled,
                   ring, due, dropped, inputs>>

ReadEnd_IgnoresBound ==   \* mutant
    /\ purges = <<>> /\ reading
    /\ shared = <<>>
    /\ reading' = FALSE
    /\ UNCHANGED <<core3, parser, calls, last, rx, purges, sounding, garbled,
                   shared, ring, due, dropped, inputs>>
ReadEnd ==
    /\ purges = <<>> /\ reading
    /\ shared = <<>> \/ Len(rx) = RxBufferSize
    /\ reading' = FALSE
    /\ UNCHANGED <<core3, parser, calls, last, rx, purges, sounding, garbled,
                   shared, ring, due, dropped, inputs>>

ParseRx ==
    /\ purges = <<>> /\ ~reading /\ rx # <<>>
    /\ rx' = Tail(rx)
    /\ ParseOne(Head(rx), FALSE, <<>>)
    /\ UNCHANGED <<core3, reading, shared, ring, inputs>>

(* A switch by button or MiSTer: SwitchSoundFont called from MainTask. *)
DeferredSwitch ==
    /\ purges = <<>> /\ rx = <<>> /\ ~reading
    /\ inputs < MaxInputs
    /\ inputs' = inputs + 1
    /\ purges' = <<[chunk |-> <<>>, inSysEx |-> FALSE]>>
    /\ sounding' \in {sounding, {}}
    /\ dropped' = TRUE
    /\ UNCHANGED <<core3, parser, calls, last, rx, reading, garbled,
                   shared, ring, due>>

--------------------------------------------------------------------------------
(* PurgeMIDIBuffers.  nBytes = ReceiveSharedbuffer(...) > 0 makes nBytes 1:   *)
(* of every chunk taken out of the shared buffer the first byte is parsed.    *)
Top == Last(purges)

PurgeRead ==
    /\ purges # <<>>
    /\ shared # <<>> /\ Len(Top.chunk) < RxBufferSize
    /\ purges' = [purges EXCEPT ![Len(purges)].chunk = Append(@, Head(shared))]
    /\ shared' = Tail(shared)
    /\ UNCHANGED <<core3, parser, calls, last, rx, reading, sounding, garbled,
                   ring, due, dropped, inputs>>

PurgeParse_HearsNoteOns ==   \* mutant
    /\ purges # <<>> /\ Top.chunk # <<>>
    /\ shared = <<>> \/ Len(Top.chunk) = RxBufferSize
    /\ ParseOne(Head(Top.chunk), FALSE, [purges EXCEPT ![Len(purges)].chunk = <<>>])
    /\ UNCHANGED <<core3, rx, reading, shared, ring, inputs>>

PurgeParse ==
    /\ purges # <<>> /\ Top.chunk # <<>>
    /\ shared = <<>> \/ Len(Top.chunk) = RxBufferSize
    /\ ParseOne(Head(Top.chunk), TRUE, [purges EXCEPT ![Len(purges)].chunk = <<>>])
    /\ UNCHANGED <<core3, rx, reading, shared, ring, inputs>>

(* The last loop: m_MIDIRxBuffer, drained whole and parsed whole. *)
PurgeRing ==
    /\ purges # <<>> /\ Top.chunk = <<>> /\ shared = <<>>
    /\ ring # <<>>
    /\ ring' = Tail(ring)
    /\ ParseOne(Head(ring), TRUE, purges)
    /\ UNCHANGED <<core3, rx, reading, shared, inputs>>

(* The purge ends; if a SysEx had asked for it, OnSysExMessage returns to     *)
(* ParseMIDIBytes, which resets the parser.                                   *)
PurgeEnd ==
    /\ purges # <<>> /\ Top.chunk = <<>> /\ shared = <<>> /\ ring = <<>>
    /\ purges' = Front(purges)
    /\ parser' = IF Top.inSysEx THEN ResetState(parser, TRUE) ELSE parser
    /\ UNCHANGED <<core3, calls, last, rx, reading, sounding, garbled,
                   shared, ring, due, dropped, inputs>>

Core3Next == (\E s \in Scripts : SendScript(s)) \/ WriteByte
Core0Next == \/ UpdateMIDIBegin \/ ReadByte \/ ReadEnd \/ ParseRx
             \/ PurgeRead \/ PurgeParse \/ PurgeRing \/ PurgeEnd

MidiNext ==
    \/ Core3Next
    \/ Core0Next
    \/ DeferredSwitch
    \/ \E p \in Packets : IRQMIDIReceiveHandler(p)

MidiSpec == MidiInit /\ [][MidiNext]_inputVars

(* Each core runs its own endless loop: core 0 keeps polling and parsing,     *)
(* core 3 finishes a message once it has begun it.                            *)
FairMidiSpec == MidiSpec /\ WF_inputVars(Core0Next) /\ WF_inputVars(WriteByte)

--------------------------------------------------------------------------------
(* Everything sent has been written, read and parsed. *)
Quiescent == outbox = <<>> /\ shared = <<>> /\ rx = <<>> /\ ~reading /\ purges = <<>>

(* Across two encoders of running status and chunks cut anywhere by the race *)
(* of writer and reader, the synth hears the messages that were sent, each   *)
(* once and in order, as long as no write found the buffer full and no       *)
(* purge threw any away.                                                     *)
HeardInOrder == dropped \/ ~garbled

(* When all is parsed, the synth plays the notes the accordion holds down:   *)
(* no note is stuck and none is missing.                                     *)
NotesSettle == Quiescent /\ ~dropped => sounding = held /\ due = <<>>

(* A purge starts no note: "but ignore note-ons" (mt32pi.cpp:1023), even     *)
(* when chunks and messages overlap in the oddest way.                       *)
PurgeStartsNoNote ==
    [][purges # <<>> => sounding' \subseteq sounding]_inputVars

(* What is written into the shared buffer is taken out again, whatever the   *)
(* main task is busy with.                                                   *)
SharedBufferDrains == shared # <<>> ~> shared = <<>>
================================================================================
