------------------------------ MODULE MCMidiInput ------------------------------
(* Scripts of DiatoTask in wire form: a note on and off, a volume change, a  *)
(* menu's program change, the ROM set and SoundFont SysEx.                   *)
EXTENDS MidiInput

NoteOn  == <<144, 60, 100>>
NoteOff == <<144, 60, 0>>

Volume  == <<176, 7, 90>>
Program == <<192, 5>>
RomSet  == <<240, 125, 1, 0, 247>>
SoundFont == <<240, 125, 2, 3, 247>>

PlayScripts == {<<NoteOn>>, <<NoteOff>>, <<Program, Volume>>}
RomScripts  == {<<NoteOn>>, <<NoteOff>>, <<RomSet>>}
PurgePackets == {<<144, 62, 100>>, SoundFont}
NoPackets   == {}
================================================================================
