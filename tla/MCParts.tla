-------------------------------- MODULE MCParts --------------------------------
(***************************************************************************)
(* The parts of mt32-pi that keep their state to themselves, side by side: *)
(* the ring buffer, the shared buffer, the zone allocator, the parser fed  *)
(* with single bytes, the parser fed with RTP-MIDI packets, the buttons    *)
(* and the rotary encoder.  They share no state, so every behaviour        *)
(* exercises one of them and leaves the others as they were initialised.   *)
(***************************************************************************)
EXTENDS RingBuffer, SharedBuffer, ZoneAllocator, MidiStream, MCRtpPackets, Buttons, RotaryEncoder

CONSTANTS item1, item2   \* what the ring buffer carries

VARIABLE part

MCBatch == {<<item1, item2>>, <<item2, item1, item1, item2>>}

controlVars == <<buttonVars, encoderVars>>

NoPacket == /\ packet = Section(FALSE, <<>>) /\ list = <<>> /\ pData = <<>>
            /\ nMIDICommandsProcessed = 0 /\ nRunningStatus = 0 /\ heard = <<>>

PartsInit ==
    /\ part \in {"ring", "shared", "zone", "stream", "rtp", "buttons", "encoder"}
    /\ Init /\ SharedInit /\ ZoneInit /\ ButtonsInit /\ EncoderInit
    /\ history = <<>>
    /\ IF part = "rtp" THEN RtpInit ELSE ParserInit /\ NoPacket

RingStep   == part = "ring" /\ Next
              /\ UNCHANGED <<part, history, sharedVars, zoneVars, parserVars, packetVars, controlVars>>
SharedStep == part = "shared" /\ SharedNext
              /\ UNCHANGED <<part, history, vars, zoneVars, parserVars, packetVars, controlVars>>
ZoneStep   == part = "zone" /\ ZoneNext
              /\ UNCHANGED <<part, history, vars, sharedVars, parserVars, packetVars, controlVars>>
StreamStep == part = "stream" /\ StreamNext
              /\ UNCHANGED <<part, vars, sharedVars, zoneVars, packetVars, controlVars>>
RtpStep    == part = "rtp" /\ RtpNext
              /\ UNCHANGED <<part, history, vars, sharedVars, zoneVars, controlVars>>

ButtonStep == part = "buttons" /\ ButtonsNext
              /\ UNCHANGED <<part, history, vars, sharedVars, zoneVars, parserVars, packetVars,
                             encoderVars>>
KnobStep   == part = "encoder" /\ EncoderNext
              /\ UNCHANGED <<part, history, vars, sharedVars, zoneVars, parserVars, packetVars,
                             buttonVars>>

PartsNext == RingStep \/ SharedStep \/ ZoneStep \/ StreamStep \/ RtpStep
             \/ ButtonStep \/ KnobStep

PartsSpec ==
    PartsInit /\ [][PartsNext]_<<part, history, vars, sharedVars, zoneVars, parserVars, packetVars,
                                 controlVars>>
================================================================================
