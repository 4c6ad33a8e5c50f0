-------------------------------- MODULE RtpMidi --------------------------------
(***************************************************************************)
(* The MIDI command section of an RTP-MIDI packet (net/applemidi.cpp):     *)
(* ParseMIDICommandSection walks the list of delta times and commands and  *)
(* hands each command to OnAppleMIDIDataReceived, that is to the parser    *)
(* every other input of mt32-pi uses too.  One step is one turn of its     *)
(* loop, or one of the loop of ParseMIDIBytes.                             *)
(***************************************************************************)
EXTENDS RtpPackets

CONSTANTS Sections,  \* command sections
          Leftovers, \* states another input may leave the parser in
          Stale      \* a byte that lies behind the list in the packet buffer

ASSUME RtpAssumption == /\ \A s \in Sections : WellWritten(s)
                        /\ \A p \in Leftovers : WellFormed(p)

VARIABLES packet,          \* the section received last (m_MIDIBuffer)
          list,            \* what pMIDICommands and nMIDICommandLength delimit
          pData,           \* what ParseMIDIBytes has still to parse of a command
          nMIDICommandsProcessed,
          nRunningStatus,
          heard            \* the handlers the parser has called for this packet

packetVars == <<packet, list, pData, nMIDICommandsProcessed, nRunningStatus, heard>>
rtpVars == <<parserVars, packetVars>>

(* ParseMIDIDeltaTime: up to the first byte without the upper bit, at most 4. *)
DeltaTime(s) ==
    LET ends == {i \in DOMAIN s : i <= 4 /\ ~IsStatus(s[i])}
    IN  IF ends = {} THEN 4 ELSE CHOOSE i \in ends : \A j \in ends : i <= j

(* A command: the bytes the handler is given, and how many were parsed. *)
Command(data, parsed) == [data |-> data, parsed |-> parsed]

IsSegmentEnd(b) == b \in {240, 244, SysExEnd}

SysExCommand_KeepsF0(s) ==   \* mutant
    LET ends == {i \in 2..Len(s) : IsSegmentEnd(s[i])}
        n    == IF ends = {} THEN Len(s) ELSE CHOOSE i \in ends : \A j \in ends : i <= j
        tail == IF ends = {} THEN 0 ELSE s[n]
    IN  CASE s[1] = SysExStart /\ tail = SysExStart -> Command(SubSeq(s, 1, n), n)
          [] s[1] = SysExEnd /\ tail = SysExStart   -> Command(SubSeq(Append(s, Stale), 2, n + 1), n - 2)
          [] s[1] = SysExEnd /\ tail = SysExEnd     -> Command(SubSeq(s, 2, n), n)
          [] s[1] = SysExEnd /\ tail = 244          -> Command(SubSeq(s, 1, 1), n)
          [] OTHER                                  -> Command(SubSeq(s, 1, n), n)
(* ParseSysExCommand.  A SysEx message may come in segments: F0 ... F0,      *)
(* F7 ... F0, F7 ... F7, or be given up with F7 F4.                          *)
SysExCommand(s) ==
    LET ends == {i \in 2..Len(s) : IsSegmentEnd(s[i])}
        n    == IF ends = {} THEN Len(s) ELSE CHOOSE i \in ends : \A j \in ends : i <= j
        tail == IF ends = {} THEN 0 ELSE s[n]
    IN  CASE s[1] = SysExStart /\ tail = SysExStart -> Command(SubSeq(s, 1, n - 1), n)
          [] s[1] = SysExEnd /\ tail = SysExStart   -> Command(SubSeq(Append(s, Stale), 2, n + 1), n - 2)
          [] s[1] = SysExEnd /\ tail = SysExEnd     -> Command(SubSeq(s, 2, n), n)
          [] s[1] = SysExEnd /\ tail = 244          -> Command(SubSeq(s, 1, 1), n)
          [] OTHER                                  -> Command(SubSeq(s, 1, n), n)

DataBytesOf(st) == CASE st < SysExStart /\ OneDataByte(st)  -> 1
                     [] st < SysExStart /\ ~OneDataByte(st) -> 2
                     [] st \in {241, 243}                   -> 1
                     [] st = 242                            -> 2
                     [] OTHER                               -> 0

(* nRunningStatus after a command that begins with b. *)
StatusAfter(st, b) == CASE IsRealTime(b) \/ ~IsStatus(b)       -> st
                        [] IsStatus(b) /\ b < SysExStart       -> b
                        [] b >= SysExStart /\ ~IsRealTime(b)   -> 0

(* ParseMIDICommand *)
CommandAt(s, st) ==
    LET b == s[1]
        n == DataBytesOf(StatusAfter(st, b)) IN
    CASE b \in {249, 253}              -> Command(<<>>, 1)
      [] IsRealTime(b) /\ b \notin {249, 253} -> Command(<<b>>, 1)
      [] ~IsStatus(b) /\ st = 0        -> Command(<<>>, 0)
      [] ~IsStatus(b) /\ st # 0        -> Command(SubSeq(s, 1, n), n)
      [] b \in {SysExStart, SysExEnd}  -> SysExCommand(s)
      [] IsStatus(b) /\ b < SysExStart -> Command(SubSeq(s, 1, n + 1), n + 1)
      [] OTHER -> Command(SubSeq(s, 1, DataBytesOf(b) + 1), DataBytesOf(b) + 1)

RtpInit ==
    /\ parser \in Leftovers /\ calls = <<>> /\ last = <<>>
    /\ packet \in Sections /\ list = packet.rest[1] /\ pData = <<>>
    /\ nMIDICommandsProcessed = 0 /\ nRunningStatus = 0 /\ heard = <<>>

(* One turn of the loop of ParseMIDICommandSection. *)
ParseEntry ==
    LET timed == nMIDICommandsProcessed > 0 \/ packet.Z
        r == IF timed THEN SubSeq(list, DeltaTime(list) + 1, Len(list)) ELSE list
        c == CommandAt(r, nRunningStatus)
    IN  /\ list # <<>> /\ pData = <<>>
        /\ \/ /\ r = <<>>
              /\ list' = <<>>
              /\ UNCHANGED <<pData, nMIDICommandsProcessed, nRunningStatus>>
           \/ /\ r # <<>>
              /\ pData' = c.data
              /\ list' = SubSeq(r, c.parsed + 1, Len(r))
              /\ nRunningStatus' = StatusAfter(nRunningStatus, r[1])
              /\ nMIDICommandsProcessed' = nMIDICommandsProcessed + 1
        /\ UNCHANGED <<parserVars, packet, heard>>

(* One turn of the loop of ParseMIDIBytes. *)
ParseData ==
    LET r == ParseByte(parser, Head(pData), FALSE) IN
    /\ pData # <<>>
    /\ pData' = Tail(pData)
    /\ parser' = r.p
    /\ heard' = heard \o r.calls
    /\ UNCHANGED <<calls, last, packet, list, nMIDICommandsProcessed, nRunningStatus>>

(* The next packet; another input may have used the parser in between. *)
NextPacket ==
    /\ list = <<>> /\ pData = <<>>
    /\ packet' \in Sections /\ list' = packet'.rest[1]
    /\ nMIDICommandsProcessed' = 0 /\ nRunningStatus' = 0 /\ heard' = <<>>
    /\ parser' \in Leftovers \cup {parser}
    /\ UNCHANGED <<calls, last, pData>>

RtpNext == ParseEntry \/ ParseData \/ NextPacket

RtpSpec == RtpInit /\ [][RtpNext]_rtpVars

--------------------------------------------------------------------------------
(* A packet is heard as it was meant - every message, each once, in order,   *)
(* SysEx segments put together again - whatever state another input has left *)
(* the shared parser in.  Middle segments are the exception: the code gives  *)
(* the parser their closing F0 as well, and parses it a second time.         *)
PacketIsHeard ==
    list = <<>> /\ pData = <<>> /\ (\A i \in DOMAIN packet.msgs : ~IsMiddle(packet.msgs[i]))
        => heard = packet.hears[Len(packet.msgs) + 1]
================================================================================
