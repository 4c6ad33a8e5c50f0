------------------------------ MODULE RtpPackets -------------------------------
(***************************************************************************)
(* RTP-MIDI command sections as a sender writes them: messages, each       *)
(* behind its delta time, with the status byte left out where it repeats;  *)
(* a SysEx whole or in segments.  What a section means is read off the     *)
(* messages, never off the bytes.                                          *)
(***************************************************************************)
EXTENDS MidiParser

IsShort(m) ==
    /\ m[1] \in 128..243 \ {SysExStart}
    /\ Len(m) = IF OneDataByte(m[1]) THEN 2 ELSE 3
    /\ \A i \in 2..Len(m) : ~IsStatus(m[i])

RealTime(m) == Len(m) = 1 /\ IsRealTime(m[1]) /\ m[1] \notin {249, 253}

(* A SysEx message or a segment of one.  Segments are F0 ... F0, any number  *)
(* of F7 ... F0 and F7 ... F7.                                               *)
Segment(m, head, tail) ==
    /\ Len(m) >= 2
    /\ m[1] = head /\ m[Len(m)] = tail
    /\ \A i \in 2..Len(m)-1 : ~IsStatus(m[i])

IsWhole(m)  == Segment(m, SysExStart, SysExEnd) /\ Len(m) <= SysExBufferSize
IsFirst(m)  == Segment(m, SysExStart, SysExStart) /\ Len(m) <= SysExBufferSize
IsMiddle(m) == Segment(m, SysExEnd, SysExStart)
IsLast(m)   == Segment(m, SysExEnd, SysExEnd)

(* A message the parser knows, Tune Request excepted. *)
IsMessage(m) ==
    /\ m \in Seq(Octet) /\ m # <<>>
    /\ IsShort(m) \/ RealTime(m) \/ IsWhole(m) \/ IsFirst(m) \/ IsMiddle(m) \/ IsLast(m)

(* Message i is the next one after j, but for Real-Time ones. *)
Follows(ms, j, i) == j < i /\ \A k \in j+1..i-1 : RealTime(ms[k])

(* A segment follows the one before it, and two make up a SysEx that fits.   *)
InSequence(ms) ==
    \A i \in DOMAIN ms : IsMiddle(ms[i]) \/ IsLast(ms[i]) =>
        \E j \in 1..i-1 : /\ Follows(ms, j, i)
                          /\ \/ IsMiddle(ms[j])
                             \/ /\ IsFirst(ms[j])
                                /\ Len(ms[j]) + Len(ms[i]) - 2 <= SysExBufferSize

(* The last message but for Real-Time ones was a channel one of this status. *)
RunsOn(ms, i) ==
    ms[i][1] < SysExStart /\ \E j \in 1..i-1 : Follows(ms, j, i) /\ ms[j][1] = ms[i][1]

(* What is sent of message i. *)
Wire(ms, i) == {ms[i]} \cup (IF RunsOn(ms, i) THEN {Tail(ms[i])} ELSE {})

IsDeltaTime(g) ==
    /\ g \in Seq(Octet) /\ Len(g) \in 1..4
    /\ \A i \in 1..Len(g)-1 : IsStatus(g[i])
    /\ ~IsStatus(g[Len(g)])

(* The handlers message i makes the parser call: that of a SysEx when its    *)
(* last segment is there.                                                    *)
Hears(ms, i) ==
    LET m == ms[i]
        j == CHOOSE k \in 1..i-1 : Follows(ms, k, i) /\ ~RealTime(ms[k])
    IN  CASE IsFirst(m) \/ IsMiddle(m) -> <<>>
          [] IsLast(m) -> <<SysEx(SubSeq(ms[j], 1, Len(ms[j]) - 1) \o Tail(m))>>
          [] IsWhole(m) -> <<SysEx(m)>>
          [] IsShort(m) \/ RealTime(m) -> <<Short(m)>>

(* A section is the Z flag of its header, its messages, the delta times, the *)
(* list from each of the messages on - so rest[1] is the list, of the length *)
(* that the header gives - and the handlers called before each of them.  The *)
(* first message has a delta time if Z is set; the list may end with one.    *)
WellWritten(s) ==
    LET n == Len(s.msgs) IN
    /\ s.Z \in BOOLEAN
    /\ s.msgs \in Seq(Seq(Octet)) /\ \A i \in 1..n : IsMessage(s.msgs[i])
    /\ InSequence(s.msgs)
    /\ s.gap \in [1..n+1 -> Seq(Octet)]
    /\ \A i \in 1..n+1 : IF i = 1 /\ ~s.Z THEN s.gap[i] = <<>>
                         ELSE IsDeltaTime(s.gap[i]) \/ (i = n + 1 /\ s.gap[i] = <<>>)
    /\ s.rest \in [1..n+1 -> Seq(Octet)] /\ s.rest[n+1] = s.gap[n+1]
    /\ \A i \in 1..n : \E w \in Wire(s.msgs, i) : s.rest[i] = s.gap[i] \o w \o s.rest[i+1]
    /\ DOMAIN s.hears = 1..n+1 /\ s.hears[1] = <<>>
    /\ \A i \in 1..n : s.hears[i+1] = s.hears[i] \o Hears(s.msgs, i)
================================================================================
