----------------------------- MODULE MCRtpPackets ------------------------------
(***************************************************************************)
(* Command sections of up to three messages, behind delta times of one     *)
(* byte and then of two, the status byte left out wherever it may be, and  *)
(* the states in which other inputs leave the parser.                      *)
(***************************************************************************)
EXTENDS RtpMidi, SequencesExt

NoteOn   == <<144, 60, 64>>
NoteOff  == <<144, 60, 0>>
Program  == <<193, 5>>
Clock    == <<248>>
TimeCode == <<241, 16>>
WholeOf  == <<240, 1, 2, 247>>
FirstOf  == <<240, 1, 240>>
MiddleOf == <<247, 2, 240>>
LastOf   == <<247, 3, 247>>

Sent == {NoteOn, NoteOff, Program, Clock, TimeCode, WholeOf, FirstOf, MiddleOf, LastOf}

Gap(z, ms, i) == CASE i = 1 -> IF z THEN <<5>> ELSE <<>>
                   [] i > 1 /\ i <= Len(ms) -> <<129, 5>>
                   [] i > 1 /\ i > Len(ms) -> IF Last(ms) = Clock THEN <<128, 1>> ELSE <<>>

(* With three messages the first goes without a delta time; one packet has a *)
(* delta time and nothing else.                                              *)
Section(z, ms) ==
    LET n == Len(ms)
        gap  == [i \in 1..n+1 |-> Gap(z, ms, i)]
        sent == [i \in 1..n |-> gap[i] \o IF RunsOn(ms, i) THEN Tail(ms[i]) ELSE ms[i]]
    IN  [Z |-> z, msgs |-> ms, gap |-> gap,
         rest  |-> [i \in 1..n+1 |-> FlattenSeq(SubSeq(sent, i, n)) \o gap[n+1]],
         hears |-> [i \in 1..n+1 |-> FlattenSeq([k \in 1..i-1 |-> Hears(ms, k)])]]

Messages(n, S) == {ms \in [1..n -> S] : InSequence(ms)}

MCSections == {Section(z, ms) : z \in BOOLEAN, ms \in Messages(1, Sent) \cup Messages(2, Sent)}
                \cup {Section(FALSE, ms) : ms \in Messages(3, Sent \ {NoteOff, WholeOf, Program})}
                \cup {Section(TRUE, <<>>)}

(* Nothing, a note short of one byte, a status byte, the beginning of a      *)
(* SysEx, a whole message.                                                   *)
MCLeftovers ==
    {FoldLeft(LAMBDA p, b : ParseByte(p, b, FALSE).p, EmptyParser, s) :
        s \in {<<>>, <<144, 60>>, <<192>>, <<240, 125>>, <<176, 7, 90>>}}
================================================================================
