-------------------------- MODULE MisterControlProofs --------------------------
(***************************************************************************)
(* For every set of SoundFonts and ROMs, every length of the event queue   *)
(* and every number of changes: only the selected synth sounds, the        *)
(* SoundFont shown is the one that plays, and mt32-pi never takes back     *)
(* from the MiSTer what it has told it itself.                             *)
(***************************************************************************)
EXTENDS MisterControl, FiniteSetTheorems, SequenceTheorems, TLAPS

Synths == {"MT32", "SoundFont"}
Bytes  == 0..(Byte - 1)

ChoiceOK ==
    /\ synths \subseteq Synths /\ m_pCurrentSynth \in Synths
    /\ OnlyCurrentSynthSounds

RomOK == roms \subseteq ROMSets /\ m_CurrentROMSet \in ROMSets \cup {Unknown}

(* One SoundFont at a time is loaded, into a synth that has none yet.         *)
FontOK ==
    /\ Count \in Nat /\ m_nCurrentSoundFontIndex \in Nat
    /\ loading \subseteq Nat
    /\ \A i, j \in loading : i = j
    /\ \A i \in loading : i < Count
    /\ loading # {} => loaded = NoFont /\ "SoundFont" \in synths
    /\ LoadedFontIsReported

Event ==
    [type : {"SwitchSynth"}, value : Synths]
    \cup [type : {"SwitchMT32ROMSet", "SwitchSoundFont"}, value : Bytes]
    \cup [type : {"Button1", "Button2", "AllSoundOff", "DisplayImage"}]

QueueOK ==
    /\ m_EventQueue \in Seq(Event) /\ Len(m_EventQueue) < EventQueueSize
    /\ batch \in Seq(Event)
    /\ deferred \in [flag : BOOLEAN, index : Nat]

SynthInv == ChoiceOK /\ RomOK /\ FontOK /\ QueueOK

(* Whatever core 0 does. *)
Core0Next == UserNext \/ ProcessEvent \/ LoopNext

--------------------------------------------------------------------------------
(* What the switches of synth and ROM set leave true, whatever they are       *)
(* asked for.                                                                 *)
LEMMA SwitchesKeepChoice ==
    ASSUME ChoiceOK, RomOK
    PROVE  /\ \A s : SwitchSynth(s) => ChoiceOK' /\ synths' = synths
           /\ \A r : SwitchMT32ROMSet(r) => ChoiceOK' /\ RomOK' /\ synths' = synths
           /\ NextMT32ROMSet => ChoiceOK' /\ RomOK' /\ synths' = synths
           /\ UNCHANGED choice => ChoiceOK' /\ synths' = synths
           /\ UNCHANGED romVars => RomOK'
  <1> USE DEF ChoiceOK, RomOK, OnlyCurrentSynthSounds, choice, romVars
  <1>1. \A s : SwitchSynth(s) => ChoiceOK' /\ synths' = synths
    BY DEF SwitchSynth, VoicesOf, StoppedBy_AllSoundOff
  <1>2. ASSUME NEW r, SwitchMT32ROMSet(r)
        PROVE  ChoiceOK' /\ RomOK' /\ synths' = synths
    BY <1>2 DEF SwitchMT32ROMSet, VoicesOf, GetROMSet
  <1>3. ASSUME NextMT32ROMSet
        PROVE  ChoiceOK' /\ RomOK' /\ synths' = synths
    <2>1. UNCHANGED <<romVars, choice>> \/ \E r : SwitchMT32ROMSet(r)
      BY <1>3 DEF NextMT32ROMSet
    <2> QED
      BY <2>1, <1>2
  <1>4. UNCHANGED choice => ChoiceOK' /\ synths' = synths
    OBVIOUS
  <1>5. UNCHANGED romVars => RomOK'
    OBVIOUS
  <1> QED
    BY <1>1, <1>2, <1>3, <1>4, <1>5

(* A set that is found is one there is. *)
LEMMA FoundROMSets == \A r, have : GetROMSet(r, have) \subseteq have
  BY DEF GetROMSet

(* Only a disk that is attached makes a synth.                                *)
LEMMA ChoiceStays ==
    ASSUME ChoiceOK, RomOK, Core0Next
    PROVE  ChoiceOK' /\ RomOK' /\ (synths' = synths \/ AttachStick)
  <1> DEFINE Kept == ChoiceOK' /\ RomOK' /\ synths' = synths
  <1> USE SwitchesKeepChoice
  <1>1. ASSUME NEW button, Press(button) PROVE Kept
    BY <1>1 DEF Press
  <1>2. CASE CommandSynth
    BY <1>2 DEF CommandSynth, Command
  <1>3. CASE CommandROMSet
    BY <1>3 DEF CommandROMSet, Command
  <1>4. CASE CommandSoundFont
    <2> PICK i : SwitchSoundFont(i) /\ UNCHANGED romVars
      BY <1>4 DEF CommandSoundFont, Command
    <2> QED
      BY DEF SwitchSoundFont, ChoiceOK, OnlyCurrentSynthSounds, choice
  <1>5. CASE TakeEvents
    BY <1>5 DEF TakeEvents
  <1>6. ASSUME NEW e, ButtonEvent(e) \/ OtherEvent(e) PROVE Kept
    <2>1. CASE ButtonEvent(e)
      BY <2>1 DEF ButtonEvent
    <2>2. CASE OtherEvent(e) /\ e.type # "AllSoundOff"
      BY <2>2 DEF OtherEvent
    <2>3. CASE OtherEvent(e) /\ e.type = "AllSoundOff"
      BY <2>3 DEF OtherEvent, ChoiceOK, OnlyCurrentSynthSounds
    <2> QED
      BY <1>6, <2>1, <2>2, <2>3
  <1>7. CASE ProcessEvent
    BY <1>7, <1>6 DEF ProcessEvent
  <1>8. CASE NoteOn
    BY <1>8 DEF NoteOn, ChoiceOK, OnlyCurrentSynthSounds
  <1>9. CASE NotesOff
    BY <1>9 DEF NotesOff, ChoiceOK, OnlyCurrentSynthSounds
  <1>10. CASE DeferredSwitch
    BY <1>10 DEF DeferredSwitch, SwitchSoundFont, ChoiceOK, OnlyCurrentSynthSounds, choice
  <1>11. CASE FinishLoading
    BY <1>11 DEF FinishLoading
  <1>12. CASE AttachStick
    <2>1. ChoiceOK'
      BY <1>12 DEF AttachStick, ChoiceOK, OnlyCurrentSynthSounds, Synths
    <2>2. roms' \subseteq ROMSets
      BY <1>12, SynthAssumption DEF AttachStick, RomOK
    <2>3. m_CurrentROMSet' \in ROMSets \cup {Unknown}
      BY <1>12, <2>2, FoundROMSets DEF AttachStick, RomOK, StartingROMSet
    <2> QED
      BY <1>12, <2>1, <2>2, <2>3 DEF RomOK
  <1>13. CASE RemoveStick
    BY <1>13 DEF RemoveStick
  <1> QED
    BY <1>1, <1>2, <1>3, <1>4, <1>5, <1>7, <1>8, <1>9, <1>10, <1>11, <1>12, <1>13
       DEF Core0Next, UserNext, LoopNext

--------------------------------------------------------------------------------
(* A list holds as many SoundFonts as there are.                              *)
LEMMA SortedLength ==
    ASSUME NEW fonts, IsFiniteSet(fonts)
    PROVE  /\ Len(Sorted(fonts)) \in Nat
           /\ Sorted(fonts) # <<>> => Len(Sorted(fonts)) > 0
           /\ fonts # {} => Len(Sorted(fonts)) > 0
  <1>1. Cardinality(fonts) \in Nat /\ (fonts # {} => Cardinality(fonts) # 0)
    BY FS_CardinalityType, FS_EmptySet
  <1>2. Len(Sorted(fonts)) = Cardinality(fonts)
    BY <1>1 DEF Sorted
  <1>3. Cardinality(fonts) = 0 => Sorted(fonts) = <<>>
    BY DEF Sorted
  <1> QED
    BY <1>1, <1>2, <1>3

LEMMA FontsAreFinite ==
    IsFiniteSet(CardFonts) /\ IsFiniteSet(CardFonts \cup StickFonts)
  BY SynthAssumption, FS_Union

(* The SoundFont shown is the one that plays: a switch leaves none loaded     *)
(* until the index is the new one's.                                          *)
LEMMA FontStays ==
    ASSUME ChoiceOK, RomOK, FontOK, QueueOK, Core0Next
    PROVE  FontOK'
  <1> USE DEF FontOK, LoadedFontIsReported, Count, FontAt
  <1>1. synths' = synths /\ UNCHANGED fontVars => FontOK'
    BY DEF fontVars
  <1>2. ASSUME NEW i \in Nat, SwitchSoundFont(i) PROVE FontOK'
    <2>1. CASE Switchable(i)
      BY <1>2, <2>1 DEF SwitchSoundFont, Switchable
    <2>2. CASE ~Switchable(i)
      BY <1>2, <2>2, <1>1 DEF SwitchSoundFont, choice
    <2> QED
      BY <2>1, <2>2
  <1>3. CASE CommandSoundFont
    <2> PICK i \in 0..Count : SwitchSoundFont(i)
      BY <1>3 DEF CommandSoundFont, Command
    <2> QED
      BY <1>2
  <1>4. CASE DeferredSwitch
    <2>1. deferred.index \in Nat
      BY DEF QueueOK
    <2> QED
      BY <1>4, <1>2, <2>1 DEF DeferredSwitch
  <1>5. CASE FinishLoading
    <2> PICK i : i \in loading
      BY <1>5 DEF FinishLoading
    <2>1. i \in Nat /\ i < Count /\ "SoundFont" \in synths /\ synths' = synths
          /\ loading' = {} /\ m_SoundFontList' = m_SoundFontList
      BY <1>5 DEF FinishLoading, choice
    <2>2. \/ loaded' = FontAt(i) /\ m_nCurrentSoundFontIndex' = i
          \/ loaded' = NoFont /\ m_nCurrentSoundFontIndex' = m_nCurrentSoundFontIndex
      BY <1>5 DEF FinishLoading
    <2> QED
      BY <2>1, <2>2
  <1>6. CASE AttachStick
    <2> DEFINE list == Sorted(CardFonts \cup StickFonts)
    <2>1. /\ Len(list) \in Nat /\ (list # <<>> => Len(list) > 0)
          /\ loading = {} /\ loading' = loading
          /\ m_SoundFontList' = list
      BY <1>6, FontsAreFinite, SortedLength DEF AttachStick, Core0Idle, Scan
    <2>2. "SoundFont" \notin synths' => "SoundFont" \notin synths
      BY <1>6 DEF AttachStick
    <2>3. CASE "SoundFont" \in synths
      <3>1. /\ rescanned' = (rescanned \/ list # m_SoundFontList)
            /\ UNCHANGED <<m_nCurrentSoundFontIndex, loaded>>
        BY <1>6, <2>3, <2>1 DEF AttachStick, Scan
      <3> HIDE DEF list
      <3> QED
        BY <2>1, <2>2, <2>3, <3>1
    <2>4. CASE "SoundFont" \notin synths
      <3>1. /\ m_nCurrentSoundFontIndex' = StartingFont(list)
            /\ loaded' = IF list = <<>> THEN NoFont ELSE list[m_nCurrentSoundFontIndex' + 1]
        BY <1>6, <2>4 DEF AttachStick
      <3> HIDE DEF list
      <3>2. StartingFont(list) \in Nat /\ (list # <<>> => StartingFont(list) < Len(list))
        BY <2>1, SynthAssumption DEF StartingFont
      <3> QED
        BY <2>1, <2>2, <2>4, <3>1, <3>2
    <2> QED
      BY <2>3, <2>4
  <1>7. CASE RemoveStick
    <2>1. loading = {} /\ UNCHANGED <<m_nCurrentSoundFontIndex, loaded, loading, synths>>
      BY <1>7 DEF RemoveStick, Core0Idle, choice
    <2>2. CASE "SoundFont" \in synths
      <3> DEFINE list == Sorted(CardFonts)
      <3>1. Len(list) \in Nat
        BY FontsAreFinite, SortedLength
      <3>2. m_SoundFontList' = list /\ rescanned' = (rescanned \/ list # m_SoundFontList)
        BY <1>7, <2>2 DEF RemoveStick, Scan
      <3> HIDE DEF list
      <3> QED
        BY <2>1, <2>2, <3>1, <3>2
    <2>3. CASE "SoundFont" \notin synths
      BY <1>7, <2>1, <2>3 DEF RemoveStick
    <2> QED
      BY <2>2, <2>3
  <1>8. \/ CommandSoundFont \/ DeferredSwitch \/ FinishLoading \/ AttachStick \/ RemoveStick
        \/ UNCHANGED fontVars
    BY DEF Core0Next, UserNext, LoopNext, Press, CommandSynth, CommandROMSet, Command, TakeEvents,
           ProcessEvent, NoteOn, NotesOff
  <1> QED
    BY <1>1, <1>3, <1>4, <1>5, <1>6, <1>7, <1>8, ChoiceStays

--------------------------------------------------------------------------------
(* What is queued is the start of what was to be, and fits.                   *)
LEMMA EnqueueFits ==
    ASSUME QueueOK, NEW es \in Seq(Event), EnqueueAll(es)
    PROVE  /\ m_EventQueue' \in Seq(Event) /\ Len(m_EventQueue') < EventQueueSize
           /\ \A i \in DOMAIN NewEvents : i \in DOMAIN es /\ NewEvents[i] = es[i]
  <1> DEFINE q    == m_EventQueue
             room == EventQueueSize - 1 - Len(q)
             n    == IF Len(es) < room THEN Len(es) ELSE room
             new  == SubSeq(es, 1, n)
  <1>1. /\ q \in Seq(Event) /\ Len(q) \in Nat /\ Len(es) \in Nat
        /\ EventQueueSize \in Nat /\ room \in Nat
        /\ n \in Nat /\ n <= Len(es) /\ n <= room
    BY SynthAssumption DEF QueueOK
  <1>2. q' = q \o new
    BY DEF EnqueueAll, Enqueued
  <1>3. new \in Seq(Event) /\ Len(new) = n /\ \A i \in 1..n : new[i] = es[i]
    <2> HIDE DEF n
    <2> QED
      BY <1>1
  <1> HIDE DEF q, n, new
  <1>4. /\ q' \in Seq(Event) /\ Len(q') = Len(q) + n
        /\ \A i \in 1..n : q'[Len(q) + i] = new[i]
    <2>1. /\ q \o new \in Seq(Event) /\ Len(q \o new) = Len(q) + n
          /\ \A i \in 1..(Len(q) + n) :
                (q \o new)[i] = IF i <= Len(q) THEN q[i] ELSE new[i - Len(q)]
      BY <1>1, <1>3, ConcatProperties
    <2>2. ASSUME NEW i \in 1..n PROVE (q \o new)[Len(q) + i] = new[i]
      <3>1. /\ Len(q) + i \in 1..(Len(q) + n) /\ ~(Len(q) + i <= Len(q))
            /\ (Len(q) + i) - Len(q) = i
        BY <1>1
      <3> QED
        BY <2>1, <3>1
    <2> QED
      BY <1>2, <2>1, <2>2
  <1>5. NewEvents = [i \in 1..n |-> q'[Len(q) + i]]
    <2>1. NewEvents = SubSeq(q', Len(q) + 1, Len(q'))
      BY DEF NewEvents, q
    <2> QED
      BY <2>1, <1>1, <1>4
  <1>6. Len(q') < EventQueueSize
    BY <1>1, <1>4 DEF room
  <1>7. \A i \in DOMAIN NewEvents : i \in DOMAIN es /\ NewEvents[i] = es[i]
    BY <1>1, <1>3, <1>4, <1>5
  <1> QED
    BY <1>4, <1>6, <1>7 DEF q

LEMMA NothingEnqueued ==
    ASSUME QueueOK, m_EventQueue' = m_EventQueue
    PROVE  DOMAIN NewEvents = {}
  BY DEF QueueOK, NewEvents

LEMMA EventValues ==
    ASSUME NEW e \in Event, e.type = "SwitchSoundFont"
    PROVE  e.value \in Nat
  <1>1. e \in [type : {"SwitchMT32ROMSet", "SwitchSoundFont"}, value : Bytes]
    BY DEF Event
  <1> QED
    BY <1>1 DEF Bytes, Byte

(* Core 0 empties the queue, and puts only buttons into it.                   *)
LEMMA QueueStays ==
    ASSUME ChoiceOK, FontOK, QueueOK, Core0Next
    PROVE  QueueOK'
  <1> USE DEF QueueOK
  <1>1. UNCHANGED <<queueVars, deferred>> => QueueOK'
    BY DEF queueVars
  <1>2. ASSUME NEW button \in {"Button1", "Button2"}, Press(button) PROVE QueueOK'
    <2> DEFINE e == [type |-> button]
    <2>1. <<e>> \in Seq(Event) /\ EnqueueAll(<<e>>) /\ UNCHANGED <<batch, deferred>>
      BY <1>2 DEF Press, Event
    <2> HIDE DEF e
    <2> QED
      BY <2>1, EnqueueFits
  <1>3. CASE TakeEvents
    BY <1>3, SynthAssumption DEF TakeEvents
  <1>4. ASSUME NEW i \in Nat, DeferSwitchSoundFont(i) \/ UNCHANGED deferred
        PROVE  deferred' \in [flag : BOOLEAN, index : Nat]
    <2>1. CASE "SoundFont" \in synths /\ DeferSwitchSoundFont(i)
      <3>1. deferred' = [flag |-> TRUE, index |-> i]
        BY <2>1 DEF DeferSwitchSoundFont
      <3> QED
        BY <3>1
    <2>2. CASE UNCHANGED deferred
      BY <2>2
    <2> QED
      BY <1>4, <2>1, <2>2 DEF DeferSwitchSoundFont
  <1>5. NextSoundFont => deferred' \in [flag : BOOLEAN, index : Nat]
    <2> SUFFICES ASSUME NextSoundFont
                 PROVE  \E i \in Nat : DeferSwitchSoundFont(i) \/ UNCHANGED deferred
      BY <1>4
    <2>1. CASE Count = 0
      BY <2>1 DEF NextSoundFont
    <2>2. CASE Count # 0
      <3> DEFINE current == IF m_nCurrentSoundFontIndex > Count THEN 0
                            ELSE (m_nCurrentSoundFontIndex + 1) % Count
                 next == IF deferred.flag THEN (deferred.index + 1) % Count ELSE current
      <3>1. DeferSwitchSoundFont(next)
        BY <2>2 DEF NextSoundFont
      <3>2. next \in Nat
        BY <2>2 DEF FontOK
      <3> QED
        BY <3>1, <3>2
    <2> QED
      BY <2>1, <2>2
  <1>6. CASE ProcessEvent
    <2> DEFINE e == Head(batch)
    <2>1. e \in Event /\ batch' \in Seq(Event) /\ m_EventQueue' = m_EventQueue
      BY <1>6 DEF ProcessEvent
    <2>2. deferred' \in [flag : BOOLEAN, index : Nat]
      <3>1. CASE UNCHANGED deferred
        BY <3>1
      <3>2. CASE NextSoundFont
        BY <3>2, <1>5
      <3>3. CASE e.type = "SwitchSoundFont" /\ DeferSwitchSoundFont(e.value)
        <4>1. e.value \in Nat
          BY <2>1, <3>3, EventValues
        <4> QED
          BY <3>3, <4>1, <1>4
      <3> QED
        BY <1>6, <3>1, <3>2, <3>3 DEF ProcessEvent, ButtonEvent, OtherEvent
    <2> QED
      BY <2>1, <2>2
  <1>7. CASE DeferredSwitch
    <2>1. deferred' \in [flag : BOOLEAN, index : Nat]
      BY <1>7 DEF DeferredSwitch
    <2> QED
      BY <1>7, <2>1 DEF DeferredSwitch, queueVars
  <1>8. \/ \E button \in {"Button1", "Button2"} : Press(button)
        \/ TakeEvents \/ ProcessEvent \/ DeferredSwitch
        \/ UNCHANGED <<queueVars, deferred>>
    BY DEF Core0Next, UserNext, LoopNext, CommandSynth, CommandROMSet, CommandSoundFont, Command,
           NoteOn, NotesOff, FinishLoading, AttachStick, RemoveStick
  <1> QED
    BY <1>1, <1>2, <1>3, <1>6, <1>7, <1>8

--------------------------------------------------------------------------------
(* Statuses, and what relates those of the two sides.                         *)
Statuses == [Synth : Synths \cup {"Mute", "Unknown"}, MT32ROMSet : Bytes, SoundFontIndex : Bytes]

LinkType ==
    /\ bMisterActive \in BOOLEAN /\ chosen \subseteq Fields
    /\ mister \in Statuses
    /\ m_LastSystemStatus \in Statuses /\ m_LastMisterStatus \in Statuses
    /\ pc \in {"wait", "status", "update"}
    /\ System \in Statuses /\ Mister \in Statuses

(* Nothing is known of a link that is down, and a poll knows its synth.       *)
KnownWhenActive ==
    /\ ~bMisterActive => m_LastSystemStatus = UnknownStatus
    /\ pc \in {"status", "update"} => System.Synth \in Synths

(* What the menu has not chosen is what mt32-pi wrote, in the register and in *)
(* what has been read of it.                                                  *)
OursIsOurs ==
    /\ bMisterActive /\ m_LastSystemStatus # UnknownStatus
          => \A f \in Fields \ chosen : mister[f] = m_LastSystemStatus[f]
    /\ pc = "update" => \A f \in Fields \ chosen : Mister[f] = mister[f]

(* The menu waits until its choice before has been seen.                      *)
SeenInOrder == pc = "update" /\ bMisterActive => Mister \in {mister, m_LastMisterStatus}

LinkInv == LinkType /\ KnownWhenActive /\ OursIsOurs /\ SeenInOrder

LEMMA StatusTypes ==
    ASSUME SynthInv
    PROVE  Mine \in Statuses /\ Mine.Synth \in Synths /\ UnknownStatus \in Statuses
  <1>1. Unknown \in Bytes /\ ROMSets \subseteq Bytes
    BY DEF Unknown, Bytes, Byte, ROMSets
  <1>2. m_nCurrentSoundFontIndex % Byte \in Bytes
    BY DEF SynthInv, FontOK, Byte, Bytes
  <1>3. m_CurrentROMSet \in Bytes /\ m_pCurrentSynth \in Synths
    BY <1>1 DEF SynthInv, RomOK, ChoiceOK
  <1>4. UnknownStatus \in Statuses
    BY <1>1 DEF UnknownStatus, Statuses
  <1>5. Mine \in Statuses /\ Mine.Synth \in Synths
    <2> HIDE DEF Bytes
    <2> QED
      BY <1>1, <1>2, <1>3 DEF Mine, Statuses
  <1> QED
    BY <1>4, <1>5

(* What core 1 asks for changes nothing but the queue.                        *)
LEMMA AsksKeepsSynth ==
    ASSUME SynthInv, NEW es \in Seq(Event), Asks(es)
    PROVE  SynthInv'
  <1>1. QueueOK'
    BY EnqueueFits DEF SynthInv, QueueOK, Asks
  <1>2. ChoiceOK' /\ RomOK' /\ FontOK'
    BY DEF SynthInv, ChoiceOK, RomOK, FontOK, Asks, choice, romVars, fontVars,
           OnlyCurrentSynthSounds, LoadedFontIsReported, Count, FontAt
  <1> QED
    BY <1>1, <1>2 DEF SynthInv

LEMMA SynthUnchanged ==
    ASSUME SynthInv, UNCHANGED <<choice, romVars, fontVars, deferred, queueVars>>
    PROVE  SynthInv'
  BY DEF SynthInv, ChoiceOK, RomOK, FontOK, QueueOK, choice, romVars, fontVars, queueVars,
         OnlyCurrentSynthSounds, LoadedFontIsReported, Count, FontAt

(* A request for each field that differs, and no other.                       *)
SynthRequest == [type |-> "SwitchSynth",
                 value |-> IF Mister.Synth = "MT32" THEN "MT32" ELSE "SoundFont"]
ROMSetRequest    == [type |-> "SwitchMT32ROMSet", value |-> Mister.MT32ROMSet]
SoundFontRequest == [type |-> "SwitchSoundFont", value |-> Mister.SoundFontIndex]

LEMMA RequestsFor ==
    ASSUME NEW S,
           Mister["Synth"] # System["Synth"] => SynthRequest \in S,
           Mister["MT32ROMSet"] # System["MT32ROMSet"] => ROMSetRequest \in S,
           Mister["SoundFontIndex"] # System["SoundFontIndex"] => SoundFontRequest \in S
    PROVE  ApplyConfig \in Seq(S)
  <1> DEFINE a == Request("Synth", "SwitchSynth", IF Mister.Synth = "MT32" THEN "MT32" ELSE "SoundFont")
             b == Request("MT32ROMSet", "SwitchMT32ROMSet", Mister.MT32ROMSet)
             c == Request("SoundFontIndex", "SwitchSoundFont", Mister.SoundFontIndex)
  <1>1. a \in Seq(S)
    BY DEF Request, SynthRequest
  <1>2. b \in Seq(S)
    BY DEF Request, ROMSetRequest
  <1>3. c \in Seq(S)
    BY DEF Request, SoundFontRequest
  <1>4. ApplyConfig = (a \o b) \o c
    BY DEF ApplyConfig
  <1> HIDE DEF a, b, c
  <1>5. a \o b \in Seq(S)
    BY <1>1, <1>2
  <1> QED
    BY <1>3, <1>4, <1>5

LEMMA EventsAsked ==
    ASSUME LinkType
    PROVE  /\ Muted => Events = <<AllSoundOff>>
           /\ LocalChange \/ NothingNew => Events = <<>>
           /\ MenuChange \/ FirstReply => Events = ApplyConfig
           /\ Muted \/ LocalChange \/ NothingNew \/ MenuChange \/ FirstReply
  <1>1. /\ Muted => ~(LocalChange \/ NothingNew) /\ ~(MenuChange \/ FirstReply)
        /\ LocalChange \/ NothingNew => ~(MenuChange \/ FirstReply)
        /\ Muted \/ LocalChange \/ NothingNew \/ MenuChange \/ FirstReply
    BY DEF LinkType, LocalChange, MenuChange, NothingNew, FirstReply
  <1> QED
    BY <1>1 DEF Events

LEMMA EventsTyped ==
    ASSUME LinkType
    PROVE  Events \in Seq(Event) /\ AllSoundOff \in Event /\ [type |-> "DisplayImage"] \in Event
  <1>1. AllSoundOff \in Event /\ [type |-> "DisplayImage"] \in Event
    BY DEF AllSoundOff, Event
  <1>2. ApplyConfig \in Seq(Event)
    <2>1. SynthRequest \in Event
      BY DEF SynthRequest, Event, Synths
    <2>2. Mister.MT32ROMSet \in Bytes /\ Mister.SoundFontIndex \in Bytes
      BY DEF LinkType, Statuses
    <2>3. ROMSetRequest \in Event /\ SoundFontRequest \in Event
      BY <2>2 DEF ROMSetRequest, SoundFontRequest, Event
    <2> QED
      BY <2>1, <2>3, RequestsFor
  <1> HIDE DEF Event
  <1>3. <<AllSoundOff>> \in Seq(Event) /\ <<>> \in Seq(Event)
    BY <1>1
  <1> QED
    BY <1>1, <1>2, <1>3, EventsAsked

--------------------------------------------------------------------------------
(* The steps of core 1 and of the menu leave the synths as they were.         *)
LEMMA LinkStepsKeepSynth ==
    ASSUME SynthInv, LinkInv, Core1Next \/ MenuNext
    PROVE  SynthInv'
  <1> DEFINE Same == UNCHANGED <<choice, romVars, fontVars, deferred, queueVars>>
  <1>0. LinkType
    BY DEF LinkInv
  <1> DEFINE image == [type |-> "DisplayImage"]
             more  == IF FirstReply THEN <<image>> ELSE <<>>
  <1>1. /\ Events \in Seq(Event) /\ AllSoundOff \in Event
        /\ more \in Seq(Event) /\ <<>> \in Seq(Event) /\ <<AllSoundOff>> \in Seq(Event)
    <2> HIDE DEF image
    <2>1. image \in Event
      BY <1>0, EventsTyped DEF image
    <2> QED
      BY <2>1, <1>0, EventsTyped
  <1> HIDE DEF more
  <1>2. Events \o more \in Seq(Event) /\ Append(Events, AllSoundOff) \in Seq(Event)
    BY <1>1
  <1>3. CASE ReadSynth
    BY <1>3, SynthUnchanged DEF ReadSynth, synthVars
  <1>4. CASE ReadMister
    <2>1. CASE UNCHANGED synthVars
      BY <2>1, SynthUnchanged DEF synthVars
    <2>2. CASE ResetState
      <3> PICK es \in {<<AllSoundOff>>, <<>>} : Asks(es)
        BY <2>2 DEF ResetState
      <3> QED
        BY <1>1, AsksKeepsSynth
    <2> QED
      BY <1>4, <2>1, <2>2 DEF ReadMister
  <1>5. CASE Update
    <2>1. CASE UNCHANGED synthVars
      BY <2>1, SynthUnchanged DEF synthVars
    <2>2. CASE Asks(Events \o more)
      BY <2>2, <1>2, AsksKeepsSynth
    <2> QED
      BY <1>5, <2>1, <2>2 DEF Update, more
  <1>6. CASE UpdateFails
    <2>1. Asks(Events) \/ Asks(Append(Events, AllSoundOff))
      BY <1>6 DEF UpdateFails
    <2> QED
      BY <2>1, <1>1, <1>2, AsksKeepsSynth
  <1>7. CASE MenuNext
    <2>1. Same
      BY <1>7 DEF MenuNext, Menu
    <2> QED
      BY <2>1, SynthUnchanged
  <1> QED
    BY <1>3, <1>4, <1>5, <1>6, <1>7 DEF Core1Next

LEMMA ReadsKeepLink ==
    ASSUME SynthInv, LinkInv, ReadSynth \/ ReadMister
    PROVE  LinkInv'
  <1> USE DEF LinkInv
  <1>1. CASE ReadSynth
    <2>1. System' \in Statuses /\ System'.Synth \in Synths
      <3>1. Mine.Synth \in Synths /\ Unknown \in Bytes
        BY StatusTypes DEF Unknown, Bytes, Byte
      <3>2. System' = [Synth |-> Mine.Synth, MT32ROMSet |-> Unknown, SoundFontIndex |-> Unknown]
        BY <1>1 DEF ReadSynth, UnknownStatus
      <3> QED
        BY <3>1, <3>2 DEF Statuses
    <2>2. pc' = "status" /\ UNCHANGED <<linkVars, Mister, menuVars>>
      BY <1>1 DEF ReadSynth
    <2> QED
      BY <2>1, <2>2 DEF LinkType, KnownWhenActive, OursIsOurs, SeenInOrder, linkVars, menuVars
  <1>2. CASE ReadMister /\ pc' = "update"
    <2>1. Mister' = mister /\ UNCHANGED <<linkVars, menuVars>>
      BY <1>2 DEF ReadMister, PollEnds
    <2>2. System' \in Statuses /\ System'.Synth \in Synths
      <3>1. System' = [Mine EXCEPT !.Synth = System.Synth] /\ System.Synth \in Synths
        BY <1>2 DEF ReadMister, PollEnds, KnownWhenActive
      <3>2. Mine \in Statuses
        BY StatusTypes
      <3> HIDE DEF Mine
      <3> QED
        BY <3>1, <3>2 DEF Statuses
    <2> QED
      BY <1>2, <2>1, <2>2 DEF LinkType, KnownWhenActive, OursIsOurs, SeenInOrder, linkVars, menuVars
  <1>3. CASE ReadMister /\ pc' # "update"
    <2>1. ResetState /\ PollEnds /\ UNCHANGED menuVars
      BY <1>3 DEF ReadMister
    <2>2. UnknownStatus \in Statuses
      BY StatusTypes
    <2> QED
      BY <2>1, <2>2 DEF ResetState, PollEnds, LinkType, KnownWhenActive, OursIsOurs, SeenInOrder,
                        menuVars
  <1> QED
    BY <1>1, <1>2, <1>3

LEMMA MenuKeepsLink ==
    ASSUME LinkInv, MenuNext
    PROVE  LinkInv'
  <1> PICK field \in Fields, value \in Synths \cup {"Mute"} \cup Bytes :
           /\ Menu(field, value)
           /\ \/ field = "Synth" /\ value \in Synths \cup {"Mute"}
              \/ field # "Synth" /\ value \in Bytes
    BY MenuAssumption DEF MenuNext, Fields, Bytes, Byte, Synths
  <1>1. /\ UNCHANGED <<linkVars, pollVars>>
        /\ mister' = [mister EXCEPT ![field] = value] /\ chosen' = chosen \cup {field}
        /\ bMisterActive => mister = m_LastMisterStatus
    BY DEF Menu
  <1>2. mister \in Statuses
    BY DEF LinkInv, LinkType
  <1>3. mister' \in Statuses /\ \A f \in Fields \ {field} : mister'[f] = mister[f]
    BY <1>1, <1>2 DEF Statuses, Fields
  <1> QED
    BY <1>1, <1>3 DEF LinkInv, LinkType, KnownWhenActive, OursIsOurs, SeenInOrder, linkVars, pollVars

(* A write the menu saw either tells it what mt32-pi has, or hands back what  *)
(* it has chosen and mt32-pi has read.                                        *)
LEMMA UpdatesKeepLink ==
    ASSUME SynthInv, LinkInv, Update \/ UpdateFails
    PROVE  LinkInv'
  <1> USE DEF LinkInv
  <1>0. /\ UnknownStatus \in Statuses /\ pc = "update" /\ pc' = "wait"
        /\ System' = UnknownStatus /\ Mister' = UnknownStatus
    BY StatusTypes DEF Update, UpdateFails, PollEnds
  <1>1. CASE UNCHANGED <<linkVars, menuVars>>
    BY <1>0, <1>1 DEF LinkType, KnownWhenActive, OursIsOurs, SeenInOrder, linkVars, menuVars
  <1>2. CASE UpdateFails
    BY <1>0, <1>2 DEF UpdateFails, LinkType, KnownWhenActive, OursIsOurs, SeenInOrder, linkVars,
                      menuVars
  <1>3. CASE Update /\ ~NothingNew
    <2>1. /\ mister' = Written
          /\ chosen' = IF Muted THEN Fields ELSE {f \in chosen : Written[f] = mister[f]}
          /\ m_LastSystemStatus' = IF LocalChange THEN System ELSE m_LastSystemStatus
          /\ m_LastMisterStatus' = IF MenuChange \/ FirstReply THEN Mister ELSE m_LastMisterStatus
          /\ bMisterActive' = (bMisterActive \/ FirstReply)
      BY <1>3 DEF Update
    <2>2. LinkType'
      BY <1>0, <2>1 DEF LinkType, Written
    <2>3. KnownWhenActive'
      BY <1>0, <2>1 DEF LinkType, KnownWhenActive, LocalChange, FirstReply
    <2>4. OursIsOurs'
      <3> SUFFICES ASSUME bMisterActive', m_LastSystemStatus' # UnknownStatus,
                          NEW f \in Fields, f \notin chosen'
                   PROVE  mister'[f] = m_LastSystemStatus'[f]
        BY <1>0 DEF OursIsOurs
      <3>1. ~Muted
        BY <2>1
      <3>2. CASE LocalChange
        BY <2>1, <3>1, <3>2 DEF Written
      <3>3. CASE ~LocalChange
        <4>1. bMisterActive /\ m_LastSystemStatus' = m_LastSystemStatus
          BY <2>1, <3>3 DEF LinkType, FirstReply, KnownWhenActive
        <4>2. MenuChange /\ Written = Mister
          BY <3>1, <3>3, <4>1, <1>3 DEF LocalChange, NothingNew, MenuChange, Written
        <4>3. Mister = mister
          BY <4>1, <4>2, <1>0 DEF SeenInOrder, MenuChange
        <4>4. f \notin chosen
          BY <2>1, <3>1, <4>2, <4>3
        <4> QED
          BY <2>1, <4>1, <4>2, <4>3, <4>4 DEF OursIsOurs
      <3> QED
        BY <3>2, <3>3
    <2> QED
      BY <1>0, <2>2, <2>3, <2>4 DEF SeenInOrder
  <1> QED
    BY <1>1, <1>2, <1>3 DEF Update

--------------------------------------------------------------------------------
IInv == SynthInv /\ LinkInv

LEMMA InitIInv == Init => IInv
  <1> SUFFICES ASSUME Init PROVE IInv
    OBVIOUS
  <1> USE DEF Init, SynthInit
  <1>1. ChoiceOK
    BY DEF ChoiceOK, OnlyCurrentSynthSounds, Synths
  <1>2. RomOK
    BY SynthAssumption, FoundROMSets DEF RomOK, Unknown, StartingROMSet
  <1>3. FontOK
    <2> DEFINE list == Sorted(CardFonts)
    <2>1. Len(list) \in Nat /\ (CardFonts # {} => Len(list) > 0)
      BY FontsAreFinite, SortedLength
    <2>2. /\ m_SoundFontList = list /\ m_nCurrentSoundFontIndex = StartingFont(list)
          /\ loaded = IF CardFonts = {} THEN NoFont ELSE list[m_nCurrentSoundFontIndex + 1]
      BY DEF FontAt
    <2> HIDE DEF list
    <2>3. StartingFont(list) \in Nat /\ (CardFonts # {} => StartingFont(list) < Len(list))
      BY <2>1, SynthAssumption DEF StartingFont
    <2> QED
      BY <2>1, <2>2, <2>3 DEF FontOK, LoadedFontIsReported, Count, FontAt
  <1>4. QueueOK
    BY SynthAssumption DEF QueueOK
  <1>5. SynthInv
    BY <1>1, <1>2, <1>3, <1>4 DEF SynthInv
  <1>6. UnknownStatus \in Statuses
    BY <1>5, StatusTypes
  <1>7. mister \in Statuses
    BY DEF Statuses, Synths, Bytes, Byte
  <1>8. LinkInv
    BY <1>6, <1>7 DEF LinkInv, LinkType, KnownWhenActive, OursIsOurs, SeenInOrder
  <1> QED
    BY <1>5, <1>8 DEF IInv

LEMMA NextIInv == IInv /\ [Next]_allVars => IInv'
  <1> SUFFICES ASSUME IInv, [Next]_allVars PROVE IInv'
    OBVIOUS
  <1>0. SynthInv /\ LinkInv
    BY DEF IInv
  <1>1. UNCHANGED misterVars => LinkInv'
    BY <1>0 DEF misterVars, linkVars, pollVars, menuVars, LinkInv, LinkType, KnownWhenActive,
                OursIsOurs, SeenInOrder
  <1>2. CASE Core0Next /\ UNCHANGED misterVars
    BY <1>0, <1>1, <1>2, ChoiceStays, FontStays, QueueStays DEF SynthInv, IInv
  <1>3. CASE Core1Next \/ MenuNext
    <2>1. SynthInv'
      BY <1>0, <1>3, LinkStepsKeepSynth
    <2>2. LinkInv'
      BY <1>0, <1>3, ReadsKeepLink, MenuKeepsLink, UpdatesKeepLink DEF Core1Next
    <2> QED
      BY <2>1, <2>2 DEF IInv
  <1>4. CASE UNCHANGED allVars
    BY <1>0, <1>1, <1>4, SynthUnchanged DEF allVars, synthVars, IInv
  <1>5. \/ Core0Next /\ UNCHANGED misterVars
        \/ Core1Next \/ MenuNext \/ UNCHANGED allVars
    BY DEF Next, Core0, ByHand, ProcessNext, Core0Next
  <1> QED
    BY <1>1, <1>2, <1>3, <1>4, <1>5 DEF IInv

LEMMA Invariance == Spec => []IInv
  BY InitIInv, NextIInv, PTL DEF Spec

(* Whoever selects a synth, by button, by SysEx or in the menu, with ROMs     *)
(* changed and disks attached meanwhile: no other synth plays on.             *)
THEOREM OneSynthSounds == Spec => []OnlyCurrentSynthSounds
  <1>1. IInv => OnlyCurrentSynthSounds
    BY DEF IInv, SynthInv, ChoiceOK
  <1> QED
    BY <1>1, Invariance, PTL

(* However switches are asked for, deferred, refused or failed, the SoundFont *)
(* shown is the one loaded, for any number of SoundFonts on card and disk.    *)
THEOREM ShownFontIsLoaded == Spec => []LoadedFontIsReported
  <1>1. IInv => LoadedFontIsReported
    BY DEF IInv, SynthInv, FontOK
  <1> QED
    BY <1>1, Invariance, PTL

(* An update asks only for what the menu has chosen.                          *)
LEMMA OnlyChosenIsAsked ==
    ASSUME IInv, bMisterActive, Update \/ UpdateFails
    PROVE  \A i \in DOMAIN NewEvents :
               NewEvents[i].type \in DOMAIN FieldOf => FieldOf[NewEvents[i].type] \in chosen
  <1>0. SynthInv /\ QueueOK /\ LinkInv /\ LinkType /\ ~FirstReply /\ pc = "update"
    BY DEF IInv, SynthInv, LinkInv, FirstReply, Update, UpdateFails
  <1> DEFINE Unasked(e) == e.type \notin DOMAIN FieldOf
             Wanted     == {e \in Event : Unasked(e) \/ FieldOf[e.type] \in chosen}
  <1>1. AllSoundOff \in Wanted
    BY <1>0, EventsTyped DEF AllSoundOff, FieldOf
  <1>2. MenuChange => ApplyConfig \in Seq(Wanted)
    <2> SUFFICES ASSUME MenuChange PROVE ApplyConfig \in Seq(Wanted)
      OBVIOUS
    <2>1. \A f \in Fields : Mister[f] # System[f] => f \in chosen
      <3>1. System = m_LastSystemStatus /\ System.Synth \in Synths
        BY <1>0 DEF MenuChange, LinkInv, KnownWhenActive
      <3>2. m_LastSystemStatus # UnknownStatus
        BY <3>1 DEF UnknownStatus, Synths
      <3> QED
        BY <1>0, <3>1, <3>2 DEF LinkInv, OursIsOurs
    <2>2. /\ Mister.MT32ROMSet \in Bytes /\ Mister.SoundFontIndex \in Bytes
      BY <1>0 DEF LinkType, Statuses
    <2>3. SynthRequest \in Event /\ ROMSetRequest \in Event /\ SoundFontRequest \in Event
      BY <2>2 DEF SynthRequest, ROMSetRequest, SoundFontRequest, Event, Synths
    <2>4. /\ FieldOf[SynthRequest.type] = "Synth" /\ FieldOf[ROMSetRequest.type] = "MT32ROMSet"
          /\ FieldOf[SoundFontRequest.type] = "SoundFontIndex"
      BY DEF SynthRequest, ROMSetRequest, SoundFontRequest, FieldOf
    <2>5. /\ Mister["Synth"] # System["Synth"] => SynthRequest \in Wanted
          /\ Mister["MT32ROMSet"] # System["MT32ROMSet"] => ROMSetRequest \in Wanted
          /\ Mister["SoundFontIndex"] # System["SoundFontIndex"] => SoundFontRequest \in Wanted
      BY <2>1, <2>3, <2>4 DEF Fields
    <2> HIDE DEF Wanted
    <2> QED
      BY <2>5, RequestsFor
  <1>3. Events \in Seq(Wanted)
    <2> HIDE DEF Wanted
    <2>1. <<AllSoundOff>> \in Seq(Wanted) /\ <<>> \in Seq(Wanted)
      BY <1>1
    <2> QED
      BY <1>0, <1>2, <2>1, EventsAsked
  <1>4. UNCHANGED m_EventQueue \/ \E es \in Seq(Wanted) : EnqueueAll(es)
    <2> HIDE DEF Wanted
    <2>1. <<>> \in Seq(Wanted) /\ Events \o <<>> \in Seq(Wanted)
          /\ Append(Events, AllSoundOff) \in Seq(Wanted)
      BY <1>1, <1>3
    <2> QED
      BY <1>0, <1>3, <2>1 DEF Update, UpdateFails, Asks, synthVars, queueVars
  <1>5. CASE UNCHANGED m_EventQueue
    BY <1>0, <1>5, NothingEnqueued
  <1>6. ASSUME NEW es \in Seq(Wanted), EnqueueAll(es),
               NEW i \in DOMAIN NewEvents
        PROVE  NewEvents[i] \in Wanted
    <2>1. Wanted \subseteq Event
      OBVIOUS
    <2> HIDE DEF Wanted
    <2>2. es \in Seq(Event)
      BY <1>6, <2>1
    <2> QED
      BY <1>0, <1>6, <2>2, EnqueueFits
  <1> QED
    BY <1>4, <1>5, <1>6

(* Whatever order the polls of core 1, the menu and core 0 come in, and       *)
(* whichever transfers fail: nothing mt32-pi wrote itself comes back as a     *)
(* request.                                                                   *)
THEOREM OnlyTheMenuAsks == Spec => NoEcho
  <1>1. IInv /\ [Next]_allVars =>
          [bMisterActive /\ pc = "update" /\ pc' = "wait"
             => \A i \in DOMAIN NewEvents :
                    NewEvents[i].type \in DOMAIN FieldOf
                        => FieldOf[NewEvents[i].type] \in chosen]_allVars
    <2> SUFFICES ASSUME IInv, Next, bMisterActive, pc = "update", pc' = "wait"
                 PROVE  \A i \in DOMAIN NewEvents :
                            NewEvents[i].type \in DOMAIN FieldOf
                                => FieldOf[NewEvents[i].type] \in chosen
      OBVIOUS
    <2>1. Update \/ UpdateFails
      BY DEF Next, Core0, ByHand, ProcessNext, Core1Next, MenuNext, Menu, ReadSynth, ReadMister, misterVars, pollVars
    <2> QED
      BY <2>1, OnlyChosenIsAsked
  <1> QED
    BY <1>1, Invariance, PTL DEF Spec, NoEcho
================================================================================
