----------------------------- MODULE SynthControl ------------------------------
(***************************************************************************)
(* Synth selection on core 0 (mt32pi.cpp): the events taken from the queue,*)
(* the custom SysEx commands, the deferred SoundFont switch and the USB    *)
(* disk, with what they change in CMT32Synth, CSoundFontSynth and their    *)
(* ROM and SoundFont managers.  One step of core 0 is one event, command   *)
(* or update; a SoundFont switch takes two, because the file is loaded     *)
(* after the synth's lock is released and other cores go on meanwhile.     *)
(* SoundFonts are numbers, in the order of their paths.  Volume, LEDs and  *)
(* messages on the LCD are left out.                                       *)
(***************************************************************************)
EXTENDS Naturals, Sequences, FiniteSets

CONSTANTS CardFonts, StickFonts,   \* SoundFont files on the SD card and the USB disk
          CardROMs, StickROMs,     \* ROM sets that are complete on either
          SystemDefaultSynth, MT32EmuROMSet, FluidSynthSoundFont,   \* the configuration's
          EventQueueSize,
          MaxChanges   \* bound: buttons, commands, disks, bad files and the like

ROMSets == 0..2   \* TMT32ROMSet::MT32Old, MT32New, CM32L
Any     == 3      \* TMT32ROMSet::Any
NoFont  == 0      \* what fluid_synth has before a file is loaded
Unknown == 255    \* 0xFF

ASSUME SynthAssumption == /\ IsFiniteSet(CardFonts) /\ IsFiniteSet(StickFonts)
                          /\ CardFonts \cup StickFonts \subseteq Nat \ {NoFont}
                          /\ CardROMs \subseteq ROMSets /\ StickROMs \subseteq ROMSets
                          /\ SystemDefaultSynth \in {"MT32", "SoundFont"}
                          /\ MT32EmuROMSet \in ROMSets \cup {Any}   \* not All
                          /\ FluidSynthSoundFont \in Nat
                          /\ EventQueueSize \in Nat \ {0}

VARIABLES m_pCurrentSynth,
          synths,                    \* those of m_pMT32Synth, m_pSoundFontSynth that exist
          sounding,                  \* the voices with notes on
          roms, m_CurrentROMSet,
          m_SoundFontList, m_nCurrentSoundFontIndex,
          loaded,                    \* the SoundFont in fluid_synth
          loading,                   \* the index being loaded, if any: a set
          rescanned,                 \* the list has changed since loaded was
          deferred,                  \* m_bDeferredSoundFontSwitchFlag and Index
          stick,                     \* m_pUSBMassStorageDevice
          m_EventQueue,
          batch,                     \* what ProcessEventQueue has still to process
          lost,                      \* a file, a disk or a place in the queue was missing
          changes                    \* counted against MaxChanges

choice    == <<m_pCurrentSynth, synths, sounding>>
romVars   == <<roms, m_CurrentROMSet>>
fontVars  == <<m_SoundFontList, m_nCurrentSoundFontIndex, loaded, loading, rescanned>>
queueVars == <<m_EventQueue, batch>>
synthVars == <<choice, romVars, fontVars, deferred, stick, queueVars, lost, changes>>

(* In the order of their paths: the i-th has i-1 others before it. *)
Sorted(fonts) ==
    [i \in 1..Cardinality(fonts) |->
        CHOOSE font \in fonts : Cardinality({f \in fonts : f < font}) = i - 1]

Count == Len(m_SoundFontList)

(* Indices count from 0. *)
FontAt(i) == m_SoundFontList[i + 1]

(* Initialize of the two synths: what is configured, or the first there is.  *)
StartingFont(list) == IF FluidSynthSoundFont < Len(list) THEN FluidSynthSoundFont ELSE 0

GetROMSet(r, have) == {set \in have : set = r \/ (r = Any /\ \A other \in have : set <= other)}
StartingROMSet(have) ==
    IF have = {} THEN {Unknown}
    ELSE GetROMSet(IF MT32EmuROMSet \in have THEN MT32EmuROMSet ELSE Any, have)

SynthInit ==
    /\ synths = {s \in {"MT32", "SoundFont"} :
                    IF s = "MT32" THEN CardROMs # {} ELSE CardFonts # {}}
    /\ m_pCurrentSynth \in (IF SystemDefaultSynth \in synths THEN {SystemDefaultSynth} ELSE synths)
    /\ sounding = {}
    /\ roms = CardROMs
    /\ m_CurrentROMSet \in StartingROMSet(CardROMs)
    /\ m_SoundFontList = Sorted(CardFonts)
    /\ m_nCurrentSoundFontIndex = StartingFont(m_SoundFontList)
    /\ loaded = IF CardFonts = {} THEN NoFont ELSE FontAt(m_nCurrentSoundFontIndex)
    /\ loading = {} /\ rescanned = FALSE
    /\ deferred = [flag |-> FALSE, index |-> 0]
    /\ stick = FALSE
    /\ m_EventQueue = <<>> /\ batch = <<>>
    /\ lost = FALSE /\ changes = 0

(* What finds the queue full is not queued: CRingBuffer keeps a slot free. *)
Enqueued(q, es) ==
    LET room == EventQueueSize - 1 - Len(q)
    IN  q \o SubSeq(es, 1, IF Len(es) < room THEN Len(es) ELSE room)

EnqueueAll(es) ==
    /\ m_EventQueue' = Enqueued(m_EventQueue, es)
    /\ lost' = (lost \/ Len(m_EventQueue) + Len(es) > EventQueueSize - 1)

Change == changes < MaxChanges /\ changes' = changes + 1

Core0Idle == batch = <<>> /\ loading = {}

--------------------------------------------------------------------------------
(* The eight melodic parts and the rhythm part of the MT-32, the channels of *)
(* the SoundFont synth; and which of them the synth's AllSoundOff stops.     *)
VoicesOf(s) == IF s = "MT32" THEN {"parts", "rhythm"} ELSE {"channels"}
StoppedBy_AllSoundOff(s) == VoicesOf(s) \ {"rhythm"}

(* The operations events and commands call.                                  *)
SwitchSynth_SilencesLast(s) ==   \* mutant
    IF s \in synths /\ s # m_pCurrentSynth
    THEN /\ m_pCurrentSynth' = s
         /\ sounding' = sounding \ StoppedBy_AllSoundOff(s)
         /\ UNCHANGED synths
    ELSE UNCHANGED choice
SwitchSynth(s) ==
    IF s \in synths /\ s # m_pCurrentSynth
    THEN /\ sounding' = sounding \ StoppedBy_AllSoundOff(m_pCurrentSynth)
         /\ m_pCurrentSynth' = s
         /\ UNCHANGED synths
    ELSE UNCHANGED choice

(* With mt32emu closed and opened again, its notes are off. *)
SwitchMT32ROMSet(r) ==
    IF "MT32" \in synths /\ r # m_CurrentROMSet /\ GetROMSet(r, roms) # {}
    THEN /\ m_CurrentROMSet' \in GetROMSet(r, roms)
         /\ sounding' = sounding \ VoicesOf("MT32")
         /\ UNCHANGED <<m_pCurrentSynth, synths, roms>>
    ELSE UNCHANGED <<romVars, choice>>

(* The next complete set, in the order of TMT32ROMSet. *)
NextMT32ROMSet ==
    LET next(k) == (m_CurrentROMSet + k) % 3
    IN  CASE next(1) \in roms                        -> SwitchMT32ROMSet(next(1))
          [] next(1) \notin roms /\ next(2) \in roms -> SwitchMT32ROMSet(next(2))
          [] OTHER                                   -> UNCHANGED <<romVars, choice>>

Switchable(i) == "SoundFont" \in synths /\ i # m_nCurrentSoundFontIndex /\ i < Count

(* As far as Reinitialize holds the lock: the synth is a new one, empty. *)
SwitchSoundFont(i) ==
    IF Switchable(i)
    THEN /\ loaded' = NoFont /\ loading' = {i} /\ rescanned' = FALSE
         /\ sounding' = sounding \ VoicesOf("SoundFont")
         /\ UNCHANGED <<m_pCurrentSynth, synths, m_SoundFontList, m_nCurrentSoundFontIndex>>
    ELSE UNCHANGED <<fontVars, choice>>

FinishLoading_KeepsIndex ==   \* mutant
    /\ loading # {} /\ loading' = {}
    /\ \E i \in loading : loaded' = FontAt(i)
    /\ UNCHANGED <<choice, romVars, m_SoundFontList, m_nCurrentSoundFontIndex, rescanned,
                   deferred, stick, queueVars, lost, changes>>
(* fluid_synth_sfload and the end of CSoundFontSynth::SwitchSoundFont. *)
FinishLoading ==
    /\ loading # {} /\ loading' = {}
    /\ \/ /\ \E i \in loading : loaded' = FontAt(i) /\ m_nCurrentSoundFontIndex' = i
          /\ UNCHANGED <<lost, changes>>
       \/ /\ Change
          /\ lost' = TRUE
          /\ UNCHANGED <<loaded, m_nCurrentSoundFontIndex>>
    /\ UNCHANGED <<choice, romVars, m_SoundFontList, rescanned, deferred, stick, queueVars>>

DeferSwitchSoundFont(i) ==
    deferred' = IF "SoundFont" \in synths THEN [flag |-> TRUE, index |-> i] ELSE deferred

(* Button 2 in SoundFont mode. *)
NextSoundFont ==
    LET current == IF m_nCurrentSoundFontIndex > Count THEN 0
                   ELSE (m_nCurrentSoundFontIndex + 1) % Count
    IN  IF Count = 0 THEN UNCHANGED deferred
        ELSE DeferSwitchSoundFont(IF deferred.flag THEN (deferred.index + 1) % Count
                                  ELSE current)

--------------------------------------------------------------------------------
(* Control::Update has seen a button go down. *)
Press(button) ==
    /\ Core0Idle
    /\ Change
    /\ EnqueueAll(<<[type |-> button]>>)
    /\ UNCHANGED <<choice, romVars, fontVars, deferred, stick, batch>>

TakeEvents ==
    /\ Core0Idle /\ m_EventQueue # <<>>
    /\ batch' = m_EventQueue /\ m_EventQueue' = <<>>
    /\ UNCHANGED <<choice, romVars, fontVars, deferred, stick, lost, changes>>

ButtonEvent(e) ==
    \/ /\ e.type = "Button1"
       /\ SwitchSynth(IF m_pCurrentSynth = "MT32" THEN "SoundFont" ELSE "MT32")
       /\ UNCHANGED <<romVars, deferred>>
    \/ /\ e.type = "Button2" /\ m_pCurrentSynth = "MT32"
       /\ NextMT32ROMSet
       /\ UNCHANGED deferred
    \/ /\ e.type = "Button2" /\ m_pCurrentSynth = "SoundFont"
       /\ NextSoundFont
       /\ UNCHANGED <<choice, romVars>>

OtherEvent(e) ==
    \/ /\ e.type = "SwitchSynth" /\ SwitchSynth(e.value)
       /\ UNCHANGED <<romVars, deferred>>
    \/ /\ e.type = "SwitchMT32ROMSet" /\ SwitchMT32ROMSet(e.value)
       /\ UNCHANGED deferred
    \/ /\ e.type = "SwitchSoundFont" /\ DeferSwitchSoundFont(e.value)
       /\ UNCHANGED <<choice, romVars>>
    \/ /\ e.type = "AllSoundOff"
       /\ sounding' = sounding \ UNION {StoppedBy_AllSoundOff(s) : s \in synths}
       /\ UNCHANGED <<m_pCurrentSynth, synths, romVars, deferred>>
    \/ /\ e.type = "DisplayImage"
       /\ UNCHANGED <<choice, romVars, deferred>>

ProcessEvent ==
    /\ batch # <<>> /\ loading = {}
    /\ ButtonEvent(Head(batch)) \/ OtherEvent(Head(batch))
    /\ batch' = Tail(batch)
    /\ UNCHANGED <<fontVars, stick, m_EventQueue, lost, changes>>

(* A custom SysEx command came in with the MIDI. *)
Command(f) ==
    /\ Core0Idle
    /\ Change
    /\ f
    /\ UNCHANGED <<stick, queueVars, lost>>

CommandSynth == \E s \in {"MT32", "SoundFont"} :
    Command(SwitchSynth(s) /\ UNCHANGED <<romVars, fontVars, deferred>>)
CommandROMSet == \E r \in ROMSets :
    Command(SwitchMT32ROMSet(r) /\ UNCHANGED <<fontVars, deferred>>)
CommandSoundFont == \E i \in 0..Count :
    Command(SwitchSoundFont(i) /\ UNCHANGED <<romVars, deferred>>)

NoteOn ==
    /\ Core0Idle
    /\ Change
    /\ \E voice \in VoicesOf(m_pCurrentSynth) : sounding' = sounding \cup {voice}
    /\ UNCHANGED <<m_pCurrentSynth, synths, romVars, fontVars, deferred, stick, queueVars, lost>>

(* The notes of a voice end, or the active sensing of the sender has stopped. *)
NotesOff ==
    /\ Core0Idle
    /\ sounding \cap VoicesOf(m_pCurrentSynth) # {}
    /\ \/ \E voice \in VoicesOf(m_pCurrentSynth) : sounding' = sounding \ {voice}
       \/ sounding' = sounding \ StoppedBy_AllSoundOff(m_pCurrentSynth)
    /\ UNCHANGED <<m_pCurrentSynth, synths, romVars, fontVars, deferred, stick, queueVars, lost, changes>>

(* The switch of MainTask, once the control timeout has passed. *)
DeferredSwitch ==
    /\ Core0Idle /\ deferred.flag
    /\ SwitchSoundFont(deferred.index)
    /\ deferred' = [deferred EXCEPT !.flag = FALSE]
    /\ UNCHANGED <<romVars, stick, queueVars, lost, changes>>

Scan(fonts) ==
    /\ m_SoundFontList' = Sorted(fonts)
    /\ rescanned' = (rescanned \/ m_SoundFontList' # m_SoundFontList)

(* UpdateUSB: a disk attached.  Its ROMs stay in memory; a synth that could  *)
(* not be made for want of files is made now.                                *)
AttachStick ==
    /\ Core0Idle /\ ~stick
    /\ Change
    /\ stick' = TRUE /\ lost' = TRUE
    /\ roms' = roms \cup StickROMs
    /\ m_CurrentROMSet' \in (IF "MT32" \in synths THEN {m_CurrentROMSet}
                             ELSE StartingROMSet(roms'))
    /\ synths' = synths \cup (IF roms' # {} THEN {"MT32"} ELSE {})
                        \cup (IF CardFonts \cup StickFonts # {} THEN {"SoundFont"} ELSE {})
    /\ IF "SoundFont" \in synths
       THEN /\ Scan(CardFonts \cup StickFonts)
            /\ UNCHANGED <<m_nCurrentSoundFontIndex, loaded>>
       ELSE /\ m_SoundFontList' = Sorted(CardFonts \cup StickFonts)
            /\ m_nCurrentSoundFontIndex' = StartingFont(m_SoundFontList')
            /\ loaded' = IF m_SoundFontList' = <<>> THEN NoFont
                         ELSE m_SoundFontList'[m_nCurrentSoundFontIndex' + 1]
            /\ UNCHANGED rescanned
    /\ UNCHANGED <<m_pCurrentSynth, sounding, loading, deferred, queueVars>>

RemoveStick ==
    /\ Core0Idle /\ stick
    /\ stick' = FALSE /\ lost' = TRUE
    /\ IF "SoundFont" \in synths THEN Scan(CardFonts) ELSE UNCHANGED <<m_SoundFontList, rescanned>>
    /\ UNCHANGED <<choice, romVars, m_nCurrentSoundFontIndex, loaded, loading, deferred,
                   queueVars, changes>>

UserNext ==
    \/ \E button \in {"Button1", "Button2"} : Press(button)
    \/ CommandSynth \/ CommandROMSet \/ CommandSoundFont

LoopNext ==
    \/ TakeEvents
    \/ NoteOn \/ NotesOff
    \/ DeferredSwitch \/ FinishLoading
    \/ AttachStick \/ RemoveStick

--------------------------------------------------------------------------------
(* No synth plays on when another one has been selected: what is switched    *)
(* away is silenced first, and MIDI goes to the current synth only.  But for *)
(* the rhythm part of the MT-32, which AllSoundOff leaves out: its notes are *)
(* not rendered while the SoundFont synth is selected, and heard again after.*)
OnlyCurrentSynthSounds == sounding \subseteq VoicesOf(m_pCurrentSynth) \cup {"rhythm"}

(* What the LCD and the MiSTer are told is the SoundFont that plays, through *)
(* refused, failed, deferred and overlapping switches; a list scanned again  *)
(* renumbers the SoundFonts under the index, so it is left out.              *)
LoadedFontIsReported ==
    "SoundFont" \in synths /\ loaded # NoFont /\ ~rescanned
        => m_nCurrentSoundFontIndex < Count /\ FontAt(m_nCurrentSoundFontIndex) = loaded
================================================================================
