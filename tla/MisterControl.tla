----------------------------- MODULE MisterControl -----------------------------
(***************************************************************************)
(* CMisterControl (control/mister.cpp) on core 1, which every 50 ms reads  *)
(* the state of the synths, with no lock, and exchanges it over I2C with a *)
(* MiSTer that has an on-screen menu of its own.  What MiSTer asks for     *)
(* goes to core 0 as events.  The register the MiSTer keeps is modelled    *)
(* from how the code uses it: a read returns what the menu chose or what   *)
(* mt32-pi wrote last.                                                     *)
(***************************************************************************)
EXTENDS SynthControl

CONSTANTS MenuROMSets, MenuFonts   \* what the menu of the MiSTer offers: bytes

ASSUME MenuAssumption == MenuROMSets \subseteq 0..255 /\ MenuFonts \subseteq 0..255

VARIABLES mister,              \* the register: [Synth, MT32ROMSet, SoundFontIndex]
          chosen,              \* its fields the menu has set and mt32-pi not changed since;
                               \* all of them after a "Reset Hanging Notes"
          bMisterActive,
          m_LastSystemStatus, m_LastMisterStatus,
          pc,                  \* where UITask stands in its poll
          System, Mister,      \* the two statuses Update works with
          crossed              \* a request of the menu was crossed by hand: only recorded

linkVars   == <<bMisterActive, m_LastSystemStatus, m_LastMisterStatus>>
pollVars   == <<pc, System, Mister>>
menuVars   == <<mister, chosen>>
misterVars == <<linkVars, pollVars, menuVars>>
allVars    == <<synthVars, misterVars, crossed>>

Fields == {"Synth", "MT32ROMSet", "SoundFontIndex"}
FieldOf == [SwitchSynth |-> "Synth", SwitchMT32ROMSet |-> "MT32ROMSet",
            SwitchSoundFont |-> "SoundFontIndex"]

Byte == 256   \* the fields of TMisterStatus are u8, an index is a size_t

UnknownStatus == [Synth |-> "Unknown", MT32ROMSet |-> Unknown, SoundFontIndex |-> Unknown]

Mine == [Synth |-> m_pCurrentSynth,
         MT32ROMSet |-> IF "MT32" \in synths THEN m_CurrentROMSet ELSE Unknown,
         SoundFontIndex |-> IF "SoundFont" \in synths THEN m_nCurrentSoundFontIndex % Byte
                                                       ELSE Unknown]

Init ==
    /\ SynthInit
    /\ mister \in [Synth : {"MT32", "SoundFont"}, MT32ROMSet : {0}, SoundFontIndex : {0}]
    /\ chosen = Fields
    /\ bMisterActive = FALSE
    /\ m_LastSystemStatus = UnknownStatus /\ m_LastMisterStatus = UnknownStatus
    /\ pc = "wait" /\ System = UnknownStatus /\ Mister = UnknownStatus
    /\ crossed = FALSE

--------------------------------------------------------------------------------
(* The menu of the MiSTer; Mute is its "Reset Hanging Notes".  The model has *)
(* nobody choose again before a poll has seen the choice before: polls tell  *)
(* no more than whether a status is another one than last time.              *)
Menu(field, value) ==
    /\ Change
    /\ bMisterActive => mister = m_LastMisterStatus
    /\ mister[field] # value
    /\ mister' = [mister EXCEPT ![field] = value]
    /\ chosen' = chosen \cup {field}
    /\ UNCHANGED <<linkVars, pollVars, choice, romVars, fontVars, deferred, stick, queueVars, lost>>

(* UITask reads m_pCurrentSynth ... *)
ReadSynth ==
    /\ pc = "wait"
    /\ pc' = "status"
    /\ System' = [UnknownStatus EXCEPT !.Synth = Mine.Synth]
    /\ UNCHANGED <<linkVars, Mister, menuVars, synthVars>>

AllSoundOff == [type |-> "AllSoundOff"]

Asks(es) == EnqueueAll(es) /\ UNCHANGED <<choice, romVars, fontVars, deferred, stick, batch>>

ResetState ==
    /\ Asks(IF bMisterActive THEN <<AllSoundOff>> ELSE <<>>)
    /\ bMisterActive' = FALSE
    /\ m_LastSystemStatus' = IF bMisterActive THEN UnknownStatus ELSE m_LastSystemStatus
    /\ m_LastMisterStatus' = IF bMisterActive THEN UnknownStatus ELSE m_LastMisterStatus

PollEnds == pc' = "wait" /\ System' = UnknownStatus /\ Mister' = UnknownStatus

(* ... and after it the ROM set and the SoundFont; Update reads the register.*)
ReadMister ==
    /\ pc = "status"
    /\ \/ /\ System' = [Mine EXCEPT !.Synth = System.Synth]
          /\ Mister' = mister
          /\ pc' = "update"
          /\ UNCHANGED <<linkVars, synthVars>>
       \/ Change /\ ResetState /\ PollEnds
    /\ UNCHANGED menuVars

(* ApplyConfig: an event for each field that differs. *)
Request(field, type, value) ==
    IF Mister[field] # System[field] THEN <<[type |-> type, value |-> value]>> ELSE <<>>

ApplyConfig_ForgetsROMSet ==   \* mutant
    Request("Synth", "SwitchSynth", IF System.Synth = "MT32" THEN "SoundFont" ELSE "MT32")
    \o Request("SoundFontIndex", "SwitchSoundFont", Mister.SoundFontIndex)
ApplyConfig ==
    Request("Synth", "SwitchSynth", IF Mister.Synth = "MT32" THEN "MT32" ELSE "SoundFont")
    \o Request("MT32ROMSet", "SwitchMT32ROMSet", Mister.MT32ROMSet)
    \o Request("SoundFontIndex", "SwitchSoundFont", Mister.SoundFontIndex)

(* What Update does about the two statuses, up to the write that follows. *)
Muted        == Mister.Synth = "Mute"
LocalChange  == ~Muted /\ bMisterActive /\ System # m_LastSystemStatus
MenuChange   == ~Muted /\ bMisterActive /\ System = m_LastSystemStatus
                /\ Mister # m_LastMisterStatus
FirstReply   == ~Muted /\ ~bMisterActive
NothingNew   == ~Muted /\ bMisterActive /\ System = m_LastSystemStatus
                /\ Mister = m_LastMisterStatus

Events_ApplyAlways ==   \* mutant
    IF Muted THEN <<AllSoundOff>> ELSE IF NothingNew THEN <<>> ELSE ApplyConfig
Events == CASE Muted                    -> <<AllSoundOff>>
            [] LocalChange \/ NothingNew -> <<>>
            [] MenuChange \/ FirstReply  -> ApplyConfig

Written == IF Muted \/ LocalChange THEN System ELSE Mister

(* The rest of Update.  Core 0 cannot tell whether the events come before or *)
(* after the write, so both are one step.                                    *)
Update ==
    /\ pc = "update"
    /\ \/ /\ NothingNew
          /\ UNCHANGED <<linkVars, menuVars, synthVars>>
       \/ /\ ~NothingNew
          /\ mister' = Written
          /\ chosen' = IF Muted THEN Fields ELSE {f \in chosen : Written[f] = mister[f]}
          /\ m_LastSystemStatus' = IF LocalChange THEN System ELSE m_LastSystemStatus
          /\ m_LastMisterStatus' = IF MenuChange \/ FirstReply THEN Mister ELSE m_LastMisterStatus
          /\ bMisterActive' = (bMisterActive \/ FirstReply)
          /\ Asks(Events \o IF FirstReply THEN <<[type |-> "DisplayImage"]>> ELSE <<>>)
          /\ UNCHANGED changes
    /\ PollEnds

(* The write fails. *)
UpdateFails ==
    /\ pc = "update" /\ ~NothingNew
    /\ Change
    /\ IF LocalChange \/ MenuChange
       THEN /\ Asks(Append(Events, AllSoundOff))
            /\ bMisterActive' = FALSE
            /\ m_LastSystemStatus' = UnknownStatus /\ m_LastMisterStatus' = UnknownStatus
       ELSE Asks(Events) /\ UNCHANGED linkVars
    /\ PollEnds
    /\ UNCHANGED menuVars

MenuNext ==
    \/ \E s \in {"MT32", "SoundFont", "Mute"} : Menu("Synth", s)
    \/ \E r \in MenuROMSets : Menu("MT32ROMSet", r)
    \/ \E i \in MenuFonts : Menu("SoundFontIndex", i)

Core1Next == ReadSynth \/ ReadMister \/ Update \/ UpdateFails

(* A request of the menu for this field has been taken up, but no poll has   *)
(* seen what became of it.                                                   *)
Pending(field) == bMisterActive /\ m_LastMisterStatus[field] # m_LastSystemStatus[field]

(* A button or a SysEx command meanwhile puts the field back to what the      *)
(* MiSTer was told last, or asks for a SoundFont as well.                     *)
Crosses ==
    \/ \E field \in Fields : /\ Pending(field)
                             /\ Mine'[field] # Mine[field] /\ Mine'[field] = m_LastSystemStatus[field]
    \/ Pending("SoundFontIndex") /\ <<deferred, loading>>' # <<deferred, loading>>

Core0(A)  == A /\ UNCHANGED <<misterVars, crossed>>
ByHand(A) == A /\ UNCHANGED misterVars /\ crossed' = (crossed \/ Crosses)

ProcessNext ==
    IF batch # <<>> /\ Head(batch).type \in {"Button1", "Button2"}
    THEN ByHand(ProcessEvent) ELSE Core0(ProcessEvent)

Next ==
    \/ ByHand(UserNext) \/ ProcessNext
    \/ Core0(LoopNext)
    \/ (Core1Next \/ MenuNext) /\ UNCHANGED crossed

Spec == Init /\ [][Next]_allVars

(* Core 1 polls again and again, core 0 goes round its loop, and the timeout *)
(* of a deferred switch runs out.                                            *)
FairSpec ==
    /\ Spec
    /\ WF_allVars((ReadSynth \/ ReadMister \/ Update) /\ UNCHANGED crossed)
    /\ WF_allVars(Core0(TakeEvents) \/ ProcessNext \/ Core0(FinishLoading))
    /\ SF_allVars(Core0(DeferredSwitch))

--------------------------------------------------------------------------------
(* mt32-pi never takes its own words for the menu's: while the link is up,   *)
(* MiSTer's status asks only for what the menu has chosen, so that a button  *)
(* or a SysEx command is not undone by the status written back before.       *)
NewEvents == SubSeq(m_EventQueue', Len(m_EventQueue) + 1, Len(m_EventQueue'))

NoEcho ==
    [][bMisterActive /\ pc = "update" /\ pc' = "wait"
         => \A i \in DOMAIN NewEvents :
                NewEvents[i].type \in DOMAIN FieldOf => FieldOf[NewEvents[i].type] \in chosen]_allVars

(* Both sides end up with one state once the changes stop, with buttons,      *)
(* commands and the menu at any time, I2C errors and half a change in a       *)
(* status; provided that what was chosen is there, no event was dropped, and  *)
(* nobody undid by hand what the menu asked for before a poll saw it done.    *)
(* What is undone within that time is never told: Button 2 during a deferred  *)
(* switch may choose the SoundFont still playing, and neither side sees a     *)
(* change (mt32pi.cpp:1198, mister.cpp:67 and 78).                            *)
Agreed == Mine = mister
Reconciled == <>[](Agreed \/ lost \/ crossed)
================================================================================
