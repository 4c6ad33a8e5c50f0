----------------------------- MODULE PowerDisplay ------------------------------
(***************************************************************************)
(* Power saving (CPower, core 0), the display (CUserInterface, drawn by    *)
(* UITask on core 1) and the deferred SoundFont switch, which watches the  *)
(* display.  m_State and m_nStateTime of the display are plain fields that *)
(* both cores write without a lock, so the steps of Update are steps here. *)
(* Time on the display is counted in updates, in MainTask in passes.       *)
(***************************************************************************)
EXTENDS Integers

CONSTANTS MessageTime,       \* updates a message stays: SystemMessageDisplayTimeMillis
          ScrollSteps,       \* characters a message may have to scroll by
          PowerSaveTimeout,  \* silent passes before power saving
          SwitchTimeout,     \* passes a chosen SoundFont is waited for: ControlSwitchTimeout
          MaxShows           \* bound: messages shown in a behaviour

ASSUME DisplayAssumption == /\ MessageTime \in Nat \ {0} /\ PowerSaveTimeout \in Nat \ {0}
                            /\ SwitchTimeout \in Nat /\ ScrollSteps \subseteq Nat

VARIABLES power, idle, sound,          \* CPower's state and timer, the sound device
          deferred, switchAge,         \* m_bDeferredSoundFontSwitchFlag and its timer
          pc0,                         \* where MainTask is: "power", "deferred", "loading"
          stamping,                    \* core 0 set m_State but not yet m_nStateTime
          ui, age, toScroll,           \* m_State, time since m_nStateTime, text left to scroll
          m_bIsScrolling,
          pc1, delta, branch,          \* where Update is, its nDeltaTicks, its if-chain's choice
          lit,                         \* the LCD's backlight
          unseen,                      \* what is on the display has not been drawn yet
          missed,                      \* who has taken away such a message: only recorded
          shows

core0 == <<power, idle, sound, deferred, switchAge, pc0, stamping, shows>>
core1 == <<m_bIsScrolling, pc1, delta, branch, lit>>
display == <<ui, age, toScroll, unseen, missed>>
displayVars == <<core0, core1, display>>

TimedStates == {"DisplayingMessage", "DisplayingImage", "DisplayingSysExText"}
ScrollingStates == {"DisplayingMessage", "DisplayingSysExText"}
Asleep == "InPowerSavingMode"

DisplayInit ==
    /\ power = "Normal" /\ idle = 0 /\ sound = TRUE
    /\ deferred = FALSE /\ switchAge = 0 /\ pc0 = "power" /\ stamping = FALSE /\ shows = 0
    /\ ui = "None" /\ age = 0 /\ toScroll = 0 /\ m_bIsScrolling = FALSE
    /\ pc1 = "begin" /\ delta = 0 /\ branch = "keep" /\ lit = TRUE
    /\ unseen = FALSE /\ missed = {}

--------------------------------------------------------------------------------
MissedBy(who) == missed' = missed \cup (IF unseen THEN {who} ELSE {})

(* Core 0.  ShowSystemMessage and its likes set m_State first, then           *)
(* m_nStateTime (Stamp), which may be later than the clock that UITask has    *)
(* already read for the update it is in: age -1.                              *)
Show(state, scroll) ==
    /\ ui' = state /\ toScroll' = scroll
    /\ stamping' = TRUE /\ unseen' = TRUE
    /\ MissedBy("newer message")
    /\ UNCHANGED age

Stamp ==
    /\ stamping
    /\ stamping' = FALSE
    /\ age' \in IF pc1 = "scroll" THEN {-1, 0} ELSE {0}
    /\ UNCHANGED <<core1, power, idle, sound, deferred, switchAge, pc0, shows,
                   ui, toScroll, unseen, missed>>

(* CPower::Awaken; out of power saving it starts the sound and clears m_State. *)
Awaken ==
    /\ idle' = 0 /\ power' = "Normal" /\ sound' = TRUE

ClearState ==
    /\ ui' = "None" /\ unseen' = FALSE
    /\ MissedBy("awakening")
    /\ UNCHANGED <<age, toScroll>>

(* A MIDI message, a button, a USB device: whatever calls Awaken. *)
Activity ==
    /\ pc0 = "power" /\ ~stamping
    /\ Awaken
    /\ \/ power = "PowerSaving" /\ ClearState
       \/ power = "Normal" /\ UNCHANGED display
    /\ UNCHANGED <<core1, deferred, switchAge, pc0, stamping, shows>>

(* Any message or image core 0 puts up: LCDLog, a display SysEx, a warning. *)
ShowMessage(state, scroll) ==
    /\ pc0 = "power" /\ ~stamping
    /\ shows < MaxShows /\ shows' = shows + 1
    /\ Show(state, scroll)
    /\ UNCHANGED <<core1, power, idle, sound, deferred, switchAge, pc0>>

(* The SoundFont button: DeferSwitchSoundFont shows the name and sets the flag. *)
DeferSwitchSoundFont(scroll) ==
    /\ pc0 = "power" /\ ~stamping /\ power = "Normal"
    /\ shows < MaxShows /\ shows' = shows + 1
    /\ Show("DisplayingMessage", scroll)
    /\ deferred' = TRUE /\ switchAge' = 0
    /\ UNCHANGED <<core1, power, idle, sound, pc0>>

(* CPower::Update, once per pass. *)
PowerUpdate ==
    /\ pc0 = "power" /\ ~stamping
    /\ pc0' = "deferred"
    /\ \/ /\ power = "Normal" /\ idle >= PowerSaveTimeout
          /\ power' = "PowerSaving" /\ sound' = FALSE
          /\ Show("EnteringPowerSavingMode", 0)
          /\ UNCHANGED idle
       \/ /\ power = "PowerSaving" \/ idle < PowerSaveTimeout
          /\ idle' = IF idle < PowerSaveTimeout THEN idle + 1 ELSE idle
          /\ UNCHANGED <<display, power, sound, stamping>>
    /\ UNCHANGED <<core1, deferred, switchAge, shows>>

(* The deferred switch waits while a long name is scrolling. *)
DeferredCheck ==
    /\ pc0 = "deferred" /\ ~stamping
    /\ \/ /\ ~deferred
          /\ pc0' = "power" /\ UNCHANGED <<display, switchAge, stamping>>
       \/ /\ deferred /\ m_bIsScrolling
          /\ switchAge' = 0 /\ pc0' = "power" /\ UNCHANGED <<display, stamping>>
       \/ /\ deferred /\ ~m_bIsScrolling /\ switchAge < SwitchTimeout
          /\ switchAge' = switchAge + 1 /\ pc0' = "power" /\ UNCHANGED <<display, stamping>>
       \/ /\ deferred /\ ~m_bIsScrolling /\ switchAge >= SwitchTimeout
          /\ pc0' = "loading" /\ Show("DisplayingSpinnerMessage", 0) /\ UNCHANGED switchAge
    /\ UNCHANGED <<core1, power, idle, sound, deferred, shows>>

SwitchEnds_KeepsFlag ==   \* mutant
    /\ pc0 = "loading" /\ ~stamping
    /\ pc0' = "power"
    /\ Awaken
    /\ \/ power = "Normal" /\ Show("DisplayingMessage", 0)
       \/ ClearState /\ UNCHANGED stamping
    /\ UNCHANGED <<core1, deferred, switchAge, shows>>
(* SwitchSoundFont comes back: with the status or an error on the display, or *)
(* with nothing if the SoundFont synth is not the current one.                *)
SwitchEnds ==
    /\ pc0 = "loading" /\ ~stamping
    /\ pc0' = "power"
    /\ deferred' = FALSE
    /\ Awaken
    /\ \/ power = "Normal" /\ Show("DisplayingMessage", 0)
       \/ ClearState /\ UNCHANGED stamping
    /\ UNCHANGED <<core1, switchAge, shows>>

MainTask ==
    \/ Stamp
    \/ PowerUpdate
    \/ DeferredCheck
    \/ SwitchEnds

--------------------------------------------------------------------------------
(* Core 1.  UITask reads the clock once and hands it to Update, modelled      *)
(* read by read.                                                              *)
ReadClock ==
    /\ pc1 = "begin"
    /\ pc1' = "scroll"
    /\ age' = IF age < MessageTime THEN age + 1 ELSE age
    /\ UNCHANGED <<core0, m_bIsScrolling, delta, branch, lit, ui, toScroll, unseen, missed>>

(* nTicks - m_nStateTime is unsigned: before zero come the largest numbers. *)
Delta(a) == IF a < 0 THEN MessageTime ELSE a

UpdateScroll_Stuck ==   \* mutant
    /\ pc1 = "scroll"
    /\ pc1' = "decide"
    /\ m_bIsScrolling' = (ui \in ScrollingStates /\ toScroll > 0)
    /\ delta' = Delta(age)
    /\ UNCHANGED <<core0, branch, lit, display>>
UpdateScroll ==
    /\ pc1 = "scroll"
    /\ pc1' = "decide"
    /\ LET scrolls == ui \in ScrollingStates /\ toScroll > 0
           moves == scrolls /\ Delta(age) = MessageTime
       IN  /\ m_bIsScrolling' = scrolls
           /\ toScroll' = IF moves THEN toScroll - 1 ELSE toScroll
           /\ age' = IF moves THEN 0 ELSE age
           /\ delta' = Delta(age')
    /\ UNCHANGED <<core0, branch, lit, ui, unseen, missed>>

(* The chain of if and else if, which looks at m_State ... *)
Decide ==
    /\ pc1 = "decide"
    /\ pc1' = "act"
    /\ LET expired == delta >= MessageTime
           over == expired /\ (ui = "DisplayingImage" \/ (ui \in TimedStates /\ ~m_bIsScrolling))
           sleeps == expired /\ ui = "EnteringPowerSavingMode"
       IN  /\ branch' = IF over THEN "clear" ELSE IF sleeps THEN "sleep" ELSE "keep"
           /\ lit' = (lit /\ ~sleeps)
    /\ UNCHANGED <<core0, display, m_bIsScrolling, delta>>

(* ... and then sets it, whatever it has become. *)
Act ==
    /\ pc1 = "act"
    /\ pc1' = "light"
    /\ \/ /\ branch = "keep"
          /\ UNCHANGED display
       \/ /\ branch # "keep"
          /\ ui' = IF branch = "clear" THEN "None" ELSE Asleep
          /\ age' = 0
          /\ MissedBy("update")
          /\ unseen' = FALSE
          /\ UNCHANGED toScroll
    /\ UNCHANGED <<core0, m_bIsScrolling, delta, branch, lit>>

Light_Never ==   \* mutant
    /\ pc1 = "light"
    /\ pc1' = "draw"
    /\ UNCHANGED <<core0, display, m_bIsScrolling, delta, branch, lit>>
(* "Re-enable backlight" *)
Light ==
    /\ pc1 = "light"
    /\ pc1' = "draw"
    /\ lit' = (lit \/ ui # Asleep)
    /\ UNCHANGED <<core0, display, m_bIsScrolling, delta, branch>>

(* Draw, unless "Power saving mode: no-op". *)
Draw ==
    /\ pc1 = "draw"
    /\ pc1' = "begin"
    /\ unseen' = (unseen /\ ui = Asleep)
    /\ UNCHANGED <<core0, ui, age, toScroll, missed, m_bIsScrolling, delta, branch, lit>>

UITask == ReadClock \/ UpdateScroll \/ Decide \/ Act \/ Light \/ Draw

DisplayNext ==
    \/ MainTask
    \/ UITask
    \/ Activity
    \/ \E scroll \in ScrollSteps : \/ ShowMessage("DisplayingMessage", scroll)
                                   \/ ShowMessage("DisplayingSysExText", scroll)
                                   \/ DeferSwitchSoundFont(scroll)
    \/ ShowMessage("DisplayingImage", 0)

DisplaySpec == DisplayInit /\ [][DisplayNext]_displayVars

(* Both cores loop for ever. *)
DisplayFairSpec == DisplaySpec /\ WF_displayVars(MainTask) /\ WF_displayVars(UITask)

--------------------------------------------------------------------------------
(* A SoundFont chosen by button is switched to in the end: scrolling its name *)
(* on the other core holds the switch up, but not for ever.                   *)
DeferredSwitchHappens == deferred ~> ~deferred

(* Unless activity keeps coming, the system ends up asleep, whatever is on    *)
(* the display and whichever switch was pending: a switch, which awakens it,  *)
(* does not do so for ever (a bug fixed once: CHANGELOG.md:322).              *)
IdleSystemSleeps == []<><<Activity>>_displayVars \/ <>[](power = "PowerSaving" /\ ~sound)

(* However the two cores trample on m_State, the backlight comes back on for  *)
(* whatever state the display ends up in, unless that is the sleeping one.    *)
LitUnlessAsleep == ui # Asleep ~> (lit \/ ui = Asleep)

(* "Let LCD task pick up the message in its next update" (mt32pi.cpp:1343):   *)
(* an update never takes away a message it has not drawn.  Core 0 itself may: *)
(* it puts up the next one, or awakens from power saving, without waiting.    *)
UpdatesDrawBeforeClearing == "update" \notin missed
================================================================================
