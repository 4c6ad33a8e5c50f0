---------------------------- MODULE LifecycleProofs ----------------------------
(***************************************************************************)
(* Wherever a panic may strike, at most one core drives the LCD, and all a *)
(* reboot can cut short is a panic screen of core 2 or 3.  And what two    *)
(* cores that write the display's state without a lock can do to it: only  *)
(* if a write falls into an update does an update clear what it has not    *)
(* drawn, or the display stay asleep.                                      *)
(***************************************************************************)
EXTENDS Lifecycle, PowerDisplay, TLAPS

(* Before the other cores are started, they do nothing. *)
InitAlone == core["main"] = "init" => \A c \in Cores \ {"main"} : core[c] = "off"

(* Only the core that panicked is in the panic handler. *)
OneHandler == \A c \in Cores : core[c] \in Handler => c = panicked

(* It shows its message only once the UI task is done ... *)
GuruHasWaited == \A c \in Cores : core[c] = "guru" => m_bUITaskDone

(* ... and a UI task that is done never touches the LCD again. *)
DoneHasReturned == m_bUITaskDone => core["ui"] = "returned"

(* The machine reboots when MainTask has seen the UI task done and returned; *)
(* a panic handler that waits on the LCD is stopped by that.                 *)
RebootsAfterReturn ==
    machine = "rebooting" => core["main"] = "returned" /\ m_bUITaskDone

IInv == /\ TypeOK /\ InitAlone /\ OneHandler /\ GuruHasWaited /\ DoneHasReturned
        /\ RebootsAfterReturn

(* core is a function on the cores: TypeOK names its values only. *)
Shape == core = [c \in Cores |-> core[c]]

LEMMA InitIInv == Init => IInv /\ Shape
  BY DEF Init, IInv, Shape, TypeOK, InitAlone, OneHandler, GuruHasWaited, DoneHasReturned,
         RebootsAfterReturn, Cores, NoCore, Handler

LEMMA NextIInv == IInv /\ Shape /\ [Next]_vars => (IInv /\ Shape)'
<1> SUFFICES ASSUME IInv, Shape, [Next]_vars
             PROVE  (IInv /\ Shape)'
    OBVIOUS
<1> USE DEF IInv, Shape, TypeOK, InitAlone, OneHandler, GuruHasWaited, DoneHasReturned,
            RebootsAfterReturn, Cores, NoCore, Handler
<1>1. CASE StartCores
  BY <1>1 DEF StartCores
<1>2. CASE MainLoop
  BY <1>2 DEF MainLoop, GoTo
<1>3. CASE StopAudio \/ MainReturns
  BY <1>3 DEF StopAudio, MainReturns, GoTo
<1>4. CASE Reboot
  <2>1. TypeOK'
    <3>1. UNCHANGED <<m_bUITaskDone, m_pLCD, bMisterEnabled, core, panicked, machine>>
      BY <1>4 DEF Reboot
    <3>2. m_bRunning' \in BOOLEAN
      BY <1>4, Zenon DEF Reboot
    <3> QED
      BY <3>1, <3>2
  <2>2. InitAlone'
    BY <1>4 DEF Reboot
  <2>3. OneHandler'
    BY <1>4 DEF Reboot
  <2>4. GuruHasWaited'
    BY <1>4 DEF Reboot
  <2>5. DoneHasReturned'
    BY <1>4 DEF Reboot
  <2>6. Shape'
    BY <1>4 DEF Reboot
  <2>7. RebootsAfterReturn'
    BY <1>4 DEF Reboot
  <2> QED
    BY <2>1, <2>2, <2>3, <2>4, <2>5, <2>6, <2>7
<1>5. CASE UIBailsOut
  BY <1>5 DEF UIBailsOut, GoTo
<1>6. CASE UILoop
  BY <1>6 DEF UILoop, GoTo
<1>7. CASE UIEnds
  BY ZenonT(30), <1>7 DEF UIEnds, GoTo
<1>8. CASE AudioLoop
  BY <1>8 DEF AudioLoop, GoTo
<1>9. CASE DiatoLoop
  <2>1. TypeOK'
    BY <1>9 DEF DiatoLoop, GoTo
  <2>2. InitAlone'
    BY <1>9 DEF DiatoLoop, GoTo
  <2>3. OneHandler'
    BY <1>9 DEF DiatoLoop, GoTo
  <2>4. GuruHasWaited'
    BY <1>9 DEF DiatoLoop, GoTo
  <2>5. DoneHasReturned'
    BY <1>9 DEF DiatoLoop, GoTo
  <2>6. Shape'
    BY <1>9 DEF DiatoLoop, GoTo
  <2>7. RebootsAfterReturn'
    BY <1>9 DEF DiatoLoop, GoTo
  <2> QED
    BY <2>1, <2>2, <2>3, <2>4, <2>5, <2>6, <2>7
<1>10. ASSUME NEW c \in Cores, Panic(c)
       PROVE  (IInv /\ Shape)'
  <2>1. TypeOK'
    BY <1>10 DEF Panic, CanPanic
  <2>2. InitAlone'
    BY <1>10 DEF Panic, CanPanic
  <2>3. OneHandler'
    BY <1>10 DEF Panic, CanPanic
  <2>4. GuruHasWaited'
    BY <1>10 DEF Panic, CanPanic
  <2>5. DoneHasReturned'
    BY <1>10 DEF Panic, CanPanic
  <2>6. Shape'
    BY <1>10 DEF Panic, CanPanic
  <2>7. RebootsAfterReturn'
    BY <1>10 DEF Panic, CanPanic
  <2> QED
    BY <2>1, <2>2, <2>3, <2>4, <2>5, <2>6, <2>7
<1>11. ASSUME NEW c \in Cores, Guru(c)
       PROVE  (IInv /\ Shape)'
  <2>1. TypeOK'
    BY <1>11 DEF Guru, GoTo
  <2>2. InitAlone'
    BY <1>11 DEF Guru, GoTo
  <2>3. OneHandler'
    BY <1>11 DEF Guru, GoTo
  <2>4. GuruHasWaited'
    BY <1>11 DEF Guru, GoTo
  <2>5. DoneHasReturned'
    BY <1>11 DEF Guru, GoTo
  <2>6. Shape'
    BY <1>11 DEF Guru, GoTo
  <2>7. RebootsAfterReturn'
    BY <1>11 DEF Guru, GoTo
  <2> QED
    BY <2>1, <2>2, <2>3, <2>4, <2>5, <2>6, <2>7
<1>12. ASSUME NEW c \in Cores, Halt(c)
       PROVE  (IInv /\ Shape)'
  BY <1>12 DEF Halt, GoTo
<1>13. CASE UNCHANGED vars
  BY <1>13 DEF vars
<1> QED
  BY <1>1, <1>2, <1>3, <1>4, <1>5, <1>6, <1>7, <1>8, <1>9, <1>10, <1>11, <1>12, <1>13
     DEF Next, Core0, Core1, PanicHandler, Over

LEMMA IInvAlways == Spec => [](IInv /\ Shape)
<1> QED
  BY InitIInv, NextIInv, PTL DEF Spec

(* Type correctness of the life cycle, whatever may panic: the tasks of the   *)
(* cores are only ever in states of their own.                                *)
THEOREM LifecycleTypeCorrect == Spec => []TypeOK
<1>1. IInv => TypeOK
  BY DEF IInv
<1> QED
  BY <1>1, IInvAlways, PTL

(* The start-up code, the UI task and the panic handler never drive the LCD  *)
(* at the same time, wherever a panic may strike: the two flags suffice.     *)
THEOREM LcdExclusive == Spec => []LcdHasOneUser
<1>1. IInv => LcdHasOneUser
  BY DEF IInv, TypeOK, InitAlone, OneHandler, GuruHasWaited, DoneHasReturned,
         LcdHasOneUser, LcdUsers, Cores, NoCore, Handler
<1> QED
  BY <1>1, IInvAlways, PTL

(* When the machine reboots, the UI task and the start-up code have finished *)
(* with the LCD: MainTask waits for the one and comes after the other, and a *)
(* handler of cores 0 or 1 keeps it from getting there.  What it cuts is a   *)
(* panic screen of core 2 or 3 at most, which it does not wait for.          *)
THEOREM RebootCutsOnlyPanicScreens == Spec => []OnlyPanicScreensAreCut
<1>1. IInv => OnlyPanicScreensAreCut
  <2> SUFFICES ASSUME IInv, machine = "rebooting", NEW c \in LcdUsers
               PROVE  c \in {"audio", "diato"} /\ c = panicked
    BY DEF OnlyPanicScreensAreCut
  <2>1. core["main"] = "returned" /\ core["ui"] = "returned"
    BY DEF IInv, RebootsAfterReturn, DoneHasReturned
  <2>2. c \in {"audio", "diato"} /\ core[c] = "guru"
    BY <2>1 DEF IInv, TypeOK, LcdUsers, Cores, Handler
  <2> QED
    BY <2>2 DEF IInv, OneHandler, Cores, Handler
<1> QED
  BY <1>1, IInvAlways, PTL

--------------------------------------------------------------------------------
(* The display.  PowerDisplayLost.cfg shows an update that clears a message   *)
(* it has not drawn.  What follows says that it takes the race shown there.   *)

(* Core 0 writes m_State or m_nStateTime while core 1 is in an update, or     *)
(* core 1 begins an update between the two writes of core 0.                  *)
UpdateRaces ==
    \/ pc1 # "begin" /\ pc1' = pc1 /\ <<ui, stamping>>' # <<ui, stamping>>
    \/ pc1 = "begin" /\ pc1' # "begin" /\ stamping

(* "InPowerSavingMode" is left when the system awakens: nobody else relights. *)
DarkOnlyAsleep == power = "Normal" => ui # Asleep

(* An undrawn message is too young for the update that comes to it to clear;  *)
(* an update that puts the display to sleep found the system asleep.          *)
DisplayInv ==
    /\ age \in 0..MessageTime /\ delta \in 0..MessageTime
    /\ branch \in {"keep", "clear", "sleep"}
    /\ pc1 \in {"begin", "scroll", "decide", "act", "light", "draw"}
    /\ stamping => pc1 = "begin"
    /\ unseen => ui # Asleep
    /\ (unseen /\ pc1 = "begin") => (stamping \/ age = 0)
    /\ (unseen /\ pc1 = "scroll") => age <= 1
    /\ (unseen /\ pc1 = "decide") => delta <= 1
    /\ (unseen /\ pc1 = "act") => branch = "keep"
    /\ (pc1 = "act" /\ branch = "sleep") => ui = "EnteringPowerSavingMode"
    /\ ui \in {"EnteringPowerSavingMode", Asleep} => power = "PowerSaving"
    /\ "update" \notin missed

LEMMA InitDisplayInv == DisplayInit => DisplayInv
  BY DisplayAssumption DEF DisplayInit, DisplayInv, Asleep

(* What core 0 puts up comes between two updates and is no sleeping state,    *)
(* but for the notice of power saving.                                        *)
LEMMA ShowDisplayInv ==
    ASSUME DisplayInv, ~stamping, ~UpdateRaces, NEW state, NEW scroll, Show(state, scroll),
           UNCHANGED core1, state # Asleep,
           power' = "PowerSaving" \/ state # "EnteringPowerSavingMode"
    PROVE  DisplayInv'
<1>1. pc1 = "begin"
  BY DEF Show, UpdateRaces, core1, DisplayInv
<1> QED
  BY <1>1 DEF Show, MissedBy, core1, DisplayInv, Asleep

(* Awakening clears the display, unless it has nothing to clear.              *)
LEMMA AwakenDisplayInv ==
    ASSUME DisplayInv, ~UpdateRaces, Awaken, ClearState, UNCHANGED core1, UNCHANGED stamping
    PROVE  DisplayInv'
<1>1. pc1 = "begin" \/ ui = "None"
  BY DEF ClearState, UpdateRaces, core1, DisplayInv
<1> QED
  BY <1>1 DEF Awaken, ClearState, MissedBy, core1, DisplayInv, Asleep

LEMMA NextDisplayInv ==
    ASSUME MessageTime > 1, DisplayInv, [DisplayNext]_displayVars, [~UpdateRaces]_displayVars
    PROVE  DisplayInv'
<1> USE DisplayAssumption
<1>0. CASE UNCHANGED displayVars
  BY <1>0 DEF displayVars, core0, core1, display, DisplayInv
<1> SUFFICES ASSUME DisplayNext, ~UpdateRaces
             PROVE  DisplayInv'
  BY <1>0
<1>1. CASE Stamp
  BY <1>1 DEF Stamp, core1, DisplayInv
<1>2. CASE PowerUpdate
  <2>1. CASE Show("EnteringPowerSavingMode", 0) /\ power' = "PowerSaving"
    BY <1>2, <2>1, ShowDisplayInv DEF PowerUpdate, Asleep
  <2>2. CASE UNCHANGED <<display, power, sound, stamping>>
    BY <1>2, <2>2 DEF PowerUpdate, core1, display, DisplayInv
  <2> QED
    BY <1>2, <2>1, <2>2 DEF PowerUpdate
<1>3. CASE DeferredCheck
  <2>1. CASE Show("DisplayingSpinnerMessage", 0)
    BY <1>3, <2>1, ShowDisplayInv DEF DeferredCheck, Asleep
  <2>2. CASE UNCHANGED <<display, stamping>>
    BY <1>3, <2>2 DEF DeferredCheck, core1, display, DisplayInv
  <2> QED
    BY <1>3, <2>1, <2>2 DEF DeferredCheck
<1>4. CASE SwitchEnds
  <2>1. CASE Show("DisplayingMessage", 0)
    BY <1>4, <2>1, ShowDisplayInv DEF SwitchEnds, Asleep
  <2>2. CASE ClearState /\ UNCHANGED stamping
    BY <1>4, <2>2, AwakenDisplayInv DEF SwitchEnds
  <2> QED
    BY <1>4, <2>1, <2>2 DEF SwitchEnds
<1>5. CASE Activity
  <2>1. CASE power = "PowerSaving" /\ ClearState
    BY <1>5, <2>1, AwakenDisplayInv DEF Activity
  <2>2. CASE power = "Normal" /\ UNCHANGED display
    BY <1>5, <2>2 DEF Activity, Awaken, core1, display, DisplayInv
  <2> QED
    BY <1>5, <2>1, <2>2 DEF Activity
<1>6. ASSUME NEW state \in ScrollingStates \cup {"DisplayingImage"}, NEW scroll,
             ShowMessage(state, scroll)
      PROVE  DisplayInv'
  BY <1>6, ShowDisplayInv DEF ShowMessage, ScrollingStates, Asleep
<1>7. ASSUME NEW scroll, DeferSwitchSoundFont(scroll)
      PROVE  DisplayInv'
  BY <1>7, ShowDisplayInv DEF DeferSwitchSoundFont, Asleep
<1>8. CASE ReadClock
  BY <1>8 DEF ReadClock, core0, DisplayInv, UpdateRaces
<1>9. CASE UpdateScroll
  BY <1>9 DEF UpdateScroll, core0, Delta, DisplayInv
<1>10. CASE Decide
  BY <1>10 DEF Decide, core0, display, DisplayInv
<1>11. CASE Act
  <2>1. CASE branch = "keep"
    BY <1>11, <2>1 DEF Act, core0, display, DisplayInv, Asleep
  <2>2. CASE branch # "keep"
    <3>1. ~unseen /\ "update" \notin missed
      BY <1>11, <2>2 DEF Act, DisplayInv
    <3>2. "update" \notin missed' /\ ~unseen'
      BY <1>11, <2>2, <3>1 DEF Act, MissedBy
    <3>3. ui' = Asleep => power' = "PowerSaving"
      BY <1>11, <2>2 DEF Act, core0, DisplayInv, Asleep
    <3>4. ui' # "EnteringPowerSavingMode"
      BY <1>11, <2>2 DEF Act, Asleep
    <3> QED
      BY <1>11, <2>2, <3>2, <3>3, <3>4 DEF Act, core0, DisplayInv
  <2> QED
    BY <2>1, <2>2
<1>12. CASE Light
  BY <1>12 DEF Light, core0, display, DisplayInv
<1>13. CASE Draw
  BY <1>13 DEF Draw, core0, DisplayInv
<1> QED
  BY <1>1, <1>2, <1>3, <1>4, <1>5, <1>6, <1>7, <1>8, <1>9, <1>10, <1>11, <1>12, <1>13
     DEF DisplayNext, MainTask, UITask, ScrollingStates

(* "Let LCD task pick up the message in its next update" (mt32pi.cpp:1343):   *)
(* if no write of core 0 falls into an update, no update clears a message it  *)
(* has not drawn, and no display is left asleep on a system that is awake.  A *)
(* lock around Update and around each pair of writes would give that.  Core 0 *)
(* may still put up the next message, or awaken, before the last was drawn.   *)
THEOREM WithoutRacesUpdatesDraw ==
    ASSUME MessageTime > 1
    PROVE  DisplaySpec /\ [][~UpdateRaces]_displayVars
               => [](UpdatesDrawBeforeClearing /\ DarkOnlyAsleep)
<1>1. DisplayInit => DisplayInv
  BY InitDisplayInv
<1>2. DisplayInv /\ [DisplayNext]_displayVars /\ [~UpdateRaces]_displayVars => DisplayInv'
  BY NextDisplayInv
<1>3. DisplayInv => UpdatesDrawBeforeClearing /\ DarkOnlyAsleep
  BY DEF DisplayInv, UpdatesDrawBeforeClearing, DarkOnlyAsleep, Asleep
<1> QED
  BY <1>1, <1>2, <1>3, PTL DEF DisplaySpec
================================================================================
