------------------------------- MODULE Lifecycle -------------------------------
(***************************************************************************)
(* Start-up, reboot and panic: core 0 initialises everything, starts the   *)
(* tasks of the other cores and runs MainTask; m_bRunning tells the tasks  *)
(* to stop, m_bUITaskDone tells core 0 and the panic handler that the LCD  *)
(* is free.  Both flags are volatile and nothing else synchronises them.   *)
(***************************************************************************)
EXTENDS Naturals

CONSTANT PanicSites   \* where a panic may happen: "init", or the task of a core

Cores == {"main", "ui", "audio", "diato"}   \* cores 0, 1, 2 and 3, by their tasks

ASSUME LifecycleAssumption == PanicSites \subseteq {"init"} \cup Cores

VARIABLES m_bRunning, m_bUITaskDone,
          m_pLCD, bMisterEnabled,   \* the configuration: an LCD, a MiSTer interface
          core,                     \* where each core is
          panicked,                 \* the core whose panic handler runs, or "none"
          machine                   \* "on", "rebooting", "halted"

vars == <<m_bRunning, m_bUITaskDone, m_pLCD, bMisterEnabled, core, panicked, machine>>

NoCore == "none"
Handler == {"waiting", "guru", "halting"}   \* stages of PanicHandler

Init ==
    /\ m_bRunning = TRUE /\ m_bUITaskDone = FALSE
    /\ m_pLCD \in BOOLEAN /\ bMisterEnabled \in BOOLEAN
    /\ core = [c \in Cores |-> IF c = "main" THEN "init" ELSE "off"]
    /\ panicked = NoCore /\ machine = "on"

GoTo(c, from, to) ==
    /\ machine = "on" /\ core[c] = from
    /\ core' = [core EXCEPT ![c] = to]
    /\ UNCHANGED <<m_pLCD, bMisterEnabled>>

--------------------------------------------------------------------------------
(* Core 0: Initialize starts the other cores last, then MainTask runs here. *)
StartCores ==
    /\ machine = "on" /\ core["main"] = "init"
    /\ core' = [c \in Cores |-> IF c = "main" THEN "loop" ELSE "start"]
    /\ UNCHANGED <<m_bRunning, m_bUITaskDone, m_pLCD, bMisterEnabled, panicked, machine>>

(* A pass of MainTask's loop, and the test of m_bRunning that ends it. *)
MainLoop ==
    /\ \/ m_bRunning /\ GoTo("main", "loop", "pass")
       \/ ~m_bRunning /\ GoTo("main", "loop", "cancel")
       \/ GoTo("main", "pass", "loop")
    /\ UNCHANGED <<m_bRunning, m_bUITaskDone, panicked, machine>>

(* The reboot SysEx, F0 7D 00 F7, parsed by UpdateMIDI. *)
Reboot ==
    /\ machine = "on" /\ core["main"] = "pass"
    /\ m_bRunning' = FALSE
    /\ UNCHANGED <<m_bUITaskDone, m_pLCD, bMisterEnabled, core, panicked, machine>>

StopAudio ==
    /\ GoTo("main", "cancel", "stopped")
    /\ UNCHANGED <<m_bRunning, m_bUITaskDone, panicked, machine>>

MainReturns_DoesNotWait ==   \* mutant
    /\ GoTo("main", "stopped", "returned")
    /\ machine' = "rebooting"
    /\ UNCHANGED <<m_bRunning, m_bUITaskDone, panicked>>
(* "Wait for UI task to finish"; then CKernel::Run returns ShutdownReboot. *)
MainReturns ==
    /\ m_bUITaskDone
    /\ GoTo("main", "stopped", "returned")
    /\ machine' = "rebooting"
    /\ UNCHANGED <<m_bRunning, m_bUITaskDone, panicked>>

--------------------------------------------------------------------------------
UIBailsOut_Silently ==   \* mutant
    /\ ~(m_pLCD \/ bMisterEnabled)
    /\ GoTo("ui", "start", "returned")
    /\ UNCHANGED <<m_bRunning, m_bUITaskDone, panicked, machine>>
(* Core 1: "Nothing for this core to do; bail out". *)
UIBailsOut ==
    /\ ~(m_pLCD \/ bMisterEnabled)
    /\ GoTo("ui", "start", "returned")
    /\ m_bUITaskDone' = TRUE
    /\ UNCHANGED <<m_bRunning, panicked, machine>>

(* While running it draws on the LCD; at the end it clears the screen. *)
UILoop ==
    /\ \/ (m_pLCD \/ bMisterEnabled) /\ GoTo("ui", "start", "loop")
       \/ m_bRunning /\ GoTo("ui", "loop", "drawing")
       \/ GoTo("ui", "drawing", "loop")
       \/ ~m_bRunning /\ GoTo("ui", "loop", "clearing")
    /\ UNCHANGED <<m_bRunning, m_bUITaskDone, panicked, machine>>

UIEnds_Forgets ==   \* mutant
    /\ GoTo("ui", "clearing", "returned")
    /\ m_bUITaskDone' = ~m_pLCD
    /\ UNCHANGED <<m_bRunning, panicked, machine>>
UIEnds ==
    /\ GoTo("ui", "clearing", "returned")
    /\ m_bUITaskDone' = TRUE
    /\ UNCHANGED <<m_bRunning, panicked, machine>>

(* Core 2 loops while m_bRunning, core 3 for ever. *)
AudioLoop ==
    /\ \/ GoTo("audio", "start", "loop")
       \/ m_bRunning /\ GoTo("audio", "loop", "pass")
       \/ GoTo("audio", "pass", "loop")
       \/ ~m_bRunning /\ GoTo("audio", "loop", "returned")
    /\ UNCHANGED <<m_bRunning, m_bUITaskDone, panicked, machine>>

DiatoLoop ==
    /\ GoTo("diato", "start", "loop")
    /\ UNCHANGED <<m_bRunning, m_bUITaskDone, panicked, machine>>

--------------------------------------------------------------------------------
(* A panic: one of the two LogPanic of Initialize, or an exception in a task. *)
(* The handler tells the UI task to stop; without an LCD it returns at once,  *)
(* and Circle halts the machine.                                              *)
CanPanic(c) ==
    /\ panicked = NoCore
    /\ \/ c \in PanicSites /\ core[c] \in {"loop", "pass", "drawing"}
       \/ c = "main" /\ "init" \in PanicSites /\ core["main"] = "init"

Panic(c) ==
    /\ machine = "on" /\ CanPanic(c)
    /\ panicked' = c
    /\ \/ m_pLCD /\ m_bRunning' = FALSE /\ core' = [core EXCEPT ![c] = "waiting"]
       \/ ~m_pLCD /\ core' = [core EXCEPT ![c] = "halting"] /\ UNCHANGED m_bRunning
    /\ UNCHANGED <<m_bUITaskDone, m_pLCD, bMisterEnabled, machine>>

Guru_DoesNotWait(c) ==   \* mutant
    /\ GoTo(c, "waiting", "guru")
    /\ UNCHANGED <<m_bRunning, m_bUITaskDone, panicked, machine>>
(* while (!m_bUITaskDone); then two minutes of "Guru Meditation:" ... *)
Guru(c) ==
    /\ m_bUITaskDone
    /\ GoTo(c, "waiting", "guru")
    /\ UNCHANGED <<m_bRunning, m_bUITaskDone, panicked, machine>>

(* ... and "System halted". *)
Halt(c) ==
    /\ \/ GoTo(c, "guru", "halting") /\ UNCHANGED machine
       \/ GoTo(c, "halting", "returned") /\ machine' = "halted"
    /\ UNCHANGED <<m_bRunning, m_bUITaskDone, panicked>>

PanicHandler(c) == Guru(c) \/ Halt(c)

(* The machine reboots or stays halted: the end of this story. *)
Over == machine # "on" /\ UNCHANGED vars

Core0 == StartCores \/ MainLoop \/ StopAudio \/ MainReturns
Core1 == UIBailsOut \/ UILoop \/ UIEnds

Next ==
    \/ Core0
    \/ Core1
    \/ AudioLoop
    \/ DiatoLoop
    \/ Reboot
    \/ \E c \in Cores : Panic(c) \/ PanicHandler(c)
    \/ Over

Spec == Init /\ [][Next]_vars

(* The cores run in parallel: none waits for another's turn. *)
FairSpec ==
    /\ Spec
    /\ WF_vars(Core0) /\ WF_vars(Core1) /\ WF_vars(AudioLoop) /\ WF_vars(DiatoLoop)
    /\ \A c \in Cores : WF_vars(PanicHandler(c))

--------------------------------------------------------------------------------
TypeOK ==
    /\ m_bRunning \in BOOLEAN /\ m_bUITaskDone \in BOOLEAN
    /\ m_pLCD \in BOOLEAN /\ bMisterEnabled \in BOOLEAN
    /\ core["main"] \in {"init", "loop", "pass", "cancel", "stopped", "returned"} \cup Handler
    /\ core["ui"] \in {"off", "start", "loop", "drawing", "clearing", "returned"} \cup Handler
    /\ core["audio"] \in {"off", "start", "loop", "pass", "returned"} \cup Handler
    /\ core["diato"] \in {"off", "start", "loop", "returned"} \cup Handler
    /\ panicked \in Cores \cup {NoCore} /\ machine \in {"on", "rebooting", "halted"}

LcdUsers == {c \in Cores : core[c] \in {"init", "drawing", "clearing", "guru"}}

(* Start-up messages, the UI task, the panic handler: at most one of them    *)
(* drives the LCD.                                                           *)
LcdHasOneUser == m_pLCD => \A c, d \in LcdUsers : c = d

(* The machine does not reboot while the LCD is being drawn, but for one     *)
(* case: a panic on core 2 or 3 stops MainTask's loop, and core 0 reboots    *)
(* without waiting for the panic screen.                                     *)
OnlyPanicScreensAreCut ==
    machine = "rebooting" /\ m_pLCD => LcdUsers \subseteq {"audio", "diato"} \cap {panicked}

(* A reboot command reboots the machine, with or without LCD and MiSTer,     *)
(* unless a panic comes between.                                             *)
RebootCompletes ==
    (~m_bRunning /\ panicked = NoCore) ~> (machine = "rebooting" \/ panicked # NoCore)

(* A panic of core 0 ends in the message on the LCD, two minutes later in    *)
(* the halt; one of core 2 or 3 in that or, sooner, in core 0's reboot.      *)
PanicEndsHalted ==
    /\ panicked = "main" ~> machine = "halted"
    /\ panicked \in {"audio", "diato"} ~> machine # "on"
================================================================================
