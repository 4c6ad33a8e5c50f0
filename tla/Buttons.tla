-------------------------------- MODULE Buttons --------------------------------
(***************************************************************************)
(* CControl (control/control.cpp): a timer interrupt samples the button    *)
(* pins and debounces them; MainTask, on the same core, turns changes into *)
(* events, one bit after the other, and may be interrupted at any of them. *)
(* The event queue of the model always has room (SynthControl has one that *)
(* fills up).                                                              *)
(***************************************************************************)
EXTENDS Integers, Sequences

CONSTANTS Buttons,                  \* the bits of the mask, 0 .. n - 1
          ButtonStateHistoryLength  \* 16 in the code

ASSUME ButtonsAssumption == /\ Buttons \subseteq Nat /\ \A b \in Buttons : 0..b \subseteq Buttons
                            /\ ButtonStateHistoryLength \in Nat \ {0}

VARIABLES m_ButtonStateHistory, m_nButtonStateHistoryIndex,   \* sets of pins that are high
          m_nButtonState, m_nLastButtonState,                 \* sets of buttons pressed
          bit,       \* the bit Update is at
          told,      \* the buttons whose last event said pressed
          window,    \* the last samples, newest first
          changed    \* buttons an interrupt has changed during an Update, with no event since

Idle == -1   \* MainTask is not in Update

historyVars == <<m_ButtonStateHistory, m_nButtonStateHistoryIndex, window>>
buttonVars  == <<historyVars, m_nButtonState, m_nLastButtonState, bit, told, changed>>

ButtonsInit ==
    /\ m_ButtonStateHistory = [i \in 0..ButtonStateHistoryLength - 1 |-> {}]
    /\ m_nButtonStateHistoryIndex = 0
    /\ m_nButtonState = {} /\ m_nLastButtonState = {}
    /\ bit = Idle /\ told = {}
    /\ window = <<>>
    /\ changed = {}

(* ReadGPIOPins with DebounceButtonState; the pins are high when released.   *)
DebounceButtonState_SkipsNewest(high) ==   \* mutant
    m_nButtonState' = {b \in Buttons : \E i \in DOMAIN m_ButtonStateHistory :
                                           b \notin m_ButtonStateHistory[i]}
DebounceButtonState(high) ==
    m_nButtonState' = {b \in Buttons : \E i \in DOMAIN m_ButtonStateHistory :
                                           b \notin m_ButtonStateHistory'[i]}

InterruptHandler(high) ==
    /\ m_ButtonStateHistory' = [m_ButtonStateHistory EXCEPT ![m_nButtonStateHistoryIndex] = high]
    /\ m_nButtonStateHistoryIndex' = (m_nButtonStateHistoryIndex + 1) % ButtonStateHistoryLength
    /\ DebounceButtonState(high)
    /\ window' = <<high>> \o (IF Len(window) < ButtonStateHistoryLength THEN window
                              ELSE SubSeq(window, 1, ButtonStateHistoryLength - 1))
    /\ changed' = IF bit = Idle THEN changed
                  ELSE changed \cup {b \in Buttons : (b \in m_nButtonState) # (b \in m_nButtonState')}
    /\ UNCHANGED <<m_nLastButtonState, bit, told>>

(* The synths are loaded before MainTask begins: the history, at first all   *)
(* zeros, which is all buttons down, is full by then.                        *)
UpdateBegins ==
    /\ bit = Idle /\ Len(window) = ButtonStateHistoryLength
    /\ m_nButtonState # m_nLastButtonState
    /\ bit' = 0
    /\ UNCHANGED <<historyVars, m_nButtonState, m_nLastButtonState, told, changed>>

(* One turn of the loop: an event if the bit differs. *)
UpdateBit ==
    /\ bit \in Buttons
    /\ IF (bit \in m_nButtonState) # (bit \in m_nLastButtonState)
       THEN /\ told' = IF bit \in m_nButtonState THEN told \cup {bit} ELSE told \ {bit}
            /\ changed' = changed \ {bit}
       ELSE UNCHANGED <<told, changed>>
    /\ bit' = bit + 1
    /\ UNCHANGED <<historyVars, m_nButtonState, m_nLastButtonState>>

UpdateEnds ==
    /\ bit \notin Buttons /\ bit # Idle
    /\ m_nLastButtonState' = m_nButtonState
    /\ bit' = Idle
    /\ UNCHANGED <<historyVars, m_nButtonState, told, changed>>

ButtonsNext ==
    \/ \E high \in SUBSET Buttons : InterruptHandler(high)
    \/ UpdateBegins \/ UpdateBit \/ UpdateEnds

ButtonsSpec == ButtonsInit /\ [][ButtonsNext]_buttonVars

--------------------------------------------------------------------------------
(* Between Updates the last event of every button says whether any of the    *)
(* latest samples had it down, so that contacts may bounce; only a change    *)
(* that an interrupt makes during Update can go unreported, and the next     *)
(* one puts that right.                                                      *)
EventsAreDebounced ==
    bit = Idle /\ m_nButtonState = m_nLastButtonState /\ Len(window) = ButtonStateHistoryLength
        => \A b \in Buttons \ changed :
               b \in told <=> \E i \in DOMAIN window : b \notin window[i]
================================================================================
