----------------------------- MODULE RotaryEncoder -----------------------------
(***************************************************************************)
(* CRotaryEncoder (control/rotaryencoder.cpp): the timer interrupt follows *)
(* the Gray code of the pins and counts quarter steps; MainTask's Read     *)
(* takes whole clicks out of the count and leaves the rest, in a load and  *)
(* a store that an interrupt may come between.  The count is a byte, which *)
(* wraps when MainTask is away for long.  The pins are abstracted to where *)
(* the knob stands; a reversed encoder and the acceleration are left out.  *)
(***************************************************************************)
EXTENDS Integers

CONSTANTS StepsPerClick,   \* 4, 2, 1: TEncoderType Full, Half, Quarter
          MaxDelta,        \* 127, the largest s8
          MaxTurn          \* bound: how far the knob is turned and counted, and what is lost

ASSUME EncoderAssumption == /\ StepsPerClick \in {1, 2, 4}
                            /\ MaxDelta \in Nat /\ MaxDelta % 2 = 1 /\ MaxDelta >= 3
                            /\ MaxTurn \in Nat

VARIABLES m_nDelta, m_nPreviousState,
          loaded,      \* what Read has loaded and not stored back
          knob,        \* where the knob stands, in quarter steps
          clicks,      \* the sum of what Read has returned
          uncounted,   \* the steps interrupts have counted between load and store
          slipped      \* the knob has moved too fast for the samples or for m_nDelta

encoderVars == <<m_nDelta, m_nPreviousState, loaded, knob, clicks, uncounted, slipped>>

EncoderInit ==
    /\ knob = 0 /\ m_nPreviousState = 0
    /\ m_nDelta = 0 /\ loaded = {}
    /\ clicks = 0 /\ uncounted = 0 /\ slipped = FALSE

(* The pins as a binary number: one step on is one more. *)
Binary(position) == position % 4

(* nDiff & 1 tells a step from none, or from one too many, and nDiff & 2 its *)
(* direction, in two's complement.                                           *)
Step(diff) == IF diff % 2 = 0 THEN 0 ELSE (2 * ((diff \div 2) % 2)) - 1

(* In two's complement, one past either end is the other end. *)
Wrapped(n) == IF n > MaxDelta THEN -MaxDelta - 1 ELSE IF n < -MaxDelta - 1 THEN MaxDelta ELSE n

ReadGPIOPins(position) ==
    LET step == Step(m_nPreviousState - Binary(position))
    IN  /\ knob' = position
        /\ m_nDelta' = Wrapped(m_nDelta + step)
        /\ m_nPreviousState' = IF step = 0 THEN m_nPreviousState ELSE Binary(position)
        /\ uncounted' = IF loaded = {} THEN uncounted ELSE uncounted + step
        /\ slipped' = \/ slipped \/ position - knob \notin -1..1
                      \/ loaded = {} /\ m_nDelta' # m_nDelta + step
        /\ UNCHANGED <<loaded, clicks>>
        /\ {knob', StepsPerClick * clicks + m_nDelta', uncounted'} \subseteq -MaxTurn..MaxTurn

ReadLoads ==
    /\ loaded = {}
    /\ loaded' = {m_nDelta}
    /\ UNCHANGED <<m_nDelta, m_nPreviousState, knob, clicks, uncounted, slipped>>

(* The shift rounds down, and the mask leaves what that takes. *)
ReadStores_Truncates ==   \* mutant
    \E delta \in loaded :
        /\ clicks' = clicks + (IF delta < 0 THEN -((-delta) \div StepsPerClick)
                               ELSE delta \div StepsPerClick)
        /\ m_nDelta' = delta % StepsPerClick
        /\ loaded' = {}
        /\ UNCHANGED <<m_nPreviousState, knob, uncounted, slipped>>
ReadStores ==
    \E delta \in loaded :
        /\ clicks' = clicks + (delta \div StepsPerClick)
        /\ m_nDelta' = delta % StepsPerClick
        /\ loaded' = {}
        /\ UNCHANGED <<m_nPreviousState, knob, uncounted, slipped>>

EncoderNext ==
    \/ \E move \in -2..2 : ReadGPIOPins(knob + move)
    \/ ReadLoads \/ ReadStores

EncoderSpec == EncoderInit /\ [][EncoderNext]_encoderVars

--------------------------------------------------------------------------------
(* The clicks reported and the steps left make up where the knob stands, but *)
(* for the steps an interrupt counts in the middle of a Read; a knob turned  *)
(* too fast for the samples, or too far for the count, costs whole cycles of *)
(* four, so that the clicks stay where they were felt.                       *)
ClicksFollowTheKnob ==
    LET missing == knob - (StepsPerClick * clicks + m_nDelta + uncounted)
    IN  loaded = {} /\ m_nPreviousState = Binary(knob)
            => IF slipped THEN missing % 4 = 0 ELSE missing = 0
================================================================================
