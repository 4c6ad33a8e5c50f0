---------------------------- MODULE AccordionProofs ----------------------------
(***************************************************************************)
(* The accordion.  For every keyboard, all note tables, commands and       *)
(* presets and whatever the menu makes of channels and octaves: the        *)
(* accordion leaves no note stuck; and with a channel for each voice, it   *)
(* leaves none out.  For every buffer and every size of chunk, the looper  *)
(* records inside its buffer, and the display of core 3 keeps in step with *)
(* the FSM of core 2.                                                      *)
(***************************************************************************)
EXTENDS Looper, DiatoTask, TLAPS

--------------------------------------------------------------------------------
(* The keyboard.                                                               *)
(* Channel 0 is never sent to, and the menu key silences both hands: all a    *)
(* command can change the meaning of is what does not sound.                  *)
KeyboardInv ==
    /\ OnlyHeldNotesSound
    /\ \A x \in sounding : x[1] # 0
    /\ MenuKey \in R_press => R_played_note = {} /\ L_played_note = {}

(* What sounds after a hand's changes have been sent is what this hand plays, *)
(* or what others play.                                                       *)
LEMMA SentSettles ==
    ASSUME NEW before, NEW ch, NEW now, NEW prev, NEW turned, NEW velocity, NEW at,
           \A x \in before : x[1] # 0,
           NEW x \in Sent(before, ch, now, prev, turned, velocity, at)
    PROVE  /\ x \in Sounds(ch, now, at) \/ (x \in before /\ x \notin Sounds(ch, prev, at))
           /\ x[1] # 0
  <1> DEFINE struck  == Struck(now, prev, turned)
             changed == (prev \ now) \cup struck
  <1>1. struck \subseteq now
    BY DEF Struck
  <1>2. CASE ch = 0
    BY <1>2 DEF Sent, Sounds
  <1>3. CASE ch # 0
    <2>1. (x \in before /\ x \notin Sounds(ch, changed, at)) \/ x \in Sounds(ch, struck, at)
      BY <1>3 DEF Sent, Sounds
    <2>2. CASE x \in Sounds(ch, struck, at)
      BY <1>1, <1>3, <2>2 DEF Sounds
    <2>3. CASE x \in before /\ x \notin Sounds(ch, changed, at)
      <3>1. x \in Sounds(ch, prev, at) => x \in Sounds(ch, now, at)
        BY <2>3 DEF Sounds
      <3> QED
        BY <2>3, <3>1
    <2> QED
      BY <2>1, <2>2, <2>3
  <1> QED
    BY <1>2, <1>3

(* A turn in which no command is obeyed sends the changes of both hands.      *)
LEMMA TurnSettles ==
    ASSUME NEW before, NEW c, NEW right, NEW left, NEW turned, NEW velocity,
           \A x \in before : x[1] # 0,
           NEW x \in Sent(Sent(Sent(before, c.channel_rh, right, R_played_note, turned, velocity,
                                    Voices(c)),
                               VIBRATO_CHANNEL, right, R_played_note, turned, velocity,
                               VibratoVoice(c)),
                          c.channel_lh, left, L_played_note, turned, velocity, {0})
    PROVE  /\ \/ x \in Sounds(c.channel_lh, left, {0})
              \/ x \in Sounds(c.channel_rh, right, Voices(c))
              \/ x \in Sounds(VIBRATO_CHANNEL, right, VibratoVoice(c))
              \/ /\ x \in before
                 /\ x \notin Sounds(c.channel_lh, L_played_note, {0})
                 /\ x \notin Sounds(c.channel_rh, R_played_note, Voices(c))
                 /\ x \notin Sounds(VIBRATO_CHANNEL, R_played_note, VibratoVoice(c))
           /\ x[1] # 0
  <1> DEFINE rh  == Sent(before, c.channel_rh, right, R_played_note, turned, velocity, Voices(c))
             vib == Sent(rh, VIBRATO_CHANNEL, right, R_played_note, turned, velocity,
                         VibratoVoice(c))
             lh  == Sent(vib, c.channel_lh, left, L_played_note, turned, velocity, {0})
  <1>1. \A y \in rh : /\ \/ y \in Sounds(c.channel_rh, right, Voices(c))
                         \/ y \in before /\ y \notin Sounds(c.channel_rh, R_played_note, Voices(c))
                      /\ y[1] # 0
    BY SentSettles
  <1>2. x \in lh
    OBVIOUS
  <1> HIDE DEF rh
  <1>3. \A y \in vib : /\ \/ y \in Sounds(VIBRATO_CHANNEL, right, VibratoVoice(c))
                          \/ /\ y \in rh
                             /\ y \notin Sounds(VIBRATO_CHANNEL, R_played_note, VibratoVoice(c))
                       /\ y[1] # 0
    BY <1>1, SentSettles
  <1> HIDE DEF vib
  <1>4. /\ \/ x \in Sounds(c.channel_lh, left, {0})
           \/ x \in vib /\ x \notin Sounds(c.channel_lh, L_played_note, {0})
        /\ x[1] # 0
    BY <1>2, <1>3, SentSettles
  <1> QED
    BY <1>1, <1>3, <1>4

LEMMA ScanKeepsIInv ==
    ASSUME KeyboardInv, NEW press, NEW lpress, NEW a, NEW obeyed \in Outcomes(press),
           Scan(press, lpress, a, obeyed), MenuKeyFirst
    PROVE  KeyboardInv'
  <1> DEFINE c == obeyed.config
             right == RightNotes(press, a)
             left  == LeftNotes(press, lpress, a)
             velocity == ExpressionResolved(a, c)
             turned == a.bellow_not_null # bellow_prev
  <1>1. /\ R_press' = press /\ config' = c
        /\ R_played_note' = right /\ L_played_note' = left
        /\ sounding' = Sent(Sent(Sent(sounding, c.channel_rh, right, R_played_note, turned,
                                      velocity, Voices(c)),
                                 VIBRATO_CHANNEL, right, R_played_note, turned, velocity,
                                 VibratoVoice(c)),
                            c.channel_lh, left, L_played_note, turned, velocity, {0})
    BY DEF Scan
  <1>2. MenuKey \in press => right = {} /\ left = {}
    BY DEF RightNotes, LeftNotes, Silent
  <1> HIDE DEF right, left, velocity, turned
  <1>3. \A x \in sounding :
           \/ x \in Sounds(config.channel_lh, L_played_note, {0})
           \/ x \in Sounds(config.channel_rh, R_played_note, Voices(config))
           \/ x \in Sounds(VIBRATO_CHANNEL, R_played_note, VibratoVoice(config))
    BY DEF KeyboardInv, OnlyHeldNotesSound, Wanted
  <1>4. c = config \/ sounding = {}
    <2>1. CASE CommandEdges(press) = {}
      BY <2>1 DEF Outcomes, Unbidden
    <2>2. CASE CommandEdges(press) # {}
      <3>1. MenuKey \in press /\ (press \ R_press) \cap Range(CommandKeys) # {}
        BY <2>2 DEF CommandEdges
      <3>2. MenuKey \in R_press
        BY <1>1, <3>1 DEF MenuKeyFirst
      <3>3. R_played_note = {} /\ L_played_note = {}
        BY <3>2 DEF KeyboardInv
      <3> QED
        BY <1>3, <3>3 DEF Sounds
    <2> QED
      BY <2>1, <2>2
  <1>5. ASSUME NEW x \in sounding'
        PROVE  x \in Wanted' /\ x[1] # 0
    <2>1. /\ \/ x \in Sounds(c.channel_lh, left, {0})
             \/ x \in Sounds(c.channel_rh, right, Voices(c))
             \/ x \in Sounds(VIBRATO_CHANNEL, right, VibratoVoice(c))
             \/ /\ x \in sounding
                /\ x \notin Sounds(c.channel_lh, L_played_note, {0})
                /\ x \notin Sounds(c.channel_rh, R_played_note, Voices(c))
                /\ x \notin Sounds(VIBRATO_CHANNEL, R_played_note, VibratoVoice(c))
          /\ x[1] # 0
      <3> HIDE DEF c
      <3> QED
        BY <1>1, TurnSettles DEF KeyboardInv
    <2>2. \/ x \in Sounds(c.channel_lh, left, {0})
          \/ x \in Sounds(c.channel_rh, right, Voices(c))
          \/ x \in Sounds(VIBRATO_CHANNEL, right, VibratoVoice(c))
      BY <1>3, <1>4, <2>1
    <2>3. Wanted' = Sounds(c.channel_lh, left, {0})
                    \cup Sounds(c.channel_rh, right, Voices(c))
                    \cup Sounds(VIBRATO_CHANNEL, right, VibratoVoice(c))
      BY <1>1 DEF Wanted, Sounds, Voices, VibratoVoice
    <2> QED
      BY <2>1, <2>2, <2>3
  <1> QED
    BY <1>1, <1>2, <1>5 DEF KeyboardInv, OnlyHeldNotesSound

LEMMA UnchangedKeepsIInv == KeyboardInv /\ UNCHANGED vars => KeyboardInv'
  BY DEF vars, KeyboardInv, OnlyHeldNotesSound, Wanted, Sounds, Voices, VibratoVoice

(* Whatever the player does with keys, bellow, stops, presets and menu, once  *)
(* the menu key goes down before the command keys: no note is stuck.          *)
THEOREM NoNoteIsStuck == CarefulSpec => []OnlyHeldNotesSound
  <1>1. Init => KeyboardInv
    BY DEF Init, KeyboardInv, OnlyHeldNotesSound
  <1>2. KeyboardInv /\ [Next /\ MenuKeyFirst]_vars => KeyboardInv'
    <2> SUFFICES ASSUME KeyboardInv, [Next /\ MenuKeyFirst]_vars PROVE KeyboardInv'
      OBVIOUS
    <2>1. CASE Next /\ MenuKeyFirst
      BY <2>1, ScanKeepsIInv DEF Next
    <2>2. CASE UNCHANGED vars
      BY <2>2, UnchangedKeepsIInv
    <2> QED
      BY <2>1, <2>2
  <1>3. KeyboardInv => OnlyHeldNotesSound
    BY DEF KeyboardInv
  <1> QED
    BY <1>1, <1>2, <1>3, PTL DEF CarefulSpec

--------------------------------------------------------------------------------
(* The settings an accordion is played with: a channel of its own for each    *)
(* hand and the vibrato, notes MIDI has, and not VOLUME_REVERTED, which may   *)
(* strike a note with velocity 0 and so not at all.                           *)
Playable ==
    /\ config.channel_lh # 0 /\ config.channel_rh # 0
    /\ config.channel_lh # config.channel_rh
    /\ VIBRATO_CHANNEL \notin {config.channel_lh, config.channel_rh}
    /\ config.octave \in Int /\ config.volume_type # "reverted"
    /\ R_played_note \subseteq 0..127 /\ L_played_note \subseteq 0..127

(* Different notes an octave's shift apart or not are different pitches, so   *)
(* what is sent for one does not end another.                                 *)
LEMMA SentHolds ==
    ASSUME NEW before, NEW ch, NEW now, NEW prev, NEW turned, NEW velocity, NEW at,
           NEW shift \in Int, at \subseteq {shift},
           ch # 0, velocity # 0,
           now \subseteq 0..127, prev \subseteq 0..127, Sounds(ch, prev, at) \subseteq before
    PROVE  Sounds(ch, now, at) \subseteq Sent(before, ch, now, prev, turned, velocity, at)
  <1> DEFINE struck  == Struck(now, prev, turned)
             changed == (prev \ now) \cup struck
             From(i) == Sounds(ch, {i}, at)
  <1> SUFFICES ASSUME NEW x \in Sounds(ch, now, at)
               PROVE  x \in Sent(before, ch, now, prev, turned, velocity, at)
    OBVIOUS
  <1>1. at = {shift}
    <2>1. PICK s \in at : TRUE
      BY DEF Sounds
    <2>2. s = shift
      BY <2>1
    <2> QED
      BY <2>1, <2>2
  <1>2. PICK n \in now : x = <<ch, (n + shift) % 128>>
    BY <1>1 DEF Sounds
  <1>3. /\ struck \subseteq now /\ changed \subseteq 0..127 /\ n \in 0..127
        /\ n \in struck \/ n \in prev
    BY DEF Struck
  <1> HIDE DEF struck
  <1>4. \A i, j \in 0..127 : (i + shift) % 128 = (j + shift) % 128 => i = j
    BY SMTT(20)
  <1>5. ASSUME NEW j \in changed, x \in From(j) PROVE j = n
    <2>1. x = <<ch, (j + shift) % 128>>
      BY <1>1, <1>5 DEF Sounds
    <2>2. (j + shift) % 128 = (n + shift) % 128
      BY <1>2, <2>1
    <2> QED
      BY <1>3, <1>4, <2>2
  <1>6. CASE n \in struck
    <2>1. x \in Sounds(ch, struck, at) /\ x \in From(n)
      BY <1>2, <1>1, <1>6 DEF Sounds
    <2>2. ~\E j \in changed : j > n /\ x \in From(j)
      <3>1. ~(n > n)
        BY <1>3
      <3> QED
        BY <1>5, <3>1
    <2> QED
      BY <1>6, <2>1, <2>2 DEF Sent, struck
  <1>7. CASE n \notin struck
    <2>1. x \in before
      BY <1>2, <1>3, <1>1, <1>7 DEF Sounds
    <2>2. x \notin Sounds(ch, changed, at)
      <3> SUFFICES ASSUME x \in Sounds(ch, changed, at) PROVE FALSE
        OBVIOUS
      <3>1. PICK j \in changed : x \in From(j)
        BY SMTT(20) DEF Sounds
      <3> QED
        BY <1>2, <1>5, <1>7, <3>1
    <2> QED
      BY <2>1, <2>2 DEF Sent, struck
  <1> QED
    BY <1>6, <1>7

LEMMA SentElsewhere ==
    ASSUME NEW before, NEW ch, NEW now, NEW prev, NEW turned, NEW velocity, NEW at,
           NEW x \in before, x[1] # ch
    PROVE  x \in Sent(before, ch, now, prev, turned, velocity, at)
  BY DEF Sent, Sounds

LEMMA ScanHolds ==
    ASSUME KeyboardInv, HeldNotesSound, Playable, Playable',
           NEW press, NEW lpress, NEW a, NEW obeyed \in Outcomes(press),
           Scan(press, lpress, a, obeyed)
    PROVE  HeldNotesSound'
  <1> DEFINE c == obeyed.config
             right == RightNotes(press, a)
             left  == LeftNotes(press, lpress, a)
             velocity == ExpressionResolved(a, c)
             turned == a.bellow_not_null # bellow_prev
             rh  == Sent(sounding, c.channel_rh, right, R_played_note, turned, velocity, Voices(c))
             vib == Sent(rh, VIBRATO_CHANNEL, right, R_played_note, turned, velocity,
                         VibratoVoice(c))
  <1>1. /\ R_press' = press /\ config' = c
        /\ R_played_note' = right /\ L_played_note' = left
        /\ sounding' = Sent(vib, c.channel_lh, left, L_played_note, turned, velocity, {0})
    BY DEF Scan
  <1>2. MenuKey \in press => right = {} /\ left = {}
    BY DEF RightNotes, LeftNotes, Silent
  <1>3. velocity # 0
    BY <1>1 DEF ExpressionResolved, Playable
  <1> HIDE DEF right, left, velocity, turned
  <1>4. CASE c # config
    <2>1. MenuKey \in press
      BY <1>4 DEF Outcomes, Unbidden, CommandEdges
    <2> QED
      BY <1>1, <1>2, <2>1 DEF HeldNotesSound, Wanted, Sounds
  <1>5. CASE c = config
    <2>1. /\ c.channel_lh # 0 /\ c.channel_rh # 0 /\ c.channel_lh # c.channel_rh
          /\ VIBRATO_CHANNEL \notin {c.channel_lh, c.channel_rh} /\ VIBRATO_CHANNEL # 0
          /\ R_played_note \subseteq 0..127 /\ L_played_note \subseteq 0..127
          /\ right \subseteq 0..127 /\ left \subseteq 0..127
          /\ 12 * c.octave \in Int
      BY <1>1, <1>5 DEF Playable, VIBRATO_CHANNEL
    <2> HIDE DEF rh, vib
    <2>2. \A ch, notes, at : \A x \in Sounds(ch, notes, at) : x[1] = ch
      BY DEF Sounds
    <2>3. \A x \in vib : x[1] # c.channel_lh => x \in sounding'
      BY <1>1, SentElsewhere
    <2>4. \A x \in rh : x[1] # VIBRATO_CHANNEL => x \in vib
      BY SentElsewhere DEF vib
    <2>5. \A x \in sounding : x[1] # c.channel_rh => x \in rh
      BY SentElsewhere DEF rh
    <2>6. Sounds(c.channel_lh, left, {0}) \subseteq sounding'
      <3>1. Sounds(c.channel_lh, L_played_note, {0}) \subseteq vib
        BY <1>5, <2>1, <2>2, <2>4, <2>5 DEF HeldNotesSound
      <3>2. 0 \in Int /\ {0} \subseteq {0}
        OBVIOUS
      <3>3. Sounds(c.channel_lh, left, {0})
              \subseteq Sent(vib, c.channel_lh, left, L_played_note, turned, velocity, {0})
        BY <1>3, <2>1, <3>1, <3>2, SentHolds
      <3> QED
        BY <1>1, <3>3
    <2>7. ASSUME c.flute_enable, ~c.bassoon_enable, ~c.picolo_enable
          PROVE  /\ Sounds(c.channel_rh, right, Voices(c)) \subseteq sounding'
                 /\ Sounds(VIBRATO_CHANNEL, right, VibratoVoice(c)) \subseteq sounding'
      <3>1. Voices(c) \subseteq {12 * c.octave} /\ VibratoVoice(c) \subseteq {12 * c.octave}
        BY <2>7 DEF Voices, VibratoVoice
      <3>2. /\ Sounds(c.channel_rh, R_played_note, Voices(c)) \subseteq sounding
            /\ Sounds(VIBRATO_CHANNEL, R_played_note, VibratoVoice(c)) \subseteq sounding
        BY <1>5, <2>7 DEF HeldNotesSound, Wanted
      <3>3. Sounds(c.channel_rh, right, Voices(c)) \subseteq rh
        BY <1>3, <2>1, <3>1, <3>2, SentHolds DEF rh
      <3>4. Sounds(VIBRATO_CHANNEL, R_played_note, VibratoVoice(c)) \subseteq rh
        BY <2>1, <2>2, <2>5, <3>2
      <3>5. Sounds(VIBRATO_CHANNEL, right, VibratoVoice(c)) \subseteq vib
        BY <1>3, <2>1, <3>1, <3>4, SentHolds DEF vib
      <3>6. Sounds(c.channel_rh, right, Voices(c)) \subseteq sounding'
        BY <2>1, <2>2, <2>3, <2>4, <3>3
      <3>7. Sounds(VIBRATO_CHANNEL, right, VibratoVoice(c)) \subseteq sounding'
        BY <2>1, <2>2, <2>3, <3>5
      <3> QED
        BY <3>6, <3>7
    <2>8. /\ Sounds(config.channel_lh, L_played_note, {0})' = Sounds(c.channel_lh, left, {0})
          /\ Wanted' = Sounds(c.channel_lh, left, {0})
                       \cup Sounds(c.channel_rh, right, Voices(c))
                       \cup Sounds(VIBRATO_CHANNEL, right, VibratoVoice(c))
      BY <1>1 DEF Wanted, Sounds, Voices, VibratoVoice
    <2> QED
      BY <1>1, <2>6, <2>7, <2>8 DEF HeldNotesSound
  <1> QED
    BY <1>4, <1>5

(* Every note a key asks for sounds, as long as a key asks for it, wherever   *)
(* bellow, keys and stops turn meanwhile.                                     *)
THEOREM HeldNotesAreHeard == CarefulSpec /\ []Playable => []HeldNotesSound
  <1>1. Init => KeyboardInv /\ HeldNotesSound
    BY DEF Init, KeyboardInv, OnlyHeldNotesSound, HeldNotesSound, Wanted, Sounds
  <1>2. KeyboardInv /\ [Next /\ MenuKeyFirst]_vars => KeyboardInv'
    BY ScanKeepsIInv, UnchangedKeepsIInv DEF Next
  <1>3. KeyboardInv /\ HeldNotesSound /\ Playable /\ Playable' /\ [Next /\ MenuKeyFirst]_vars
           => HeldNotesSound'
    <2> SUFFICES ASSUME KeyboardInv, HeldNotesSound, Playable, Playable', [Next /\ MenuKeyFirst]_vars
                 PROVE  HeldNotesSound'
      OBVIOUS
    <2>1. CASE Next
      BY <2>1, ScanHolds DEF Next
    <2>2. CASE UNCHANGED vars
      BY <2>2 DEF vars, HeldNotesSound, Wanted, Sounds, Voices, VibratoVoice
    <2> QED
      BY <2>1, <2>2
  <1> QED
    BY <1>1, <1>2, <1>3, PTL DEF CarefulSpec

--------------------------------------------------------------------------------
(* Both hands are sent to: no channel is switched off. *)
BothHandsSend == config.channel_lh \in 1..15 /\ config.channel_rh \in 1..15

LevelsAreEven ==
    /\ level[config.channel_rh] = volume_prev
    /\ level[config.channel_lh] = volume_prev
    /\ config.vibrato # 0 => level[VIBRATO_CHANNEL] = volume_prev

(* The turns at which the loop count is 0 send the volume to every channel   *)
(* in use after whatever a menu function has silenced in the same turn.  So  *)
(* if such turns keep coming, the volume catches up.                         *)
THEOREM VolumeComesBack ==
    Spec /\ []BothHandsSend /\ []<><<loop_count = 0>>_vars => VolumeCatchesUp
  <1>1. ASSUME BothHandsSend', [Next]_vars, <<loop_count = 0>>_vars
        PROVE  LevelsAreEven'
    <2>1. Next /\ loop_count = 0
      BY <1>1
    <2>2. PICK press \in SUBSET RKey, lpress \in SUBSET LKey :
             \E a \in {Resolved(sensor) : sensor \in SensorSteps}, obeyed \in Outcomes(press) :
                 Scan(press, lpress, a, obeyed)
      BY <2>1 DEF Next
    <2>3. PICK a, obeyed : Scan(press, lpress, a, obeyed)
      BY <2>2
    <2> DEFINE c == obeyed.config
               v == VolumeResolved(a, c)
               sent == VolumeSentTo(v, c)
    <2>4. /\ config' = c /\ volume_prev' = v
          /\ level' = [ch \in 1..15 |-> CASE ch \in sent -> v
                                           [] ch \in obeyed.silenced \ sent -> 0
                                           [] OTHER -> level[ch]]
      BY <2>3 DEF Scan
    <2>5. sent = Channels(c)
      BY <2>1 DEF VolumeSentTo
    <2> HIDE DEF c, v, sent
    <2>6. \A ch \in sent \cap 1..15 : level'[ch] = v
      BY <2>4
    <2>7. /\ c.channel_lh \in sent \cap 1..15 /\ c.channel_rh \in sent \cap 1..15
          /\ c.vibrato # 0 => VIBRATO_CHANNEL \in sent \cap 1..15
      BY <1>1, <2>4, <2>5 DEF BothHandsSend, Channels, VIBRATO_CHANNEL
    <2> QED BY <2>4, <2>6, <2>7 DEF LevelsAreEven
  <1>2. BothHandsSend' /\ [Next]_vars /\ <<loop_count = 0>>_vars => LevelsAreEven'
    BY <1>1
  <1>3. VolumeCatchesUp <=> []<>LevelsAreEven
    BY PTL DEF VolumeCatchesUp, LevelsAreEven
  <1> QED BY <1>2, <1>3, PTL DEF Spec

--------------------------------------------------------------------------------
(* The looper.                                                                 *)
(* Not both: a command that starts one stops the other. *)
OneAtATime == ~(recording /\ playing)

(* RecordsInsideBuffer needs the pointers' types, DisplayMatchesLooper that   *)
(* recording and playing exclude each other.                                  *)
LooperInv == TypeOK /\ RecordsInsideBuffer /\ OneAtATime /\ DisplayMatchesLooper

(* The record the steps of the FSM work on. *)
FsmRecord == [recording : BOOLEAN, playing : BOOLEAN, writepointer : Slot,
              endpointer : Slot, readpointer : Slot]
FsmType == {f \in FsmRecord : ~(f.recording /\ f.playing)}

StateOf(f) == IF f.recording THEN 1 ELSE IF f.playing THEN 2 ELSE 0

(* A command moves the FSM on by one, in a circle of three. *)
LEMMA AdvanceMovesOn ==
    ASSUME NEW f \in FsmType
    PROVE  /\ Advance(f) \in FsmType
           /\ StateOf(Advance(f)) = (StateOf(f) + 1) % 3
  <1>0. /\ 0 \in Slot /\ f \in FsmRecord
        /\ f.writepointer \in Slot /\ f.endpointer \in Slot /\ f.readpointer \in Slot
        /\ f = [recording |-> f.recording, playing |-> f.playing,
                writepointer |-> f.writepointer, endpointer |-> f.endpointer,
                readpointer |-> f.readpointer]
    BY LooperAssumption DEF Slot, FsmType, FsmRecord
  <1>1. CASE f.recording
    <2> DEFINE a == [recording |-> FALSE, playing |-> TRUE, writepointer |-> f.writepointer,
                    endpointer |-> f.writepointer, readpointer |-> 0]
    <2>1. Advance(f) = a
      BY <1>1, <1>0 DEF Advance
    <2>2. a \in FsmRecord
      BY <1>0, <1>1 DEF FsmRecord
    <2>3. StateOf(f) = 1 /\ StateOf(a) = 2 /\ ~(a.recording /\ a.playing)
      BY <1>1 DEF StateOf
    <2> HIDE DEF a
    <2> QED
      BY <2>1, <2>2, <2>3 DEF FsmType
  <1>2. CASE ~f.recording /\ f.playing
    <2> DEFINE a == [recording |-> f.recording, playing |-> FALSE, writepointer |-> f.writepointer,
                    endpointer |-> f.endpointer, readpointer |-> f.readpointer]
    <2>1. Advance(f) = a
      BY <1>2, <1>0 DEF Advance
    <2>2. a \in FsmRecord
      BY <1>0, <1>2 DEF FsmRecord
    <2>3. StateOf(f) = 2 /\ StateOf(a) = 0 /\ ~(a.recording /\ a.playing)
      BY <1>2 DEF StateOf
    <2> HIDE DEF a
    <2> QED
      BY <2>1, <2>2, <2>3 DEF FsmType
  <1>3. CASE ~f.recording /\ ~f.playing
    <2> DEFINE a == [recording |-> TRUE, playing |-> f.playing, writepointer |-> 0,
                    endpointer |-> f.endpointer, readpointer |-> f.readpointer]
    <2>1. Advance(f) = a
      BY <1>3, <1>0 DEF Advance
    <2>2. a \in FsmRecord
      BY <1>0, <1>3 DEF FsmRecord
    <2>3. StateOf(f) = 0 /\ StateOf(a) = 1 /\ ~(a.recording /\ a.playing)
      BY <1>3 DEF StateOf
    <2> HIDE DEF a
    <2> QED
      BY <2>1, <2>2, <2>3 DEF FsmType
  <1> QED
    BY <1>1, <1>2, <1>3

(* The overflow test leaves room for the whole chunk. *)
LEMMA AvoidOverflowLeavesRoom ==
    ASSUME NEW f \in FsmType, NEW n \in Chunks
    PROVE  LET g == AvoidOverflow(f, n)
           IN  /\ g \in FsmType
               /\ g.writepointer + n \in Slot
               /\ StateOf(g) = StateOf(f)
  BY LooperAssumption DEF AvoidOverflow, FsmType, FsmRecord, StateOf, Slot

LEMMA AfterPlayingType ==
    ASSUME NEW f \in FsmType, NEW n \in Chunks
    PROVE  AfterPlaying(f, n) \in FsmType /\ StateOf(AfterPlaying(f, n)) = StateOf(f)
  BY LooperAssumption DEF AfterPlaying, FsmType, FsmRecord, StateOf, Slot

LEMMA LooperInitInv == LooperInit => LooperInv
  BY LooperAssumption DEF LooperInit, LooperInv, TypeOK, RecordsInsideBuffer, OneAtATime,
                          DisplayMatchesLooper, FsmState, Slot

(* A scan of the keys: the display counts the press, the queue holds it. *)
LEMMA ScanKeeps ==
    ASSUME LooperInv, NEW down \in BOOLEAN, ScanLoopKey(down)
    PROVE  LooperInv'
  <1>1. /\ TypeOK' /\ RecordsInsideBuffer' /\ OneAtATime'
    BY LooperAssumption DEF ScanLoopKey, LooperInv, TypeOK, RecordsInsideBuffer, OneAtATime,
                            audioVars
  <1>2. FsmState' = FsmState /\ FsmState \in 0..2
    BY DEF ScanLoopKey, audioVars, FsmState
  <1>3. DisplayMatchesLooper'
    <2>1. CASE UNCHANGED <<loop_state, commands, lost>>
      BY <1>2, <2>1 DEF LooperInv, DisplayMatchesLooper
    <2>2. CASE /\ loop_state' = (loop_state + 1) % 3
               /\ commands' = IF commands < QueueSize THEN commands + 1 ELSE commands
               /\ lost' = (lost \/ commands = QueueSize)
      <3>1. CASE lost \/ commands = QueueSize
        BY <2>2, <3>1 DEF DisplayMatchesLooper
      <3>2. CASE ~lost /\ commands # QueueSize
        <4>1. commands' = commands + 1 /\ loop_state = (FsmState + commands) % 3
          BY <2>2, <3>2, LooperAssumption DEF LooperInv, TypeOK, DisplayMatchesLooper
        <4>2. loop_state' = (FsmState + commands + 1) % 3
          BY <1>2, <2>2, <4>1 DEF LooperInv, TypeOK
        <4> QED
          BY <1>2, <4>1, <4>2 DEF DisplayMatchesLooper, LooperInv, TypeOK
      <3> QED
        BY <3>1, <3>2
    <2> QED
      BY <2>1, <2>2 DEF ScanLoopKey
  <1> QED
    BY <1>1, <1>3 DEF LooperInv

(* The record AudioChunk passes on: after the command, after the overflow     *)
(* test, after recording, after playing back.                                *)
Obeying == IF CommandWaits THEN Advance(Fsm) ELSE Fsm
Ready(n) == AvoidOverflow(Obeying, n)
Written(n) == IF Ready(n).recording THEN [Ready(n) EXCEPT !.writepointer = @ + n] ELSE Ready(n)
Played(n) == IF Written(n).playing THEN AfterPlaying(Written(n), n) ELSE Written(n)

LEMMA ChunkAssigns ==
    ASSUME NEW n \in Chunks, AudioChunk(n)
    PROVE  /\ recording' = Played(n).recording /\ playing' = Played(n).playing
           /\ writepointer' = Played(n).writepointer
           /\ endpointer' = Played(n).endpointer /\ readpointer' = Played(n).readpointer
           /\ commands' = IF CommandWaits THEN commands - 1 ELSE commands
           /\ UNCHANGED keyVars
  BY DEF AudioChunk, Played, Written, Ready, Obeying

(* All of them are FSM records, and only the command changes their state.    *)
LEMMA ChunkTypes ==
    ASSUME LooperInv, NEW n \in Chunks
    PROVE  /\ Fsm \in FsmType /\ StateOf(Fsm) = FsmState /\ FsmState \in 0..2
           /\ Obeying \in FsmType
           /\ StateOf(Obeying) = IF CommandWaits THEN (FsmState + 1) % 3 ELSE FsmState
           /\ Ready(n) \in FsmType /\ Ready(n).writepointer + n \in Slot
           /\ Written(n) \in FsmType
           /\ Played(n) \in FsmType /\ StateOf(Played(n)) = StateOf(Obeying)
  <1>1. Fsm \in FsmType /\ StateOf(Fsm) = FsmState /\ FsmState \in 0..2
    BY DEF Fsm, FsmType, FsmRecord, LooperInv, TypeOK, OneAtATime, StateOf, FsmState
  <1>2. /\ Obeying \in FsmType
        /\ StateOf(Obeying) = IF CommandWaits THEN (FsmState + 1) % 3 ELSE FsmState
    BY <1>1, AdvanceMovesOn DEF Obeying
  <1>3. /\ Ready(n) \in FsmType /\ Ready(n).writepointer + n \in Slot
        /\ StateOf(Ready(n)) = StateOf(Obeying)
    BY <1>2, AvoidOverflowLeavesRoom DEF Ready
  <1>4. Written(n) \in FsmType /\ StateOf(Written(n)) = StateOf(Ready(n))
    BY <1>3 DEF FsmType, FsmRecord, StateOf, Written
  <1>5. Played(n) \in FsmType /\ StateOf(Played(n)) = StateOf(Written(n))
    BY <1>4, AfterPlayingType DEF Played
  <1> QED
    BY <1>1, <1>2, <1>3, <1>4, <1>5

(* A chunk: the FSM counts the command that the queue gives up. *)
LEMMA ChunkKeeps ==
    ASSUME LooperInv, NEW n \in Chunks, AudioChunk(n)
    PROVE  LooperInv'
  <1> USE ChunkTypes, ChunkAssigns
  <1>1. TypeOK' /\ OneAtATime'
    <2>1. Played(n) \in FsmType
      OBVIOUS
    <2>2. commands' \in 0..QueueSize /\ loop_state' \in 0..2
      BY LooperAssumption DEF LooperInv, TypeOK, keyVars, CommandWaits
    <2> QED
      BY <2>1, <2>2 DEF FsmType, FsmRecord, TypeOK, OneAtATime
  <1>2. RecordsInsideBuffer'
    <2> DEFINE f == Ready(n)
    <2>1. CASE f.recording
      <3>1. DOMAIN loopBuffer' = DOMAIN loopBuffer \cup f.writepointer..f.writepointer+n-1
        BY <2>1 DEF AudioChunk, Ready, Obeying
      <3>2. f.writepointer..f.writepointer+n-1 \subseteq Slot
        BY LooperAssumption DEF FsmType, FsmRecord, Slot
      <3> QED
        BY <3>1, <3>2 DEF LooperInv, RecordsInsideBuffer
    <2>2. CASE ~f.recording
      BY <2>2 DEF AudioChunk, Ready, Obeying, LooperInv, RecordsInsideBuffer
    <2> QED
      BY <2>1, <2>2
  <1>3. DisplayMatchesLooper'
    <2>1. FsmState' = StateOf(Played(n))
      BY DEF FsmState, StateOf
    <2>2. loop_state' = loop_state /\ lost' = lost
      BY DEF keyVars
    <2>3. (FsmState' + commands') % 3 = (FsmState + commands) % 3
      BY <2>1 DEF CommandWaits, LooperInv, TypeOK
    <2> QED
      BY <2>2, <2>3 DEF LooperInv, DisplayMatchesLooper
  <1> QED
    BY <1>1, <1>2, <1>3 DEF LooperInv

LEMMA LooperNextInv == LooperInv /\ [LooperNext]_looperVars => LooperInv'
<1>1. ASSUME LooperInv, UNCHANGED looperVars
      PROVE  LooperInv'
  BY <1>1 DEF looperVars, keyVars, audioVars, LooperInv, TypeOK, RecordsInsideBuffer, OneAtATime,
              DisplayMatchesLooper, FsmState
<1> QED
  BY <1>1, ScanKeeps, ChunkKeeps DEF LooperNext, Audio

LEMMA LooperSpecInv == LooperSpec => []LooperInv
  BY LooperInitInv, LooperNextInv, PTL DEF LooperSpec

(* The three pointers of the looper stay inside loopBuffer, whatever its     *)
(* size and whatever chunks the sound queue asks for.                        *)
THEOREM LooperTypeCorrect == LooperSpec => []TypeOK
  BY LooperSpecInv, PTL DEF LooperInv

(* A recording never writes outside loopBuffer: the overflow test is made    *)
(* before every chunk, with that chunk's size.                               *)
THEOREM LooperRecordsInside == LooperSpec => []RecordsInsideBuffer
  BY LooperSpecInv, PTL DEF LooperInv

(* What the accordion's display shows and what the audio task does differ by *)
(* the commands under way, as long as none was refused.                      *)
THEOREM DisplayInStep == LooperSpec => []DisplayMatchesLooper
  BY LooperSpecInv, PTL DEF LooperInv

--------------------------------------------------------------------------------
(* What is on the tape.  Every slot of the buffer holds a sample of some     *)
(* take; while a take is recorded, the slots below writepointer hold the     *)
(* last samples of it, and that is what is played back afterwards.           *)
Recorded == [take : Nat, sample : Nat]

TapeOK == take \in Nat /\ taken \in Nat /\ loopBuffer \in [Slot -> Recorded]

RecordingIsOneStretch ==
    recording => \A s \in 0..writepointer-1 :
                     /\ loopBuffer[s].take = take
                     /\ loopBuffer[s].sample = taken - writepointer + s

TapeInv == TapeOK /\ RecordingIsOneStretch /\ LoopIsOneStretch

(* Where a chunk of n samples goes, and where the loop it plays ends.        *)
LEMMA ChunkMoves ==
    ASSUME LooperInv, NEW n \in Chunks
    PROVE  /\ Ready(n).recording =>
                 /\ Played(n).recording
                 /\ Played(n).writepointer = Ready(n).writepointer + n
                 /\ \/ Ready(n).writepointer = 0
                    \/ recording /\ Ready(n).writepointer = writepointer
           /\ ~Ready(n).recording => ~Played(n).recording
           /\ Played(n).playing =>
                 /\ ~Ready(n).recording
                 /\ \/ playing /\ Played(n).endpointer = endpointer
                    \/ recording /\ Played(n).endpointer = writepointer
  <1> DEFINE o == Obeying
             f == Ready(n)
             g == Written(n)
             h == Played(n)
  <1>1. Fsm \in FsmType /\ o \in FsmType /\ f \in FsmType /\ g \in FsmType /\ h \in FsmType
    BY ChunkTypes
  <1>2. /\ o.recording => (o.writepointer = 0 \/ (recording /\ o.writepointer = writepointer))
        /\ o.playing => \/ playing /\ o.endpointer = endpointer
                        \/ recording /\ o.endpointer = writepointer
    <2>1. CASE CommandWaits
      BY <2>1, <1>1 DEF Obeying, Advance, Fsm, FsmType, FsmRecord
    <2>2. CASE ~CommandWaits
      BY <2>2 DEF Obeying, Fsm
    <2> QED
      BY <2>1, <2>2
  <1>3. /\ f.recording = o.recording /\ f.playing = o.playing /\ f.endpointer = o.endpointer
        /\ f.writepointer = 0 \/ f.writepointer = o.writepointer
    BY <1>1 DEF Ready, AvoidOverflow, FsmType, FsmRecord
  <1>4. /\ g.recording = f.recording /\ g.playing = f.playing /\ g.endpointer = f.endpointer
        /\ f.recording => g.writepointer = f.writepointer + n
    BY <1>1 DEF Written, FsmType, FsmRecord
  <1>5. /\ h.recording = g.recording /\ h.playing = g.playing /\ h.endpointer = g.endpointer
        /\ h.writepointer = g.writepointer
    BY <1>1 DEF Played, AfterPlaying, FsmType, FsmRecord
  <1>6. ~(f.recording /\ f.playing)
    BY <1>1 DEF FsmType
  <1> HIDE DEF o, f, g, h
  <1> QED
    BY <1>2, <1>3, <1>4, <1>5, <1>6 DEF o, f, g, h

(* What it does to the tape. *)
LEMMA ChunkTape ==
    ASSUME LooperInv, TapeOK, NEW n \in Chunks, AudioChunk(n)
    PROVE  LET w     == Ready(n).writepointer
               first == IF Ready(n).recording /\ ~recording THEN 0 ELSE taken
           IN  /\ TapeOK'
               /\ Ready(n).recording =>
                     /\ taken' = first + n
                     /\ recording => take' = take
                     /\ \A s \in Slot :
                            loopBuffer'[s] = IF s \in w..w+n-1
                                             THEN [take |-> take', sample |-> first + s - w]
                                             ELSE loopBuffer[s]
               /\ ~Ready(n).recording => take' = take /\ loopBuffer' = loopBuffer
  <1> DEFINE f     == Ready(n)
             w     == f.writepointer
             first == IF f.recording /\ ~recording THEN 0 ELSE taken
  <1>1. /\ take' = IF f.recording /\ ~recording THEN take + 1 ELSE take
        /\ taken' = IF f.recording THEN first + n ELSE 0
        /\ loopBuffer' = IF f.recording
                         THEN [s \in DOMAIN loopBuffer \cup w..w+n-1 |->
                                 IF s \in w..w+n-1
                                 THEN [take |-> take', sample |-> first + s - w]
                                 ELSE loopBuffer[s]]
                         ELSE loopBuffer
    BY DEF AudioChunk, Ready, Obeying
  <1>2. /\ n \in Nat /\ first \in Nat /\ take \in Nat /\ w \in Slot /\ w + n \in Slot
        /\ take' \in Nat /\ taken' \in Nat
    BY <1>1, ChunkTypes, LooperAssumption DEF FsmType, FsmRecord, Slot, TapeOK
  <1>3. DOMAIN loopBuffer \cup w..w+n-1 = Slot
    BY <1>2, LooperAssumption DEF TapeOK, Slot
  <1>4. CASE f.recording
    <2>1. loopBuffer' = [s \in Slot |-> IF s \in w..w+n-1
                                        THEN [take |-> take', sample |-> first + s - w]
                                        ELSE loopBuffer[s]]
      BY <1>1, <1>3, <1>4
    <2>2. \A s \in w..w+n-1 : first + s - w \in Nat
      BY <1>2 DEF Slot
    <2>3. \A s \in w..w+n-1 : [take |-> take', sample |-> first + s - w] \in Recorded
      BY <1>2, <2>2 DEF Recorded
    <2>4. loopBuffer' \in [Slot -> Recorded]
      BY <2>1, <2>3 DEF TapeOK
    <2> QED
      BY <1>1, <1>2, <1>4, <2>1, <2>4 DEF TapeOK
  <1>5. CASE ~f.recording
    BY <1>1, <1>2, <1>5 DEF TapeOK
  <1> QED
    BY <1>4, <1>5

LEMMA ChunkKeepsTape ==
    ASSUME LooperInv, TapeInv, NEW n \in Chunks, AudioChunk(n)
    PROVE  TapeInv'
  <1> DEFINE f     == Ready(n)
             h     == Played(n)
             w     == f.writepointer
             first == IF f.recording /\ ~recording THEN 0 ELSE taken
  <1>1. /\ recording' = h.recording /\ playing' = h.playing
        /\ writepointer' = h.writepointer /\ endpointer' = h.endpointer
    BY ChunkAssigns
  <1>2. TapeOK'
    BY ChunkTape DEF TapeInv
  <1>3. /\ n \in Nat /\ w \in Nat /\ w + n \in Slot /\ taken \in Nat /\ Slot \subseteq Nat
        /\ writepointer \in Slot /\ endpointer \in Slot
        /\ recording \in BOOLEAN /\ playing \in BOOLEAN
    BY ChunkTypes, LooperAssumption DEF FsmType, FsmRecord, Slot, TapeInv, TapeOK, LooperInv, TypeOK
  <1>4. RecordingIsOneStretch'
    <2> SUFFICES ASSUME recording', NEW s \in 0..writepointer'-1
                 PROVE  /\ loopBuffer'[s].take = take'
                        /\ loopBuffer'[s].sample = taken' - writepointer' + s
      BY DEF RecordingIsOneStretch
    <2>1. f.recording /\ writepointer' = w + n
      BY <1>1, ChunkMoves
    <2>2. taken' = first + n /\ s \in Slot /\ s \in Nat /\ first \in Nat
      <3>1. taken' = first + n
        BY <2>1, ChunkTape DEF TapeInv
      <3>2. first \in Nat
        BY <1>3
      <3>3. s \in Slot /\ s \in Nat
        BY <1>3, <2>1, LooperAssumption DEF Slot
      <3> QED
        BY <3>1, <3>2, <3>3
    <2>3. CASE s \in w..w+n-1
      <3>1. loopBuffer'[s] = [take |-> take', sample |-> first + s - w]
        BY <2>1, <2>2, <2>3, ChunkTape DEF TapeInv
      <3> QED
        BY <3>1, <2>1, <2>2, <1>3
    <2>4. CASE s \notin w..w+n-1
      <3>1. s < w
        BY <2>1, <2>2, <2>4, <1>3
      <3>2. recording /\ w = writepointer
        BY <2>1, <3>1, <2>2, <1>3, ChunkMoves
      <3>3. loopBuffer'[s] = loopBuffer[s] /\ take' = take /\ first = taken
        BY <2>1, <2>2, <2>4, <3>2, ChunkTape DEF TapeInv
      <3>4. loopBuffer[s].take = take /\ loopBuffer[s].sample = taken - writepointer + s
        BY <3>1, <3>2, <2>2, <1>3 DEF TapeInv, RecordingIsOneStretch
      <3> QED
        BY <3>2, <3>3, <3>4, <2>1, <2>2, <1>3
    <2> QED
      BY <2>3, <2>4
  <1>5. LoopIsOneStretch'
    <2> SUFFICES ASSUME playing', NEW s \in 0..endpointer'-1
                 PROVE  /\ loopBuffer'[s].take = take'
                        /\ s > 0 => loopBuffer'[s].sample = loopBuffer'[s-1].sample + 1
      BY DEF LoopIsOneStretch
    <2>1. take' = take /\ loopBuffer' = loopBuffer
      BY <1>1, ChunkMoves, ChunkTape DEF TapeInv
    <2>2. CASE playing /\ endpointer' = endpointer
      BY <2>1, <2>2 DEF TapeInv, LoopIsOneStretch
    <2>3. CASE recording /\ endpointer' = writepointer
      <3>1. \A t \in 0..writepointer-1 : /\ loopBuffer[t].take = take
                                        /\ loopBuffer[t].sample = taken - writepointer + t
        BY <2>3 DEF TapeInv, RecordingIsOneStretch
      <3>2. s \in 0..writepointer-1 /\ (s > 0 => s-1 \in 0..writepointer-1)
        BY <2>3, <1>3
      <3>3. s > 0 => taken - writepointer + s = taken - writepointer + (s-1) + 1
        BY <1>3, <3>2
      <3> QED
        BY <2>1, <3>1, <3>2, <3>3
    <2> QED
      BY <1>1, <2>2, <2>3, ChunkMoves
  <1> QED
    BY <1>2, <1>4, <1>5 DEF TapeInv

LEMMA SpecTapeInv == LooperSpec => []TapeInv
<1>1. LooperInit => TapeInv
  BY LooperAssumption DEF LooperInit, TapeInv, TapeOK, RecordingIsOneStretch, LoopIsOneStretch,
                          Recorded, Unwritten, Slot
<1>2. LooperInv /\ TapeInv /\ [LooperNext]_looperVars => TapeInv'
  <2>1. ASSUME TapeInv, UNCHANGED audioVars
        PROVE  TapeInv'
    BY <2>1 DEF audioVars, TapeInv, TapeOK, RecordingIsOneStretch, LoopIsOneStretch
  <2> QED
    BY <2>1, ChunkKeepsTape DEF LooperNext, Audio, ScanLoopKey, looperVars
<1> QED
  BY <1>1, <1>2, LooperSpecInv, PTL DEF LooperSpec

(* What is played back is one take, gapless and in order, for every buffer,  *)
(* every mixture of chunk sizes and a recording of any length, also one that *)
(* ran over the end of the buffer and began again at its start.              *)
THEOREM LoopPlaysOneStretch == LooperSpec => []LoopIsOneStretch
  BY SpecTapeInv, PTL DEF TapeInv

--------------------------------------------------------------------------------
(* The read pointer between chunks. *)
ReadsInside == readpointer < endpointer \/ readpointer = 0

PlaybackInv == ReadsInside /\ ChunksStartInside /\ SoftmuteNeverAmplifies

(* Inside the recording the unsigned arithmetic of the soft mute does not    *)
(* wrap, and fades from softmute_nb_sample down.                             *)
LEMMA CoefficientBound ==
    ASSUME NEW f \in FsmType, NEW pos \in Nat, pos < f.endpointer
    PROVE  Coefficient(f, pos) <= softmute_nb_sample
  <1>1. f.endpointer \in Nat /\ f.endpointer < WordSize /\ WordSize \in Nat
    BY LooperAssumption DEF FsmType, FsmRecord, Slot
  <1>2. softmute_nb_sample \in Nat
    BY LooperAssumption
  <1>3. \A x \in 0..WordSize-1 : x % WordSize = x
    BY <1>1
  <1>4. CASE pos < softmute_nb_sample
    BY <1>4, <1>2 DEF Coefficient
  <1>5. CASE pos >= softmute_nb_sample
    <2>1. Unsigned(f.endpointer - pos) = f.endpointer - pos
      BY <1>1, <1>3 DEF Unsigned
    <2>2. Unsigned(f.endpointer - softmute_nb_sample) = f.endpointer - softmute_nb_sample
      BY <1>1, <1>2, <1>3, <1>5 DEF Unsigned
    <2>3. CASE pos > f.endpointer - softmute_nb_sample
      <3>1. Coefficient(f, pos) = f.endpointer - pos
        BY <2>1, <2>2, <2>3, <1>1, <1>2, <1>5 DEF Coefficient
      <3> QED
        BY <3>1, <2>3, <1>1, <1>2
    <2>4. CASE ~(pos > f.endpointer - softmute_nb_sample)
      <3>1. Coefficient(f, pos) = softmute_nb_sample
        BY <2>2, <2>4, <1>1, <1>2, <1>5 DEF Coefficient
      <3> QED
        BY <3>1, <1>2
    <2> QED
      BY <2>3, <2>4
  <1> QED
    BY <1>4, <1>5, <1>2

(* A command leaves the read pointer inside the loop, or at its start. *)
LEMMA ChunkReads ==
    ASSUME LooperInv, ReadsInside, NEW n \in Chunks
    PROVE  LET g == Written(n)
               h == Played(n)
           IN  /\ g.readpointer < g.endpointer \/ g.readpointer = 0
               /\ h.readpointer < h.endpointer \/ h.readpointer = 0
               /\ h.endpointer = g.endpointer
  <1> DEFINE o == Obeying
             f == Ready(n)
             g == Written(n)
             h == Played(n)
  <1>1. Fsm \in FsmType /\ o \in FsmType /\ f \in FsmType /\ g \in FsmType /\ h \in FsmType
    BY ChunkTypes
  <1>2. o.readpointer < o.endpointer \/ o.readpointer = 0
    <2>1. CASE CommandWaits
      BY <2>1, <1>1 DEF Obeying, Advance, Fsm, FsmType, FsmRecord, ReadsInside
    <2>2. CASE ~CommandWaits
      BY <2>2 DEF Obeying, Fsm, ReadsInside
    <2> QED
      BY <2>1, <2>2
  <1>3. f.readpointer = o.readpointer /\ f.endpointer = o.endpointer
    BY <1>1 DEF Ready, AvoidOverflow, FsmType, FsmRecord
  <1>4. g.readpointer = f.readpointer /\ g.endpointer = f.endpointer
    BY <1>1 DEF Written, FsmType, FsmRecord
  <1>5. /\ h.endpointer = g.endpointer
        /\ \/ h.readpointer = g.readpointer
           \/ h.readpointer = 0
           \/ h.readpointer < g.endpointer
    BY <1>1, LooperAssumption DEF Played, AfterPlaying, FsmType, FsmRecord, Slot
  <1> HIDE DEF o, f, g, h
  <1> QED
    BY <1>2, <1>3, <1>4, <1>5 DEF o, f, g, h

LEMMA ChunkKeepsPlayback ==
    ASSUME LooperInv, PlaybackInv, NEW n \in Chunks, AudioChunk(n)
    PROVE  PlaybackInv'
  <1> DEFINE g == Written(n)
             h == Played(n)
  <1>1. endpointer' = h.endpointer /\ readpointer' = h.readpointer
    BY ChunkAssigns
  <1>2. heard' = IF g.playing
                 THEN [i \in 1..n |-> [slot |-> g.readpointer + i - 1,
                                       coeff |-> Coefficient(g, g.readpointer + i - 1)]]
                 ELSE <<>>
    BY DEF AudioChunk, Written, Ready, Obeying
  <1>3. /\ g.readpointer < g.endpointer \/ g.readpointer = 0
        /\ h.readpointer < h.endpointer \/ h.readpointer = 0
        /\ endpointer' = g.endpointer
    BY <1>1, ChunkReads DEF PlaybackInv
  <1>4. g \in FsmType /\ g.readpointer \in Nat /\ g.endpointer \in Nat /\ n \in Nat
    BY ChunkTypes, LooperAssumption DEF FsmType, FsmRecord, Slot
  <1>5. ReadsInside'
    BY <1>1, <1>3 DEF ReadsInside
  <1>6. ChunksStartInside'
    <2> SUFFICES ASSUME heard' # <<>>
                 PROVE  heard'[1].slot < endpointer' \/ heard'[1].slot = 0
      BY DEF ChunksStartInside
    <2>1. g.playing /\ 1 \in 1..n
      BY <1>2, <1>4
    <2>2. heard'[1].slot = g.readpointer
      BY <1>2, <1>4, <2>1
    <2> QED
      BY <2>2, <1>3
  <1>7. SoftmuteNeverAmplifies'
    <2> SUFFICES ASSUME NEW i \in DOMAIN heard', heard'[i].slot < endpointer'
                 PROVE  heard'[i].coeff <= softmute_nb_sample
      BY DEF SoftmuteNeverAmplifies
    <2>1. g.playing /\ i \in 1..n
      BY <1>2
    <2> DEFINE pos == g.readpointer + i - 1
    <2>2. heard'[i] = [slot |-> pos, coeff |-> Coefficient(g, pos)]
      BY <1>2, <2>1
    <2>3. pos \in Nat /\ pos < g.endpointer
      BY <2>2, <1>3, <1>4, <2>1
    <2> QED
      BY <2>2, <2>3, <1>4, CoefficientBound
  <1> QED
    BY <1>5, <1>6, <1>7 DEF PlaybackInv

LEMMA SpecPlaybackInv == LooperSpec => []PlaybackInv
<1>1. LooperInit => PlaybackInv
  BY DEF LooperInit, PlaybackInv, ReadsInside, ChunksStartInside, SoftmuteNeverAmplifies
<1>2. LooperInv /\ PlaybackInv /\ [LooperNext]_looperVars => PlaybackInv'
  <2>1. ASSUME PlaybackInv, UNCHANGED audioVars
        PROVE  PlaybackInv'
    BY <2>1 DEF audioVars, PlaybackInv, ReadsInside, ChunksStartInside, SoftmuteNeverAmplifies
  <2> QED
    BY <2>1, ChunkKeepsPlayback DEF LooperNext, Audio, ScanLoopKey, looperVars
<1> QED
  BY <1>1, <1>2, LooperSpecInv, PTL DEF LooperSpec

(* The soft mute never turns the recording up, although its position is      *)
(* unsigned: for every buffer that is smaller than the range of a word and   *)
(* every length of the mute, also when the recording is shorter than that.   *)
THEOREM SoftmuteOnlyMutes == LooperSpec => []SoftmuteNeverAmplifies
  BY SpecPlaybackInv, PTL DEF PlaybackInv

(* Playback wraps in time: no chunk starts behind the end of the recording.  *)
THEOREM PlaybackStartsInside == LooperSpec => []ChunksStartInside
  BY SpecPlaybackInv, PTL DEF PlaybackInv

================================================================================
