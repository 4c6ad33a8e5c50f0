------------------------------- MODULE DiatoTask -------------------------------
(***************************************************************************)
(* The accordion (CMT32Pi::DiatoTask, core 3): each turn of its loop reads *)
(* the pressure sensor and the keys, lets the menu, stops and presets      *)
(* change the configuration, works out the notes that are to sound and     *)
(* sends the difference to the last turn as MIDI.  Scan is one turn.       *)
(***************************************************************************)
EXTENDS Integers, SequencesExt

CONSTANTS RKey, LKey,     \* the keys of the right and of the left hand
          MenuKey,        \* R_press[MENU_KEY_COL][MENU_KEY_ROW]
          R_notes,        \* R_notesT and R_notesP, by bellow
          L_notes, L_fifths,
          CommandKeys,    \* the right keys that command something while the
                          \* menu key is down, in the order the code asks them
          Commands,       \* what each of them may do
          DefaultPreset, SplitPreset,
          Pressures,      \* p_offset: negative pulls, positive pushes, 0 is neither
          VolumePeriod    \* 200 scans: how often the volume is sent again

ASSUME DiatoAssumption == /\ VolumePeriod \in Nat \ {0}
                          /\ Pressures \subseteq Int
                          /\ MenuKey \in RKey

PULL == 0
PUSH == 1
NOPUSH == 2
VIBRATO_CHANNEL == 8

VARIABLES air,           \* sensor phase, bellow, bellow_not_null and volume
          bellow_prev, volume_prev, loop_count,
          R_press, L_press, R_played_note, L_played_note,
          config,        \* the menu's variables
          sounding,      \* <<channel, note>> the messages sent so far leave on
          level          \* channel volume they leave

vars == <<air, bellow_prev, volume_prev, loop_count, R_press, L_press,
          R_played_note, L_played_note, config, sounding, level>>

Init ==
    /\ air = [phase |-> "idle", bellow |-> PULL, bellow_not_null |-> PULL, volume |-> 0]
    /\ bellow_prev = NOPUSH /\ volume_prev = 0 /\ loop_count = 0
    /\ R_press = {} /\ L_press = {} /\ R_played_note = {} /\ L_played_note = {}
    /\ config = DefaultPreset
    /\ sounding = {} /\ level = [ch \in 1..15 |-> 0]

--------------------------------------------------------------------------------
(* Menu functions, as far as they touch a channel's volume: the channels that *)
(* a program change silences, until the volume is sent again.                 *)
menu_midi_program_change_rh(c) == {c.channel_rh}
menu_midi_program_change_lh(c) == {c.channel_lh}
menu_midi_vibrato_pitch        == {VIBRATO_CHANNEL}
menu_mt32_switch(c) == menu_midi_program_change_rh(c) \cup menu_midi_program_change_lh(c)

SilencedByPreset(c) == menu_midi_program_change_lh(c) \cup menu_midi_vibrato_pitch
                       \cup menu_mt32_switch(c)

(* What picking a value of a menu, or passing over a field of it, calls. *)
MenuFunction(what, c) ==
    CASE what \in {"volume_type", "mt32_synth", "mt32_soundfont"} -> menu_mt32_switch(c)
      [] what = "vibrato" -> menu_midi_vibrato_pitch
      [] what = "program_rh" -> menu_midi_program_change_rh(c)
      [] what = "program_lh" -> menu_midi_program_change_lh(c)
      [] OTHER -> {}

ToggleVibrato(c) ==
    CASE c.vibrato # 0 -> [c EXCEPT !.vibrato = 0, !.vibrato_prev = c.vibrato]
      [] c.vibrato = 0 /\ c.vibrato_prev = 0 -> [c EXCEPT !.vibrato = 2]
      [] OTHER -> [c EXCEPT !.vibrato = c.vibrato_prev]

(* One command of one key: set_stops, set_preset, or the menu, with a setting  *)
(* that is in `config' or with one that is not ("field").                      *)
Obey(st, command) ==
    LET Silencing(c, channels) == [config |-> c, silenced |-> st.silenced \cup channels]
    IN  CASE command.do = "stop" ->
                Silencing([st.config EXCEPT ![command.what] = ~@], {})
          [] command.do = "menu" ->
                LET c == [st.config EXCEPT ![command.what] = command.value]
                IN  Silencing(c, MenuFunction(command.what, c))
          [] command.do = "field" ->
                Silencing(st.config, MenuFunction(command.what, st.config))
          [] command.do = "vibrato" ->
                Silencing(ToggleVibrato(st.config), menu_midi_vibrato_pitch)
          [] command.do = "default" ->
                Silencing(DefaultPreset, SilencedByPreset(DefaultPreset))
          [] command.do = "split" ->
                Silencing(SplitPreset, SilencedByPreset(DefaultPreset)
                                       \cup SilencedByPreset(SplitPreset))
          [] command.do = "mixed" ->
                Silencing(st.config, SilencedByPreset(st.config))

(* The command keys that went down in this scan, if the menu key is down;    *)
(* picked[k] is what key k does, of the things it may do.                    *)
CommandEdges(press) ==
    IF MenuKey \in press THEN (press \ R_press) \cap Range(CommandKeys) ELSE {}

Picks(press) ==
    {picked \in [CommandEdges(press) -> UNION Range(Commands)] :
        \A k \in DOMAIN picked : picked[k] \in Commands[k]}

Unbidden == [config |-> config, silenced |-> {}]

ObeyAll(picked) ==
    LET Step(st, k) == IF k \in DOMAIN picked THEN Obey(st, picked[k]) ELSE st
    IN  FoldLeft(Step, Unbidden, CommandKeys)

(* What the commands of these keys may leave behind. *)
Outcomes(press) == IF CommandEdges(press) = {} THEN {Unbidden}
                   ELSE {ObeyAll(picked) : picked \in Picks(press)}

--------------------------------------------------------------------------------
(* The pressure sensor, half asynchronous: temperature, then pressure, each  *)
(* ready some scans after it was started; then bellow and volume follow.     *)
Magnitude(p) == IF p < 0 THEN -p ELSE p
Attenuated(v, att) == IF att >= v THEN 0 ELSE v - att

Measured(p) ==
    IF p = 0 THEN [air EXCEPT !.phase = "idle", !.bellow = NOPUSH, !.volume = 0]
    ELSE LET dir == IF p < 0 THEN PULL ELSE PUSH
         IN  [phase |-> "idle", bellow |-> dir, bellow_not_null |-> dir,
              volume |-> Attenuated(Magnitude(p), config.volume_attenuation)]

SensorSteps ==
    CASE air.phase = "idle" -> {[air EXCEPT !.phase = "temperature"]}
      [] air.phase = "temperature" -> {air, [air EXCEPT !.phase = "pressure"]}
      [] air.phase = "pressure" -> {air} \cup {Measured(p) : p \in Pressures}

(* volume_type CONSTANT overrides the measured volume; 3 stands for 100. *)
Resolved(a) ==
    IF config.volume_type = "constant"
    THEN [a EXCEPT !.bellow_not_null = a.bellow, !.volume = 3 - config.volume_attenuation]
    ELSE a

--------------------------------------------------------------------------------
(* Prepare MIDI message: the notes with a count above 0. *)
transpose_left_hand(n, t) ==
    CASE n \in 36..47 -> ((n + t) % 12) + 36
      [] n \in 48..59 -> ((n + t) % 12) + 48
      [] OTHER -> n

Silent_IgnoresMenu(press, a) == a.bellow = NOPUSH   \* mutant
Silent(press, a) == MenuKey \in press \/ a.bellow = NOPUSH

RightNotes(press, a) ==
    IF Silent(press, a) THEN {}
    ELSE {R_notes[a.bellow][k] + config.transpose : k \in press}

LeftNotes(press, lpress, a) ==
    IF Silent(press, a) THEN {}
    ELSE LET play(tables) ==
                 {transpose_left_hand(tables[a.bellow][k], config.transpose) : k \in lpress}
         IN  play(L_notes) \cup (IF config.fifth_enable THEN play(L_fifths) ELSE {})

(* Send MIDI message.  Struck: newly played, or played across a change of    *)
(* the bellow's direction.                                                   *)
Struck_And(now, prev, turned) == IF turned THEN now \ prev ELSE {}   \* mutant
Struck(now, prev, turned) == IF turned THEN now ELSE now \ prev

(* Notes on a channel, in each of the octaves `at'. *)
Sounds(ch, notes, at) == {<<ch, (n + shift) % 128>> : n \in notes, shift \in at}

(* The notes sounding once a hand's changes are sent on channel ch: for each   *)
(* note that changes, lowest first, off if no longer played, on if struck, in  *)
(* each of the octaves `at'.  A pitch belongs to the last of the notes that    *)
(* reach it; a Note On of velocity 0 is a Note Off; channel 0 is not sent.     *)
Sent(before, ch, now, prev, turned, velocity, at) ==
    LET struck   == Struck(now, prev, turned)
        changed  == (prev \ now) \cup struck
        From(i)  == Sounds(ch, {i}, at)
        on       == {x \in Sounds(ch, struck, at) :
                        \E i \in struck : x \in From(i) /\ ~\E j \in changed : j > i /\ x \in From(j)}
    IN  IF ch = 0 THEN before
        ELSE (before \ Sounds(ch, changed, at)) \cup (IF velocity = 0 THEN {} ELSE on)

Voices(c) == (IF c.bassoon_enable THEN {12 * c.octave - 12} ELSE {})
             \cup (IF c.picolo_enable THEN {12 * c.octave + 12} ELSE {})
             \cup (IF c.flute_enable THEN {12 * c.octave} ELSE {})

VibratoVoice(c) == IF c.vibrato # 0 THEN {12 * c.octave} ELSE {}

(* volume_resolved and expression_resolved; the expression is 3 of 3. *)
VolumeResolved(a, c) ==
    IF c.volume_type = "reverted" THEN Attenuated(3, c.volume_attenuation) ELSE a.volume
ExpressionResolved(a, c) ==
    IF c.volume_type # "reverted" THEN 3
    ELSE IF a.volume # 0 THEN a.volume + c.volume_attenuation ELSE 0

Channels(c) == {c.channel_lh, c.channel_rh}
               \cup (IF c.vibrato # 0 THEN {VIBRATO_CHANNEL} ELSE {})

VolumeSentTo_OnChangeOnly(v, c) ==   \* mutant
    IF volume_prev # v THEN Channels(c) ELSE {}
(* The channels that are sent the volume v in this turn. *)
VolumeSentTo(v, c) == IF volume_prev # v \/ loop_count = 0 THEN Channels(c) ELSE {}

(* One turn of the loop, with the keys it reads, the sensor's answer and     *)
(* what obeying the command keys led to.                                     *)
Scan(press, lpress, a, obeyed) ==
    LET c == obeyed.config
        right == RightNotes(press, a)
        left == LeftNotes(press, lpress, a)
        turned == a.bellow_not_null # bellow_prev
        velocity == ExpressionResolved(a, c)
        v == VolumeResolved(a, c)
        rh == Sent(sounding, c.channel_rh, right, R_played_note, turned, velocity, Voices(c))
        vib == Sent(rh, VIBRATO_CHANNEL, right, R_played_note, turned, velocity, VibratoVoice(c))
        lh == Sent(vib, c.channel_lh, left, L_played_note, turned, velocity, {0})
    IN  /\ air' = a
        /\ R_press' = press /\ L_press' = lpress
        /\ R_played_note' = right /\ L_played_note' = left
        /\ config' = c
        /\ bellow_prev' = IF a.bellow # NOPUSH THEN a.bellow ELSE bellow_prev
        /\ volume_prev' = v
        /\ loop_count' = (loop_count + 1) % VolumePeriod
        /\ sounding' = lh
        /\ level' = [ch \in 1..15 |-> CASE ch \in VolumeSentTo(v, c) -> v
                                        [] ch \in obeyed.silenced \ VolumeSentTo(v, c) -> 0
                                        [] OTHER -> level[ch]]

Next == \E press \in SUBSET RKey, lpress \in SUBSET LKey :
            \E a \in {Resolved(sensor) : sensor \in SensorSteps}, obeyed \in Outcomes(press) :
                Scan(press, lpress, a, obeyed)

(* while (1): the loop goes on turning. *)
Turning == WF_loop_count(loop_count' = (loop_count + 1) % VolumePeriod)

Spec == Init /\ [][Next]_vars /\ Turning

(* A player who puts the menu key down before any of the command keys: a     *)
(* scan takes a few milliseconds, and mostly that is how it goes.  When both *)
(* are first seen in one scan, the code obeys the command before it works    *)
(* out the note offs, and what sounded under the old setting stays on.       *)
MenuKeyFirst ==
    MenuKey \in R_press' \ R_press => (R_press' \ R_press) \cap Range(CommandKeys) = {}

CarefulSpec == Init /\ [][Next /\ MenuKeyFirst]_vars /\ Turning

--------------------------------------------------------------------------------
Wanted == Sounds(config.channel_lh, L_played_note, {0})
          \cup Sounds(config.channel_rh, R_played_note, Voices(config))
          \cup Sounds(VIBRATO_CHANNEL, R_played_note, VibratoVoice(config))

(* Whatever the player does with keys, bellow, stops, vibrato and presets,     *)
(* nothing sounds that no key asks for: no note is stuck.  The off of a note  *)
(* is worked out from the configuration of the moment of its release, so     *)
(* this rests on the menu key silencing all before anything can change.      *)
OnlyHeldNotesSound == sounding \subseteq Wanted

(* Every note a key asks for sounds until the last such key is up: those of  *)
(* the left hand also when a bass and the fifth of a chord are one note,     *)
(* those of the right hand as long as the flute alone plays.  (Bassoon and   *)
(* piccolo shift notes after the keys of each note have been counted, so one *)
(* of two keys an octave apart then ends the note of both.)                  *)
HeldNotesSound ==
    /\ Sounds(config.channel_lh, L_played_note, {0}) \subseteq sounding
    /\ config.flute_enable /\ ~config.bassoon_enable /\ ~config.picolo_enable
       => Wanted \subseteq sounding

(* A menu function that changes a program leaves its channel silent; the     *)
(* volume is sent again before long, whether the bellow moves or not.        *)
VolumeCatchesUp ==
    []<>( /\ level[config.channel_rh] = volume_prev
          /\ level[config.channel_lh] = volume_prev
          /\ config.vibrato # 0 => level[VIBRATO_CHANNEL] = volume_prev )
================================================================================
