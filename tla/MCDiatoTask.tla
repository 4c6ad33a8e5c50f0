----------------------------- MODULE MCDiatoTask -------------------------------
(* Two right keys besides the menu key, an octave apart, one of them also a   *)
(* command key; two left keys that share a note through the fifths.           *)
EXTENDS DiatoTask

CONSTANTS low, high, menu,   \* right keys
          bass, chord        \* left keys

MCRKey == {low, high, menu}
MCLKey == {bass, chord}

Default == [bassoon_enable |-> FALSE, picolo_enable |-> FALSE, flute_enable |-> TRUE,
            fifth_enable |-> TRUE, vibrato |-> 0, vibrato_prev |-> 0,
            octave |-> 1, transpose |-> 0, channel_rh |-> 1, channel_lh |-> 2,
            volume_attenuation |-> 2, volume_type |-> "normal"]
Split == [Default EXCEPT !.volume_attenuation = 0]

Table(pull, push) == PULL :> pull @@ PUSH :> push

MCR_notes == Table(low :> 62 @@ high :> 74 @@ menu :> 75,
                   low :> 55 @@ high :> 67 @@ menu :> 82)
MCL_notes == Table(bass :> 38 @@ chord :> 50, bass :> 38 @@ chord :> 50)
MCL_fifths == Table(bass :> 0 @@ chord :> 57, bass :> 50 @@ chord :> 57)

Stop(s) == [do |-> "stop", what |-> s]
Menu(f, v) == [do |-> "menu", what |-> f, value |-> v]
Field(f) == [do |-> "field", what |-> f]
Keys == <<high>>
Everyday == high :> {Stop("bassoon_enable"), [do |-> "vibrato"], [do |-> "default"],
                     [do |-> "mixed"], Menu("volume_type", "constant"), Menu("vibrato", 2),
                     Field("program_lh"), Field("mt32_soundfont")}

BothWays == {-1, 0, 3}
================================================================================
