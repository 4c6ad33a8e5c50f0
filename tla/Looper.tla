-------------------------------- MODULE Looper ---------------------------------
(***************************************************************************)
(* The audio looper: a key of the left hand, scanned on core 3, sends a    *)
(* command through m_loopcommandbuffer; the audio task on core 2 takes one *)
(* command per chunk of samples and records, plays back or stops.          *)
(***************************************************************************)
EXTENDS Integers, Sequences

CONSTANTS loopBuffSize,        \* 2*48000*240 samples
          softmute_nb_sample,  \* 3200 samples
          Chunks,              \* nSample: how many samples the sound queue has room for
          WordSize,            \* 2^32 or 2^64: size_t wraps there
          QueueSize,           \* commands m_loopcommandbuffer holds: 4096
          MaxPresses,          \* bound: presses of the loop key in a behaviour
          MaxTake              \* bound: samples of one recording

ASSUME LooperAssumption ==
    /\ loopBuffSize \in Nat \ {0} /\ softmute_nb_sample \in Nat \ {0}
    /\ QueueSize \in Nat \ {0}
    /\ Chunks \subseteq 0..loopBuffSize-1
    /\ WordSize \in Nat /\ loopBuffSize < WordSize   \* 23 million samples

VARIABLES bonus_left_key,  \* the loop key as last scanned
          loop_state,      \* what the display of core 3 shows: I, R or O
          commands,        \* how many m_loopcommandbuffer holds
          lost,            \* a command found it full
          presses,
          recording, playing, writepointer, endpointer, readpointer,
          loopBuffer,      \* per slot the take and the sample of it stored there
          take, taken,     \* number of this take, and of its next sample
          heard            \* slots the last chunk played, with their coefficients

keyVars   == <<bonus_left_key, loop_state, lost, presses>>
audioVars == <<recording, playing, writepointer, endpointer, readpointer, loopBuffer,
               take, taken, heard>>
looperVars == <<keyVars, commands, audioVars>>

Slot == 0..loopBuffSize-1
Unwritten == [take |-> 0, sample |-> 0]

LooperInit ==
    /\ bonus_left_key = FALSE /\ loop_state = 0 /\ commands = 0
    /\ lost = FALSE /\ presses = 0
    /\ recording = FALSE /\ playing = FALSE
    /\ writepointer = 0 /\ endpointer = 0 /\ readpointer = 0
    /\ loopBuffer = [s \in Slot |-> Unwritten]
    /\ take = 0 /\ taken = 0 /\ heard = <<>>

--------------------------------------------------------------------------------
(* Core 3: the loop key, down or up in this scan; a press counts once. *)
ScanLoopKey(down) ==
    /\ bonus_left_key' = down
    /\ \/ /\ down /\ ~bonus_left_key
          /\ presses < MaxPresses
          /\ presses' = presses + 1
          /\ loop_state' = (loop_state + 1) % 3
          /\ commands' = IF commands < QueueSize THEN commands + 1 ELSE commands
          /\ lost' = (lost \/ commands = QueueSize)
       \/ /\ ~down \/ bonus_left_key
          /\ UNCHANGED <<loop_state, commands, lost, presses>>
    /\ UNCHANGED audioVars

--------------------------------------------------------------------------------
(* Core 2: the FSM's answer to a command, if the chunk finds one. *)
Fsm == [recording |-> recording, playing |-> playing, writepointer |-> writepointer,
        endpointer |-> endpointer, readpointer |-> readpointer]

CommandWaits_OffByOne == commands > 1   \* mutant
(* At most one command is read per chunk. *)
CommandWaits == commands > 0

Advance_KeepsWritepointer(f) ==   \* mutant
    CASE ~f.recording /\ ~f.playing -> [f EXCEPT !.recording = TRUE]
      [] f.recording -> [f EXCEPT !.endpointer = f.writepointer, !.recording = FALSE,
                                  !.playing = TRUE, !.readpointer = 0]
      [] OTHER -> [f EXCEPT !.playing = FALSE]
Advance_RecordsAgain(f) ==   \* mutant
    CASE ~f.recording -> [f EXCEPT !.recording = TRUE, !.playing = FALSE, !.writepointer = 0]
      [] f.recording -> [f EXCEPT !.endpointer = f.writepointer, !.recording = FALSE,
                                  !.playing = TRUE, !.readpointer = 0]
Advance(f) ==
    CASE ~f.recording /\ ~f.playing -> [f EXCEPT !.recording = TRUE, !.writepointer = 0]
      [] f.recording -> [f EXCEPT !.endpointer = f.writepointer, !.recording = FALSE,
                                  !.playing = TRUE, !.readpointer = 0]
      [] ~f.recording /\ f.playing -> [f EXCEPT !.playing = FALSE]

AvoidOverflow_OffByOne(f, n) ==   \* mutant
    IF f.writepointer + n > loopBuffSize + 1 THEN [f EXCEPT !.writepointer = 0] ELSE f
AvoidOverflow(f, n) ==
    IF f.writepointer + n >= loopBuffSize THEN [f EXCEPT !.writepointer = 0] ELSE f

(* The soft mute's coefficient, in units of 1/softmute_nb_sample.  The       *)
(* position is a size_t, so the end of the recording, an int, joins it there. *)
Unsigned(x) == x % WordSize
Coefficient_FadesThroughout(f, pos) ==   \* mutant
    IF pos < softmute_nb_sample THEN pos ELSE Unsigned(f.endpointer - pos)
Coefficient(f, pos) ==
    CASE pos < softmute_nb_sample -> pos
      [] pos >= softmute_nb_sample /\ pos > Unsigned(f.endpointer - softmute_nb_sample) ->
            Unsigned(f.endpointer - pos)
      [] OTHER -> softmute_nb_sample

AfterPlaying_TestsFirst(f, n) ==   \* mutant
    [f EXCEPT !.readpointer = IF @ >= f.endpointer \/ @ >= loopBuffSize THEN 0 ELSE @ + n]
(* Playback moves on by the whole chunk, then sees whether it passed the end. *)
AfterPlaying(f, n) ==
    LET next == f.readpointer + n
    IN  [f EXCEPT !.readpointer = IF next >= f.endpointer \/ next >= loopBuffSize
                                  THEN 0 ELSE next]

(* One pass of AudioTask's loop, in which the sound queue takes n samples. *)
AudioChunk(n) ==
    LET f0 == IF CommandWaits THEN Advance(Fsm) ELSE Fsm
        f  == AvoidOverflow(f0, n)
        starts == f.recording /\ ~recording
        first == IF starts THEN 0 ELSE taken
        thisTake == IF starts THEN take + 1 ELSE take
        g == IF f.recording THEN [f EXCEPT !.writepointer = @ + n] ELSE f
        h == IF g.playing THEN AfterPlaying(g, n) ELSE g
    IN  /\ f.recording => first + n <= MaxTake
        /\ commands' = IF CommandWaits THEN commands - 1 ELSE commands
        /\ loopBuffer' = IF f.recording
                         THEN [s \in DOMAIN loopBuffer \cup f.writepointer..f.writepointer+n-1 |->
                                 IF s \in f.writepointer..f.writepointer+n-1
                                 THEN [take |-> thisTake, sample |-> first + s - f.writepointer]
                                 ELSE loopBuffer[s]]
                         ELSE loopBuffer
        /\ take' = thisTake
        /\ taken' = IF f.recording THEN first + n ELSE 0
        /\ heard' = IF g.playing
                    THEN [i \in 1..n |-> [slot |-> g.readpointer + i - 1,
                                          coeff |-> Coefficient(g, g.readpointer + i - 1)]]
                    ELSE <<>>
        /\ recording' = h.recording /\ playing' = h.playing
        /\ writepointer' = h.writepointer /\ endpointer' = h.endpointer
        /\ readpointer' = h.readpointer
        /\ UNCHANGED keyVars

Audio == \E n \in Chunks : AudioChunk(n)
LooperNext == (\E down \in BOOLEAN : ScanLoopKey(down)) \/ Audio

LooperSpec == LooperInit /\ [][LooperNext]_looperVars

(* Core 2 loops as long as the system runs. *)
LooperFairSpec == LooperSpec /\ WF_looperVars(Audio)

--------------------------------------------------------------------------------
TypeOK ==
    /\ loop_state \in 0..2 /\ commands \in 0..QueueSize
    /\ recording \in BOOLEAN /\ playing \in BOOLEAN
    /\ writepointer \in Slot /\ endpointer \in Slot /\ readpointer \in Slot

FsmState == IF recording THEN 1 ELSE IF playing THEN 2 ELSE 0

(* Nothing is recorded outside loopBuffer, wherever a recording of any length *)
(* and its uneven chunks run into the end of it.                              *)
RecordsInsideBuffer == DOMAIN loopBuffer = Slot

(* The display of core 3 and the looper of core 2 count the same presses,    *)
(* each with a counter of its own: they differ by what is in the queue.      *)
DisplayMatchesLooper == lost \/ loop_state = (FsmState + commands) % 3

(* What is played back is one take without a gap or a splice, also when the  *)
(* recording ran over the end of the buffer and started over.                *)
LoopIsOneStretch ==
    playing => \A s \in 0..endpointer-1 :
                  /\ loopBuffer[s].take = take
                  /\ s > 0 => loopBuffer[s].sample = loopBuffer[s-1].sample + 1

(* A press of the loop key takes effect. *)
CommandsTakeEffect == commands > 0 ~> commands = 0

(* "We do a linear volume increase on the first 50ms samples" (mt32pi.cpp:569): *)
(* inside the recording the soft mute turns the loop down, never up, although   *)
(* its position is unsigned and the end of the recording may be below it.       *)
SoftmuteNeverAmplifies ==
    \A i \in DOMAIN heard :
        heard[i].slot < endpointer => heard[i].coeff <= softmute_nb_sample

(* "Reset if > recording size or total size" (mt32pi.cpp:660): a chunk may run  *)
(* over the end of the recording, but none starts beyond it.                    *)
ChunksStartInside ==
    heard # <<>> => heard[1].slot < endpointer \/ heard[1].slot = 0
================================================================================
