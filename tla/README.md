# A verification project for mt32-pi (MIDI accordion edition)

mt32-pi is a bare-metal MIDI synthesizer for the Raspberry Pi; this edition adds
an accordion: keys, stops and a bellow sensor that play the synthesizer, and an
audio looper. The modules here model the parts of it where several cores,
interrupt handlers, queues, timers and state machines meet. TLC checks them on
small instances, TLAPS proves the safety results for every value of the
constants. All paths below are relative to the repository's root (`src/...`).

Contents: [the system](#the-system) · [hazards](#what-is-hard-to-test) ·
[modules](#the-modules-and-the-code) · [runs](#the-runs) ·
[fairness](#fairness) · [proofs](#what-is-proved) · [findings](#findings) ·
[seen while modelling](#seen-while-modelling) ·
[left out](#what-is-not-modelled) · [plan](#plan)

To check a run: `tlc -config Looper.cfg Looper.tla` (runs and their .cfg files
are listed below); to check the proofs of a module: `tlapm AccordionProofs.tla`.

## The system

### Cores

`CMT32Pi::Run` (mt32pi.cpp:683) gives each of the four cores one endless task.

| core | task | what it does |
|---|---|---|
| 0 | `MainTask` (415) | reads MIDI, parses it, drives the synths; buttons, MiSTer, network, USB, power saving, deferred SoundFont switch; interrupts arrive here |
| 1 | `UITask` (503) | draws LCD and MiSTer status, updates the display state |
| 2 | `AudioTask` (558) | renders the current synth, runs the looper, feeds the sound device |
| 3 | `DiatoTask` (diatotask.cpp:718) | scans bellow and keys, the accordion's menu, sends MIDI |

### Components

| component | state | operations | talks to |
|---|---|---|---|
| Ring buffer (`ringbuffer.h`) | array, in and out index, spin lock | Enqueue, Dequeue, both in bulk | interrupts → core 0: `m_MIDIRxBuffer`, `m_EventQueue` |
| Shared buffer (`sharedbuffer.cpp`, `cppQueue.cpp`) | record array, indices, count, spin lock | write, read, peek, flush | core 3 → core 0: `m_sharedbuffer`; core 3 → core 2: `m_loopcommandbuffer` |
| MIDI parser (`midiparser.cpp`) | state, message buffer, length | ParseMIDIBytes, ResetState | called by core 0 for every input, calls OnShortMessage, OnSysExMessage |
| MIDI input path (`mt32pi.cpp` 991-1114, `MIDI.hpp`, `mt32.h`) | running status of the sender, chunks, purges | send, UpdateMIDI, PurgeMIDIBuffers, SwitchSoundFont | shared buffer, ring, parser, synth |
| Accordion (`diatotask.cpp`) | sensor phase, bellow, keys now and before, notes played, configuration | one scan: measure, read keys, commands, notes, volume | MIDI library, shared buffer, loop command buffer |
| Looper (`AudioTask`) | FSM flags, read, write and end pointer, sample buffer | a chunk of samples, a command | loop command buffer |
| Power management (`power.cpp`) | state, time of last activity | Update, Awaken | sound device, display |
| Display state (`lcd/ui.cpp`) | `m_State`, `m_nStateTime`, scrolling | ShowSystemMessage and the like (core 0), Update (core 1) | LCD, power, deferred switch |
| Deferred SoundFont switch (`mt32pi.cpp` 471-485, 1289-1299) | flag, index, timer | DeferSwitchSoundFont, the test in MainTask | display, synth |
| Life cycle (`Initialize`, `MainTask`, `UITask`, `PanicHandler`) | `m_bRunning`, `m_bUITaskDone` | start the cores, reboot, panic | every core |
| Zone allocator (`zoneallocator.cpp`) | block list with tags, where to search next | Alloc, Realloc, Free, FreeTag | FluidSynth |
| Synth selection (`mt32pi.cpp` 1116-1299, `soundfontsynth.cpp`, `mt32synth.cpp`) | current synth, ROM set, SoundFont index, the synth's lock | SwitchSynth, SwitchMT32ROMSet, SwitchSoundFont, Render | cores 0, 1, 2 |
| Controls (`control/*.cpp`) | samples, debounced buttons, encoder state and delta | timer interrupt, Update | event queue, taken by `ProcessEventQueue` |
| MiSTer control (`control/mister.cpp`) | link up, last status of either side | Update every 50 ms on core 1 | I²C register of the MiSTer, event queue, synth selection |
| AppleMIDI (`net/applemidi.cpp`) | session state, initiator, sync times | packets on two sockets, timeouts; the MIDI command list of a packet | the one MIDI parser, through `OnAppleMIDIDataReceived` |
| UDP MIDI, FTP (`net/*.cpp`) | sockets, FTP session | receive, commands | parser; file system |
| Network and USB plug and play (`mt32pi.cpp`) | devices present, network ready | UpdateNetwork, UpdateUSB | SoundFont list, display |
| ROM and SoundFont managers, configuration, LCD drivers, MIDI monitor, Pisound | lists, fields, device registers | scans, parsing, drawing | file system, devices |
| Arduino compatibility and libraries | | | used by the accordion; `cppQueue` and `MIDI.hpp` are modelled as far as used |

### How they interact

```
 keys, bellow                    USB, Pisound interrupts    GPIO serial, network
      |                                  |                          |
  DiatoTask (3) --bytes--> m_sharedbuffer|  m_MIDIRxBuffer          |
      |                          \       v       |                  v
      | loop commands             `--> UpdateMIDI / PurgeMIDIBuffers (0) --> CMIDIParser
      v                                                              |  OnShortMessage
  m_loopcommandbuffer --> AudioTask (2) <-- m_pCurrentSynth <--------+  OnSysExMessage
                                                                     v
  UITask (1) <-- m_State, m_nStateTime (no lock) --> ShowSystemMessage, CPower (0)
```

Correct means, part by part: a queue delivers what it accepted, once, in order;
the parser calls the handlers the byte stream calls for; the synthesizer plays
the notes the accordion holds, none stuck and none missing; the looper stays in
its buffer and plays one take; a message is seen, the display is lit unless
asleep, an idle system sleeps; the LCD has one user; reboot and panic reach
their end.

## What is hard to test

`PROJECT.json` lists every hazard at its line, with the properties that would
catch it or the reason why none does. In short:

- **Interleaving without locks**: the display state on cores 0 and 1, the
  synth pointer on cores 0, 1 and 2, the two flags of the life cycle, chunks of
  MIDI cut wherever core 3 happens to be.
- **Re-entrance**: a SysEx that switches the SoundFont purges the input from
  inside the parser that delivers it.
- **Running status on three levels**: sender, a *copy* of the sender, parser.
- **Notes whose end is computed, not remembered**: the accordion works out note
  offs from the settings at release.
- **Buffers at their limit**: spare slot of the ring, full shared buffer, full
  loop buffer in chunks that do not divide it, lost loop commands.
- **Progress**: deferred switch, power saving, volume after a program change,
  reboot and panic waiting for another core, half an invitation.
- **State kept twice**: the status of synths, MiSTer and menu; the SoundFont
  index and the list it counts in; two ports of one AppleMIDI session.
- **Layouts only a long sequence of calls reaches**: the allocator's list and its
  next-fit pointer after merges.

## The modules and the code

`PROJECT.json` maps every definition to its lines. Names of variables and
actions are those of the code where TLA+ allows it.

| module | stands for | state and steps |
|---|---|---|
| `BoundedFifo` | what any of the queues promises | abstract: contents `q`, last answer `ret` |
| `RingBuffer` | `CRingBuffer<T, N>` | array and two indices; one action per method, atomic as each holds the spin lock |
| `SharedBuffer` | `sharedbuffer` over `cppQueue` | array, `in`, `out`, `cnt`; write, read, peek, flush |
| `MidiParser` | `CMIDIParser` | the parser is a record, its functions are operators that return the parser afterwards and the handlers called; `Parse` feeds one byte |
| `MidiStream` | | what a stream of MIDI means when it is read as a whole: the definition the parser is held against |
| `MidiInput` | core 3's sender, shared buffer, `UpdateMIDI`, purges, interrupt ring | `EXTENDS MidiParser`; `SendScript` encodes a script message by message (`SendAll`), then a step per byte written, read or parsed; `purges` is a stack, because a purge may be started from inside another's parsing |
| `DiatoTask` | one turn of the accordion's loop | `Scan` with the keys, the sensor's answer, and what the menu commands did; what the messages leave sounding |
| `Looper` | looper part of `AudioTask`, the loop key of `DiatoTask` | `ScanLoopKey` on core 3, `AudioChunk` on core 2 |
| `PowerDisplay` | `CPower`, `CUserInterface`'s states, deferred switch | a step per access of the unlocked fields: `Show`/`Stamp` on core 0; `ReadClock`, `UpdateScroll`, `Decide`, `Act`, `Light`, `Draw` on core 1 |
| `Lifecycle` | start-up, `m_bRunning`, `m_bUITaskDone`, reboot, `PanicHandler` | where each core is; a step per test or assignment of a flag |
| `ZoneAllocator` | `CZoneAllocator` | `hdr`, the headers as a function from addresses in 16 byte units; operators from heap to heap (`Absorb`, `Split`, `NextFit`, `Take`, `FreeBlock`, `FreeAll`, `Expand`, `Shrunk`), one action per method |
| `RtpMidi` | `ParseMIDICommandSection` and what it calls | `EXTENDS MidiParser`; a step per turn of the loop over the command list and per turn of the loop in `ParseMIDIBytes` that each command is handed to |
| `RtpPackets` | | RTP-MIDI packets as senders write them, each with the messages it means |
| `Buttons`, `RotaryEncoder` | `CControl`, `CRotaryEncoder` | the timer interrupt is a step that may come between the steps of `Update` (one per bit) and of `Read` (load, store); the encoder's count wraps at `MaxDelta` |
| `SynthControl` | `ProcessEventQueue`, `ParseCustomSysEx`, the switches, `UpdateUSB`, with the synths' and managers' part in them | a step per event, command or update of core 0; a SoundFont switch takes two |
| `MisterControl` | `CMisterControl`, the poll of `UITask` | `EXTENDS SynthControl`; core 1 reads the synth, then the rest, then acts; the MiSTer's register and menu are external |
| `AppleMidi` | `CAppleMIDIParticipant` | a step per turn of `Run`, receiving from both sockets; peers and network are external |
| `MidiParserProofs` | | lemmas and theorems about `MidiParser`; the three modules on top of the parser cite them |
| `PartsProofs` | | theorems about `RingBuffer`, `SharedBuffer`, `Buttons`, `RotaryEncoder`, and about the parser under streams (`MidiStream`) and packets (`RtpMidi`) |
| `AccordionProofs` | | theorems about `Looper` and `DiatoTask` |
| `LifecycleProofs` | | theorems about `Lifecycle` and `PowerDisplay` |
| `ZoneAllocatorProofs`, `MidiInputProofs`, `AppleMidiProofs`, `MisterControlProofs` | | theorems about the module they are named after and those it extends |
| `MC*` | | instances for TLC |

Operators named `X_Something` with the comment `mutant` are plausible wrong
versions of `X`; `PROJECT.json` pairs each with the property that rejects it.
They are not used by any specification.

### What is composed, and at which grain

`MCParts` extends the parts that share no state (queues, allocator,
streams, packets, buttons, encoder) and puts them side by side: every behaviour runs
one of them, so that a single run asks all their questions of the very
definitions the theorems are about. `MisterControl` composes core 1's poll with
the synth selection and its event queue.

`MidiInput` uses a queue as a bounded sequence. That is justified by
`SharedBuffer` and `RingBuffer`, which are checked and proved to implement
`BoundedFifo`. It uses the parser through `ParseByte`, the same operator that
`MidiParser` steps through alone, that `MidiStream` compares with the meaning of
the whole stream, and that `RtpMidi` feeds with packets. `Looper` needs of its command
buffer only how many commands it holds, since all are alike.

### Abstractions to know about

- **MidiInput**: what a call of the accordion sends is a *script*, a short
  sequence of whole messages in wire form. The model keeps the byte level because
  running status and cut chunks are what can go wrong. SysEx other than the
  SoundFont switch goes to the synth with no further effect on notes.
- **DiatoTask**: notes are numbers of the real tables for a few keys; volumes
  are 0 to 3, standing for 0 to 127; the pressure curve is replaced by the
  sign and size of the pressure. Menu navigation is replaced by the values it
  can set (`Commands`), each with the function its `VALUE` or `FIELD` calls
  (`MenuFunction`): choosing volume type, synth, SoundFont, pitch or program sends
  program changes and channel volume 0. A setting the other properties do not tell
  apart (`Field`) is no part of `config`. A scan is one step: nothing else touches its state.
- **Looper**: a sample is identified by its take and number, so that what is
  played shows where it was recorded. Soft-mute coefficients are in units of
  1/`softmute_nb_sample`; `size_t` wraps at `WordSize`.
- **PowerDisplay**: display time advances once per UI update (`age`), main-task
  time once per pass (`idle`, `switchAge`); all timeouts are small numbers.
  `age = -1` says that core 0 stamped a time later than the clock core 1 has
  already read; the unsigned difference then counts as huge (`Delta`).
  `missed` only records who took away a message that had not been drawn: an update
  of core 1, or core 0 itself with the next message or with an awakening. Only the
  first is a matter of the missing lock.
- **Lifecycle**: `PanicSites` says on which cores a panic may strike. The TLC run
  takes cores 0, 2 and 3, from which there is an end (see *Seen while modelling*
  for start-up and core 1); the theorems cover every choice.

- **ZoneAllocator**: sizes in units of 16 bytes, a header of two; a heap of 13.
  Contents of blocks are not modelled. `Intact` says that no header has been
  written over another block; behaviours end there (`Restart`), and the run
  `zone_grow` shows that they get there.
- **RtpMidi**: packets are well formed, as a sender writes them; their meaning is
  taken from the messages they were written from, not from the bytes. The length
  field is that of the list.
- **Buttons**: the start-up samples are over (the history starts as all zeros,
  that is, all buttons down; `MainTask` calls Update long after 16 ms).
- **RotaryEncoder**: the pins are where the knob stands, in quarter steps; `uncounted`
  keeps what an interrupt adds between load and store of `Read`, which is lost.
- **SynthControl**: SoundFonts are numbers in path order, a scan is the set it
  finds. Loading a file happens after the synth's lock is released: core 1 may
  look in between. What sounds is told apart by `VoicesOf` a synth: the MT-32's
  eight parts and its rhythm part, of which `AllSoundOff` stops the former only, and
  the SoundFont synth's channels. Default synth, ROM set (also `any`; `all` is left
  out) and SoundFont index are those of the configuration. Volume, LEDs, messages
  are left out.
- **MisterControl**: polls only tell whether a status is another one than last time.
  The model has nobody choose in the *menu* again until a poll has seen the choice
  before (`Menu`): one made and taken back within 50 ms is ignored by the code.
  Buttons and SysEx commands come at any time. `crossed` only records that one of
  them undid a request of the menu before a poll saw what became of it.
- **AppleMidi**: an attempt is one token (initiator token and SSRC); datagrams
  carry kind, sender and token. `oneHost` says whether the peers share an
  address, since the MIDI port's invitation is recognised by address only.
  Peers keep to the protocol and never reuse a token still about.

## The runs

Each property of a passing run has a mutant in `PROJECT.json` that makes TLC
report its violation. Type invariants are left to the proofs.

| run | what it asks | bounds, and why they are enough |
|---|---|---|
| `parts` | Are both queues FIFOs (`OnlyWrittenSlotsQueued`, `RingImplementsFifo`, `SharedImplementsFifo`)? Does the allocator keep its list linked and disjoint, its free space merged, find what fits, count right (`BlocksAreDisjoint`, `FreeSpaceIsMerged`, `AllocFindsAFit`, `CountsLiveBlocks`)? Are the handlers called those a reader of the *whole* stream expects (`LengthMatchesState`, `DecodesTheStream`), and those a packet means (`PacketIsHeard`)? Do events and clicks tell what was pressed and turned (`EventsAreDebounced`, `ClicksFollowTheKnob`)? | Ring of 4, batches up to its size: indices wrap, batches are cut (proved for every N). Shared buffer of 3: full, empty, wrapped. Heap of 13 units, blocks of 3, 4 and 5: four live blocks, every order of freeing them, two tags. Streams of six bytes over seven (data, Note On, a one-data-byte message, SysEx, system common, real-time), SysEx buffer of 4 so that it overflows, Note Ons ignored or not byte by byte. Packets of one to three messages of nine kinds, with and without first delta time, behind five states of the parser. Two buttons, history of 3. Knob within 6 quarter steps, full encoder, a count of -3 to 3 so that it wraps, steps missed between samples. |
| `zone_grow` | Does the rest hold its header when a block grows in place? Violated | as in `parts` |
| `parser_tune` | the same with Tune Request: violated | five bytes |
| `input` | Does the synth hear what was sent, once, in order (`HeardInOrder`), do the notes settle (`NotesSettle`), does the buffer drain (`SharedBufferDrains`), does a purge start notes (`PurgeStartsNoNote`)? | three inputs in all: accordion scripts, USB packets, SoundFont switches by button or SysEx; shared buffer of 4 bytes (so it fills), chunks of 3: every message is cut everywhere; nested and consecutive purges |
| `input_rom` | a note, a ROM-set SysEx, a note: violated | three scripts |
| `diato` | Does something sound that no key asks for (`OnlyHeldNotesSound`), is something silent that one does (`HeldNotesSound`), does the volume come back (`VolumeCatchesUp`)? | two right keys an octave apart and the menu key, two left keys that share a note through the fifths, bellow both ways and still, stops, vibrato, two presets, picks of volume mode, pitch, program and SoundFont; volume resent every 2 scans instead of 200. The state space is finite and explored whole. |
| `looper` | Inside the buffer, one unbroken take, no amplification, no chunk that starts beyond the end, display in step, every press takes effect | buffer of 6, soft mute of 2, chunks of 0, 1 and 3, five presses (record, play, stop, record, play), takes of up to 8: longer than the buffer; command queue of 2 |
| `display` | Deferred switch happens, idle system sleeps, backlight follows the state | message time 2, scroll 0 or 1, power saving after 2 passes, two messages: the second may hit any step of the update that expires the first |
| `display_lost` | Does an update take away a message it has not drawn (`UpdatesDrawBeforeClearing`)? Violated | as `display` |
| `lifecycle` | One user of the LCD (`LcdHasOneUser`), a reboot cuts short no drawing but that of a panic screen of core 2 or 3 (`OnlyPanicScreensAreCut`), reboots complete, panics end in the halt, those of cores 2 and 3 in the halt or a reboot (`PanicEndsHalted`) | the model is finite: with and without LCD, MiSTer; panics on cores 0, 2 and 3 |
| `synth` | Only the current synth sounds, but for the rhythm part (`OnlyCurrentSynthSounds`); the SoundFont loaded is the one reported (`LoadedFontIsReported`); mt32-pi does not obey its own words (`NoEcho`); MiSTer and mt32-pi come to agree (`Reconciled`) | two SoundFonts and ROM sets on the card, one of each on the disk (its SoundFont sorts first, so all indices move), the second SoundFont configured, event queue of 4 (it fills), two changes: buttons, commands, menu, notes, disk, failing file, read or write. Two are what it takes for one to hit every step of the other. The same configuration with three changes (6.8 million states, 13 minutes) passes too. |
| `applemidi` | Who is told it is in is in (`WhoIsInIsHeard`), a session has one machine (`OneMachinePerSession`), live ones are kept (`KeepsLiveSessions`), somebody gets in again and again (`SomebodyGetsIn`) | two peers, on one machine or two, one fault: a datagram lost, late or repeated, a socket that fails to receive or send, a silence; attempts without end, over five tokens |

Every safety property of a passing run is also proved; run and theorem use the
same definition.

Notes on conditions inside properties:

- `HeardInOrder`, `NotesSettle` say nothing after `dropped`: the shared buffer
  loses bytes silently when full, as the code does, and a purge throws them away.
  Their theorems and the `input` run send channel messages; `input_rom` shows why.
- `OnlyHeldNotesSound` is checked under `CarefulSpec`: the menu key is not first
  seen in the same scan as a command key. Without it the property fails after
  three scans; see below.
- `HeldNotesSound` speaks of the right hand only while the flute alone plays;
  see below for bassoon and piccolo.
- `PacketIsHeard` leaves out packets with a *middle* SysEx segment, which the code
  mishandles; see below.
- `LoadedFontIsReported` says nothing once the list was scanned again under the
  index, nor of a synth without SoundFont.
- `Reconciled` says nothing after `lost`: a dropped event, a failed load, a disk
  come or gone while the menu's choice depends on it. Nor does it after `crossed`,
  since then it is false; see below.
- `OnlyCurrentSynthSounds` leaves out the rhythm part; see below.
- `UpdatesDrawBeforeClearing` does not count what core 0 itself takes away.
- `WhoIsInIsHeard` says nothing of sessions mt32-pi has dropped (by timeout, say)
  and not told the peer about; the protocol has the peer find out by its syncs.
- `DisplayMatchesLooper` is conditional on no lost command (4096 fit).
- `RebootCompletes` is conditional on no panic.
- Deadlock is checked in every run; reboot and halt are explicit stuttering ends
  (`Over`), and no run switches the check off.

## Fairness

- `MidiInput`: `WF(Core0Next)`: MainTask's loop keeps turning; `WF(WriteByte)`:
  core 3 finishes a message it has begun. Nothing is assumed about how often
  keys are pressed or packets arrive.
- `DiatoTask`: `Turning`, the `while (1)` goes on; which keys are pressed is free.
- `Looper`: the chunks go on, `WF` on the audio step, as `AudioTask` loops.
- `PowerDisplay`: `WF(MainTask)`, `WF(UITask)`: both loops turn. Activity and
  messages are free.
- `Lifecycle`: `WF` for each core's own steps and for a panic handler that has
  begun. The cores run in parallel, none waits for the scheduler. Reboot and
  panic themselves are never forced.

- `MisterControl`: `WF` on core 1's poll and on core 0's events and end of loading;
  `SF` on the deferred switch, because its timer only counts while core 0 is not
  at something else. I2C and file errors, buttons and menu are free.
- `AppleMidi`: `WF(Turn(FALSE))`: the task runs. `SF(TimePasses)`: the clock goes
  on, whatever happens in between. `SF` on what peers do next and `WF(GiveUp)`: an
  initiator that wants a session goes on with the protocol and invites again.
  Leaving, faults and late datagrams are free.

## What is proved

TLAPS checks the following for every value of the constants that satisfies the
named assumption of the module; every safety property that a passing run checks
is among them. Each theorem names the very definition the run checks. The argument is always the same: an
invariant strong enough to be inductive, one lemma per action that it is kept,
and the property as a consequence.

**PartsProofs** (`RingAssumption`, `SharedAssumption`, `ButtonsAssumption`,
`EncoderAssumption`).

- *Ring*, for every `N` above 0 (the code's `static_assert` asks for more, a power of
  two). `IInv == TypeOK ∧ OnlyWrittenSlotsQueued`: bounds on indices alone would
  not say that the slots between them were written. `RingTypeCorrect`,
  `RingOnlyWritten`, and `RingRefinesFifo`: the ring implements `BoundedFifo` with
  `q <- Contents`, `Capacity <- N - 1`; each call maps to Put, PutMany, Take or
  TakeAll. Its lemmas are the arithmetic of `Mask` and `Ahead` and what
  `Contents` is position by position.
- *Shared buffer*, for every `rec_nb` above 0. `SharedIInv == SharedTypeOK ∧
  CountMatchesIndices`: that `in` is `cnt` ahead of `out` needs the ranges, and
  the ranges need nothing else. `SharedTypeCorrect`, `SharedCountMatches`,
  `SharedRefinesFifo`.
- *Encoder*, one, two or four steps per click, any odd width of the count.
  `EncoderOK` says what the count, what a `Read` holds in its hand and the
  clicks given out add up to. `ClicksAreAccountedFor`.
- *Buttons*, any number of them and of samples. `ButtonsOK` has two halves: the
  history is the window of the last samples, and a button is told as it was
  decided, up to the bit `Update` is at. `EventsFollowButtons`.
- *Streams* of any length, on `MidiParserProofs`. `DecodesTheStream` looks at the
  whole history after each byte, the parser only at its own record.
  `StreamInv` joins the two: where the last status byte of the history is, and that
  the parser holds what its state keeps of the bytes since (a SysEx as far as it came,
  a status that runs on, the part of a short message that is not complete).
  `StreamIsDecoded` follows with a lemma per state. Its hypothesis is that no Tune
  Request comes; with one it is false (finding 1).
- *Packets* of any messages, delta times and running status, behind whatever state
  another input left the parser in. `RtpInv` says that what was heard is what
  the messages before the one at hand mean, that what is left of the list and of
  that message is still to be parsed, and that the parser holds what it was given of
  it; or, between two messages, the status that the next one leaves out, or the
  first segment of a SysEx. `PacketsAreHeard`. Its hypothesis, no *middle* segments in
  the packets sent, is the exception that `PacketIsHeard` itself makes: after such a
  segment the code reads on in the middle of a message, so that nothing can be
  said of the steps in between either.

**ZoneAllocatorProofs** (any heap size, requests above 0, any tags but "Free").
`ZoneIInv` says, as long as no block grew over its remainder (`Intact`; finding
4 is what happens otherwise): the list is a `Chain`, free blocks are `Merged`,
the count is that of the blocks in use. `Chain` is one fact about a function from
addresses to headers: links are inverse to each other, blocks follow each other
by address and lie apart. `Split` and `Absorb`, which every method is made of,
keep it. `Merged` is broken inside a method and restored by it, so the lemmas speak
of a list merged everywhere but at one block. `FreeTag` is the fold `FreeAll`: by
induction over the addresses. `NextFit`'s walk is shown to meet every
block before it gives up. `ZoneBlocksAreDisjoint`, `ZoneFreeSpaceIsMerged`,
`ZoneCountsLiveBlocks`, `ZoneAllocFindsAFit`.

**AccordionProofs**, the looper (buffer and soft mute not empty, chunks smaller
than the buffer, the buffer smaller than the machine's word). Three invariants,
each with the help of the one before.

- `LooperInv == TypeOK ∧ RecordsInsideBuffer ∧ OneAtATime ∧ DisplayMatchesLooper`.
  `OneAtATime` (never recording and playing) is the strengthening: without it the
  FSM is no circle of three, and the display's `loop_state` would not be the
  FSM's state plus the commands under way. `LooperTypeCorrect`,
  `LooperRecordsInside`, `DisplayInStep`.
- `TapeInv`: what is written before the write pointer is one take without a gap
  (`RecordingIsOneStretch`), hence what is before the end pointer.
  `LoopPlaysOneStretch`.
- `PlaybackInv`: the read pointer's range between chunks, hence
  `PlaybackStartsInside`, and `SoftmuteOnlyMutes`.

**AccordionProofs**, the keyboard (any keyboard, note tables, commands and presets).
`KeyboardInv`: `OnlyHeldNotesSound`, nothing sounds on channel 0, and while the
menu key is down neither hand plays; the last is why commands, which that key arms,
do not change the meaning of what sounds. `NoNoteIsStuck` (for `CarefulSpec`),
`HeldNotesAreHeard` (for `CarefulSpec` as long as the settings are `Playable`, a
channel for each voice). `VolumeComesBack` proves the liveness property
`VolumeCatchesUp` from a premise that needs no fairness: turns of the loop with
`loop_count` at 0 keep coming. That they do if only the loop turns (`Turning`) is
left to TLC.

**LifecycleProofs**, life cycle (any `PanicSites`). `IInv` is `TypeOK` with `InitAlone` (during
start-up the other cores do nothing), `OneHandler` (only the core that panicked
is in the handler), `GuruHasWaited` (it draws only when the UI task is done),
`DoneHasReturned` (a UI task that is done never draws again) and
`RebootsAfterReturn`. `LifecycleTypeCorrect`; `LcdExclusive`, wherever a panic
strikes; `RebootCutsOnlyPanicScreens`, wherever a panic strikes as well: core 0 takes
a panic on core 2 or 3 for a reboot and may restart the machine while that panic
screen is drawn (see *Seen while modelling*), and this is the only drawing that a
restart can meet.

**LifecycleProofs**, display (any times, messages and scrolling, a message time of
more than one update). `display_lost` finds an update that takes away a message it
has not drawn. `WithoutRacesUpdatesDraw` says what that takes: in a behaviour in
which no write of core 0 to `m_State` or `m_nStateTime` falls into an update of core
1, and no update begins between two such writes (`UpdateRaces`), no update does
so, and the display is never left asleep on a system that is awake. As far as
updates go the missing lock is the whole cause. It is not the only way for a message
to be lost: core 0 replaces an undrawn one with the next, or clears it by
awakening right after it (see *Seen while modelling*), which no lock prevents, and
of which the theorem says nothing. `DisplayInv`: what
was not drawn yet is too young to be cleared by the update it is in, and an update
that decides to sleep found the system saving power.

**MidiParserProofs** (a SysEx buffer of three bytes and more). `ParserIInv`: the
parser is `WellFormed`, length and contents of its buffer being what its state
allows, and it hands out whole messages. `LengthAlwaysMatches`, `MessagesAreWhole`,
under the hypothesis that no Tune Request comes, for which they are false
(finding 1). Its lemmas say what each of the parser's functions returns for each
kind of byte.

**MidiInputProofs** (any sizes of buffers and number of inputs).

- *Purges*. `BytesInv`, that buffers hold bytes, is enough for `PurgesAreQuiet`,
  without any hypothesis: not on Tune Requests, nor on what is sent, and whatever
  nests.
- *Order*. `FlowInv == BytesInv ∧ (dropped ∨ OnTheWay)`. `OnTheWay` says
  that the bytes `InFlight` (read, shared or still being written), after what the
  parser already holds, divide into the messages due: there are end positions
  and omitted status bytes such that every message is in its place, and a status is left
  out only where the parser will know it by then; and that these messages lead
  from the notes `sounding` to the notes `held`. That is preserved by moving bytes
  between the buffers (they concatenate to the same), by parsing the first (a lemma
  per kind of byte), and by sending (`SendAll`, by induction over the script).
  TLC checked `FlowInv` before it was proved. `MessagesHeardInOrder`,
  `NotesSettleInTheEnd`. Both have the hypothesis that the accordion sends
  channel messages only: with a SysEx among them they are false, which is
  finding 2. USB packets and what buttons switch are unrestricted.

**AppleMidiProofs** (any peers, tokens, faults). `IInv` is `TypeOK` with
`TokensOfAttempts` (who takes part has a token), `ByesAreOld` (a goodbye under
way belongs to a session its sender has left: so it cannot end a later one),
`WhoIsToldIsHeard` (also who has yet to *read* that it is in is heard) and
`OneMachinePerSession`. `ToldMeansHeard`, `OneMachine`, and the action
property `LiveSessionsStay`.

**MisterControlProofs** (any SoundFonts and ROM sets, any length of the event
queue). `IInv == SynthInv ∧ LinkInv`. `SynthInv`: choice, ROM set,
SoundFont and event queue are as they should be, among them that a SoundFont is
being loaded only when none is loaded. `LinkInv`: outside the fields the menu has
chosen, register and last status seen are what mt32-pi wrote (`OursIsOurs`), and
the menu's choices are seen one by one (`SeenInOrder`). `OneSynthSounds`,
`ShownFontIsLoaded`, and the action property `OnlyTheMenuAsks`.

Only model-checked is liveness (`Reconciled`, `SharedBufferDrains`, `SomebodyGetsIn`,
`CommandsTakeEffect`, `DeferredSwitchHappens`, `IdleSystemSleeps`, `LitUnlessAsleep`,
`RebootCompletes`, `PanicEndsHalted`, and `VolumeCatchesUp` under `Turning`): it rests
on fairness, hence on ENABLED, which is out of the prover's reach.

The assumptions on constants say nothing of their sizes beyond what the code
needs; bounds that keep TLC's state space finite (`MaxInputs`, `MaxTurn`, numbers of
changes and faults) are arbitrary in the proofs.

## Findings

Each is a run that TLC finds violated, with the counterexample it prints.

1. **Tune Request does not clear running status** (`parser_tune`,
   midiparser.cpp:146). The case for F6 calls the handler and zeroes
   `m_MessageBuffer[0]`, but breaks to line 155, which stores F6 and counts it.
   State StatusByte then has length 1. `F6 40 40` is delivered as a message, and
   of `F6 90 40 40` the handler gets `F6 90 40`. The comment at line 143 says
   "clear running status".
2. **A SysEx from the menu makes the next message lose its status byte**
   (`input_rom`, mt32.h:10). `mt32_send_sysex` takes the MIDI object by value, so
   the running status that `sendSysEx` resets is the copy's. The original then
   leaves out the status byte of a message like the one before the SysEx; the
   parser, which forgot its own status in the SysEx, drops it. When it was a note
   off, the note hangs.
3. **An update can clear a message it has not drawn** (`display_lost`, ui.cpp:92).
   `Update` decides on `m_State` and `m_nStateTime`, then assigns `m_State`,
   without a lock; what core 0 puts up in between is overwritten, although
   mt32pi.cpp:1343 counts on the LCD task to "pick up the message in its next
   update".
4. **Growing in place may overwrite the next block's header** (`zone_grow`,
   zoneallocator.cpp:212). "Expand in-place if next block is free and large
   enough" (211) compares its size with the difference only. The remainder gets
   a header of 32 bytes and an end magic even when 0 or 16 bytes are left of it,
   and these land on the block behind. Alloc and the shrinking case test
   `MinFragmentSize` first (16, still less than a header).

## Seen while modelling

These are in the models as the code has them, but no doc, comment or test of the
repository promises otherwise, so no run calls them violations.

- `UpdateMIDI` (mt32pi.cpp:991) no longer dequeues `m_MIDIRxBuffer` (997-1006):
  USB and Pisound bytes are only taken out by a purge. In `MidiInput` the ring has
  no other reader than `PurgeRing`.
- `PurgeMIDIBuffers` assigns the comparison (`nBytes = ReceiveSharedbuffer(...) > 0`,
  1030) and parses one byte of each chunk; the rest is discarded unparsed.
- Keys of one note are counted before bassoon and piccolo shift it by an octave
  (diatotask.cpp:1150): of two keys an octave apart, releasing one may end the
  note of both.
- If menu key and a stop are first seen in the same scan, the stop changes the
  settings before the note offs are computed (diatotask.cpp:1017, 1149): the
  notes of the old setting stay on. At a scan of a few milliseconds this is rare,
  and `MenuKeyFirst` excludes it.
- The last chunk of a loop runs past `endpointer` (mt32pi.cpp:661), and the
  soft mute there subtracts with wrap-around (651). `SoftmuteNeverAmplifies` speaks
  of the samples before the end.
- When core 0 changes `m_State` right after core 1 decided to sleep (ui.cpp:124),
  the backlight is off for the rest of that update although the system is awake;
  the next assignment turns it on (`LitUnlessAsleep`). When it is the awakening itself
  that comes there, the display is set asleep on a system that is awake, and stays
  dark until something is shown (`WithoutRacesUpdatesDraw` has the condition).
- A text that comes by SysEx while the system saves power is shown and, in the same
  call, awakens it (mt32pi.cpp:756-760, 712-717): `ExitPowerSavingMode` (ui.cpp:220)
  sets the state to None, and the text is not drawn unless an update came in
  between. In `PowerDisplay` it is counted as missed by "awakening".
- A panic during `Initialize` (the two `LogPanic` before the cores are started)
  waits for a UI task that never ran (mt32pi.cpp:1407), and so does one on core 1.
  A panic on core 2 or 3 clears `m_bRunning`, which core 0 takes for a reboot (1406):
  the machine may reboot instead of halting, even while the panic screen is drawn.
  The `lifecycle` run has panics on cores 0, 2 and 3; the theorems cover all sites.
- `CMT32Synth::AllSoundOff` (mt32synth.cpp:136-144), "Stop all sound immediately", turns
  to parts 0 to 7; the rhythm part is the ninth. Its notes stay on in a synth switched
  away; they are not rendered then, but are heard again when it is selected.
- While a SoundFont switch that MiSTer asked for is deferred, Button 2 moves the
  deferred index on (mt32pi.cpp:1198). If that is back to the SoundFont still playing,
  the switch is refused (soundfontsynth.cpp:341), the status is what it was, and the
  register keeps what was asked for: neither side has changed (mister.cpp:67, 78), and
  they disagree until something else changes. The same goes for any request that
  a button or SysEx command takes back before a poll has seen it done. `Reconciled`
  without `crossed` fails for that reason.
- The configuration may ask for ROM set `all`. If every ROM is there, `HaveROMSet` says
  yes, `GetROMSet` has no case for it (rommanager.cpp:171-225), and the MT-32 is not
  initialized at all.

- A *middle* SysEx segment (applemidi.cpp:249-256) is handed on with its closing F0,
  which makes the parser begin a new message, and is counted two bytes short, so
  its end is parsed again. A cancelled one (269-275) delivers F7, which ends the
  message instead of dropping it.
- A failed SoundFont load leaves an empty synth under the old index
  (soundfontsynth.cpp:427): choosing the old SoundFont again is answered "Already
  selected!" (341-345). After a rescan the index designates another file.
- A request MiSTer makes that cannot be met (ROM set or SoundFont not there) is
  written back to it as if it had been (mister.cpp:84) and never corrected
  while the link is up.
- The write at "Reset Hanging Notes" (mister.cpp:60) does not update
  `m_LastSystemStatus`; `chosen` in the model therefore counts all fields as the
  menu's after it.
- The ROM set is switched by closing and opening mt32emu (mt32synth.cpp:250), with
  which master volume and MIDI channel assignment go back to default; a synth
  made when a disk is attached does not get `m_nMasterVolume`.
- `assert(m_pSynth->open(...))` (mt32synth.cpp:251): with NDEBUG the call is gone.
- The accept of the MIDI port is sent once; if it is lost, mt32-pi counts itself
  connected and rejects every other invitation, the initiator's own included,
  until the sync timeout. A program on the initiator's machine may complete its
  invitation (the port is not compared at line 635). Timing out does not call
  `OnAppleMIDIDisconnect` (752-756).
- A negative result of the control socket is passed on as a packet size in
  `ControlInvitationState` (578-581): the buffer of the packet before is read again.

## What is not modelled

- FTP server: a sequential command loop, nearly all of it file I/O and formatting.
  UDP MIDI: hands datagrams to the parser as they are, which `MidiParser` covers
  with every byte stream.
- `UpdateNetwork`, MIDI and serial devices in `UpdateUSB`: they set pointers to
  device drivers.
- Left out for good: directory scans of ROMs and SoundFonts, ini parsing, LCD
  drivers and drawing, the MIDI monitor's level meters, Pisound's SPI transfers,
  the Arduino libraries beyond what is used: device and file I/O, floating
  point, or third-party code.
- In modelled parts: master volume, the synths' own SysEx and rendering (synths);
  acceleration and reversal (encoder); receiver feedback, sequence numbers and clock
  offset (AppleMIDI); reading of the files (managers); the wiring of the key matrix and the menu library's
  navigation (accordion); the throttle-status message (display); GPIO and USB
  serial reads (input path); the audio rendering itself (looper).

## Plan

Done, from the queues upwards to what composes them: `RingBuffer`, `SharedBuffer`,
`MidiParser`, `MidiInput`, `DiatoTask`, `Looper`, `PowerDisplay`, `Lifecycle`; then
`ZoneAllocator`, `RtpMidi`, `Buttons`, `RotaryEncoder`, `SynthControl`,
`MisterControl`, `AppleMidi`.

The proofs followed the same order; every safety property of a passing run has its
theorem.

Next: a network packet between two bytes of a serial message (`MidiInput` with
`RtpMidi` as a second source); the accordion's volume as numbers up to 127, with
`VOLUME_REVERTED`; the FTP worker's commands; the parser's streams with Tune Request,
once the code clears its status; runs for the parts of `PowerDisplay` that only
`WithoutRacesUpdatesDraw` speaks of; the chunk that the audio core still renders from a
synth switched away.
