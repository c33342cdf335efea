----------------------------- MODULE SoundRing -----------------------------
(***************************************************************************)
(* Sound on its way to the host (platform/sdl_sound.cpp): the emulator's   *)
(* thread writes samples into a ring of buffers, the audio thread's        *)
(* callback plays them.  They share the ring and three offsets, without a  *)
(* lock: each is written by one thread, and the other may see it late.     *)
(*                                                                         *)
(* A sample is known by the offset it was written at, and by whether it is *)
(* still as the Mac has it or in the host's format; converting a block     *)
(* flips the top bit, so that doing it twice undoes it.  A full ring makes *)
(* the writer step back and write the same offsets again: the take tells   *)
(* the second sample from the first.                                       *)
(***************************************************************************)
EXTENDS Integers

CONSTANTS
    BuffLen,      \* kOneBuffLen, the samples of a buffer (512)
    Buffers,      \* kSoundBuffers (16)
    StartBuffs,   \* filled buffers before the playing starts (8)
    Wrap,         \* the offsets are unsigned 16 bit numbers (65536)
    MaxChunk,     \* bound: samples of a sub-tick, and of a callback
    MaxOverflows, \* bound: how often the ring may be full
    RetryLimit    \* the waits of SoundStop (50)

AllBuffLen == Buffers * BuffLen

ASSUME SoundAssumption ==
    /\ MaxOverflows \in Nat /\ {BuffLen, Buffers, Wrap, MaxChunk, RetryLimit} \subseteq Nat \ {0}
    /\ Buffers > 2 /\ StartBuffs \in 1..Buffers
    /\ Wrap % AllBuffLen = 0 /\ Wrap >= 2 * AllBuffLen

VARIABLES
    buffer,                    \* s_soundBuffer
    playOffset, fillOffset, writeOffset,
    minFilled,                 \* s_minFilledSoundBuffs
    lastv,                     \* lastv_: the level of the last sample, at rest or not
    wantPlaying, haveStarted, paused,
    emulator, n, actL, retry,  \* the emulator's thread: where it is; samples to write; waits left
    audio, len, cur, v, toPlay,\* the callback: where it is; samples to play; its own offset, level,
                               \* and how much there was to play
    overflows                  \* how often the ring was full

ringVars == <<buffer, playOffset, fillOffset, writeOffset, overflows>>
emulatorVars == <<emulator, n, actL, retry>>
audioVars == <<audio, len, cur, v, toPlay>>
stateVars == <<minFilled, lastv, wantPlaying, haveStarted, paused>>
vars == <<ringVars, stateVars, emulatorVars, audioVars>>

Levels == {"center", "off"}
Slots == 0..AllBuffLen - 1
Offsets == 0..Wrap - 1
Lower(a, b) == IF a < b THEN a ELSE b

(* (Mutant) offsets that do not wrap.                                      *)
MinusNoWrap(a, b) == a - b

(* The differences of unsigned 16 bit offsets.                             *)
Minus(a, b) == (a - b) % Wrap

Init ==
    /\ buffer = [s \in Slots |-> [at |-> s, native |-> FALSE, take |-> 0]]
    /\ playOffset = 0 /\ fillOffset = 0 /\ writeOffset = 0
    /\ minFilled = Buffers + 1 /\ lastv = "center"
    /\ wantPlaying = TRUE /\ haveStarted = FALSE /\ paused = FALSE
    /\ emulator = "idle" /\ n = 0 /\ actL = 0 /\ retry = 0
    /\ audio = "idle" /\ len = 0 /\ cur = 0 /\ v = "center" /\ toPlay = 0
    /\ overflows = 0

---------------------------------------------------------------------------
(* The emulator's thread.                                                  *)

SubTick ==
    /\ emulator = "idle" /\ ~paused
    /\ n' \in 1..MaxChunk /\ emulator' = "begin"
    /\ UNCHANGED <<ringVars, stateVars, actL, retry, audioVars>>

(* (Mutant) it writes on when the ring is full.                            *)
OverflowIgnored(toFill, chunk) == FALSE

(* The ring has no room for the chunk.                                     *)
Overflow(toFill, chunk) == toFill < chunk

(* (Mutant) the buffer being written counts as one of those to step over.  *)
SteppedBackTwo(offset) == Minus(offset, 2 * BuffLen)

(* "Overwrite previous buffer".                                            *)
SteppedBack(offset) == Minus(offset, BuffLen)

(* When there is no room, the previous buffer is overwritten.              *)
SoundBeginWrite ==
    LET toFillLen == Minus(AllBuffLen, Minus(writeOffset, playOffset))
        chunk == Lower(n, BuffLen - (writeOffset % BuffLen))
    IN /\ emulator = "begin" /\ emulator' = "write" /\ actL' = chunk
       /\ writeOffset' = IF Overflow(toFillLen, chunk) THEN SteppedBack(writeOffset)
                                                       ELSE writeOffset
       /\ IF Overflow(toFillLen, chunk)
          THEN overflows < MaxOverflows /\ overflows' = overflows + 1
          ELSE overflows' = overflows
       /\ UNCHANGED <<buffer, playOffset, fillOffset, stateVars, n, retry, audioVars>>

Written(from, count) == {(from + i) % Wrap : i \in 0..count - 1}

WriteSamples ==
    /\ emulator = "write" /\ emulator' = "end"
    /\ buffer' = [s \in Slots |->
                    IF \E o \in Written(writeOffset, actL) : o % AllBuffLen = s
                    THEN [at |-> CHOOSE o \in Written(writeOffset, actL) : o % AllBuffLen = s,
                          native |-> FALSE, take |-> overflows]
                    ELSE buffer[s]]
    /\ UNCHANGED <<playOffset, fillOffset, writeOffset, overflows, stateVars, n, actL, retry,
                   audioVars>>

(* A buffer has just been finished.                                        *)
BlockDone(offset) == offset % BuffLen = 0

(* Sound_EndWrite0 and, for a finished buffer, Sound_WroteABlock up to the *)
(* publication of its samples.                                             *)
SoundEndWrite ==
    LET w == (writeOffset + actL) % Wrap
        block == {o % AllBuffLen : o \in Written(Minus(w, BuffLen), BuffLen)}
    IN /\ emulator = "end" /\ writeOffset' = w
       /\ n' = n - actL
       /\ IF BlockDone(w)
          THEN /\ emulator' = "publish"
               /\ buffer' = [s \in Slots |->
                    IF s \in block THEN [buffer[s] EXCEPT !.native = ~@] ELSE buffer[s]]
          ELSE /\ emulator' = IF n' = 0 THEN "idle" ELSE "begin"
               /\ buffer' = buffer
       /\ actL' = 0
       /\ UNCHANGED <<playOffset, fillOffset, overflows, stateVars, retry, audioVars>>

Publish ==
    /\ emulator = "publish" /\ emulator' = IF n = 0 THEN "idle" ELSE "begin"
    /\ fillOffset' = writeOffset
    /\ UNCHANGED <<buffer, playOffset, writeOffset, overflows, stateVars, n, actL, retry,
                   audioVars>>

(* Sound_SecondNotify0; what it does to the clock is not modelled.         *)
SoundSecondNotify ==
    /\ emulator = "idle" /\ minFilled <= Buffers
    /\ minFilled' = Buffers + 1
    /\ UNCHANGED <<ringVars, lastv, wantPlaying, haveStarted, paused, emulatorVars, audioVars>>

(* The emulation stops: the sound is brought to rest, or given up.         *)
SoundStop ==
    /\ emulator = "idle" /\ wantPlaying
    /\ wantPlaying' = FALSE /\ emulator' = "stopping" /\ retry' = RetryLimit
    /\ UNCHANGED <<ringVars, minFilled, lastv, haveStarted, paused, n, actL, audioVars>>

SoundStopWait ==
    /\ emulator = "stopping" /\ lastv # "center" /\ retry > 1
    /\ retry' = retry - 1
    /\ UNCHANGED <<ringVars, stateVars, emulator, n, actL, audioVars>>

SoundStopped ==
    /\ emulator = "stopping" /\ (lastv = "center" \/ retry <= 1)
    /\ emulator' = "idle" /\ paused' = TRUE /\ retry' = 0
    /\ UNCHANGED <<ringVars, minFilled, lastv, wantPlaying, haveStarted, n, actL, audioVars>>

SoundStart ==
    /\ emulator = "idle" /\ ~wantPlaying
    /\ wantPlaying' = TRUE /\ haveStarted' = FALSE /\ paused' = FALSE
    /\ minFilled' = Buffers + 1 /\ lastv' = "center"
    /\ UNCHANGED <<ringVars, emulatorVars, audioVars>>

Emulator ==
    \/ SubTick \/ SoundBeginWrite \/ WriteSamples \/ SoundEndWrite \/ Publish
    \/ SoundSecondNotify \/ SoundStop \/ SoundStopWait \/ SoundStopped \/ SoundStart

---------------------------------------------------------------------------
(* The callback, FillAudioCallback.                                        *)

CallbackBegin ==
    /\ audio = "idle" /\ ~paused
    /\ audio' = "loop" /\ len' \in 1..MaxChunk
    /\ cur' = playOffset /\ v' = lastv /\ toPlay' = toPlay
    /\ UNCHANGED <<ringVars, stateVars, emulatorVars>>

ToPlay == Minus(fillOffset, cur)

(* SoundRampTo: the ramp comes to the level dst with some of the samples   *)
(* left, or uses all of them on its way.                                   *)
RampReaches(dst, rest) ==
    /\ rest \in IF v # dst THEN 0..len - 1 ELSE IF v = "center" THEN {len} ELSE 0..len
    /\ v' = dst
RampOnItsWay(rest) == rest = 0 /\ v' = "off"

(* The ramp has used all samples of the callback.                          *)
Done ==
    /\ audio' = "idle" /\ lastv' = v' /\ len' = 0 /\ toPlay' = 0
    /\ minFilled' = Lower(minFilled, ToPlay \div BuffLen)

(* There is nothing to play: the level is held.                            *)
UnderRun ==
    /\ audio' = "idle" /\ lastv' = v' /\ len' = 0 /\ toPlay' = 0
    /\ minFilled' = 0

Play(rest) ==
    /\ audio' = "copy" /\ len' = rest /\ toPlay' = ToPlay
    /\ UNCHANGED <<lastv, minFilled>>

(* Not to play: the level is brought to rest.                              *)
RampDown ==
    /\ audio = "loop" /\ ~wantPlaying
    /\ \E rest \in 0..len :
          /\ \/ RampReaches("center", rest)
             \/ v # "center" /\ RampOnItsWay(rest)
          /\ IF rest = 0 THEN Done ELSE UnderRun
    /\ UNCHANGED <<ringVars, wantPlaying, haveStarted, paused, emulatorVars, cur>>

(* (Mutant) the playing waits for more buffers than there are.             *)
EnoughToStartFull == ToPlay \div BuffLen > Buffers

(* Enough buffers are filled to start playing.                             *)
EnoughToStart == ToPlay \div BuffLen >= StartBuffs

AwaitBuffers ==
    /\ audio = "loop" /\ wantPlaying /\ ~haveStarted /\ ~EnoughToStart
    /\ v' = v /\ UnderRun
    /\ UNCHANGED <<ringVars, wantPlaying, haveStarted, paused, emulatorVars, cur>>

(* The level goes to that of the first sample.                             *)
RampUp ==
    /\ audio = "loop" /\ wantPlaying /\ ~haveStarted /\ EnoughToStart
    /\ \E rest \in 0..len :
          /\ \/ haveStarted' = TRUE /\ \E dst \in Levels : RampReaches(dst, rest)
             \/ haveStarted' = FALSE /\ RampOnItsWay(rest)
          /\ IF rest = 0 THEN Done ELSE Play(rest)
    /\ UNCHANGED <<ringVars, wantPlaying, paused, emulatorVars, cur>>

Playing ==
    /\ audio = "loop" /\ wantPlaying /\ haveStarted
    /\ v' = v /\ IF ToPlay = 0 THEN UnderRun ELSE Play(len)
    /\ UNCHANGED <<ringVars, wantPlaying, haveStarted, paused, emulatorVars, cur>>

(* As many samples as there are, are wanted, and lie contiguous.           *)
CopySamples ==
    LET count == Lower(Lower(toPlay, len), AllBuffLen - (cur % AllBuffLen))
    IN /\ audio = "copy" /\ audio' = "played" /\ toPlay' = 0
       /\ v' \in Levels
       /\ cur' = (cur + count) % Wrap /\ len' = len - count
       /\ UNCHANGED <<ringVars, stateVars, emulatorVars>>

(* Their room is given back; the loop ends with the last sample.           *)
Played ==
    /\ audio = "played" /\ playOffset' = cur
    /\ IF len = 0 THEN audio' = "idle" /\ lastv' = v ELSE audio' = "loop" /\ lastv' = lastv
    /\ UNCHANGED <<overflows, buffer, fillOffset, writeOffset, minFilled, wantPlaying, haveStarted,
                   paused, emulatorVars, len, cur, v, toPlay>>

Audio ==
    CallbackBegin \/ RampDown \/ AwaitBuffers \/ RampUp \/ Playing \/ CopySamples \/ Played

Next == Emulator \/ Audio

Spec == Init /\ [][Next]_vars

(* The machine runs, and the host's audio goes on asking for samples; a    *)
(* ramp comes to its end, a step at each sample.                           *)
Fairness ==
    /\ WF_vars(SubTick) /\ WF_vars(SoundBeginWrite) /\ WF_vars(WriteSamples)
    /\ WF_vars(SoundEndWrite) /\ WF_vars(Publish) /\ WF_vars(SoundStopped)
    /\ WF_vars(Audio) /\ SF_vars(RampUp /\ haveStarted')

FairSpec == Spec /\ Fairness

---------------------------------------------------------------------------
TypeOK ==
    /\ buffer \in [Slots -> [at : Offsets, native : BOOLEAN, take : 0..MaxOverflows]]
    /\ {playOffset, fillOffset, writeOffset, cur} \subseteq Offsets
    /\ minFilled \in 0..Buffers + 1 /\ {lastv, v} \subseteq Levels
    /\ {wantPlaying, haveStarted, paused} \subseteq BOOLEAN /\ overflows \in 0..MaxOverflows
    /\ emulator \in {"idle", "begin", "write", "end", "publish", "stopping"}
    /\ n \in 0..MaxChunk /\ actL \in 0..BuffLen /\ retry \in 0..RetryLimit
    /\ audio \in {"idle", "loop", "copy", "played"}
    /\ len \in 0..MaxChunk /\ toPlay \in 0..AllBuffLen

(* The samples handed to the player and not yet given back.                *)
InPlay == {o \in Offsets : Minus(o, playOffset) < Minus(fillOffset, playOffset)}

(* What is played is what was written: every place of the stream handed to *)
(* the player holds a sample written for that place, however often the     *)
(* offsets wrap, and until the ring was first full all are converted.      *)
PlayedIsWritten ==
    \A o \in InPlay : /\ buffer[o % AllBuffLen].at = o
                      /\ overflows = 0 => buffer[o % AllBuffLen].native

(* A sample handed to the player is not touched before its room was given  *)
(* back, and if it is (written again, or converted again), then because    *)
(* the ring was full, and it is one of the buffer handed over last: what   *)
(* is older is out of the writer's reach.                                  *)
HandedOverKept ==
    [][ \A o \in InPlay : buffer'[o % AllBuffLen] # buffer[o % AllBuffLen]
           => overflows > 0 /\ Minus(fillOffset, o) <= BuffLen ]_vars

(* However the machine stops and starts, sound starts to play (it does not *)
(* wait for ever for its eight buffers).                                   *)
PlayingStarts == wantPlaying ~> (haveStarted \/ ~wantPlaying)

(* "Overwrite previous buffer": a full ring costs the buffer it overwrites *)
(* and nothing else; once that is written again, the player is handed      *)
(* converted samples.                                                      *)
OverflowOverwritesBuffer ==
    emulator = "idle" /\ writeOffset = fillOffset
        => \A o \in InPlay : buffer[o % AllBuffLen].native

(* kDesiredMinFilledSoundBuffs, "if too big then sound lags behind         *)
(* emulation": a callback that leaves fewer buffers filled than any before *)
(* it is noted in s_minFilledSoundBuffs, for the clock to be corrected.    *)
MinFilledNoted ==
    [][ audio # "idle" /\ audio' = "idle"
           => minFilled' <= Minus(fillOffset', playOffset') \div BuffLen ]_vars
===========================================================================
