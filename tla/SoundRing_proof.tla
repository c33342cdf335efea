--------------------------- MODULE SoundRing_proof ---------------------------
(***************************************************************************)
(* Sound on its way to the host, for any ring, offsets of any width, and   *)
(* any interleaving of the two threads: what is played was written for its *)
(* place, and not touched once handed over, but for an overflow.           *)
(***************************************************************************)
EXTENDS SoundRing, TLAPS

---------------------------------------------------------------------------
(* The inductive invariant.                                                *)

(* The emulator writes one sample or more at a time.                       *)
Busy ==
    /\ emulator \in {"begin", "write", "end"} => n >= 1
    /\ IF emulator \in {"write", "end"} THEN actL \in 1..n ELSE actL = 0

(* The offsets as numbers that do not wrap: p what is given back, c what   *)
(* the callback has copied, f what was handed over, w what is written.     *)
Offset(p, c, f, w) ==
    /\ playOffset = p % Wrap /\ cur = c % Wrap
    /\ fillOffset = f % Wrap /\ writeOffset = w % Wrap

(* The player is within what was handed over, which ends with a buffer.    *)
Player(p, c, f) ==
    /\ p <= c /\ c <= f /\ f <= p + AllBuffLen /\ f % BuffLen = 0
    /\ audio # "played" => c = p
    /\ audio = "copy" => c + toPlay <= f

(* The writer is in the buffer that follows, or in the last one again, and *)
(* never a whole ring ahead of the player.                                 *)
Writer(p, f, w) ==
    /\ f - BuffLen <= w /\ w + actL <= f + BuffLen /\ w + actL <= p + AllBuffLen
    /\ w < f => w + actL <= f
    /\ IF emulator = "publish" THEN w \in {f, f + BuffLen} ELSE w < f + BuffLen
    /\ overflows = 0 => f <= w

(* The samples handed over, and those of the buffer being written.         *)
Sample(k, native) ==
    /\ buffer[k % AllBuffLen].at = k % Wrap
    /\ overflows = 0 => buffer[k % AllBuffLen].native = native
ahead == IF emulator = "end" THEN actL ELSE 0
Samples(p, f, w) ==
    /\ \A k \in p..(f - 1) : Sample(k, TRUE)
    /\ \A k \in f..(w + ahead - 1) : Sample(k, emulator = "publish")

Ring(p, c, f, w) == Offset(p, c, f, w) /\ Player(p, c, f) /\ Writer(p, f, w) /\ Samples(p, f, w)

IInv == TypeOK /\ Busy /\ \E p, c, f, w \in Int : Ring(p, c, f, w)

(* Of what was handed over, a step changes nothing, or with the ring full  *)
(* samples of the last buffer.                                             *)
OnlyLast(p, f) ==
    \A k \in p..(f - 1) : buffer'[k % AllBuffLen] # buffer[k % AllBuffLen]
                              => overflows > 0 /\ f - k <= BuffLen

---------------------------------------------------------------------------
(* Remainders.                                                             *)

LEMMA ModRange ==
    ASSUME NEW a \in Int, NEW m \in Nat \ {0}
    PROVE  a % m \in 0..(m - 1) /\ a \div m \in Int /\ a = m * (a \div m) + (a % m)
OBVIOUS

LEMMA ModUnique ==
    ASSUME NEW m \in Nat \ {0}, NEW q \in Int, NEW r \in 0..(m - 1)
    PROVE  (q * m + r) % m = r
OBVIOUS

LEMMA ModSmall == ASSUME NEW m \in Nat \ {0}, NEW r \in 0..(m - 1) PROVE r % m = r
OBVIOUS

(* Whole turns do not count.                                               *)
LEMMA ModTurns ==
    ASSUME NEW a \in Int, NEW m \in Nat \ {0}, NEW q \in Int
    PROVE  (a + q * m) % m = a % m
<1> DEFINE d == a \div m
           r == a % m
<1>1. r \in 0..(m - 1) /\ d \in Int /\ a = m * d + r
  BY ModRange
<1> HIDE DEF d, r
<1>2. q + d \in Int /\ a + q * m = (q + d) * m + r
  BY <1>1
<1>3. ((q + d) * m + r) % m = r
  BY <1>1, <1>2, ModUnique
<1> QED
  BY <1>2, <1>3 DEF r

LEMMA ModAdd ==
    ASSUME NEW a \in Int, NEW b \in Int, NEW m \in Nat \ {0}
    PROVE  ((a % m) + b) % m = (a + b) % m
<1> DEFINE d == a \div m
           r == a % m
<1>1. r \in 0..(m - 1) /\ d \in Int /\ a = m * d + r
  BY ModRange
<1> HIDE DEF d, r
<1>2. a + b = (r + b) + d * m /\ r + b \in Int
  BY <1>1
<1>3. ((r + b) + d * m) % m = (r + b) % m
  BY <1>1, <1>2, ModTurns
<1> QED
  BY <1>2, <1>3 DEF r

LEMMA ModSub ==
    ASSUME NEW a \in Int, NEW b \in Int, NEW m \in Nat \ {0}
    PROVE  ((a % m) - (b % m)) % m = (a - b) % m
<1> DEFINE d == b \div m
           r == b % m
           s == a % m
<1>1. r \in 0..(m - 1) /\ d \in Int /\ b = m * d + r /\ s \in 0..(m - 1)
  BY ModRange
<1> HIDE DEF d, r, s
<1>2. (s + (-b)) % m = (a + (-b)) % m
  <2> DEFINE c == -b
  <2>1. c \in Int
    OBVIOUS
  <2> HIDE DEF c
  <2>2. ((a % m) + c) % m = (a + c) % m
    BY <2>1, ModAdd
  <2> QED
    BY <2>2 DEF s, c
<1>3. s - r = (s + (-b)) + d * m /\ s + (-b) \in Int
  BY <1>1
<1>4. (s - r) % m = (s + (-b)) % m
  BY <1>1, <1>3, ModTurns, SMTT(30)
<1> QED
  BY <1>2, <1>4 DEF r, s

(* A remainder of a multiple.                                              *)
LEMMA ModNest ==
    ASSUME NEW a \in Int, NEW m \in Nat \ {0}, NEW k \in Nat \ {0}, m % k = 0
    PROVE  (a % m) % k = a % k
<1> DEFINE d == a \div m
           r == a % m
           j == m \div k
<1>1. r \in 0..(m - 1) /\ d \in Int /\ a = m * d + r
  BY ModRange
<1>2. j \in Int /\ m = k * j
  BY ModRange
<1> HIDE DEF d, r, j
<1>3. a = r + (d * j) * k /\ r \in Int /\ d * j \in Int
  <2>1. m * d = (k * j) * d
    BY <1>2
  <2>2. (k * j) * d = (d * j) * k
    BY <1>1, <1>2
  <2>3. d * j \in Int
    BY <1>1, <1>2
  <2> QED
    BY <1>1, <2>1, <2>2, <2>3
<1>4. (r + (d * j) * k) % k = r % k
  BY <1>3, ModTurns
<1> QED
  BY <1>3, <1>4 DEF r

(* Numbers less than a turn apart are told apart.                          *)
LEMMA ModEqual ==
    ASSUME NEW a \in Int, NEW b \in Int, NEW m \in Nat \ {0},
           a % m = b % m, a - b < m, b - a < m
    PROVE  a = b
<1> DEFINE d == a \div m
           e == b \div m
<1>1. d \in Int /\ e \in Int /\ a = m * d + (a % m) /\ b = m * e + (b % m) /\ a % m \in Int
  BY ModRange
<1> HIDE DEF d, e
<1>2. a - b = m * (d - e)
  BY <1>1
<1>3. ~(d - e >= 1) /\ ~(e - d >= 1)
  <2>1. \A i \in Int : i >= 1 => m * i >= m
    OBVIOUS
  <2>2. m * (e - d) = -(m * (d - e))
    BY <1>1
  <2> QED
    BY <1>1, <1>2, <2>1, <2>2
<1>4. d = e
  BY <1>1, <1>3
<1> QED
  BY <1>1, <1>4

(* In the m numbers that follow a multiple.                                *)
LEMMA ModFrom ==
    ASSUME NEW f \in Int, NEW m \in Nat \ {0}, NEW r \in 0..(m - 1), f % m = 0
    PROVE  (f + r) % m = r
<1>1. ((f % m) + r) % m = (f + r) % m
  <2>1. r \in Int
    OBVIOUS
  <2> QED
    BY <2>1, ModAdd
<1>2. r % m = r /\ 0 + r = r
  BY ModSmall
<1> QED
  BY <1>1, <1>2

LEMMA ModNext ==
    ASSUME NEW f \in Int, NEW m \in Nat \ {0}, f % m = 0
    PROVE  (f + m) % m = 0 /\ (f - m) % m = 0
<1>1. ASSUME NEW q \in Int PROVE (f + q * m) % m = 0
  BY ModTurns
<1> DEFINE next == 1
           last == -1
<1>2. next \in Int /\ last \in Int /\ f + next * m = f + m /\ f + last * m = f - m
  OBVIOUS
<1> HIDE DEF next, last
<1>3. (f + next * m) % m = 0 /\ (f + last * m) % m = 0
  BY <1>1, <1>2
<1> QED
  BY <1>2, <1>3

---------------------------------------------------------------------------
(* The offsets.                                                            *)

LEMMA RingFacts ==
    /\ {BuffLen, Buffers, AllBuffLen, Wrap, MaxChunk, RetryLimit} \subseteq Nat \ {0}
    /\ AllBuffLen >= 3 * BuffLen /\ Wrap >= 2 * AllBuffLen /\ MaxOverflows \in Nat
    /\ Wrap % AllBuffLen = 0 /\ Wrap % BuffLen = 0
<1>1. /\ BuffLen \in Nat \ {0} /\ Buffers \in Nat \ {0} /\ Wrap \in Nat \ {0}
      /\ MaxChunk \in Nat \ {0} /\ RetryLimit \in Nat \ {0} /\ MaxOverflows \in Nat
      /\ Buffers > 2 /\ Wrap % AllBuffLen = 0 /\ Wrap >= 2 * AllBuffLen
  BY SoundAssumption
<1>2. AllBuffLen \in Nat \ {0} /\ AllBuffLen >= 3 * BuffLen
  <2>1. Buffers * BuffLen = 3 * BuffLen + (Buffers - 3) * BuffLen
    BY <1>1
  <2>2. (Buffers - 3) * BuffLen \in Nat
    BY <1>1
  <2> QED
    BY <1>1, <2>1, <2>2 DEF AllBuffLen
<1>3. AllBuffLen % BuffLen = 0
  <2>1. 0 \in 0..(BuffLen - 1) /\ Buffers \in Int
    BY <1>1
  <2>2. (Buffers * BuffLen + 0) % BuffLen = 0
    BY <1>1, <2>1, ModUnique
  <2>3. Buffers * BuffLen + 0 = AllBuffLen
    BY <1>1 DEF AllBuffLen
  <2> QED
    BY <2>2, <2>3
<1>4. Wrap % BuffLen = 0
  <2>1. Wrap = AllBuffLen * (Wrap \div AllBuffLen) /\ Wrap \div AllBuffLen \in Int
    BY <1>1, <1>2, ModRange
  <2>2. AllBuffLen = BuffLen * (AllBuffLen \div BuffLen) /\ AllBuffLen \div BuffLen \in Int
    BY <1>1, <1>2, <1>3, ModRange
  <2> DEFINE i == Wrap \div AllBuffLen
             j == AllBuffLen \div BuffLen
  <2>3. Wrap = (BuffLen * j) * i /\ i \in Int /\ j \in Int
    BY <2>1, <2>2
  <2> HIDE DEF i, j
  <2>4. Wrap = (j * i) * BuffLen + 0 /\ j * i \in Int /\ 0 \in 0..(BuffLen - 1)
    BY <1>1, <2>3
  <2>5. ((j * i) * BuffLen + 0) % BuffLen = 0
    BY <1>1, <2>4, ModUnique
  <2> QED
    BY <2>4, <2>5
<1> QED
  BY <1>1, <1>2, <1>4

(* The differences of offsets, as long as they are those of the ring.      *)
LEMMA Difference ==
    ASSUME NEW x \in Int, NEW y \in Int, x - y \in 0..(Wrap - 1)
    PROVE  Minus(x % Wrap, y % Wrap) = x - y
<1>1. ((x % Wrap) - (y % Wrap)) % Wrap = (x - y) % Wrap
  BY RingFacts, ModSub
<1>2. (x - y) % Wrap = x - y
  BY RingFacts, ModSmall
<1> QED
  BY <1>1, <1>2 DEF Minus

(* A step back.                                                            *)
LEMMA StepBack ==
    ASSUME NEW a \in Int, NEW b \in Nat
    PROVE  Minus(a % Wrap, b) = (a - b) % Wrap
<1> DEFINE c == -b
<1>1. c \in Int /\ a + c = a - b /\ (a % Wrap) + c = (a % Wrap) - b
  <2>1. Wrap \in Nat \ {0}
    BY RingFacts
  <2>2. a % Wrap \in Int
    BY <2>1, ModRange
  <2> QED
    BY <2>2
<1> HIDE DEF c
<1>2. ((a % Wrap) + c) % Wrap = (a + c) % Wrap
  BY <1>1, RingFacts, ModAdd
<1> QED
  BY <1>1, <1>2 DEF Minus

LEMMA StepOn ==
    ASSUME NEW a \in Int, NEW b \in Int
    PROVE  ((a % Wrap) + b) % Wrap = (a + b) % Wrap
BY RingFacts, ModAdd

LEMMA InRing ==
    ASSUME NEW a \in Int
    PROVE  /\ a % Wrap \in Offsets /\ a % AllBuffLen \in Slots
           /\ (a % Wrap) % AllBuffLen = a % AllBuffLen /\ (a % Wrap) % BuffLen = a % BuffLen
<1>1. a % Wrap \in 0..(Wrap - 1) /\ a % AllBuffLen \in 0..(AllBuffLen - 1)
  BY RingFacts, ModRange
<1>2. (a % Wrap) % AllBuffLen = a % AllBuffLen /\ (a % Wrap) % BuffLen = a % BuffLen
  BY RingFacts, ModNest
<1> QED
  BY <1>1, <1>2 DEF Offsets, Slots

LEMMA SamePlace ==
    ASSUME NEW j \in Int, NEW k \in Int, j % AllBuffLen = k % AllBuffLen,
           j - k < AllBuffLen, k - j < AllBuffLen
    PROVE  j = k
BY RingFacts, ModEqual

(* The samples that an offset and a count name.                            *)
LEMMA WrittenSamples ==
    ASSUME NEW a \in Int, NEW count \in Nat
    PROVE  Written(a % Wrap, count) = {k % Wrap : k \in a..(a + count - 1)}
<1>1. ASSUME NEW i \in 0..(count - 1)
      PROVE  ((a % Wrap) + i) % Wrap = (a + i) % Wrap /\ a + i \in a..(a + count - 1)
  BY StepOn
<1>2. ASSUME NEW k \in a..(a + count - 1)
      PROVE  k - a \in 0..(count - 1) /\ ((a % Wrap) + (k - a)) % Wrap = k % Wrap
  <2>1. k - a \in 0..(count - 1) /\ k - a \in Int /\ a + (k - a) = k
    OBVIOUS
  <2>2. ((a % Wrap) + (k - a)) % Wrap = (a + (k - a)) % Wrap
    BY <2>1, StepOn
  <2> QED
    BY <2>1, <2>2
<1> QED
  BY <1>1, <1>2 DEF Written

(* A buffer ends where one was handed over, or the one before or after it. *)
LEMMA BufferEnds ==
    ASSUME NEW f \in Int, NEW a \in (f - BuffLen)..(f + BuffLen), f % BuffLen = 0
    PROVE  /\ a % BuffLen = 0 <=> a \in {f - BuffLen, f, f + BuffLen}
           /\ a < f => a % BuffLen = a - (f - BuffLen)
           /\ a >= f /\ a < f + BuffLen => a % BuffLen = a - f
<1> DEFINE B == BuffLen
<1>1. B \in Nat \ {0} /\ (f + B) % B = 0 /\ (f - B) % B = 0
  BY RingFacts, ModNext
<1>2. ASSUME a >= f, a < f + B PROVE a % B = a - f
  <2>1. a - f \in 0..(B - 1) /\ f + (a - f) = a
    BY <1>1, <1>2
  <2>2. (f + (a - f)) % B = a - f
    BY <1>1, <2>1, ModFrom
  <2> QED
    BY <2>1, <2>2
<1>3. ASSUME a < f PROVE a % B = a - (f - B)
  <2> DEFINE g == f - B
  <2>1. g \in Int /\ g % B = 0 /\ a - g \in 0..(B - 1) /\ g + (a - g) = a
    BY <1>1, <1>3
  <2> HIDE DEF g
  <2>2. (g + (a - g)) % B = a - g
    BY <1>1, <2>1, ModFrom
  <2> QED
    BY <2>1, <2>2 DEF g
<1> HIDE DEF B
<1>4. /\ a % B = 0 <=> a \in {f - B, f, f + B}
      /\ a \in Int /\ f - B <= a /\ a <= f + B
  <2>1. a \in Int /\ f - B <= a /\ a <= f + B
    BY <1>1 DEF B
  <2>2. CASE a < f
    BY <1>1, <1>3, <2>1, <2>2
  <2>3. CASE a >= f /\ a < f + B
    BY <1>1, <1>2, <2>1, <2>3
  <2>4. CASE a = f + B
    BY <1>1, <2>1, <2>4
  <2> QED
    BY <1>1, <2>1, <2>2, <2>3, <2>4
<1> QED
  BY <1>2, <1>3, <1>4 DEF B

---------------------------------------------------------------------------
(* Steps that leave the ring and the offsets alone.                        *)

Away == {"idle", "begin", "stopping"}

LEMMA RingKept ==
    ASSUME NEW p \in Int, NEW c \in Int, NEW f \in Int, NEW w \in Int, Ring(p, c, f, w),
           UNCHANGED <<ringVars, actL, cur>>,
           emulator' = emulator \/ (emulator \in Away /\ emulator' \in Away),
           \/ audio' = audio /\ toPlay' = toPlay
           \/ audio # "played" /\ audio' # "played" /\ (audio' = "copy" => c + toPlay' <= f)
    PROVE  Ring(p, c, f, w)'
<1>1. UNCHANGED <<buffer, playOffset, fillOffset, writeOffset, overflows, actL, cur>>
  BY DEF ringVars
<1>2. /\ (emulator = "publish") = (emulator' = "publish")
      /\ (emulator = "end") = (emulator' = "end")
  BY DEF Away
<1>3. Offset(p, c, f, w)'
  BY <1>1 DEF Ring, Offset
<1>4. Player(p, c, f)'
  BY DEF Ring, Player
<1>5. Writer(p, f, w)'
  BY <1>1, <1>2 DEF Ring, Writer
<1>6. ahead' = ahead
  BY <1>1, <1>2 DEF ahead
<1>7. \A k, native : Sample(k, native)' <=> Sample(k, native)
  BY <1>1 DEF Sample
<1>8. Samples(p, f, w)'
  BY <1>2, <1>6, <1>7 DEF Ring, Samples
<1> QED
  BY <1>3, <1>4, <1>5, <1>8 DEF Ring

LEMMA SubTickStep == ASSUME IInv, SubTick PROVE IInv'
<1>1. /\ emulator = "idle" /\ n' \in 1..MaxChunk /\ emulator' = "begin"
      /\ UNCHANGED <<ringVars, stateVars, actL, retry, audioVars>>
  BY DEF SubTick
<1>2. PICK p, c, f, w \in Int : Ring(p, c, f, w)
  BY DEF IInv
<1>3. Ring(p, c, f, w)'
  BY <1>1, <1>2, RingKept DEF audioVars, Away
<1>4. TypeOK'
  BY <1>1, RingFacts DEF IInv, TypeOK, ringVars, stateVars, audioVars
<1>5. Busy'
  BY <1>1, RingFacts DEF IInv, Busy
<1> QED
  BY <1>3, <1>4, <1>5 DEF IInv

(* The second's notification; stopping and starting.                       *)
LEMMA NotifyStep ==
    ASSUME IInv,
           SoundSecondNotify \/ SoundStop \/ SoundStopWait \/ SoundStopped \/ SoundStart
    PROVE  IInv'
<1>1. /\ emulator \in Away /\ emulator' \in {"idle", "stopping"}
      /\ UNCHANGED <<ringVars, n, actL, audioVars>>
      /\ minFilled' \in {minFilled, Buffers + 1} /\ lastv' \in {lastv, "center"}
      /\ wantPlaying' \in {wantPlaying, TRUE, FALSE} /\ haveStarted' \in {haveStarted, FALSE}
      /\ paused' \in {paused, TRUE, FALSE}
      /\ retry' \in {retry, RetryLimit, 0} \/ (retry > 1 /\ retry' = retry - 1)
  BY DEF SoundSecondNotify, SoundStop, SoundStopWait, SoundStopped, SoundStart, Away,
         emulatorVars, stateVars
<1>2. PICK p, c, f, w \in Int : Ring(p, c, f, w)
  BY DEF IInv
<1>3. Ring(p, c, f, w)'
  BY <1>1, <1>2, RingKept DEF audioVars, Away
<1>4. TypeOK'
  <2>1. /\ minFilled \in 0..(Buffers + 1) /\ retry \in 0..RetryLimit /\ TypeOK
        /\ {wantPlaying, haveStarted, paused} \subseteq BOOLEAN /\ {lastv, v} \subseteq Levels
    BY DEF IInv, TypeOK
  <2>2. minFilled' \in 0..(Buffers + 1) /\ retry' \in 0..RetryLimit
    BY <1>1, <2>1, RingFacts
  <2>3. /\ {wantPlaying', haveStarted', paused'} \subseteq BOOLEAN
        /\ {lastv', v'} \subseteq Levels
    BY <1>1, <2>1 DEF audioVars, Levels
  <2> QED
    BY <1>1, <2>1, <2>2, <2>3 DEF TypeOK, ringVars, audioVars
<1>5. Busy'
  BY <1>1 DEF IInv, Busy, Away
<1> QED
  BY <1>3, <1>4, <1>5 DEF IInv

---------------------------------------------------------------------------
(* The callback.                                                           *)

LEMMA CallbackBeginStep == ASSUME IInv, CallbackBegin PROVE IInv'
<1>1. /\ audio = "idle" /\ audio' = "loop" /\ len' \in 1..MaxChunk
      /\ cur' = playOffset /\ v' = lastv /\ toPlay' = toPlay
      /\ UNCHANGED <<ringVars, stateVars, emulatorVars>>
  BY DEF CallbackBegin
<1>2. PICK p, c, f, w \in Int : Ring(p, c, f, w)
  BY DEF IInv
<1>3. cur' = cur
  BY <1>1, <1>2 DEF Ring, Player, Offset
<1>4. Ring(p, c, f, w)'
  BY <1>1, <1>2, <1>3, RingKept DEF emulatorVars
<1>5. TypeOK'
  BY <1>1, <1>3, RingFacts DEF IInv, TypeOK, ringVars, stateVars, emulatorVars
<1>6. Busy'
  BY <1>1 DEF IInv, Busy, emulatorVars
<1> QED
  BY <1>4, <1>5, <1>6 DEF IInv

(* What there is to play.                                                  *)
LEMMA Available ==
    ASSUME NEW p \in Int, NEW c \in Int, NEW f \in Int, NEW w \in Int, Ring(p, c, f, w)
    PROVE  /\ ToPlay = f - c /\ ToPlay \in 0..AllBuffLen
           /\ Minus(fillOffset, playOffset) = f - p
<1>1. /\ fillOffset = f % Wrap /\ cur = c % Wrap /\ playOffset = p % Wrap
      /\ f - c \in 0..AllBuffLen /\ f - p \in 0..AllBuffLen
  BY RingFacts DEF Ring, Offset, Player
<1>2. f - c \in 0..(Wrap - 1) /\ f - p \in 0..(Wrap - 1)
  BY <1>1, RingFacts
<1>3. Minus(f % Wrap, c % Wrap) = f - c /\ Minus(f % Wrap, p % Wrap) = f - p
  BY <1>2, Difference
<1> QED
  BY <1>1, <1>3 DEF ToPlay

(* The fill level that a callback notes.                                   *)
LEMMA LevelNoted ==
    ASSUME IInv, Done \/ UnderRun
    PROVE  /\ audio' = "idle" /\ len' = 0 /\ toPlay' = 0 /\ lastv' = v'
           /\ minFilled' \in 0..(Buffers + 1)
<1>1. PICK p, c, f, w \in Int : Ring(p, c, f, w)
  BY DEF IInv
<1>2. ToPlay \in Nat
  BY <1>1, Available, RingFacts
<1>3. ToPlay \div BuffLen \in Nat
  BY <1>2, RingFacts
<1>4. minFilled \in 0..(Buffers + 1) /\ Buffers \in Nat
  BY RingFacts DEF IInv, TypeOK
<1>5. Lower(minFilled, ToPlay \div BuffLen) \in 0..(Buffers + 1)
  <2> DEFINE filled == ToPlay \div BuffLen
  <2> HIDE DEF filled
  <2>1. Lower(minFilled, filled) \in 0..(Buffers + 1)
    BY <1>3, <1>4 DEF Lower, filled
  <2> QED
    BY <2>1 DEF filled
<1> QED
  BY <1>4, <1>5 DEF Done, UnderRun

(* A level, and as many samples as are left.                               *)
LEMMA LoopStep ==
    ASSUME IInv, audio = "loop", UNCHANGED <<ringVars, emulatorVars, wantPlaying, paused, cur>>,
           v' \in Levels, haveStarted' \in BOOLEAN,
           Done \/ UnderRun \/ \E rest \in 0..len : Play(rest)
    PROVE  IInv'
<1>1. PICK p, c, f, w \in Int : Ring(p, c, f, w)
  BY DEF IInv
<1>2. ToPlay = f - c /\ ToPlay \in 0..AllBuffLen
  BY <1>1, Available
<1>3. /\ audio' \in {"idle", "copy"} /\ len' \in 0..MaxChunk /\ toPlay' \in 0..AllBuffLen
      /\ lastv' \in Levels /\ minFilled' \in 0..(Buffers + 1)
      /\ audio' = "copy" => toPlay' = f - c
  <2>1. CASE Done \/ UnderRun
    BY <2>1, LevelNoted, RingFacts
  <2>2. CASE \E rest \in 0..len : Play(rest)
    BY <1>2, <2>2, RingFacts DEF Play, IInv, TypeOK
  <2> QED
    BY <2>1, <2>2
<1>4. Ring(p, c, f, w)'
  <2>1. audio # "played" /\ audio' # "played"
    BY <1>3
  <2>2. audio' = "copy" => c + toPlay' <= f
    BY <1>3
  <2>3. UNCHANGED <<ringVars, actL, cur>> /\ emulator' = emulator
    BY DEF emulatorVars
  <2> QED
    BY <1>1, <2>1, <2>2, <2>3, RingKept
<1>5. TypeOK'
  BY <1>3 DEF IInv, TypeOK, ringVars, emulatorVars
<1>6. Busy'
  BY DEF IInv, Busy, emulatorVars
<1> QED
  BY <1>4, <1>5, <1>6 DEF IInv

LEMMA RampDownStep == ASSUME IInv, RampDown PROVE IInv'
<1>1. PICK rest \in 0..len :
         /\ RampReaches("center", rest) \/ RampOnItsWay(rest)
         /\ IF rest = 0 THEN Done ELSE UnderRun
  BY DEF RampDown
<1>2. v' \in Levels
  BY <1>1 DEF RampReaches, RampOnItsWay, Levels
<1>3. /\ audio = "loop" /\ UNCHANGED <<ringVars, wantPlaying, haveStarted, paused, emulatorVars, cur>>
  BY DEF RampDown
<1>4. haveStarted' \in BOOLEAN /\ (Done \/ UnderRun)
  BY <1>1, <1>3 DEF IInv, TypeOK
<1> QED
  BY <1>2, <1>3, <1>4, LoopStep

LEMMA RampUpStep == ASSUME IInv, RampUp PROVE IInv'
<1>1. PICK rest \in 0..len :
         /\ \/ haveStarted' = TRUE /\ \E dst \in Levels : RampReaches(dst, rest)
            \/ haveStarted' = FALSE /\ RampOnItsWay(rest)
         /\ IF rest = 0 THEN Done ELSE Play(rest)
  BY DEF RampUp
<1>2. v' \in Levels /\ haveStarted' \in BOOLEAN
  BY <1>1 DEF RampReaches, RampOnItsWay, Levels
<1>3. audio = "loop" /\ UNCHANGED <<ringVars, wantPlaying, paused, emulatorVars, cur>>
  BY DEF RampUp
<1> QED
  BY <1>1, <1>2, <1>3, LoopStep

LEMMA PlayingStep == ASSUME IInv, AwaitBuffers \/ Playing PROVE IInv'
<1>1. /\ audio = "loop" /\ v' = v
      /\ UNCHANGED <<ringVars, wantPlaying, haveStarted, paused, emulatorVars, cur>>
      /\ UnderRun \/ Play(len)
  BY DEF AwaitBuffers, Playing
<1>2. v' \in Levels /\ haveStarted' \in BOOLEAN /\ len \in 0..len
  BY <1>1 DEF IInv, TypeOK
<1> QED
  BY <1>1, <1>2, LoopStep

LEMMA CopySamplesStep == ASSUME IInv, CopySamples PROVE IInv'
<1> DEFINE room == AllBuffLen - (cur % AllBuffLen)
           count == Lower(Lower(toPlay, len), room)
<1>1. /\ audio = "copy" /\ audio' = "played" /\ toPlay' = 0 /\ v' \in Levels
      /\ cur' = (cur + count) % Wrap /\ len' = len - count
      /\ UNCHANGED <<ringVars, stateVars, emulatorVars>>
  BY DEF CopySamples
<1>2. PICK p, c, f, w \in Int : Ring(p, c, f, w)
  BY DEF IInv
<1>3. /\ toPlay \in Nat /\ len \in 0..MaxChunk /\ c + toPlay <= f /\ c = p
      /\ cur = c % Wrap /\ MaxChunk \in Nat
  BY <1>1, <1>2, RingFacts DEF IInv, TypeOK, Ring, Player, Offset
<1>4. room \in Nat \ {0}
  <2>1. cur % AllBuffLen \in 0..(AllBuffLen - 1) /\ AllBuffLen \in Nat
    BY <1>3, InRing, RingFacts DEF Slots
  <2> QED
    BY <2>1
<1> HIDE DEF room
<1>5. PICK k \in Nat : k = count /\ k <= len /\ k <= toPlay
  BY <1>3, <1>4 DEF Lower
<1> HIDE DEF count
<1>6. k \in Int /\ cur' = (c + k) % Wrap
  BY <1>1, <1>3, <1>5, StepOn
<1>7. Ring(p, c + k, f, w)'
  <2>1. UNCHANGED <<buffer, playOffset, fillOffset, writeOffset, overflows, emulator, actL>>
    BY <1>1 DEF ringVars, emulatorVars
  <2>2. Offset(p, c + k, f, w)'
    BY <1>2, <1>6, <2>1 DEF Ring, Offset
  <2>3. Player(p, c + k, f)'
    BY <1>1, <1>2, <1>3, <1>5, <2>1 DEF Ring, Player
  <2>4. Writer(p, f, w)' /\ Samples(p, f, w)'
    BY <1>2, <2>1 DEF Ring, Writer, Samples, Sample, ahead
  <2> QED
    BY <2>2, <2>3, <2>4 DEF Ring
<1>8. TypeOK'
  <2>1. cur' \in Offsets /\ len' \in 0..MaxChunk
    BY <1>1, <1>3, <1>5, <1>6, InRing
  <2> QED
    BY <1>1, <2>1, RingFacts DEF IInv, TypeOK, ringVars, stateVars, emulatorVars
<1>9. Busy'
  BY <1>1 DEF IInv, Busy, emulatorVars
<1>10. c + k \in Int
  BY <1>6
<1> QED
  BY <1>7, <1>8, <1>9, <1>10 DEF IInv

LEMMA PlayedStep == ASSUME IInv, Played PROVE IInv'
<1>1. /\ audio = "played" /\ playOffset' = cur /\ audio' \in {"idle", "loop"}
      /\ lastv' \in {lastv, v}
      /\ UNCHANGED <<overflows, buffer, fillOffset, writeOffset, minFilled, wantPlaying,
                     haveStarted, paused, emulatorVars, len, cur, v, toPlay>>
  BY DEF Played
<1>2. PICK p, c, f, w \in Int : Ring(p, c, f, w)
  BY DEF IInv
<1>3. Ring(c, c, f, w)'
  <2>1. UNCHANGED <<buffer, cur, fillOffset, writeOffset, overflows, emulator, actL>>
    BY <1>1 DEF emulatorVars
  <2>2. Offset(c, c, f, w)'
    BY <1>1, <1>2, <2>1 DEF Ring, Offset
  <2>3. p <= c /\ c <= f /\ f <= p + AllBuffLen /\ AllBuffLen \in Int
    BY <1>2, RingFacts DEF Ring, Player
  <2>4. Player(c, c, f)'
    BY <1>1, <1>2, <2>3 DEF Ring, Player
  <2>5. Writer(c, f, w)'
    <3>1. actL \in Int
      BY RingFacts DEF IInv, TypeOK
    <3>2. w + actL <= p + AllBuffLen => w + actL <= c + AllBuffLen
      BY <2>3, <3>1
    <3> QED
      BY <1>2, <2>1, <3>2 DEF Ring, Writer
  <2>6. Samples(c, f, w)'
    <3>1. \A k \in c..(f - 1) : k \in p..(f - 1)
      BY <2>3
    <3> QED
      BY <1>2, <2>1, <3>1 DEF Ring, Samples, Sample, ahead
  <2> QED
    BY <2>2, <2>4, <2>5, <2>6 DEF Ring
<1>4. TypeOK'
  BY <1>1 DEF IInv, TypeOK, emulatorVars
<1>5. Busy'
  BY <1>1 DEF IInv, Busy, emulatorVars
<1> QED
  BY <1>3, <1>4, <1>5 DEF IInv

---------------------------------------------------------------------------
(* The writer.                                                             *)

(* The room that SoundBeginWrite computes, also when the player has passed *)
(* a writer that is in the last buffer again.                              *)
LEMMA Room ==
    ASSUME NEW p \in Int, NEW w \in Int, w - p <= AllBuffLen, p - w <= BuffLen
    PROVE  Minus(AllBuffLen, Minus(w % Wrap, p % Wrap)) = AllBuffLen - (w - p)
<1> DEFINE A == AllBuffLen
           d == (w - p) % Wrap
<1>1. Minus(w % Wrap, p % Wrap) = d
  BY RingFacts, ModSub DEF Minus
<1>2. A % Wrap = A /\ A - (w - p) \in 0..(Wrap - 1) /\ w - p \in Int /\ A \in Int
  <2>1. A \in Nat \ {0} /\ Wrap \in Nat \ {0} /\ BuffLen \in Nat /\ A >= 3 * BuffLen /\ Wrap >= 2 * A
    BY RingFacts
  <2> HIDE DEF A
  <2>2. A \in 0..(Wrap - 1) /\ w - p \in Int /\ A - (w - p) \in 0..(Wrap - 1)
    BY <2>1 DEF A
  <2> QED
    BY <2>1, <2>2, ModSmall
<1>3. Minus(A, d) = ((A % Wrap) - ((w - p) % Wrap)) % Wrap
  BY <1>2 DEF Minus
<1>4. ((A % Wrap) - ((w - p) % Wrap)) % Wrap = (A - (w - p)) % Wrap
  BY <1>2, RingFacts, ModSub
<1>5. (A - (w - p)) % Wrap = A - (w - p)
  BY <1>2, RingFacts, ModSmall
<1> HIDE DEF d
<1>6. Minus(A, d) = A - (w - p)
  BY <1>3, <1>4, <1>5
<1> QED
  BY <1>1, <1>6

LEMMA BeginWriteStep == ASSUME IInv, SoundBeginWrite PROVE IInv'
<1> DEFINE toFill == Minus(AllBuffLen, Minus(writeOffset, playOffset))
           chunk == Lower(n, BuffLen - (writeOffset % BuffLen))
<1>1. /\ emulator = "begin" /\ emulator' = "write" /\ actL' = chunk
      /\ \/ /\ toFill < chunk /\ writeOffset' = Minus(writeOffset, BuffLen)
            /\ overflows < MaxOverflows /\ overflows' = overflows + 1
         \/ toFill >= chunk /\ writeOffset' = writeOffset /\ overflows' = overflows
      /\ UNCHANGED <<buffer, playOffset, fillOffset, stateVars, n, retry, audioVars>>
  <2> HIDE DEF toFill, chunk
  <2>1. toFill \in Int /\ chunk \in Int
    <3>1. /\ writeOffset \in Int /\ playOffset \in Int /\ n \in Int /\ Wrap \in Nat \ {0}
          /\ BuffLen \in Nat \ {0} /\ AllBuffLen \in Int
      BY RingFacts DEF IInv, TypeOK, Offsets
    <3>2. \A a, b \in Int : Minus(a, b) \in Int
      BY <3>1 DEF Minus
    <3>3. writeOffset % BuffLen \in Int
      BY <3>1
    <3> QED
      BY <3>1, <3>2, <3>3 DEF toFill, chunk, Lower
  <2>2. ~Overflow(toFill, chunk) <=> toFill >= chunk
    BY <2>1 DEF Overflow
  <2>3. Overflow(toFill, chunk) <=> toFill < chunk
    BY DEF Overflow
  <2> QED
    BY <2>2, <2>3 DEF SoundBeginWrite, SteppedBack, toFill, chunk
<1>2. PICK p, c, f, w \in Int : Ring(p, c, f, w)
  BY DEF IInv
<1>3. /\ n \in 1..MaxChunk /\ actL = 0 /\ overflows \in Nat
      /\ f % BuffLen = 0 /\ f - BuffLen <= w /\ w < f + BuffLen /\ f <= p + AllBuffLen /\ p <= f
      /\ w <= p + AllBuffLen /\ (overflows = 0 => f <= w)
      /\ writeOffset = w % Wrap /\ playOffset = p % Wrap
      /\ BuffLen \in Nat \ {0} /\ AllBuffLen \in Nat \ {0} /\ MaxChunk \in Nat
      /\ AllBuffLen >= 3 * BuffLen
  <2>1. n >= 1 /\ actL = 0 /\ n \in 0..MaxChunk /\ overflows \in Nat /\ MaxChunk \in Nat
    BY <1>1, RingFacts DEF IInv, Busy, TypeOK
  <2>2. Writer(p, f, w) /\ Player(p, c, f) /\ Offset(p, c, f, w)
    BY <1>2 DEF Ring
  <2>3. BuffLen \in Nat \ {0} /\ AllBuffLen \in Nat \ {0} /\ AllBuffLen >= 3 * BuffLen
    BY RingFacts
  <2>4. w + 0 = w
    OBVIOUS
  <2> QED
    BY <1>1, <2>1, <2>2, <2>3, <2>4 DEF Writer, Player, Offset
<1>4. toFill = AllBuffLen - (w - p)
  BY <1>3, Room
<1>5. PICK a \in Nat \ {0} :
         /\ a = chunk /\ a <= n /\ a <= BuffLen
         /\ w < f => w + a <= f
         /\ w + a <= f + BuffLen
  <2> DEFINE r == w % BuffLen
  <2>1. writeOffset % BuffLen = r
    BY <1>3, InRing
  <2>2. r \in 0..(BuffLen - 1)
    BY <1>3, ModRange
  <2>3. w \in (f - BuffLen)..(f + BuffLen)
    BY <1>3
  <2>4. (w < f => r = w - (f - BuffLen)) /\ (w >= f => r = w - f)
    BY <1>3, <2>3, BufferEnds
  <2>5. chunk = Lower(n, BuffLen - r)
    BY <2>1
  <2> HIDE DEF r, chunk
  <2>6. BuffLen - r \in 1..BuffLen /\ (w < f => BuffLen - r = f - w)
        /\ (w >= f => BuffLen - r = f + BuffLen - w)
    BY <1>3, <2>2, <2>4
  <2> DEFINE rest == BuffLen - r
  <2> HIDE DEF rest
  <2>7. rest \in 1..BuffLen /\ (w < f => rest = f - w) /\ (w >= f => rest = f + BuffLen - w)
    BY <2>6 DEF rest
  <2>8. chunk \in Nat \ {0} /\ chunk <= n /\ chunk <= rest
    BY <1>3, <2>5, <2>7 DEF Lower, rest
  <2>9. w < f => w + chunk <= f
    BY <1>3, <2>7, <2>8
  <2>10. w + chunk <= f + BuffLen /\ chunk <= BuffLen
    BY <1>3, <2>7, <2>8
  <2> QED
    BY <2>8, <2>9, <2>10
<1> HIDE DEF toFill, chunk
<1>6. PICK x \in Int :
         /\ writeOffset' = x % Wrap
         /\ \/ x = w /\ overflows' = overflows /\ w + a <= p + AllBuffLen
            \/ x = w - BuffLen /\ w >= f /\ overflows' = overflows + 1
  <2>1. CASE toFill >= chunk /\ writeOffset' = writeOffset /\ overflows' = overflows
    <3>1. w + a <= p + AllBuffLen
      BY <1>3, <1>4, <1>5, <2>1
    <3> QED
      BY <1>3, <2>1, <3>1
  <2>2. CASE /\ toFill < chunk /\ writeOffset' = Minus(writeOffset, BuffLen)
             /\ overflows' = overflows + 1
    <3>1. w >= f
      BY <1>3, <1>4, <1>5, <2>2
    <3>2. writeOffset' = (w - BuffLen) % Wrap
      BY <1>3, <2>2, StepBack
    <3>3. w - BuffLen \in Int
      BY <1>3
    <3> QED
      BY <2>2, <3>1, <3>2, <3>3
  <2> QED
    BY <1>1, <2>1, <2>2
<1>7. Ring(p, c, f, x)'
  <2>1. UNCHANGED <<buffer, playOffset, fillOffset, cur, audio, toPlay>>
    BY <1>1 DEF audioVars
  <2>2. Offset(p, c, f, x)' /\ Player(p, c, f)'
    BY <1>2, <1>6, <2>1 DEF Ring, Offset, Player
  <2>3. Writer(p, f, x)'
    <3>1. actL' = a /\ emulator' # "publish" /\ f \in Int /\ w \in Int /\ a \in Nat
      BY <1>1, <1>5
    <3>2. CASE x = w /\ overflows' = overflows /\ w + a <= p + AllBuffLen
      BY <1>3, <1>5, <3>1, <3>2 DEF Writer
    <3>3. CASE x = w - BuffLen /\ w >= f /\ overflows' = overflows + 1
      <4>1. /\ f - BuffLen <= x /\ x + a <= f /\ x + a <= f + BuffLen /\ x + a <= p + AllBuffLen
            /\ x < f + BuffLen /\ overflows' # 0
        BY <1>3, <1>5, <3>3
      <4> QED
        BY <3>1, <4>1 DEF Writer
    <3> QED
      BY <1>6, <3>2, <3>3
  <2>4. Samples(p, f, x)'
    <3>1. ahead = 0 /\ ahead' = 0
      BY <1>1 DEF ahead
    <3>2. ASSUME NEW CONSTANT k, NEW CONSTANT native, Sample(k, native)
          PROVE  Sample(k, native)'
      <4>1. overflows' = 0 => overflows = 0
        BY <1>3, <1>6
      <4> QED
        BY <2>1, <3>2, <4>1 DEF Sample
    <3>3. \A k \in p..(f - 1) : Sample(k, TRUE)'
      BY <1>2, <3>2 DEF Ring, Samples
    <3>4. ASSUME NEW k \in f..(x + 0 - 1) PROVE Sample(k, emulator = "publish")'
      <4>1. k \in f..(w + 0 - 1)
        BY <1>3, <1>6
      <4>2. Sample(k, emulator = "publish")
        BY <1>2, <3>1, <4>1 DEF Ring, Samples
      <4>3. (emulator = "publish") = FALSE /\ (emulator' = "publish") = FALSE
        BY <1>1
      <4> QED
        BY <3>2, <4>2, <4>3
    <3> QED
      BY <3>1, <3>3, <3>4 DEF Samples
  <2> QED
    BY <2>2, <2>3, <2>4 DEF Ring
<1>8. TypeOK'
  <2>1. writeOffset' \in Offsets /\ actL' \in 0..BuffLen /\ overflows' \in 0..MaxOverflows
    <3>1. overflows \in 0..MaxOverflows /\ MaxOverflows \in Nat
      BY RingFacts DEF IInv, TypeOK
    <3>2. writeOffset' \in Offsets
      BY <1>6, InRing
    <3>3. actL' \in 0..BuffLen
      BY <1>1, <1>3, <1>5
    <3>4. overflows' \in 0..MaxOverflows
      <4>1. overflows' = overflows \/ (overflows < MaxOverflows /\ overflows' = overflows + 1)
        BY <1>1
      <4> QED
        BY <3>1, <4>1
    <3> QED
      BY <3>2, <3>3, <3>4
  <2> QED
    BY <1>1, <2>1 DEF IInv, TypeOK, stateVars, audioVars
<1>9. Busy'
  BY <1>1, <1>3, <1>5 DEF Busy
<1> QED
  BY <1>7, <1>8, <1>9 DEF IInv

(* The slots of samples less than a whole ring apart differ, so each slot  *)
(* that is written gets the one sample that belongs there.                 *)
LEMMA WriteSamplesStep ==
    ASSUME IInv, WriteSamples
    PROVE  IInv' /\ \E p, c, f, w \in Int : Ring(p, c, f, w) /\ OnlyLast(p, f)
<1> DEFINE A == AllBuffLen
           names == Written(writeOffset, actL)
<1>1. /\ emulator = "write" /\ emulator' = "end"
      /\ buffer' = [s \in Slots |->
                       IF \E o \in names : o % A = s
                       THEN [at |-> CHOOSE o \in names : o % A = s, native |-> FALSE,
                             take |-> overflows]
                       ELSE buffer[s]]
      /\ UNCHANGED <<playOffset, fillOffset, writeOffset, overflows, stateVars, n, actL, retry,
                     audioVars>>
  BY DEF WriteSamples
<1>2. PICK p, c, f, w \in Int : Ring(p, c, f, w)
  BY DEF IInv
<1>3. PICK a \in Nat \ {0} : a = actL /\ a <= BuffLen /\ a <= n
  BY <1>1 DEF IInv, Busy, TypeOK
<1>4. /\ w + a <= p + A /\ w + a <= f + BuffLen /\ f - BuffLen <= w /\ p <= f /\ f <= p + A
      /\ w < f + BuffLen /\ (w < f => w + a <= f) /\ (overflows = 0 => f <= w)
      /\ A \in Nat \ {0} /\ BuffLen \in Nat \ {0} /\ A >= 3 * BuffLen /\ overflows \in Nat
  <2>1. Writer(p, f, w) /\ Player(p, c, f)
    BY <1>2 DEF Ring
  <2>2. overflows \in Nat
    BY RingFacts DEF IInv, TypeOK
  <2> QED
    BY <1>1, <1>3, <2>1, <2>2, RingFacts DEF Writer, Player
<1>5. names = {k % Wrap : k \in w..(w + a - 1)}
  <2>1. a \in Nat /\ writeOffset = w % Wrap
    BY <1>2 DEF Ring, Offset
  <2> QED
    BY <1>3, <2>1, WrittenSamples
<1> HIDE DEF A, names
(* What each written sample, and each other slot, is afterwards. *)
<1>6. ASSUME NEW k \in w..(w + a - 1)
      PROVE  buffer'[k % A] = [at |-> k % Wrap, native |-> FALSE, take |-> overflows]
  <2>1. k \in Int /\ k % A \in Slots /\ k % Wrap \in names /\ (k % Wrap) % A = k % A
    <3>1. k \in Int
      OBVIOUS
    <3> QED
      BY <1>5, <3>1, InRing DEF A
  <2>2. ASSUME NEW o \in names, o % A = k % A PROVE o = k % Wrap
    <3>1. PICK j \in w..(w + a - 1) : o = j % Wrap
      BY <1>5
    <3>2. j \in Int /\ k \in Int /\ j - k < A /\ k - j < A
      BY <1>3, <1>4
    <3>3. j % A = k % A
      BY <2>2, <3>1, <3>2, InRing DEF A
    <3>4. j = k
      BY <3>2, <3>3, SamePlace DEF A
    <3> QED
      BY <3>1, <3>4
  <2>3. (CHOOSE o \in names : o % A = k % A) = k % Wrap
    BY <2>1, <2>2
  <2>4. \E o \in names : o % A = k % A
    BY <2>1
  <2> QED
    BY <1>1, <2>1, <2>3, <2>4
<1>7. ASSUME NEW k \in Int, \A j \in w..(w + a - 1) : j % A # k % A
      PROVE  buffer'[k % A] = buffer[k % A]
  <2>1. k % A \in Slots
    BY InRing DEF A
  <2>2. ~\E o \in names : o % A = k % A
    <3> SUFFICES ASSUME NEW j \in w..(w + a - 1), (j % Wrap) % A = k % A PROVE FALSE
      BY <1>5
    <3>1. j \in Int
      OBVIOUS
    <3>2. (j % Wrap) % A = j % A
      BY <3>1, InRing DEF A
    <3> QED
      BY <1>7, <3>2
  <2> QED
    BY <1>1, <2>1, <2>2
<1>8. Ring(p, c, f, w)'
  <2>1. UNCHANGED <<playOffset, fillOffset, writeOffset, overflows, actL, cur, audio, toPlay>>
    BY <1>1 DEF audioVars
  <2>2. Offset(p, c, f, w)' /\ Player(p, c, f)'
    BY <1>2, <2>1 DEF Ring, Offset, Player
  <2>3. Writer(p, f, w)'
    BY <1>1, <1>2, <2>1 DEF Ring, Writer
  <2>4. ahead = 0 /\ ahead' = a /\ emulator # "publish" /\ emulator' # "publish"
    BY <1>1, <1>3, <2>1 DEF ahead
  <2>5. ASSUME NEW CONSTANT k \in w..(w + a - 1) PROVE Sample(k, FALSE)'
    <3>1. buffer'[k % A] = [at |-> k % Wrap, native |-> FALSE, take |-> overflows]
      BY <1>6
    <3>2. buffer'[k % A].at = k % Wrap /\ buffer'[k % A].native = FALSE
      BY <3>1
    <3> QED
      BY <3>2 DEF Sample, A
  <2>6. ASSUME NEW CONSTANT k \in Int, k \notin w..(w + a - 1),
               NEW CONSTANT native, Sample(k, native),
               \A j \in w..(w + a - 1) : j - k < A /\ k - j < A
        PROVE  Sample(k, native)'
    <3>1. \A j \in w..(w + a - 1) : j % A # k % A
      <4> SUFFICES ASSUME NEW j \in w..(w + a - 1), j % A = k % A PROVE FALSE
        OBVIOUS
      <4>1. j \in Int /\ j - k < AllBuffLen /\ k - j < AllBuffLen
        BY <2>6 DEF A
      <4>2. j = k
        BY <4>1, SamePlace DEF A
      <4> QED
        BY <2>6, <4>2
    <3>2. buffer'[k % A] = buffer[k % A]
      BY <1>7, <3>1
    <3> QED
      BY <2>1, <2>6, <3>2 DEF Sample, A
  <2>7. ASSUME NEW CONSTANT k \in p..(f - 1) PROVE Sample(k, TRUE)'
    <3>1. Sample(k, TRUE) /\ k \in Int
      <4>1. k \in Int
        OBVIOUS
      <4> QED
        BY <1>2, <4>1 DEF Ring, Samples
    <3>2. CASE k \in w..(w + a - 1)
      <4>1. overflows' # 0
        BY <1>4, <2>1, <3>2
      <4>2. Sample(k, FALSE)'
        BY <2>5, <3>2
      <4> QED
        BY <4>1, <4>2 DEF Sample
    <3>3. CASE k \notin w..(w + a - 1)
      <4>1. \A j \in w..(w + a - 1) : j - k < A /\ k - j < A
        BY <1>3, <1>4
      <4> QED
        BY <2>6, <3>1, <3>3, <4>1
    <3> QED
      BY <3>2, <3>3
  <2>8. ASSUME NEW CONSTANT k \in f..(w + a - 1) PROVE Sample(k, FALSE)'
    <3>1. CASE k \in w..(w + a - 1)
      BY <2>5, <3>1
    <3>2. CASE k \notin w..(w + a - 1)
      <4>1. k \in Int /\ k \in f..(w + 0 - 1)
        BY <3>2
      <4>2. Sample(k, emulator = "publish")
        BY <1>2, <2>4, <4>1 DEF Ring, Samples
      <4>3. (emulator = "publish") = FALSE
        BY <2>4
      <4>4. Sample(k, FALSE)
        BY <4>2, <4>3
      <4>5. \A j \in w..(w + a - 1) : j - k < A /\ k - j < A
        BY <1>3, <1>4, <4>1
      <4> QED
        BY <2>6, <3>2, <4>1, <4>4, <4>5
    <3> QED
      BY <3>1, <3>2
  <2>9. Samples(p, f, w)'
    <3>1. (emulator' = "publish") = FALSE
      BY <2>4
    <3> QED
      BY <2>4, <2>7, <2>8, <3>1 DEF Samples
  <2> QED
    BY <2>2, <2>3, <2>9 DEF Ring
<1>9. TypeOK'
  <2>1. buffer' \in [Slots -> [at : Offsets, native : BOOLEAN, take : 0..MaxOverflows]]
    <3> SUFFICES ASSUME NEW s \in Slots
                 PROVE  buffer'[s] \in [at : Offsets, native : BOOLEAN, take : 0..MaxOverflows]
      BY <1>1
    <3>1. s \in Int /\ s % A = s
      BY RingFacts, ModSmall DEF Slots, A
    <3>2. CASE \E j \in w..(w + a - 1) : j % A = s
      <4>1. PICK j \in w..(w + a - 1) : j % A = s
        BY <3>2
      <4>2. buffer'[s] = [at |-> j % Wrap, native |-> FALSE, take |-> overflows]
        BY <1>6, <4>1
      <4>3. j \in Int /\ j % Wrap \in Offsets
        BY InRing
      <4>4. overflows \in 0..MaxOverflows
        BY DEF IInv, TypeOK
      <4> QED
        BY <4>2, <4>3, <4>4
    <3>3. CASE ~\E j \in w..(w + a - 1) : j % A = s
      <4>1. buffer'[s] = buffer[s]
        BY <1>7, <3>1, <3>3
      <4> QED
        BY <4>1 DEF IInv, TypeOK
    <3> QED
      BY <3>2, <3>3
  <2> QED
    BY <1>1, <2>1 DEF IInv, TypeOK, stateVars, audioVars
<1>10. Busy'
  BY <1>1 DEF IInv, Busy
<1>11. OnlyLast(p, f)
  <2> SUFFICES ASSUME NEW k \in p..(f - 1), buffer'[k % A] # buffer[k % A]
               PROVE  overflows > 0 /\ f - k <= BuffLen
    BY DEF OnlyLast, A
  <2>1. k \in Int /\ k <= f - 1 /\ p <= k
    OBVIOUS
  <2>2. PICK j \in w..(w + a - 1) : j % A = k % A
    BY <1>7, <2>1
  <2>3. j \in Int /\ w <= j /\ j <= w + a - 1
    OBVIOUS
  <2>4. j - k < A /\ k - j < A
    BY <1>3, <1>4, <2>1, <2>3
  <2>5. j = k
    BY <2>1, <2>2, <2>3, <2>4, SamePlace DEF A
  <2> QED
    BY <1>4, <2>1, <2>3, <2>5
<1> QED
  BY <1>2, <1>8, <1>9, <1>10, <1>11 DEF IInv

(* A finished buffer is the one that follows what was handed over, unless  *)
(* the ring was full; its samples, and no other, are converted.            *)
LEMMA EndWriteStep ==
    ASSUME IInv, SoundEndWrite
    PROVE  IInv' /\ \E p, c, f, w \in Int : Ring(p, c, f, w) /\ OnlyLast(p, f)
<1> DEFINE A == AllBuffLen
           B == BuffLen
           next == (writeOffset + actL) % Wrap
           block == {o % A : o \in Written(Minus(next, B), B)}
<1>1. /\ emulator = "end" /\ writeOffset' = next /\ n' = n - actL /\ actL' = 0
      /\ \/ /\ next % B = 0 /\ emulator' = "publish"
            /\ buffer' = [s \in Slots |->
                 IF s \in block THEN [buffer[s] EXCEPT !.native = ~@] ELSE buffer[s]]
         \/ /\ next % B # 0 /\ emulator' = IF n' = 0 THEN "idle" ELSE "begin"
            /\ buffer' = buffer
      /\ UNCHANGED <<playOffset, fillOffset, overflows, stateVars, retry, audioVars>>
  BY DEF SoundEndWrite, BlockDone
<1>2. PICK p, c, f, w \in Int : Ring(p, c, f, w)
  BY DEF IInv
<1>3. PICK a \in Nat \ {0} : a = actL /\ a <= n
  BY <1>1 DEF IInv, Busy
<1>4. /\ w + a <= p + A /\ w + a <= f + B /\ f - B <= w /\ p <= f /\ f <= p + A
      /\ w < f + B /\ (w < f => w + a <= f) /\ (overflows = 0 => f <= w) /\ f % B = 0
      /\ A \in Nat \ {0} /\ B \in Nat \ {0} /\ A >= 3 * B /\ overflows \in Nat
      /\ n \in 0..MaxChunk /\ MaxChunk \in Nat
  <2>1. Writer(p, f, w) /\ Player(p, c, f)
    BY <1>2 DEF Ring
  <2>2. overflows \in Nat /\ n \in 0..MaxChunk
    BY RingFacts DEF IInv, TypeOK
  <2> QED
    BY <1>1, <1>3, <2>1, <2>2, RingFacts DEF Writer, Player
<1>5. PICK x \in Int : x = w + a
  BY <1>3
<1>6. next = x % Wrap /\ next % B = x % B
  <2>1. a \in Int /\ writeOffset = w % Wrap
    BY <1>2 DEF Ring, Offset
  <2>2. next = x % Wrap
    BY <1>3, <1>5, <2>1, StepOn
  <2> QED
    BY <2>2, InRing
<1>7. next % B = 0 <=> x \in {f, f + B}
  <2>1. x \in (f - B)..(f + B) /\ x # f - B
    BY <1>3, <1>4, <1>5
  <2>2. x % B = 0 <=> x \in {f - B, f, f + B}
    BY <1>4, <2>1, BufferEnds
  <2> QED
    BY <1>6, <2>1, <2>2
<1>8. block = {k % A : k \in (x - B)..(x - 1)}
  <2>1. Minus(next, B) = (x - B) % Wrap /\ x - B \in Int /\ B \in Nat
    BY <1>4, <1>6, StepBack
  <2> DEFINE y == x - B
  <2>2. y \in Int /\ y + B - 1 = x - 1
    BY <1>4
  <2> HIDE DEF y
  <2>3. Written(y % Wrap, B) = {k % Wrap : k \in y..(y + B - 1)}
    BY <2>1, <2>2, WrittenSamples
  <2>4. \A k \in y..(y + B - 1) : (k % Wrap) % A = k % A
    <3> TAKE k \in y..(y + B - 1)
    <3>1. k \in Int
      OBVIOUS
    <3> QED
      BY <3>1, InRing
  <2>5. {o % A : o \in Written(y % Wrap, B)} = {k % A : k \in y..(y + B - 1)}
    BY <2>3, <2>4
  <2>6. {o % A : o \in Written(y % Wrap, B)} = {k % A : k \in y..(x - 1)}
    BY <2>2, <2>5
  <2> QED
    BY <2>1, <2>6 DEF y
<1> HIDE DEF A, B, next, block
(* What becomes of a slot. *)
<1>9. ASSUME NEW s \in Slots
      PROVE  /\ buffer[s].at \in Offsets /\ buffer[s].native \in BOOLEAN
             /\ buffer'[s] \in [at : Offsets, native : BOOLEAN, take : 0..MaxOverflows]
             /\ buffer'[s].at = buffer[s].at
             /\ buffer'[s].native = IF next % B = 0 /\ s \in block THEN ~buffer[s].native
                                                                   ELSE buffer[s].native
  <2>1. buffer[s] \in [at : Offsets, native : BOOLEAN, take : 0..MaxOverflows]
    BY DEF IInv, TypeOK
  <2>2. buffer'[s] = IF next % B = 0 /\ s \in block THEN [buffer[s] EXCEPT !.native = ~@]
                                                    ELSE buffer[s]
    BY <1>1
  <2>3. CASE next % B = 0 /\ s \in block
    BY <2>1, <2>2, <2>3
  <2>4. CASE ~(next % B = 0 /\ s \in block)
    BY <2>1, <2>2, <2>4
  <2> QED
    BY <2>3, <2>4
<1>10. Ring(p, c, f, x)'
  <2>1. UNCHANGED <<playOffset, fillOffset, overflows, cur, audio, toPlay>>
    BY <1>1 DEF audioVars
  <2>2. Offset(p, c, f, x)' /\ Player(p, c, f)'
    BY <1>1, <1>2, <1>6, <2>1 DEF Ring, Offset, Player
  <2>3. emulator' = "publish" <=> x \in {f, f + B}
    BY <1>1, <1>7
  <2>4. Writer(p, f, x)'
    <3>1. actL' = 0 /\ x + 0 = x
      BY <1>1
    <3>2. /\ f - B <= x /\ x <= f + B /\ x <= p + A /\ (x < f => x <= f)
          /\ (overflows' = 0 => f <= x) /\ (x \notin {f, f + B} => x < f + B)
      BY <1>3, <1>4, <1>5, <2>1
    <3> QED
      BY <2>3, <3>1, <3>2 DEF Writer, A, B
  <2>5. /\ \A k \in p..(f - 1) : Sample(k, TRUE)
        /\ \A k \in f..(x - 1) : Sample(k, FALSE)
    <3>1. ahead = a /\ emulator # "publish"
      BY <1>1, <1>3 DEF ahead
    <3>2. (emulator = "publish") = FALSE
      BY <3>1
    <3>3. Samples(p, f, w)
      BY <1>2 DEF Ring
    <3>4. /\ \A k \in p..(f - 1) : Sample(k, TRUE)
          /\ \A k \in f..(w + a - 1) : Sample(k, FALSE)
      BY <3>1, <3>2, <3>3 DEF Samples
    <3>5. \A k \in f..(x - 1) : Sample(k, FALSE)
      <4>1. x - 1 = w + a - 1
        BY <1>5
      <4> QED
        BY <3>4, <4>1
    <3> QED
      BY <3>4, <3>5
  <2>6. overflows = 0 /\ next % B = 0 => x = f + B
    BY <1>3, <1>4, <1>5, <1>7
  <2>7. ASSUME NEW CONSTANT k \in p..(f - 1) PROVE Sample(k, TRUE)'
    <3>1. k \in Int /\ k % A \in Slots /\ Sample(k, TRUE)
      <4>1. k \in Int
        OBVIOUS
      <4> QED
        BY <2>5, <4>1, InRing DEF A
    <3>2. ASSUME overflows = 0, next % B = 0 PROVE k % A \notin block
      <4> SUFFICES ASSUME NEW j \in (x - B)..(x - 1), k % A = j % A PROVE FALSE
        BY <1>8
      <4>1. j \in Int /\ j >= f /\ j - k < A /\ k - j < A
        BY <1>4, <1>5, <2>6, <3>2
      <4>2. j = k
        BY <3>1, <4>1, SamePlace DEF A
      <4> QED
        BY <4>1, <4>2
    <3>3. buffer'[k % A].at = k % Wrap /\ (overflows' = 0 => buffer'[k % A].native = TRUE)
      BY <1>9, <2>1, <3>1, <3>2 DEF Sample, A
    <3> QED
      BY <3>3 DEF Sample, A
  <2>8. ASSUME NEW CONSTANT k \in f..(x - 1) PROVE Sample(k, emulator = "publish")'
    <3>1. k \in Int /\ k % A \in Slots /\ Sample(k, FALSE)
      <4>1. k \in Int
        OBVIOUS
      <4> QED
        BY <2>5, <4>1, InRing DEF A
    <3>2. ASSUME overflows = 0, next % B = 0 PROVE k % A \in block
      <4>1. k \in (x - B)..(x - 1)
        BY <1>4, <2>6, <3>2
      <4> QED
        BY <1>8, <4>1
    <3>3. buffer'[k % A].at = k % Wrap
      BY <1>9, <3>1 DEF Sample, A
    <3>4. overflows = 0 => buffer'[k % A].native = (emulator' = "publish")
      <4> SUFFICES ASSUME overflows = 0 PROVE buffer'[k % A].native = (emulator' = "publish")
        OBVIOUS
      <4>1. buffer[k % A].native = FALSE
        BY <3>1 DEF Sample, A
      <4>2. CASE next % B = 0
        <5>1. buffer'[k % A].native = TRUE
          BY <1>9, <3>1, <3>2, <4>1, <4>2
        <5>2. (emulator' = "publish") = TRUE
          BY <1>1, <4>2
        <5> QED
          BY <5>1, <5>2
      <4>3. CASE next % B # 0
        <5>1. buffer'[k % A].native = FALSE
          BY <1>9, <3>1, <4>1, <4>3
        <5>2. (emulator' = "publish") = FALSE
          BY <1>1, <4>3
        <5> QED
          BY <5>1, <5>2
      <4> QED
        BY <4>2, <4>3
    <3> QED
      BY <2>1, <3>3, <3>4 DEF Sample, A
  <2>9. Samples(p, f, x)'
    <3>1. ahead' = 0 /\ x + 0 - 1 = x - 1
      BY <1>1 DEF ahead
    <3> QED
      BY <2>7, <2>8, <3>1 DEF Samples
  <2> QED
    BY <2>2, <2>4, <2>9 DEF Ring
<1>11. TypeOK'
  <2>1. buffer' \in [Slots -> [at : Offsets, native : BOOLEAN, take : 0..MaxOverflows]]
    <3>1. DOMAIN buffer' = Slots /\ buffer' = [s \in Slots |-> buffer'[s]]
      BY <1>1 DEF IInv, TypeOK
    <3> QED
      BY <1>9, <3>1
  <2>2. writeOffset' \in Offsets
    BY <1>1, <1>6, InRing
  <2>3. n' \in 0..MaxChunk /\ actL' \in 0..BuffLen
    BY <1>1, <1>3, <1>4, RingFacts
  <2>4. emulator' \in {"idle", "begin", "publish"}
    BY <1>1
  <2> QED
    BY <1>1, <2>1, <2>2, <2>3, <2>4 DEF IInv, TypeOK, stateVars, audioVars
<1>12. Busy'
  <2>1. emulator' \in {"idle", "publish"} \/ (emulator' = "begin" /\ n' # 0)
    BY <1>1
  <2>2. n' \in Nat
    BY <1>1, <1>3, <1>4
  <2> QED
    BY <1>1, <2>1, <2>2 DEF Busy
<1>13. OnlyLast(p, f)
  <2> SUFFICES ASSUME NEW k \in p..(f - 1), buffer'[k % A] # buffer[k % A]
               PROVE  overflows > 0 /\ f - k <= B
    BY DEF OnlyLast, A, B
  <2>1. k \in Int /\ k <= f - 1 /\ p <= k
    OBVIOUS
  <2>2. k % A \in Slots
    BY <2>1, InRing DEF A
  <2>3. next % B = 0 /\ k % A \in block
    BY <1>1, <2>2
  <2>4. PICK j \in (x - B)..(x - 1) : j % A = k % A
    BY <1>8, <2>3
  <2>5. j \in Int /\ x - B <= j /\ j <= x - 1 /\ x \in {f, f + B}
    BY <1>4, <1>7, <2>3
  <2>6. j - k < A /\ k - j < A
    BY <1>3, <1>4, <1>5, <2>1, <2>5
  <2>7. j = k
    BY <2>1, <2>4, <2>5, <2>6, SamePlace DEF A
  <2>8. x = f /\ f - k <= B /\ w < f
    BY <1>3, <1>4, <1>5, <2>1, <2>5, <2>7
  <2> QED
    BY <1>4, <2>8
<1> QED
  BY <1>2, <1>10, <1>11, <1>12, <1>13 DEF IInv

(* The buffer is handed over.                                              *)
LEMMA PublishStep == ASSUME IInv, Publish PROVE IInv'
<1>1. /\ emulator = "publish" /\ emulator' = IF n = 0 THEN "idle" ELSE "begin"
      /\ fillOffset' = writeOffset
      /\ UNCHANGED <<buffer, playOffset, writeOffset, overflows, stateVars, n, actL, retry,
                     audioVars>>
  BY DEF Publish
<1>2. PICK p, c, f, w \in Int : Ring(p, c, f, w)
  BY DEF IInv
<1>3. w \in {f, f + BuffLen} /\ f <= w /\ w <= p + AllBuffLen /\ c <= f /\ actL = 0
      /\ f % BuffLen = 0 /\ BuffLen \in Nat \ {0}
  <2>1. Writer(p, f, w) /\ Player(p, c, f) /\ actL = 0 /\ w + 0 = w /\ BuffLen \in Nat \ {0}
    BY <1>1, <1>2, RingFacts DEF Ring, IInv, Busy
  <2>2. w \in {f, f + BuffLen} /\ w + 0 <= p + AllBuffLen
    BY <1>1, <2>1 DEF Writer
  <2> QED
    BY <2>1, <2>2 DEF Player
<1>4. w % BuffLen = 0
  BY <1>3, ModNext
<1>5. Ring(p, c, w, w)'
  <2>1. UNCHANGED <<buffer, playOffset, writeOffset, overflows, actL, cur, audio, toPlay>>
    BY <1>1 DEF audioVars
  <2>2. Offset(p, c, w, w)'
    BY <1>1, <1>2, <2>1 DEF Ring, Offset
  <2>3. Player(p, c, w)'
    <3>1. toPlay \in Int
      BY RingFacts DEF IInv, TypeOK
    <3>2. Player(p, c, f)
      BY <1>2 DEF Ring
    <3>3. p <= c /\ c <= w /\ w <= p + AllBuffLen /\ (audio # "played" => c = p)
          /\ (audio = "copy" => c + toPlay <= w)
      BY <1>3, <3>1, <3>2 DEF Player
    <3> QED
      BY <1>4, <2>1, <3>3 DEF Player
  <2>4. Writer(p, w, w)'
    <3>1. actL' = 0 /\ w + 0 = w /\ emulator' # "publish" /\ w - BuffLen <= w
          /\ w < w + BuffLen /\ w <= w + BuffLen /\ w <= w
      BY <1>1, <1>3
    <3> QED
      BY <1>3, <3>1 DEF Writer
  <2>5. Samples(p, w, w)'
    <3>1. ahead = 0 /\ ahead' = 0 /\ (emulator = "publish") = TRUE
      BY <1>1 DEF ahead
    <3>2. /\ \A k \in p..(f - 1) : Sample(k, TRUE)
          /\ \A k \in f..(w + 0 - 1) : Sample(k, TRUE)
      BY <1>2, <3>1 DEF Ring, Samples
    <3>3. \A k \in p..(w - 1) : k \in p..(f - 1) \/ k \in f..(w + 0 - 1)
      BY <1>3
    <3>4. w..(w + 0 - 1) = {}
      OBVIOUS
    <3>5. \A k \in p..(w - 1) : Sample(k, TRUE)
      BY <3>2, <3>3
    <3>6. \A k \in p..(w - 1) : Sample(k, TRUE)'
      BY <2>1, <3>5 DEF Sample
    <3> QED
      BY <3>1, <3>4, <3>6 DEF Samples
  <2> QED
    BY <2>2, <2>3, <2>4, <2>5 DEF Ring
<1>6. TypeOK'
  BY <1>1 DEF IInv, TypeOK, stateVars, audioVars
<1>7. Busy'
  <2>1. n \in Nat /\ actL = 0
    BY <1>3, RingFacts DEF IInv, TypeOK
  <2> QED
    BY <1>1, <2>1 DEF Busy
<1> QED
  BY <1>5, <1>6, <1>7 DEF IInv

LEMMA StutterStep == ASSUME IInv, UNCHANGED vars PROVE IInv'
<1>1. PICK p, c, f, w \in Int : Ring(p, c, f, w)
  BY DEF IInv
<1>2. Ring(p, c, f, w)'
  BY <1>1, RingKept DEF vars, emulatorVars, audioVars
<1>3. TypeOK' /\ Busy'
  BY DEF IInv, TypeOK, Busy, vars, ringVars, stateVars, emulatorVars, audioVars
<1> QED
  BY <1>2, <1>3 DEF IInv

---------------------------------------------------------------------------
(* The theorems.                                                           *)

LEMMA InitStep == Init => IInv
<1> SUFFICES ASSUME Init PROVE IInv
  OBVIOUS
<1>1. 0 % Wrap = 0 /\ 0 % BuffLen = 0
  <2>1. 0 \in 0..(Wrap - 1) /\ 0 \in 0..(BuffLen - 1) /\ Wrap \in Nat \ {0} /\ BuffLen \in Nat \ {0}
    BY RingFacts
  <2> QED
    BY <2>1, ModSmall
<1>2. Ring(0, 0, 0, 0)
  <2>1. Offset(0, 0, 0, 0)
    BY <1>1 DEF Init, Offset
  <2>2. Player(0, 0, 0)
    BY <1>1, RingFacts DEF Init, Player
  <2>3. Writer(0, 0, 0)
    BY RingFacts DEF Init, Writer
  <2>4. Samples(0, 0, 0)
    BY DEF Init, Samples, ahead
  <2> QED
    BY <2>1, <2>2, <2>3, <2>4 DEF Ring
<1>3. TypeOK
  <2>1. Slots \subseteq Offsets /\ 0 \in Offsets /\ 0 \in 0..MaxOverflows
    BY RingFacts DEF Slots, Offsets
  <2>2. buffer \in [Slots -> [at : Offsets, native : BOOLEAN, take : 0..MaxOverflows]]
    BY <2>1 DEF Init
  <2>3. /\ minFilled \in 0..(Buffers + 1) /\ overflows \in 0..MaxOverflows
        /\ n \in 0..MaxChunk /\ actL \in 0..BuffLen /\ retry \in 0..RetryLimit
        /\ len \in 0..MaxChunk /\ toPlay \in 0..AllBuffLen
    BY RingFacts DEF Init
  <2> QED
    BY <2>1, <2>2, <2>3 DEF Init, TypeOK, Levels
<1>4. Busy
  BY DEF Init, Busy
<1> QED
  BY <1>2, <1>3, <1>4 DEF IInv

(* The offsets, as numbers that do not wrap, stay in order and within a    *)
(* ring of each other, whatever the two threads do in between.             *)
THEOREM Invariance == Spec => []IInv
<1>1. IInv /\ [Next]_vars => IInv'
  <2> SUFFICES ASSUME IInv, [Next]_vars PROVE IInv'
    OBVIOUS
  <2>1. CASE Emulator
    BY <2>1, SubTickStep, BeginWriteStep, WriteSamplesStep, EndWriteStep, PublishStep, NotifyStep
       DEF Emulator
  <2>2. CASE Audio
    BY <2>2, CallbackBeginStep, RampDownStep, PlayingStep, RampUpStep, CopySamplesStep, PlayedStep
       DEF Audio
  <2>3. CASE UNCHANGED vars
    BY <2>3, StutterStep
  <2> QED
    BY <2>1, <2>2, <2>3 DEF Next
<1> QED
  BY InitStep, <1>1, PTL DEF Spec

(* The offsets stay offsets, the counts within their bounds.               *)
THEOREM TypeCorrect == Spec => []TypeOK
<1>1. IInv => TypeOK
  BY DEF IInv
<1> QED
  BY Invariance, <1>1, PTL

(* A sample in play, as a number that does not wrap.                       *)
LEMMA InPlayIs ==
    ASSUME IInv, NEW o \in InPlay,
           NEW p \in Int, NEW c \in Int, NEW f \in Int, NEW w \in Int, Ring(p, c, f, w)
    PROVE  \E k \in p..(f - 1) : /\ k % Wrap = o /\ k % AllBuffLen = o % AllBuffLen
                                 /\ Minus(fillOffset, o) = f - k
<1>1. o \in 0..(Wrap - 1) /\ Minus(o, playOffset) < f - p /\ Wrap \in Nat \ {0}
  BY Available, RingFacts DEF InPlay, Offsets
<1>2. PICK d \in 0..(Wrap - 1) : d = Minus(o, playOffset) /\ d = (o - p) % Wrap
  <2>1. ((o % Wrap) - (p % Wrap)) % Wrap = (o - p) % Wrap /\ o % Wrap = o
    <3>1. o \in Int
      BY <1>1
    <3> QED
      BY <1>1, <3>1, ModSub, ModSmall
  <2>2. playOffset = p % Wrap
    BY DEF Ring, Offset
  <2>3. (o - p) % Wrap \in 0..(Wrap - 1)
    <3>1. o - p \in Int
      BY <1>1
    <3> QED
      BY <1>1, <3>1, ModRange
  <2> QED
    BY <2>1, <2>2, <2>3 DEF Minus
<1>3. PICK k \in Int : k = p + d
  BY <1>2
<1>4. k \in p..(f - 1)
  BY <1>1, <1>2, <1>3
<1>5. k % Wrap = o
  <2>1. (((o - p) % Wrap) + p) % Wrap = ((o - p) + p) % Wrap
    <3>1. o - p \in Int
      BY <1>1
    <3> QED
      BY <1>1, <3>1, ModAdd
  <2>2. (o - p) + p = o /\ d + p = k
    BY <1>1, <1>2, <1>3
  <2>3. o % Wrap = o
    BY <1>1, ModSmall
  <2> QED
    BY <1>2, <2>1, <2>2, <2>3
<1>6. k % AllBuffLen = o % AllBuffLen
  BY <1>5, InRing
<1>7. Minus(fillOffset, o) = f - k
  <2>1. fillOffset = f % Wrap /\ f <= p + AllBuffLen
    BY DEF Ring, Offset, Player
  <2>2. f - k \in 0..(Wrap - 1)
    BY <1>4, <2>1, RingFacts
  <2>3. Minus(f % Wrap, k % Wrap) = f - k
    BY <2>2, Difference
  <2> QED
    BY <1>5, <2>1, <2>3
<1> QED
  BY <1>4, <1>5, <1>6, <1>7

(* What is played is what was written: every place of the stream handed to *)
(* the player holds a sample written for that place, however often the     *)
(* offsets wrap, and until the ring was first full all are converted.      *)
THEOREM PlayedWasWritten == Spec => []PlayedIsWritten
<1>1. IInv => PlayedIsWritten
  <2> SUFFICES ASSUME IInv, NEW o \in InPlay
               PROVE  /\ buffer[o % AllBuffLen].at = o
                      /\ overflows = 0 => buffer[o % AllBuffLen].native
    BY DEF PlayedIsWritten
  <2>1. PICK p, c, f, w \in Int : Ring(p, c, f, w)
    BY DEF IInv
  <2>2. PICK k \in p..(f - 1) : k % Wrap = o /\ k % AllBuffLen = o % AllBuffLen
    BY <2>1, InPlayIs
  <2>3. Sample(k, TRUE)
    BY <2>1, <2>2 DEF Ring, Samples
  <2> QED
    BY <2>2, <2>3 DEF Sample
<1> QED
  BY Invariance, <1>1, PTL

(* What was handed over is not touched before its room was given back,     *)
(* except that a full ring costs samples of the buffer handed over last:   *)
(* the writer's two accesses to the ring, against a player that is         *)
(* anywhere in it.                                                         *)
THEOREM HandedOverIsKept == Spec => HandedOverKept
<1> DEFINE Kept == \A o \in InPlay : buffer'[o % AllBuffLen] # buffer[o % AllBuffLen]
                      => overflows > 0 /\ Minus(fillOffset, o) <= BuffLen
<1>1. ASSUME IInv, NEW p \in Int, NEW c \in Int, NEW f \in Int, NEW w \in Int,
             Ring(p, c, f, w), OnlyLast(p, f)
      PROVE  Kept
  <2> SUFFICES ASSUME NEW o \in InPlay, buffer'[o % AllBuffLen] # buffer[o % AllBuffLen]
               PROVE  overflows > 0 /\ Minus(fillOffset, o) <= BuffLen
    OBVIOUS
  <2>1. PICK k \in p..(f - 1) : /\ k % Wrap = o /\ k % AllBuffLen = o % AllBuffLen
                                /\ Minus(fillOffset, o) = f - k
    BY <1>1, InPlayIs
  <2> QED
    BY <1>1, <2>1 DEF OnlyLast
<1>2. ASSUME IInv, [Next]_vars PROVE Kept
  <2>1. CASE WriteSamples
    <3>1. PICK p, c, f, w \in Int : Ring(p, c, f, w) /\ OnlyLast(p, f)
      BY <1>2, <2>1, WriteSamplesStep
    <3> QED
      BY <1>1, <1>2, <3>1
  <2>2. CASE SoundEndWrite
    <3>1. PICK p, c, f, w \in Int : Ring(p, c, f, w) /\ OnlyLast(p, f)
      BY <1>2, <2>2, EndWriteStep
    <3> QED
      BY <1>1, <1>2, <3>1
  <2>3. CASE ~WriteSamples /\ ~SoundEndWrite
    <3>1. UNCHANGED buffer
      BY <1>2, <2>3 DEF Next, vars, ringVars, Emulator, SubTick, SoundBeginWrite, Publish,
         SoundSecondNotify, SoundStop, SoundStopWait, SoundStopped, SoundStart, Audio,
         CallbackBegin, RampDown, AwaitBuffers, RampUp, Playing, CopySamples, Played
    <3> QED
      BY <3>1
  <2> QED
    BY <2>1, <2>2, <2>3
<1>3. IInv /\ [Next]_vars => [Kept]_vars
  BY <1>2
<1> QED
  BY Invariance, <1>3, PTL DEF Spec, HandedOverKept
===========================================================================
