----------------------------- MODULE ADB_proof -----------------------------
(***************************************************************************)
(* The bus against any guest, any host and any commands: an answer reaches *)
(* the guest whole, and a press comes after the movement before it.        *)
(***************************************************************************)
EXTENDS ADB, SequenceTheorems, TLAPS

USE ADBAssumption

---------------------------------------------------------------------------
(* The inductive invariant.                                                *)

Deltas == [kind : {"Delta"}, h : Int, v : Int, n : Nat]
Buttons == [kind : {"Button"}, down : BOOLEAN, before : Nat]
Keys == [kind : {"Key"}, byte : 0..254, n : Nat]
Positions == [kind : {"Pos"}]
Events == Deltas \cup Buttons \cup Keys \cup Positions

Transceiver ==
    /\ state \in 0..3 /\ shiftMode \in 0..7 /\ armed \in BOOLEAN
    /\ curCmd \in Bytes /\ listening \in BOOLEAN /\ talking \in BOOLEAN
    /\ index \in 0..MaxSzDatBuf /\ buf \in [1..MaxSzDatBuf -> Bytes]
    /\ talking => ~listening
    /\ address \in [mouse : 0..15, keyboard : 0..15]
    /\ srFlag \in BOOLEAN /\ hostButton \in BOOLEAN /\ typed \in Seq(0..254)

(* The answer is in the buffer, as much of it given as the index says; a   *)
(* new one can come only where the index has been put back.                *)
Reading ==
    /\ talking => /\ answer = <<buf[1], buf[2]>>
                  /\ \/ index = 0 /\ given = <<>>
                     \/ index = 1 /\ given = <<buf[1]>>
                     \/ index = 2 /\ given = <<buf[1], buf[2]>>
    /\ ~talking /\ ~listening => index = 0
    /\ listening => Operation(curCmd) = Listen

(* A queue q holds at most one movement, up to event mn; what was taken is *)
(* up to event dn; and a button is behind the movement before it.          *)
Placed(q, dn, mn) ==
    /\ \A i, j \in 1..Len(q) : q[i].kind = "Delta" /\ q[j].kind = "Delta" => i = j
    /\ \A i \in 1..Len(q) : q[i].kind = "Delta" => q[i].n = mn
    /\ (\A i \in 1..Len(q) : q[i].kind # "Delta") => dn = mn
    /\ \A i \in 1..Len(q) : q[i].kind = "Button" => q[i].before <= mn
    /\ \A i, j \in 1..Len(q) :
          q[i].kind = "Button" /\ q[j].kind = "Delta" /\ i < j => q[i].before <= dn

Devices ==
    /\ queue \in Seq(Events) /\ Placed(queue, delta.n, moved.n) /\ PressInPlace
    /\ mouseEnabled \in BOOLEAN /\ button \in BOOLEAN
    /\ moved \in [h : Int, v : Int, n : Nat] /\ reported \in [h : Int, v : Int]
    /\ delta \in [h : Int, v : Int, n : Nat]
    /\ upTo \in Nat /\ press \in [before : Nat, upTo : Nat]

IInv == Transceiver /\ Reading /\ Devices

(* An answer that is new, or none.                                         *)
Fresh ==
    /\ talking \in BOOLEAN /\ buf \in [1..MaxSzDatBuf -> Bytes]
    /\ talking => answer = <<buf[1], buf[2]>> /\ given = <<>>

---------------------------------------------------------------------------
(* Queues.                                                                 *)

(* Taking an event that is no movement leaves a queue placed.              *)
LEMMA TailPlaced ==
    ASSUME NEW q \in Seq(Events), NEW dn, NEW mn, Placed(q, dn, mn),
           q # <<>>, Head(q).kind # "Delta"
    PROVE  Tail(q) \in Seq(Events) /\ Placed(Tail(q), dn, mn)
<1>1. /\ Tail(q) \in Seq(Events) /\ Len(Tail(q)) = Len(q) - 1 /\ Len(q) \in Nat
      /\ \A i \in 1..Len(Tail(q)) : Tail(q)[i] = q[i + 1]
  OBVIOUS
<1>2. q[1].kind # "Delta"
  OBVIOUS
<1>3. \A i \in 1..Len(Tail(q)) : i + 1 \in 1..Len(q)
  BY <1>1
<1>4. (\A i \in 1..Len(Tail(q)) : Tail(q)[i].kind # "Delta")
        => \A i \in 1..Len(q) : q[i].kind # "Delta"
  <2> SUFFICES ASSUME \A i \in 1..Len(Tail(q)) : Tail(q)[i].kind # "Delta",
                      NEW i \in 1..Len(q), i # 1
               PROVE  q[i].kind # "Delta"
    BY <1>2
  <2>1. i - 1 \in 1..Len(Tail(q)) /\ Tail(q)[i - 1] = q[i]
    BY <1>1
  <2> QED
    BY <2>1
<1> QED
  BY <1>1, <1>3, <1>4 DEF Placed

(* Taking the movement leaves none.                                        *)
LEMMA DeltaTaken ==
    ASSUME NEW q \in Seq(Events), NEW dn, NEW mn, Placed(q, dn, mn),
           q # <<>>, Head(q).kind = "Delta"
    PROVE  Tail(q) \in Seq(Events) /\ Head(q).n = mn /\ Placed(Tail(q), mn, mn)
<1>1. /\ Tail(q) \in Seq(Events) /\ Len(Tail(q)) = Len(q) - 1 /\ Len(q) \in Nat
      /\ \A i \in 1..Len(Tail(q)) : Tail(q)[i] = q[i + 1] /\ i + 1 \in 1..Len(q) /\ i + 1 # 1
  OBVIOUS
<1>2. q[1].kind = "Delta" /\ 1 \in 1..Len(q) /\ Head(q) = q[1]
  OBVIOUS
<1>3. \A i \in 1..Len(Tail(q)) : Tail(q)[i].kind # "Delta"
  BY <1>1, <1>2 DEF Placed
<1> QED
  BY <1>1, <1>2, <1>3 DEF Placed

(* A button at the head is behind the movement taken.                      *)
LEMMA ButtonReady ==
    ASSUME NEW q \in Seq(Events), NEW dn, NEW mn, Placed(q, dn, mn),
           q # <<>>, Head(q).kind = "Button"
    PROVE  Head(q).before <= dn
<1>1. 1 \in 1..Len(q) /\ Head(q) = q[1] /\ q[1].kind = "Button"
  OBVIOUS
<1>2. CASE \E j \in 1..Len(q) : q[j].kind = "Delta"
  <2> PICK j \in 1..Len(q) : q[j].kind = "Delta"
    BY <1>2
  <2>1. 1 < j
    BY <1>1
  <2> QED
    BY <1>1, <2>1 DEF Placed
<1>3. CASE \A j \in 1..Len(q) : q[j].kind # "Delta"
  BY <1>1, <1>3 DEF Placed
<1> QED
  BY <1>2, <1>3

(* What the host adds, behind the queue or to the movement in it.          *)
LEMMA EventAdded ==
    ASSUME NEW q \in Seq(Events), NEW dn, NEW mn \in Nat, Placed(q, dn, mn),
           NEW e \in Events, e.kind # "Delta", e.kind = "Button" => e.before = mn
    PROVE  Append(q, e) \in Seq(Events) /\ Placed(Append(q, e), dn, mn)
<1> DEFINE r == Append(q, e)
<1>1. /\ r \in Seq(Events) /\ Len(r) = Len(q) + 1 /\ Len(q) \in Nat
      /\ \A i \in 1..Len(q) : r[i] = q[i] /\ i \in 1..Len(r)
      /\ r[Len(r)] = e
  OBVIOUS
<1>2. \A i \in 1..Len(r) : i \in 1..Len(q) \/ i = Len(r)
  BY <1>1
<1> HIDE DEF r
<1>3. Placed(r, dn, mn)
  <2>1. \A i \in 1..Len(r) : r[i].kind = "Delta" => i \in 1..Len(q) /\ r[i] = q[i]
    BY <1>1, <1>2
  <2>2. \A i, j \in 1..Len(r) : r[i].kind = "Delta" /\ r[j].kind = "Delta" => i = j
    BY <2>1 DEF Placed
  <2>3. \A i \in 1..Len(r) : r[i].kind = "Delta" => r[i].n = mn
    BY <2>1 DEF Placed
  <2>4. (\A i \in 1..Len(r) : r[i].kind # "Delta") => dn = mn
    BY <1>1 DEF Placed
  <2>5. \A i \in 1..Len(r) : r[i].kind = "Button" => r[i].before <= mn
    BY <1>1, <1>2 DEF Placed
  <2>6. ASSUME NEW i \in 1..Len(r), NEW j \in 1..Len(r),
               r[i].kind = "Button", r[j].kind = "Delta", i < j
        PROVE  r[i].before <= dn
    <3>1. j \in 1..Len(q) /\ r[j] = q[j]
      BY <2>1, <2>6
    <3>2. i \in 1..Len(q) /\ r[i] = q[i]
      BY <3>1, <2>6, <1>1
    <3> QED
      BY <3>1, <3>2, <2>6 DEF Placed
  <2> QED
    BY <2>2, <2>3, <2>4, <2>5, <2>6 DEF Placed
<1> QED
  BY <1>1, <1>3 DEF r

(* What a queue of events holds, for its buttons and movements.            *)
LEMMA EventTypes ==
    ASSUME NEW e \in Events
    PROVE  /\ e.kind = "Button" => e.before \in Nat /\ e.down \in BOOLEAN
           /\ e.kind = "Delta" => e \in Deltas
           /\ e.kind = "Key" => e.byte \in 0..254 /\ e.byte \in Bytes /\ e.n \in Nat
           /\ e.kind \in {"Delta", "Button", "Key", "Pos"}
BY DEF Events, Deltas, Buttons, Keys, Positions, Bytes

(* A movement behind a queue without one.                                  *)
LEMMA MovementAppended ==
    ASSUME NEW q \in Seq(Events), NEW dn \in Nat, NEW mn \in Nat, Placed(q, dn, mn),
           NEW e \in Events, e.kind = "Delta", e.n = mn + 1,
           \A i \in 1..Len(q) : q[i].kind # "Delta"
    PROVE  Append(q, e) \in Seq(Events) /\ Placed(Append(q, e), dn, mn + 1)
<1> DEFINE r == Append(q, e)
<1>1. /\ r \in Seq(Events) /\ Len(r) = Len(q) + 1 /\ Len(q) \in Nat
      /\ \A i \in 1..Len(q) : r[i] = q[i] /\ i \in 1..Len(r)
      /\ r[Len(r)] = e
  OBVIOUS
<1>2. \A i \in 1..Len(r) : i \in 1..Len(q) \/ i = Len(r)
  BY <1>1
<1>3. dn = mn
  BY DEF Placed
<1> HIDE DEF r
<1>4. \A i \in 1..Len(r) : r[i].kind = "Delta" <=> i = Len(r)
  BY <1>1, <1>2
<1>5. \A i \in 1..Len(r) : r[i].kind = "Button" => r[i].before \in Nat /\ r[i].before <= mn
  <2> SUFFICES ASSUME NEW i \in 1..Len(r), r[i].kind = "Button"
               PROVE  r[i].before \in Nat /\ r[i].before <= mn
    OBVIOUS
  <2>1. i \in 1..Len(q) /\ r[i] = q[i]
    BY <1>1, <1>2
  <2>2. q[i] \in Events
    BY <2>1
  <2> QED
    BY <2>1, <2>2, EventTypes DEF Placed
<1>6. Len(r) \in 1..Len(r)
  BY <1>1
<1>7. Placed(r, dn, mn + 1)
  <2>1. \A i, j \in 1..Len(r) : r[i].kind = "Delta" /\ r[j].kind = "Delta" => i = j
    BY <1>4
  <2>2. \A i \in 1..Len(r) : r[i].kind = "Delta" => r[i].n = mn + 1
    BY <1>1, <1>4
  <2>3. ~ \A i \in 1..Len(r) : r[i].kind # "Delta"
    BY <1>4, <1>6
  <2>4. \A i \in 1..Len(r) : r[i].kind = "Button" => r[i].before <= mn + 1 /\ r[i].before <= dn
    BY <1>3, <1>5
  <2> QED
    BY <2>1, <2>2, <2>3, <2>4 DEF Placed
<1> QED
  BY <1>1, <1>7 DEF r

(* A movement added to the one in the queue.                               *)
LEMMA MovementMerged ==
    ASSUME NEW q \in Seq(Events), NEW dn \in Nat, NEW mn \in Nat, Placed(q, dn, mn),
           NEW e \in Events, e.kind = "Delta", e.n = mn + 1,
           NEW k \in 1..Len(q), q[k].kind = "Delta"
    PROVE  [q EXCEPT ![k] = e] \in Seq(Events) /\ Placed([q EXCEPT ![k] = e], dn, mn + 1)
<1> DEFINE r == [q EXCEPT ![k] = e]
<1>1. /\ r \in Seq(Events) /\ Len(r) = Len(q) /\ Len(q) \in Nat
      /\ \A i \in 1..Len(q) : r[i] = IF i = k THEN e ELSE q[i]
  OBVIOUS
<1> HIDE DEF r
<1>2. \A i \in 1..Len(q) : q[i].kind = "Delta" => i = k
  BY DEF Placed
<1>3. \A i \in 1..Len(r) : r[i].kind = "Delta" <=> i = k
  BY <1>1, <1>2
<1>4. ASSUME NEW i \in 1..Len(r), r[i].kind = "Button"
      PROVE  i \in 1..Len(q) /\ r[i] = q[i] /\ r[i].before \in Nat /\ r[i].before <= mn
  <2>1. i \in 1..Len(q) /\ r[i] = q[i]
    BY <1>1, <1>4
  <2>2. q[i] \in Events
    BY <2>1
  <2> QED
    BY <1>4, <2>1, <2>2, EventTypes DEF Placed
<1>5. Placed(r, dn, mn + 1)
  <2>1. \A i, j \in 1..Len(r) : r[i].kind = "Delta" /\ r[j].kind = "Delta" => i = j
    BY <1>3
  <2>2. \A i \in 1..Len(r) : r[i].kind = "Delta" => r[i].n = mn + 1
    BY <1>1, <1>3
  <2>3. ~ \A i \in 1..Len(r) : r[i].kind # "Delta"
    BY <1>1, <1>3
  <2>4. \A i \in 1..Len(r) : r[i].kind = "Button" => r[i].before <= mn + 1
    BY <1>4
  <2>5. ASSUME NEW i \in 1..Len(r), NEW j \in 1..Len(r),
               r[i].kind = "Button", r[j].kind = "Delta", i < j
        PROVE  r[i].before <= dn
    <3>1. i \in 1..Len(q) /\ r[i] = q[i] /\ q[i].kind = "Button"
      BY <1>4, <2>5
    <3>2. j = k
      BY <1>3, <2>5
    <3> QED
      BY <3>1, <3>2, <2>5 DEF Placed
  <2> QED
    BY <2>1, <2>2, <2>3, <2>4, <2>5 DEF Placed
<1> QED
  BY <1>1, <1>5 DEF r

(* Movement of the host, wherever it goes in the queue.                    *)
LEMMA MovementAdded ==
    ASSUME NEW q \in Seq(Events), NEW dn \in Nat, NEW mn \in Nat, Placed(q, dn, mn),
           NEW m \in Moves
    PROVE  LET r == EventQ_PushMouseDelta(q, m, mn + 1)
           IN  r \in Seq(Events) /\ Placed(r, dn, mn + 1)
<1> DEFINE deltas == {i \in DOMAIN q : q[i].kind = "Delta"}
<1>1. m[1] \in Int /\ m[2] \in Int
  BY DEF ADBAssumption
<1>2. DOMAIN q = 1..Len(q) /\ Len(q) \in Nat
  OBVIOUS
<1>3. CASE deltas = {}
  <2> DEFINE e == [kind |-> "Delta", h |-> m[1], v |-> m[2], n |-> mn + 1]
  <2>1. EventQ_PushMouseDelta(q, m, mn + 1) = Append(q, e)
    BY <1>3 DEF EventQ_PushMouseDelta
  <2>2. e \in Events /\ e.kind = "Delta" /\ e.n = mn + 1
    BY <1>1 DEF Events, Deltas
  <2>3. \A i \in 1..Len(q) : q[i].kind # "Delta"
    BY <1>2, <1>3
  <2> HIDE DEF e
  <2> QED
    BY <2>1, <2>2, <2>3, MovementAppended
<1>4. CASE deltas # {}
  <2>1. PICK k \in deltas : TRUE
    BY <1>4
  <2>2. \A i \in deltas : i = k
    BY <1>2, <2>1 DEF Placed
  <2>3. (CHOOSE i \in deltas : \A j \in deltas : j <= i) = k
    BY <1>2, <2>1, <2>2
  <2>4. q[k] \in Deltas /\ k \in 1..Len(q) /\ q[k].kind = "Delta"
    BY <1>2, <2>1, EventTypes
  <2> DEFINE e == [kind |-> "Delta", h |-> q[k].h + m[1], v |-> q[k].v + m[2], n |-> mn + 1]
  <2>5. EventQ_PushMouseDelta(q, m, mn + 1) = [q EXCEPT ![k] = e]
    BY <1>4, <2>3 DEF EventQ_PushMouseDelta
  <2>6. e \in Events /\ e.kind = "Delta" /\ e.n = mn + 1
    BY <1>1, <2>4 DEF Events, Deltas
  <2> HIDE DEF e
  <2>7. [q EXCEPT ![k] = e] \in Seq(Events) /\ Placed([q EXCEPT ![k] = e], dn, mn + 1)
    BY <2>4, <2>6, MovementMerged
  <2> QED
    BY <2>5, <2>7
<1> QED
  BY <1>3, <1>4

---------------------------------------------------------------------------
(* The answers.                                                            *)

(* An answer is given a byte at a time.                                    *)
LEMMA SecondByte ==
    ASSUME NEW a \in Bytes, NEW b \in Bytes
    PROVE  Append(<<a>>, b) = <<a, b>>
<1> DEFINE s == Append(<<a>>, b)
           t == <<a, b>>
<1>1. <<a>> \in Seq(Bytes) /\ Len(<<a>>) = 1 /\ <<a>>[1] = a
  OBVIOUS
<1>2. s \in Seq(Bytes) /\ Len(s) = 2 /\ s[1] = a /\ s[2] = b
  BY <1>1, AppendProperties
<1>3. t \in Seq(Bytes) /\ Len(t) = 2 /\ t[1] = a /\ t[2] = b
  OBVIOUS
<1> HIDE DEF s, t
<1>4. \A i \in 1..Len(s) : s[i] = t[i]
  BY <1>2, <1>3
<1>5. s = t
  BY <1>2, <1>3, <1>4, SeqEqual
<1> QED
  BY <1>5 DEF s, t

LEMMA AnswerFresh ==
    ASSUME buf \in [1..MaxSzDatBuf -> Bytes], NEW a \in Bytes, NEW b \in Bytes, Answer(a, b)
    PROVE  Fresh'
BY DEF Answer, Fresh, ADBAssumption

LEMMA NoAnswerFresh ==
    ASSUME buf \in [1..MaxSzDatBuf -> Bytes], NoAnswer
    PROVE  Fresh'
BY DEF NoAnswer, Fresh

(* What is said of the movement is a byte, however far the mouse went.     *)
LEMMA ClippedFits ==
    ASSUME NEW d \in Int
    PROVE  Clipped(d) \in -63..63 /\ Clipped(d) % 128 \in 0..127
BY DEF Clipped

LEMMA Signed7Int ==
    ASSUME NEW b \in Bytes
    PROVE  Signed7(b) \in Int
BY DEF Signed7, Bytes

(* The mouse takes the movement and the button at the head of the queue:   *)
(* the button is behind no movement but what was taken, and that is said   *)
(* whole or the button waits.                                              *)
LEMMA MouseTalkKeeps ==
    ASSUME Devices, buf \in [1..MaxSzDatBuf -> Bytes], UNCHANGED moved,
           NEW q \in Seq(Events), Placed(q, delta.n, moved.n), MouseTalk(q)
    PROVE  Devices' /\ Fresh'
<1> DEFINE takes == IsNext(q, "Delta")
           d == IF takes
                THEN [h |-> delta.h + Head(q).h, v |-> delta.v + Head(q).v, n |-> Head(q).n]
                ELSE delta
           rest == IF takes THEN Tail(q) ELSE q
           h == Clipped(d.h)
           v == Clipped(d.v)
           overflow == h # d.h \/ v # d.v
           presses == Presses(rest, overflow)
           down == IF presses THEN Head(rest).down ELSE button
           first == (IF down THEN 0 ELSE 128) + (v % 128)
           second == 128 + (h % 128)
<1>1. /\ d \in [h : Int, v : Int, n : Nat]
      /\ rest \in Seq(Events) /\ Placed(rest, d.n, moved.n)
  <2>1. CASE takes
    <3>1. q # <<>> /\ Head(q).kind = "Delta" /\ Head(q) \in Events
      BY <2>1 DEF IsNext
    <3>2. Head(q) \in Deltas
      BY <3>1, EventTypes
    <3>3. Tail(q) \in Seq(Events) /\ Head(q).n = moved.n /\ Placed(Tail(q), moved.n, moved.n)
      BY <3>1, DeltaTaken
    <3>4. d.n = moved.n /\ rest = Tail(q)
      BY <2>1, <3>3
    <3>5. /\ Head(q).h \in Int /\ Head(q).v \in Int /\ Head(q).n \in Nat
          /\ delta.h \in Int /\ delta.v \in Int
      BY <3>2 DEF Deltas, Devices
    <3>6. d = [h |-> delta.h + Head(q).h, v |-> delta.v + Head(q).v, n |-> Head(q).n]
      BY <2>1
    <3>7. d \in [h : Int, v : Int, n : Nat]
      BY <3>5, <3>6
    <3> QED
      BY <3>3, <3>4, <3>7
  <2>2. CASE ~takes
    BY <2>2 DEF Devices
  <2> QED
    BY <2>1, <2>2
<1>2. /\ delta' = [h |-> d.h - h, v |-> d.v - v, n |-> d.n]
      /\ button' = down
      /\ queue' = IF presses THEN Tail(rest) ELSE rest
      /\ upTo' = IF overflow THEN upTo ELSE d.n
      /\ press' = IF presses THEN [before |-> Head(rest).before, upTo |-> upTo'] ELSE press
      /\ \/ Answer(first, second) /\ reported' = [h |-> reported.h + Signed7(second),
                                                  v |-> reported.v + Signed7(first)]
         \/ NoAnswer /\ UNCHANGED reported
      /\ mouseEnabled' = TRUE
  BY DEF MouseTalk
<1> HIDE DEF d, rest
<1>3. h \in Int /\ v \in Int /\ h % 128 \in 0..127 /\ v % 128 \in 0..127
  <2>1. d.h \in Int /\ d.v \in Int
    BY <1>1
  <2>2. h \in -63..63 /\ h % 128 \in 0..127
    BY <2>1, ClippedFits
  <2>3. v \in -63..63 /\ v % 128 \in 0..127
    BY <2>1, ClippedFits
  <2> HIDE DEF h, v
  <2> QED
    BY <2>2, <2>3
<1>4. first \in Bytes /\ second \in Bytes
  <2> HIDE DEF h, v, down
  <2>1. (IF down THEN 0 ELSE 128) \in {0, 128}
    OBVIOUS
  <2> QED
    BY <1>3, <2>1 DEF Bytes
<1>5. ASSUME presses
      PROVE  /\ Tail(rest) \in Seq(Events) /\ Placed(Tail(rest), d.n, moved.n)
             /\ Head(rest).before \in Nat /\ Head(rest).before <= d.n /\ Head(rest).down \in BOOLEAN
             /\ ~overflow
  <2>1. rest # <<>> /\ Head(rest).kind = "Button" /\ ~overflow
    BY <1>5 DEF Presses, IsNext
  <2>2. Head(rest) \in Events
    BY <1>1, <2>1
  <2> QED
    BY <1>1, <2>1, <2>2, TailPlaced, ButtonReady, EventTypes
<1>6. queue' \in Seq(Events) /\ Placed(queue', delta'.n, moved'.n)
  <2>1. delta'.n = d.n /\ moved' = moved
    BY <1>2
  <2> QED
    BY <1>1, <1>2, <1>5, <2>1
<1>7. upTo' \in Nat /\ press' \in [before : Nat, upTo : Nat] /\ press'.before <= press'.upTo
  BY <1>1, <1>2, <1>5 DEF Devices, PressInPlace
<1>8. /\ delta' \in [h : Int, v : Int, n : Nat]
      /\ reported' \in [h : Int, v : Int]
  <2>1. Signed7(first) \in Int /\ Signed7(second) \in Int
    BY <1>4, Signed7Int
  <2> HIDE DEF h, v, first, second
  <2>2. d.h \in Int /\ d.v \in Int /\ d.n \in Nat
    BY <1>1
  <2>3. delta' \in [h : Int, v : Int, n : Nat]
    BY <1>2, <1>3, <2>2
  <2>4. reported.h \in Int /\ reported.v \in Int /\ reported \in [h : Int, v : Int]
    BY DEF Devices
  <2>5. reported' \in [h : Int, v : Int]
    BY <1>2, <2>1, <2>4
  <2> QED
    BY <2>3, <2>5
<1>9. button' \in BOOLEAN
  BY <1>2, <1>5 DEF Devices
<1>10. Fresh'
  BY <1>2, <1>4, AnswerFresh, NoAnswerFresh
<1> QED
  BY <1>2, <1>6, <1>7, <1>8, <1>9, <1>10 DEF Devices, PressInPlace

(* The keyboard takes one key or two from the head of the queue.           *)
LEMMA KeyboardTalkKeeps ==
    ASSUME Devices, buf \in [1..MaxSzDatBuf -> Bytes], UNCHANGED moved,
           NEW q \in Seq(Events), Placed(q, delta.n, moved.n), KeyboardTalk(q)
    PROVE  Devices' /\ Fresh'
<1>1. Len(q) \in Nat
  OBVIOUS
<1>2. CASE ~IsNext(q, "Key")
  <2>1. SubSeq(q, 0 + 1, Len(q)) = q
    BY SubSeqFull
  <2>2. queue' = q /\ NoAnswer
    BY <1>2, <2>1 DEF KeyboardTalk, KeysTaken
  <2>3. Fresh'
    BY <2>2, NoAnswerFresh
  <2> QED
    BY <2>2, <2>3 DEF KeyboardTalk, Devices, PressInPlace
<1>3. CASE IsNext(q, "Key")
  <2>1. q # <<>> /\ Head(q).kind = "Key" /\ Head(q) \in Events
    BY <1>3 DEF IsNext
  <2>2. Tail(q) \in Seq(Events) /\ Placed(Tail(q), delta.n, moved.n)
    BY <2>1, TailPlaced
  <2>3. SubSeq(q, 1 + 1, Len(q)) = Tail(q)
    BY <2>1, TailIsSubSeq
  <2>4. CASE ~IsNext(Tail(q), "Key")
    <3>1. queue' = Tail(q) /\ Answer(Head(q).byte, 255)
      BY <1>3, <2>3, <2>4 DEF KeyboardTalk, KeysTaken
    <3>2. Head(q).byte \in Bytes /\ 255 \in Bytes
      BY <2>1, EventTypes DEF Bytes
    <3>3. Fresh'
      BY <3>1, <3>2, AnswerFresh
    <3> QED
      BY <2>2, <3>1, <3>3 DEF KeyboardTalk, Devices, PressInPlace
  <2>5. CASE IsNext(Tail(q), "Key")
    <3>1. Tail(q) # <<>> /\ Head(Tail(q)).kind = "Key"
      BY <2>5 DEF IsNext
    <3>2. Tail(Tail(q)) \in Seq(Events) /\ Placed(Tail(Tail(q)), delta.n, moved.n)
      BY <2>2, <3>1, TailPlaced
    <3>3. 2 \in 1..Len(q) /\ Len(q) \in 2..Len(q) /\ q[2] = Head(Tail(q)) /\ q[2] \in Events
      BY <2>1, <3>1
    <3>4. SubSeq(q, 2 + 1, Len(q)) = Tail(Tail(q))
      BY <2>3, <3>3, HeadTailOfSubSeq, SMTT(30)
    <3>5. queue' = Tail(Tail(q)) /\ Answer(Head(q).byte, q[2].byte)
      BY <1>3, <2>5, <3>4 DEF KeyboardTalk, KeysTaken
    <3>6. Head(q).byte \in Bytes /\ q[2].byte \in Bytes
      BY <2>1, <3>1, <3>3, EventTypes
    <3>7. Fresh'
      BY <3>5, <3>6, AnswerFresh
    <3> QED
      BY <3>2, <3>5, <3>7 DEF KeyboardTalk, Devices, PressInPlace
  <2> QED
    BY <2>4, <2>5
<1> QED
  BY <1>2, <1>3

(* A device that has nothing to say.                                       *)
LEMMA SilentTalkKeeps ==
    ASSUME Devices, buf \in [1..MaxSzDatBuf -> Bytes], UNCHANGED moved,
           NEW q \in Seq(Events), Placed(q, delta.n, moved.n), SilentTalk(q)
    PROVE  Devices' /\ Fresh'
BY NoAnswerFresh DEF SilentTalk, Devices, PressInPlace, deviceVars, toldVars

(* Whichever device is asked, and for whichever register.                  *)
LEMMA DoTalkKeeps ==
    ASSUME Devices, buf \in [1..MaxSzDatBuf -> Bytes], UNCHANGED moved,
           NEW cmd, NEW at, NEW q \in Seq(Events), Placed(q, delta.n, moved.n), DoTalk(cmd, at, q)
    PROVE  Devices' /\ Fresh'
<1>1. CASE MouseTalk(q)
  BY <1>1, MouseTalkKeeps
<1>2. CASE KeyboardTalk(q)
  BY <1>2, KeyboardTalkKeeps
<1>3. CASE Register3Talk(q)
  <2>1. 96 \in Bytes /\ 1 \in Bytes
    BY DEF Bytes
  <2>2. Fresh'
    BY <1>3, <2>1, AnswerFresh DEF Register3Talk
  <2> QED
    BY <1>3, <2>2 DEF Register3Talk, Devices, PressInPlace, toldVars
<1>4. CASE SilentTalk(q)
  BY <1>4, SilentTalkKeeps
<1> QED
  BY <1>1, <1>2, <1>3, <1>4 DEF DoTalk

---------------------------------------------------------------------------
(* The steps.                                                              *)

(* The host's part of a step, and what it leaves alone.                    *)
LEMMA PushedKeeps ==
    ASSUME IInv, Pushed, queue' \in Seq(Events), Placed(queue', delta.n, moved'.n),
           moved' \in [h : Int, v : Int, n : Nat], hostButton' \in BOOLEAN,
           typed' \in Seq(0..254)
    PROVE  IInv'
BY DEF IInv, Transceiver, Reading, Devices, PressInPlace, Pushed, guestVars, answerVars, toldVars

LEMMA HostStep ==
    ASSUME IInv, Host
    PROVE  IInv'
<1>1. /\ queue \in Seq(Events) /\ Placed(queue, delta.n, moved.n)
      /\ moved \in [h : Int, v : Int, n : Nat] /\ delta.n \in Nat /\ hostButton \in BOOLEAN
      /\ typed \in Seq(0..254)
  BY DEF IInv, Devices, Transceiver
<1>2. moved.h \in Int /\ moved.v \in Int /\ moved.n \in Nat
  BY <1>1
<1>3. ASSUME NEW m \in Moves, MousePositionSetDelta(m)
      PROVE  IInv'
  <2>1. queue' \in Seq(Events) /\ Placed(queue', delta.n, moved.n + 1)
    BY <1>1, <1>2, <1>3, MovementAdded DEF MousePositionSetDelta
  <2>2. m[1] \in Int /\ m[2] \in Int
    BY DEF ADBAssumption
  <2>3. moved' \in [h : Int, v : Int, n : Nat] /\ moved'.n = moved.n + 1
    BY <1>2, <1>3, <2>2 DEF MousePositionSetDelta
  <2> QED
    BY <1>1, <1>3, <2>1, <2>3, PushedKeeps DEF MousePositionSetDelta
<1>4. CASE MouseButtonSet
  <2> DEFINE e == [kind |-> "Button", down |-> hostButton', before |-> moved.n]
  <2>1. e \in Events /\ e.kind = "Button" /\ e.before = moved.n /\ hostButton' \in BOOLEAN
    BY <1>1, <1>2, <1>4 DEF MouseButtonSet, Events, Buttons
  <2>2. queue' = Append(queue, e) /\ moved' = moved
    BY <1>4 DEF MouseButtonSet
  <2> HIDE DEF e
  <2>3. queue' \in Seq(Events) /\ Placed(queue', delta.n, moved'.n)
    BY <1>1, <1>2, <2>1, <2>2, EventAdded
  <2> QED
    BY <1>1, <1>4, <2>1, <2>2, <2>3, PushedKeeps DEF MouseButtonSet
<1>5. ASSUME NEW k \in KeyCodes, Keyboard_UpdateKeyMap(k)
      PROVE  IInv'
  <2> DEFINE e == [kind |-> "Key", byte |-> Byte(k, k \notin hostKeys), n |-> Len(typed')]
  <2>1. k \in 0..126
    BY DEF ADBAssumption
  <2>2. Byte(k, k \notin hostKeys) \in 0..254
    BY <2>1 DEF Byte
  <2>6. typed' \in Seq(0..254) /\ Len(typed') \in Nat
    BY <1>1, <1>5, <2>2 DEF Keyboard_UpdateKeyMap
  <2>3. e \in Events /\ e.kind = "Key"
    BY <2>2, <2>6 DEF Events, Keys
  <2>4. queue' = Append(queue, e) /\ moved' = moved /\ hostButton' = hostButton /\ typed' \in Seq(0..254)
    BY <1>5, <2>6 DEF Keyboard_UpdateKeyMap
  <2> HIDE DEF e
  <2>5. queue' \in Seq(Events) /\ Placed(queue', delta.n, moved'.n)
    BY <1>1, <1>2, <2>3, <2>4, EventAdded
  <2> QED
    BY <1>1, <1>5, <2>4, <2>5, PushedKeeps DEF Keyboard_UpdateKeyMap
<1>6. CASE MousePositionSet
  <2> DEFINE e == [kind |-> "Pos"]
  <2>1. e \in Events /\ e.kind = "Pos"
    BY DEF Events, Positions
  <2>2. queue' = Append(queue, e) /\ moved' = moved /\ hostButton' = hostButton
    BY <1>6 DEF MousePositionSet
  <2> HIDE DEF e
  <2>3. queue' \in Seq(Events) /\ Placed(queue', delta.n, moved'.n)
    BY <1>1, <1>2, <2>1, <2>2, EventAdded
  <2> QED
    BY <1>1, <1>6, <2>2, <2>3, PushedKeeps DEF MousePositionSet
<1> QED
  BY <1>3, <1>4, <1>5, <1>6 DEF Host

(* The guest touches its lines, its mode and the flag.                     *)
GuestTypes ==
    /\ state' \in 0..3 /\ shiftMode' \in 0..7 /\ armed' \in BOOLEAN /\ srFlag' \in BOOLEAN
    /\ UNCHANGED <<curCmd, listening, index, answerVars, deviceVars, address, hostVars>>

LEMMA GuestStep ==
    ASSUME IInv, Guest
    PROVE  IInv'
<1>1. /\ state \in 0..3 /\ shiftMode \in 0..7 /\ armed \in BOOLEAN /\ srFlag \in BOOLEAN
  BY DEF IInv, Transceiver
<1>2. ASSUME NEW s \in 0..3, SetState(s) PROVE GuestTypes
  BY <1>1, <1>2 DEF SetState, GuestActs, GuestTypes
<1>3. ASSUME NEW mode \in ShiftModes, SetShiftMode(mode) PROVE GuestTypes
  <2>1. mode \in 0..7
    BY ADBAssumption DEF ADBAssumption
  <2>2. shiftMode' = mode
    BY <1>3 DEF SetShiftMode
  <2>3. srFlag' \in BOOLEAN
    BY <1>3, Zenon DEF SetShiftMode
  <2> QED
    BY <1>1, <1>3, <2>1, <2>2, <2>3 DEF SetShiftMode, GuestActs, GuestTypes
<1>4. ASSUME ClearSR PROVE GuestTypes
  <2>1. srFlag' \in BOOLEAN
    BY <1>4, Zenon DEF ClearSR
  <2> QED
    BY <1>1, <1>4, <2>1 DEF ClearSR, GuestActs, guestVars, GuestTypes
<1>5. GuestTypes
  BY <1>2, <1>3, <1>4, Zenon DEF Guest
<1>6. Devices'
  BY <1>5 DEF GuestTypes, IInv, Devices, PressInPlace, deviceVars, toldVars, hostVars
<1>7. Transceiver'
  BY <1>5 DEF GuestTypes, IInv, Transceiver, answerVars, hostVars
<1>8. Reading'
  BY <1>5 DEF GuestTypes, IInv, Reading, answerVars
<1> QED
  BY <1>6, <1>7, <1>8 DEF IInv

(* The device answers only where the index has been put back, for a tick   *)
(* and the idle state ask it for the last talk, which was no listen.       *)
LEMMA AnnouncesKeeps ==
    ASSUME IInv, NEW q \in Seq(Events), Placed(q, delta.n, moved.n), Announces(q),
           UNCHANGED <<moved, curCmd, listening, index>>
    PROVE  Devices' /\ Reading' /\ srFlag' \in BOOLEAN /\ talking' \in BOOLEAN
           /\ buf' \in [1..MaxSzDatBuf -> Bytes] /\ (talking' => ~listening')
<1>1. CASE ~MayAnnounce(q)
  BY <1>1 DEF Announces, IInv, Transceiver, Reading, Devices, PressInPlace, answerVars, toldVars
<1>2. CASE MayAnnounce(q) /\ Operation(curCmd) = Talk
  <2>1. ~talking /\ ~listening /\ index = 0
    BY <1>2 DEF MayAnnounce, IInv, Reading, Talk, Listen
  <2>2. Devices' /\ Fresh'
    BY <1>2, DoTalkKeeps DEF Announces, IInv, Transceiver
  <2> QED
    BY <1>2, <2>1, <2>2 DEF Announces, shiftInData, Fresh, Reading, IInv, Transceiver
<1>3. CASE MayAnnounce(q) /\ Operation(curCmd) # Talk
  <2>1. ~talking /\ SilentTalk(q)
    BY <1>3 DEF MayAnnounce, Announces
  <2>2. talking' = FALSE
    BY <2>1 DEF SilentTalk, NoAnswer
  <2>3. Devices' /\ Fresh'
    BY <2>1, SilentTalkKeeps DEF IInv, Transceiver
  <2> QED
    BY <1>3, <2>1, <2>2, <2>3 DEF Announces, shiftInData, Fresh, Reading, IInv, Transceiver
<1> QED
  BY <1>1, <1>2, <1>3

(* The end of a listen gives a device an address of four bits.             *)
LEMMA EndListenType ==
    ASSUME Transceiver
    PROVE  EndListen \in [mouse : 0..15, keyboard : 0..15]
<1>1. buf[1] \in Bytes
  BY DEF Transceiver, ADBAssumption
<1>2. buf[1] % 16 \in 0..15
  BY <1>1 DEF Bytes
<1> QED
  BY <1>2, SMTT(30) DEF EndListen, Transceiver

LEMMA ShiftedOutType ==
    ASSUME NEW byte \in Bytes
    PROVE  ShiftedOut(byte) \in Bytes
BY DEF ShiftedOut, Bytes

LEMMA StartCommandStep ==
    ASSUME IInv, NEW byte \in Commands, StartCommand(byte)
    PROVE  IInv'
<1> DEFINE cmd == ShiftedOut(byte)
<1>1. cmd \in Bytes
  <2>1. byte \in Bytes
    BY DEF ADBAssumption, Bytes
  <2> QED
    BY <2>1, ShiftedOutType
<1>2. /\ curCmd' = cmd /\ index' = 0 /\ listening' = (Operation(cmd) = Listen)
      /\ UNCHANGED <<state, shiftMode, hostButton, typed, moved>> /\ armed' = FALSE
      /\ srFlag' \in BOOLEAN
  BY DEF StartCommand, NewState, shiftOutData, guestVars, hostVars, IInv, Transceiver
<1>3. address' \in [mouse : 0..15, keyboard : 0..15]
  BY EndListenType DEF StartCommand, IInv
<1>4. /\ Devices /\ buf \in [1..MaxSzDatBuf -> Bytes] /\ queue \in Seq(Events)
      /\ Placed(queue, delta.n, moved.n)
  BY DEF IInv, Transceiver, Devices
<1>5. Devices' /\ Fresh' /\ (talking' => Operation(cmd) # Listen)
  <2>1. CASE Operation(cmd) = Talk
    <3>1. DoTalk(cmd, EndListen, queue)
      BY <2>1 DEF StartCommand
    <3>2. Devices' /\ Fresh'
      BY <1>2, <1>4, <3>1, DoTalkKeeps
    <3> QED
      BY <2>1, <3>2 DEF Talk, Listen
  <2>2. CASE Operation(cmd) # Talk /\ Untold /\ IsFlush(cmd) /\ Answer(0, 0)
    <3>1. 0 \in Bytes
      BY DEF Bytes
    <3>2. Fresh'
      BY <1>4, <2>2, <3>1, AnswerFresh
    <3> QED
      BY <1>2, <1>4, <2>2, <3>2
         DEF Untold, deviceVars, toldVars, Devices, PressInPlace, IsFlush, Listen
  <2>3. CASE Operation(cmd) # Talk /\ Untold /\ NoAnswer
    <3>1. Fresh' /\ talking' = FALSE
      BY <1>4, <2>3, NoAnswerFresh DEF NoAnswer
    <3> QED
      BY <1>2, <1>4, <2>3, <3>1 DEF Untold, deviceVars, toldVars, Devices, PressInPlace
  <2> QED
    BY <2>1, <2>2, <2>3 DEF StartCommand
<1> HIDE DEF cmd
<1>6. Reading'
  BY <1>2, <1>5 DEF Reading, Fresh
<1>7. Transceiver'
  <2>1. state \in 0..3 /\ shiftMode \in 0..7 /\ hostButton \in BOOLEAN
        /\ typed \in Seq(0..254)
    BY DEF IInv, Transceiver
  <2>2. index' \in 0..MaxSzDatBuf
    BY <1>2 DEF ADBAssumption
  <2>3. listening' \in BOOLEAN /\ (talking' => ~listening')
    BY <1>2, <1>5
  <2> QED
    BY <1>1, <1>2, <1>3, <1>5, <2>1, <2>2, <2>3 DEF Transceiver, Fresh
<1> QED
  BY <1>5, <1>6, <1>7 DEF IInv

LEMMA TalkByteStep ==
    ASSUME IInv, TalkByte
    PROVE  IInv'
<1>1. /\ UNCHANGED <<state, shiftMode, hostButton, typed, moved, curCmd, listening, talking, buf, answer,
                    deviceVars, address>>
      /\ armed' = FALSE /\ srFlag' \in BOOLEAN /\ ~listening
  BY DEF TalkByte, NewState, shiftInData, guestVars, hostVars, IInv, Transceiver
<1>2. Devices'
  BY <1>1 DEF IInv, Devices, PressInPlace, deviceVars, toldVars
<1>3. index' \in 0..MaxSzDatBuf /\ Reading'
  <2>1. CASE talking
    <3>1. /\ answer = <<buf[1], buf[2]>>
          /\ \/ index = 0 /\ given = <<>>
             \/ index = 1 /\ given = <<buf[1]>>
             \/ index = 2 /\ given = <<buf[1], buf[2]>>
      BY <2>1 DEF IInv, Reading
    <3>2. Len(answer) = 2
      BY <3>1
    <3>3. CASE index < 2
      <4>1. given' = Append(given, buf[index + 1]) /\ index' = index + 1
        BY <2>1, <3>2, <3>3 DEF TalkByte
      <4>2. \/ index' = 1 /\ given' = <<buf[1]>>
            \/ index' = 2 /\ given' = <<buf[1], buf[2]>>
        <5>1. CASE index = 0
          BY <3>1, <4>1, <5>1
        <5>2. CASE index = 1
          <6>1. buf[1] \in Bytes /\ buf[2] \in Bytes
            BY DEF IInv, Transceiver, ADBAssumption
          <6>2. given = <<buf[1]>> /\ given' = Append(given, buf[2]) /\ index' = 2
            BY <3>1, <4>1, <5>2
          <6> QED
            BY <6>1, <6>2, SecondByte
        <5> QED
          BY <3>1, <3>3, <5>1, <5>2
      <4> QED
        BY <1>1, <2>1, <3>1, <4>2 DEF Reading, ADBAssumption, IInv
    <3>4. CASE ~(index < 2)
      <4>1. UNCHANGED <<index, given>>
        BY <3>2, <3>4 DEF TalkByte
      <4> QED
        BY <1>1, <4>1 DEF IInv, Reading, Transceiver
    <3> QED
      BY <3>3, <3>4
  <2>2. CASE ~talking
    <3>1. UNCHANGED <<index, given>>
      BY <2>2 DEF TalkByte
    <3> QED
      BY <1>1, <3>1 DEF IInv, Reading, Transceiver
  <2> QED
    BY <2>1, <2>2
<1> QED
  BY <1>1, <1>2, <1>3 DEF IInv, Transceiver

LEMMA ListenByteStep ==
    ASSUME IInv, NEW byte \in ListenBytes, ListenByte(byte)
    PROVE  IInv'
<1>1. /\ UNCHANGED <<state, shiftMode, hostButton, typed, moved, curCmd, listening, talking, deviceVars,
                    address>>
      /\ armed' = FALSE /\ srFlag' \in BOOLEAN /\ listening /\ ~talking
  BY DEF ListenByte, NewState, shiftOutData, guestVars, hostVars, IInv, Transceiver
<1>2. Devices'
  BY <1>1 DEF IInv, Devices, PressInPlace, deviceVars, toldVars
<1>3. ShiftedOut(byte) \in Bytes
  <2>1. byte \in Bytes
    BY DEF ADBAssumption, Bytes
  <2> QED
    BY <2>1, ShiftedOutType
<1>4. index' \in 0..MaxSzDatBuf /\ buf' \in [1..MaxSzDatBuf -> Bytes]
  <2>1. CASE HasRoom(index)
    BY <1>3, <2>1 DEF ListenByte, HasRoom, IInv, Transceiver, ADBAssumption
  <2>2. CASE ~HasRoom(index)
    BY <2>2 DEF ListenByte, IInv, Transceiver
  <2> QED
    BY <2>1, <2>2
<1>5. Reading'
  BY <1>1 DEF IInv, Reading
<1> QED
  BY <1>1, <1>2, <1>4, <1>5 DEF IInv, Transceiver

LEMMA IdleStep ==
    ASSUME IInv, Idle
    PROVE  IInv'
<1>1. /\ UNCHANGED <<state, shiftMode, hostButton, typed, moved, curCmd, listening, index, address>>
      /\ armed' = FALSE
  BY DEF Idle, NewState, guestVars, hostVars
<1>2. CASE talking
  <2>1. UNCHANGED <<answerVars, deviceVars>> /\ srFlag' \in BOOLEAN
    BY <1>2 DEF Idle, shiftInData, IInv, Transceiver
  <2>2. Devices'
    BY <1>1, <2>1 DEF deviceVars, toldVars, IInv, Devices, PressInPlace
  <2>3. Reading'
    BY <1>1, <2>1 DEF answerVars, IInv, Reading
  <2>4. Transceiver'
    BY <1>1, <2>1 DEF answerVars, IInv, Transceiver
  <2> QED
    BY <2>2, <2>3, <2>4 DEF IInv
<1>3. CASE ~talking
  <2>1. Announces(queue) /\ queue \in Seq(Events) /\ Placed(queue, delta.n, moved.n)
    BY <1>3 DEF Idle, IInv, Devices
  <2>2. Devices' /\ Reading' /\ srFlag' \in BOOLEAN /\ talking' \in BOOLEAN
        /\ buf' \in [1..MaxSzDatBuf -> Bytes] /\ (talking' => ~listening')
    BY <1>1, <2>1, AnnouncesKeeps
  <2> QED
    BY <1>1, <2>2 DEF IInv, Transceiver
<1> QED
  BY <1>2, <1>3

LEMMA TickStep ==
    ASSUME IInv, Tick
    PROVE  IInv'
<1> DEFINE q == AfterMouse(queue)
<1>1. /\ UNCHANGED <<state, shiftMode, armed, hostButton, typed, moved, curCmd, listening, index, address>>
  BY DEF Tick, guestVars, hostVars
<1>2. q \in Seq(Events) /\ Placed(q, delta.n, moved.n)
  <2>1. queue \in Seq(Events) /\ Placed(queue, delta.n, moved.n)
    BY DEF IInv, Devices
  <2> QED
    BY <2>1, TailPlaced DEF AfterMouse, IsNext
<1> HIDE DEF q
<1>3. CASE state = 3
  <2>1. Announces(q)
    BY <1>3 DEF Tick, q
  <2>2. Devices' /\ Reading' /\ srFlag' \in BOOLEAN /\ talking' \in BOOLEAN
        /\ buf' \in [1..MaxSzDatBuf -> Bytes] /\ (talking' => ~listening')
    BY <1>1, <1>2, <2>1, AnnouncesKeeps
  <2> QED
    BY <1>1, <2>2 DEF IInv, Transceiver
<1>4. CASE state # 3
  <2>1. /\ queue' = q
        /\ UNCHANGED <<answerVars, delta, button, mouseEnabled, toldVars, srFlag>>
    BY <1>4 DEF Tick, q
  <2> QED
    BY <1>1, <1>2, <2>1 DEF IInv, Transceiver, Reading, Devices, PressInPlace, answerVars, toldVars
<1> QED
  BY <1>3, <1>4

---------------------------------------------------------------------------
(* What the host did, what the answers said of it, and what is on its way. *)

(* For a queue q: the movement m of the host is what was said of it (r),   *)
(* what is left of the last delta (d) and the one in q.                    *)
MotionIn(q, d, r, m) ==
    /\ \A i \in 1..Len(q) : q[i].kind = "Delta" =>
          m.h = r.h + d.h + q[i].h /\ m.v = r.v + d.v + q[i].v
    /\ (\A i \in 1..Len(q) : q[i].kind # "Delta") => m.h = r.h + d.h /\ m.v = r.v + d.v

(* And of the bytes y typed those not told (t) are in q, in order.         *)
KeysIn(q, t, y) ==
    /\ t \in Seq(0..254) /\ Len(t) <= Len(y)
    /\ \A i \in 1..Len(t) : t[i] = y[i]
    /\ \A i \in 1..Len(q) :
          q[i].kind = "Key" => q[i].n \in (Len(t) + 1)..Len(y) /\ q[i].byte = y[q[i].n]
    /\ \A i, j \in 1..Len(q) : q[i].kind = "Key" /\ q[j].kind = "Key" /\ i < j => q[i].n < q[j].n
    /\ \A n \in (Len(t) + 1)..Len(y) : \E i \in 1..Len(q) : q[i].kind = "Key" /\ q[i].n = n

Account == MotionIn(queue, delta, reported, moved) /\ KeysIn(queue, told, typed)

LEMMA TailIndices ==
    ASSUME NEW q \in Seq(Events), q # <<>>
    PROVE  /\ Tail(q) \in Seq(Events) /\ Len(q) \in Nat /\ Len(Tail(q)) = Len(q) - 1
           /\ 1 \in 1..Len(q) /\ Head(q) = q[1] /\ q[1] \in Events
           /\ \A i \in 1..Len(Tail(q)) : i + 1 \in 1..Len(q) /\ Tail(q)[i] = q[i + 1]
           /\ \A i \in 1..Len(q) : i # 1 => i - 1 \in 1..Len(Tail(q)) /\ Tail(q)[i - 1] = q[i]
<1>1. /\ Tail(q) \in Seq(Events) /\ Len(q) \in Nat /\ Len(Tail(q)) = Len(q) - 1
      /\ 1 \in 1..Len(q) /\ Head(q) = q[1] /\ q[1] \in Events
      /\ \A i \in 1..Len(Tail(q)) : Tail(q)[i] = q[i + 1]
  OBVIOUS
<1>2. \A i \in 1..Len(Tail(q)) : i + 1 \in 1..Len(q)
  BY <1>1
<1>3. \A i \in 1..Len(q) : i # 1 => i - 1 \in 1..Len(Tail(q)) /\ (i - 1) + 1 = i
  BY <1>1
<1> QED
  BY <1>1, <1>2, <1>3

LEMMA AppendIndices ==
    ASSUME NEW q \in Seq(Events), NEW e \in Events
    PROVE  /\ Append(q, e) \in Seq(Events) /\ Len(q) \in Nat /\ Len(Append(q, e)) = Len(q) + 1
           /\ \A i \in 1..Len(q) : i \in 1..(Len(q) + 1) /\ Append(q, e)[i] = q[i]
           /\ Append(q, e)[Len(q) + 1] = e /\ Len(q) + 1 \in 1..(Len(q) + 1)
           /\ \A i \in 1..(Len(q) + 1) : i \in 1..Len(q) \/ i = Len(q) + 1
OBVIOUS

(* An event that is no movement is taken from the head, or added behind.   *)
LEMMA MotionBehind ==
    ASSUME NEW q \in Seq(Events), q # <<>>, Head(q).kind # "Delta",
           NEW d, NEW r, NEW m, MotionIn(q, d, r, m)
    PROVE  MotionIn(Tail(q), d, r, m)
<1>1. ASSUME \A i \in 1..Len(Tail(q)) : Tail(q)[i].kind # "Delta"
      PROVE  \A i \in 1..Len(q) : q[i].kind # "Delta"
  <2> TAKE i \in 1..Len(q)
  <2>1. CASE i = 1
    BY <2>1, TailIndices, Zenon
  <2>2. CASE i # 1
    <3>1. i - 1 \in 1..Len(Tail(q)) /\ Tail(q)[i - 1] = q[i]
      BY <2>2, TailIndices, Zenon
    <3> QED
      BY <1>1, <3>1, Zenon
  <2> QED
    BY <2>1, <2>2
<1> QED
  BY <1>1, TailIndices DEF MotionIn

LEMMA MotionBefore ==
    ASSUME NEW q \in Seq(Events), NEW e \in Events, e.kind # "Delta",
           NEW d, NEW r, NEW m, MotionIn(q, d, r, m)
    PROVE  MotionIn(Append(q, e), d, r, m)
<1> DEFINE s == Append(q, e)
<1>1. /\ Len(s) = Len(q) + 1 /\ s[Len(q) + 1] = e
      /\ \A i \in 1..Len(q) : i \in 1..(Len(q) + 1) /\ s[i] = q[i]
      /\ \A i \in 1..(Len(q) + 1) : i \in 1..Len(q) \/ i = Len(q) + 1
  BY AppendIndices
<1> HIDE DEF s
<1>2. MotionIn(s, d, r, m)
  BY <1>1 DEF MotionIn
<1> QED
  BY <1>2 DEF s

LEMMA KeysBehind ==
    ASSUME NEW q \in Seq(Events), q # <<>>, Head(q).kind # "Key",
           NEW t, NEW y, KeysIn(q, t, y)
    PROVE  KeysIn(Tail(q), t, y)
<1> DEFINE s == Tail(q)
<1>1. /\ q[1].kind # "Key"
      /\ \A i \in 1..Len(s) : i + 1 \in 1..Len(q) /\ s[i] = q[i + 1]
      /\ \A i \in 1..Len(q) : i # 1 => i - 1 \in 1..Len(s) /\ s[i - 1] = q[i]
  BY TailIndices
<1> HIDE DEF s
<1>2. ASSUME NEW n \in (Len(t) + 1)..Len(y)
      PROVE  \E i \in 1..Len(s) : s[i].kind = "Key" /\ s[i].n = n
  <2>1. PICK i \in 1..Len(q) : q[i].kind = "Key" /\ q[i].n = n
    BY DEF KeysIn
  <2> QED
    BY <1>1, <2>1
<1>3. ASSUME NEW i \in 1..Len(s), NEW j \in 1..Len(s), s[i].kind = "Key", s[j].kind = "Key", i < j
      PROVE  s[i].n < s[j].n
  <2>1. /\ i + 1 \in 1..Len(q) /\ s[i] = q[i + 1]
        /\ j + 1 \in 1..Len(q) /\ s[j] = q[j + 1]
    BY <1>1
  <2>2. i + 1 < j + 1
    BY <1>3
  <2> QED
    BY <1>3, <2>1, <2>2 DEF KeysIn
<1>4. ASSUME NEW i \in 1..Len(s), s[i].kind = "Key"
      PROVE  s[i].n \in (Len(t) + 1)..Len(y) /\ s[i].byte = y[s[i].n]
  <2>1. i + 1 \in 1..Len(q) /\ s[i] = q[i + 1]
    BY <1>1
  <2> QED
    BY <1>4, <2>1 DEF KeysIn
<1>5. KeysIn(s, t, y)
  BY <1>2, <1>3, <1>4 DEF KeysIn
<1> QED
  BY <1>5 DEF s

LEMMA KeysBefore ==
    ASSUME NEW q \in Seq(Events), NEW e \in Events, e.kind # "Key",
           NEW t, NEW y, KeysIn(q, t, y)
    PROVE  KeysIn(Append(q, e), t, y)
<1> DEFINE s == Append(q, e)
<1>1. /\ Len(s) = Len(q) + 1 /\ s[Len(q) + 1] = e
      /\ \A i \in 1..Len(q) : i \in 1..(Len(q) + 1) /\ s[i] = q[i]
      /\ \A i \in 1..(Len(q) + 1) : i \in 1..Len(q) \/ i = Len(q) + 1
  BY AppendIndices
<1> HIDE DEF s
<1>2. \A i \in 1..Len(s) : s[i].kind = "Key" => i \in 1..Len(q) /\ s[i] = q[i]
  BY <1>1
<1>3. ASSUME NEW n \in (Len(t) + 1)..Len(y)
      PROVE  \E i \in 1..Len(s) : s[i].kind = "Key" /\ s[i].n = n
  <2>1. PICK i \in 1..Len(q) : q[i].kind = "Key" /\ q[i].n = n
    BY DEF KeysIn
  <2> QED
    BY <1>1, <2>1
<1>4. \A i, j \in 1..Len(s) : s[i].kind = "Key" /\ s[j].kind = "Key" /\ i < j => s[i].n < s[j].n
  BY <1>2 DEF KeysIn
<1>5. KeysIn(s, t, y)
  BY <1>2, <1>3, <1>4 DEF KeysIn
<1> QED
  BY <1>5 DEF s

(* The key at the head is the next one to tell.                            *)
LEMMA KeyTold ==
    ASSUME NEW q \in Seq(Events), q # <<>>, Head(q).kind = "Key",
           NEW t, NEW y, Len(y) \in Nat, KeysIn(q, t, y)
    PROVE  KeysIn(Tail(q), Append(t, Head(q).byte), y)
<1> DEFINE s == Tail(q)
           b == Head(q).byte
           u == Append(t, b)
<1>1. /\ q[1] = Head(q) /\ 1 \in 1..Len(q) /\ Head(q) \in Events /\ Len(q) \in Nat
      /\ \A i \in 1..Len(s) : i + 1 \in 1..Len(q) /\ s[i] = q[i + 1]
      /\ \A i \in 1..Len(q) : i # 1 => i - 1 \in 1..Len(s) /\ s[i - 1] = q[i]
  BY TailIndices
<1>2. b \in 0..254 /\ Len(t) \in Nat /\ t \in Seq(0..254)
  <2> DEFINE e == Head(q)
  <2> HIDE DEF e
  <2>1. e \in Events /\ e.kind = "Key"
    BY <1>1 DEF e
  <2>2. e.byte \in 0..254
    BY <2>1, EventTypes
  <2>3. t \in Seq(0..254)
    BY DEF KeysIn
  <2> QED
    BY <2>2, <2>3, LenProperties DEF e
<1>3. /\ u \in Seq(0..254) /\ Len(u) = Len(t) + 1 /\ u[Len(t) + 1] = b
      /\ \A i \in 1..Len(t) : u[i] = t[i]
  BY <1>2, AppendProperties
<1> HIDE DEF s, u
<1>4. q[1].n \in (Len(t) + 1)..Len(y) /\ q[1].byte = y[q[1].n] /\ q[1].kind = "Key"
  BY <1>1 DEF KeysIn
<1>5. \A i \in 1..Len(q) : i # 1 /\ q[i].kind = "Key" => q[1].n < q[i].n
  BY <1>1, <1>4 DEF KeysIn
<1>6. q[1].n = Len(t) + 1
  <2>1. Len(t) + 1 \in (Len(t) + 1)..Len(y)
    BY <1>2, <1>4
  <2>2. PICK i \in 1..Len(q) : q[i].kind = "Key" /\ q[i].n = Len(t) + 1
    BY <2>1 DEF KeysIn
  <2> QED
    BY <1>2, <1>4, <1>5, <2>2
<1>7. \A i \in 1..Len(u) : u[i] = y[i]
  <2>1. \A i \in 1..Len(u) : i \in 1..Len(t) \/ i = Len(t) + 1
    BY <1>2, <1>3
  <2>2. b = y[Len(t) + 1]
    BY <1>1, <1>4, <1>6
  <2> QED
    BY <1>3, <2>1, <2>2 DEF KeysIn
<1>8. ASSUME NEW i \in 1..Len(s), s[i].kind = "Key"
      PROVE  s[i].n \in (Len(u) + 1)..Len(y) /\ s[i].byte = y[s[i].n]
  <2>1. /\ i + 1 \in 1..Len(q) /\ i + 1 # 1 /\ s[i] = q[i + 1]
    BY <1>1
  <2>2. /\ s[i].n \in (Len(t) + 1)..Len(y) /\ s[i].byte = y[s[i].n]
        /\ Len(t) + 1 < s[i].n
    BY <1>5, <1>6, <1>8, <2>1 DEF KeysIn
  <2> QED
    BY <1>2, <1>3, <2>2
<1>9. ASSUME NEW n \in (Len(u) + 1)..Len(y)
      PROVE  \E i \in 1..Len(s) : s[i].kind = "Key" /\ s[i].n = n
  <2>1. n \in (Len(t) + 1)..Len(y) /\ n # Len(t) + 1
    BY <1>2, <1>3
  <2>2. PICK i \in 1..Len(q) : q[i].kind = "Key" /\ q[i].n = n
    BY <2>1 DEF KeysIn
  <2>3. i # 1
    BY <1>6, <2>1, <2>2
  <2> QED
    BY <1>1, <2>2, <2>3
<1>10. ASSUME NEW i \in 1..Len(s), NEW j \in 1..Len(s), s[i].kind = "Key", s[j].kind = "Key", i < j
      PROVE  s[i].n < s[j].n
  <2>1. /\ i + 1 \in 1..Len(q) /\ s[i] = q[i + 1]
        /\ j + 1 \in 1..Len(q) /\ s[j] = q[j + 1]
    BY <1>1
  <2>2. i + 1 < j + 1
    BY <1>10
  <2> QED
    BY <1>10, <2>1, <2>2 DEF KeysIn
<1>11. KeysIn(s, u, y)
  <2>1. Len(u) <= Len(y)
    BY <1>2, <1>3, <1>4
  <2> QED
    BY <1>3, <1>7, <1>8, <1>9, <1>10, <2>1 DEF KeysIn
<1> QED
  BY <1>11 DEF s, u

(* A key typed goes behind all others.                                     *)
LEMMA KeyAdded ==
    ASSUME NEW q \in Seq(Events), NEW e \in Events, e.kind = "Key",
           NEW t, NEW y \in Seq(0..254), KeysIn(q, t, y), e.n = Len(y) + 1
    PROVE  KeysIn(Append(q, e), t, Append(y, e.byte))
<1> DEFINE s == Append(q, e)
           z == Append(y, e.byte)
<1>1. /\ Len(s) = Len(q) + 1 /\ s[Len(q) + 1] = e
      /\ Len(q) \in Nat /\ Len(q) + 1 \in 1..(Len(q) + 1)
      /\ \A i \in 1..Len(q) : i \in 1..(Len(q) + 1) /\ s[i] = q[i]
      /\ \A i \in 1..(Len(q) + 1) : i \in 1..Len(q) \/ i = Len(q) + 1
  BY AppendIndices
<1>2. /\ Len(z) = Len(y) + 1 /\ z[Len(y) + 1] = e.byte /\ Len(y) \in Nat
      /\ \A i \in 1..Len(y) : z[i] = y[i]
  BY EventTypes, AppendProperties
<1> HIDE DEF s, z
<1>3. Len(t) \in Nat /\ Len(t) <= Len(y)
  BY DEF KeysIn
<1>4. \A i \in 1..Len(q) : q[i].kind = "Key" => q[i].n \in (Len(t) + 1)..Len(y)
  BY DEF KeysIn
<1>5. ASSUME NEW i \in 1..Len(s), s[i].kind = "Key"
      PROVE  s[i].n \in (Len(t) + 1)..Len(z) /\ s[i].byte = z[s[i].n]
  <2>1. CASE i \in 1..Len(q)
    <3>1. s[i] = q[i] /\ q[i].n \in (Len(t) + 1)..Len(y) /\ q[i].byte = y[q[i].n]
      BY <1>1, <1>5, <2>1 DEF KeysIn
    <3> QED
      BY <1>2, <1>3, <3>1
  <2>2. CASE i = Len(q) + 1
    BY <1>1, <1>2, <1>3, <2>2
  <2> QED
    BY <1>1, <2>1, <2>2
<1>6. ASSUME NEW i \in 1..Len(s), NEW j \in 1..Len(s), s[i].kind = "Key", s[j].kind = "Key", i < j
      PROVE  s[i].n < s[j].n
  <2>1. i \in 1..Len(q) /\ s[i] = q[i]
    BY <1>1, <1>6
  <2>2. CASE j \in 1..Len(q)
    BY <1>1, <1>6, <2>1, <2>2 DEF KeysIn
  <2>3. CASE j = Len(q) + 1
    BY <1>1, <1>2, <1>3, <1>4, <1>6, <2>1, <2>3
  <2> QED
    BY <1>1, <2>2, <2>3
<1>7. ASSUME NEW n \in (Len(t) + 1)..Len(z)
      PROVE  \E i \in 1..Len(s) : s[i].kind = "Key" /\ s[i].n = n
  <2>1. CASE n = Len(y) + 1
    BY <1>1, <2>1
  <2>2. CASE n # Len(y) + 1
    <3>1. n \in (Len(t) + 1)..Len(y)
      BY <1>2, <1>3, <2>2
    <3>2. PICK i \in 1..Len(q) : q[i].kind = "Key" /\ q[i].n = n
      BY <3>1 DEF KeysIn
    <3> QED
      BY <1>1, <3>2
  <2> QED
    BY <2>1, <2>2
<1>8. \A i \in 1..Len(t) : t[i] = z[i]
  <2>1. \A i \in 1..Len(t) : i \in 1..Len(y)
    BY <1>2, <1>3
  <2> QED
    BY <1>2, <2>1 DEF KeysIn
<1>9. KeysIn(s, t, z)
  <2>1. t \in Seq(0..254) /\ Len(t) <= Len(z)
    BY <1>2, <1>3 DEF KeysIn
  <2> QED
    BY <1>5, <1>6, <1>7, <1>8, <2>1 DEF KeysIn
<1> QED
  BY <1>9 DEF s, z

(* The movement at the head becomes what is left of it.                    *)
LEMMA MotionTaken ==
    ASSUME NEW q \in Seq(Events), q # <<>>, Head(q).kind = "Delta",
           NEW dn, NEW mn, Placed(q, dn, mn),
           NEW d, NEW r, NEW m, d.h \in Int, d.v \in Int, r.h \in Int, r.v \in Int,
           MotionIn(q, d, r, m),
           NEW e, e.h = d.h + Head(q).h, e.v = d.v + Head(q).v
    PROVE  MotionIn(Tail(q), e, r, m)
<1>1. Head(q) = q[1] /\ 1 \in 1..Len(q) /\ q[1] \in Events /\ q[1].kind = "Delta"
  BY TailIndices
<1>2. q[1].h \in Int /\ q[1].v \in Int
  BY <1>1, EventTypes DEF Deltas
<1>3. m.h = r.h + d.h + q[1].h /\ m.v = r.v + d.v + q[1].v
  BY <1>1 DEF MotionIn
<1>4. m.h = r.h + e.h /\ m.v = r.v + e.v
  BY <1>1, <1>2, <1>3
<1>5. ASSUME NEW i \in 1..Len(Tail(q)) PROVE Tail(q)[i].kind # "Delta"
  <2>1. i + 1 \in 1..Len(q) /\ Tail(q)[i] = q[i + 1] /\ i + 1 # 1
    BY TailIndices
  <2> QED
    BY <1>1, <2>1 DEF Placed
<1> QED
  BY <1>4, <1>5 DEF MotionIn

(* What is said of it is no longer left.                                   *)
LEMMA MotionSaid ==
    ASSUME NEW q \in Seq(Events), NEW d, NEW r, NEW m, MotionIn(q, d, r, m),
           d.h \in Int, d.v \in Int, r.h \in Int, r.v \in Int,
           NEW h \in Int, NEW v \in Int, NEW e, NEW s,
           e.h = d.h - h, e.v = d.v - v, s.h = r.h + h, s.v = r.v + v
    PROVE  MotionIn(q, e, s, m)
<1>1. s.h + e.h = r.h + d.h /\ s.v + e.v = r.v + d.v
  OBVIOUS
<1> QED
  BY <1>1 DEF MotionIn

(* Movement merged with the one that is queued.                            *)
LEMMA KeysMerged ==
    ASSUME NEW q \in Seq(Events), NEW k \in 1..Len(q), q[k].kind = "Delta",
           NEW e \in Events, e.kind = "Delta", NEW t, NEW y, KeysIn(q, t, y)
    PROVE  KeysIn([q EXCEPT ![k] = e], t, y)
<1> DEFINE s == [q EXCEPT ![k] = e]
<1>1. s \in Seq(Events) /\ Len(s) = Len(q) /\ \A i \in 1..Len(q) : s[i] = IF i = k THEN e ELSE q[i]
  OBVIOUS
<1> HIDE DEF s
<1>2. \A i \in 1..Len(q) : (s[i].kind = "Key") <=> (q[i].kind = "Key")
  BY <1>1
<1>3. \A i \in 1..Len(q) : s[i].kind = "Key" => s[i] = q[i]
  BY <1>1
<1>4. ASSUME NEW n \in (Len(t) + 1)..Len(y)
      PROVE  \E i \in 1..Len(s) : s[i].kind = "Key" /\ s[i].n = n
  <2>1. PICK i \in 1..Len(q) : q[i].kind = "Key" /\ q[i].n = n
    BY DEF KeysIn
  <2> QED
    BY <1>1, <1>2, <1>3, <2>1
<1>5. \A i, j \in 1..Len(s) : s[i].kind = "Key" /\ s[j].kind = "Key" /\ i < j => s[i].n < s[j].n
  BY <1>1, <1>2, <1>3 DEF KeysIn
<1>6. KeysIn(s, t, y)
  BY <1>1, <1>2, <1>3, <1>4, <1>5 DEF KeysIn
<1> QED
  BY <1>6 DEF s

LEMMA SumMoves ==
    ASSUME NEW x \in Int, NEW y \in Int, NEW a \in Int, NEW b \in Int
    PROVE  (x + y + a) + b = x + y + (a + b)
OBVIOUS

LEMMA MotionMerged ==
    ASSUME NEW q \in Seq(Events), NEW k \in 1..Len(q), q[k].kind = "Delta",
           NEW dn, NEW mn, Placed(q, dn, mn),
           NEW e \in Events, e.kind = "Delta", NEW d, NEW r, NEW m, NEW w, MotionIn(q, d, r, m),
           NEW h \in Int, NEW v \in Int, d.h \in Int, d.v \in Int, r.h \in Int, r.v \in Int,
           e.h = q[k].h + h, e.v = q[k].v + v, w.h = m.h + h, w.v = m.v + v
    PROVE  MotionIn([q EXCEPT ![k] = e], d, r, w)
<1> DEFINE s == [q EXCEPT ![k] = e]
<1>1. s \in Seq(Events) /\ Len(s) = Len(q) /\ \A i \in 1..Len(q) : s[i] = IF i = k THEN e ELSE q[i]
  OBVIOUS
<1> HIDE DEF s
<1>2. \A i \in 1..Len(s) : s[i].kind = "Delta" => i = k /\ s[i] = e
  BY <1>1 DEF Placed
<1>3. q[k].h \in Int /\ q[k].v \in Int
  <2>1. q[k] \in Events
    OBVIOUS
  <2> QED
    BY <2>1, EventTypes DEF Deltas
<1>4. m.h = r.h + d.h + q[k].h /\ m.v = r.v + d.v + q[k].v
  BY DEF MotionIn
<1>5. w.h = r.h + d.h + e.h /\ w.v = r.v + d.v + e.v
  <2>1. w.h = (r.h + d.h + q[k].h) + h /\ w.v = (r.v + d.v + q[k].v) + v
    BY <1>4
  <2>2. e.h = q[k].h + h /\ e.v = q[k].v + v
    OBVIOUS
  <2>3. (r.h + d.h + q[k].h) + h = r.h + d.h + (q[k].h + h)
    BY <1>3, SumMoves
  <2>4. (r.v + d.v + q[k].v) + v = r.v + d.v + (q[k].v + v)
    BY <1>3, SumMoves
  <2> QED
    BY <2>1, <2>2, <2>3, <2>4, Zenon
<1>6. k \in 1..Len(s) /\ s[k].kind = "Delta"
  BY <1>1
<1>7. MotionIn(s, d, r, w)
  BY <1>2, <1>5, <1>6 DEF MotionIn
<1> QED
  BY <1>7 DEF s

LEMMA MotionAppended ==
    ASSUME NEW q \in Seq(Events), \A i \in 1..Len(q) : q[i].kind # "Delta",
           NEW e \in Events, e.kind = "Delta", NEW d, NEW r, NEW m, NEW w, MotionIn(q, d, r, m),
           w.h = m.h + e.h, w.v = m.v + e.v
    PROVE  MotionIn(Append(q, e), d, r, w)
<1> DEFINE s == Append(q, e)
<1>1. /\ Len(s) = Len(q) + 1 /\ s[Len(q) + 1] = e /\ Len(q) + 1 \in 1..(Len(q) + 1)
      /\ \A i \in 1..Len(q) : i \in 1..(Len(q) + 1) /\ s[i] = q[i]
      /\ \A i \in 1..(Len(q) + 1) : i \in 1..Len(q) \/ i = Len(q) + 1
  BY AppendIndices
<1> HIDE DEF s
<1>2. \A i \in 1..Len(s) : s[i].kind = "Delta" => s[i] = e
  BY <1>1
<1>3. m.h = r.h + d.h /\ m.v = r.v + d.v
  BY DEF MotionIn
<1>4. ~ \A i \in 1..Len(s) : s[i].kind # "Delta"
  BY <1>1
<1>5. MotionIn(s, d, r, w)
  BY <1>2, <1>3, <1>4 DEF MotionIn
<1> QED
  BY <1>5 DEF s

(* Movement of the host, wherever it goes in the queue.                    *)
LEMMA MotionPushed ==
    ASSUME NEW q \in Seq(Events), NEW dn, NEW mn \in Nat, Placed(q, dn, mn),
           NEW p \in Moves, NEW n \in Nat, NEW d, NEW r, NEW m, NEW t, NEW y,
           d.h \in Int, d.v \in Int, r.h \in Int, r.v \in Int,
           NEW w, w.h = m.h + p[1], w.v = m.v + p[2],
           MotionIn(q, d, r, m), KeysIn(q, t, y)
    PROVE  LET s == EventQ_PushMouseDelta(q, p, n) IN MotionIn(s, d, r, w) /\ KeysIn(s, t, y)
<1> DEFINE deltas == {i \in DOMAIN q : q[i].kind = "Delta"}
<1>1. p[1] \in Int /\ p[2] \in Int
  BY DEF ADBAssumption
<1>2. DOMAIN q = 1..Len(q) /\ Len(q) \in Nat
  OBVIOUS
<1>3. CASE deltas = {}
  <2> DEFINE e == [kind |-> "Delta", h |-> p[1], v |-> p[2], n |-> n]
  <2>1. EventQ_PushMouseDelta(q, p, n) = Append(q, e)
    BY <1>3 DEF EventQ_PushMouseDelta
  <2>2. e \in Events /\ e.kind = "Delta" /\ e.h = p[1] /\ e.v = p[2]
    BY <1>1 DEF Events, Deltas
  <2>3. \A i \in 1..Len(q) : q[i].kind # "Delta"
    BY <1>2, <1>3
  <2> HIDE DEF e
  <2>4. w.h = m.h + e.h /\ w.v = m.v + e.v /\ e.kind # "Key"
    BY <2>2
  <2>5. MotionIn(Append(q, e), d, r, w)
    BY <2>2, <2>3, <2>4, MotionAppended
  <2>6. KeysIn(Append(q, e), t, y)
    BY <2>2, <2>4, KeysBefore
  <2> QED
    BY <2>1, <2>5, <2>6
<1>4. CASE deltas # {}
  <2>1. PICK k \in deltas : TRUE
    BY <1>4
  <2>2. \A i \in deltas : i = k
    BY <1>2, <2>1 DEF Placed
  <2>3. (CHOOSE i \in deltas : \A j \in deltas : j <= i) = k
    BY <1>2, <2>1, <2>2
  <2>4. q[k] \in Deltas /\ k \in 1..Len(q) /\ q[k].kind = "Delta"
    BY <1>2, <2>1, EventTypes
  <2> DEFINE e == [kind |-> "Delta", h |-> q[k].h + p[1], v |-> q[k].v + p[2], n |-> n]
  <2>5. EventQ_PushMouseDelta(q, p, n) = [q EXCEPT ![k] = e]
    BY <1>4, <2>3 DEF EventQ_PushMouseDelta
  <2>6. e \in Events /\ e.kind = "Delta" /\ e.h = q[k].h + p[1] /\ e.v = q[k].v + p[2]
    BY <1>1, <2>4, SMTT(30) DEF Events, Deltas
  <2> HIDE DEF e
  <2>7. MotionIn([q EXCEPT ![k] = e], d, r, w)
    BY <1>1, <2>4, <2>6, MotionMerged
  <2>8. KeysIn([q EXCEPT ![k] = e], t, y)
    BY <2>4, <2>6, KeysMerged
  <2> QED
    BY <2>5, <2>7, <2>8
<1> QED
  BY <1>3, <1>4

(* The guest reads the seven bits that the device writes.                  *)
LEMMA Decoded ==
    ASSUME NEW d \in Int, NEW c \in {0, 128}
    PROVE  Clipped(d) \in Int /\ Signed7(c + (Clipped(d) % 128)) = Clipped(d)
<1> DEFINE h == Clipped(d)
<1>1. h \in -63..63
  BY DEF Clipped
<1> HIDE DEF h
<1>2. CASE h >= 0
  <2>1. h % 128 = h /\ (c + h) % 128 = h
    BY <1>1, <1>2
  <2> QED
    BY <1>1, <2>1 DEF Signed7, h
<1>3. CASE h < 0
  <2>1. h % 128 = h + 128 /\ (c + (h + 128)) % 128 = h + 128 /\ h + 128 > 63
    BY <1>1, <1>3
  <2> QED
    BY <1>1, <2>1 DEF Signed7, h
<1> QED
  BY <1>1, <1>2, <1>3

(* The mouse says what it takes off the delta, as the guest reads it.      *)
LEMMA MouseTalkAccounts ==
    ASSUME Devices, UNCHANGED <<moved, typed>>,
           NEW q \in Seq(Events), Placed(q, delta.n, moved.n),
           MotionIn(q, delta, reported, moved), KeysIn(q, told, typed), MouseTalk(q)
    PROVE  Account'
<1> DEFINE takes == IsNext(q, "Delta")
           d == IF takes
                THEN [h |-> delta.h + Head(q).h, v |-> delta.v + Head(q).v, n |-> Head(q).n]
                ELSE delta
           rest == IF takes THEN Tail(q) ELSE q
           h == Clipped(d.h)
           v == Clipped(d.v)
           overflow == h # d.h \/ v # d.v
           presses == Presses(rest, overflow)
           down == IF presses THEN Head(rest).down ELSE button
           first == (IF down THEN 0 ELSE 128) + (v % 128)
           second == 128 + (h % 128)
<1>1. delta.h \in Int /\ delta.v \in Int /\ reported.h \in Int /\ reported.v \in Int
  BY DEF Devices
<1>2. /\ d.h \in Int /\ d.v \in Int /\ rest \in Seq(Events)
      /\ MotionIn(rest, d, reported, moved) /\ KeysIn(rest, told, typed)
  <2>1. CASE takes
    <3>1. q # <<>> /\ Head(q).kind = "Delta" /\ Head(q) \in Events /\ Tail(q) \in Seq(Events)
      BY <2>1, TailIndices DEF IsNext
    <3>2. Head(q).h \in Int /\ Head(q).v \in Int
      BY <3>1, EventTypes DEF Deltas
    <3>3. /\ d = [h |-> delta.h + Head(q).h, v |-> delta.v + Head(q).v, n |-> Head(q).n]
          /\ rest = Tail(q)
      BY <2>1
    <3> HIDE DEF d, rest
    <3>4. d.h = delta.h + Head(q).h /\ d.v = delta.v + Head(q).v
      BY <3>3
    <3>5. MotionIn(Tail(q), d, reported, moved)
      BY <1>1, <3>1, <3>4, MotionTaken
    <3>6. KeysIn(Tail(q), told, typed)
      BY <3>1, KeysBehind
    <3> QED
      BY <1>1, <3>1, <3>2, <3>3, <3>4, <3>5, <3>6
  <2>2. CASE ~takes
    BY <1>1, <2>2
  <2> QED
    BY <2>1, <2>2
<1>3. /\ delta' = [h |-> d.h - h, v |-> d.v - v, n |-> d.n]
      /\ queue' = IF presses THEN Tail(rest) ELSE rest
      /\ \/ reported' = [h |-> reported.h + Signed7(second), v |-> reported.v + Signed7(first)]
         \/ h = 0 /\ v = 0 /\ reported' = reported
      /\ told' = told /\ typed' = typed /\ moved' = moved
  BY ZenonT(30) DEF MouseTalk
<1> HIDE DEF d, rest
<1>4. queue' \in Seq(Events) /\ MotionIn(queue', d, reported, moved) /\ KeysIn(queue', told, typed)
  <2>1. CASE presses
    <3>1. rest # <<>> /\ Head(rest).kind = "Button"
      BY <2>1 DEF Presses, IsNext
    <3>2. Head(rest).kind # "Delta" /\ Head(rest).kind # "Key"
      BY <3>1
    <3>3. /\ Tail(rest) \in Seq(Events) /\ MotionIn(Tail(rest), d, reported, moved)
          /\ KeysIn(Tail(rest), told, typed)
      BY <1>2, <3>1, <3>2, MotionBehind, KeysBehind, TailIndices
    <3> QED
      BY <1>3, <2>1, <3>3
  <2>2. CASE ~presses
    BY <1>2, <1>3, <2>2
  <2> QED
    BY <2>1, <2>2
<1>5. h \in Int /\ Signed7(second) = h
  BY <1>2, Decoded
<1>6. v \in Int /\ Signed7(first) = v
  <2> DEFINE c == IF down THEN 0 ELSE 128
  <2>1. c \in {0, 128}
    OBVIOUS
  <2>2. first = c + (Clipped(d.v) % 128)
    OBVIOUS
  <2> HIDE DEF c, first
  <2> QED
    BY <1>2, <2>1, <2>2, Decoded, ZenonT(30)
<1> HIDE DEF h, v, first, second
<1>7. reported'.h = reported.h + h /\ reported'.v = reported.v + v
  BY <1>1, <1>3, <1>5, <1>6
<1>8. delta'.h = d.h - h /\ delta'.v = d.v - v
  BY <1>3
<1>9. MotionIn(queue', delta', reported', moved)
  BY <1>1, <1>2, <1>4, <1>5, <1>6, <1>7, <1>8, MotionSaid
<1> QED
  BY <1>3, <1>4, <1>9 DEF Account

LEMMA KeyByte ==
    ASSUME NEW e \in Events, e.kind = "Key"
    PROVE  e.byte \in 0..254
BY DEF Events, Deltas, Buttons, Keys, Positions

LEMMA Byte255 ==
    ASSUME NEW b \in 0..254
    PROVE  b # 255
OBVIOUS

(* The keyboard tells the keys that it takes.                              *)
LEMMA KeyboardTalkAccounts ==
    ASSUME UNCHANGED <<moved, typed>>, typed \in Seq(0..254),
           NEW q \in Seq(Events),
           MotionIn(q, delta, reported, moved), KeysIn(q, told, typed), KeyboardTalk(q)
    PROVE  Account'
<1>1. delta' = delta /\ reported' = reported /\ moved' = moved /\ typed' = typed
  BY DEF KeyboardTalk
<1>2. CASE ~IsNext(q, "Key")
  <2>1. SubSeq(q, 0 + 1, Len(q)) = q
    BY SubSeqFull
  <2>2. queue' = q /\ told' = told
    BY <1>2, <2>1 DEF KeyboardTalk, KeysTaken
  <2> QED
    BY <1>1, <2>2 DEF Account
<1>3. CASE IsNext(q, "Key")
  <2> DEFINE r == Tail(q)
             t == Append(told, Head(q).byte)
  <2>1. q # <<>> /\ Head(q).kind = "Key" /\ Head(q).kind # "Delta"
    BY <1>3 DEF IsNext
  <2>2. r \in Seq(Events) /\ MotionIn(r, delta, reported, moved)
    BY <2>1, TailIndices, MotionBehind
  <2>3. KeysIn(r, t, typed)
    BY <2>1, KeyTold, LenProperties
  <2>4. CASE ~IsNext(Tail(q), "Key")
    <3>1. SubSeq(q, 1 + 1, Len(q)) = Tail(q)
      BY <2>1, TailIsSubSeq
    <3>2. queue' = r /\ told' = t
      BY <1>3, <2>4, <3>1 DEF KeyboardTalk, KeysTaken
    <3> QED
      BY <1>1, <2>2, <2>3, <3>2 DEF Account
  <2>5. CASE IsNext(Tail(q), "Key")
    <3>1. Tail(q) # <<>> /\ Head(Tail(q)).kind = "Key" /\ Head(Tail(q)).kind # "Delta"
      BY <2>5 DEF IsNext
    <3>2. 2 \in 1..Len(q) /\ Len(q) \in 2..Len(q) /\ q[2] = Head(Tail(q)) /\ q[2] \in Events
      BY <2>1, <3>1
    <3>3. SubSeq(q, 2 + 1, Len(q)) = Tail(Tail(q))
      <4>1. SubSeq(q, 1 + 1, Len(q)) = Tail(q)
        BY <2>1, TailIsSubSeq
      <4> QED
        BY <4>1, <3>2, HeadTailOfSubSeq
    <3>4. q[2].byte # 255
      <4>1. PICK e \in Events : e = q[2]
        BY <3>2
      <4>2. e.kind = "Key" /\ q[2].byte = e.byte
        BY <3>1, <3>2, <4>1
      <4>3. e.byte \in 0..254
        <5> HIDE DEF r, t
        <5>1. e.kind = "Key"
          BY <4>2
        <5> QED
          BY ONLY <5>1, KeyByte, Zenon
      <4> QED
        BY <4>2, <4>3, Byte255
    <3>5. queue' = Tail(r) /\ told' = Append(t, Head(r).byte)
      BY <1>3, <2>5, <3>2, <3>3, <3>4 DEF KeyboardTalk, KeysTaken
    <3> HIDE DEF r, t
    <3>6. r # <<>> /\ Head(r).kind = "Key" /\ Head(r).kind # "Delta"
      BY <3>1 DEF r
    <3>7. MotionIn(Tail(r), delta, reported, moved)
      BY <2>2, <3>6, MotionBehind
    <3>8. KeysIn(Tail(r), Append(t, Head(r).byte), typed)
      BY <2>2, <2>3, <3>6, KeyTold, LenProperties
    <3> QED
      BY <1>1, <3>5, <3>7, <3>8 DEF Account
  <2> QED
    BY <2>4, <2>5
<1> QED
  BY <1>2, <1>3

LEMMA DoTalkAccounts ==
    ASSUME Devices, UNCHANGED <<moved, typed>>, typed \in Seq(0..254),
           NEW cmd, NEW at, NEW q \in Seq(Events), Placed(q, delta.n, moved.n),
           MotionIn(q, delta, reported, moved), KeysIn(q, told, typed), DoTalk(cmd, at, q)
    PROVE  Account'
<1>1. CASE MouseTalk(q)
  BY <1>1, MouseTalkAccounts
<1>2. CASE KeyboardTalk(q)
  BY <1>2, KeyboardTalkAccounts
<1>3. CASE Register3Talk(q) \/ SilentTalk(q)
  BY <1>3 DEF Register3Talk, SilentTalk, toldVars, Account
<1> QED
  BY <1>1, <1>2, <1>3 DEF DoTalk

LEMMA AnnouncesAccounts ==
    ASSUME IInv, UNCHANGED <<moved, typed>>,
           NEW q \in Seq(Events), Placed(q, delta.n, moved.n),
           MotionIn(q, delta, reported, moved), KeysIn(q, told, typed), Announces(q)
    PROVE  Account'
<1>1. CASE queue' = q /\ UNCHANGED <<delta, toldVars>>
  BY <1>1 DEF toldVars, Account
<1>2. CASE DoTalk(curCmd, address, q)
  BY <1>2, DoTalkAccounts DEF IInv, Transceiver
<1> QED
  BY <1>1, <1>2 DEF Announces, SilentTalk

LEMMA HostAccounts ==
    ASSUME IInv, Account, Host
    PROVE  Account'
<1>1. /\ queue \in Seq(Events) /\ Placed(queue, delta.n, moved.n)
      /\ MotionIn(queue, delta, reported, moved) /\ KeysIn(queue, told, typed)
      /\ typed \in Seq(0..254) /\ moved.n \in Nat
      /\ delta.h \in Int /\ delta.v \in Int /\ reported.h \in Int /\ reported.v \in Int
  BY DEF IInv, Devices, Transceiver, Account
<1>2. delta' = delta /\ reported' = reported /\ told' = told
  BY DEF Host, MousePositionSetDelta, MouseButtonSet, Keyboard_UpdateKeyMap, MousePositionSet,
         Pushed, toldVars
<1>3. ASSUME NEW p \in Moves, MousePositionSetDelta(p)
      PROVE  Account'
  <2>1. /\ queue' = EventQ_PushMouseDelta(queue, p, moved.n + 1) /\ typed' = typed
        /\ moved'.h = moved.h + p[1] /\ moved'.v = moved.v + p[2] /\ moved.n + 1 \in Nat
    BY <1>1, <1>3 DEF MousePositionSetDelta
  <2>2. MotionIn(queue', delta, reported, moved') /\ KeysIn(queue', told, typed)
    BY <1>1, <2>1, MotionPushed
  <2> QED
    BY <1>2, <2>1, <2>2 DEF Account
<1>4. ASSUME NEW e \in Events, e.kind \in {"Button", "Pos"}, queue' = Append(queue, e),
             UNCHANGED <<moved, typed>>
      PROVE  Account'
  <2>1. e.kind # "Delta" /\ e.kind # "Key"
    BY <1>4
  <2>2. MotionIn(queue', delta, reported, moved) /\ KeysIn(queue', told, typed)
    BY <1>1, <1>4, <2>1, MotionBefore, KeysBefore
  <2> QED
    BY <1>2, <1>4, <2>2 DEF Account
<1>5. CASE MouseButtonSet
  <2> DEFINE e == [kind |-> "Button", down |-> hostButton', before |-> moved.n]
  <2>1. e \in Events /\ e.kind \in {"Button", "Pos"}
    BY <1>1, <1>5 DEF MouseButtonSet, Events, Buttons, IInv, Transceiver
  <2>2. queue' = Append(queue, e) /\ UNCHANGED <<moved, typed>>
    BY <1>5 DEF MouseButtonSet
  <2> HIDE DEF e
  <2> QED
    BY <1>4, <2>1, <2>2
<1>6. CASE MousePositionSet
  <2> DEFINE e == [kind |-> "Pos"]
  <2>1. e \in Events /\ e.kind \in {"Button", "Pos"}
    BY DEF Events, Positions
  <2>2. queue' = Append(queue, e) /\ UNCHANGED <<moved, typed>>
    BY <1>6 DEF MousePositionSet
  <2> HIDE DEF e
  <2> QED
    BY <1>4, <2>1, <2>2
<1>7. ASSUME NEW k \in KeyCodes, Keyboard_UpdateKeyMap(k)
      PROVE  Account'
  <2> DEFINE b == Byte(k, k \notin hostKeys)
             e == [kind |-> "Key", byte |-> b, n |-> Len(typed')]
  <2>1. b \in 0..254
    <3>1. k \in 0..126
      BY DEF ADBAssumption
    <3> QED
      BY <3>1 DEF Byte
  <2>2. queue' = Append(queue, e) /\ typed' = Append(typed, b) /\ moved' = moved
    BY <1>7 DEF Keyboard_UpdateKeyMap
  <2> HIDE DEF b
  <2>3. Len(typed') = Len(typed) + 1 /\ Len(typed) \in Nat
    BY <1>1, <2>1, <2>2
  <2>4. e \in Events /\ e.kind = "Key" /\ e.byte = b /\ e.n = Len(typed) + 1
    BY <2>1, <2>3 DEF Events, Keys
  <2> HIDE DEF e
  <2>5. KeysIn(queue', told, typed')
    BY <1>1, <2>2, <2>4, KeyAdded
  <2>6. MotionIn(queue', delta, reported, moved)
    <3>1. e.kind # "Delta"
      BY <2>4
    <3> QED
      BY <1>1, <2>2, <2>4, <3>1, MotionBefore
  <2> QED
    BY <1>2, <2>2, <2>5, <2>6 DEF Account
<1> QED
  BY <1>3, <1>5, <1>6, <1>7 DEF Host

LEMMA NextAccounts == IInv /\ Account /\ [Next]_vars => Account'
<1> SUFFICES ASSUME IInv, Account, [Next]_vars PROVE Account'
  OBVIOUS
<1>1. /\ Devices /\ queue \in Seq(Events) /\ Placed(queue, delta.n, moved.n)
      /\ typed \in Seq(0..254)
      /\ MotionIn(queue, delta, reported, moved) /\ KeysIn(queue, told, typed)
  BY DEF IInv, Devices, Transceiver, Account
<1>2. CASE Host
  BY <1>2, HostAccounts
<1>3. ASSUME UNCHANGED <<queue, delta, reported, moved, told, typed>> PROVE Account'
  BY <1>3 DEF Account
<1>4. CASE Guest
  BY <1>3, <1>4
    DEF Guest, SetState, SetShiftMode, ClearSR, GuestActs, deviceVars, toldVars, hostVars
<1>5. ASSUME NEW byte \in Commands, StartCommand(byte) PROVE Account'
  <2>1. UNCHANGED <<moved, typed>>
    BY <1>5 DEF StartCommand, NewState, hostVars
  <2>2. CASE Untold
    BY <1>3, <2>1, <2>2 DEF Untold, deviceVars, toldVars
  <2>3. CASE DoTalk(ShiftedOut(byte), EndListen, queue)
    BY <1>1, <2>1, <2>3, DoTalkAccounts
  <2> QED
    BY <1>5, <2>2, <2>3 DEF StartCommand
<1>6. ASSUME TalkByte \/ \E byte \in ListenBytes : ListenByte(byte) PROVE Account'
  BY <1>3, <1>6 DEF TalkByte, ListenByte, NewState, hostVars, deviceVars, toldVars
<1>7. CASE Idle
  <2>1. UNCHANGED <<moved, typed>>
    BY <1>7 DEF Idle, NewState, hostVars
  <2>2. CASE talking
    BY <1>3, <1>7, <2>1, <2>2 DEF Idle, deviceVars, toldVars
  <2>3. CASE ~talking
    <3>1. Announces(queue)
      BY <1>7, <2>3 DEF Idle
    <3> QED
      BY <1>1, <2>1, <3>1, AnnouncesAccounts
  <2> QED
    BY <2>2, <2>3
<1>8. CASE Tick
  <2> DEFINE q == AfterMouse(queue)
  <2>1. UNCHANGED <<moved, typed>>
    BY <1>8 DEF Tick, hostVars
  <2>2. /\ q \in Seq(Events) /\ Placed(q, delta.n, moved.n)
        /\ MotionIn(q, delta, reported, moved) /\ KeysIn(q, told, typed)
    <3>1. CASE mouseEnabled /\ IsNext(queue, "Pos")
      <4>1. q = Tail(queue) /\ queue # <<>> /\ Head(queue).kind = "Pos"
        BY <3>1 DEF AfterMouse, IsNext
      <4>2. Head(queue).kind # "Delta" /\ Head(queue).kind # "Key"
        BY <4>1
      <4> QED
        BY <1>1, <4>1, <4>2, TailPlaced, MotionBehind, KeysBehind
    <3>2. CASE ~(mouseEnabled /\ IsNext(queue, "Pos"))
      BY <1>1, <3>2 DEF AfterMouse
    <3> QED
      BY <3>1, <3>2
  <2> HIDE DEF q
  <2>3. CASE state = 3
    <3>1. Announces(q)
      BY <1>8, <2>3 DEF Tick, q
    <3> QED
      BY <2>1, <2>2, <3>1, AnnouncesAccounts
  <2>4. CASE state # 3
    <3>1. queue' = q /\ UNCHANGED <<delta, toldVars>>
      BY <1>8, <2>4 DEF Tick, q
    <3> QED
      BY <2>1, <2>2, <3>1 DEF toldVars, Account
  <2> QED
    BY <2>3, <2>4
<1>9. CASE UNCHANGED vars
  BY <1>3, <1>9 DEF vars, hostVars, toldVars
<1> QED
  BY <1>2, <1>4, <1>5, <1>6, <1>7, <1>8, <1>9 DEF Next, doNewState

---------------------------------------------------------------------------
(* The theorems.                                                           *)

LEMMA InitIInv == Init => IInv
<1> SUFFICES ASSUME Init PROVE IInv
  OBVIOUS
<1>1. Transceiver
  <2>1. 0 \in Bytes /\ 0 \in 0..15 /\ 0 \in 0..MaxSzDatBuf
    BY DEF Bytes, ADBAssumption
  <2>2. buf \in [1..MaxSzDatBuf -> Bytes]
    BY <2>1 DEF Init
  <2>3. address \in [mouse : 0..15, keyboard : 0..15]
    BY <2>1 DEF Init
  <2> QED
    <3>1. /\ state = 3 /\ shiftMode = ShiftIn /\ curCmd = 0 /\ index = 0
          /\ armed = FALSE /\ listening = FALSE /\ talking = FALSE
          /\ srFlag = FALSE /\ hostButton = FALSE /\ typed \in Seq(0..254)
      BY DEF Init
    <3> QED
      <4>1. state \in 0..3 /\ shiftMode \in 0..7 /\ curCmd \in Bytes
            /\ index \in 0..MaxSzDatBuf
        BY <2>1, <3>1 DEF ShiftIn
      <4>2. /\ armed \in BOOLEAN /\ listening \in BOOLEAN /\ talking \in BOOLEAN
            /\ srFlag \in BOOLEAN /\ hostButton \in BOOLEAN /\ typed \in Seq(0..254)
            /\ (talking => ~listening)
        BY <3>1, Zenon
      <4> QED
        BY <2>2, <2>3, <4>1, <4>2, Zenon DEF Transceiver
<1>2. Reading
  BY DEF Init, Reading
<1>3. Placed(queue, delta.n, moved.n)
  BY DEF Init, Placed
<1>4. Devices
  <2>1. delta \in [h : Int, v : Int, n : Nat] /\ moved \in [h : Int, v : Int, n : Nat]
    BY DEF Init
  <2>2. reported \in [h : Int, v : Int] /\ press \in [before : Nat, upTo : Nat] /\ upTo \in Nat
    BY DEF Init
  <2>3. queue \in Seq(Events)
    BY DEF Init
  <2> QED
    <3>1. mouseEnabled = FALSE /\ button = FALSE
      BY DEF Init
    <3>2. PressInPlace
      BY DEF Init, PressInPlace
    <3> QED
      BY <1>3, <2>1, <2>2, <2>3, <3>1, <3>2 DEF Devices
<1> QED
  BY <1>1, <1>2, <1>4 DEF IInv

LEMMA NextIInv == IInv /\ [Next]_vars => IInv'
<1> SUFFICES ASSUME IInv, [Next]_vars PROVE IInv'
  OBVIOUS
<1>1. CASE Host
  BY <1>1, HostStep
<1>2. CASE Guest
  BY <1>2, GuestStep
<1>3. CASE doNewState
  BY <1>3, StartCommandStep, TalkByteStep, ListenByteStep, IdleStep DEF doNewState
<1>4. CASE Tick
  BY <1>4, TickStep
<1>5. CASE UNCHANGED vars
  BY <1>5 DEF vars, hostVars, toldVars, IInv, Transceiver, Reading, Devices, PressInPlace
<1> QED
  BY <1>1, <1>2, <1>3, <1>4, <1>5 DEF Next

(* The strengthened invariant, for every host, guest and command.          *)
THEOREM Invariance == Spec => []IInv
BY InitIInv, NextIInv, PTL DEF Spec

(* The device keeps to its types, and its index to the buffer.             *)
THEOREM TypeCorrect == Spec => []TypeOK
<1>1. IInv => TypeOK
  <2> SUFFICES ASSUME IInv PROVE TypeOK
    OBVIOUS
  <2>1. talking => ~listening /\ index <= 2 /\ Len(answer) = 2
    BY DEF IInv, Transceiver, Reading
  <2> QED
    BY <2>1 DEF IInv, Transceiver, Devices, TypeOK
<1> QED
  BY Invariance, <1>1, PTL

(* An answer reaches the guest from its first byte on, and no other is put *)
(* in its place while it is read: doNewState against every tick and every  *)
(* change of the lines.                                                    *)
THEOREM AnswersAreWhole == Spec => []AnswerWhole
<1>1. IInv => AnswerWhole
  <2> SUFFICES ASSUME IInv, talking
               PROVE  index = Len(given) /\ given = SubSeq(answer, 1, index)
    BY DEF AnswerWhole
  <2>1. /\ buf[1] \in Bytes /\ buf[2] \in Bytes /\ answer = <<buf[1], buf[2]>>
        /\ \/ index = 0 /\ given = <<>>
           \/ index = 1 /\ given = <<buf[1]>>
           \/ index = 2 /\ given = <<buf[1], buf[2]>>
    BY DEF IInv, Transceiver, Reading, ADBAssumption
  <2>2. answer \in Seq(Bytes) /\ Len(answer) = 2 /\ answer[1] = buf[1]
    BY <2>1
  <2>3. CASE index = 0
    BY <2>1, <2>3, SubSeqEmpty
  <2>4. CASE index = 1
    <3> DEFINE s == SubSeq(answer, 1, 1)
               t == <<buf[1]>>
    <3>1. s \in Seq(Bytes) /\ Len(s) = 1 /\ s[1] = buf[1]
      BY <2>2
    <3>2. t \in Seq(Bytes) /\ Len(t) = 1 /\ t[1] = buf[1]
      BY <2>1
    <3> HIDE DEF s, t
    <3>3. \A i \in 1..Len(s) : s[i] = t[i]
      BY <3>1, <3>2
    <3>4. s = t
      BY <3>1, <3>2, <3>3, SeqEqual
    <3> QED
      BY <2>1, <2>4, <3>2, <3>4 DEF s, t
  <2>5. CASE index = 2
    <3>1. SubSeq(answer, 1, 2) = answer
      BY <2>2, SubSeqFull
    <3> QED
      BY <2>1, <2>5, <3>1
  <2> QED
    BY <2>1, <2>3, <2>4, <2>5
<1> QED
  BY Invariance, <1>1, PTL

(* ADB_DoMouseTalk answers a button only when the movement before it is    *)
(* answered whole, however far and however often the mouse moves.          *)
THEOREM PressesInPlace == Spec => []PressInPlace
BY Invariance, PTL DEF IInv, Devices
(* No movement and no key of the host is lost, made up or told twice, nor  *)
(* are keys put in another order: EventQ_PushMouseDelta, FindMouseDelta    *)
(* and the talks of both devices, whoever asks for them.                   *)
THEOREM InputsKept == Spec => []InputKept
<1>1. Init => Account
  <2> SUFFICES ASSUME Init PROVE Account
    OBVIOUS
  <2>1. /\ queue = <<>> /\ told = <<>> /\ typed = <<>>
        /\ delta.h = 0 /\ delta.v = 0 /\ moved.h = 0 /\ moved.v = 0
        /\ reported.h = 0 /\ reported.v = 0
    BY DEF Init
  <2>2. MotionIn(queue, delta, reported, moved)
    BY <2>1 DEF MotionIn
  <2>3. KeysIn(queue, told, typed)
    BY <2>1 DEF KeysIn
  <2> QED
    BY <2>2, <2>3 DEF Account
<1>2. IInv /\ Account => InputKept
  <2> SUFFICES ASSUME IInv, Account PROVE MotionKept /\ KeysKept
    BY DEF InputKept
  <2>1. /\ queue \in Seq(Events) /\ typed \in Seq(0..254) /\ Len(typed) \in Nat
        /\ MotionIn(queue, delta, reported, moved) /\ KeysIn(queue, told, typed)
        /\ DOMAIN queue = 1..Len(queue)
        /\ reported.h \in Int /\ reported.v \in Int /\ delta.h \in Int /\ delta.v \in Int
    BY LenProperties DEF IInv, Devices, Transceiver, Account
  <2>2. MotionKept
    <3> DEFINE deltas == {i \in DOMAIN queue : queue[i].kind = "Delta"}
    <3>1. ASSUME NEW i \in deltas
          PROVE  /\ moved.h = reported.h + delta.h + queue[i].h
                 /\ moved.v = reported.v + delta.v + queue[i].v
      BY <2>1 DEF MotionIn
    <3>2. ASSUME deltas = {}
          PROVE  moved.h = reported.h + delta.h + 0 /\ moved.v = reported.v + delta.v + 0
      <4>1. \A i \in 1..Len(queue) : queue[i].kind # "Delta"
        BY <2>1, <3>2
      <4>2. moved.h = reported.h + delta.h /\ moved.v = reported.v + delta.v
        BY <2>1, <4>1 DEF MotionIn
      <4> QED
        BY <2>1, <4>2
    <3> QED
      BY <3>1, <3>2, Zenon DEF MotionKept
  <2>3. told = SubSeq(typed, 1, Len(told))
    <3> DEFINE s == SubSeq(typed, 1, Len(told))
    <3>1. told \in Seq(0..254) /\ Len(told) \in Nat /\ Len(told) <= Len(typed)
      BY <2>1, LenProperties DEF KeysIn
    <3>2. s \in Seq(0..254) /\ Len(s) = Len(told) /\ \A i \in 1..Len(told) : s[i] = typed[i]
      <4>1. ASSUME NEW i \in 1..Len(told) PROVE typed[i] \in 0..254 /\ 1 + i - 1 = i
        <5>1. i \in 1..Len(typed)
          BY <2>1, <3>1
        <5>2. typed[i] \in 0..254
          BY <2>1, <5>1, ElementOfSeq
        <5> QED
          BY <5>1, <5>2
      <4>2. /\ s \in Seq(0..254)
            /\ Len(s) = IF 1 <= Len(told) THEN Len(told) - 1 + 1 ELSE 0
            /\ \A i \in 1..(Len(told) - 1 + 1) : s[i] = typed[1 + i - 1]
        BY <3>1, <4>1, SubSeqProperties
      <4>3. Len(told) - 1 + 1 = Len(told) /\ (~(1 <= Len(told)) => Len(told) = 0)
        BY <3>1
      <4> HIDE DEF s
      <4> QED
        BY <4>1, <4>2, <4>3
    <3> HIDE DEF s
    <3>3. \A i \in 1..Len(told) : told[i] = s[i]
      BY <2>1, <3>2 DEF KeysIn
    <3>4. told = s
      BY <3>1, <3>2, <3>3, SeqEqual
    <3> QED
      BY <3>4 DEF s
  <2>4. {queue[i].n : i \in {k \in DOMAIN queue : queue[k].kind = "Key"}}
          = (Len(told) + 1)..Len(typed)
    <3> DEFINE keys == {k \in DOMAIN queue : queue[k].kind = "Key"}
    <3>1. ASSUME NEW i \in keys PROVE queue[i].n \in (Len(told) + 1)..Len(typed)
      BY <2>1 DEF KeysIn
    <3>2. ASSUME NEW n \in (Len(told) + 1)..Len(typed) PROVE \E i \in keys : queue[i].n = n
      BY <2>1 DEF KeysIn
    <3> QED
      BY <3>1, <3>2
  <2>5. KeysKept
    <3> DEFINE keys == {k \in DOMAIN queue : queue[k].kind = "Key"}
    <3>1. \A i \in keys : queue[i].byte = typed[queue[i].n]
      BY <2>1 DEF KeysIn
    <3>2. \A i, j \in keys : i < j => queue[i].n < queue[j].n
      BY <2>1 DEF KeysIn
    <3> QED
      BY <2>3, <2>4, <3>1, <3>2, Zenon DEF KeysKept
  <2> QED
    BY <2>2, <2>5
<1>3. Spec => []Account
  BY Invariance, InitIInv, <1>1, NextIInv, NextAccounts, PTL DEF Spec
<1> QED
  BY Invariance, <1>2, <1>3, PTL
=============================================================================
