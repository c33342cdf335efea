-------------------------------- MODULE ADB --------------------------------
(***************************************************************************)
(* The Apple Desktop Bus of the Mac II (devices/adb.cpp, adb_shared.h):    *)
(* the guest moves two state lines, a task answers a while later through   *)
(* the VIA's shift register, and every tick looks for input to announce    *)
(* when the lines are idle.  Mouse and keyboard events come from the       *)
(* host's queue; an answer of two bytes is built from them in one buffer,  *)
(* which a listen command fills as well.                                   *)
(*                                                                         *)
(* The guest does what it likes: any state, any shift mode, any command,   *)
(* with or without waiting for the interrupt.                              *)
(***************************************************************************)
EXTENDS Integers, Sequences

CONSTANTS
    Moves,          \* what the host's mouse may move at once: pairs <<h, v>>
    KeyCodes,       \* codes of keys; none is 127, whose release would be the byte 255
    Commands,       \* command bytes of the guest
    ListenBytes,    \* bytes the guest sends to a listening device
    ShiftModes,     \* shift modes the guest gives the VIA
    MaxSzDatBuf,    \* ADB_MaxSzDatBuf
    MaxEvents       \* bound: events of a behaviour

ASSUME ADBAssumption ==
    /\ Moves \subseteq Int \X Int
    /\ KeyCodes \subseteq 0..126 /\ Commands \subseteq 0..255 /\ ListenBytes \subseteq 0..255
    /\ ShiftModes \subseteq 0..7
    /\ MaxSzDatBuf \in Nat /\ MaxSzDatBuf >= 2
    /\ MaxEvents \in Nat

VARIABLES
    queue,                            \* the due events of s_queue
    state, shiftMode, armed,          \* ADB_st1 and ADB_st0, the ACR's mode, kICT_ADB_NewState
    curCmd, listening, talking,       \* s_adbCurCmd, s_adbListenDatBuf, s_adbTalkDatBuf
    index, buf,                       \* ADB_IndexDatBuf, s_adbDatBuf
    delta, button,                    \* s_mouseADBDeltaH and V, s_savedCurMouseButton
    address,                          \* s_mouseADBAddress, s_keyboardADBAddress
    srFlag,                           \* the VIA's kIntSR
    mouseEnabled,                     \* ~ADBMouseDisabled
    hostButton, hostKeys,             \* g_mouseButtonState, g_theKeys
    moved, typed, count,              \* what the host did: movement, keys, events
    reported, told, upTo,             \* what answers said, and the last event whose
                                      \* movement they said whole
    press,                            \* the last button answered
    answer, given                     \* the last answer, and what was given of it

hostVars == <<hostButton, hostKeys, moved, typed, count>>
guestVars == <<state, shiftMode>>
toldVars == <<reported, told, upTo, press>>
deviceVars == <<queue, delta, button, mouseEnabled, toldVars>>
answerVars == <<talking, buf, answer, given>>
vars == <<queue, state, shiftMode, armed, curCmd, listening, talking, index, buf, delta, button,
          address, srFlag, mouseEnabled, hostVars, toldVars, answer, given>>

Off == 0    ShiftIn == 3    ShiftOut == 7
Listen == 2    Talk == 3

Init ==
    /\ queue = <<>> /\ state = 3 /\ shiftMode = ShiftIn /\ armed = FALSE
    /\ curCmd = 0 /\ listening = FALSE /\ talking = FALSE
    /\ index = 0 /\ buf = [i \in 1..MaxSzDatBuf |-> 0]
    /\ delta = [h |-> 0, v |-> 0, n |-> 0] /\ button = FALSE
    /\ address = [mouse |-> 0, keyboard |-> 0]
    /\ srFlag = FALSE /\ mouseEnabled = FALSE
    /\ hostButton = FALSE /\ hostKeys = {}
    /\ moved = [h |-> 0, v |-> 0, n |-> 0] /\ typed = <<>> /\ count = 0
    /\ reported = [h |-> 0, v |-> 0] /\ told = <<>> /\ upTo = 0
    /\ press = [before |-> 0, upTo |-> 0]
    /\ answer = <<>> /\ given = <<>>

---------------------------------------------------------------------------
(* The host pushes events.                                                 *)

Byte(k, down) == IF down THEN k ELSE 128 + k

(* Movement is added to the delta in the queue, wherever it is.            *)
EventQ_PushMouseDelta(q, m, n) ==
    LET deltas == {i \in DOMAIN q : q[i].kind = "Delta"}
        last == CHOOSE i \in deltas : \A j \in deltas : j <= i
    IN IF deltas = {}
       THEN Append(q, [kind |-> "Delta", h |-> m[1], v |-> m[2], n |-> n])
       ELSE [q EXCEPT ![last] = [kind |-> "Delta", h |-> @.h + m[1], v |-> @.v + m[2], n |-> n]]

Pushed ==
    /\ count < MaxEvents /\ count' = count + 1
    /\ UNCHANGED <<guestVars, armed, curCmd, listening, index, answerVars, delta, button,
                   address, srFlag, mouseEnabled, toldVars>>

MousePositionSetDelta(m) ==
    /\ Pushed
    /\ queue' = EventQ_PushMouseDelta(queue, m, moved.n + 1)
    /\ moved' = [h |-> moved.h + m[1], v |-> moved.v + m[2], n |-> moved.n + 1]
    /\ UNCHANGED <<hostButton, hostKeys, typed>>

MouseButtonSet ==
    /\ Pushed
    /\ hostButton' = ~hostButton
    /\ queue' = Append(queue, [kind |-> "Button", down |-> hostButton', before |-> moved.n])
    /\ UNCHANGED <<hostKeys, moved, typed>>

Keyboard_UpdateKeyMap(k) ==
    LET byte == Byte(k, k \notin hostKeys)
    IN /\ Pushed
       /\ hostKeys' = IF k \in hostKeys THEN hostKeys \ {k} ELSE hostKeys \cup {k}
       /\ typed' = Append(typed, byte)
       /\ queue' = Append(queue, [kind |-> "Key", byte |-> byte, n |-> Len(typed')])
       /\ UNCHANGED <<hostButton, moved>>

(* A position, which the mouse device takes by itself.                     *)
MousePositionSet ==
    /\ Pushed
    /\ \A i \in DOMAIN queue : queue[i].kind # "Pos"
    /\ queue' = Append(queue, [kind |-> "Pos"])
    /\ UNCHANGED <<hostButton, hostKeys, moved, typed>>

---------------------------------------------------------------------------
(* The answers of the devices.                                             *)

IsNext(q, kind) == q # <<>> /\ Head(q).kind = kind

Address(cmd) == cmd \div 16
Operation(cmd) == (cmd \div 4) % 4
Register(cmd) == cmd % 4

NoAnswer == talking' = FALSE /\ answer' = <<>> /\ given' = <<>> /\ UNCHANGED buf

Answer(first, second) ==
    /\ talking' = TRUE
    /\ buf' = [buf EXCEPT ![1] = first, ![2] = second]
    /\ answer' = <<first, second>> /\ given' = <<>>

(* (Mutant) 64 does not fit in the 7 bits.                                 *)
Clipped64(d) == IF d > 64 THEN 64 ELSE IF d < -64 THEN -64 ELSE d

(* What an answer says of the movement: 7 bits, signed.                    *)
Clipped(d) == IF d > 63 THEN 63 ELSE IF d < -63 THEN -63 ELSE d
Signed7(byte) == LET low == byte % 128 IN IF low > 63 THEN low - 128 ELSE low

(* (Mutant) the button does not wait for the rest of the movement.         *)
PressesAtOnce(q, overflow) == IsNext(q, "Button")

(* The next button goes with the movement, unless some of it is left.      *)
Presses(q, overflow) == ~overflow /\ IsNext(q, "Button")

(* Movement and buttons.  The answer's account is kept as the guest        *)
(* decodes it.                                                             *)
MouseTalk(q) ==
    LET takes == IsNext(q, "Delta")
        d == IF takes
             THEN [h |-> delta.h + Head(q).h, v |-> delta.v + Head(q).v, n |-> Head(q).n]
             ELSE delta
        rest == IF takes THEN Tail(q) ELSE q
        h == Clipped(d.h)    v == Clipped(d.v)
        overflow == h # d.h \/ v # d.v
        presses == Presses(rest, overflow)
        down == IF presses THEN Head(rest).down ELSE button
        first == (IF down THEN 0 ELSE 128) + (v % 128)
        second == 128 + (h % 128)
        answers == h # 0 \/ v # 0 \/ presses
    IN /\ delta' = [h |-> d.h - h, v |-> d.v - v, n |-> d.n]
       /\ button' = down
       /\ queue' = IF presses THEN Tail(rest) ELSE rest
       /\ upTo' = IF overflow THEN upTo ELSE d.n
       /\ press' = IF presses THEN [before |-> Head(rest).before, upTo |-> upTo'] ELSE press
       /\ IF answers
          THEN /\ Answer(first, second)
               /\ reported' = [h |-> reported.h + Signed7(second),
                               v |-> reported.v + Signed7(first)]
          ELSE NoAnswer /\ UNCHANGED reported
       /\ mouseEnabled' = TRUE
       /\ UNCHANGED told

(* (Mutant) the second key is looked at, and left in the queue.            *)
KeysTakenOne(q) == IF IsNext(q, "Key") THEN 1 ELSE 0

(* One or two keys.                                                        *)
KeysTaken(q) ==
    IF ~IsNext(q, "Key") THEN 0 ELSE IF IsNext(Tail(q), "Key") THEN 2 ELSE 1

KeyboardTalk(q) ==
    /\ queue' = SubSeq(q, KeysTaken(q) + 1, Len(q))
    /\ IF IsNext(q, "Key")
       THEN LET second == IF IsNext(Tail(q), "Key") THEN q[2].byte ELSE 255
            IN /\ Answer(Head(q).byte, second)
               /\ told' = IF second = 255 THEN Append(told, Head(q).byte)
                          ELSE Append(Append(told, Head(q).byte), second)
       ELSE NoAnswer /\ UNCHANGED told
    /\ UNCHANGED <<delta, button, mouseEnabled, reported, upTo, press>>

(* A device's address register, its low four bits left to the guest.       *)
Register3Talk(q) ==
    Answer(96, 1) /\ queue' = q /\ UNCHANGED <<delta, button, mouseEnabled, toldVars>>

SilentTalk(q) == NoAnswer /\ queue' = q /\ UNCHANGED <<delta, button, mouseEnabled, toldVars>>

(* The mouse comes first when both devices have one address.               *)
DoTalk(cmd, at, q) ==
    LET known == Address(cmd) \in {at.mouse, at.keyboard} IN
    \/ Address(cmd) = at.mouse /\ Register(cmd) = 0 /\ MouseTalk(q)
    \/ Address(cmd) # at.mouse /\ Address(cmd) = at.keyboard /\ Register(cmd) = 0 /\ KeyboardTalk(q)
    \/ known /\ Register(cmd) = 3 /\ Register3Talk(q)
    \/ (~known \/ Register(cmd) \in {1, 2}) /\ SilentTalk(q)

---------------------------------------------------------------------------
GuestActs ==
    UNCHANGED <<curCmd, listening, index, answerVars, deviceVars, address, hostVars>>

(* The guest moves the lines; stateChangeNtfy arms the task, again if it   *)
(* was armed.  The interrupt flag is not touched.                          *)
SetState(s) ==
    /\ s # state /\ state' = s /\ armed' = TRUE
    /\ GuestActs /\ UNCHANGED <<shiftMode, srFlag>>

(* The guest sets the ACR's shift mode; turning it off clears the flag.    *)
SetShiftMode(mode) ==
    /\ mode # shiftMode /\ shiftMode' = mode
    /\ srFlag' = (srFlag /\ mode # Off)
    /\ GuestActs /\ UNCHANGED <<state, armed>>

(* The guest reads or writes SR, or writes IFR.                            *)
ClearSR == srFlag /\ srFlag' = FALSE /\ GuestActs /\ UNCHANGED <<guestVars, armed>>

shiftInData == srFlag' = (srFlag \/ shiftMode = ShiftIn)
(* Nothing is shifted out in another mode: the byte is 0, with no interrupt. *)
shiftOutData == srFlag' = (srFlag \/ shiftMode = ShiftOut)
ShiftedOut(byte) == IF shiftMode = ShiftOut THEN byte ELSE 0

(* The end of a listen: a device whose register 3 gets a byte of 0xFE      *)
(* moves to the address before it.  Both are read from the buffer however  *)
(* many bytes came.                                                        *)
EndListen ==
    LET to == buf[1] % 16
        moves == listening /\ Register(curCmd) = 3 /\ buf[2] = 254
        from == Address(curCmd)
    IN IF moves /\ from = address.mouse THEN [address EXCEPT !.mouse = to]
       ELSE IF moves /\ from = address.keyboard THEN [address EXCEPT !.keyboard = to]
       ELSE address

(* doNewState, by the state the lines have when the task runs.             *)
NewState(s) == armed /\ armed' = FALSE /\ state = s /\ UNCHANGED <<guestVars, hostVars>>

IsReset(cmd) == Operation(cmd) = 0 /\ Register(cmd) = 0
IsFlush(cmd) == Operation(cmd) = 0 /\ Register(cmd) = 1

Untold == UNCHANGED deviceVars

(* State 0: the listen before it ends, and a command is taken.             *)
StartCommand(byte) ==
    LET cmd == ShiftedOut(byte)
        at == EndListen
        known == Address(cmd) \in {at.mouse, at.keyboard}
    IN /\ NewState(0) /\ shiftOutData
       /\ curCmd' = cmd /\ index' = 0 /\ listening' = (Operation(cmd) = Listen)
       /\ address' = IF IsReset(cmd) THEN [mouse |-> 3, keyboard |-> 2] ELSE at
       /\ IF Operation(cmd) = Talk THEN DoTalk(cmd, at, queue)
          ELSE IF IsFlush(cmd) /\ known THEN Answer(0, 0) /\ Untold
          ELSE NoAnswer /\ Untold

(* States 1 and 2: a byte of the answer, or the end of it.                 *)
TalkByte ==
    /\ \E s \in {1, 2} : NewState(s)
    /\ ~listening /\ shiftInData
    /\ IF talking /\ index < Len(answer)
       THEN /\ given' = Append(given, buf[index + 1])
            /\ index' = index + 1
       ELSE UNCHANGED <<index, given>>
    /\ UNCHANGED <<curCmd, listening, talking, buf, answer, deviceVars, address>>

(* (Mutant) one byte more than the buffer holds.                           *)
HasRoomOneMore(i) == i <= MaxSzDatBuf
HasRoom(i) == i < MaxSzDatBuf

(* A byte of a listen; a buffer that is full drops it.                     *)
ListenByte(byte) ==
    /\ \E s \in {1, 2} : NewState(s)
    /\ listening /\ shiftOutData
    /\ IF HasRoom(index)
       THEN buf' = [buf EXCEPT ![index + 1] = ShiftedOut(byte)] /\ index' = index + 1
       ELSE UNCHANGED <<buf, index>>
    /\ UNCHANGED <<curCmd, listening, talking, answer, given, deviceVars, address>>

MovementLeft == delta.h # 0 /\ delta.v # 0

(* (Mutant) a button is not announced.                                     *)
CheckForADBanyEvtNoButton(q) ==
    \/ \E kind \in {"Delta", "Key"} : IsNext(q, kind)
    \/ MovementLeft

(* There is input to announce: an event, or movement left in both          *)
(* directions.                                                             *)
CheckForADBanyEvt(q) ==
    \/ \E kind \in {"Button", "Delta", "Key"} : IsNext(q, kind)
    \/ MovementLeft

(* (Mutant) the tick does not look at the answer that is pending.          *)
MayAnnounceAnyway(q) == CheckForADBanyEvt(q)
MayAnnounce(q) == ~talking /\ CheckForADBanyEvt(q)

(* With no answer pending, input is answered as the last talk asked for    *)
(* it, and the guest is interrupted.                                       *)
Announces(q) ==
    IF MayAnnounce(q)
    THEN /\ IF Operation(curCmd) = Talk THEN DoTalk(curCmd, address, q) ELSE SilentTalk(q)
         /\ shiftInData
    ELSE /\ queue' = q
         /\ UNCHANGED <<answerVars, delta, button, mouseEnabled, toldVars, srFlag>>

(* State 3: an answer that is pending is announced again.                  *)
Idle ==
    /\ NewState(3)
    /\ IF talking THEN shiftInData /\ UNCHANGED <<answerVars, deviceVars>> ELSE Announces(queue)
    /\ UNCHANGED <<curCmd, listening, index, address>>

doNewState ==
    \/ \E byte \in Commands : StartCommand(byte)
    \/ TalkByte
    \/ \E byte \in ListenBytes : ListenByte(byte)
    \/ Idle

(* The mouse device's part of a tick.                                      *)
AfterMouse(q) == IF mouseEnabled /\ IsNext(q, "Pos") THEN Tail(q) ELSE q

(* SixtiethSecondNotify: the mouse takes a position, then the bus looks    *)
(* for input.                                                              *)
Tick ==
    /\ IF state = 3 THEN Announces(AfterMouse(queue))
       ELSE /\ queue' = AfterMouse(queue)
            /\ UNCHANGED <<answerVars, delta, button, mouseEnabled, toldVars, srFlag>>
    /\ UNCHANGED <<guestVars, armed, curCmd, listening, index, address, hostVars>>

Host ==
    \/ \E m \in Moves : MousePositionSetDelta(m)
    \/ MouseButtonSet
    \/ \E k \in KeyCodes : Keyboard_UpdateKeyMap(k)
    \/ MousePositionSet

Guest ==
    \/ \E s \in 0..3 : SetState(s)
    \/ \E mode \in ShiftModes : SetShiftMode(mode)
    \/ ClearSR

Next == Host \/ Guest \/ doNewState \/ Tick

(* The scheduler runs the task some time after it is armed, and a tick     *)
(* sixty times a second.                                                   *)
Fairness == WF_vars(doNewState) /\ WF_vars(Tick)

Spec == Init /\ [][Next]_vars /\ Fairness

---------------------------------------------------------------------------
(* Properties.                                                             *)

Bytes == 0..255

(* The device's variables keep to their types, and the index never passes  *)
(* the buffer, nor the answer of two bytes while one is pending.           *)
TypeOK ==
    /\ state \in 0..3 /\ shiftMode \in 0..7 /\ armed \in BOOLEAN
    /\ curCmd \in Bytes /\ listening \in BOOLEAN /\ talking \in BOOLEAN
    /\ index \in 0..MaxSzDatBuf /\ buf \in [1..MaxSzDatBuf -> Bytes]
    /\ talking => ~listening /\ index <= 2 /\ Len(answer) = 2
    /\ address \in [mouse : 0..15, keyboard : 0..15]
    /\ srFlag \in BOOLEAN /\ mouseEnabled \in BOOLEAN
    /\ button \in BOOLEAN
    /\ moved \in [h : Int, v : Int, n : Nat] /\ reported \in [h : Int, v : Int]
    /\ delta \in [h : Int, v : Int, n : Nat]

(* No movement is lost or made: what the host's mouse moved is what the    *)
(* answers say, as their signed 7 bits, with what is left of the last      *)
(* delta and what is in the queue, through merging, clipping and the talk  *)
(* a tick makes.                                                           *)
MotionKept ==
    LET Left(h, v) == moved.h = reported.h + delta.h + h /\ moved.v = reported.v + delta.v + v
        deltas == {i \in DOMAIN queue : queue[i].kind = "Delta"}
    IN /\ \A i \in deltas : Left(queue[i].h, queue[i].v)
       /\ deltas = {} => Left(0, 0)

(* Keys reach answers once each, in the order they were typed, whichever   *)
(* of a command, the idle state and the tick asks for them: those not told *)
(* yet are in the queue, in that order.                                    *)
KeysKept ==
    LET keys == {i \in DOMAIN queue : queue[i].kind = "Key"}
        waiting == (Len(told) + 1)..Len(typed)
    IN /\ told = SubSeq(typed, 1, Len(told))
       /\ {queue[i].n : i \in keys} = waiting
       /\ \A i \in keys : queue[i].byte = typed[queue[i].n]
       /\ \A i, j \in keys : i < j => queue[i].n < queue[j].n

(* Nothing of the host's input is lost or made up between the queue and    *)
(* the answers, nor are keys put in another order.                         *)
InputKept == MotionKept /\ KeysKept

(* A button is answered only when all the movement before it has been:     *)
(* the guest's cursor is not short of the place of the press.              *)
PressInPlace == press.before <= press.upTo

(* What goes to the guest is of one answer, from its first byte: no tick,  *)
(* no idle state and no second change of the lines puts another answer in  *)
(* the buffer while it is being read.                                      *)
AnswerWhole ==
    talking => index = Len(given) /\ given = SubSeq(answer, 1, index)

(* What waits for the guest is announced by an interrupt while the lines   *)
(* stay idle and the guest lets the VIA shift in, again each time the      *)
(* guest has cleared the flag: an event in the queue when no answer is     *)
(* pending, also one behind a position, once the mouse device may take     *)
(* that; and a pending answer, when the lines come to idle.  With an       *)
(* answer pending in idle lines the tick looks at nothing, and new input   *)
(* waits for the guest to move the lines.                                  *)
Announced ==
    /\ (/\ queue # <<>> /\ ~talking
        /\ mouseEnabled \/ \A i \in DOMAIN queue : queue[i].kind # "Pos")
       ~> srFlag \/ state # 3 \/ shiftMode # ShiftIn \/ queue = <<>>
    /\ (talking /\ armed) ~> srFlag \/ state # 3 \/ shiftMode # ShiftIn

(* Movement left of a delta is announced.  Not kept by the code: what is   *)
(* left in one direction only is not looked for (CheckForADBanyEvt).       *)
LeftAnnounced ==
    (~talking /\ (delta.h # 0 \/ delta.v # 0))
        ~> srFlag \/ state # 3 \/ shiftMode # ShiftIn
=============================================================================
