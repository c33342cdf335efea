----------------------------- MODULE Keyboard -----------------------------
(***************************************************************************)
(* The keyboard of the compact Macs (devices/keyboard.cpp): one byte each  *)
(* way over VIA 1's shift register and its CB2 line, with two scheduler    *)
(* tasks that stand for the time a byte takes on the wire, and a           *)
(* once-a-tick update that answers an Inquiry left open.                   *)
(*                                                                         *)
(* The other side is the guest's driver, in ROM: it pulls CB2 low, shifts  *)
(* a command out, turns the shift register round and waits for the byte,   *)
(* and starts over when it has heard nothing for too long.  It is prompt:  *)
(* the command is in the register before the keyboard looks for it.        *)
(***************************************************************************)
EXTENDS Integers, Sequences

CONSTANTS ShortKeys,  \* key events sent as one byte (codes below 64)
          LongKeys,   \* key events sent as 121 and an Instant byte
          MaxWait,    \* MAX_KEYBOARD_WAIT, in ticks (16)
          Patience,   \* ticks of silence after which the driver starts over (32)
          MaxKeys     \* bound: key events in a behaviour

ASSUME KeyboardAssumption ==
    /\ MaxWait \in Nat \ {0} /\ Patience \in Nat /\ MaxWait + 2 < Patience
    /\ ShortKeys \cap LongKeys = {} /\ MaxKeys \in Nat

(* A key has a name of its own: its byte is even, while 121, 0x7B and the  *)
(* model are odd; commands and keys are told apart by who shifted them.    *)
ASSUME KeysAreNoOtherBytes ==
    (ShortKeys \cup LongKeys)
        \cap {"none", "null", "more", "model", "zero", "Inquiry", "Instant", "Model"} = {}

VARIABLES
    kybdState, timer,     \* kybdState_, inquiryCommandTimer_
    held, instant,        \* keyBoardResult_ ("none" without one), instantCommandData_
    cb2, mode, sr, ifrSR, \* the CB2 wire; VIA 1's shift mode, SR and SR flag
    armed,                \* the armed tasks, with their age in ticks
    pressed, taken,       \* key events queued; those that FindKeyEvent took
    driver, command,      \* where the driver is; the command it is about to send, or sent
    received, silence,    \* keys the driver decoded; ticks it has waited in vain
    wasReset              \* the Mac was reset (at most once in a behaviour)

keyboardVars == <<kybdState, timer, held, instant>>
viaVars == <<cb2, mode, sr, ifrSR>>
driverVars == <<driver, command, received, silence>>
queueVars == <<pressed, taken>>
vars == <<keyboardVars, viaVars, armed, queueVars, driverVars, wasReset>>

Keys == ShortKeys \cup LongKeys
ReceiveCommandTask == "kICT_Kybd_ReceiveCommand"
ReceiveEndTask == "kICT_Kybd_ReceiveEndCommand"

Arm(task) == armed' = [t \in DOMAIN armed \cup {task} |-> IF t = task THEN 0 ELSE armed[t]]
Run(task) == /\ task \in DOMAIN armed
             /\ armed' = [t \in DOMAIN armed \ {task} |-> armed[t]]

---------------------------------------------------------------------------
(* The wire and the shift register.                                        *)

(* (Mutant) an Inquiry stays open when the driver calls again.             *)
dataLineChngNtfyNoAbort(v) ==
    CASE kybdState = "Idle" /\ v = 0 ->
            kybdState' = "RecievingCommand" /\ Arm(ReceiveCommandTask) /\ timer' = timer
      [] kybdState = "RecievedCommand" /\ v = 1 ->
            kybdState' = "RecievingEndCommand" /\ Arm(ReceiveEndTask) /\ timer' = timer
      [] OTHER -> UNCHANGED <<kybdState, armed, timer>>

(* (Mutant) the end of a command arms no task.                             *)
dataLineChngNtfyNoEnd(v) ==
    CASE kybdState = "Idle" /\ v = 0 ->
            kybdState' = "RecievingCommand" /\ Arm(ReceiveCommandTask) /\ timer' = 0
      [] kybdState = "RecievedCommand" /\ v = 1 ->
            kybdState' = "RecievingEndCommand" /\ UNCHANGED <<armed, timer>>
      [] OTHER -> UNCHANGED <<kybdState, armed, timer>>

(* (Mutant) an edge in any state is taken for a call.                      *)
dataLineChngNtfyAnyState(v) ==
    CASE v = 0 ->
            kybdState' = "RecievingCommand" /\ Arm(ReceiveCommandTask) /\ timer' = 0
      [] kybdState # "Idle" /\ v = 1 ->
            kybdState' = "RecievingEndCommand" /\ Arm(ReceiveEndTask) /\ timer' = timer
      [] OTHER -> UNCHANGED <<kybdState, armed, timer>>

(* An edge of CB2: the driver calls, or has turned the line round.         *)
dataLineChngNtfy(v) ==
    CASE kybdState = "Idle" /\ v = 0 ->
            kybdState' = "RecievingCommand" /\ Arm(ReceiveCommandTask) /\ timer' = 0
      [] kybdState = "RecievedCommand" /\ v = 1 ->
            kybdState' = "RecievingEndCommand" /\ Arm(ReceiveEndTask) /\ timer' = timer
      [] OTHER -> UNCHANGED <<kybdState, armed, timer>>

setCB2(v) ==
    /\ cb2' = v
    /\ IF v = cb2 THEN UNCHANGED <<kybdState, armed, timer>> ELSE dataLineChngNtfy(v)

(* The byte is dropped unless the register is set to shift in.             *)
shiftInData(v) ==
    IF mode = 3 THEN sr' = v /\ ifrSR' = TRUE ELSE UNCHANGED <<sr, ifrSR>>

(* The byte is held until the keyboard is idle, and CB2 rises with it.     *)
gotKeyBoardData(v) ==
    IF kybdState # "Idle"
    THEN held' = v /\ UNCHANGED <<cb2, sr, ifrSR>>
    ELSE held' = held /\ shiftInData(v) /\ cb2' = 1

(* FindKeyEvent finds the next key event, or none: the queue is empty, or  *)
(* an event of another kind or the mouse's lock holds it back.             *)
FindKeyEvent(k) ==
    /\ pressed # <<>> /\ k = Head(pressed)
    /\ pressed' = Tail(pressed) /\ taken' = Append(taken, k)

(* The bytes of a key event: the answer, and what Instant will fetch.      *)
SecondByteAlways(k) == k  \* (Mutant) a short key leaves one, too
FirstByte(k) == IF k \in ShortKeys THEN k ELSE "more"
SecondByte(k) == IF k \in ShortKeys THEN instant ELSE k

---------------------------------------------------------------------------
Init ==
    /\ kybdState = "Idle" /\ timer = 0 /\ held = "none" /\ instant = "null"
    /\ cb2 = 1 /\ mode = 0 /\ sr = "zero" /\ ifrSR = FALSE
    /\ armed = [t \in {} |-> 0]
    /\ pressed = <<>> /\ taken = <<>>
    /\ driver = "idle" /\ command = "Model" /\ received = <<>> /\ silence = 0
    /\ wasReset = FALSE

(* The task that reads the command.  shiftOutData raises the SR flag and   *)
(* puts the low bit of the command on CB2, 0 for all that the driver       *)
(* sends; the state is still RecievingCommand, so the edge means nothing,  *)
(* and every answer is held until the line has been turned round.          *)
receiveCommand ==
    /\ driver # "calling"
    /\ Run(ReceiveCommandTask)
    /\ IF kybdState # "RecievingCommand"
       THEN UNCHANGED <<keyboardVars, viaVars, queueVars>>
       ELSE /\ kybdState' = "RecievedCommand"
            /\ ifrSR' = TRUE /\ cb2' = 0 /\ UNCHANGED <<mode, sr>>
            /\ \/ /\ sr = "Inquiry" /\ timer' = timer
                  /\ \E k \in Keys : /\ FindKeyEvent(k)
                                     /\ held' = FirstByte(k) /\ instant' = SecondByte(k)
               \/ /\ sr = "Inquiry" /\ timer' = MaxWait
                  /\ UNCHANGED <<held, instant, queueVars>>
               \/ /\ sr = "Instant" /\ held' = instant /\ instant' = "null"
                  /\ UNCHANGED <<timer, queueVars>>
               \/ /\ sr = "Model" /\ held' = "model"
                  /\ UNCHANGED <<timer, instant, queueVars>>
    /\ UNCHANGED <<driverVars, wasReset>>

(* (Mutant) the result is delivered and kept.                              *)
deliverHeldKept == shiftInData(held) /\ held' = held /\ cb2' = 1

(* What receiveEndCommand does with a result.                              *)
deliverHeld == shiftInData(held) /\ held' = "none" /\ cb2' = 1

(* The task that ends the command.                                         *)
receiveEndCommand ==
    /\ Run(ReceiveEndTask)
    /\ IF kybdState # "RecievingEndCommand"
       THEN UNCHANGED <<kybdState, held, cb2, sr, ifrSR>>
       ELSE /\ kybdState' = "Idle"
            /\ IF held = "none" THEN UNCHANGED <<held, cb2, sr, ifrSR>> ELSE deliverHeld
    /\ UNCHANGED <<timer, instant, mode, queueVars, driverVars, wasReset>>

(* (Mutant) an Inquiry that stays without a key gets no answer.            *)
timeOutSilently == timer' = timer - 1 /\ UNCHANGED <<held, cb2, sr, ifrSR>>

(* The tick's update found no key for the open Inquiry.                    *)
timeOut ==
    /\ timer' = timer - 1
    /\ IF timer = 1 THEN gotKeyBoardData("null") ELSE UNCHANGED <<held, cb2, sr, ifrSR>>

(* KeyboardDevice::update.                                                 *)
updateNothing ==
    /\ timer = 0
    /\ UNCHANGED <<timer, held, instant, cb2, sr, ifrSR, queueVars>>
updateKey ==
    /\ timer # 0 /\ timer' = 0
    /\ \E k \in Keys : /\ FindKeyEvent(k)
                       /\ gotKeyBoardData(FirstByte(k)) /\ instant' = SecondByte(k)
updateNoKey ==
    /\ timer # 0 /\ timeOut
    /\ UNCHANGED <<instant, queueVars>>

(* A tick.  The tasks are armed for less than a tick, so that one which    *)
(* was armed before the last tick runs before this one.                    *)
Tick(update) ==
    /\ \A t \in DOMAIN armed : armed[t] = 0
    /\ update
    /\ armed' = [t \in DOMAIN armed |-> 1]
    /\ silence' = IF driver \in {"sent", "waiting"} /\ ~ifrSR /\ silence < Patience
                  THEN silence + 1 ELSE silence
    /\ UNCHANGED <<kybdState, mode, driver, command, received, wasReset>>

(* The user presses or releases a key.                                     *)
Press(k) ==
    /\ Len(taken) + Len(pressed) < MaxKeys
    /\ pressed' = Append(pressed, k)
    /\ UNCHANGED <<keyboardVars, viaVars, armed, taken, driverVars, wasReset>>

(* EmulatedHardwareZap as far as it reaches: the scheduler is emptied and  *)
(* VIA 1 cleared, its wires stay, and the keyboard is not told.  The guest *)
(* boots.                                                                  *)
MacReset ==
    /\ ~wasReset /\ wasReset' = TRUE
    /\ armed' = [t \in {} |-> 0]
    /\ mode' = 0 /\ sr' = "zero" /\ ifrSR' = FALSE
    /\ driver' = "idle" /\ command' = "Model" /\ silence' = 0
    /\ UNCHANGED <<keyboardVars, cb2, queueVars, received>>

---------------------------------------------------------------------------
(* The guest's driver.                                                     *)

(* kACR mode 6, then kSR 0: CB2 goes low.                                  *)
PullLow ==
    /\ driver' = "calling"
    /\ mode' = 6 /\ sr' = "zero" /\ ifrSR' = FALSE /\ setCB2(0)
    /\ silence' = 0
    /\ UNCHANGED <<held, instant, queueVars, received, wasReset>>

Call == driver = "idle" /\ PullLow /\ command' = command

(* The driver gives up an Inquiry, ticks old, for another command.         *)
Abort ==
    /\ driver = "waiting" /\ command = "Inquiry" /\ ~ifrSR /\ silence > 1
    /\ PullLow /\ command' = "Model"

(* kACR mode 7, then kSR with the command.                                 *)
SendCommand ==
    /\ driver = "calling" /\ driver' = "sent"
    /\ mode' = 7 /\ sr' = command /\ ifrSR' = FALSE
    /\ UNCHANGED <<keyboardVars, cb2, armed, queueVars, command, received, silence, wasReset>>

(* kACR mode 3: CB2 is let go when the register no longer shifts out.      *)
ShiftIn ==
    /\ mode' = 3
    /\ IF mode \in {6, 7} THEN setCB2(1) ELSE UNCHANGED <<cb2, kybdState, armed, timer>>

(* The command was shifted out.                                            *)
TurnRound ==
    /\ driver = "sent" /\ ifrSR /\ driver' = "waiting"
    /\ ShiftIn /\ sr' = sr /\ ifrSR' = FALSE
    /\ silence' = 0
    /\ UNCHANGED <<held, instant, queueVars, command, received, wasReset>>

(* The answer is in kSR.                                                   *)
Receive ==
    /\ driver = "waiting" /\ ifrSR /\ driver' = "idle"
    /\ ifrSR' = FALSE
    /\ command' = IF sr = "more" THEN "Instant" ELSE "Inquiry"
    /\ received' = IF sr \in Keys THEN Append(received, sr) ELSE received
    /\ silence' = 0
    /\ UNCHANGED <<keyboardVars, cb2, mode, sr, armed, queueVars, wasReset>>

(* It has heard nothing for too long, and begins again.                    *)
StartOver ==
    /\ driver \in {"sent", "waiting"} /\ ~ifrSR /\ silence = Patience
    /\ ShiftIn
    /\ driver' = "idle" /\ command' = "Model" /\ silence' = 0
    /\ UNCHANGED <<held, instant, sr, ifrSR, queueVars, received, wasReset>>

Driver == Call \/ SendCommand \/ TurnRound \/ Receive \/ StartOver

Next ==
    \/ receiveCommand \/ receiveEndCommand
    \/ Tick(updateNothing) \/ Tick(updateKey) \/ Tick(updateNoKey)
    \/ \E k \in Keys : Press(k)
    \/ Driver \/ Abort
    \/ MacReset

Spec == Init /\ [][Next]_vars

(* The emulator goes on ticking and running tasks, the guest goes on       *)
(* executing; a key event that is held back is not held back for ever.     *)
Fairness ==
    /\ WF_vars(Tick(updateNothing)) /\ WF_vars(Tick(updateNoKey))
    /\ SF_vars(Tick(updateKey))
    /\ WF_vars(receiveCommand) /\ WF_vars(receiveEndCommand)
    /\ WF_vars(Driver)

FairSpec == Spec /\ Fairness

---------------------------------------------------------------------------
Bytes == Keys \cup {"more", "null", "model"}

TypeOK ==
    /\ kybdState \in {"Idle", "RecievingCommand", "RecievedCommand", "RecievingEndCommand"}
    /\ timer \in 0..MaxWait /\ held \in Bytes \cup {"none"}
    /\ instant \in LongKeys \cup {"null"}
    /\ cb2 \in {0, 1} /\ mode \in {0, 3, 6, 7} /\ ifrSR \in BOOLEAN
    /\ DOMAIN armed \subseteq {ReceiveCommandTask, ReceiveEndTask}
    /\ silence \in 0..Patience /\ command \in {"Inquiry", "Instant", "Model"}

(* A task never finds the keyboard in another state than the one it was    *)
(* armed for (the abnormal reports of receiveCommand and receiveEndCommand *)
(* never happen), nor is there ever a task too many.                       *)
TaskMatchesState ==
    /\ ReceiveCommandTask \in DOMAIN armed => kybdState = "RecievingCommand"
    /\ ReceiveEndTask \in DOMAIN armed => kybdState = "RecievingEndCommand"

(* The key that is on its way, wherever it is: held in the keyboard, in    *)
(* the shift register, or waiting for an Instant command.                  *)
InTransit ==
    IF held \in Keys THEN <<held>>
    ELSE IF ifrSR /\ sr \in Keys THEN <<sr>>
    ELSE IF instant \in LongKeys THEN <<instant>> ELSE <<>>

(* Until the Mac is reset, every key event taken from the queue reaches    *)
(* the driver once and in order, the two-byte ones included, though it may *)
(* be answered to the command itself, to its Inquiry ticks later, or just  *)
(* when the driver gives up.                                               *)
KeysInOrder == ~wasReset => taken = received \o InTransit

(* An answer is shifted in only while the driver waits for one with the    *)
(* register turned round: none is dropped, none answers the wrong command. *)
AnswersAwaited ==
    [][ (~wasReset /\ \/ held # "none" /\ held' = "none"
                      \/ timer # 0 /\ timer' = 0 /\ kybdState = "Idle" /\ kybdState' = "Idle")
           => driver = "waiting" /\ mode = 3 /\ ifrSR' ]_vars

(* "Code in the mac rom will reset the keyboard if it hasn't been heard    *)
(* from in 32/60th of a second.  So time out and send something before     *)
(* that": until the Mac is reset, the driver's patience never runs out.    *)
NeverSilent == ~wasReset => silence < Patience

(* Every key event reaches the driver, unless the Mac is reset.            *)
KeysArrive ==
    \A n \in 1..MaxKeys :
        (Len(taken) + Len(pressed) >= n) ~> (Len(received) >= n \/ wasReset)

(* "Reset memory, scheduler, and all devices to power-on state": after a   *)
(* reset, too, the driver goes on hearing from the keyboard.               *)
KeepsConnection == []<><<Receive>>_vars
===========================================================================
