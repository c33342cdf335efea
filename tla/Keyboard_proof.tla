--------------------------- MODULE Keyboard_proof ---------------------------
(***************************************************************************)
(* The keyboard and its driver, for any keys and any times that keep the   *)
(* keyboard's patience below the driver's: the protocol keeps in step, so  *)
(* that no task comes in the wrong state, no answer is dropped, no key is  *)
(* lost, and the driver always hears in time.                              *)
(***************************************************************************)
EXTENDS Keyboard, SequenceTheorems, TLAPS

---------------------------------------------------------------------------
(* The inductive invariant.                                                *)

Commands == {"Inquiry", "Instant", "Model"}

(* Types, and the ages of tasks.                                           *)
Typed ==
    /\ TypeOK
    /\ driver \in {"idle", "calling", "sent", "waiting"}
    /\ sr \in Bytes \cup {"zero"} \cup Commands
    /\ armed \in [DOMAIN armed -> {0, 1}]
    /\ pressed \in Seq(Keys) /\ taken \in Seq(Keys) /\ received \in Seq(Keys)
    /\ wasReset \in BOOLEAN

(* Nothing is held, and the driver will ask for the second byte of a key   *)
(* exactly if there is one.                                                *)
Asking ==
    /\ held = "none" /\ timer = 0
    /\ command = "Instant" <=> instant \in LongKeys

(* The command was read: it was answered, or it is an Inquiry left open.   *)
Result ==
    \/ held = "none" /\ timer # 0 /\ instant = "null"
    \/ held # "none" /\ timer = 0 /\ (held = "more" <=> instant \in LongKeys)

(* Where driver and keyboard are, one step after the other.                *)
Idle ==
    /\ driver = "idle" /\ kybdState = "Idle" /\ DOMAIN armed = {}
    /\ cb2 = 1 /\ mode \in {0, 3} /\ ~ifrSR /\ Asking /\ silence = 0
Called ==
    /\ driver = "calling" /\ kybdState = "RecievingCommand" /\ DOMAIN armed = {ReceiveCommandTask}
    /\ cb2 = 0 /\ mode = 6 /\ ~ifrSR /\ Asking /\ silence = 0
Sent ==
    /\ driver = "sent" /\ kybdState = "RecievingCommand" /\ DOMAIN armed = {ReceiveCommandTask}
    /\ cb2 = 0 /\ mode = 7 /\ ~ifrSR /\ sr = command /\ Asking
    /\ silence <= armed[ReceiveCommandTask]
Read ==
    /\ driver = "sent" /\ kybdState = "RecievedCommand" /\ DOMAIN armed = {}
    /\ cb2 = 0 /\ mode = 7 /\ ifrSR /\ sr = command /\ Result /\ silence <= 1
Turned ==
    /\ driver = "waiting" /\ kybdState = "RecievingEndCommand" /\ DOMAIN armed = {ReceiveEndTask}
    /\ cb2 = 1 /\ mode = 3 /\ ~ifrSR /\ Result
    /\ silence <= armed[ReceiveEndTask] /\ silence + timer <= MaxWait
Open ==
    /\ driver = "waiting" /\ kybdState = "Idle" /\ DOMAIN armed = {}
    /\ cb2 = 1 /\ mode = 3 /\ ~ifrSR
    /\ held = "none" /\ timer # 0 /\ instant = "null" /\ silence + timer <= MaxWait
Answered ==
    /\ driver = "waiting" /\ kybdState = "Idle" /\ DOMAIN armed = {}
    /\ cb2 = 1 /\ mode = 3 /\ ifrSR
    /\ held = "none" /\ timer = 0 /\ (sr = "more" <=> instant \in LongKeys) /\ silence <= MaxWait

(* Until the Mac is reset, they are in step.                               *)
InStep == Idle \/ Called \/ Sent \/ Read \/ Turned \/ Open \/ Answered

IInv ==
    /\ Typed /\ TaskMatchesState
    /\ ~wasReset => InStep /\ taken = received \o InTransit

---------------------------------------------------------------------------
(* Tasks, and the wire.                                                    *)

LEMMA ArmTask ==
    ASSUME armed \in [DOMAIN armed -> {0, 1}], NEW task, Arm(task)
    PROVE  /\ DOMAIN armed' = DOMAIN armed \cup {task} /\ armed'[task] = 0
           /\ armed' \in [DOMAIN armed' -> {0, 1}]
BY DEF Arm

LEMMA RunTask ==
    ASSUME armed \in [DOMAIN armed -> {0, 1}], NEW task, Run(task)
    PROVE  /\ task \in DOMAIN armed /\ DOMAIN armed' = DOMAIN armed \ {task}
           /\ armed' \in [DOMAIN armed' -> {0, 1}]
BY DEF Run

(* The line falls: only an idle keyboard listens.                          *)
LEMMA LineFalls ==
    ASSUME Typed, TaskMatchesState, setCB2(0)
    PROVE  /\ cb2' = 0 /\ timer' \in {0, timer}
           /\ kybdState' \in {"Idle", "RecievingCommand", "RecievedCommand", "RecievingEndCommand"}
           /\ armed' \in [DOMAIN armed' -> {0, 1}]
           /\ DOMAIN armed' \subseteq {ReceiveCommandTask, ReceiveEndTask} /\ TaskMatchesState'
           /\ kybdState = "Idle" /\ cb2 = 1 =>
                 /\ kybdState' = "RecievingCommand" /\ timer' = 0
                 /\ DOMAIN armed' = DOMAIN armed \cup {ReceiveCommandTask}
<1>1. CASE cb2 = 1 /\ kybdState = "Idle"
  <2>1. kybdState' = "RecievingCommand" /\ Arm(ReceiveCommandTask) /\ timer' = 0 /\ cb2' = 0
    BY <1>1 DEF setCB2, dataLineChngNtfy
  <2>2. /\ DOMAIN armed' = DOMAIN armed \cup {ReceiveCommandTask}
        /\ armed' \in [DOMAIN armed' -> {0, 1}]
    BY <2>1, ArmTask DEF Typed
  <2>3. ReceiveEndTask \notin DOMAIN armed'
    BY <1>1, <2>2 DEF TaskMatchesState, ReceiveCommandTask, ReceiveEndTask
  <2> QED
    BY <2>1, <2>2, <2>3 DEF TaskMatchesState, Typed, TypeOK
<1>2. CASE ~(cb2 = 1 /\ kybdState = "Idle")
  <2>1. UNCHANGED <<kybdState, armed, timer>> /\ cb2' = 0
    BY <1>2 DEF setCB2, dataLineChngNtfy, Typed, TypeOK
  <2> QED
    BY <1>2, <2>1 DEF TaskMatchesState, Typed, TypeOK
<1> QED
  BY <1>1, <1>2

(* The line rises: a keyboard that has read a command ends it.             *)
LEMMA LineRises ==
    ASSUME Typed, TaskMatchesState, setCB2(1)
    PROVE  /\ cb2' = 1 /\ timer' = timer
           /\ kybdState' \in {"Idle", "RecievingCommand", "RecievedCommand", "RecievingEndCommand"}
           /\ armed' \in [DOMAIN armed' -> {0, 1}]
           /\ DOMAIN armed' \subseteq {ReceiveCommandTask, ReceiveEndTask} /\ TaskMatchesState'
           /\ kybdState = "RecievedCommand" /\ cb2 = 0 =>
                 /\ kybdState' = "RecievingEndCommand"
                 /\ DOMAIN armed' = DOMAIN armed \cup {ReceiveEndTask}
                 /\ armed'[ReceiveEndTask] = 0
<1>1. CASE cb2 = 0 /\ kybdState = "RecievedCommand"
  <2>1. kybdState' = "RecievingEndCommand" /\ Arm(ReceiveEndTask) /\ timer' = timer /\ cb2' = 1
    BY <1>1 DEF setCB2, dataLineChngNtfy
  <2>2. /\ DOMAIN armed' = DOMAIN armed \cup {ReceiveEndTask} /\ armed'[ReceiveEndTask] = 0
        /\ armed' \in [DOMAIN armed' -> {0, 1}]
    BY <2>1, ArmTask DEF Typed
  <2>3. ReceiveCommandTask \notin DOMAIN armed'
    BY <1>1, <2>2 DEF TaskMatchesState, ReceiveCommandTask, ReceiveEndTask
  <2> QED
    BY <2>1, <2>2, <2>3 DEF TaskMatchesState, Typed, TypeOK
<1>2. CASE ~(cb2 = 0 /\ kybdState = "RecievedCommand")
  <2>1. UNCHANGED <<kybdState, armed, timer>> /\ cb2' = 1
    BY <1>2 DEF setCB2, dataLineChngNtfy, Typed, TypeOK
  <2> QED
    BY <1>2, <2>1 DEF TaskMatchesState, Typed, TypeOK
<1> QED
  BY <1>1, <1>2

(* Key events are sequences of keys; one more of them is at the end.       *)
LEMMA Transits ==
    /\ \A q \in Seq(Keys) : q \o <<>> = q
    /\ \A q \in Seq(Keys), k \in Keys : Append(q, k) = q \o <<k>> /\ Append(q, k) \in Seq(Keys)
BY ConcatEmptySeq, AppendProperties, AppendIsConcat

LEMMA NamesOfKeys ==
    ASSUME NEW k \in Keys
    PROVE  /\ k \notin {"none", "null", "more", "model", "zero", "Inquiry", "Instant", "Model"}
           /\ FirstByte(k) \in Bytes /\ FirstByte(k) # "none"
           /\ k \in ShortKeys => FirstByte(k) = k /\ SecondByte(k) = instant
           /\ k \notin ShortKeys => FirstByte(k) = "more" /\ SecondByte(k) = k /\ k \in LongKeys
BY KeysAreNoOtherBytes DEF Keys, Bytes, FirstByte, SecondByte

LEMMA NamesOfBytes ==
    /\ {"none", "null", "more", "model", "zero", "Inquiry", "Instant", "Model"} \cap Keys = {}
    /\ {"none", "null", "more", "model", "zero", "Inquiry", "Instant", "Model"} \cap LongKeys = {}
    /\ LongKeys \subseteq Keys /\ ShortKeys \cap LongKeys = {}
BY KeysAreNoOtherBytes, KeyboardAssumption DEF Keys

LEMMA KeyFound ==
    ASSUME Typed, NEW k \in Keys, FindKeyEvent(k)
    PROVE  pressed' \in Seq(Keys) /\ taken' = taken \o <<k>> /\ taken' \in Seq(Keys)
BY Transits DEF FindKeyEvent, Typed

---------------------------------------------------------------------------
LEMMA Bounds ==
    /\ MaxWait \in Nat \ {0} /\ Patience \in Nat /\ MaxWait + 2 < Patience
    /\ 0 \in 0..MaxWait /\ MaxWait \in 0..MaxWait /\ 0 \in 0..Patience
BY KeyboardAssumption

(* A driver in step has not waited longer than the keyboard lets it.       *)
LEMMA HeardInTime ==
    ASSUME IInv, ~wasReset
    PROVE  silence < Patience
<1>1. TypeOK /\ InStep /\ armed \in [DOMAIN armed -> {0, 1}]
  BY DEF IInv, Typed
<1>2. CASE Idle \/ Called \/ Read \/ Answered
  BY <1>1, <1>2, KeyboardAssumption DEF Idle, Called, Read, Answered, TypeOK
<1>3. CASE Sent
  <2>1. armed[ReceiveCommandTask] \in {0, 1}
    BY <1>1, <1>3 DEF Sent
  <2> QED
    BY <1>1, <1>3, <2>1, KeyboardAssumption DEF Sent, TypeOK
<1>4. CASE Turned \/ Open
  BY <1>1, <1>4, KeyboardAssumption DEF Turned, Open, TypeOK
<1> QED
  BY <1>1, <1>2, <1>3, <1>4 DEF InStep

---------------------------------------------------------------------------
(* Every action keeps the invariant.  The driver's side.                   *)

LEMMA InitStep == Init => IInv
<1> SUFFICES ASSUME Init PROVE IInv
  OBVIOUS
<1> USE NamesOfBytes
<1>1. DOMAIN armed = {}
  BY DEF Init
<1>2. Typed
  <2>1. TypeOK
    BY <1>1, Bounds DEF Init, TypeOK, Bytes
  <2>2. armed \in [DOMAIN armed -> {0, 1}]
    BY DEF Init
  <2>3. <<>> \in Seq(Keys)
    OBVIOUS
  <2> QED
    BY <2>1, <2>2, <2>3 DEF Init, Typed, Bytes, Commands
<1>3. TaskMatchesState
  BY <1>1 DEF TaskMatchesState
<1>4. Idle
  BY <1>1 DEF Init, Idle, Asking
<1>5. taken = received \o InTransit
  <2>1. InTransit = <<>>
    BY DEF Init, InTransit
  <2> QED
    BY <2>1 DEF Init
<1> QED
  BY <1>2, <1>3, <1>4, <1>5 DEF IInv, InStep

LEMMA CallStep == ASSUME IInv, Call PROVE IInv'
<1> USE NamesOfBytes
<1>1. /\ Typed /\ TaskMatchesState /\ TypeOK
  BY DEF IInv, Typed
<1>2. /\ setCB2(0) /\ driver = "idle" /\ driver' = "calling" /\ command' = command
      /\ mode' = 6 /\ sr' = "zero" /\ ifrSR' = FALSE /\ silence' = 0
      /\ UNCHANGED <<held, instant, queueVars, received, wasReset>>
  BY DEF Call, PullLow
<1>3. Typed'
  <2>1. TypeOK'
    BY <1>1, <1>2, LineFalls, Bounds DEF TypeOK, Bytes
  <2> QED
    BY <1>1, <1>2, <2>1, LineFalls DEF Typed, queueVars, Bytes
<1>4. TaskMatchesState'
  BY <1>1, <1>2, LineFalls
<1>5. ASSUME ~wasReset PROVE Called' /\ InTransit' = InTransit
  <2>1. Idle
    BY <1>2, <1>5 DEF IInv, InStep, Idle, Called, Sent, Read, Turned, Open, Answered
  <2>2. Called'
    BY <1>1, <1>2, <2>1, LineFalls DEF Idle, Called, Asking
  <2>3. InTransit' = InTransit
    BY <1>2, <2>1 DEF Idle, Asking, InTransit
  <2> QED
    BY <2>2, <2>3
<1> QED
  BY <1>2, <1>3, <1>4, <1>5 DEF IInv, InStep, queueVars

LEMMA AbortStep == ASSUME IInv, Abort PROVE IInv'
<1> USE NamesOfBytes
<1>1. /\ Typed /\ TaskMatchesState /\ TypeOK
  BY DEF IInv, Typed
<1>2. /\ setCB2(0) /\ driver = "waiting" /\ command = "Inquiry" /\ ~ifrSR /\ silence > 1
      /\ driver' = "calling" /\ command' = "Model"
      /\ mode' = 6 /\ sr' = "zero" /\ ifrSR' = FALSE /\ silence' = 0
      /\ UNCHANGED <<held, instant, queueVars, received, wasReset>>
  BY DEF Abort, PullLow
<1>3. Typed'
  <2>1. TypeOK'
    BY <1>1, <1>2, LineFalls, Bounds DEF TypeOK, Bytes
  <2> QED
    BY <1>1, <1>2, <2>1, LineFalls DEF Typed, queueVars, Bytes
<1>4. TaskMatchesState'
  BY <1>1, <1>2, LineFalls
<1>5. ASSUME ~wasReset PROVE Called' /\ InTransit' = InTransit
  <2>1. Turned \/ Open
    BY <1>2, <1>5 DEF IInv, InStep, Idle, Called, Sent, Read, Turned, Open, Answered
  <2>2. ~Turned
    <3>1. Turned => armed[ReceiveEndTask] \in {0, 1} /\ silence <= armed[ReceiveEndTask]
      BY <1>1 DEF Turned, Typed
    <3> QED
      BY <1>1, <1>2, <3>1 DEF TypeOK
  <2>3. Open
    BY <2>1, <2>2
  <2>4. Called'
    BY <1>1, <1>2, <2>3, LineFalls DEF Open, Called, Asking
  <2>5. InTransit' = InTransit
    BY <1>2, <2>3 DEF Open, InTransit
  <2> QED
    BY <2>4, <2>5
<1> QED
  BY <1>2, <1>3, <1>4, <1>5 DEF IInv, InStep, queueVars

LEMMA SendCommandStep == ASSUME IInv, SendCommand PROVE IInv'
<1> USE NamesOfBytes
<1>1. /\ Typed /\ TaskMatchesState /\ TypeOK
  BY DEF IInv, Typed
<1>2. /\ driver = "calling" /\ driver' = "sent" /\ mode' = 7 /\ sr' = command /\ ifrSR' = FALSE
      /\ UNCHANGED <<kybdState, timer, held, instant, cb2, armed, pressed, taken,
                     command, received, silence, wasReset>>
  BY DEF SendCommand, keyboardVars, queueVars
<1>3. Typed'
  <2>1. TypeOK'
    BY <1>1, <1>2 DEF TypeOK
  <2> QED
    BY <1>1, <1>2, <2>1 DEF Typed, TypeOK, Commands
<1>4. TaskMatchesState'
  BY <1>1, <1>2 DEF TaskMatchesState
<1>5. ASSUME ~wasReset PROVE Sent' /\ InTransit' = InTransit
  <2>1. Called
    BY <1>2, <1>5 DEF IInv, InStep, Idle, Called, Sent, Read, Turned, Open, Answered
  <2>2. armed[ReceiveCommandTask] \in {0, 1}
    BY <1>1, <2>1 DEF Called, Typed
  <2>3. Sent'
    BY <1>2, <2>1, <2>2 DEF Called, Sent, Asking
  <2>4. InTransit' = InTransit
    BY <1>2, <2>1 DEF Called, Asking, InTransit
  <2> QED
    BY <2>3, <2>4
<1> QED
  BY <1>2, <1>3, <1>4, <1>5 DEF IInv, InStep

LEMMA TurnRoundStep == ASSUME IInv, TurnRound PROVE IInv'
<1> USE NamesOfBytes
<1>1. /\ Typed /\ TaskMatchesState /\ TypeOK
  BY DEF IInv, Typed
<1>2. /\ driver = "sent" /\ ifrSR /\ driver' = "waiting" /\ mode' = 3 /\ sr' = sr
      /\ ifrSR' = FALSE /\ silence' = 0
      /\ UNCHANGED <<held, instant, pressed, taken, command, received, wasReset>>
  BY DEF TurnRound, ShiftIn, queueVars
<1>3. \/ mode \in {6, 7} /\ setCB2(1)
      \/ mode \notin {6, 7} /\ UNCHANGED <<cb2, kybdState, armed, timer>>
  BY DEF TurnRound, ShiftIn
<1>4. Typed' /\ TaskMatchesState'
  <2>1. CASE setCB2(1)
    <3>1. TypeOK'
      BY <1>1, <1>2, <2>1, LineRises, Bounds DEF TypeOK
    <3> QED
      BY <1>1, <1>2, <2>1, <3>1, LineRises DEF Typed
  <2>2. CASE UNCHANGED <<cb2, kybdState, armed, timer>>
    <3>1. TypeOK'
      BY <1>1, <1>2, <2>2, Bounds DEF TypeOK
    <3> QED
      BY <1>1, <1>2, <2>2, <3>1 DEF Typed, TaskMatchesState
  <2> QED
    BY <1>3, <2>1, <2>2
<1>5. ASSUME ~wasReset PROVE Turned' /\ InTransit' = InTransit
  <2>1. Read
    BY <1>2, <1>5 DEF IInv, InStep, Idle, Called, Sent, Read, Turned, Open, Answered
  <2>2. setCB2(1)
    BY <1>3, <2>1 DEF Read
  <2>3. Turned'
    BY <1>1, <1>2, <2>1, <2>2, LineRises DEF Read, Turned, Result, TypeOK
  <2>4. InTransit' = InTransit
    BY <1>1, <1>2, <2>1 DEF Read, InTransit, TypeOK
  <2> QED
    BY <2>3, <2>4
<1> QED
  BY <1>2, <1>4, <1>5 DEF IInv, InStep

LEMMA ReceiveStep == ASSUME IInv, Receive PROVE IInv'
<1> USE NamesOfBytes
<1>1. /\ Typed /\ TaskMatchesState /\ TypeOK
  BY DEF IInv, Typed
<1>2. /\ driver = "waiting" /\ ifrSR /\ driver' = "idle" /\ ifrSR' = FALSE /\ silence' = 0
      /\ command' = (IF sr = "more" THEN "Instant" ELSE "Inquiry")
      /\ received' = (IF sr \in Keys THEN Append(received, sr) ELSE received)
      /\ UNCHANGED <<kybdState, timer, held, instant, cb2, mode, sr, armed, pressed, taken, wasReset>>
  BY DEF Receive, keyboardVars, queueVars
<1>3. Typed'
  <2>1. TypeOK'
    BY <1>1, <1>2, Bounds DEF TypeOK
  <2>2. received' \in Seq(Keys)
    BY <1>1, <1>2, Transits DEF Typed
  <2> QED
    BY <1>1, <1>2, <2>1, <2>2 DEF Typed
<1>4. TaskMatchesState'
  BY <1>1, <1>2 DEF TaskMatchesState
<1>5. ASSUME ~wasReset PROVE Idle' /\ taken' = received' \o InTransit'
  <2>1. Answered
    BY <1>2, <1>5 DEF IInv, InStep, Idle, Called, Sent, Read, Turned, Open, Answered
  <2>2. Idle'
    BY <1>2, <2>1 DEF Idle, Answered, Asking
  <2>3. taken = received \o InTransit /\ received \in Seq(Keys)
    BY <1>1, <1>5 DEF IInv, Typed
  <2>4. CASE sr \in Keys
    <3>1. InTransit = <<sr>> /\ InTransit' = <<>>
      BY <1>1, <1>2, <2>1, <2>4 DEF Answered, InTransit, TypeOK
    <3>2. received' = received \o <<sr>> /\ received' \in Seq(Keys)
      BY <1>2, <2>3, <2>4, Transits
    <3> QED
      BY <1>2, <2>2, <2>3, <3>1, <3>2, Transits
  <2>5. CASE sr \notin Keys
    <3>1. InTransit' = InTransit /\ received' = received
      BY <1>2, <2>1, <2>5 DEF Answered, InTransit
    <3> QED
      BY <1>2, <2>2, <2>3, <3>1
  <2> QED
    BY <2>4, <2>5
<1> QED
  BY <1>2, <1>3, <1>4, <1>5 DEF IInv, InStep

LEMMA StartOverStep == ASSUME IInv, StartOver PROVE IInv'
<1> USE NamesOfBytes
<1>1. /\ Typed /\ TaskMatchesState /\ TypeOK
  BY DEF IInv, Typed
<1>2. /\ driver \in {"sent", "waiting"} /\ ~ifrSR /\ silence = Patience
      /\ mode' = 3 /\ driver' = "idle" /\ command' = "Model" /\ silence' = 0
      /\ UNCHANGED <<held, instant, sr, ifrSR, pressed, taken, received, wasReset>>
  BY DEF StartOver, ShiftIn, queueVars
<1>3. setCB2(1) \/ UNCHANGED <<cb2, kybdState, armed, timer>>
  BY DEF StartOver, ShiftIn
<1>4. Typed' /\ TaskMatchesState'
  <2>1. CASE setCB2(1)
    <3>1. TypeOK'
      BY <1>1, <1>2, <2>1, LineRises, Bounds DEF TypeOK
    <3> QED
      BY <1>1, <1>2, <2>1, <3>1, LineRises DEF Typed
  <2>2. CASE UNCHANGED <<cb2, kybdState, armed, timer>>
    <3>1. TypeOK'
      BY <1>1, <1>2, <2>2, Bounds DEF TypeOK
    <3> QED
      BY <1>1, <1>2, <2>2, <3>1 DEF Typed, TaskMatchesState
  <2> QED
    BY <1>3, <2>1, <2>2
<1>5. wasReset
  <2> SUFFICES ASSUME ~wasReset PROVE FALSE
    OBVIOUS
  <2>1. silence < Patience
    BY HeardInTime
  <2> QED
    BY <1>2, <2>1, Bounds
<1> QED
  BY <1>2, <1>4, <1>5 DEF IInv

---------------------------------------------------------------------------
(* The keyboard's side: its tasks.                                         *)

LEMMA ReceiveCommandStep == ASSUME IInv, receiveCommand PROVE IInv'
<1> USE NamesOfBytes
<1>1. /\ Typed /\ TaskMatchesState /\ TypeOK
  BY DEF IInv, Typed
<1>2. /\ driver # "calling" /\ ReceiveCommandTask \in DOMAIN armed
      /\ DOMAIN armed' = DOMAIN armed \ {ReceiveCommandTask}
      /\ armed' \in [DOMAIN armed' -> {0, 1}]
      /\ UNCHANGED <<driver, command, received, silence, wasReset>>
  BY <1>1, RunTask DEF receiveCommand, Typed, driverVars
<1>3. kybdState = "RecievingCommand"
  BY <1>1, <1>2 DEF TaskMatchesState
<1>4. kybdState' = "RecievedCommand" /\ ifrSR' = TRUE /\ cb2' = 0 /\ UNCHANGED <<mode, sr>>
  BY <1>3 DEF receiveCommand
<1>5. \/ /\ sr = "Inquiry" /\ timer' = timer
         /\ \E k \in Keys : /\ FindKeyEvent(k)
                            /\ held' = FirstByte(k) /\ instant' = SecondByte(k)
      \/ sr = "Inquiry" /\ timer' = MaxWait /\ UNCHANGED <<held, instant, pressed, taken>>
      \/ sr = "Instant" /\ held' = instant /\ instant' = "null" /\ UNCHANGED <<timer, pressed, taken>>
      \/ sr = "Model" /\ held' = "model" /\ UNCHANGED <<timer, instant, pressed, taken>>
  BY <1>3 DEF receiveCommand, queueVars
<1>6. TaskMatchesState'
  <2>1. ReceiveEndTask \notin DOMAIN armed /\ ReceiveCommandTask \notin DOMAIN armed'
    BY <1>1, <1>2, <1>3 DEF TaskMatchesState
  <2> QED
    BY <1>2, <2>1 DEF TaskMatchesState
<1>7. ASSUME ~wasReset
      PROVE  /\ Sent /\ taken = received \o InTransit /\ received \in Seq(Keys)
             /\ armed[ReceiveCommandTask] \in {0, 1}
  <2>1. Sent
    BY <1>2, <1>3, <1>7 DEF IInv, InStep, Idle, Called, Sent, Read, Turned, Open, Answered
  <2> QED
    BY <1>1, <1>2, <1>7, <2>1 DEF IInv, Typed
<1>8. ASSUME Sent, armed[ReceiveCommandTask] \in {0, 1}, Result'
      PROVE  Read'
  <2>1. silence <= 1
    BY <1>1, <1>8 DEF Sent, TypeOK
  <2> QED
    BY <1>2, <1>3, <1>4, <1>8, <2>1 DEF Sent, Read
<1>9. CASE timer' = timer /\ sr = "Inquiry" /\ \E k \in Keys :
              FindKeyEvent(k) /\ held' = FirstByte(k) /\ instant' = SecondByte(k)
  <2> PICK k \in Keys : FindKeyEvent(k) /\ held' = FirstByte(k) /\ instant' = SecondByte(k)
    BY <1>9
  <2> USE NamesOfKeys
  <2>1. /\ pressed' \in Seq(Keys) /\ taken' = taken \o <<k>> /\ taken' \in Seq(Keys)
    BY <1>1, KeyFound
  <2>2. held' \in Bytes /\ instant' \in LongKeys \cup {"null"}
    BY <1>1 DEF TypeOK, SecondByte
  <2>3. Typed'
    <3>1. TypeOK'
      BY <1>1, <1>2, <1>4, <1>9, <2>2 DEF TypeOK
    <3> QED
      BY <1>1, <1>2, <1>4, <2>1, <3>1 DEF Typed
  <2>4. ASSUME ~wasReset PROVE Read' /\ taken' = received' \o InTransit'
    <3>1. instant = "null" /\ held = "none" /\ timer = 0
      BY <1>1, <1>7, <1>9, <2>4 DEF Sent, Asking, TypeOK
    <3>2. Result'
      BY <1>9, <3>1 DEF Result
    <3>3. InTransit = <<>> /\ InTransit' = <<k>>
      <4>1. InTransit = <<>>
        BY <1>7, <2>4, <3>1 DEF Sent, InTransit
      <4>2. CASE k \in ShortKeys
        <5>1. held' = k
          BY <4>2
        <5> QED
          BY <4>1, <5>1 DEF InTransit
      <4>3. CASE k \notin ShortKeys
        <5>1. held' = "more" /\ instant' = k /\ k \in LongKeys
          BY <4>3
        <5>2. sr' = "Inquiry"
          BY <1>4, <1>9
        <5>3. held' \notin Keys /\ sr' \notin Keys
          BY <5>1, <5>2
        <5> QED
          BY <4>1, <5>1, <5>3 DEF InTransit
      <4> QED
        BY <4>1, <4>2, <4>3
    <3>4. taken = received
      BY <1>7, <2>4, <3>3, Transits
    <3> QED
      BY <1>2, <1>7, <1>8, <2>1, <2>4, <3>2, <3>3, <3>4
  <2> QED
    BY <1>2, <1>6, <2>3, <2>4 DEF IInv, InStep
<1>10. CASE sr = "Inquiry" /\ timer' = MaxWait /\ UNCHANGED <<held, instant, pressed, taken>>
  <2>1. Typed'
    <3>1. TypeOK'
      BY <1>1, <1>2, <1>4, <1>10, Bounds DEF TypeOK
    <3> QED
      BY <1>1, <1>2, <1>4, <1>10, <3>1 DEF Typed
  <2>2. ASSUME ~wasReset PROVE Read' /\ taken' = received' \o InTransit'
    <3>1. Result'
      BY <1>1, <1>7, <1>10, <2>2, Bounds DEF Sent, Asking, Result, TypeOK
    <3>2. InTransit' = InTransit
      BY <1>4, <1>7, <1>10, <2>2 DEF Sent, Asking, InTransit
    <3> QED
      BY <1>2, <1>7, <1>8, <1>10, <2>2, <3>1, <3>2
  <2> QED
    BY <1>2, <1>6, <2>1, <2>2 DEF IInv, InStep
<1>11. CASE sr = "Instant" /\ held' = instant /\ instant' = "null" /\ UNCHANGED <<timer, pressed, taken>>
  <2>1. Typed'
    <3>1. TypeOK'
      BY <1>1, <1>2, <1>4, <1>11 DEF TypeOK, Bytes
    <3> QED
      BY <1>1, <1>2, <1>4, <1>11, <3>1 DEF Typed
  <2>2. ASSUME ~wasReset PROVE Read' /\ taken' = received' \o InTransit'
    <3>1. Result' /\ instant \in LongKeys
      BY <1>7, <1>11, <2>2 DEF Sent, Asking, Result
    <3>2. InTransit' = InTransit
      BY <1>4, <1>7, <1>11, <2>2, <3>1 DEF Sent, Asking, InTransit
    <3> QED
      BY <1>2, <1>7, <1>8, <1>11, <2>2, <3>1, <3>2
  <2> QED
    BY <1>2, <1>6, <2>1, <2>2 DEF IInv, InStep
<1>12. CASE sr = "Model" /\ held' = "model" /\ UNCHANGED <<timer, instant, pressed, taken>>
  <2>1. Typed'
    <3>1. TypeOK'
      BY <1>1, <1>2, <1>4, <1>12 DEF TypeOK, Bytes
    <3> QED
      BY <1>1, <1>2, <1>4, <1>12, <3>1 DEF Typed
  <2>2. ASSUME ~wasReset PROVE Read' /\ taken' = received' \o InTransit'
    <3>1. Result'
      BY <1>7, <1>12, <2>2 DEF Sent, Asking, Result
    <3>2. InTransit' = InTransit
      BY <1>4, <1>7, <1>12, <2>2 DEF Sent, Asking, InTransit
    <3> QED
      BY <1>2, <1>7, <1>8, <1>12, <2>2, <3>1, <3>2
  <2> QED
    BY <1>2, <1>6, <2>1, <2>2 DEF IInv, InStep
<1> QED
  BY <1>5, <1>9, <1>10, <1>11, <1>12

LEMMA ReceiveEndStep == ASSUME IInv, receiveEndCommand PROVE IInv'
<1> USE NamesOfBytes
<1>1. /\ Typed /\ TaskMatchesState /\ TypeOK
  BY DEF IInv, Typed
<1>2. /\ ReceiveEndTask \in DOMAIN armed
      /\ DOMAIN armed' = DOMAIN armed \ {ReceiveEndTask}
      /\ armed' \in [DOMAIN armed' -> {0, 1}]
      /\ UNCHANGED <<timer, instant, mode, pressed, taken, driver, command,
                     received, silence, wasReset>>
  BY <1>1, RunTask DEF receiveEndCommand, Typed, driverVars, queueVars
<1>3. kybdState = "RecievingEndCommand"
  BY <1>1, <1>2 DEF TaskMatchesState
<1>4. /\ kybdState' = "Idle"
      /\ IF held = "none" THEN UNCHANGED <<held, cb2, sr, ifrSR>> ELSE deliverHeld
  BY <1>3 DEF receiveEndCommand
<1>5. Typed'
  <2>1. CASE held = "none"
    BY <1>1, <1>2, <1>4, <2>1 DEF Typed, TypeOK
  <2>2. CASE held # "none"
    <3>1. held' = "none" /\ cb2' = 1 /\ sr' \in {sr, held} /\ ifrSR' \in BOOLEAN
      <4>1. deliverHeld
        BY <1>4, <2>2
      <4>2. held' = "none" /\ cb2' = 1 /\ shiftInData(held)
        BY <4>1 DEF deliverHeld
      <4>3. CASE mode = 3
        BY <4>2, <4>3 DEF shiftInData
      <4>4. CASE mode # 3
        <5>1. UNCHANGED <<sr, ifrSR>>
          BY <4>2, <4>4, Zenon DEF shiftInData
        <5>2. ifrSR \in BOOLEAN
          BY <1>1 DEF TypeOK
        <5> QED
          BY <4>2, <5>1, <5>2
      <4> QED
        BY <4>3, <4>4
    <3>2. held \in Bytes
      BY <1>1, <2>2 DEF TypeOK
    <3>3. TypeOK'
      BY <1>1, <1>2, <1>4, <3>1 DEF TypeOK
    <3> QED
      BY <1>1, <1>2, <1>4, <3>1, <3>2, <3>3 DEF Typed
  <2> QED
    BY <2>1, <2>2
<1>6. TaskMatchesState'
  <2>1. ReceiveCommandTask \notin DOMAIN armed /\ ReceiveEndTask \notin DOMAIN armed'
    BY <1>1, <1>2, <1>3 DEF TaskMatchesState
  <2> QED
    BY <1>2, <2>1 DEF TaskMatchesState
<1>7. ASSUME ~wasReset PROVE InStep' /\ InTransit' = InTransit
  <2>1. Turned
    BY <1>2, <1>3, <1>7 DEF IInv, InStep, Idle, Called, Sent, Read, Turned, Open, Answered
  <2>2. DOMAIN armed' = {}
    BY <1>2, <2>1 DEF Turned
  <2>3. CASE held = "none"
    <3>1. Open'
      BY <1>2, <1>4, <2>1, <2>2, <2>3 DEF Turned, Open, Result
    <3>2. InTransit' = InTransit
      BY <1>2, <1>4, <2>1, <2>3 DEF Turned, InTransit
    <3> QED
      BY <3>1, <3>2 DEF InStep
  <2>4. CASE held # "none"
    <3>1. held' = "none" /\ cb2' = 1 /\ sr' = held /\ ifrSR' = TRUE
      BY <1>4, <2>1, <2>4 DEF Turned, deliverHeld, shiftInData
    <3>2. timer = 0 /\ (held = "more" <=> instant \in LongKeys) /\ silence <= MaxWait
      BY <1>1, <2>1, <2>4, Bounds DEF Turned, Result, TypeOK
    <3>3. Answered'
      BY <1>2, <1>4, <2>1, <2>2, <3>1, <3>2 DEF Turned, Answered
    <3>4. InTransit' = InTransit
      BY <1>2, <2>1, <3>1 DEF Turned, InTransit
    <3> QED
      BY <3>3, <3>4 DEF InStep
  <2> QED
    BY <2>3, <2>4
<1> QED
  BY <1>2, <1>5, <1>6, <1>7 DEF IInv

---------------------------------------------------------------------------
(* The tick.  What every tick does, besides its update.                    *)

Ticks ==
    /\ \A t \in DOMAIN armed : armed[t] = 0
    /\ armed' = [t \in DOMAIN armed |-> 1]
    /\ silence' = IF driver \in {"sent", "waiting"} /\ ~ifrSR /\ silence < Patience
                  THEN silence + 1 ELSE silence
    /\ UNCHANGED <<kybdState, mode, driver, command, received, wasReset>>

LEMMA TicksAges ==
    ASSUME Typed, TaskMatchesState, Ticks
    PROVE  /\ DOMAIN armed' = DOMAIN armed /\ armed' \in [DOMAIN armed' -> {0, 1}]
           /\ \A t \in DOMAIN armed : armed[t] = 0 /\ armed'[t] = 1
           /\ silence' \in 0..Patience /\ silence' \in {silence, silence + 1}
           /\ ifrSR \/ driver \notin {"sent", "waiting"} => silence' = silence
           /\ UNCHANGED <<kybdState, mode, driver, command, received, wasReset>>
           /\ TaskMatchesState'
<1>1. /\ DOMAIN armed' = DOMAIN armed /\ armed' \in [DOMAIN armed' -> {0, 1}]
      /\ \A t \in DOMAIN armed : armed[t] = 0 /\ armed'[t] = 1
      /\ UNCHANGED <<kybdState, mode, driver, command, received, wasReset>>
  BY DEF Ticks
<1>2. /\ silence' \in {silence, silence + 1}
      /\ ifrSR \/ driver \notin {"sent", "waiting"} => silence' = silence
  BY DEF Ticks
<1>3. silence' \in 0..Patience
  BY Bounds DEF Ticks, Typed, TypeOK
<1>4. TaskMatchesState'
  BY <1>1 DEF TaskMatchesState
<1> QED
  BY <1>1, <1>2, <1>3, <1>4

LEMMA TickNothingStep == ASSUME IInv, Tick(updateNothing) PROVE IInv'
<1> USE NamesOfBytes
<1>1. /\ Typed /\ TaskMatchesState /\ TypeOK
  BY DEF IInv, Typed
<1>2. Ticks
  BY DEF Tick, Ticks
<1>3. /\ timer = 0
      /\ UNCHANGED <<timer, held, instant, cb2, sr, ifrSR, pressed, taken>>
  BY DEF Tick, updateNothing, queueVars
<1>4. Typed'
  <2>1. TypeOK'
    BY <1>1, <1>2, <1>3, TicksAges DEF TypeOK
  <2> QED
    BY <1>1, <1>2, <1>3, <2>1, TicksAges DEF Typed
<1>5. ASSUME ~wasReset PROVE InStep'
  <2>1. CASE Idle
    BY <1>1, <1>2, <1>3, <2>1, TicksAges DEF InStep, Idle, Asking
  <2>2. CASE Called
    BY <1>1, <1>2, <1>3, <2>2, TicksAges DEF InStep, Called, Asking
  <2>3. CASE Sent
    <3>1. silence = 0 /\ silence' <= 1 /\ armed'[ReceiveCommandTask] = 1
      BY <1>1, <1>2, <2>3, TicksAges DEF Sent, TypeOK
    <3> QED
      BY <1>1, <1>2, <1>3, <2>3, <3>1, TicksAges DEF InStep, Sent, Asking
  <2>4. CASE Read
    BY <1>1, <1>2, <1>3, <2>4, TicksAges DEF InStep, Read, Result
  <2>5. CASE Turned
    <3>1. silence = 0 /\ silence' <= 1 /\ armed'[ReceiveEndTask] = 1 /\ silence' + 0 <= MaxWait
      BY <1>1, <1>2, <2>5, TicksAges, Bounds DEF Turned, TypeOK
    <3> QED
      BY <1>1, <1>2, <1>3, <2>5, <3>1, TicksAges DEF InStep, Turned, Result
  <2>6. CASE Answered
    BY <1>1, <1>2, <1>3, <2>6, TicksAges DEF InStep, Answered
  <2> QED
    BY <1>3, <1>5, <2>1, <2>2, <2>3, <2>4, <2>5, <2>6 DEF IInv, InStep, Open
<1>6. ASSUME ~wasReset PROVE taken' = received' \o InTransit'
  <2>1. InTransit' = InTransit
    BY <1>3 DEF InTransit
  <2> QED
    BY <1>1, <1>2, <1>3, <1>6, <2>1, TicksAges DEF IInv
<1> QED
  BY <1>1, <1>2, <1>4, <1>5, <1>6, TicksAges DEF IInv

(* Where an Inquiry can be open when the tick comes.                       *)
LEMMA OpenInquiry ==
    ASSUME IInv, ~wasReset, timer # 0
    PROVE  /\ Read \/ Turned \/ Open
           /\ held = "none" /\ instant = "null" /\ InTransit = <<>> /\ taken = received
<1>1. Typed /\ InStep /\ taken = received \o InTransit
  BY DEF IInv
<1>2. /\ Read \/ Turned \/ Open
      /\ held = "none" /\ instant = "null"
  BY <1>1 DEF InStep, Idle, Called, Sent, Read, Turned, Open, Answered, Asking, Result
<1>3. InTransit = <<>>
  <2>1. ifrSR => sr \notin Keys
    BY <1>1, <1>2, NamesOfBytes DEF Read, Turned, Open, Typed, TypeOK
  <2>2. held \notin Keys /\ instant \notin LongKeys
    BY <1>2, NamesOfBytes
  <2> QED
    BY <2>1, <2>2 DEF InTransit
<1> QED
  BY <1>1, <1>2, <1>3, Transits DEF Typed

(* The answer to an open Inquiry, held or sent.                            *)
LEMMA Answers ==
    ASSUME Typed, NEW v, gotKeyBoardData(v)
    PROVE  /\ kybdState # "Idle" => held' = v /\ UNCHANGED <<cb2, sr, ifrSR>>
           /\ kybdState = "Idle" /\ mode = 3 => held' = held /\ cb2' = 1 /\ sr' = v /\ ifrSR' = TRUE
           /\ held' \in {held, v} /\ cb2' \in {cb2, 1} /\ sr' \in {sr, v} /\ ifrSR' \in BOOLEAN
<1>1. CASE kybdState # "Idle"
  <2>1. held' = v /\ UNCHANGED <<cb2, sr, ifrSR>>
    BY <1>1 DEF gotKeyBoardData
  <2> QED
    BY <1>1, <2>1 DEF Typed, TypeOK
<1>2. CASE kybdState = "Idle"
  <2>1. held' = held /\ shiftInData(v) /\ cb2' = 1
    BY <1>2 DEF gotKeyBoardData
  <2>2. CASE mode = 3
    BY <1>2, <2>1, <2>2 DEF shiftInData
  <2>3. CASE mode # 3
    <3>1. UNCHANGED <<sr, ifrSR>>
      BY <2>1, <2>3, Zenon DEF shiftInData
    <3> QED
      BY <1>2, <2>1, <2>3, <3>1 DEF Typed, TypeOK
  <2> QED
    BY <2>2, <2>3
<1> QED
  BY <1>1, <1>2

LEMMA TickKeyStep == ASSUME IInv, Tick(updateKey) PROVE IInv'
<1> USE NamesOfBytes
<1>1. /\ Typed /\ TaskMatchesState /\ TypeOK
  BY DEF IInv, Typed
<1>2. Ticks
  BY DEF Tick, Ticks
<1>3. PICK k \in Keys : /\ FindKeyEvent(k) /\ timer # 0 /\ timer' = 0
                        /\ gotKeyBoardData(FirstByte(k)) /\ instant' = SecondByte(k)
  BY DEF Tick, updateKey
<1> USE NamesOfKeys
<1>4. /\ pressed' \in Seq(Keys) /\ taken' = taken \o <<k>> /\ taken' \in Seq(Keys)
  BY <1>1, <1>3, KeyFound
<1>5. Typed'
  <2>1. instant' \in LongKeys \cup {"null"}
    BY <1>1, <1>3 DEF TypeOK, SecondByte
  <2>2. held' \in Bytes \cup {"none"} /\ cb2' \in {0, 1} /\ ifrSR' \in BOOLEAN
        /\ sr' \in Bytes \cup {"zero"} \cup Commands
    <3>1. held' \in {held, FirstByte(k)} /\ cb2' \in {cb2, 1} /\ sr' \in {sr, FirstByte(k)}
          /\ ifrSR' \in BOOLEAN
      BY <1>1, <1>3, Answers
    <3> QED
      BY <1>1, <3>1 DEF Typed, TypeOK
  <2>3. TypeOK'
    BY <1>1, <1>2, <1>3, <2>1, <2>2, TicksAges, Bounds DEF TypeOK
  <2> QED
    BY <1>1, <1>2, <1>4, <2>2, <2>3, TicksAges DEF Typed
<1>6. ASSUME ~wasReset PROVE InStep' /\ taken' = received' \o InTransit'
  <2>1. /\ Read \/ Turned \/ Open
        /\ held = "none" /\ instant = "null" /\ InTransit = <<>> /\ taken = received
    BY <1>3, <1>6, OpenInquiry
  <2>2. /\ FirstByte(k) # "none"
        /\ FirstByte(k) = "more" <=> instant' \in LongKeys
    BY <1>3, <2>1
  <2>3. ASSUME Read PROVE InStep'
    <3>1. held' = FirstByte(k) /\ UNCHANGED <<cb2, sr, ifrSR>>
      BY <1>1, <1>3, <2>3, Answers DEF Read
    <3>2. Result'
      BY <1>3, <2>2, <3>1 DEF Result
    <3> QED
      BY <1>1, <1>2, <2>3, <3>1, <3>2, TicksAges DEF InStep, Read
  <2>4. ASSUME Turned PROVE InStep'
    <3>1. held' = FirstByte(k) /\ UNCHANGED <<cb2, sr, ifrSR>>
      BY <1>1, <1>3, <2>4, Answers DEF Turned
    <3>2. Result'
      BY <1>3, <2>2, <3>1 DEF Result
    <3>3. silence' <= 1 /\ armed'[ReceiveEndTask] = 1 /\ silence' + timer' <= MaxWait
      BY <1>1, <1>2, <1>3, <2>4, TicksAges, Bounds DEF Turned, TypeOK
    <3> QED
      BY <1>1, <1>2, <2>4, <3>1, <3>2, <3>3, TicksAges DEF InStep, Turned
  <2>5. ASSUME Open PROVE InStep'
    <3>1. held' = held /\ cb2' = 1 /\ sr' = FirstByte(k) /\ ifrSR' = TRUE
      BY <1>1, <1>3, <2>5, Answers DEF Open
    <3>2. silence' <= MaxWait
      BY <1>1, <1>2, <1>3, <2>5, TicksAges, Bounds DEF Open, TypeOK
    <3> QED
      BY <1>1, <1>2, <1>3, <2>2, <2>5, <3>1, <3>2, TicksAges DEF InStep, Open, Answered
  <2>6. InTransit' = <<k>>
    <3>1. \/ held' = FirstByte(k)
          \/ held' = "none" /\ sr' = FirstByte(k) /\ ifrSR'
      <4>1. held = "none" /\ (kybdState = "Idle" => mode = 3)
        BY <2>1 DEF Read, Turned, Open
      <4>2. CASE kybdState = "Idle"
        BY <1>1, <1>3, <4>1, <4>2, Answers
      <4>3. CASE kybdState # "Idle"
        BY <1>1, <1>3, <4>3, Answers
      <4> QED
        BY <4>2, <4>3
    <3>2. held' \notin Keys /\ ifrSR' /\ sr' \in Keys => sr' = FirstByte(k)
      <4>1. CASE kybdState = "Idle"
        BY <1>1, <1>3, <2>1, <4>1, Answers DEF Read, Turned, Open
      <4>2. CASE kybdState # "Idle"
        <5>1. UNCHANGED <<cb2, sr, ifrSR>>
          BY <1>1, <1>3, <4>2, Answers
        <5>2. ifrSR => sr \notin Keys
          BY <1>1, <2>1, <4>2 DEF Read, Turned, Open, TypeOK
        <5> QED
          BY <5>1, <5>2
      <4> QED
        BY <4>1, <4>2
    <3>3. CASE k \in ShortKeys
      <4>1. FirstByte(k) = k
        BY <3>3
      <4> QED
        BY <3>1, <3>3, <4>1 DEF InTransit
    <3>4. CASE k \notin ShortKeys
      <4>1. instant' = k /\ k \in LongKeys /\ FirstByte(k) = "more"
        BY <1>3, <3>4
      <4>2. held' \notin Keys
        BY <3>1, <4>1
      <4>3. ~(ifrSR' /\ sr' \in Keys)
        BY <3>2, <4>1, <4>2
      <4> QED
        BY <4>1, <4>2, <4>3 DEF InTransit
    <3> QED
      BY <3>3, <3>4
  <2>7. taken' = received' \o InTransit'
    BY <1>1, <1>2, <1>4, <2>1, <2>6, TicksAges
  <2> QED
    BY <2>1, <2>3, <2>4, <2>5, <2>7
<1> QED
  BY <1>1, <1>2, <1>5, <1>6, TicksAges DEF IInv

LEMMA TickNoKeyStep == ASSUME IInv, Tick(updateNoKey) PROVE IInv'
<1> USE NamesOfBytes
<1>1. /\ Typed /\ TaskMatchesState /\ TypeOK
  BY DEF IInv, Typed
<1>2. Ticks
  BY DEF Tick, Ticks
<1>3. /\ timer # 0 /\ timer' = timer - 1
      /\ timer = 1 => gotKeyBoardData("null")
      /\ timer # 1 => UNCHANGED <<held, cb2, sr, ifrSR>>
      /\ UNCHANGED <<instant, pressed, taken>>
  BY DEF Tick, updateNoKey, timeOut, queueVars
<1>4. Typed'
  <2>1. held' \in Bytes \cup {"none"} /\ cb2' \in {0, 1} /\ ifrSR' \in BOOLEAN
        /\ sr' \in Bytes \cup {"zero"} \cup Commands
    <3>1. CASE timer = 1
      BY <1>1, <1>3, <3>1, Answers DEF Typed, TypeOK, Bytes
    <3>2. CASE timer # 1
      BY <1>1, <1>3, <3>2 DEF Typed, TypeOK
    <3> QED
      BY <3>1, <3>2
  <2>2. timer' \in 0..MaxWait
    BY <1>1, <1>3, Bounds DEF TypeOK
  <2>3. TypeOK'
    BY <1>1, <1>2, <1>3, <2>1, <2>2, TicksAges DEF TypeOK
  <2> QED
    BY <1>1, <1>2, <1>3, <2>1, <2>3, TicksAges DEF Typed
<1>5. ASSUME ~wasReset PROVE InStep' /\ taken' = received' \o InTransit'
  <2>1. /\ Read \/ Turned \/ Open
        /\ held = "none" /\ instant = "null" /\ InTransit = <<>> /\ taken = received
    BY <1>3, <1>5, OpenInquiry
  <2>2. timer = 1 <=> timer' = 0
    BY <1>1, <1>3 DEF TypeOK
  <2>3. ASSUME kybdState # "Idle" PROVE InStep'
    <3>1. UNCHANGED <<cb2, sr, ifrSR>> /\ Result'
      <4>1. CASE timer = 1
        BY <1>1, <1>3, <2>1, <2>2, <2>3, <4>1, Answers DEF Result
      <4>2. CASE timer # 1
        BY <1>1, <1>3, <2>1, <2>2, <4>2 DEF Result
      <4> QED
        BY <4>1, <4>2
    <3>2. ASSUME Read PROVE InStep'
      BY <1>1, <1>2, <3>1, <3>2, TicksAges DEF InStep, Read
    <3>3. ASSUME Turned PROVE InStep'
      <4>1. silence' <= 1 /\ armed'[ReceiveEndTask] = 1 /\ silence' + timer' <= MaxWait
        BY <1>1, <1>2, <1>3, <3>3, TicksAges, Bounds DEF Turned, TypeOK
      <4> QED
        BY <1>1, <1>2, <3>1, <3>3, <4>1, TicksAges DEF InStep, Turned
    <3> QED
      BY <2>1, <2>3, <3>2, <3>3 DEF Open
  <2>4. ASSUME kybdState = "Idle" PROVE InStep'
    <3>1. Open /\ silence' + timer' <= MaxWait
      BY <1>1, <1>2, <1>3, <2>1, <2>4, TicksAges, Bounds DEF Read, Turned, Open, TypeOK
    <3>2. CASE timer = 1
      <4>1. held' = held /\ cb2' = 1 /\ sr' = "null" /\ ifrSR' = TRUE
        BY <1>1, <1>3, <3>1, <3>2, Answers DEF Open
      <4>2. silence' <= MaxWait
        BY <1>1, <1>2, <3>1, <3>2, TicksAges, Bounds DEF Open, TypeOK
      <4> QED
        BY <1>1, <1>2, <1>3, <2>1, <2>2, <3>1, <3>2, <4>1, <4>2, TicksAges DEF InStep, Open, Answered
    <3>3. CASE timer # 1
      BY <1>1, <1>2, <1>3, <2>1, <2>2, <3>1, <3>3, TicksAges DEF InStep, Open
    <3> QED
      BY <3>2, <3>3
  <2>5. InTransit' = <<>>
    <3>1. held' \in {"none", "null"} /\ instant' = "null" /\ (ifrSR' => sr' \in Commands \cup {"null"})
      <4>1. CASE timer = 1 /\ kybdState = "Idle"
        BY <1>1, <1>3, <2>1, <4>1, Answers DEF Open, Read, Turned
      <4>2. CASE timer = 1 /\ kybdState # "Idle"
        BY <1>1, <1>3, <2>1, <4>2, Answers DEF Open, Read, Turned, Commands, TypeOK
      <4>3. CASE timer # 1
        BY <1>1, <1>3, <2>1, <4>3 DEF Open, Read, Turned, Commands, TypeOK
      <4> QED
        BY <4>1, <4>2, <4>3
    <3>2. held' \notin Keys /\ instant' \notin LongKeys
      BY <3>1
    <3>3. ~(ifrSR' /\ sr' \in Keys)
      BY <3>1 DEF Commands
    <3> QED
      BY <3>2, <3>3 DEF InTransit
  <2>6. taken' = received' \o InTransit'
    BY <1>1, <1>2, <1>3, <2>1, <2>5, TicksAges, Transits DEF Typed
  <2> QED
    BY <2>3, <2>4, <2>6
<1> QED
  BY <1>1, <1>2, <1>4, <1>5, TicksAges DEF IInv

---------------------------------------------------------------------------
(* The user, and the reset.                                                *)

LEMMA PressStep == ASSUME IInv, NEW k \in Keys, Press(k) PROVE IInv'
<1>1. /\ Typed /\ TaskMatchesState /\ TypeOK
  BY DEF IInv, Typed
<1>2. /\ pressed' = Append(pressed, k)
      /\ UNCHANGED <<kybdState, timer, held, instant, cb2, mode, sr, ifrSR, armed, taken,
                     driver, command, received, silence, wasReset>>
  BY DEF Press, keyboardVars, viaVars, driverVars
<1>3. Typed'
  <2>1. TypeOK'
    BY <1>1, <1>2 DEF TypeOK
  <2>2. pressed' \in Seq(Keys)
    BY <1>1, <1>2, Transits DEF Typed
  <2> QED
    BY <1>1, <1>2, <2>1, <2>2 DEF Typed
<1>4. TaskMatchesState'
  BY <1>1, <1>2 DEF TaskMatchesState
<1>5. InStep => InStep'
  BY <1>2 DEF InStep, Idle, Called, Sent, Read, Turned, Open, Answered, Asking, Result
<1>6. InTransit' = InTransit
  BY <1>2 DEF InTransit
<1> QED
  BY <1>2, <1>3, <1>4, <1>5, <1>6 DEF IInv

LEMMA MacResetStep == ASSUME IInv, MacReset PROVE IInv'
<1>1. /\ Typed /\ TaskMatchesState /\ TypeOK
  BY DEF IInv, Typed
<1>2. /\ wasReset' = TRUE /\ armed' = [t \in {} |-> 0] /\ DOMAIN armed' = {}
      /\ mode' = 0 /\ sr' = "zero" /\ ifrSR' = FALSE
      /\ driver' = "idle" /\ command' = "Model" /\ silence' = 0
      /\ UNCHANGED <<kybdState, timer, held, instant, cb2, pressed, taken, received>>
  BY DEF MacReset, keyboardVars, queueVars
<1>3. Typed'
  <2>1. TypeOK'
    BY <1>1, <1>2, Bounds DEF TypeOK
  <2>2. armed' \in [DOMAIN armed' -> {0, 1}]
    BY <1>2
  <2> QED
    BY <1>1, <1>2, <2>1, <2>2 DEF Typed
<1>4. TaskMatchesState'
  BY <1>2 DEF TaskMatchesState
<1> QED
  BY <1>2, <1>3, <1>4 DEF IInv

---------------------------------------------------------------------------
(* What follows.                                                           *)

LEMMA StutterStep == ASSUME IInv, UNCHANGED vars PROVE IInv'
<1>1. UNCHANGED <<kybdState, timer, held, instant, cb2, mode, sr, ifrSR, armed, pressed, taken,
                  driver, command, received, silence, wasReset>>
  BY DEF vars, keyboardVars, viaVars, queueVars, driverVars
<1>2. Typed => Typed'
  BY <1>1 DEF Typed, TypeOK
<1>3. TaskMatchesState => TaskMatchesState'
  BY <1>1 DEF TaskMatchesState
<1>4. InStep => InStep'
  BY <1>1 DEF InStep, Idle, Called, Sent, Read, Turned, Open, Answered, Asking, Result
<1>5. InTransit' = InTransit
  BY <1>1 DEF InTransit
<1> QED
  BY <1>1, <1>2, <1>3, <1>4, <1>5 DEF IInv

(* The invariant is inductive.                                             *)
THEOREM Invariance == Spec => []IInv
<1>1. Init => IInv
  BY InitStep
<1>2. IInv /\ [Next]_vars => IInv'
  <2> SUFFICES ASSUME IInv, [Next]_vars PROVE IInv'
    OBVIOUS
  <2>1. CASE receiveCommand \/ receiveEndCommand
    BY <2>1, ReceiveCommandStep, ReceiveEndStep
  <2>2. CASE Tick(updateNothing) \/ Tick(updateKey) \/ Tick(updateNoKey)
    BY <2>2, TickNothingStep, TickKeyStep, TickNoKeyStep
  <2>3. CASE \E k \in Keys : Press(k)
    BY <2>3, PressStep
  <2>4. CASE Driver
    BY <2>4, CallStep, SendCommandStep, TurnRoundStep, ReceiveStep, StartOverStep DEF Driver
  <2>5. CASE Abort
    BY <2>5, AbortStep
  <2>6. CASE MacReset
    BY <2>6, MacResetStep
  <2>7. CASE UNCHANGED vars
    BY <2>7, StutterStep
  <2> QED
    BY <2>1, <2>2, <2>3, <2>4, <2>5, <2>6, <2>7 DEF Next
<1> QED
  BY <1>1, <1>2, PTL DEF Spec

(* What the keyboard, the register and the driver keep has its type: the   *)
(* timer of an Inquiry never passes below zero.                            *)
THEOREM TypeCorrect == Spec => []TypeOK
<1>1. IInv => TypeOK
  BY DEF IInv, Typed
<1> QED
  BY <1>1, Invariance, PTL

(* A task finds the keyboard in the state it was armed for (receiveCommand *)
(* and receiveEndCommand), before a reset and after it.                    *)
THEOREM TasksInState == Spec => []TaskMatchesState
<1>1. IInv => TaskMatchesState
  BY DEF IInv
<1> QED
  BY <1>1, Invariance, PTL

(* Every key that FindKeyEvent took reaches the driver once, in order.     *)
THEOREM KeysKept == Spec => []KeysInOrder
<1>1. IInv => KeysInOrder
  BY DEF IInv, KeysInOrder
<1> QED
  BY <1>1, Invariance, PTL

(* The driver hears from the keyboard before its patience runs out, for    *)
(* any MAX_KEYBOARD_WAIT that leaves three ticks for the bytes.            *)
THEOREM HeardOften == Spec => []NeverSilent
<1>1. IInv => NeverSilent
  BY HeardInTime DEF NeverSilent
<1> QED
  BY <1>1, Invariance, PTL

(* The keyboard lets go of an answer only when the driver waits for it.    *)
THEOREM AnsweredInTurn == Spec => AnswersAwaited
<1> DEFINE Dropped == \/ held # "none" /\ held' = "none"
                      \/ timer # 0 /\ timer' = 0 /\ kybdState = "Idle" /\ kybdState' = "Idle"
<1>1. ASSUME IInv, Next, ~wasReset, Dropped
      PROVE  driver = "waiting" /\ mode = 3 /\ ifrSR'
  <2>1. /\ Typed /\ TaskMatchesState /\ TypeOK /\ InStep
    BY <1>1 DEF IInv, Typed
  <2>2. CASE receiveCommand
    <3>1. ReceiveCommandTask \in DOMAIN armed
      BY <2>2 DEF receiveCommand, Run
    <3>2. kybdState = "RecievingCommand"
      BY <2>1, <3>1 DEF TaskMatchesState
    <3>3. kybdState' = "RecievedCommand"
      BY <2>2, <3>2 DEF receiveCommand
    <3>4. held = "none"
      BY <2>1, <3>2 DEF InStep, Idle, Called, Sent, Read, Turned, Open, Answered, Asking
    <3> QED
      BY <1>1, <3>2, <3>4
  <2>3. CASE receiveEndCommand
    <3>1. ReceiveEndTask \in DOMAIN armed /\ timer' = timer
      BY <2>3 DEF receiveEndCommand, Run
    <3>2. kybdState = "RecievingEndCommand"
      BY <2>1, <3>1 DEF TaskMatchesState
    <3>3. Turned /\ held # "none"
      BY <1>1, <2>1, <3>1, <3>2 DEF InStep, Idle, Called, Sent, Read, Turned, Open, Answered
    <3>4. deliverHeld
      BY <2>3, <3>2, <3>3 DEF receiveEndCommand
    <3> QED
      BY <3>3, <3>4 DEF Turned, deliverHeld, shiftInData
  <2>4. CASE Tick(updateNothing)
    BY <1>1, <2>4 DEF Tick, updateNothing
  <2>5. CASE Tick(updateKey) \/ Tick(updateNoKey)
    <3>1. timer # 0 /\ kybdState' = kybdState
      BY <2>5 DEF Tick, updateKey, updateNoKey
    <3>2. (Read \/ Turned \/ Open) /\ held = "none"
      BY <1>1, <3>1, OpenInquiry
    <3>3. Open /\ timer' = 0
      BY <1>1, <3>1, <3>2 DEF Read, Turned
    <3>4. \E v \in Bytes : gotKeyBoardData(v)
      <4>1. CASE Tick(updateKey)
        BY <4>1, NamesOfKeys DEF Tick, updateKey
      <4>2. CASE Tick(updateNoKey)
        <5>1. timer = 1
          BY <2>1, <3>3, <4>2 DEF Tick, updateNoKey, timeOut, TypeOK
        <5>2. gotKeyBoardData("null")
          BY <4>2, <5>1 DEF Tick, updateNoKey, timeOut
        <5> QED
          BY <5>2 DEF Bytes
      <4> QED
        BY <2>5, <4>1, <4>2
    <3> QED
      BY <2>1, <3>3, <3>4, Answers DEF Open
  <2>6. CASE Call \/ Abort
    <3>1. setCB2(0) /\ held' = held
      BY <2>6 DEF Call, Abort, PullLow
    <3>2. Open
      BY <1>1, <2>1, <3>1 DEF InStep, Idle, Called, Sent, Read, Turned, Open, Answered, Asking
    <3> QED
      BY <1>1, <2>1, <3>1, <3>2, LineFalls DEF Open
  <2>7. CASE TurnRound \/ StartOver
    <3>1. held' = held /\ timer' = timer
      BY <2>1, <2>7, LineRises DEF TurnRound, StartOver, ShiftIn
    <3> QED
      BY <1>1, <3>1
  <2>8. CASE SendCommand \/ Receive \/ MacReset \/ \E k \in Keys : Press(k)
    <3>1. held' = held /\ timer' = timer
      BY <2>8 DEF SendCommand, Receive, MacReset, Press, keyboardVars
    <3> QED
      BY <1>1, <3>1
  <2> QED
    BY <1>1, <2>2, <2>3, <2>4, <2>5, <2>6, <2>7, <2>8 DEF Next, Driver
<1>2. IInv /\ [Next]_vars =>
        [ ~wasReset /\ Dropped => driver = "waiting" /\ mode = 3 /\ ifrSR' ]_vars
  BY <1>1
<1> QED
  BY <1>2, Invariance, PTL DEF Spec, AnswersAwaited

=============================================================================
