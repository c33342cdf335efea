---------------------------- MODULE InputEvents ----------------------------
(***************************************************************************)
(* The host's input on its way to a compact Mac: the shell pushes keys,    *)
(* buttons and pointer positions between two ticks, debugger scripts push  *)
(* events for later, and one queue (platform/common/event_queue.cpp) hands *)
(* them to the mouse (devices/mouse.cpp), once a tick, and to the keyboard *)
(* (FindKeyEvent), whenever it asks, with a lock that debounces buttons.   *)
(*                                                                         *)
(* An event's fireCycle is kept as the time left until it is due: 0 for an *)
(* immediate event, which is how the queue tells the two parts of itself   *)
(* apart.  Time is counted in units of a fraction of a tick.               *)
(***************************************************************************)
EXTENDS Integers, Sequences, FiniteSets

CONSTANTS
    HostKeys, ScriptKeys,   \* the keys of the host's keyboard, and of scripts
    KeptKeys,               \* host keys not released in the background (Control, CapsLock)
    Places, Origin,         \* pointer positions, and where the guest's cursor starts
    TickUnits,              \* units of time in a tick
    Gap, Hold,              \* CmdType, CmdKey: 160000 before a key, 80000 until it is up
    Lead,                   \* CmdKey: 10000 between modifier and key
    ClickDown, ClickUp,     \* CmdClick: 40000 and 120000
    LockTicks,              \* the ticks a button event locks the queue (4)
    MaxEvents, MaxTotal     \* bounds: events of each source (host, keys and clicks of
                            \* scripts), and of all

Sources == {"host", "script", "click"}

ASSUME InputAssumption ==
    /\ KeptKeys \subseteq HostKeys
    /\ Origin \in Places /\ IsFiniteSet(HostKeys)
    /\ {TickUnits, Gap, Hold, ClickDown, LockTicks} \subseteq Nat \ {0}
    /\ Hold <= Gap /\ Lead \in Nat /\ ClickUp \in Nat /\ ClickDown < ClickUp
    /\ \A s \in Sources : MaxEvents[s] \in Nat
    /\ MaxTotal \in Nat

VARIABLES
    queue,                               \* s_queue
    lock,                                \* g_masterEvtQLock
    phase, left,                         \* between ticks or in one, and the units left of it
    hostKeys, hostButton, background,    \* g_theKeys, g_mouseButtonState, backgroundFlag_
    curMouse,                            \* g_curMouseH and V
    mouseEnabled,                        \* s_mouseEnabledLatch
    guestKeys, guestButton, guestMouse,  \* what the guest was told
    by,                                  \* and by whom of each key, last
    sent, got,                           \* numbers of the last events pushed and taken
    cleared, cut                         \* a script cleared the pending keys; those of
                                         \* which it erased events, not used since

hostVars == <<hostKeys, hostButton, background>>
guestVars == <<guestKeys, by, guestButton, guestMouse, got>>
clearVars == <<cleared, cut>>
vars == <<queue, lock, phase, left, hostVars, curMouse, mouseEnabled, guestVars, sent, clearVars>>

Keys == HostKeys \cup ScriptKeys

(* Key and button events are numbered by where they come from.             *)
Key(k, down, wait, source, n) ==
    [kind |-> "Key", key |-> k, down |-> down, wait |-> wait, source |-> source, n |-> n]
Button(down, at, wait, source, n) ==
    [kind |-> "Button", down |-> down, at |-> at, wait |-> wait, source |-> source, n |-> n]
Pos(p, wait) == [kind |-> "Pos", at |-> p, wait |-> wait]

---------------------------------------------------------------------------
(* The queue.                                                              *)

Insert(q, i, e) == SubSeq(q, 1, i) \o <<e>> \o SubSeq(q, i + 1, Len(q))

(* The immediate events at the front of the queue.                         *)
DueCount(q) ==
    CHOOSE n \in 0..Len(q) :
        /\ \A i \in 1..n : q[i].wait = 0
        /\ n = Len(q) \/ q[n + 1].wait # 0

(* The last event that is not later than w, 0 if there is none.            *)
LastUpTo(q, w) ==
    CHOOSE n \in 0..Len(q) :
        /\ \A i \in n + 1..Len(q) : q[i].wait > w
        /\ n = 0 \/ q[n].wait <= w

(* (Mutant) a future event goes before those of the same time.             *)
EventQ_PushUnstable(q, e) ==
    IF e.wait = 0 THEN Insert(q, DueCount(q), e) ELSE Insert(q, LastUpTo(q, e.wait - 1), e)

EventQ_Push(q, e) ==
    IF e.wait = 0 THEN Insert(q, DueCount(q), e) ELSE Insert(q, LastUpTo(q, e.wait), e)

(* Coalesces with the last immediate position, wherever it is.             *)
EventQ_PushMousePos(q, p) ==
    LET due == {i \in 1..DueCount(q) : q[i].kind = "Pos"}
        last == CHOOSE i \in due : \A j \in due : j <= i
    IN IF due = {} THEN EventQ_Push(q, Pos(p, 0)) ELSE [q EXCEPT ![last].at = p]

(* The head of the queue is a due event of this kind.                      *)
EventQ_Peek(q, kind) == q # <<>> /\ Head(q).wait = 0 /\ Head(q).kind = kind

IsFutureKey(e) == e.wait > 0 /\ e.kind = "Key"

(* What is left when the keys of the future are erased.                    *)
EventQ_ClearFutureKeys(q) ==
    LET kept[i \in 0..Len(q)] ==
            IF i = 0 THEN <<>>
            ELSE IF IsFutureKey(q[i]) THEN kept[i - 1] ELSE Append(kept[i - 1], q[i])
    IN kept[Len(q)]

(* How long until the last of the pending keys is due.                     *)
EventQ_LatestKeyTime ==
    LET waits == {queue[i].wait : i \in {j \in DOMAIN queue : IsFutureKey(queue[j])}} \cup {0}
    IN CHOOSE w \in waits : \A v \in waits : v <= w

---------------------------------------------------------------------------
Init ==
    /\ queue = <<>> /\ lock = 0
    /\ phase = "host" /\ left = 0
    /\ hostKeys = {} /\ hostButton = FALSE /\ background = FALSE
    /\ curMouse = Origin /\ mouseEnabled = FALSE
    /\ guestKeys = {} /\ by = [k \in Keys |-> "host"] /\ guestButton = FALSE /\ guestMouse = Origin
    /\ sent = [s \in Sources |-> 0] /\ got = sent
    /\ cleared = FALSE /\ cut = {}

(* Bound on the events of a behaviour.                                     *)
MayPush(source, n) ==
    /\ sent[source] + n <= MaxEvents[source]
    /\ sent.host + sent.script + sent.click + n <= MaxTotal

(* The host, between ticks: dispatchEvent and processSavedTasks.           *)

Keyboard_UpdateKeyMap(k) ==
    /\ phase = "host" /\ MayPush("host", 1)
    /\ LET down == k \notin hostKeys IN
       /\ hostKeys' = IF down THEN hostKeys \cup {k} ELSE hostKeys \ {k}
       /\ queue' = EventQ_Push(queue, Key(k, down, 0, "host", sent.host + 1))
    /\ sent' = [sent EXCEPT !.host = @ + 1]
    /\ UNCHANGED <<lock, phase, left, hostButton, background, curMouse, mouseEnabled,
                   guestVars, clearVars>>

(* A position the guest's cursor had at the end of the last tick is not    *)
(* pushed, whatever positions are queued.                                  *)
MousePositionSet(p) == IF p = curMouse THEN queue ELSE EventQ_PushMousePos(queue, p)

MouseMove(p) ==
    /\ phase = "host" /\ ~background
    /\ queue' = MousePositionSet(p)
    /\ UNCHANGED <<lock, phase, left, hostVars, curMouse, mouseEnabled, guestVars, sent, clearVars>>

(* A button event carries its place, and moves the pointer there first.    *)
MouseButton(p) ==
    /\ phase = "host" /\ ~background /\ MayPush("host", 1)
    /\ hostButton' = ~hostButton
    /\ queue' = EventQ_Push(MousePositionSet(p),
                            Button(~hostButton, p, 0, "host", sent.host + 1))
    /\ sent' = [sent EXCEPT !.host = @ + 1]
    /\ UNCHANGED <<lock, phase, left, hostKeys, background, curMouse, mouseEnabled,
                   guestVars, clearVars>>

(* The keys released by DisconnectKeyCodes, in the order of their codes.   *)
Orders(S) == {s \in [1..Cardinality(S) -> S] : \A k \in S : \E i \in DOMAIN s : s[i] = k}

(* (Mutant) the keys are forgotten without telling the guest.              *)
EnterBackgroundForgets ==
    /\ phase = "host" /\ ~background /\ background' = TRUE
    /\ hostKeys' = hostKeys \cap KeptKeys /\ hostButton' = FALSE
    /\ UNCHANGED <<queue, lock, phase, left, curMouse, mouseEnabled, guestVars, sent, clearVars>>

(* Going to the background releases the keys, and the mouse button, whose  *)
(* own release will not be seen.                                           *)
EnterBackground ==
    LET released == hostKeys \ KeptKeys
        ups == Cardinality(released)
        last == IF hostButton THEN 1 ELSE 0
    IN /\ phase = "host" /\ ~background /\ MayPush("host", ups + last)
       /\ background' = TRUE
       /\ hostKeys' = hostKeys \ released /\ hostButton' = FALSE
       /\ \E keys \in Orders(released) :
             queue' = SubSeq(queue, 1, DueCount(queue))
                      \o [i \in 1..ups |-> Key(keys[i], FALSE, 0, "host", sent.host + i)]
                      \o [i \in 1..last |->
                             Button(FALSE, "anywhere", 0, "host", sent.host + ups + 1)]
                      \o SubSeq(queue, DueCount(queue) + 1, Len(queue))
       /\ sent' = [sent EXCEPT !.host = @ + ups + last]
       /\ UNCHANGED <<lock, phase, left, curMouse, mouseEnabled, guestVars, clearVars>>

LeaveBackground ==
    /\ phase = "host" /\ background /\ background' = FALSE
    /\ UNCHANGED <<queue, lock, phase, left, hostKeys, hostButton, curMouse,
                   mouseEnabled, guestVars, sent, clearVars>>

---------------------------------------------------------------------------
(* The commands of debugger scripts, while the guest runs.                 *)

CmdType(k) ==
    /\ phase = "run" /\ MayPush("script", 2)
    /\ LET t == EventQ_LatestKeyTime + Gap
           n == sent.script
       IN queue' = EventQ_Push(EventQ_Push(queue, Key(k, TRUE, t, "script", n + 1)),
                               Key(k, FALSE, t + Hold, "script", n + 2))
    /\ sent' = [sent EXCEPT !.script = @ + 2] /\ cut' = cut \ {k}
    /\ UNCHANGED <<lock, phase, left, hostVars, curMouse, mouseEnabled, guestVars, cleared>>

(* A modifier around a key, which follows it by lead and comes up before   *)
(* it by as much.                                                          *)
Chord(m, k, lead) ==
    /\ phase = "run" /\ m # k /\ MayPush("script", 4)
    /\ LET t == EventQ_LatestKeyTime + Gap
           up == t + lead + Hold
           n == sent.script
           downs == EventQ_Push(EventQ_Push(queue, Key(m, TRUE, t, "script", n + 1)),
                                Key(k, TRUE, t + lead, "script", n + 2))
       IN queue' = EventQ_Push(EventQ_Push(downs, Key(k, FALSE, up, "script", n + 3)),
                               Key(m, FALSE, up + lead, "script", n + 4))
    /\ sent' = [sent EXCEPT !.script = @ + 4] /\ cut' = cut \ {m, k}
    /\ UNCHANGED <<lock, phase, left, hostVars, curMouse, mouseEnabled, guestVars, cleared>>

CmdTypeShifted(m, k) == Chord(m, k, 0)
CmdKey(m, k) == Chord(m, k, Lead)

CmdClearKeys ==
    /\ phase = "run"
    /\ \E i \in DOMAIN queue : IsFutureKey(queue[i])
    /\ cut' = cut \cup {queue[i].key : i \in {j \in DOMAIN queue : IsFutureKey(queue[j])}}
    /\ queue' = EventQ_ClearFutureKeys(queue)
    /\ cleared' = TRUE
    /\ UNCHANGED <<lock, phase, left, hostVars, curMouse, mouseEnabled, guestVars, sent>>

CmdClick(p) ==
    /\ phase = "run" /\ MayPush("click", 2)
    /\ LET n == sent.click IN
       queue' = EventQ_Push(EventQ_Push(EventQ_Push(queue, Pos(p, 0)),
                                        Button(TRUE, p, ClickDown, "click", n + 1)),
                            Button(FALSE, p, ClickUp, "click", n + 2))
    /\ sent' = [sent EXCEPT !.click = @ + 2]
    /\ UNCHANGED <<lock, phase, left, hostVars, curMouse, mouseEnabled, guestVars, clearVars>>

---------------------------------------------------------------------------
(* The tick.                                                               *)

(* (Mutant) the lock is never counted down.                                *)
UnlockNever(n) == n

(* The lock, counted down by MouseDevice::update.                          *)
Unlock(n) == IF n = 0 THEN 0 ELSE n - 1

(* The mouse finds an event of this kind, unless the queue is locked.      *)
MouseTakes(kind, q, n) == n = 0 /\ EventQ_Peek(q, kind)

(* SixtiethSecondNotify: MouseDevice::update takes a position, then a      *)
(* button event, and with it the lock.                                     *)
TickStart ==
    LET unlocked == Unlock(lock)
        takesPos == mouseEnabled /\ MouseTakes("Pos", queue, unlocked)
        q == IF takesPos THEN Tail(queue) ELSE queue
        takesButton == MouseTakes("Button", q, unlocked)
    IN /\ phase = "host" /\ phase' = "run" /\ left' = TickUnits
       /\ guestMouse' = IF takesPos THEN Head(queue).at ELSE guestMouse
       /\ IF takesButton
          THEN /\ guestButton' = Head(q).down /\ queue' = Tail(q)
               /\ lock' = LockTicks
               /\ got' = [got EXCEPT ![Head(q).source] = Head(q).n]
          ELSE /\ queue' = q /\ lock' = unlocked
               /\ UNCHANGED <<guestButton, got>>
       /\ UNCHANGED <<hostVars, curMouse, mouseEnabled, guestKeys, by, sent, clearVars>>

(* The guest runs, and more events are due.                                *)
Elapse ==
    /\ phase = "run" /\ left > 0 /\ left' = left - 1
    /\ queue' = [i \in DOMAIN queue |-> [queue[i] EXCEPT !.wait = IF @ = 0 THEN 0 ELSE @ - 1]]
    /\ UNCHANGED <<lock, phase, hostVars, curMouse, mouseEnabled, guestVars, sent, clearVars>>

(* The keyboard takes a key event.                                         *)
FindKeyEvent ==
    /\ phase = "run" /\ lock = 0 /\ EventQ_Peek(queue, "Key")
    /\ LET e == Head(queue) IN
       /\ guestKeys' = IF e.down THEN guestKeys \cup {e.key} ELSE guestKeys \ {e.key}
       /\ by' = [by EXCEPT ![e.key] = e.source]
       /\ got' = [got EXCEPT ![e.source] = e.n]
    /\ queue' = Tail(queue)
    /\ UNCHANGED <<lock, phase, left, hostVars, curMouse, mouseEnabled, guestButton, guestMouse,
                   sent, clearVars>>

(* The guest has booted as far as its mouse interrupts.                    *)
EnableMouse ==
    /\ phase = "run" /\ ~mouseEnabled /\ mouseEnabled' = TRUE
    /\ UNCHANGED <<queue, lock, phase, left, hostVars, curMouse, guestVars, sent, clearVars>>

(* SixtiethEndNotify: the shell learns where the guest's cursor is.        *)
TickEnd ==
    /\ phase = "run" /\ left = 0 /\ phase' = "host"
    /\ curMouse' = IF mouseEnabled THEN guestMouse ELSE curMouse
    /\ UNCHANGED <<queue, lock, left, hostVars, mouseEnabled, guestVars, sent, clearVars>>

Host ==
    \/ \E k \in HostKeys : Keyboard_UpdateKeyMap(k)
    \/ \E p \in Places : MouseMove(p) \/ MouseButton(p)
    \/ EnterBackground \/ LeaveBackground

Script ==
    \/ \E k \in ScriptKeys : CmdType(k)
    \/ \E m, k \in ScriptKeys : CmdTypeShifted(m, k) \/ CmdKey(m, k)
    \/ CmdClearKeys
    \/ \E p \in Places : CmdClick(p)

Next == Host \/ Script \/ TickStart \/ Elapse \/ FindKeyEvent \/ EnableMouse \/ TickEnd

Spec == Init /\ [][Next]_vars

(* Ticks follow one another, the guest boots, and its driver never stops   *)
(* asking for keys (a key event stays at the head until it is taken, but   *)
(* it is only asked for within a tick).                                    *)
Fairness ==
    /\ WF_vars(TickStart) /\ WF_vars(Elapse) /\ WF_vars(TickEnd)
    /\ SF_vars(EnableMouse) /\ SF_vars(FindKeyEvent)

FairSpec == Spec /\ Fairness

---------------------------------------------------------------------------
TypeOK ==
    /\ \A i \in DOMAIN queue : /\ queue[i].kind \in {"Key", "Button", "Pos"}
                               /\ queue[i].wait \in Nat
    /\ lock \in 0..LockTicks
    /\ phase \in {"host", "run"} /\ left \in 0..TickUnits
    /\ hostKeys \subseteq HostKeys /\ guestKeys \subseteq Keys
    /\ by \in [Keys -> {"host", "script"}] /\ cut \subseteq Keys
    /\ {hostButton, guestButton, background, mouseEnabled, cleared} \subseteq BOOLEAN
    /\ {curMouse, guestMouse} \subseteq Places
    /\ \A s \in Sources : sent[s] \in Nat /\ got[s] \in 0..sent[s]

(* "No event loss under rapid input": the guest takes every key and button *)
(* event of the host, in order; and the keys of scripts in order, too,     *)
(* with gaps only where a script cleared them.                             *)
EventsInOrder ==
    [][ /\ got'.host \in {got.host, got.host + 1}
        /\ \/ got'.script \in {got.script, got.script + 1}
           \/ cleared /\ got'.script > got.script ]_vars

(* A script's clicks reach the guest one after the other: what CmdClick    *)
(* promises, and does not keep, since a click begun before the button of   *)
(* the last one is up is sorted into it: down, down, up, up.               *)
ClicksInOrder == [][ got'.click \in {got.click, got.click + 1} ]_vars

Pending(k, source) ==
    \E i \in DOMAIN queue :
        queue[i].kind = "Key" /\ queue[i].key = k /\ queue[i].source = source

(* No key is left stuck.  Of a key that the guest was last told of by the  *)
(* host, and that no event of the host is queued for, the guest holds what *)
(* the host does, also after the window went to the background; one that   *)
(* it was last told of by a script is up once no event of a script is      *)
(* queued for it, unless the script's events of this key were cleared, and *)
(* then until a script uses the key again.                                 *)
NoStuckKey ==
    /\ \A k \in HostKeys :
          by[k] = "host" /\ ~Pending(k, "host") => (k \in guestKeys <=> k \in hostKeys)
    /\ \A k \in ScriptKeys \ cut :
          by[k] = "script" /\ ~Pending(k, "script") => k \notin guestKeys

(* Every event the host pushes reaches the guest, whatever stands before   *)
(* it in the queue, once the guest has booted.                             *)
EventsArrive == \A n \in 1..MaxEvents.host : sent.host >= n ~> got.host >= n

FirstButton ==
    LET buttons == {i \in DOMAIN queue : queue[i].kind = "Button"}
    IN queue[CHOOSE i \in buttons : \A j \in buttons : i <= j]

(* "Otherwise button or key will be in wrong place": the guest is given a  *)
(* button event with its cursor where the pointer was.                     *)
ButtonInPlace ==
    [][ phase = "host" /\ phase' = "run" /\ lock' = LockTicks
           => FirstButton.at \in {guestMouse', "anywhere"} ]_vars
===========================================================================
