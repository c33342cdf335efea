------------------------- MODULE InputEvents_proof -------------------------
(***************************************************************************)
(* The queue of input events, for any keys, places, times and numbers of   *)
(* events: the queue is sorted by time, which keeps the events of each     *)
(* source in their order because a source never pushes an event for before *)
(* one that it pushed already; so the guest takes them one by one, and the *)
(* last event of a key that is queued leaves it as the host holds it.      *)
(***************************************************************************)
EXTENDS InputEvents, FiniteSetTheorems, SequenceTheorems, WellFoundedInduction, TLAPS

---------------------------------------------------------------------------
(* The inductive invariant.                                                *)

Events ==
    [kind : {"Key"}, key : Keys, down : BOOLEAN, wait : Nat, source : {"host", "script"},
     n : Nat]
    \cup [kind : {"Button"}, down : BOOLEAN, at : Places \cup {"anywhere"}, wait : Nat,
          source : {"host", "click"}, n : Nat]
    \cup [kind : {"Pos"}, at : Places, wait : Nat]

(* Where an event comes from.  A key is taken with its source: the host's  *)
(* key and the script's key of one code are two, each with an account of   *)
(* its own.                                                                *)
From(e) == IF e.kind = "Pos" THEN "none" ELSE e.source
IsOf(e, k) == e.kind = "Key" /\ k = <<e.source, e.key>>

(* Sorted by time, and so are the numbers of the host and of typed keys;   *)
(* events of the host are due at once.                                     *)
Sorted(q) ==
    /\ \A i, j \in DOMAIN q : i < j => q[i].wait <= q[j].wait
    /\ \A i, j \in DOMAIN q :
          i < j /\ From(q[i]) = From(q[j]) /\ From(q[i]) \in {"host", "script"}
             => q[i].n < q[j].n
    /\ \A i \in DOMAIN q : From(q[i]) = "host" => q[i].wait = 0

(* The numbers queued are those not taken yet, none missing unless cleared.*)
Numbered(q, g, s, c) ==
    /\ \A i \in DOMAIN q :
          From(q[i]) # "none" =>
             /\ q[i].n \in 1..s[From(q[i])]
             /\ From(q[i]) # "click" => q[i].n > g[From(q[i])]
    /\ \A n \in (g.host + 1)..s.host : \E i \in DOMAIN q : From(q[i]) = "host" /\ q[i].n = n
    /\ ~c => \A n \in (g.script + 1)..s.script :
                \E i \in DOMAIN q : From(q[i]) = "script" /\ q[i].n = n

(* What the guest was told of a key, and will be told last, is whether it  *)
(* is held down, for the keys kk.                                          *)
Told(q, guest, held, kk) ==
    \A k \in kk :
       /\ (\A i \in DOMAIN q : ~IsOf(q[i], k)) => (k \in guest <=> k \in held)
       /\ \A i \in DOMAIN q :
             IsOf(q[i], k) /\ (\A j \in DOMAIN q : i < j => ~IsOf(q[j], k))
                => (q[i].down <=> k \in held)

Counts == [Sources -> Nat]

Queued(q, held, s, guest, g, c, kk) ==
    /\ q \in Seq(Events) /\ Sorted(q)
    /\ Numbered(q, g, s, c) /\ Told(q, guest, held, kk)
    /\ s \in Counts /\ g \in Counts /\ c \in BOOLEAN
    /\ \A x \in Sources : g[x] <= s[x]

(* The types of the rest.                                                  *)
State ==
    /\ lock \in 0..LockTicks /\ phase \in {"host", "run"} /\ left \in 0..TickUnits
    /\ hostKeys \subseteq HostKeys /\ guestKeys \subseteq Keys
    /\ by \in [Keys -> {"host", "script"}] /\ cut \subseteq Keys
    /\ hostButton \in BOOLEAN /\ guestButton \in BOOLEAN /\ background \in BOOLEAN
    /\ mouseEnabled \in BOOLEAN /\ curMouse \in Places /\ guestMouse \in Places

(* The keys held, and those that the invariant speaks of.                  *)
Held == {<<"host", k>> : k \in hostKeys}
Known == ({"host"} \X HostKeys) \cup ({"script"} \X (ScriptKeys \ cut))

(* What each source told the guest, and the guest's keys, which are what   *)
(* the source of the last event said.                                      *)
Heard(told) == \A k \in Keys : k \in guestKeys <=> <<by[k], k>> \in told
QueueInv(told) == Queued(queue, Held, sent, told, got, cleared, Known)

IInv == State /\ \E told : QueueInv(told) /\ Heard(told)

---------------------------------------------------------------------------
(* Numbers.                                                                *)

Below == {ss \in Nat \X Nat : ss[1] < ss[2]}

LEMMA BelowWellFounded == IsWellFoundedOn(Below, Nat)
BY NatLessThanWellFounded, Zenon DEF Below, OpToRel

LEMMA Least ==
    ASSUME NEW T \in SUBSET Nat, T # {}
    PROVE  \E m \in T : \A k \in T : m <= k
<1>1. PICK m \in T : \A k \in T : <<k, m>> \notin Below
  BY BelowWellFounded, WFMin
<1>2. ASSUME NEW k \in T PROVE m <= k
  <2>1. <<k, m>> \notin Below
    BY <1>1
  <2>2. <<k, m>> \in Below <=> k < m
    BY DEF Below
  <2> QED
    BY <2>1, <2>2
<1> QED
  BY <1>2

LEMMA Greatest ==
    ASSUME NEW b \in Nat, NEW T \in SUBSET (0..b), T # {}
    PROVE  \E m \in T : \A k \in T : k <= m
<1> DEFINE R == {b - k : k \in T}
<1>1. R \in SUBSET Nat
  <2>1. \A k \in T : b - k \in Nat
    OBVIOUS
  <2> QED
    BY <2>1
<1>0. R # {}
  OBVIOUS
<1>2. PICK r \in R : \A k \in R : r <= k
  BY <1>0, <1>1, Least
<1>3. PICK m \in T : r = b - m
  OBVIOUS
<1>4. ASSUME NEW k \in T PROVE k <= m
  <2>1. b - k \in R
    OBVIOUS
  <2> QED
    BY <1>2, <1>3, <2>1
<1> QED
  BY <1>4

---------------------------------------------------------------------------
(* Inserting.                                                              *)

LEMMA Inserted ==
    ASSUME NEW q \in Seq(Events), NEW p \in 0..Len(q), NEW e \in Events
    PROVE  /\ Insert(q, p, e) \in Seq(Events) /\ Len(Insert(q, p, e)) = Len(q) + 1
           /\ \A i \in 1..p : Insert(q, p, e)[i] = q[i]
           /\ Insert(q, p, e)[p + 1] = e
           /\ \A i \in (p + 1)..Len(q) : Insert(q, p, e)[i + 1] = q[i]
<1> DEFINE a == SubSeq(q, 1, p)
           z == SubSeq(q, p + 1, Len(q))
<1>1. a \in Seq(Events) /\ Len(a) = p /\ \A i \in 1..p : a[i] = q[i]
  OBVIOUS
<1>2. z \in Seq(Events) /\ Len(z) = Len(q) - p /\ \A i \in 1..(Len(q) - p) : z[i] = q[p + i]
  OBVIOUS
<1> HIDE DEF a, z
<1>3. Insert(q, p, e) = a \o <<e>> \o z
  BY DEF a, z, Insert
<1> DEFINE b == a \o <<e>>
<1>4. b \in Seq(Events) /\ Len(b) = p + 1 /\ b[p + 1] = e /\ \A i \in 1..p : b[i] = q[i]
  BY <1>1
<1> HIDE DEF b
<1>5. b \o z \in Seq(Events) /\ Len(b \o z) = Len(q) + 1
  BY <1>2, <1>4, ConcatProperties
<1>6. \A i \in 1..(p + 1) : (b \o z)[i] = b[i]
  BY <1>2, <1>4
<1>7. ASSUME NEW i \in (p + 1)..Len(q) PROVE (b \o z)[i + 1] = q[i]
  <2>1. i - p \in 1..Len(z) /\ i + 1 = Len(b) + (i - p) /\ i = p + (i - p)
    BY <1>2, <1>4
  <2>2. (b \o z)[Len(b) + (i - p)] = z[i - p]
    BY <1>2, <1>4, <2>1, ConcatProperties
  <2> QED
    BY <1>2, <2>1, <2>2
<1>8. Insert(q, p, e) = b \o z
  BY <1>3 DEF b
<1>9. (b \o z)[p + 1] = e /\ \A i \in 1..p : (b \o z)[i] = q[i]
  <2>1. p + 1 \in 1..(p + 1) /\ \A i \in 1..p : i \in 1..(p + 1)
    OBVIOUS
  <2> QED
    BY <1>4, <1>6, <2>1
<1> QED
  BY <1>5, <1>7, <1>8, <1>9

---------------------------------------------------------------------------
(* Where a push puts an event: after those that are not later.             *)

LEMMA EventFields ==
    ASSUME NEW e \in Events
    PROVE  /\ e.wait \in Nat /\ e.kind \in {"Key", "Button", "Pos"}
           /\ e.kind = "Pos" => e.at \in Places
           /\ e.kind # "Pos" => e.n \in Nat /\ e.down \in BOOLEAN
           /\ e.kind = "Key" => e.key \in Keys /\ e.source \in {"host", "script"}
           /\ e.kind = "Button" => e.source \in {"host", "click"}
BY DEF Events

LEMMA FromIsASource ==
    ASSUME NEW e \in Events
    PROVE  /\ From(e) \in Sources \cup {"none"}
           /\ From(e) = "none" <=> e.kind = "Pos"
           /\ \A k : IsOf(e, k) => k \in {"host", "script"} \X Keys /\ From(e) = k[1]
           /\ From(e) = "script" => e.kind = "Key" /\ e.key \in Keys
<1>1. CASE e.kind = "Key"
  BY <1>1, EventFields DEF From, Sources, IsOf
<1>2. CASE e.kind = "Button"
  BY <1>2, EventFields DEF From, Sources, IsOf
<1>3. CASE e.kind = "Pos"
  BY <1>3, EventFields DEF From, Sources, IsOf
<1> QED
  BY <1>1, <1>2, <1>3, EventFields

LEMMA ImmediatePlace ==
    ASSUME NEW q \in Seq(Events), Sorted(q)
    PROVE  /\ DueCount(q) \in 0..Len(q)
           /\ \A i \in 1..DueCount(q) : q[i].wait = 0
           /\ \A i \in (DueCount(q) + 1)..Len(q) : q[i].wait > 0
<1> DEFINE Fits(n) == /\ \A i \in 1..n : q[i].wait = 0
                      /\ n = Len(q) \/ q[n + 1].wait # 0
           T == {n \in 0..Len(q) : \A i \in 1..n : q[i].wait = 0}
<1>1. \A i \in 1..Len(q) : q[i].wait \in Nat
  BY EventFields
<1>2. PICK m \in T : \A n \in T : n <= m
  <2>1. 0 \in T /\ T \in SUBSET (0..Len(q)) /\ Len(q) \in Nat
    OBVIOUS
  <2> QED
    BY <2>1, Greatest
<1>3. Fits(m)
  <2>1. ASSUME m # Len(q), q[m + 1].wait = 0 PROVE FALSE
    <3>1. m + 1 \in 0..Len(q) /\ \A i \in 1..(m + 1) : i \in 1..m \/ i = m + 1
      BY <2>1
    <3>2. m + 1 \in T
      BY <2>1, <3>1
    <3> QED
      BY <1>2, <3>2
  <2> QED
    BY <2>1
<1>4. DueCount(q) \in 0..Len(q) /\ Fits(DueCount(q))
  <2> HIDE DEF Fits
  <2>1. DueCount(q) = CHOOSE n \in 0..Len(q) : Fits(n)
    BY DEF DueCount, Fits
  <2>2. m \in 0..Len(q)
    BY <1>2
  <2> QED
    BY <1>3, <2>1, <2>2, Zenon
<1>5. ASSUME NEW i \in (DueCount(q) + 1)..Len(q) PROVE q[i].wait > 0
  <2>1. DueCount(q) + 1 \in 1..Len(q) /\ i \in 1..Len(q) /\ DueCount(q) # Len(q)
    BY <1>4
  <2>2. q[DueCount(q) + 1].wait # 0
    BY <1>4, <2>1
  <2>3. q[DueCount(q) + 1].wait <= q[i].wait
    <3>1. i = DueCount(q) + 1 \/ DueCount(q) + 1 < i
      BY <1>4
    <3> QED
      BY <1>1, <2>1, <3>1 DEF Sorted
  <2> QED
    BY <1>1, <2>1, <2>2, <2>3
<1> QED
  BY <1>4, <1>5

LEMMA FuturePlace ==
    ASSUME NEW q \in Seq(Events), Sorted(q), NEW w \in Nat
    PROVE  /\ LastUpTo(q, w) \in 0..Len(q)
           /\ \A i \in 1..LastUpTo(q, w) : q[i].wait <= w
           /\ \A i \in (LastUpTo(q, w) + 1)..Len(q) : q[i].wait > w
<1> DEFINE Fits(n) == /\ \A i \in (n + 1)..Len(q) : q[i].wait > w
                      /\ n = 0 \/ q[n].wait <= w
           T == {n \in 0..Len(q) : \A i \in (n + 1)..Len(q) : q[i].wait > w}
<1>1. \A i \in 1..Len(q) : q[i].wait \in Nat
  BY EventFields
<1>2. PICK m \in T : \A n \in T : m <= n
  <2>1. Len(q) \in T /\ T \in SUBSET Nat
    OBVIOUS
  <2> QED
    BY <2>1, Least
<1>3. Fits(m)
  <2>1. ASSUME m # 0, ~(q[m].wait <= w) PROVE FALSE
    <3>1. m - 1 \in 0..Len(q) /\ \A i \in ((m - 1) + 1)..Len(q) : i \in (m + 1)..Len(q) \/ i = m
      BY <2>1
    <3>2. m - 1 \in T
      BY <1>1, <2>1, <3>1
    <3> QED
      BY <1>2, <3>2
  <2> QED
    BY <2>1
<1>4. LastUpTo(q, w) \in 0..Len(q) /\ Fits(LastUpTo(q, w))
  <2> HIDE DEF Fits
  <2>1. LastUpTo(q, w) = CHOOSE n \in 0..Len(q) : Fits(n)
    BY DEF LastUpTo, Fits
  <2>2. m \in 0..Len(q)
    BY <1>2
  <2> QED
    BY <1>3, <2>1, <2>2, Zenon
<1>5. ASSUME NEW i \in 1..LastUpTo(q, w) PROVE q[i].wait <= w
  <2>1. LastUpTo(q, w) \in 1..Len(q) /\ i \in 1..Len(q)
    BY <1>4
  <2>2. q[LastUpTo(q, w)].wait <= w
    BY <1>4, <2>1
  <2>3. q[i].wait <= q[LastUpTo(q, w)].wait
    BY <1>1, <2>1 DEF Sorted
  <2> QED
    BY <1>1, <2>1, <2>2, <2>3
<1> QED
  BY <1>4, <1>5

LEMMA PushPlace ==
    ASSUME NEW q \in Seq(Events), Sorted(q), NEW e \in Events
    PROVE  \E p \in 0..Len(q) :
              /\ EventQ_Push(q, e) = Insert(q, p, e)
              /\ \A i \in 1..p : q[i].wait <= e.wait
              /\ \A i \in (p + 1)..Len(q) : q[i].wait > e.wait
<1>1. e.wait \in Nat
  BY EventFields
<1>2. CASE e.wait = 0
  <2>1. \A i \in 1..DueCount(q) : q[i].wait <= e.wait
    BY <1>2, ImmediatePlace
  <2> QED
    BY <1>2, <2>1, ImmediatePlace DEF EventQ_Push
<1>3. CASE e.wait # 0
  BY <1>1, <1>3, FuturePlace DEF EventQ_Push
<1> QED
  BY <1>2, <1>3

(* r is q with e at the place after p.                                     *)
Placed(q, e, r, p) ==
    /\ r \in Seq(Events) /\ Len(r) = Len(q) + 1
    /\ \A i \in 1..p : r[i] = q[i] /\ q[i].wait <= e.wait
    /\ r[p + 1] = e
    /\ \A i \in (p + 1)..Len(q) : r[i + 1] = q[i] /\ q[i].wait > e.wait

LEMMA Pushed ==
    ASSUME NEW q \in Seq(Events), Sorted(q), NEW e \in Events
    PROVE  \E p \in 0..Len(q) : Placed(q, e, EventQ_Push(q, e), p)
<1>1. PICK p \in 0..Len(q) : /\ EventQ_Push(q, e) = Insert(q, p, e)
                             /\ \A i \in 1..p : q[i].wait <= e.wait
                             /\ \A i \in (p + 1)..Len(q) : q[i].wait > e.wait
  BY PushPlace
<1> DEFINE r == Insert(q, p, e)
<1>2. /\ r \in Seq(Events) /\ Len(r) = Len(q) + 1
      /\ \A i \in 1..p : r[i] = q[i]
      /\ r[p + 1] = e
      /\ \A i \in (p + 1)..Len(q) : r[i + 1] = q[i]
  BY Inserted
<1> HIDE DEF r
<1>3. Placed(q, e, r, p)
  BY <1>1, <1>2 DEF Placed
<1> QED
  BY <1>1, <1>3 DEF r

LEMMA PlacedIndex ==
    ASSUME NEW q \in Seq(Events), NEW e \in Events, NEW r, NEW p \in 0..Len(q),
           Placed(q, e, r, p), NEW i \in DOMAIN r
    PROVE  \/ i \in 1..p /\ i \in DOMAIN q /\ r[i] = q[i] /\ q[i].wait <= e.wait
           \/ i = p + 1 /\ r[i] = e
           \/ /\ i - 1 \in (p + 1)..Len(q) /\ i - 1 \in DOMAIN q
              /\ r[i] = q[i - 1] /\ e.wait < q[i - 1].wait
<1>1. DOMAIN r = 1..(Len(q) + 1) /\ DOMAIN q = 1..Len(q) /\ Len(q) \in Nat
  BY DEF Placed
<1>2. i \in 1..p \/ i = p + 1 \/ i - 1 \in (p + 1)..Len(q)
  BY <1>1
<1>3. CASE i \in 1..p
  BY <1>1, <1>3 DEF Placed
<1>4. CASE i = p + 1
  BY <1>4 DEF Placed
<1>5. CASE i - 1 \in (p + 1)..Len(q)
  <2>1. (i - 1) + 1 = i
    BY <1>1
  <2>2. r[(i - 1) + 1] = q[i - 1] /\ q[i - 1].wait > e.wait
    BY <1>5 DEF Placed
  <2>3. q[i - 1].wait \in Nat /\ e.wait \in Nat
    BY <1>1, <1>5, EventFields
  <2> QED
    BY <1>1, <1>5, <2>1, <2>2, <2>3
<1> QED
  BY <1>2, <1>3, <1>4, <1>5

(* The event after which another of its source may be pushed.              *)
Follows(e, q) ==
    From(e) \in {"host", "script"} =>
       \A i \in DOMAIN q : From(q[i]) = From(e) => q[i].wait <= e.wait /\ q[i].n < e.n

LEMMA PushSorted ==
    ASSUME NEW q \in Seq(Events), Sorted(q), NEW e \in Events,
           Follows(e, q), From(e) = "host" => e.wait = 0
    PROVE  Sorted(EventQ_Push(q, e))
<1> DEFINE r == EventQ_Push(q, e)
<1>2. PICK p \in 0..Len(q) : Placed(q, e, r, p)
  BY Pushed
<1> HIDE DEF r
<1>1. DOMAIN r = 1..(Len(q) + 1) /\ DOMAIN q = 1..Len(q)
  BY <1>2 DEF Placed
<1>3. e.wait \in Nat /\ \A i \in 1..Len(q) : q[i].wait \in Nat
  BY EventFields
<1>4. ASSUME NEW i \in DOMAIN r
      PROVE  \/ i \in 1..p /\ i \in DOMAIN q /\ r[i] = q[i] /\ q[i].wait <= e.wait
             \/ i = p + 1 /\ r[i] = e
             \/ /\ i - 1 \in (p + 1)..Len(q) /\ i - 1 \in DOMAIN q
                /\ r[i] = q[i - 1] /\ e.wait < q[i - 1].wait
  BY <1>2, PlacedIndex
<1>5. ASSUME NEW i \in DOMAIN r, NEW j \in DOMAIN r, i < j
      PROVE  /\ r[i].wait <= r[j].wait
             /\ From(r[i]) = From(r[j]) /\ From(r[i]) \in {"host", "script"} => r[i].n < r[j].n
  <2>1. CASE i = p + 1
    <3>1. j - 1 \in (p + 1)..Len(q) /\ r[j] = q[j - 1] /\ r[i] = e
      BY <1>1, <1>2, <1>4, <1>5, <2>1
    <3>2. e.wait < q[j - 1].wait /\ j - 1 \in DOMAIN q
      BY <1>1, <1>4, <1>5, <2>1
    <3> QED
      BY <1>3, <3>1, <3>2 DEF Follows
  <2>2. CASE j = p + 1
    <3>1. i \in 1..p /\ r[i] = q[i] /\ r[j] = e /\ i \in DOMAIN q
      BY <1>1, <1>2, <1>4, <1>5, <2>2
    <3>2. q[i].wait <= e.wait
      BY <1>1, <1>4, <1>5, <2>2
    <3> QED
      BY <3>1, <3>2 DEF Follows
  <2>3. CASE i # p + 1 /\ j # p + 1
    <3>1. \E a, b \in DOMAIN q : a < b /\ r[i] = q[a] /\ r[j] = q[b]
      <4>1. i \in 1..p \/ i - 1 \in (p + 1)..Len(q)
        BY <1>1, <2>3
      <4>2. j \in 1..p \/ j - 1 \in (p + 1)..Len(q)
        BY <1>1, <2>3
      <4>3. CASE i \in 1..p /\ j \in 1..p
        <5>1. i \in DOMAIN q /\ j \in DOMAIN q /\ r[i] = q[i] /\ r[j] = q[j]
          BY <1>1, <1>4, <4>3
        <5> QED
          BY <1>5, <5>1
      <4>4. CASE i \in 1..p /\ j - 1 \in (p + 1)..Len(q)
        <5>1. i \in DOMAIN q /\ j - 1 \in DOMAIN q /\ r[i] = q[i] /\ r[j] = q[j - 1] /\ i < j - 1
          BY <1>1, <1>2, <1>4, <4>4
        <5> QED
          BY <5>1
      <4>5. CASE i - 1 \in (p + 1)..Len(q) /\ j - 1 \in (p + 1)..Len(q)
        <5>1. /\ i - 1 \in DOMAIN q /\ j - 1 \in DOMAIN q /\ r[i] = q[i - 1] /\ r[j] = q[j - 1]
              /\ i - 1 < j - 1
          BY <1>1, <1>2, <1>4, <1>5, <4>5
        <5> QED
          BY <5>1
      <4> QED
        BY <1>1, <1>5, <4>1, <4>2, <4>3, <4>4, <4>5
    <3> QED
      BY <3>1 DEF Sorted
  <2> QED
    BY <2>1, <2>2, <2>3
<1>6. ASSUME NEW i \in DOMAIN r, From(r[i]) = "host" PROVE r[i].wait = 0
  <2>1. r[i] = e \/ \E a \in DOMAIN q : r[i] = q[a]
    BY <1>4
  <2> QED
    BY <1>6, <2>1 DEF Sorted
<1> QED
  BY <1>5, <1>6 DEF Sorted, r

(* The numbers and keys after an event is pushed.                          *)
SentAfter(s, e) == IF From(e) = "none" THEN s ELSE [s EXCEPT ![From(e)] = @ + 1]
HeldAfter(held, e) ==
    IF e.kind # "Key" THEN held
    ELSE IF e.down THEN held \cup {<<e.source, e.key>>} ELSE held \ {<<e.source, e.key>>}

LEMMA PushNumbered ==
    ASSUME NEW q \in Seq(Events), NEW e \in Events, NEW r, NEW p \in 0..Len(q),
           Placed(q, e, r, p), NEW s \in Counts, NEW g \in Counts, NEW c \in BOOLEAN,
           Numbered(q, g, s, c), \A x \in Sources : g[x] <= s[x],
           From(e) # "none" => e.n = s[From(e)] + 1
    PROVE  Numbered(r, g, SentAfter(s, e), c)
<1> DEFINE t == SentAfter(s, e)
<1>1. /\ t \in Counts
      /\ \A x \in Sources : t[x] = IF x = From(e) THEN s[x] + 1 ELSE s[x]
  BY FromIsASource DEF SentAfter, Counts, Sources
<1> HIDE DEF t
<1>2. ASSUME NEW x \in Sources
      PROVE  s[x] \in Nat /\ g[x] \in Nat /\ g[x] <= s[x] /\ s[x] <= t[x] /\ t[x] \in Nat
  <2>1. s[x] \in Nat /\ g[x] \in Nat
    BY DEF Counts
  <2>2. t[x] = s[x] \/ t[x] = s[x] + 1
    BY <1>1
  <2> QED
    BY <2>1, <2>2
<1>3. p + 1 \in DOMAIN r /\ r[p + 1] = e
  BY DEF Placed
<1>4. \A i \in DOMAIN q : \E j \in DOMAIN r : r[j] = q[i]
  <2> SUFFICES ASSUME NEW i \in DOMAIN q PROVE \E j \in DOMAIN r : r[j] = q[i]
    OBVIOUS
  <2>1. CASE i \in 1..p
    <3>1. i \in DOMAIN r /\ r[i] = q[i]
      BY <2>1 DEF Placed
    <3> QED
      BY <3>1
  <2>2. CASE i \in (p + 1)..Len(q)
    <3>1. i + 1 \in DOMAIN r /\ r[i + 1] = q[i]
      BY <2>2 DEF Placed
    <3> QED
      BY <3>1
  <2> QED
    BY <2>1, <2>2
<1>5. ASSUME NEW i \in DOMAIN r, From(r[i]) # "none"
      PROVE  /\ r[i].n \in 1..t[From(r[i])]
             /\ From(r[i]) # "click" => r[i].n > g[From(r[i])]
  <2>1. r[i] = e \/ \E j \in DOMAIN q : r[i] = q[j]
    BY PlacedIndex
  <2>2. CASE r[i] = e
    BY <1>1, <1>2, <1>5, <2>2, FromIsASource
  <2>3. CASE \E j \in DOMAIN q : r[i] = q[j]
    <3>1. PICK j \in DOMAIN q : r[i] = q[j]
      BY <2>3
    <3>2. q[j] \in Events
      OBVIOUS
    <3>3. From(q[j]) \in Sources
      BY <1>5, <3>1, <3>2, FromIsASource
    <3>4. /\ q[j].n \in 1..s[From(q[j])]
          /\ From(q[j]) # "click" => q[j].n > g[From(q[j])]
      BY <1>5, <3>1 DEF Numbered
    <3> HIDE DEF t
    <3>5. /\ s[From(q[j])] \in Nat /\ t[From(q[j])] \in Nat
          /\ s[From(q[j])] <= t[From(q[j])]
      BY <1>2, <3>3
    <3>6. q[j].n \in 1..t[From(q[j])]
      BY <3>4, <3>5
    <3> QED
      BY <3>1, <3>4, <3>6
  <2> QED
    BY <2>1, <2>2, <2>3
<1>6. ASSUME NEW x \in Sources,
             \A n \in (g[x] + 1)..s[x] : \E i \in DOMAIN q : From(q[i]) = x /\ q[i].n = n,
             NEW n \in (g[x] + 1)..t[x]
      PROVE  \E i \in DOMAIN r : From(r[i]) = x /\ r[i].n = n
  <2>1. n \in (g[x] + 1)..s[x] \/ (x = From(e) /\ n = s[x] + 1)
    <3>1. s[x] \in Nat /\ g[x] \in Nat
      BY <1>2
    <3>2. t[x] = IF x = From(e) THEN s[x] + 1 ELSE s[x]
      BY <1>1
    <3>3. n \in (g[x] + 1)..t[x]
      OBVIOUS
    <3> QED
      BY <3>1, <3>2, <3>3
  <2>2. CASE n \in (g[x] + 1)..s[x]
    BY <1>4, <1>6, <2>2
  <2>3. CASE x = From(e) /\ n = s[x] + 1
    BY <1>3, <2>3, FromIsASource DEF Sources
  <2> QED
    BY <2>1, <2>2, <2>3
<1>7. "host" \in Sources /\ "script" \in Sources
  BY DEF Sources
<1>8. \A n \in (g.host + 1)..t.host : \E i \in DOMAIN r : From(r[i]) = "host" /\ r[i].n = n
  <2>1. \A n \in (g["host"] + 1)..s["host"] : \E i \in DOMAIN q : From(q[i]) = "host" /\ q[i].n = n
    BY DEF Numbered
  <2> QED
    BY <1>6, <1>7, <2>1
<1>9. ~c => \A n \in (g.script + 1)..t.script :
               \E i \in DOMAIN r : From(r[i]) = "script" /\ r[i].n = n
  <2>1. ~c => \A n \in (g["script"] + 1)..s["script"] :
                 \E i \in DOMAIN q : From(q[i]) = "script" /\ q[i].n = n
    BY DEF Numbered
  <2> QED
    BY <1>6, <1>7, <2>1
<1> QED
  BY <1>5, <1>8, <1>9 DEF Numbered, t

LEMMA PushTold ==
    ASSUME NEW q \in Seq(Events), NEW e \in Events, NEW r, NEW p \in 0..Len(q),
           Placed(q, e, r, p), Follows(e, q),
           NEW guest, NEW held, NEW kk, Told(q, guest, held, kk),
           NEW K, \A k \in K : k \in kk \/ IsOf(e, k)
    PROVE  Told(r, guest, HeldAfter(held, e), K)
<1> DEFINE after == HeldAfter(held, e)
<1>1. DOMAIN r = 1..(Len(q) + 1) /\ DOMAIN q = 1..Len(q) /\ p + 1 \in DOMAIN r /\ r[p + 1] = e
  BY DEF Placed
<1>2. ASSUME NEW k \in K, IsOf(e, k), NEW i \in DOMAIN r, IsOf(r[i], k)
      PROVE  i <= p + 1
  <2>1. From(e) \in {"host", "script"}
    BY <1>2, FromIsASource
  <2>2. ASSUME NEW j \in DOMAIN q, IsOf(q[j], k) PROVE q[j].wait <= e.wait
    <3>1. From(q[j]) = From(e)
      BY <1>2, <2>2 DEF From, IsOf
    <3> QED
      BY <2>1, <3>1 DEF Follows
  <2>3. ASSUME i - 1 \in (p + 1)..Len(q), i - 1 \in DOMAIN q, r[i] = q[i - 1], e.wait < q[i - 1].wait
        PROVE  FALSE
    <3>1. q[i - 1].wait <= e.wait
      BY <1>2, <2>2, <2>3
    <3>2. q[i - 1].wait \in Nat /\ e.wait \in Nat
      BY <2>3, EventFields
    <3> QED
      BY <2>3, <3>1, <3>2
  <2> QED
    BY <1>1, <2>3, PlacedIndex
<1>3. ASSUME NEW i \in DOMAIN q
      PROVE  \/ i <= p /\ i \in DOMAIN r /\ r[i] = q[i]
             \/ i > p /\ i + 1 \in DOMAIN r /\ r[i + 1] = q[i]
  <2>1. CASE i \in 1..p
    BY <1>1, <2>1 DEF Placed
  <2>2. CASE i \in (p + 1)..Len(q)
    BY <1>1, <2>2 DEF Placed
  <2> QED
    BY <1>1, <2>1, <2>2
<1>4. ASSUME NEW k \in K, IsOf(e, k)
      PROVE  /\ ~ \A i \in DOMAIN r : ~IsOf(r[i], k)
             /\ \A i \in DOMAIN r :
                   IsOf(r[i], k) /\ (\A j \in DOMAIN r : i < j => ~IsOf(r[j], k))
                      => (r[i].down <=> k \in after)
  <2>1. ~ \A i \in DOMAIN r : ~IsOf(r[i], k)
    BY <1>1, <1>4
  <2>2. ASSUME NEW i \in DOMAIN r, IsOf(r[i], k), \A j \in DOMAIN r : i < j => ~IsOf(r[j], k)
        PROVE  r[i].down <=> k \in after
    <3>1. i <= p + 1 /\ ~(i < p + 1)
      BY <1>1, <1>2, <1>4, <2>2
    <3>2. i = p + 1
      BY <1>1, <3>1
    <3>3. e.kind = "Key" /\ <<e.source, e.key>> = k
      BY <1>4 DEF IsOf
    <3>4. e.down <=> k \in after
      BY <3>3 DEF HeldAfter
    <3> QED
      BY <1>1, <3>2, <3>4
  <2> QED
    BY <2>1, <2>2
<1>5. ASSUME NEW k \in K, ~IsOf(e, k)
      PROVE  /\ (\A i \in DOMAIN r : ~IsOf(r[i], k)) => (k \in guest <=> k \in after)
             /\ \A i \in DOMAIN r :
                   IsOf(r[i], k) /\ (\A j \in DOMAIN r : i < j => ~IsOf(r[j], k))
                      => (r[i].down <=> k \in after)
  <2>1. k \in after <=> k \in held
    BY <1>5 DEF HeldAfter, IsOf
  <2> HIDE DEF after
  <2>2. /\ (\A i \in DOMAIN q : ~IsOf(q[i], k)) => (k \in guest <=> k \in held)
        /\ \A i \in DOMAIN q :
              IsOf(q[i], k) /\ (\A j \in DOMAIN q : i < j => ~IsOf(q[j], k))
                 => (q[i].down <=> k \in held)
    BY <1>5 DEF Told
  <2>3. ASSUME \A i \in DOMAIN r : ~IsOf(r[i], k) PROVE \A i \in DOMAIN q : ~IsOf(q[i], k)
    BY <1>3, <2>3
  <2>4. ASSUME NEW i \in DOMAIN r, IsOf(r[i], k), \A j \in DOMAIN r : i < j => ~IsOf(r[j], k)
        PROVE  r[i].down <=> k \in after
    <3>1. PICK a \in DOMAIN q : r[i] = q[a] /\ ((i = a /\ a <= p) \/ (i = a + 1 /\ a > p))
      <4>1. \/ i \in 1..p /\ i \in DOMAIN q /\ r[i] = q[i]
            \/ i - 1 \in (p + 1)..Len(q) /\ i - 1 \in DOMAIN q /\ r[i] = q[i - 1]
        <5>1. r[i] # e
          BY <1>5, <2>4
        <5>2. \/ i \in 1..p /\ i \in DOMAIN q /\ r[i] = q[i] /\ q[i].wait <= e.wait
              \/ i = p + 1 /\ r[i] = e
              \/ /\ i - 1 \in (p + 1)..Len(q) /\ i - 1 \in DOMAIN q
                 /\ r[i] = q[i - 1] /\ e.wait < q[i - 1].wait
          BY PlacedIndex
        <5> QED
          BY <5>1, <5>2, Zenon
      <4>2. i = (i - 1) + 1
        BY <1>1
      <4>3. CASE i \in 1..p /\ i \in DOMAIN q /\ r[i] = q[i]
        <5>1. i <= p
          BY <4>3
        <5> QED
          BY <4>3, <5>1, Zenon
      <4>4. CASE i - 1 \in (p + 1)..Len(q) /\ i - 1 \in DOMAIN q /\ r[i] = q[i - 1]
        <5>1. i - 1 > p
          BY <4>4
        <5> QED
          BY <4>2, <4>4, <5>1
      <4> QED
        BY <4>1, <4>3, <4>4
    <3>2. ASSUME NEW b \in DOMAIN q, a < b PROVE ~IsOf(q[b], k)
      <4>1. \/ b <= p /\ b \in DOMAIN r /\ r[b] = q[b]
            \/ b > p /\ b + 1 \in DOMAIN r /\ r[b + 1] = q[b]
        BY <1>3
      <4>2. CASE b <= p /\ b \in DOMAIN r /\ r[b] = q[b]
        <5>1. i < b
          BY <1>1, <3>1, <3>2, <4>2
        <5> QED
          BY <2>4, <4>2, <5>1
      <4>3. CASE b > p /\ b + 1 \in DOMAIN r /\ r[b + 1] = q[b]
        <5>1. i < b + 1
          BY <1>1, <3>1, <3>2
        <5> QED
          BY <2>4, <4>3, <5>1
      <4> QED
        BY <4>1, <4>2, <4>3
    <3>3. IsOf(q[a], k)
      BY <2>4, <3>1
    <3>4. q[a].down <=> k \in held
      BY <2>2, <3>2, <3>3
    <3> QED
      BY <2>1, <3>1, <3>4
  <2> QED
    BY <2>1, <2>2, <2>3, <2>4
<1> QED
  <2>1. ASSUME NEW k \in K
        PROVE  /\ (\A i \in DOMAIN r : ~IsOf(r[i], k)) => (k \in guest <=> k \in after)
               /\ \A i \in DOMAIN r :
                     IsOf(r[i], k) /\ (\A j \in DOMAIN r : i < j => ~IsOf(r[j], k))
                        => (r[i].down <=> k \in after)
    <3> HIDE DEF after
    <3>1. CASE IsOf(e, k)
      BY <1>4, <3>1, Zenon
    <3>2. CASE ~IsOf(e, k)
      BY <1>5, <3>2, Zenon
    <3> QED
      BY <3>1, <3>2, Zenon
  <2> QED
    BY <2>1 DEF Told

(* Pushing an event that is numbered next and follows those of its source: *)
(* its key is one of those known, from now on.                             *)
LEMMA PushKnown ==
    ASSUME NEW q, NEW held, NEW s, NEW guest, NEW g, NEW c, NEW kk, Queued(q, held, s, guest, g, c, kk),
           NEW e \in Events, Follows(e, q), From(e) = "host" => e.wait = 0,
           From(e) # "none" => e.n = s[From(e)] + 1,
           NEW K, \A k \in K : k \in kk \/ IsOf(e, k)
    PROVE  Queued(EventQ_Push(q, e), HeldAfter(held, e), SentAfter(s, e), guest, g, c, K)
<1> DEFINE r == EventQ_Push(q, e)
<1>1. /\ q \in Seq(Events) /\ Sorted(q) /\ Numbered(q, g, s, c) /\ Told(q, guest, held, kk)
      /\ s \in Counts /\ g \in Counts /\ c \in BOOLEAN /\ \A x \in Sources : g[x] <= s[x]
  BY DEF Queued
<1>2. PICK p \in 0..Len(q) : Placed(q, e, r, p)
  BY <1>1, Pushed
<1>3. Sorted(r)
  BY <1>1, PushSorted
<1>4. Numbered(r, g, SentAfter(s, e), c)
  BY <1>1, <1>2, PushNumbered
<1>5. Told(r, guest, HeldAfter(held, e), K)
  BY <1>1, <1>2, PushTold
<1>6. SentAfter(s, e) \in Counts /\ \A x \in Sources : g[x] <= SentAfter(s, e)[x]
  <2>1. CASE From(e) = "none"
    BY <1>1, <2>1 DEF SentAfter
  <2>2. CASE From(e) # "none"
    <3>1. From(e) \in Sources
      BY <2>2, FromIsASource
    <3>2. SentAfter(s, e) = [s EXCEPT ![From(e)] = @ + 1]
      BY <2>2 DEF SentAfter
    <3>3. SentAfter(s, e) \in Counts
      BY <1>1, <3>1, <3>2 DEF Counts
    <3>4. ASSUME NEW x \in Sources PROVE g[x] <= SentAfter(s, e)[x]
      <4>1. s[x] \in Nat /\ g[x] \in Nat /\ g[x] <= s[x]
        BY <1>1 DEF Counts
      <4>2. SentAfter(s, e)[x] \in {s[x], s[x] + 1}
        BY <1>1, <3>1, <3>2 DEF Counts
      <4> QED
        BY <4>1, <4>2
    <3> QED
      BY <3>3, <3>4
  <2> QED
    BY <2>1, <2>2
<1>7. r \in Seq(Events)
  BY <1>2 DEF Placed
<1> QED
  BY <1>1, <1>3, <1>4, <1>5, <1>6, <1>7 DEF Queued

LEMMA PushQueued ==
    ASSUME NEW q, NEW held, NEW s, NEW guest, NEW g, NEW c, NEW kk, Queued(q, held, s, guest, g, c, kk),
           NEW e \in Events, Follows(e, q), From(e) = "host" => e.wait = 0,
           From(e) # "none" => e.n = s[From(e)] + 1
    PROVE  Queued(EventQ_Push(q, e), HeldAfter(held, e), SentAfter(s, e), guest, g, c, kk)
BY PushKnown

(* Whatever the host pushes follows.                                       *)
LEMMA HostFollows ==
    ASSUME NEW q, NEW held, NEW s, NEW guest, NEW g, NEW c, NEW kk, Queued(q, held, s, guest, g, c, kk),
           NEW e \in Events, From(e) = "host", e.n = s.host + 1
    PROVE  Follows(e, q)
<1>1. q \in Seq(Events) /\ Sorted(q) /\ Numbered(q, g, s, c) /\ s \in Counts
  BY DEF Queued
<1>2. ASSUME NEW i \in DOMAIN q, From(q[i]) = "host" PROVE q[i].wait <= e.wait /\ q[i].n < e.n
  <2>1. q[i].wait = 0 /\ e.wait \in Nat
    BY <1>1, <1>2, EventFields DEF Sorted
  <2>2. q[i].n \in 1..s["host"] /\ s["host"] \in Nat
    BY <1>1, <1>2 DEF Numbered, Counts, Sources
  <2> QED
    BY <2>1, <2>2
<1> QED
  BY <1>2 DEF Follows

(* A script pushes keys after all that are queued.                         *)
UpTo(q, w) == \A i \in DOMAIN q : q[i].kind = "Key" => q[i].wait <= w

LEMMA ScriptFollows ==
    ASSUME NEW q, NEW held, NEW s, NEW guest, NEW g, NEW c, NEW kk, Queued(q, held, s, guest, g, c, kk),
           NEW e \in Events, From(e) = "script", e.n = s.script + 1, UpTo(q, e.wait)
    PROVE  Follows(e, q)
<1>1. q \in Seq(Events) /\ Numbered(q, g, s, c) /\ s \in Counts
  BY DEF Queued
<1>2. ASSUME NEW i \in DOMAIN q, From(q[i]) = "script" PROVE q[i].wait <= e.wait /\ q[i].n < e.n
  <2>1. q[i] \in Events
    BY <1>1
  <2>2. q[i].wait <= e.wait
    BY <1>2, <2>1, FromIsASource DEF UpTo
  <2>3. q[i].n \in 1..s["script"] /\ s["script"] \in Nat
    BY <1>1, <1>2 DEF Numbered, Counts, Sources
  <2> QED
    BY <2>2, <2>3
<1> QED
  BY <1>2 DEF Follows

LEMMA PushUpTo ==
    ASSUME NEW q \in Seq(Events), Sorted(q), NEW e \in Events, NEW w \in Nat, w <= e.wait,
           UpTo(q, w)
    PROVE  UpTo(EventQ_Push(q, e), e.wait)
<1> DEFINE r == EventQ_Push(q, e)
<1>1. PICK p \in 0..Len(q) : Placed(q, e, r, p)
  BY Pushed
<1> HIDE DEF r
<1>2. ASSUME NEW i \in DOMAIN r, r[i].kind = "Key" PROVE r[i].wait <= e.wait
  <2>1. r[i] = e \/ \E j \in DOMAIN q : r[i] = q[j]
    BY <1>1, PlacedIndex
  <2>2. e.wait \in Nat /\ \A j \in DOMAIN q : q[j].wait \in Nat
    BY EventFields
  <2> QED
    BY <1>2, <2>1, <2>2 DEF UpTo
<1> QED
  BY <1>2 DEF UpTo, r

---------------------------------------------------------------------------
(* The events that are pushed.                                             *)

LEMMA KeyEvent ==
    ASSUME NEW k \in Keys, NEW down \in BOOLEAN, NEW wait \in Nat, NEW n \in Nat,
           NEW source \in {"host", "script"}, NEW e, e = Key(k, down, wait, source, n)
    PROVE  /\ e \in Events /\ From(e) = source /\ e.source = source
           /\ e.kind = "Key" /\ e.key = k /\ (e.down <=> down) /\ e.n = n /\ e.wait = wait
<1>1. e = [kind |-> "Key", key |-> k, down |-> down, wait |-> wait, source |-> source, n |-> n]
  BY DEF Key
<1>2. From(e) = source
  BY <1>1 DEF From
<1>3. e \in Events
  BY <1>1 DEF Events
<1>4. /\ e.kind = "Key" /\ e.down = down /\ e.key = k /\ e.n = n /\ e.wait = wait
      /\ e.source = source
  BY <1>1
<1> QED
  BY <1>2, <1>3, <1>4

LEMMA ButtonEvent ==
    ASSUME NEW down \in BOOLEAN, NEW at \in Places \cup {"anywhere"}, NEW wait \in Nat,
           NEW source \in {"host", "click"}, NEW n \in Nat,
           NEW e, e = Button(down, at, wait, source, n), NEW held
    PROVE  /\ e \in Events /\ From(e) = source /\ e.n = n /\ e.wait = wait
           /\ HeldAfter(held, e) = held
<1>1. e = [kind |-> "Button", down |-> down, at |-> at, wait |-> wait, source |-> source,
           n |-> n]
  BY DEF Button
<1>2. From(e) = source
  BY <1>1 DEF From
<1>3. e \in Events
  BY <1>1 DEF Events
<1>4. e.kind = "Button" /\ e.n = n /\ e.wait = wait
  BY <1>1
<1>5. HeldAfter(held, e) = held
  BY <1>4 DEF HeldAfter
<1> QED
  BY <1>2, <1>3, <1>4, <1>5

LEMMA PosEvent ==
    ASSUME NEW p \in Places, NEW e, e = Pos(p, 0), NEW held, NEW s
    PROVE  /\ e \in Events /\ From(e) = "none" /\ e.wait = 0
           /\ HeldAfter(held, e) = held /\ SentAfter(s, e) = s
<1>1. e = [kind |-> "Pos", at |-> p, wait |-> 0]
  BY DEF Pos
<1>2. From(e) = "none"
  BY <1>1 DEF From
<1> QED
  BY <1>1, <1>2 DEF Events, HeldAfter, SentAfter

LEMMA PushKey ==
    ASSUME NEW q, NEW held, NEW s, NEW guest, NEW g, NEW c, NEW kk, Queued(q, held, s, guest, g, c, kk),
           NEW k \in ScriptKeys, NEW down \in BOOLEAN, NEW w \in Nat, NEW wait \in Nat, w <= wait,
           UpTo(q, w)
    PROVE  LET r == EventQ_Push(q, Key(k, down, wait, "script", s.script + 1))
               x == <<"script", k>>
           IN /\ Queued(r, IF down THEN held \cup {x} ELSE held \ {x},
                        [s EXCEPT !.script = @ + 1], guest, g, c, kk \cup {x})
              /\ UpTo(r, wait)
<1>0. PICK e : e = Key(k, down, wait, "script", s.script + 1)
  OBVIOUS
<1>1. k \in Keys
  BY DEF Keys
<1>2. s.script \in Nat /\ s.script + 1 \in Nat
  BY DEF Queued, Counts, Sources
<1>12. PICK n \in Nat : n = s.script + 1
  BY <1>2
<1>3. /\ e \in Events /\ From(e) = "script" /\ e.source = "script"
      /\ e.kind = "Key" /\ e.key = k /\ (e.down <=> down) /\ e.n = n /\ e.wait = wait
  <2>1. e = Key(k, down, wait, "script", n)
    BY <1>0, <1>12
  <2> QED
    BY <1>1, <2>1, KeyEvent
<1> DEFINE x == <<"script", k>>
<1>11. HeldAfter(held, e) = IF down THEN held \cup {x} ELSE held \ {x}
  BY <1>3 DEF HeldAfter
<1>9. SentAfter(s, e) = [s EXCEPT !.script = @ + 1]
  BY <1>3 DEF SentAfter, Queued, Counts
<1>4. q \in Seq(Events) /\ Sorted(q)
  BY DEF Queued
<1>5. UpTo(q, e.wait)
  <2>1. \A i \in DOMAIN q : q[i].wait \in Nat
    BY <1>4, EventFields
  <2> QED
    BY <1>3, <2>1 DEF UpTo
<1>6. Follows(e, q)
  BY <1>3, <1>5, <1>12, ScriptFollows
<1>10. \A y \in kk \cup {x} : y \in kk \/ IsOf(e, y)
  BY <1>3 DEF IsOf
<1>7. Queued(EventQ_Push(q, e), HeldAfter(held, e), SentAfter(s, e), guest, g, c, kk \cup {x})
  <2>1. From(e) # "none" => e.n = s[From(e)] + 1
    BY <1>3, <1>12
  <2> QED
    BY <1>3, <1>6, <1>10, <2>1, PushKnown
<1>8. UpTo(EventQ_Push(q, e), wait)
  BY <1>3, <1>4, PushUpTo
<1> QED
  BY <1>0, <1>7, <1>8, <1>9, <1>11

LEMMA PushClick ==
    ASSUME NEW q, NEW held, NEW s, NEW guest, NEW g, NEW c, NEW kk, Queued(q, held, s, guest, g, c, kk),
           NEW down \in BOOLEAN, NEW p \in Places, NEW wait \in Nat
    PROVE  Queued(EventQ_Push(q, Button(down, p, wait, "click", s.click + 1)), held,
                  [s EXCEPT !.click = @ + 1], guest, g, c, kk)
<1>0. PICK e : e = Button(down, p, wait, "click", s.click + 1)
  OBVIOUS
<1>1. s.click \in Nat /\ s.click + 1 \in Nat
  BY DEF Queued, Counts, Sources
<1>2. /\ e \in Events /\ From(e) = "click" /\ e.n = s.click + 1
      /\ HeldAfter(held, e) = held
  BY <1>0, <1>1, ButtonEvent
<1>5. SentAfter(s, e) = [s EXCEPT !.click = @ + 1]
  BY <1>2 DEF SentAfter, Queued, Counts
<1>3. Follows(e, q)
  BY <1>2 DEF Follows
<1>4. Queued(EventQ_Push(q, e), HeldAfter(held, e), SentAfter(s, e), guest, g, c, kk)
  BY <1>2, <1>3, PushQueued
<1> QED
  BY <1>0, <1>2, <1>4, <1>5

LEMMA PushPos ==
    ASSUME NEW q, NEW held, NEW s, NEW guest, NEW g, NEW c, NEW kk, Queued(q, held, s, guest, g, c, kk),
           NEW p \in Places
    PROVE  Queued(EventQ_Push(q, Pos(p, 0)), held, s, guest, g, c, kk)
<1> DEFINE e == Pos(p, 0)
<1>1. /\ e \in Events /\ From(e) = "none" /\ HeldAfter(held, e) = held /\ SentAfter(s, e) = s
  BY PosEvent
<1> HIDE DEF e
<1>2. Follows(e, q)
  BY <1>1 DEF Follows
<1>3. Queued(EventQ_Push(q, e), HeldAfter(held, e), SentAfter(s, e), guest, g, c, kk)
  BY <1>1, <1>2, PushQueued
<1> QED
  BY <1>1, <1>3 DEF e

(* What only changes times, in order, or places keeps the queue.           *)
LEMMA SameQueued ==
    ASSUME NEW q, NEW held, NEW s, NEW guest, NEW g, NEW c, NEW kk, Queued(q, held, s, guest, g, c, kk),
           NEW r \in Seq(Events), DOMAIN r = DOMAIN q,
           \A i \in DOMAIN q :
              /\ From(r[i]) = From(q[i]) /\ \A k : IsOf(r[i], k) <=> IsOf(q[i], k)
              /\ From(q[i]) # "none" => r[i].n = q[i].n /\ r[i].down = q[i].down,
           \A i, j \in DOMAIN q : i < j => r[i].wait <= r[j].wait,
           \A i \in DOMAIN q : From(q[i]) = "host" => r[i].wait = 0
    PROVE  Queued(r, held, s, guest, g, c, kk)
<1>1. /\ q \in Seq(Events) /\ Sorted(q) /\ Numbered(q, g, s, c) /\ Told(q, guest, held, kk)
  BY DEF Queued
<1>2. Sorted(r)
  BY <1>1 DEF Sorted
<1>3. Numbered(r, g, s, c)
  BY <1>1 DEF Numbered
<1>4. ASSUME NEW i \in DOMAIN q, NEW k, IsOf(q[i], k) PROVE r[i].down = q[i].down
  <2>1. From(q[i]) # "none"
    BY <1>1, <1>4, FromIsASource DEF IsOf
  <2> QED
    BY <2>1
<1>5. Told(r, guest, held, kk)
  BY <1>1, <1>4 DEF Told
<1> QED
  BY <1>2, <1>3, <1>5 DEF Queued

---------------------------------------------------------------------------
(* The actions that push.                                                  *)

(* The position that is replaced is one.                                   *)
LEMMA MouseQueued ==
    ASSUME NEW held, NEW s, NEW guest, NEW g, NEW c, NEW kk, Queued(queue, held, s, guest, g, c, kk),
           NEW p \in Places
    PROVE  Queued(MousePositionSet(p), held, s, guest, g, c, kk)
<1> DEFINE due == {i \in 1..DueCount(queue) : queue[i].kind = "Pos"}
           last == CHOOSE i \in due : \A j \in due : j <= i
           r == [queue EXCEPT ![last].at = p]
<1>1. queue \in Seq(Events) /\ Sorted(queue)
  BY DEF Queued
<1>2. CASE p = curMouse
  BY <1>2 DEF MousePositionSet
<1>3. CASE p # curMouse /\ due = {}
  <2>1. MousePositionSet(p) = EventQ_Push(queue, Pos(p, 0))
    BY <1>3 DEF MousePositionSet, EventQ_PushMousePos
  <2> QED
    BY <2>1, PushPos
<1>4. CASE p # curMouse /\ due # {}
  <2>1. MousePositionSet(p) = r
    BY <1>4 DEF MousePositionSet, EventQ_PushMousePos
  <2>2. DueCount(queue) \in 0..Len(queue)
    BY <1>1, ImmediatePlace
  <2>3. \E i \in due : \A j \in due : j <= i
    <3>1. due \in SUBSET (0..DueCount(queue)) /\ DueCount(queue) \in Nat
      BY <2>2
    <3> QED
      BY <1>4, <3>1, Greatest
  <2>4. last \in due
    BY <2>3
  <2>5. last \in DOMAIN queue /\ queue[last].kind = "Pos"
    BY <1>1, <2>2, <2>4
  <2> HIDE DEF last, due
  <2>6. DOMAIN r = DOMAIN queue /\ r[last] = [queue[last] EXCEPT !.at = p]
        /\ \A i \in DOMAIN queue : i # last => r[i] = queue[i]
    BY <1>1, <2>5
  <2>7. queue[last] \in [kind : {"Pos"}, at : Places, wait : Nat]
    <3>1. queue[last] \in Events
      BY <1>1, <2>5
    <3> QED
      BY <2>5, <3>1 DEF Events
  <2>8. /\ r[last] \in [kind : {"Pos"}, at : Places, wait : Nat]
        /\ r[last].wait = queue[last].wait
    BY <2>6, <2>7
  <2>9. r[last] \in Events /\ r[last].kind = "Pos"
    BY <2>8 DEF Events
  <2>10. r \in Seq(Events)
    <3>1. \A i \in 1..Len(queue) : r[i] \in Events
      BY <1>1, <2>6, <2>9
    <3>2. r = [i \in 1..Len(queue) |-> r[i]] /\ Len(queue) \in Nat
      BY <1>1, <2>6
    <3> HIDE DEF r
    <3> QED
      BY <3>1, <3>2, SeqDef
  <2> HIDE DEF r
  <2>11. ASSUME NEW i \in DOMAIN queue
         PROVE  /\ From(r[i]) = From(queue[i]) /\ r[i].wait = queue[i].wait
                /\ \A k : IsOf(r[i], k) <=> IsOf(queue[i], k)
                /\ From(queue[i]) # "none" => r[i].n = queue[i].n /\ r[i].down = queue[i].down
    <3>1. CASE i = last
      BY <2>5, <2>8, <2>9, <3>1 DEF From, IsOf
    <3>2. CASE i # last
      BY <2>6, <3>2
    <3> QED
      BY <3>1, <3>2
  <2>12. \A i, j \in DOMAIN queue : i < j => r[i].wait <= r[j].wait
    BY <1>1, <2>11 DEF Sorted
  <2>13. \A i \in DOMAIN queue : From(queue[i]) = "host" => r[i].wait = 0
    BY <1>1, <2>11 DEF Sorted
  <2>14. Queued(r, held, s, guest, g, c, kk)
    BY <2>6, <2>10, <2>11, <2>12, <2>13, SameQueued
  <2> QED
    BY <2>1, <2>14 DEF r
<1> QED
  BY <1>2, <1>3, <1>4

(* The last of the pending keys.                                           *)
LEMMA LatestKey ==
    ASSUME queue \in Seq(Events), Sorted(queue)
    PROVE  EventQ_LatestKeyTime \in Nat /\ UpTo(queue, EventQ_LatestKeyTime)
<1> DEFINE waits == {queue[i].wait : i \in {j \in DOMAIN queue : IsFutureKey(queue[j])}} \cup {0}
           Fits(w) == \A v \in waits : v <= w
<1>1. \A i \in DOMAIN queue : queue[i].wait \in Nat
  BY EventFields
<1>2. \E b \in Nat : waits \in SUBSET (0..b)
  <2>1. CASE Len(queue) = 0
    <3>1. waits \in SUBSET (0..0)
      BY <2>1
    <3> QED
      BY <3>1
  <2>2. CASE Len(queue) # 0
    <3>1. Len(queue) \in DOMAIN queue
      BY <2>2
    <3>2. \A i \in DOMAIN queue : queue[i].wait \in 0..queue[Len(queue)].wait
      <4> SUFFICES ASSUME NEW i \in DOMAIN queue
                   PROVE  queue[i].wait \in 0..queue[Len(queue)].wait
        OBVIOUS
      <4>1. i = Len(queue) \/ i < Len(queue)
        OBVIOUS
      <4>2. queue[i].wait <= queue[Len(queue)].wait
        BY <1>1, <3>1, <4>1 DEF Sorted
      <4> QED
        BY <1>1, <3>1, <4>2
    <3>3. waits \in SUBSET (0..queue[Len(queue)].wait)
      BY <1>1, <3>1, <3>2
    <3> QED
      BY <1>1, <3>1, <3>3
  <2> QED
    BY <2>1, <2>2
<1>3. \E m \in waits : Fits(m)
  <2>1. waits # {}
    OBVIOUS
  <2> HIDE DEF waits
  <2> QED
    BY <1>2, <2>1, Greatest
<1>4. EventQ_LatestKeyTime \in waits /\ Fits(EventQ_LatestKeyTime)
  <2> HIDE DEF Fits
  <2>1. EventQ_LatestKeyTime = CHOOSE w \in waits : Fits(w)
    BY DEF EventQ_LatestKeyTime, Fits
  <2> HIDE DEF waits
  <2> QED
    BY <1>3, <2>1, Zenon
<1>5. EventQ_LatestKeyTime \in Nat
  BY <1>2, <1>4
<1>6. ASSUME NEW i \in DOMAIN queue, queue[i].kind = "Key"
      PROVE  queue[i].wait <= EventQ_LatestKeyTime
  <2>1. CASE queue[i].wait = 0
    BY <1>5, <2>1
  <2>2. CASE queue[i].wait > 0
    <3>1. queue[i].wait \in waits
      BY <1>6, <2>2 DEF IsFutureKey
    <3> QED
      BY <1>4, <3>1
  <2> QED
    BY <1>1, <2>1, <2>2
<1> QED
  BY <1>5, <1>6 DEF UpTo

(* What the guest was told is a matter of its own.                         *)
LEMMA Restored ==
    ASSUME NEW told, State', Queued(queue', Held', sent', told, got', cleared', Known'),
           Heard(told), UNCHANGED <<guestKeys, by>>
    PROVE  IInv'
<1>1. Heard(told)'
  BY DEF Heard
<1> QED
  BY <1>1 DEF IInv, QueueInv

LEMMA KeyStep ==
    ASSUME IInv, NEW k \in HostKeys, Keyboard_UpdateKeyMap(k)
    PROVE  IInv'
<1> DEFINE down == k \notin hostKeys
<1>1. PICK told : State /\ Queued(queue, Held, sent, told, got, cleared, Known) /\ Heard(told)
  BY DEF IInv, QueueInv
<1>2. PICK e : e = Key(k, down, 0, "host", sent.host + 1)
  OBVIOUS
<1>3. /\ hostKeys' = (IF down THEN hostKeys \cup {k} ELSE hostKeys \ {k})
      /\ queue' = EventQ_Push(queue, e) /\ sent' = [sent EXCEPT !.host = @ + 1]
      /\ UNCHANGED <<lock, phase, left, hostButton, background, curMouse, mouseEnabled,
                     guestKeys, by, guestButton, guestMouse, got, clearVars>>
  BY <1>2 DEF Keyboard_UpdateKeyMap, guestVars
<1>4. k \in Keys /\ down \in BOOLEAN /\ sent \in Counts
  BY <1>1 DEF Keys, Queued
<1>5. PICK n \in Nat : n = sent.host + 1
  BY <1>4 DEF Counts, Sources
<1>6. /\ e \in Events /\ From(e) = "host" /\ e.source = "host"
      /\ e.kind = "Key" /\ e.key = k /\ (e.down <=> down) /\ e.n = sent.host + 1 /\ e.wait = 0
  <2>1. e = Key(k, down, 0, "host", n) /\ 0 \in Nat
    BY <1>2, <1>5
  <2> HIDE DEF down
  <2> QED
    BY <1>4, <1>5, <2>1, KeyEvent
<1>7. HeldAfter(Held, e) = Held' /\ SentAfter(sent, e) = sent'
  <2>1. SentAfter(sent, e) = sent'
    BY <1>3, <1>4, <1>6 DEF SentAfter, Counts
  <2>2. HeldAfter(Held, e) = IF down THEN Held \cup {<<"host", k>>} ELSE Held \ {<<"host", k>>}
    BY <1>6 DEF HeldAfter
  <2>3. Held' = IF down THEN Held \cup {<<"host", k>>} ELSE Held \ {<<"host", k>>}
    BY <1>3 DEF Held
  <2> QED
    BY <2>1, <2>2, <2>3
<1>8. Follows(e, queue)
  BY <1>1, <1>6, HostFollows
<1>9. Queued(EventQ_Push(queue, e), HeldAfter(Held, e), SentAfter(sent, e), told, got, cleared, Known)
  BY <1>1, <1>6, <1>8, PushQueued
<1>10. State'
  BY <1>1, <1>3, <1>4 DEF State, clearVars
<1>11. Known' = Known /\ cleared' = cleared
  BY <1>3 DEF Known, clearVars
<1> QED
  BY <1>1, <1>3, <1>7, <1>9, <1>10, <1>11, Restored

LEMMA MoveStep ==
    ASSUME IInv, NEW p \in Places, MouseMove(p)
    PROVE  IInv'
<1>1. PICK told : State /\ Queued(queue, Held, sent, told, got, cleared, Known) /\ Heard(told)
  BY DEF IInv, QueueInv
<1>2. queue' = MousePositionSet(p)
      /\ UNCHANGED <<lock, phase, left, hostKeys, hostButton, background, curMouse, mouseEnabled,
                     guestKeys, by, guestButton, guestMouse, got, sent, clearVars>>
  BY DEF MouseMove, hostVars, guestVars
<1>3. Queued(MousePositionSet(p), Held, sent, told, got, cleared, Known)
  BY <1>1, MouseQueued
<1>4. State'
  BY <1>1, <1>2 DEF State, clearVars
<1>5. Held' = Held /\ Known' = Known /\ cleared' = cleared
  BY <1>2 DEF Held, Known, clearVars
<1> QED
  BY <1>1, <1>2, <1>3, <1>4, <1>5, Restored

LEMMA ButtonStep ==
    ASSUME IInv, NEW p \in Places, MouseButton(p)
    PROVE  IInv'
<1> DEFINE down == ~hostButton
           q == MousePositionSet(p)
<1>1. PICK told : State /\ Queued(queue, Held, sent, told, got, cleared, Known) /\ Heard(told)
  BY DEF IInv, QueueInv
<1>2. PICK e : e = Button(down, p, 0, "host", sent.host + 1)
  OBVIOUS
<1>3. /\ hostButton' = ~hostButton
      /\ queue' = EventQ_Push(q, e) /\ sent' = [sent EXCEPT !.host = @ + 1]
      /\ UNCHANGED <<lock, phase, left, hostKeys, background, curMouse, mouseEnabled,
                     guestKeys, by, guestButton, guestMouse, got, clearVars>>
  BY <1>2 DEF MouseButton, guestVars
<1>4. down \in BOOLEAN /\ sent \in Counts /\ Queued(q, Held, sent, told, got, cleared, Known)
  BY <1>1, MouseQueued DEF Queued
<1>5. PICK n \in Nat : n = sent.host + 1
  BY <1>4 DEF Counts, Sources
<1>6. /\ e \in Events /\ From(e) = "host" /\ HeldAfter(Held, e) = Held
      /\ e.n = sent.host + 1 /\ e.wait = 0
  <2>1. e = Button(down, p, 0, "host", n) /\ 0 \in Nat
    BY <1>2, <1>5
  <2> HIDE DEF down
  <2> QED
    BY <1>4, <1>5, <2>1, ButtonEvent
<1> HIDE DEF down, q
<1>7. SentAfter(sent, e) = sent'
  BY <1>3, <1>4, <1>6 DEF SentAfter, Counts
<1>8. Follows(e, q)
  BY <1>4, <1>6, HostFollows
<1>9. Queued(EventQ_Push(q, e), HeldAfter(Held, e), SentAfter(sent, e), told, got, cleared, Known)
  BY <1>4, <1>6, <1>8, PushQueued
<1>10. State'
  BY <1>1, <1>3 DEF State, clearVars
<1>11. Held' = Held /\ Known' = Known /\ cleared' = cleared
  BY <1>3 DEF Held, Known, clearVars
<1> QED
  BY <1>1, <1>3, <1>6, <1>7, <1>9, <1>10, <1>11, Restored

(* Numbers counted up one by one.                                          *)
Up(s, x, n, a) == a \in Counts /\ \A y \in Sources : a[y] = IF y = x THEN s[x] + n ELSE s[y]

LEMMA UpStep ==
    ASSUME NEW s \in Counts, NEW x \in Sources, NEW n \in Nat
    PROVE  Up(s, x, n, [s EXCEPT ![x] = @ + n])
BY DEF Up, Counts

LEMMA UpTwice ==
    ASSUME NEW s \in Counts, NEW x \in Sources, NEW n \in Nat, NEW k \in Nat,
           NEW a, NEW b, Up(s, x, n, a), Up(a, x, k, b)
    PROVE  Up(s, x, n + k, b) /\ a[x] + k = s[x] + (n + k)
<1>1. s[x] \in Nat /\ a[x] = s[x] + n /\ b[x] = a[x] + k
  BY DEF Counts, Up
<1>2. \A y \in Sources : y # x => b[y] = s[y]
  BY DEF Up
<1> QED
  BY <1>1, <1>2 DEF Up

LEMMA UpOnce ==
    ASSUME NEW s \in Counts, NEW x \in Sources, NEW n \in Nat, NEW a, NEW b,
           Up(s, x, n, a), Up(s, x, n, b)
    PROVE  a = b
BY DEF Up, Counts

(* What the script commands leave alone.                                   *)
ScriptFrame ==
    UNCHANGED <<lock, phase, left, hostKeys, hostButton, background, curMouse, mouseEnabled,
                guestKeys, by, guestButton, guestMouse, got>>

LEMMA TypeStep ==
    ASSUME IInv, NEW k \in ScriptKeys, CmdType(k)
    PROVE  IInv'
<1> DEFINE t == EventQ_LatestKeyTime + Gap
           q1 == EventQ_Push(queue, Key(k, TRUE, t, "script", sent.script + 1))
           q2 == EventQ_Push(q1, Key(k, FALSE, t + Hold, "script", sent.script + 2))
<1>1. PICK told : /\ State /\ Queued(queue, Held, sent, told, got, cleared, Known)
                  /\ Heard(told) /\ sent \in Counts
  BY DEF IInv, QueueInv, Queued
<1>2. PICK s1, s2 : s1 = [sent EXCEPT !.script = @ + 1] /\ s2 = [s1 EXCEPT !.script = @ + 1]
  OBVIOUS
<1>3. s1.script + 1 = sent.script + 2 /\ s2 = [sent EXCEPT !.script = @ + 2]
  <2>1. "script" \in Sources
    BY DEF Sources
  <2>2. Up(sent, "script", 1, s1)
    BY <1>1, <1>2, <2>1, UpStep
  <2>6. s1 \in Counts
    BY <2>2 DEF Up
  <2>3. Up(s1, "script", 1, s2)
    BY <1>2, <2>1, <2>6, UpStep
  <2>4. Up(sent, "script", 2, s2) /\ s1.script + 1 = sent.script + 2
    BY <1>1, <2>1, <2>2, <2>3, UpTwice
  <2>5. Up(sent, "script", 2, [sent EXCEPT !.script = @ + 2])
    BY <1>1, <2>1, UpStep
  <2> QED
    BY <1>1, <2>1, <2>4, <2>5, UpOnce
<1>4. queue' = q2 /\ sent' = s2 /\ cleared' = cleared /\ cut' = cut \ {k} /\ ScriptFrame
  BY <1>3 DEF CmdType, hostVars, guestVars, ScriptFrame
<1>5. EventQ_LatestKeyTime \in Nat /\ UpTo(queue, EventQ_LatestKeyTime)
  BY <1>1, LatestKey DEF Queued
<1>6. t \in Nat /\ EventQ_LatestKeyTime <= t /\ t + Hold \in Nat /\ t <= t + Hold
  BY <1>5, InputAssumption
<1> HIDE DEF t
<1> DEFINE x == <<"script", k>>
<1>7. Queued(q1, Held \cup {x}, s1, told, got, cleared, Known \cup {x}) /\ UpTo(q1, t)
  BY <1>1, <1>2, <1>5, <1>6, PushKey
<1> HIDE DEF q1
<1>8. q2 = EventQ_Push(q1, Key(k, FALSE, t + Hold, "script", s1.script + 1))
  BY <1>3
<1>9. Queued(q2, (Held \cup {x}) \ {x}, s2, told, got, cleared, (Known \cup {x}) \cup {x})
  <2>1. Queued(q2, (Held \cup {x}) \ {x}, [s1 EXCEPT !.script = @ + 1], told, got, cleared,
               (Known \cup {x}) \cup {x})
    BY <1>6, <1>7, <1>8, PushKey
  <2> QED
    BY <1>2, <2>1
<1>10. (Held \cup {x}) \ {x} = Held' /\ (Known \cup {x}) \cup {x} = Known'
  <2>1. x \notin Held /\ Held' = Held
    BY <1>4 DEF Held, ScriptFrame
  <2>2. Known' = Known \cup {x}
    BY <1>4 DEF Known
  <2> QED
    BY <2>1, <2>2
<1>11. State'
  BY <1>1, <1>4 DEF State, ScriptFrame
<1>12. Queued(queue', Held', sent', told, got', cleared', Known')
  BY <1>4, <1>9, <1>10 DEF ScriptFrame
<1> QED
  BY <1>1, <1>4, <1>11, <1>12, Restored DEF ScriptFrame

LEMMA ChordStep ==
    ASSUME IInv, NEW m \in ScriptKeys, NEW k \in ScriptKeys, NEW lead \in Nat, Chord(m, k, lead)
    PROVE  IInv'
<1> DEFINE t == EventQ_LatestKeyTime + Gap
           up == t + lead + Hold
           q1 == EventQ_Push(queue, Key(m, TRUE, t, "script", sent.script + 1))
           q2 == EventQ_Push(q1, Key(k, TRUE, t + lead, "script", sent.script + 2))
           q3 == EventQ_Push(q2, Key(k, FALSE, up, "script", sent.script + 3))
           q4 == EventQ_Push(q3, Key(m, FALSE, up + lead, "script", sent.script + 4))
<1>1. PICK told : /\ State /\ Queued(queue, Held, sent, told, got, cleared, Known)
                  /\ Heard(told) /\ sent \in Counts
  BY DEF IInv, QueueInv, Queued
<1>2. PICK s1, s2, s3, s4 : /\ s1 = [sent EXCEPT !.script = @ + 1] /\ s2 = [s1 EXCEPT !.script = @ + 1]
                            /\ s3 = [s2 EXCEPT !.script = @ + 1] /\ s4 = [s3 EXCEPT !.script = @ + 1]
  OBVIOUS
<1>3. /\ s1.script + 1 = sent.script + 2 /\ s2.script + 1 = sent.script + 3
      /\ s3.script + 1 = sent.script + 4 /\ s4 = [sent EXCEPT !.script = @ + 4]
  <2>1. "script" \in Sources
    BY DEF Sources
  <2>2. Up(sent, "script", 1, s1)
    BY <1>1, <1>2, <2>1, UpStep
  <2>10. s1 \in Counts
    BY <2>2 DEF Up
  <2>3. Up(s1, "script", 1, s2)
    BY <1>2, <2>1, <2>10, UpStep
  <2>11. s2 \in Counts
    BY <2>3 DEF Up
  <2>4. Up(s2, "script", 1, s3)
    BY <1>2, <2>1, <2>11, UpStep
  <2>12. s3 \in Counts
    BY <2>4 DEF Up
  <2>5. Up(s3, "script", 1, s4)
    BY <1>2, <2>1, <2>12, UpStep
  <2>6. Up(sent, "script", 2, s2) /\ s1.script + 1 = sent.script + 2
    BY <1>1, <2>1, <2>2, <2>3, UpTwice
  <2>7. Up(sent, "script", 3, s3) /\ s2.script + 1 = sent.script + 3
    BY <1>1, <2>1, <2>4, <2>6, UpTwice
  <2>8. Up(sent, "script", 4, s4) /\ s3.script + 1 = sent.script + 4
    BY <1>1, <2>1, <2>5, <2>7, UpTwice
  <2>9. Up(sent, "script", 4, [sent EXCEPT !.script = @ + 4])
    BY <1>1, <2>1, UpStep
  <2> QED
    BY <1>1, <2>1, <2>6, <2>7, <2>8, <2>9, UpOnce
<1>4. /\ queue' = q4 /\ sent' = s4 /\ cleared' = cleared /\ cut' = cut \ {m, k}
      /\ m # k /\ ScriptFrame
  BY <1>3 DEF Chord, hostVars, guestVars, ScriptFrame
<1>5. EventQ_LatestKeyTime \in Nat /\ UpTo(queue, EventQ_LatestKeyTime)
  BY <1>1, LatestKey DEF Queued
<1>6. /\ t \in Nat /\ EventQ_LatestKeyTime <= t
      /\ t + lead \in Nat /\ t <= t + lead
      /\ up \in Nat /\ t + lead <= up /\ up + lead \in Nat /\ up <= up + lead
  BY <1>5, InputAssumption
<1> HIDE DEF t, up
<1> DEFINE x == <<"script", m>>
           y == <<"script", k>>
           h2 == (Held \cup {x}) \cup {y}
           k2 == (Known \cup {x}) \cup {y}
<1>7. Queued(q1, Held \cup {x}, s1, told, got, cleared, Known \cup {x}) /\ UpTo(q1, t)
  BY <1>1, <1>2, <1>5, <1>6, PushKey
<1> HIDE DEF q1
<1>8. Queued(q2, h2, s2, told, got, cleared, k2) /\ UpTo(q2, t + lead)
  <2>1. q2 = EventQ_Push(q1, Key(k, TRUE, t + lead, "script", s1.script + 1))
    BY <1>3
  <2>2. /\ Queued(q2, h2, [s1 EXCEPT !.script = @ + 1], told, got, cleared, k2)
        /\ UpTo(q2, t + lead)
    BY <1>6, <1>7, <2>1, PushKey
  <2> QED
    BY <1>2, <2>2
<1> HIDE DEF q2
<1>9. Queued(q3, h2 \ {y}, s3, told, got, cleared, k2 \cup {y}) /\ UpTo(q3, up)
  <2>1. q3 = EventQ_Push(q2, Key(k, FALSE, up, "script", s2.script + 1))
    BY <1>3
  <2>2. /\ Queued(q3, h2 \ {y}, [s2 EXCEPT !.script = @ + 1], told, got, cleared, k2 \cup {y})
        /\ UpTo(q3, up)
    BY <1>6, <1>8, <2>1, PushKey
  <2> QED
    BY <1>2, <2>2
<1> HIDE DEF q3
<1>10. Queued(q4, (h2 \ {y}) \ {x}, s4, told, got, cleared, (k2 \cup {y}) \cup {x})
  <2>1. q4 = EventQ_Push(q3, Key(m, FALSE, up + lead, "script", s3.script + 1))
    BY <1>3
  <2>2. Queued(q4, (h2 \ {y}) \ {x}, [s3 EXCEPT !.script = @ + 1], told, got, cleared,
               (k2 \cup {y}) \cup {x})
    BY <1>6, <1>9, <2>1, PushKey
  <2> QED
    BY <1>2, <2>2
<1>11. (h2 \ {y}) \ {x} = Held' /\ (k2 \cup {y}) \cup {x} = Known'
  <2>1. x \notin Held /\ y \notin Held /\ Held' = Held
    BY <1>4 DEF Held, ScriptFrame
  <2>2. Known' = Known \cup {x, y}
    BY <1>4 DEF Known
  <2> QED
    BY <2>1, <2>2
<1>12. State'
  BY <1>1, <1>4 DEF State, ScriptFrame
<1>13. Queued(queue', Held', sent', told, got', cleared', Known')
  BY <1>4, <1>10, <1>11 DEF ScriptFrame
<1> QED
  BY <1>1, <1>4, <1>12, <1>13, Restored DEF ScriptFrame

LEMMA ClickStep ==
    ASSUME IInv, NEW p \in Places, CmdClick(p)
    PROVE  IInv'
<1> DEFINE q1 == EventQ_Push(queue, Pos(p, 0))
           q2 == EventQ_Push(q1, Button(TRUE, p, ClickDown, "click", sent.click + 1))
           q3 == EventQ_Push(q2, Button(FALSE, p, ClickUp, "click", sent.click + 2))
<1>1. PICK told : /\ State /\ Queued(queue, Held, sent, told, got, cleared, Known)
                  /\ Heard(told) /\ sent \in Counts
  BY DEF IInv, QueueInv, Queued
<1>2. PICK s1, s2 : s1 = [sent EXCEPT !.click = @ + 1] /\ s2 = [s1 EXCEPT !.click = @ + 1]
  OBVIOUS
<1>3. s1.click + 1 = sent.click + 2 /\ s2 = [sent EXCEPT !.click = @ + 2]
  <2>1. "click" \in Sources
    BY DEF Sources
  <2>2. Up(sent, "click", 1, s1)
    BY <1>1, <1>2, <2>1, UpStep
  <2>6. s1 \in Counts
    BY <2>2 DEF Up
  <2>3. Up(s1, "click", 1, s2)
    BY <1>2, <2>1, <2>6, UpStep
  <2>4. Up(sent, "click", 2, s2) /\ s1.click + 1 = sent.click + 2
    BY <1>1, <2>1, <2>2, <2>3, UpTwice
  <2>5. Up(sent, "click", 2, [sent EXCEPT !.click = @ + 2])
    BY <1>1, <2>1, UpStep
  <2> QED
    BY <1>1, <2>1, <2>4, <2>5, UpOnce
<1>4. queue' = q3 /\ sent' = s2 /\ cleared' = cleared /\ cut' = cut /\ ScriptFrame
  BY <1>3 DEF CmdClick, hostVars, guestVars, clearVars, ScriptFrame
<1>5. ClickDown \in Nat /\ ClickUp \in Nat
  BY InputAssumption
<1>6. Queued(q1, Held, sent, told, got, cleared, Known)
  BY <1>1, PushPos
<1> HIDE DEF q1
<1>7. Queued(q2, Held, s1, told, got, cleared, Known)
  BY <1>2, <1>5, <1>6, PushClick
<1> HIDE DEF q2
<1>8. q3 = EventQ_Push(q2, Button(FALSE, p, ClickUp, "click", s1.click + 1))
  BY <1>3
<1>9. Queued(q3, Held, s2, told, got, cleared, Known)
  BY <1>2, <1>5, <1>7, <1>8, PushClick
<1>10. State'
  BY <1>1, <1>4 DEF State, ScriptFrame
<1>11. Held' = Held /\ Known' = Known
  BY <1>4 DEF Held, Known, ScriptFrame
<1>12. Queued(queue', Held', sent', told, got', cleared', Known')
  BY <1>4, <1>9, <1>11 DEF ScriptFrame
<1> QED
  BY <1>1, <1>4, <1>10, <1>12, Restored DEF ScriptFrame

---------------------------------------------------------------------------
(* The time that passes.                                                   *)

LEMMA Sooner ==
    ASSUME NEW e \in Events, NEW w \in Nat, NEW f, f = [e EXCEPT !.wait = w]
    PROVE  /\ f \in Events /\ f.wait = w /\ From(f) = From(e)
           /\ \A k : IsOf(f, k) <=> IsOf(e, k)
           /\ From(e) # "none" => f.n = e.n /\ f.down = e.down
<1>1. CASE e \in [kind : {"Key"}, key : Keys, down : BOOLEAN, wait : Nat,
                  source : {"host", "script"}, n : Nat]
  <2>1. f \in [kind : {"Key"}, key : Keys, down : BOOLEAN, wait : Nat,
               source : {"host", "script"}, n : Nat]
    BY <1>1
  <2>2. f.kind = "Key" /\ e.kind = "Key" /\ f.key = e.key /\ f.wait = w /\ f.n = e.n
        /\ f.down = e.down /\ f.source = e.source
    BY <1>1
  <2> QED
    BY <2>1, <2>2 DEF Events, From, IsOf
<1>2. CASE e \in [kind : {"Button"}, down : BOOLEAN, at : Places \cup {"anywhere"}, wait : Nat,
                  source : {"host", "click"}, n : Nat]
  <2>1. f \in [kind : {"Button"}, down : BOOLEAN, at : Places \cup {"anywhere"}, wait : Nat,
               source : {"host", "click"}, n : Nat]
    BY <1>2
  <2>2. f.kind = "Button" /\ e.kind = "Button" /\ f.source = e.source /\ f.wait = w
        /\ f.n = e.n /\ f.down = e.down
    BY <1>2
  <2> QED
    BY <2>1, <2>2 DEF Events, From, IsOf
<1>3. CASE e \in [kind : {"Pos"}, at : Places, wait : Nat]
  <2>1. f \in [kind : {"Pos"}, at : Places, wait : Nat]
    BY <1>3
  <2>2. f.kind = "Pos" /\ e.kind = "Pos" /\ f.wait = w
    BY <1>3
  <2> QED
    BY <2>1, <2>2 DEF Events, From, IsOf
<1> QED
  BY <1>1, <1>2, <1>3 DEF Events

LEMMA ElapseStep ==
    ASSUME IInv, Elapse
    PROVE  IInv'
<1>1. PICK told : /\ State /\ Queued(queue, Held, sent, told, got, cleared, Known)
                  /\ Heard(told) /\ queue \in Seq(Events) /\ Sorted(queue)
  BY DEF IInv, QueueInv, Queued
<1>2. PICK r : r = queue'
  OBVIOUS
<1>3. r = [i \in DOMAIN queue |-> [queue[i] EXCEPT !.wait = IF @ = 0 THEN 0 ELSE @ - 1]]
      /\ left > 0 /\ left' = left - 1
      /\ UNCHANGED <<lock, phase, hostKeys, hostButton, background, curMouse, mouseEnabled,
                     guestKeys, by, guestButton, guestMouse, got, sent, clearVars>>
  BY <1>2 DEF Elapse, hostVars, guestVars
<1>4. \A i \in DOMAIN queue : queue[i] \in Events /\ queue[i].wait \in Nat
  BY <1>1, EventFields
<1>5. DOMAIN r = DOMAIN queue
  BY <1>3
<1>6. ASSUME NEW i \in DOMAIN queue
      PROVE  /\ r[i] \in Events /\ r[i].wait = IF queue[i].wait = 0 THEN 0 ELSE queue[i].wait - 1
             /\ From(r[i]) = From(queue[i]) /\ \A k : IsOf(r[i], k) <=> IsOf(queue[i], k)
             /\ From(queue[i]) # "none" => r[i].n = queue[i].n /\ r[i].down = queue[i].down
  <2>1. PICK w \in Nat : w = IF queue[i].wait = 0 THEN 0 ELSE queue[i].wait - 1
    BY <1>4
  <2>2. PICK e \in Events : e = queue[i]
    BY <1>4
  <2>3. r[i] = [e EXCEPT !.wait = w]
    BY <1>3, <2>1, <2>2
  <2> QED
    BY <2>1, <2>2, <2>3, Sooner
<1>7. r \in Seq(Events)
  <2>1. r = [i \in 1..Len(queue) |-> r[i]] /\ Len(queue) \in Nat
        /\ DOMAIN queue = 1..Len(queue)
    BY <1>1, <1>3
  <2>2. \A i \in 1..Len(queue) : r[i] \in Events
    BY <1>6, <2>1
  <2> QED
    BY <2>1, <2>2, SeqDef
<1>8. \A i, j \in DOMAIN queue : i < j => r[i].wait <= r[j].wait
  <2> SUFFICES ASSUME NEW i \in DOMAIN queue, NEW j \in DOMAIN queue, i < j
               PROVE  r[i].wait <= r[j].wait
    OBVIOUS
  <2>1. queue[i].wait <= queue[j].wait
    BY <1>1 DEF Sorted
  <2> QED
    BY <1>4, <1>6, <2>1
<1>9. \A i \in DOMAIN queue : From(queue[i]) = "host" => r[i].wait = 0
  BY <1>1, <1>6 DEF Sorted
<1>10. Queued(r, Held, sent, told, got, cleared, Known)
  BY <1>1, <1>5, <1>6, <1>7, <1>8, <1>9, SameQueued
<1>11. left' \in 0..TickUnits
  BY <1>1, <1>3, InputAssumption DEF State
<1>12. State'
  BY <1>1, <1>3, <1>11 DEF State, clearVars
<1>13. Held' = Held /\ Known' = Known /\ cleared' = cleared
  BY <1>3 DEF Held, Known, clearVars
<1> QED
  BY <1>1, <1>2, <1>3, <1>10, <1>12, <1>13, Restored

---------------------------------------------------------------------------
(* Taking the head of the queue.                                           *)

(* What the guest was told, and of each source, after it took e.           *)
Took(e, guest, g, guest2, g2) ==
    /\ g2 \in Counts
    /\ \A x \in Sources : g2[x] = IF x = From(e) THEN e.n ELSE g[x]
    /\ guest2 = HeldAfter(guest, e)

LEMMA TakeQueued ==
    ASSUME NEW q, NEW held, NEW s, NEW guest, NEW g, NEW c, NEW kk, Queued(q, held, s, guest, g, c, kk),
           q # <<>>, NEW guest2, NEW g2, Took(Head(q), guest, g, guest2, g2)
    PROVE  Queued(Tail(q), held, s, guest2, g2, c, kk)
<1>1. /\ q \in Seq(Events) /\ Sorted(q) /\ Numbered(q, g, s, c) /\ Told(q, guest, held, kk)
      /\ s \in Counts /\ g \in Counts /\ c \in BOOLEAN /\ \A x \in Sources : g[x] <= s[x]
  BY DEF Queued
<1>2. PICK e \in Events : e = Head(q) /\ e = q[1]
  BY <1>1
<1>3. PICK r : r = Tail(q)
  OBVIOUS
<1>4. /\ r \in Seq(Events) /\ Len(r) = Len(q) - 1 /\ DOMAIN r = 1..Len(r)
      /\ DOMAIN q = 1..Len(q) /\ Len(r) \in Nat /\ 1 \in DOMAIN q
      /\ \A i \in DOMAIN r : i + 1 \in DOMAIN q /\ r[i] = q[i + 1]
  BY <1>1, <1>3
<1>5. \A i \in DOMAIN q : i # 1 => i - 1 \in DOMAIN r /\ r[i - 1] = q[i]
  <2> SUFFICES ASSUME NEW i \in DOMAIN q, i # 1 PROVE i - 1 \in DOMAIN r /\ r[i - 1] = q[i]
    OBVIOUS
  <2>1. i - 1 \in DOMAIN r /\ (i - 1) + 1 = i
    BY <1>4
  <2> QED
    BY <1>4, <2>1
<1>6. \A i \in DOMAIN q : i # 1 => 1 < i
  BY <1>4
<1>7. Sorted(r)
  <2>1. \A i, j \in DOMAIN r : i < j => i + 1 < j + 1
    BY <1>4
  <2> QED
    BY <1>1, <1>4, <2>1 DEF Sorted
<1>8. g2 \in Counts /\ \A x \in Sources : g2[x] = IF x = From(e) THEN e.n ELSE g[x]
  BY <1>2 DEF Took
<1>9. \A x \in Sources : g2[x] \in Nat /\ s[x] \in Nat /\ g[x] \in Nat /\ g2[x] <= s[x]
  <2> SUFFICES ASSUME NEW x \in Sources
               PROVE  g2[x] \in Nat /\ s[x] \in Nat /\ g[x] \in Nat /\ g2[x] <= s[x]
    OBVIOUS
  <2>1. g2[x] \in Nat /\ s[x] \in Nat /\ g[x] \in Nat /\ g[x] <= s[x]
    BY <1>1, <1>8 DEF Counts
  <2>2. x = From(e) => e.n \in 1..s[x]
    BY <1>1, <1>2, <1>4, FromIsASource DEF Numbered, Sources
  <2> QED
    BY <1>8, <2>1, <2>2
<1>10. ASSUME NEW i \in DOMAIN r, From(r[i]) # "none"
       PROVE  /\ r[i].n \in 1..s[From(r[i])]
              /\ From(r[i]) # "click" => r[i].n > g2[From(r[i])]
  <2>1. i + 1 \in DOMAIN q /\ r[i] = q[i + 1] /\ 1 < i + 1 /\ r[i] \in Events
    BY <1>4
  <2>2. From(r[i]) \in Sources
    BY <1>10, <2>1, FromIsASource
  <2>3. /\ r[i].n \in 1..s[From(r[i])]
        /\ From(r[i]) # "click" => r[i].n > g[From(r[i])]
    BY <1>1, <1>10, <2>1 DEF Numbered
  <2>4. From(r[i]) = From(e) /\ From(r[i]) # "click" => e.n < r[i].n
    BY <1>1, <1>2, <1>4, <2>1, <2>2 DEF Sorted, Sources
  <2>5. From(r[i]) = From(e) => e.n \in Nat
    BY <1>10, EventFields, FromIsASource
  <2>6. s[From(r[i])] \in Nat /\ g[From(r[i])] \in Nat
    BY <1>9, <2>2
  <2>7. g2[From(r[i])] = IF From(r[i]) = From(e) THEN e.n ELSE g[From(r[i])]
    BY <1>8, <2>2
  <2> QED
    BY <2>3, <2>4, <2>5, <2>6, <2>7
<1>11. ASSUME NEW x \in {"host", "script"},
              \A n \in (g[x] + 1)..s[x] : \E i \in DOMAIN q : From(q[i]) = x /\ q[i].n = n,
              NEW n \in (g2[x] + 1)..s[x]
       PROVE  \E i \in DOMAIN r : From(r[i]) = x /\ r[i].n = n
  <2>1. x \in Sources /\ g2[x] \in Nat /\ s[x] \in Nat /\ g[x] \in Nat
    BY <1>9 DEF Sources
  <2>2. g[x] <= g2[x] /\ (From(e) = x => g2[x] = e.n)
    <3>1. From(e) = x => e.n > g[x] /\ e.n \in Nat
      <4>1. From(e) = x => e.n \in 1..s[x] /\ e.n > g[x]
        BY <1>1, <1>2, <1>4 DEF Numbered
      <4> QED
        BY <2>1, <4>1
    <3> QED
      BY <1>8, <2>1, <3>1
  <2>3. n \in (g[x] + 1)..s[x]
    BY <2>1, <2>2
  <2>4. PICK i \in DOMAIN q : From(q[i]) = x /\ q[i].n = n
    BY <1>11, <2>3
  <2>5. i # 1
    <3>1. ASSUME i = 1 PROVE FALSE
      <4>1. From(e) = x /\ e.n = n
        BY <1>2, <2>4, <3>1
      <4>2. n = g2[x] /\ n >= g2[x] + 1
        BY <2>1, <2>2, <4>1
      <4> QED
        BY <2>1, <4>2
    <3> QED
      BY <3>1
  <2> QED
    BY <1>5, <2>4, <2>5
<1>12. Numbered(r, g2, s, c)
  <2>1. \A n \in (g2.host + 1)..s.host : \E i \in DOMAIN r : From(r[i]) = "host" /\ r[i].n = n
    <3>1. \A n \in (g["host"] + 1)..s["host"] : \E i \in DOMAIN q : From(q[i]) = "host" /\ q[i].n = n
      BY <1>1 DEF Numbered
    <3>2. "host" \in {"host", "script"}
      OBVIOUS
    <3>3. \A n \in (g2["host"] + 1)..s["host"] : \E i \in DOMAIN r : From(r[i]) = "host" /\ r[i].n = n
      BY <1>11, <3>1, <3>2
    <3> QED
      BY <3>3
  <2>2. ~c => \A n \in (g2.script + 1)..s.script :
                 \E i \in DOMAIN r : From(r[i]) = "script" /\ r[i].n = n
    <3>1. ~c => \A n \in (g["script"] + 1)..s["script"] :
                   \E i \in DOMAIN q : From(q[i]) = "script" /\ q[i].n = n
      BY <1>1 DEF Numbered
    <3>2. "script" \in {"host", "script"}
      OBVIOUS
    <3>3. ~c => \A n \in (g2["script"] + 1)..s["script"] :
                   \E i \in DOMAIN r : From(r[i]) = "script" /\ r[i].n = n
      BY <1>11, <3>1, <3>2
    <3> QED
      BY <3>3
  <2> QED
    BY <1>10, <2>1, <2>2 DEF Numbered
<1>13. ASSUME NEW k \in kk
       PROVE  /\ (\A i \in DOMAIN r : ~IsOf(r[i], k)) => (k \in guest2 <=> k \in held)
              /\ \A i \in DOMAIN r :
                    IsOf(r[i], k) /\ (\A j \in DOMAIN r : i < j => ~IsOf(r[j], k))
                       => (r[i].down <=> k \in held)
  <2>1. /\ (\A i \in DOMAIN q : ~IsOf(q[i], k)) => (k \in guest <=> k \in held)
        /\ \A i \in DOMAIN q :
              IsOf(q[i], k) /\ (\A j \in DOMAIN q : i < j => ~IsOf(q[j], k))
                 => (q[i].down <=> k \in held)
    BY <1>1 DEF Told
  <2>2. ASSUME \A i \in DOMAIN r : ~IsOf(r[i], k) PROVE k \in guest2 <=> k \in held
    <3>1. \A j \in DOMAIN q : 1 < j => ~IsOf(q[j], k)
      BY <1>4, <1>5, <2>2
    <3>2. guest2 = HeldAfter(guest, e)
      BY <1>2 DEF Took
    <3>3. CASE IsOf(e, k)
      <4>1. e.down <=> k \in held
        BY <1>2, <1>4, <2>1, <3>1, <3>3
      <4>2. e.kind = "Key" /\ <<e.source, e.key>> = k
        BY <3>3 DEF IsOf
      <4>3. k \in guest2 <=> e.down
        BY <3>2, <4>2 DEF HeldAfter
      <4> QED
        BY <4>1, <4>3
    <3>4. CASE ~IsOf(e, k)
      <4>1. \A j \in DOMAIN q : ~IsOf(q[j], k)
        BY <1>2, <1>6, <3>1, <3>4
      <4>2. k \in guest2 <=> k \in guest
        BY <3>2, <3>4 DEF HeldAfter, IsOf
      <4> QED
        BY <2>1, <4>1, <4>2
    <3> QED
      BY <3>3, <3>4
  <2>3. ASSUME NEW i \in DOMAIN r, IsOf(r[i], k), \A j \in DOMAIN r : i < j => ~IsOf(r[j], k)
        PROVE  r[i].down <=> k \in held
    <3>1. i + 1 \in DOMAIN q /\ r[i] = q[i + 1]
      BY <1>4
    <3>2. ASSUME NEW j \in DOMAIN q, i + 1 < j PROVE ~IsOf(q[j], k)
      <4>1. j # 1 /\ i < j - 1
        BY <1>4, <3>2
      <4>2. j - 1 \in DOMAIN r /\ r[j - 1] = q[j]
        BY <1>5, <4>1
      <4> QED
        BY <2>3, <4>1, <4>2
    <3> QED
      BY <2>1, <2>3, <3>1, <3>2
  <2> QED
    BY <2>2, <2>3
<1>14. Told(r, guest2, held, kk)
  BY <1>13, Zenon DEF Told
<1> QED
  BY <1>1, <1>3, <1>4, <1>7, <1>8, <1>9, <1>12, <1>14 DEF Queued

(* The head is the next event of its source.                               *)
LEMMA HeadNext ==
    ASSUME NEW q, NEW held, NEW s, NEW guest, NEW g, NEW c, NEW kk, Queued(q, held, s, guest, g, c, kk),
           q # <<>>, NEW x \in {"host", "script"}, From(Head(q)) = x
    PROVE  Head(q).n > g[x] /\ (~(x = "script" /\ c) => Head(q).n = g[x] + 1)
<1>1. /\ q \in Seq(Events) /\ Sorted(q) /\ Numbered(q, g, s, c) /\ s \in Counts /\ g \in Counts
  BY DEF Queued
<1>2. PICK e \in Events : e = Head(q) /\ e = q[1]
  BY <1>1
<1>3. 1 \in DOMAIN q /\ \A i \in DOMAIN q : i = 1 \/ 1 < i
  BY <1>1
<1>4. s[x] \in Nat /\ g[x] \in Nat /\ e.n \in 1..s[x] /\ e.n > g[x]
  BY <1>1, <1>2, <1>3 DEF Numbered, Counts, Sources
<1>5. ASSUME ~(x = "script" /\ c), e.n # g[x] + 1 PROVE FALSE
  <2>1. g[x] + 1 \in (g[x] + 1)..s[x] /\ g[x] + 1 < e.n
    BY <1>4, <1>5
  <2>2. \A n \in (g[x] + 1)..s[x] : \E i \in DOMAIN q : From(q[i]) = x /\ q[i].n = n
    BY <1>1, <1>5 DEF Numbered
  <2>3. PICK i \in DOMAIN q : From(q[i]) = x /\ q[i].n = g[x] + 1
    BY <2>1, <2>2
  <2>4. i = 1 \/ e.n < q[i].n
    BY <1>1, <1>2, <1>3, <2>3 DEF Sorted
  <2> QED
    BY <1>2, <1>4, <2>1, <2>3, <2>4
<1> QED
  BY <1>2, <1>4, <1>5

LEMMA FindStep ==
    ASSUME IInv, FindKeyEvent
    PROVE  IInv'
<1>1. PICK told : /\ State /\ Queued(queue, Held, sent, told, got, cleared, Known)
                  /\ Heard(told) /\ queue \in Seq(Events) /\ got \in Counts
  BY DEF IInv, QueueInv, Queued
<1>2. PICK e \in Events : e = Head(queue)
  BY <1>1 DEF FindKeyEvent, EventQ_Peek
<1>3. /\ queue # <<>> /\ e.kind = "Key" /\ queue' = Tail(queue)
      /\ guestKeys' = IF e.down THEN guestKeys \cup {e.key} ELSE guestKeys \ {e.key}
      /\ by' = [by EXCEPT ![e.key] = e.source]
      /\ got' = [got EXCEPT ![e.source] = e.n]
      /\ UNCHANGED <<lock, phase, left, hostKeys, hostButton, background, curMouse, mouseEnabled,
                     guestButton, guestMouse, sent, cleared, cut>>
  BY <1>2 DEF FindKeyEvent, EventQ_Peek, hostVars, clearVars
<1>4. /\ From(e) = e.source /\ e.source \in Sources /\ e.n \in Nat /\ e.key \in Keys
      /\ e.source \in {"host", "script"}
  BY <1>3, EventFields DEF From, Sources
<1> DEFINE now == HeldAfter(told, e)
           x == <<e.source, e.key>>
<1>5. Took(Head(queue), told, got, now, got')
  <2>1. /\ got' \in Counts
        /\ \A y \in Sources : got'[y] = IF y = From(e) THEN e.n ELSE got[y]
    BY <1>1, <1>3, <1>4 DEF Counts
  <2> QED
    BY <1>2, <2>1 DEF Took
<1>6. Queued(Tail(queue), Held, sent, now, got', cleared, Known)
  BY <1>1, <1>3, <1>5, TakeQueued
<1>7. State'
  <2>1. by' \in [Keys -> {"host", "script"}] /\ guestKeys' \subseteq Keys
    BY <1>1, <1>3, <1>4 DEF State
  <2> QED
    BY <1>1, <1>3, <2>1 DEF State
<1>8. now = IF e.down THEN told \cup {x} ELSE told \ {x}
  BY <1>3 DEF HeldAfter
<1>9. ASSUME NEW k \in Keys PROVE k \in guestKeys' <=> <<by'[k], k>> \in now
  <2>1. k \in guestKeys <=> <<by[k], k>> \in told
    BY <1>1 DEF Heard
  <2>2. CASE k = e.key
    <3>1. by'[k] = e.source
      BY <1>1, <1>3, <2>2 DEF State
    <3>2. <<by'[k], k>> = x
      BY <2>2, <3>1
    <3>3. <<by'[k], k>> \in now <=> e.down
      BY <1>8, <3>2
    <3> QED
      BY <1>3, <2>2, <3>3
  <2>3. CASE k # e.key
    <3>1. by'[k] = by[k]
      BY <1>1, <1>3, <2>3 DEF State
    <3>2. <<by[k], k>> # x
      BY <2>3
    <3>3. <<by[k], k>> \in now <=> <<by[k], k>> \in told
      BY <1>8, <3>2
    <3> HIDE DEF now
    <3> QED
      BY <1>3, <2>1, <2>3, <3>1, <3>3
  <2> QED
    BY <2>2, <2>3
<1> HIDE DEF now
<1>10. Held' = Held /\ Known' = Known
  BY <1>3 DEF Held, Known
<1>11. PICK w : w = now
  OBVIOUS
<1>12. Heard(w)' /\ QueueInv(w)'
  BY <1>3, <1>6, <1>9, <1>10, <1>11 DEF Heard, QueueInv
<1> QED
  BY <1>7, <1>12 DEF IInv

LEMMA TickStep ==
    ASSUME IInv, TickStart
    PROVE  IInv'
<1> DEFINE unlocked == Unlock(lock)
           takesPos == mouseEnabled /\ MouseTakes("Pos", queue, unlocked)
           q == IF takesPos THEN Tail(queue) ELSE queue
           takesButton == MouseTakes("Button", q, unlocked)
<1>1. PICK told : /\ State /\ Queued(queue, Held, sent, told, got, cleared, Known)
                  /\ Heard(told) /\ queue \in Seq(Events) /\ got \in Counts
  BY DEF IInv, QueueInv, Queued
<1>2. /\ phase' = "run" /\ left' = TickUnits
      /\ guestMouse' = IF takesPos THEN Head(queue).at ELSE guestMouse
      /\ takesButton => /\ guestButton' = Head(q).down /\ queue' = Tail(q)
                        /\ lock' = LockTicks
                        /\ got' = [got EXCEPT ![Head(q).source] = Head(q).n]
      /\ ~takesButton => /\ queue' = q /\ lock' = unlocked
                         /\ guestButton' = guestButton /\ got' = got
      /\ UNCHANGED <<hostKeys, hostButton, background, curMouse, mouseEnabled, guestKeys, by,
                     sent, cleared, cut>>
  BY DEF TickStart, hostVars, clearVars
<1>3. Queued(q, Held, sent, told, got, cleared, Known) /\ guestMouse' \in Places
  <2>1. CASE takesPos
    <3>1. PICK e \in Events : e = Head(queue)
      BY <1>1, <2>1 DEF MouseTakes, EventQ_Peek
    <3>2. queue # <<>> /\ e.kind = "Pos"
      BY <2>1, <3>1 DEF MouseTakes, EventQ_Peek
    <3>3. From(e) = "none" /\ e.at \in Places
      BY <3>2, EventFields, FromIsASource
    <3>4. Took(Head(queue), told, got, told, got)
      BY <1>1, <3>1, <3>2, <3>3 DEF Took, HeldAfter, Sources
    <3>5. Queued(Tail(queue), Held, sent, told, got, cleared, Known)
      BY <1>1, <3>2, <3>4, TakeQueued
    <3> QED
      BY <1>2, <2>1, <3>1, <3>3, <3>5
  <2>2. CASE ~takesPos
    BY <1>1, <1>2, <2>2 DEF State
  <2> QED
    BY <2>1, <2>2
<1>4. unlocked \in 0..LockTicks
  BY <1>1, InputAssumption DEF State, Unlock
<1> HIDE DEF q, unlocked
<1>5. /\ Queued(queue', Held, sent, told, got', cleared, Known)
      /\ guestButton' \in BOOLEAN /\ lock' \in 0..LockTicks
  <2>1. CASE takesButton
    <3>1. q \in Seq(Events)
      BY <1>3 DEF Queued
    <3>2. PICK e \in Events : e = Head(q)
      BY <2>1, <3>1 DEF MouseTakes, EventQ_Peek
    <3>3. q # <<>> /\ e.kind = "Button"
      BY <2>1, <3>2 DEF MouseTakes, EventQ_Peek
    <3>4. From(e) = e.source /\ e.source \in Sources /\ e.n \in Nat /\ e.down \in BOOLEAN
      BY <3>3, EventFields DEF From, Sources
    <3>5. got' = [got EXCEPT ![e.source] = e.n] /\ queue' = Tail(q) /\ guestButton' = e.down
          /\ lock' = LockTicks
      BY <1>2, <2>1, <3>2
    <3>6. Took(Head(q), told, got, told, got')
      <4>1. /\ got' \in Counts
            /\ \A x \in Sources : got'[x] = IF x = From(e) THEN e.n ELSE got[x]
        BY <1>1, <3>4, <3>5 DEF Counts
      <4>2. told = HeldAfter(told, e)
        BY <3>3 DEF HeldAfter
      <4> QED
        BY <3>2, <4>1, <4>2 DEF Took
    <3>7. Queued(Tail(q), Held, sent, told, got', cleared, Known)
      BY <1>3, <3>3, <3>6, TakeQueued
    <3> QED
      BY <3>4, <3>5, <3>7, InputAssumption
  <2>2. CASE ~takesButton
    BY <1>1, <1>2, <1>3, <1>4, <2>2 DEF State
  <2> QED
    BY <2>1, <2>2
<1>6. State'
  BY <1>1, <1>2, <1>3, <1>5, InputAssumption DEF State
<1>7. Held' = Held /\ Known' = Known
  BY <1>2 DEF Held, Known
<1> HIDE DEF takesPos, takesButton
<1> QED
  BY <1>1, <1>2, <1>5, <1>6, <1>7, Restored

(* The steps that leave the queue alone.                                   *)
LEMMA QuietStep ==
    ASSUME IInv, LeaveBackground \/ EnableMouse \/ TickEnd \/ UNCHANGED vars
    PROVE  IInv'
<1>1. PICK told : State /\ Queued(queue, Held, sent, told, got, cleared, Known) /\ Heard(told)
  BY DEF IInv, QueueInv
<1>2. UNCHANGED <<queue, hostKeys, sent, guestKeys, by, got, cleared, cut>>
  BY DEF LeaveBackground, EnableMouse, TickEnd, vars, hostVars, guestVars, clearVars
<1>3. State'
  <2>1. CASE LeaveBackground
    BY <1>1, <1>2, <2>1 DEF LeaveBackground, guestVars, State
  <2>2. CASE EnableMouse
    BY <1>1, <1>2, <2>2 DEF EnableMouse, hostVars, guestVars, State
  <2>3. CASE TickEnd
    BY <1>1, <1>2, <2>3 DEF TickEnd, hostVars, guestVars, State
  <2>4. CASE UNCHANGED vars
    BY <1>1, <1>2, <2>4 DEF vars, hostVars, guestVars, State
  <2> QED
    BY <2>1, <2>2, <2>3, <2>4
<1>4. Held' = Held /\ Known' = Known
  BY <1>2 DEF Held, Known
<1> QED
  BY <1>1, <1>2, <1>3, <1>4, Restored

---------------------------------------------------------------------------
(* Going to the background: events of the host pushed all at once.         *)

(* r is q with the events es after the first p, which are those due.       *)
PlacedAll(q, es, r, p) ==
    /\ r \in Seq(Events) /\ Len(r) = Len(q) + Len(es)
    /\ \A i \in 1..p : r[i] = q[i] /\ q[i].wait = 0
    /\ \A i \in 1..Len(es) : r[p + i] = es[i]
    /\ \A i \in (p + 1)..Len(q) : r[i + Len(es)] = q[i] /\ q[i].wait > 0

(* The releases of the keys R, and perhaps of the button.                  *)
Releases(es, R, s) ==
    /\ es \in Seq(Events)
    /\ \A i \in DOMAIN es : From(es[i]) = "host" /\ es[i].wait = 0 /\ es[i].n = s.host + i
    /\ \A i \in DOMAIN es : \A k : IsOf(es[i], k) => k \in R /\ ~es[i].down
    /\ \A k \in R : \E i \in DOMAIN es : IsOf(es[i], k)

LEMMA PlacedAllIndex ==
    ASSUME NEW q \in Seq(Events), NEW es \in Seq(Events), NEW r, NEW p \in 0..Len(q),
           PlacedAll(q, es, r, p), NEW i \in DOMAIN r
    PROVE  \/ i \in 1..p /\ i \in DOMAIN q /\ r[i] = q[i] /\ q[i].wait = 0
           \/ i - p \in DOMAIN es /\ r[i] = es[i - p]
           \/ /\ i - Len(es) \in (p + 1)..Len(q) /\ i - Len(es) \in DOMAIN q
              /\ r[i] = q[i - Len(es)] /\ q[i - Len(es)].wait > 0
<1>1. /\ DOMAIN r = 1..(Len(q) + Len(es)) /\ DOMAIN q = 1..Len(q) /\ DOMAIN es = 1..Len(es)
      /\ Len(q) \in Nat /\ Len(es) \in Nat
  BY DEF PlacedAll
<1>2. i \in 1..p \/ i - p \in 1..Len(es) \/ i - Len(es) \in (p + 1)..Len(q)
  BY <1>1
<1>3. CASE i \in 1..p
  BY <1>1, <1>3 DEF PlacedAll
<1>4. CASE i - p \in 1..Len(es)
  <2>1. p + (i - p) = i
    BY <1>1
  <2>2. r[p + (i - p)] = es[i - p]
    BY <1>4 DEF PlacedAll
  <2> QED
    BY <1>1, <1>4, <2>1, <2>2
<1>5. CASE i - Len(es) \in (p + 1)..Len(q)
  <2>1. (i - Len(es)) + Len(es) = i
    BY <1>1
  <2>2. r[(i - Len(es)) + Len(es)] = q[i - Len(es)] /\ q[i - Len(es)].wait > 0
    BY <1>5 DEF PlacedAll
  <2> QED
    BY <1>1, <1>5, <2>1, <2>2
<1> QED
  BY <1>2, <1>3, <1>4, <1>5

LEMMA ReleasesSorted ==
    ASSUME NEW q, NEW held, NEW s, NEW guest, NEW g, NEW c, NEW kk, Queued(q, held, s, guest, g, c, kk),
           NEW es, NEW R, Releases(es, R, s), NEW r, NEW p \in 0..Len(q), PlacedAll(q, es, r, p)
    PROVE  Sorted(r)
<1>1. q \in Seq(Events) /\ Sorted(q) /\ Numbered(q, g, s, c) /\ s \in Counts /\ es \in Seq(Events)
  BY DEF Queued, Releases
<1>2. /\ DOMAIN r = 1..(Len(q) + Len(es)) /\ DOMAIN q = 1..Len(q) /\ DOMAIN es = 1..Len(es)
      /\ Len(q) \in Nat /\ Len(es) \in Nat
  BY <1>1 DEF PlacedAll
<1>3. \A i \in DOMAIN q : q[i].wait \in Nat
  BY <1>1, EventFields
<1>4. ASSUME NEW i \in DOMAIN r
      PROVE  \/ i \in 1..p /\ i \in DOMAIN q /\ r[i] = q[i] /\ q[i].wait = 0
             \/ i - p \in DOMAIN es /\ r[i] = es[i - p]
             \/ /\ i - Len(es) \in (p + 1)..Len(q) /\ i - Len(es) \in DOMAIN q
                /\ r[i] = q[i - Len(es)] /\ q[i - Len(es)].wait > 0
  BY <1>1, PlacedAllIndex
<1>5. \A i \in DOMAIN es : From(es[i]) = "host" /\ es[i].wait = 0 /\ es[i].n = s.host + i
  BY DEF Releases
<1>6. \A i \in DOMAIN q : From(q[i]) = "host" => q[i].wait = 0 /\ q[i].n \in 1..s.host
  BY <1>1 DEF Sorted, Numbered
<1>7. s.host \in Nat
  BY <1>1 DEF Counts, Sources
<1>8. ASSUME NEW i \in DOMAIN r, NEW j \in DOMAIN r, i < j
      PROVE  /\ r[i].wait <= r[j].wait
             /\ From(r[i]) = From(r[j]) /\ From(r[i]) \in {"host", "script"} => r[i].n < r[j].n
  <2>1. CASE i - p \in DOMAIN es /\ j - p \in DOMAIN es
    <3>1. r[i] = es[i - p] /\ r[j] = es[j - p] /\ i - p < j - p
      BY <1>2, <1>4, <1>8, <2>1, SMTT(30)
    <3>2. es[i - p].n = s.host + (i - p) /\ es[j - p].n = s.host + (j - p)
          /\ es[i - p].wait = 0 /\ es[j - p].wait = 0
      BY <1>5, <2>1
    <3> QED
      BY <1>2, <1>7, <1>8, <3>1, <3>2
  <2>2. CASE i - p \in DOMAIN es /\ ~(j - p \in DOMAIN es)
    <3>1. r[i] = es[i - p] /\ r[i].wait = 0 /\ From(r[i]) = "host"
      BY <1>2, <1>4, <1>5, <2>2
    <3>2. PICK b \in DOMAIN q : r[j] = q[b] /\ q[b].wait > 0
      BY <1>2, <1>4, <1>8, <2>2
    <3> QED
      BY <1>3, <1>6, <3>1, <3>2
  <2>3. CASE ~(i - p \in DOMAIN es) /\ j - p \in DOMAIN es
    <3>1. r[j] = es[j - p] /\ r[j].wait = 0 /\ From(r[j]) = "host"
          /\ r[j].n = s.host + (j - p) /\ j - p > 0
      BY <1>2, <1>4, <1>5, <2>3
    <3>2. i \in DOMAIN q /\ r[i] = q[i] /\ q[i].wait = 0
      BY <1>2, <1>4, <1>8, <2>3
    <3>3. From(r[i]) = "host" => r[i].n \in 1..s.host
      BY <1>6, <3>2
    <3> QED
      BY <1>2, <1>7, <3>1, <3>2, <3>3
  <2>4. CASE ~(i - p \in DOMAIN es) /\ ~(j - p \in DOMAIN es)
    <3>1. \E a, b \in DOMAIN q : a < b /\ r[i] = q[a] /\ r[j] = q[b]
      <4>1. i \in 1..p \/ i - Len(es) \in (p + 1)..Len(q)
        BY <1>4, <2>4
      <4>2. j \in 1..p \/ j - Len(es) \in (p + 1)..Len(q)
        BY <1>4, <2>4
      <4>3. CASE i \in 1..p /\ j \in 1..p
        <5>1. i \in DOMAIN q /\ j \in DOMAIN q /\ r[i] = q[i] /\ r[j] = q[j]
          BY <1>2, <1>4, <2>4, <4>3
        <5> QED
          BY <1>8, <5>1
      <4>4. CASE i \in 1..p /\ j - Len(es) \in (p + 1)..Len(q)
        <5>1. i \in DOMAIN q /\ r[i] = q[i]
          BY <1>2, <1>4, <2>4, <4>4
        <5>2. j - Len(es) \in DOMAIN q /\ r[j] = q[j - Len(es)]
          BY <1>2, <1>4, <2>4, <4>4
        <5>3. i < j - Len(es)
          BY <1>2, <4>4
        <5> QED
          BY <5>1, <5>2, <5>3
      <4>5. CASE i - Len(es) \in (p + 1)..Len(q) /\ j - Len(es) \in (p + 1)..Len(q)
        <5>1. i - Len(es) \in DOMAIN q /\ r[i] = q[i - Len(es)]
          BY <1>2, <1>4, <2>4, <4>5
        <5>2. j - Len(es) \in DOMAIN q /\ r[j] = q[j - Len(es)]
          BY <1>2, <1>4, <2>4, <4>5
        <5>3. i - Len(es) < j - Len(es)
          BY <1>2, <1>8
        <5> QED
          BY <5>1, <5>2, <5>3
      <4>6. ~(i - Len(es) \in (p + 1)..Len(q) /\ j \in 1..p)
        BY <1>2, <1>8
      <4> QED
        BY <4>1, <4>2, <4>3, <4>4, <4>5, <4>6
    <3> QED
      BY <1>1, <3>1 DEF Sorted
  <2> QED
    BY <2>1, <2>2, <2>3, <2>4
<1>9. ASSUME NEW i \in DOMAIN r, From(r[i]) = "host" PROVE r[i].wait = 0
  <2>1. (\E a \in DOMAIN es : r[i] = es[a]) \/ (\E a \in DOMAIN q : r[i] = q[a])
    BY <1>4
  <2> QED
    BY <1>5, <1>6, <1>9, <2>1
<1> QED
  BY <1>8, <1>9 DEF Sorted

LEMMA ReleasesNumbered ==
    ASSUME NEW q, NEW held, NEW s, NEW guest, NEW g, NEW c, NEW kk, Queued(q, held, s, guest, g, c, kk),
           NEW es, NEW R, Releases(es, R, s), NEW r, NEW p \in 0..Len(q), PlacedAll(q, es, r, p),
           NEW t, Up(s, "host", Len(es), t)
    PROVE  Numbered(r, g, t, c) /\ t \in Counts /\ \A x \in Sources : g[x] <= t[x]
<1>1. /\ q \in Seq(Events) /\ Numbered(q, g, s, c) /\ s \in Counts /\ g \in Counts
      /\ es \in Seq(Events) /\ \A x \in Sources : g[x] <= s[x]
  BY DEF Queued, Releases
<1>2. /\ DOMAIN r = 1..(Len(q) + Len(es)) /\ DOMAIN q = 1..Len(q) /\ DOMAIN es = 1..Len(es)
      /\ Len(q) \in Nat /\ Len(es) \in Nat
  BY <1>1 DEF PlacedAll
<1>3. t \in Counts /\ \A x \in Sources : t[x] = IF x = "host" THEN s["host"] + Len(es) ELSE s[x]
  BY DEF Up
<1>4. ASSUME NEW x \in Sources
      PROVE  s[x] \in Nat /\ g[x] \in Nat /\ t[x] \in Nat /\ g[x] <= s[x] /\ s[x] <= t[x]
  <2>1. s[x] \in Nat /\ g[x] \in Nat /\ t[x] \in Nat
    BY <1>1, <1>3 DEF Counts
  <2>2. t[x] = s[x] \/ t[x] = s[x] + Len(es)
    BY <1>3
  <2> QED
    BY <1>1, <1>2, <2>1, <2>2
<1>5. \A i \in DOMAIN es : From(es[i]) = "host" /\ es[i].n = s["host"] + i
  BY DEF Releases
<1>6. ASSUME NEW i \in DOMAIN r, From(r[i]) # "none"
      PROVE  /\ r[i].n \in 1..t[From(r[i])]
             /\ From(r[i]) # "click" => r[i].n > g[From(r[i])]
  <2>1. (\E a \in DOMAIN es : r[i] = es[a]) \/ (\E a \in DOMAIN q : r[i] = q[a])
    BY <1>1, PlacedAllIndex
  <2>2. CASE \E a \in DOMAIN es : r[i] = es[a]
    <3>1. PICK a \in DOMAIN es : r[i] = es[a]
      BY <2>2
    <3>2. "host" \in Sources
      BY DEF Sources
    <3>3. t["host"] = s["host"] + Len(es) /\ s["host"] \in Nat /\ g["host"] \in Nat
          /\ g["host"] <= s["host"]
      BY <1>3, <1>4, <3>2
    <3>4. r[i].n = s["host"] + a /\ From(r[i]) = "host"
      BY <1>5, <3>1
    <3> QED
      BY <1>2, <3>1, <3>3, <3>4
  <2>3. CASE \E a \in DOMAIN q : r[i] = q[a]
    <3>1. PICK a \in DOMAIN q : r[i] = q[a]
      BY <2>3
    <3>2. From(r[i]) \in Sources
      BY <1>1, <1>6, <3>1, FromIsASource
    <3>3. /\ r[i].n \in 1..s[From(r[i])]
          /\ From(r[i]) # "click" => r[i].n > g[From(r[i])]
      BY <1>1, <1>6, <3>1 DEF Numbered
    <3>4. s[From(r[i])] \in Nat /\ t[From(r[i])] \in Nat /\ s[From(r[i])] <= t[From(r[i])]
      BY <1>4, <3>2
    <3> QED
      BY <3>3, <3>4
  <2> QED
    BY <2>1, <2>2, <2>3
<1>7. \A i \in DOMAIN q : \E j \in DOMAIN r : r[j] = q[i]
  <2> SUFFICES ASSUME NEW i \in DOMAIN q PROVE \E j \in DOMAIN r : r[j] = q[i]
    OBVIOUS
  <2>1. CASE i \in 1..p
    <3>1. i \in DOMAIN r /\ r[i] = q[i]
      BY <1>2, <2>1 DEF PlacedAll
    <3> QED
      BY <3>1
  <2>2. CASE i \in (p + 1)..Len(q)
    <3>1. i + Len(es) \in DOMAIN r /\ r[i + Len(es)] = q[i]
      BY <1>2, <2>2 DEF PlacedAll
    <3> QED
      BY <3>1
  <2> QED
    BY <1>2, <2>1, <2>2
<1>8. ASSUME NEW n \in (g["host"] + 1)..t["host"]
      PROVE  \E i \in DOMAIN r : From(r[i]) = "host" /\ r[i].n = n
  <2>1. /\ s["host"] \in Nat /\ g["host"] \in Nat /\ t["host"] = s["host"] + Len(es)
        /\ n \in (g["host"] + 1)..t["host"]
    BY <1>3, <1>4 DEF Sources
  <2>2. CASE n \in (g["host"] + 1)..s["host"]
    <3>1. PICK i \in DOMAIN q : From(q[i]) = "host" /\ q[i].n = n
      BY <1>1, <2>2 DEF Numbered
    <3> QED
      BY <1>7, <3>1
  <2>3. CASE n - s["host"] \in 1..Len(es)
    <3>1. PICK a \in DOMAIN es : a = n - s["host"]
      BY <1>2, <2>3
    <3>2. From(es[a]) = "host" /\ es[a].n = n
      BY <1>5, <2>1, <3>1
    <3>3. p + a \in DOMAIN r /\ r[p + a] = es[a]
      BY <1>2 DEF PlacedAll
    <3> QED
      BY <3>2, <3>3
  <2> QED
    BY <1>2, <2>1, <2>2, <2>3
<1>9. ~c => \A n \in (g.script + 1)..t.script :
               \E i \in DOMAIN r : From(r[i]) = "script" /\ r[i].n = n
  <2>1. t["script"] = s["script"]
    BY <1>3 DEF Sources
  <2> QED
    BY <1>1, <1>7, <2>1 DEF Numbered
<1>10. \A x \in Sources : g[x] <= t[x]
  <2> SUFFICES ASSUME NEW x \in Sources PROVE g[x] <= t[x]
    OBVIOUS
  <2> QED
    BY <1>4
<1> QED
  BY <1>3, <1>6, <1>8, <1>9, <1>10 DEF Numbered

LEMMA ReleasesTold ==
    ASSUME NEW q, NEW held, NEW s, NEW guest, NEW g, NEW c, NEW kk, Queued(q, held, s, guest, g, c, kk),
           NEW es, NEW R, Releases(es, R, s), NEW r, NEW p \in 0..Len(q), PlacedAll(q, es, r, p)
    PROVE  Told(r, guest, held \ R, kk)
<1>1. q \in Seq(Events) /\ Sorted(q) /\ Told(q, guest, held, kk) /\ es \in Seq(Events)
  BY DEF Queued, Releases
<1>2. /\ DOMAIN r = 1..(Len(q) + Len(es)) /\ DOMAIN q = 1..Len(q) /\ DOMAIN es = 1..Len(es)
      /\ Len(q) \in Nat /\ Len(es) \in Nat
  BY <1>1 DEF PlacedAll
<1>3. ASSUME NEW i \in DOMAIN r
      PROVE  \/ i \in 1..p /\ i \in DOMAIN q /\ r[i] = q[i] /\ q[i].wait = 0
             \/ i - p \in DOMAIN es /\ r[i] = es[i - p]
             \/ /\ i - Len(es) \in (p + 1)..Len(q) /\ i - Len(es) \in DOMAIN q
                /\ r[i] = q[i - Len(es)] /\ q[i - Len(es)].wait > 0
  BY <1>1, PlacedAllIndex
<1>4. /\ \A i \in DOMAIN es : From(es[i]) = "host"
      /\ \A i \in DOMAIN es : \A k : IsOf(es[i], k) => k \in R /\ ~es[i].down
      /\ \A k \in R : \E i \in DOMAIN es : IsOf(es[i], k)
  BY DEF Releases
<1>5. \A i \in DOMAIN es : p + i \in DOMAIN r /\ r[p + i] = es[i]
  BY <1>2 DEF PlacedAll
<1>7. ASSUME NEW k \in kk, k \in R
      PROVE  /\ (\A i \in DOMAIN r : ~IsOf(r[i], k)) => (k \in guest <=> k \in held \ R)
             /\ \A i \in DOMAIN r :
                   IsOf(r[i], k) /\ (\A j \in DOMAIN r : i < j => ~IsOf(r[j], k))
                      => (r[i].down <=> k \in held \ R)
  <2>1. PICK a \in DOMAIN es : IsOf(es[a], k)
    BY <1>4, <1>7
  <2>2. p + a \in DOMAIN r /\ IsOf(r[p + a], k)
    BY <1>5, <2>1
  <2>3. k[1] = "host"
    <3>1. From(es[a]) = k[1]
      BY <1>1, <2>1, FromIsASource
    <3> QED
      BY <1>4, <3>1
  <2>4. ASSUME NEW i \in DOMAIN r, IsOf(r[i], k), \A j \in DOMAIN r : i < j => ~IsOf(r[j], k)
        PROVE  ~r[i].down
    <3>1. p + a <= i
      BY <1>2, <2>2, <2>4
    <3>2. CASE i - p \in DOMAIN es /\ r[i] = es[i - p]
      BY <1>4, <2>4, <3>2
    <3>3. CASE i \in 1..p
      BY <1>2, <3>1, <3>3
    <3>4. CASE i - Len(es) \in DOMAIN q /\ r[i] = q[i - Len(es)] /\ q[i - Len(es)].wait > 0
      <4>1. From(q[i - Len(es)]) = "host"
        BY <1>1, <2>3, <2>4, <3>4, FromIsASource
      <4>2. q[i - Len(es)].wait = 0
        BY <1>1, <3>4, <4>1 DEF Sorted
      <4> QED
        BY <3>4, <4>2
    <3> QED
      BY <1>3, <3>2, <3>3, <3>4
  <2> QED
    BY <1>7, <2>2, <2>4
<1>8. ASSUME NEW k \in kk, k \notin R
      PROVE  /\ (\A i \in DOMAIN r : ~IsOf(r[i], k)) => (k \in guest <=> k \in held \ R)
             /\ \A i \in DOMAIN r :
                   IsOf(r[i], k) /\ (\A j \in DOMAIN r : i < j => ~IsOf(r[j], k))
                      => (r[i].down <=> k \in held \ R)
  <2>1. k \in held \ R <=> k \in held
    BY <1>8
  <2>2. /\ (\A i \in DOMAIN q : ~IsOf(q[i], k)) => (k \in guest <=> k \in held)
        /\ \A i \in DOMAIN q :
              IsOf(q[i], k) /\ (\A j \in DOMAIN q : i < j => ~IsOf(q[j], k))
                 => (q[i].down <=> k \in held)
    BY <1>1 DEF Told
  <2>3. ASSUME NEW i \in DOMAIN q
        PROVE  \/ i <= p /\ i \in DOMAIN r /\ r[i] = q[i]
               \/ i > p /\ i + Len(es) \in DOMAIN r /\ r[i + Len(es)] = q[i]
    <3>1. CASE i \in 1..p
      BY <1>2, <3>1 DEF PlacedAll
    <3>2. CASE i \in (p + 1)..Len(q)
      BY <1>2, <3>2 DEF PlacedAll
    <3> QED
      BY <1>2, <3>1, <3>2
  <2>4. ASSUME \A i \in DOMAIN r : ~IsOf(r[i], k) PROVE \A i \in DOMAIN q : ~IsOf(q[i], k)
    BY <2>3, <2>4
  <2>5. ASSUME NEW i \in DOMAIN r, IsOf(r[i], k), \A j \in DOMAIN r : i < j => ~IsOf(r[j], k)
        PROVE  r[i].down <=> k \in held
    <3>1. PICK a \in DOMAIN q : r[i] = q[a] /\ ((i = a /\ a <= p) \/ (i = a + Len(es) /\ a > p))
      <4>1. ~(i - p \in DOMAIN es /\ r[i] = es[i - p])
        BY <1>4, <1>8, <2>5
      <4>2. CASE i \in 1..p /\ i \in DOMAIN q /\ r[i] = q[i]
        <5>1. i <= p
          BY <4>2
        <5> QED
          BY <4>2, <5>1, Zenon
      <4>3. CASE /\ i - Len(es) \in (p + 1)..Len(q) /\ i - Len(es) \in DOMAIN q
                 /\ r[i] = q[i - Len(es)]
        <5>1. i - Len(es) > p /\ i = (i - Len(es)) + Len(es)
          BY <1>2, <4>3
        <5> QED
          BY <4>3, <5>1
      <4> QED
        BY <1>3, <4>1, <4>2, <4>3, Zenon
    <3>2. ASSUME NEW b \in DOMAIN q, a < b PROVE ~IsOf(q[b], k)
      <4>1. CASE b <= p /\ b \in DOMAIN r /\ r[b] = q[b]
        <5>1. i < b
          BY <1>2, <3>1, <3>2, <4>1
        <5> QED
          BY <2>5, <4>1, <5>1
      <4>2. CASE b > p /\ b + Len(es) \in DOMAIN r /\ r[b + Len(es)] = q[b]
        <5>1. i < b + Len(es)
          BY <1>2, <3>1, <3>2
        <5> QED
          BY <2>5, <4>2, <5>1
      <4> QED
        BY <2>3, <4>1, <4>2
    <3>3. IsOf(q[a], k)
      BY <2>5, <3>1
    <3>4. q[a].down <=> k \in held
      BY <2>2, <3>2, <3>3
    <3> QED
      BY <3>1, <3>4
  <2> QED
    BY <2>1, <2>2, <2>4, <2>5
<1> QED
  <2>1. ASSUME NEW k \in kk
        PROVE  /\ (\A i \in DOMAIN r : ~IsOf(r[i], k)) => (k \in guest <=> k \in held \ R)
               /\ \A i \in DOMAIN r :
                     IsOf(r[i], k) /\ (\A j \in DOMAIN r : i < j => ~IsOf(r[j], k))
                        => (r[i].down <=> k \in held \ R)
    BY <1>7, <1>8, Zenon
  <2> QED
    BY <2>1, Zenon DEF Told

LEMMA BatchQueued ==
    ASSUME NEW q, NEW held, NEW s, NEW guest, NEW g, NEW c, NEW kk, Queued(q, held, s, guest, g, c, kk),
           NEW es, NEW R, Releases(es, R, s), NEW r, NEW p \in 0..Len(q), PlacedAll(q, es, r, p),
           NEW t, Up(s, "host", Len(es), t)
    PROVE  Queued(r, held \ R, t, guest, g, c, kk)
<1>1. r \in Seq(Events)
  BY DEF PlacedAll
<1>2. Sorted(r)
  BY ReleasesSorted
<1>3. Numbered(r, g, t, c) /\ t \in Counts /\ \A x \in Sources : g[x] <= t[x]
  BY ReleasesNumbered
<1>4. Told(r, guest, held \ R, kk)
  BY ReleasesTold
<1> QED
  BY <1>1, <1>2, <1>3, <1>4 DEF Queued

LEMMA BackgroundStep ==
    ASSUME IInv, EnterBackground
    PROVE  IInv'
<1> DEFINE R == hostKeys \ KeptKeys
           P == {<<"host", k>> : k \in R}
           d == DueCount(queue)
<1>1. PICK told : /\ State /\ Queued(queue, Held, sent, told, got, cleared, Known)
                  /\ Heard(told)
                  /\ queue \in Seq(Events) /\ Sorted(queue) /\ sent \in Counts
  BY DEF IInv, QueueInv, Queued
<1>2. R \subseteq HostKeys /\ IsFiniteSet(R) /\ Cardinality(R) \in Nat
  <2>1. R \subseteq HostKeys
    BY <1>1 DEF State
  <2>2. IsFiniteSet(R)
    BY <2>1, FS_Subset, InputAssumption
  <2> QED
    BY <2>1, <2>2, FS_CardinalityType
<1>3. PICK ups \in Nat, last \in {0, 1} :
         /\ ups = Cardinality(R) /\ last = IF hostButton THEN 1 ELSE 0
  BY <1>2
<1>4. PICK keys \in Orders(R) :
         queue' = SubSeq(queue, 1, d)
                  \o [i \in 1..ups |-> Key(keys[i], FALSE, 0, "host", sent.host + i)]
                  \o [i \in 1..last |-> Button(FALSE, "anywhere", 0, "host", sent.host + ups + 1)]
                  \o SubSeq(queue, d + 1, Len(queue))
  BY <1>3 DEF EnterBackground
<1>5. /\ background' = TRUE /\ hostKeys' = hostKeys \ R /\ hostButton' = FALSE
      /\ sent' = [sent EXCEPT !.host = @ + ups + last]
      /\ UNCHANGED <<lock, phase, left, curMouse, mouseEnabled, guestKeys, by, guestButton,
                     guestMouse, got, cleared, cut>>
  BY <1>3 DEF EnterBackground, guestVars, clearVars
<1>6. keys \in [1..ups -> R] /\ \A k \in R : \E i \in 1..ups : keys[i] = k
  <2>1. keys \in [1..ups -> R] /\ \A k \in R : \E i \in DOMAIN keys : keys[i] = k
    BY <1>3, <1>4 DEF Orders
  <2> QED
    BY <2>1
<1>7. d \in 0..Len(queue) /\ Len(queue) \in Nat
      /\ (\A i \in 1..d : queue[i].wait = 0) /\ \A i \in (d + 1)..Len(queue) : queue[i].wait > 0
  BY <1>1, ImmediatePlace
<1>8. sent.host \in Nat
  BY <1>1 DEF Counts, Sources
<1> HIDE DEF R, d
<1>9. ASSUME NEW i \in 1..ups, NEW e, e = Key(keys[i], FALSE, 0, "host", sent.host + i)
      PROVE  /\ e \in Events /\ From(e) = "host" /\ e.wait = 0 /\ e.n = sent.host + i
             /\ e.kind = "Key" /\ e.key = keys[i] /\ e.source = "host" /\ ~e.down
  <2>1. PICK k, n : k = keys[i] /\ n = sent.host + i
    OBVIOUS
  <2>2. k \in Keys /\ n \in Nat /\ 0 \in Nat
    BY <1>2, <1>6, <1>8, <2>1 DEF Keys
  <2>3. PICK down \in BOOLEAN : down = FALSE
    OBVIOUS
  <2>4. e = Key(k, down, 0, "host", n)
    BY <1>9, <2>1, <2>3
  <2>5. /\ e \in Events /\ From(e) = "host" /\ e.source = "host"
        /\ e.kind = "Key" /\ e.key = k /\ (e.down <=> down) /\ e.n = n /\ e.wait = 0
    BY <2>2, <2>4, KeyEvent
  <2> QED
    BY <2>1, <2>2, <2>3, <2>5
<1>10. ASSUME NEW e, e = Button(FALSE, "anywhere", 0, "host", sent.host + ups + 1)
       PROVE  /\ e \in Events /\ From(e) = "host" /\ e.wait = 0 /\ e.n = sent.host + (ups + 1)
              /\ e.kind = "Button"
  <2>1. PICK n \in Nat : n = sent.host + ups + 1 /\ n = sent.host + (ups + 1)
    BY <1>8
  <2>6. PICK down \in BOOLEAN : down = FALSE
    OBVIOUS
  <2>2. e = Button(down, "anywhere", 0, "host", n)
    BY <1>10, <2>1, <2>6
  <2>3. e.kind = "Button"
    BY <2>2 DEF Button
  <2>4. /\ "anywhere" \in Places \cup {"anywhere"} /\ 0 \in Nat
        /\ "host" \in {"host", "click"}
    OBVIOUS
  <2>5. /\ e \in Events /\ From(e) = "host" /\ e.n = n /\ e.wait = 0
    BY <2>1, <2>2, <2>4, ButtonEvent
  <2> QED
    BY <2>1, <2>3, <2>5
<1>11. PICK b : b = [i \in 1..ups |-> Key(keys[i], FALSE, 0, "host", sent.host + i)]
  OBVIOUS
<1>12. PICK z : z = [i \in 1..last |-> Button(FALSE, "anywhere", 0, "host", sent.host + ups + 1)]
  OBVIOUS
<1>13. /\ b \in Seq(Events) /\ Len(b) = ups
       /\ \A i \in 1..ups : /\ From(b[i]) = "host" /\ b[i].wait = 0 /\ b[i].n = sent.host + i
                            /\ b[i].kind = "Key" /\ b[i].key = keys[i] /\ b[i].source = "host"
                            /\ ~b[i].down
  <2>1. ASSUME NEW i \in 1..ups
        PROVE  /\ b[i] \in Events /\ From(b[i]) = "host" /\ b[i].wait = 0 /\ b[i].n = sent.host + i
               /\ b[i].kind = "Key" /\ b[i].key = keys[i] /\ b[i].source = "host"
                            /\ ~b[i].down
    <3>1. b[i] = Key(keys[i], FALSE, 0, "host", sent.host + i)
      BY <1>11
    <3> QED
      BY <1>9, <3>1
  <2>2. b = [i \in 1..ups |-> b[i]]
    BY <1>11
  <2>3. b \in Seq(Events)
    BY <2>1, <2>2, SeqDef
  <2>4. Len(b) = ups
    BY <2>2, <2>3
  <2> QED
    BY <2>1, <2>3, <2>4
<1>14. /\ z \in Seq(Events) /\ Len(z) = last
       /\ \A i \in 1..last : /\ From(z[i]) = "host" /\ z[i].wait = 0
                             /\ z[i].n = sent.host + (ups + 1) /\ z[i].kind = "Button"
  <2>1. ASSUME NEW i \in 1..last
        PROVE  /\ z[i] \in Events /\ From(z[i]) = "host" /\ z[i].wait = 0
               /\ z[i].n = sent.host + (ups + 1) /\ z[i].kind = "Button"
    <3>1. z[i] = Button(FALSE, "anywhere", 0, "host", sent.host + ups + 1)
      BY <1>12
    <3> QED
      BY <1>10, <3>1
  <2>2. z = [i \in 1..last |-> z[i]] /\ last \in Nat
    BY <1>12
  <2>3. z \in Seq(Events)
    BY <2>1, <2>2, SeqDef
  <2>4. Len(z) = last
    BY <2>2, <2>3
  <2> QED
    BY <2>1, <2>3, <2>4
<1>15. PICK es : es = b \o z
  OBVIOUS
<1>16. /\ es \in Seq(Events) /\ Len(es) = ups + last /\ DOMAIN es = 1..(ups + last)
       /\ \A i \in 1..ups : es[i] = b[i]
       /\ \A i \in 1..last : es[ups + i] = z[i]
  BY <1>13, <1>14, <1>15, ConcatProperties
<1>17. Releases(es, P, sent)
  <2>1. ASSUME NEW i \in DOMAIN es
        PROVE  \/ i \in 1..ups /\ es[i] = b[i]
               \/ last = 1 /\ i = ups + 1 /\ es[i] = z[1]
    <3>1. i \in 1..ups \/ (last = 1 /\ i = ups + 1)
      BY <1>16
    <3> QED
      BY <1>16, <3>1
  <2>2. ASSUME NEW i \in DOMAIN es
        PROVE  From(es[i]) = "host" /\ es[i].wait = 0 /\ es[i].n = sent.host + i
    BY <1>13, <1>14, <2>1
  <2>3. ASSUME NEW i \in DOMAIN es, NEW k, IsOf(es[i], k)
        PROVE  k \in P /\ ~es[i].down
    BY <1>6, <1>13, <1>14, <2>1, <2>3 DEF IsOf
  <2>4. ASSUME NEW k \in P PROVE \E i \in DOMAIN es : IsOf(es[i], k)
    <3>1. PICK i \in 1..ups : <<"host", keys[i]>> = k
      BY <1>6
    <3>2. i \in DOMAIN es /\ IsOf(es[i], k)
      BY <1>13, <1>16, <3>1 DEF IsOf
    <3> QED
      BY <3>2
  <2> QED
    BY <1>16, <2>2, <2>3, <2>4 DEF Releases
<1>18. PlacedAll(queue, es, queue', d)
  <2>1. PICK a, y : a = SubSeq(queue, 1, d) /\ y = SubSeq(queue, d + 1, Len(queue))
    OBVIOUS
  <2>2. a \in Seq(Events) /\ Len(a) = d /\ \A i \in 1..d : a[i] = queue[i]
    BY <1>1, <1>7, <2>1
  <2>3. /\ y \in Seq(Events) /\ Len(y) = Len(queue) - d
        /\ \A i \in 1..(Len(queue) - d) : y[i] = queue[d + i]
    BY <1>1, <1>7, <2>1
  <2>4. queue' = ((a \o b) \o z) \o y
    BY <1>4, <1>11, <1>12, <2>1
  <2>5. PICK x : x = (a \o b) \o z
    OBVIOUS
  <2>6. /\ x \in Seq(Events) /\ Len(x) = d + Len(es)
        /\ \A i \in 1..d : x[i] = queue[i]
        /\ \A i \in 1..Len(es) : x[d + i] = es[i]
    <3>1. b \in Seq(Events) /\ z \in Seq(Events) /\ a \in Seq(Events) /\ es \in Seq(Events)
      BY <1>13, <1>14, <1>16, <2>2
    <3>2. PICK f : f = a \o b
      OBVIOUS
    <3>3. /\ f \in Seq(Events) /\ Len(f) = d + ups
          /\ \A i \in 1..(d + ups) : f[i] = IF i <= d THEN a[i] ELSE b[i - d]
      <4>1. /\ f \in Seq(Events) /\ Len(f) = Len(a) + Len(b)
            /\ \A i \in 1..(Len(a) + Len(b)) : f[i] = IF i <= Len(a) THEN a[i] ELSE b[i - Len(a)]
        BY <3>1, <3>2, ConcatProperties
      <4>2. Len(a) = d /\ Len(b) = ups
        BY <1>13, <2>2
      <4> QED
        BY <4>1, <4>2
    <3>4. /\ x \in Seq(Events) /\ Len(x) = Len(f) + Len(z)
          /\ \A i \in 1..(Len(f) + Len(z)) : x[i] = IF i <= Len(f) THEN f[i] ELSE z[i - Len(f)]
      <4>1. x = f \o z
        BY <2>5, <3>2
      <4> QED
        BY <3>1, <3>3, <4>1, ConcatProperties
    <3>5. /\ Len(f) = d + ups /\ Len(z) = last /\ Len(es) = ups + last
          /\ d \in Nat /\ ups \in Nat /\ last \in Nat
      BY <1>7, <1>14, <1>16, <3>3
    <3>6. ASSUME NEW i \in 1..Len(es) PROVE x[d + i] = es[i]
      <4>1. CASE i <= ups
        <5>1. d + i \in 1..(d + ups) /\ ~(d + i <= d) /\ (d + i) - d = i /\ i \in 1..ups
              /\ d + i \in 1..(Len(f) + Len(z)) /\ d + i <= Len(f)
          BY <3>5, <4>1
        <5>2. f[d + i] = b[i]
          BY <3>3, <5>1
        <5> QED
          BY <1>16, <3>4, <5>1, <5>2
      <4>2. CASE i > ups
        <5>1. PICK k \in 1..last : i = ups + k
          BY <3>5, <4>2
        <5>2. d + i \in 1..(Len(f) + Len(z)) /\ ~(d + i <= Len(f)) /\ (d + i) - Len(f) = k
          BY <3>5, <5>1
        <5> QED
          BY <1>16, <3>4, <5>1, <5>2
      <4> QED
        BY <3>5, <4>1, <4>2
    <3>7. ASSUME NEW i \in 1..d PROVE x[i] = queue[i]
      <4>1. i \in 1..(Len(f) + Len(z)) /\ i <= Len(f) /\ i \in 1..(d + ups) /\ i <= d
        BY <3>5
      <4>2. f[i] = a[i]
        BY <3>3, <4>1
      <4> QED
        BY <2>2, <3>4, <4>1, <4>2
    <3>8. Len(x) = d + Len(es)
      BY <3>4, <3>5
    <3> QED
      BY <3>4, <3>6, <3>7, <3>8
  <2>7. /\ queue' \in Seq(Events) /\ Len(queue') = Len(queue) + Len(es)
        /\ \A i \in 1..(d + Len(es)) : queue'[i] = x[i]
    <3>1. queue' = x \o y
      BY <2>4, <2>5
    <3>2. /\ queue' \in Seq(Events) /\ Len(queue') = Len(x) + Len(y)
          /\ \A i \in 1..(Len(x) + Len(y)) :
                queue'[i] = IF i <= Len(x) THEN x[i] ELSE y[i - Len(x)]
      BY <2>3, <2>6, <3>1, ConcatProperties
    <3>3. Len(x) = d + Len(es) /\ Len(y) = Len(queue) - d /\ Len(es) \in Nat
      BY <1>16, <2>3, <2>6
    <3> QED
      BY <1>7, <3>2, <3>3
  <2>8. ASSUME NEW i \in (d + 1)..Len(queue) PROVE queue'[i + Len(es)] = queue[i]
    <3>1. i - d \in 1..Len(y) /\ i + Len(es) = Len(x) + (i - d) /\ d + (i - d) = i
      BY <1>7, <1>16, <2>3, <2>6
    <3>2. queue'[Len(x) + (i - d)] = y[i - d]
      BY <2>3, <2>4, <2>5, <2>6, <3>1, ConcatProperties, SMTT(30)
    <3> QED
      BY <2>3, <3>1, <3>2
  <2>9. \A i \in 1..d : queue'[i] = queue[i]
    BY <1>7, <1>16, <2>6, <2>7
  <2>10. \A i \in 1..Len(es) : queue'[d + i] = es[i]
    BY <1>7, <1>16, <2>6, <2>7
  <2> QED
    BY <1>7, <2>7, <2>8, <2>9, <2>10 DEF PlacedAll
<1>19. Up(sent, "host", Len(es), sent')
  <2>1. PICK m \in Nat : m = ups + last
    OBVIOUS
  <2>2. sent.host + ups + last = sent.host + m
    BY <1>8, <2>1
  <2>3. sent' = [sent EXCEPT !.host = @ + m]
    BY <1>5, <2>2
  <2>4. "host" \in Sources
    BY DEF Sources
  <2>5. Up(sent, "host", m, sent')
    BY <1>1, <2>3, <2>4, UpStep
  <2> QED
    BY <1>16, <2>1, <2>5
<1>20. Queued(queue', Held \ P, sent', told, got, cleared, Known)
  BY <1>1, <1>7, <1>17, <1>18, <1>19, BatchQueued
<1>21. State'
  BY <1>1, <1>5 DEF State
<1>22. Held' = Held \ P /\ Known' = Known
  BY <1>5 DEF Held, Known
<1> QED
  BY <1>1, <1>5, <1>20, <1>21, <1>22, Restored

---------------------------------------------------------------------------
(* Clearing the keys of the future.                                        *)

(* One step of the recursion, and a function that follows it up to n.      *)
KeptNext(q, i, before) == IF IsFutureKey(q[i]) THEN before ELSE Append(before, q[i])
KeptUpTo(q, n, h) ==
    h = [i \in 0..n |-> IF i = 0 THEN <<>>
                        ELSE IF IsFutureKey(q[i]) THEN h[i - 1] ELSE Append(h[i - 1], q[i])]

LEMMA KeptExists ==
    ASSUME NEW q, NEW len \in Nat
    PROVE  \E h : KeptUpTo(q, len, h)
<1> DEFINE T == {n \in Nat : ~ \E h : KeptUpTo(q, n, h)}
<1>1. ASSUME T # {} PROVE FALSE
  <2>1. PICK m \in T : \A k \in T : m <= k
    <3>1. T \in SUBSET Nat
      OBVIOUS
    <3> HIDE DEF T
    <3> QED
      BY <1>1, <3>1, Least
  <2>2. m # 0
    <3>1. KeptUpTo(q, 0, [i \in 0..0 |-> <<>>])
      BY DEF KeptUpTo
    <3> QED
      BY <2>1, <3>1
  <2>3. m \in Nat /\ m - 1 \in Nat /\ ~(m <= m - 1)
    BY <2>1, <2>2
  <2>4. PICK h : KeptUpTo(q, m - 1, h)
    BY <2>1, <2>3
  <2>5. PICK f : f = [i \in 0..m |-> IF i = m THEN KeptNext(q, m, h[m - 1]) ELSE h[i]]
    OBVIOUS
  <2>6. DOMAIN h = 0..(m - 1) /\ DOMAIN f = 0..m
    BY <2>4, <2>5 DEF KeptUpTo
  <2>7. ASSUME NEW i \in 0..m
        PROVE  f[i] = IF i = 0 THEN <<>>
                      ELSE IF IsFutureKey(q[i]) THEN f[i - 1] ELSE Append(f[i - 1], q[i])
    <3>1. CASE i = 0
      <4>1. f[0] = h[0] /\ h[0] = <<>>
        BY <2>3, <2>4, <2>5 DEF KeptUpTo
      <4> QED
        BY <3>1, <4>1
    <3>2. CASE i # 0 /\ i # m
      <4>1. i \in 0..(m - 1) /\ i - 1 \in 0..m /\ i - 1 # m
        BY <2>3, <3>2
      <4>2. f[i] = h[i] /\ f[i - 1] = h[i - 1]
        BY <2>5, <3>2, <4>1
      <4>3. h[i] = IF IsFutureKey(q[i]) THEN h[i - 1] ELSE Append(h[i - 1], q[i])
        BY <2>4, <3>2, <4>1 DEF KeptUpTo
      <4> QED
        BY <3>2, <4>2, <4>3
    <3>3. CASE i = m
      <4>1. f[m] = KeptNext(q, m, h[m - 1]) /\ f[m - 1] = h[m - 1]
        BY <2>3, <2>5
      <4> QED
        BY <2>2, <3>3, <4>1 DEF KeptNext
    <3> QED
      BY <3>1, <3>2, <3>3
  <2>8. KeptUpTo(q, m, f)
    <3>1. f = [i \in 0..m |-> f[i]]
      BY <2>5
    <3> QED
      BY <2>7, <3>1 DEF KeptUpTo
  <2> QED
    BY <2>1, <2>8
<1> QED
  BY <1>1

LEMMA KeptByFunction ==
    ASSUME NEW q \in Seq(Events)
    PROVE  \E h : KeptUpTo(q, Len(q), h) /\ EventQ_ClearFutureKeys(q) = h[Len(q)]
<1> DEFINE g == CHOOSE h : KeptUpTo(q, Len(q), h)
<1>1. \E h : KeptUpTo(q, Len(q), h)
  <2>1. Len(q) \in Nat
    OBVIOUS
  <2> QED
    BY <2>1, KeptExists
<1>2. KeptUpTo(q, Len(q), g)
  BY <1>1, Zenon
<1>3. EventQ_ClearFutureKeys(q) = g[Len(q)]
  BY Zenon DEF EventQ_ClearFutureKeys, KeptUpTo
<1> QED
  BY <1>2, <1>3

(* r is the first n events of q without the keys of the future.            *)
ThinnedBy(q, n, r, m) ==
    /\ r \in Seq(Events) /\ m \in [1..Len(r) -> 1..n]
    /\ \A i, j \in 1..Len(r) : i < j => m[i] < m[j]
    /\ \A j \in 1..Len(r) : r[j] = q[m[j]]
    /\ \A a \in 1..n : ~IsFutureKey(q[a]) => \E j \in 1..Len(r) : m[j] = a

LEMMA KeptThins ==
    ASSUME NEW q \in Seq(Events), NEW h, KeptUpTo(q, Len(q), h)
    PROVE  \E m : ThinnedBy(q, Len(q), h[Len(q)], m)
<1> DEFINE T == {n \in 0..Len(q) : ~ \E m : ThinnedBy(q, n, h[n], m)}
<1>1. ASSUME T # {} PROVE FALSE
  <2>1. PICK n \in T : \A k \in T : n <= k
    <3>1. T \in SUBSET Nat
      OBVIOUS
    <3> HIDE DEF T
    <3> QED
      BY <1>1, <3>1, Least
  <2>2. n # 0
    <3>1. h[0] = <<>>
      BY DEF KeptUpTo
    <3>2. ThinnedBy(q, 0, <<>>, <<>>)
      BY DEF ThinnedBy
    <3> QED
      BY <2>1, <3>1, <3>2
  <2>3. n \in 1..Len(q) /\ n - 1 \in 0..Len(q) /\ ~(n <= n - 1) /\ Len(q) \in Nat
    BY <2>1, <2>2
  <2>4. PICK m : ThinnedBy(q, n - 1, h[n - 1], m)
    BY <2>1, <2>3
  <2>5. h[n] = IF IsFutureKey(q[n]) THEN h[n - 1] ELSE Append(h[n - 1], q[n])
    BY <2>2, <2>3 DEF KeptUpTo
  <2>6. PICK s : s = h[n - 1]
    OBVIOUS
  <2>7. /\ s \in Seq(Events) /\ m \in [1..Len(s) -> 1..(n - 1)]
        /\ \A i, j \in 1..Len(s) : i < j => m[i] < m[j]
        /\ \A j \in 1..Len(s) : s[j] = q[m[j]]
        /\ \A a \in 1..(n - 1) : ~IsFutureKey(q[a]) => \E j \in 1..Len(s) : m[j] = a
    BY <2>4, <2>6 DEF ThinnedBy
  <2>8. CASE IsFutureKey(q[n])
    <3>1. m \in [1..Len(s) -> 1..n]
      BY <2>3, <2>7
    <3>2. \A a \in 1..n : ~IsFutureKey(q[a]) => \E j \in 1..Len(s) : m[j] = a
      <4> SUFFICES ASSUME NEW a \in 1..n, ~IsFutureKey(q[a])
                   PROVE  \E j \in 1..Len(s) : m[j] = a
        OBVIOUS
      <4>1. a \in 1..(n - 1)
        <5>1. a # n
          BY <2>8
        <5> QED
          BY <2>3, <5>1
      <4> QED
        BY <2>7, <4>1
    <3>3. ThinnedBy(q, n, s, m)
      BY <2>7, <3>1, <3>2 DEF ThinnedBy
    <3> QED
      BY <2>1, <2>5, <2>6, <2>8, <3>3
  <2>9. CASE ~IsFutureKey(q[n])
    <3>1. PICK r : r = Append(s, q[n])
      OBVIOUS
    <3>2. /\ r \in Seq(Events) /\ Len(r) = Len(s) + 1 /\ r[Len(s) + 1] = q[n]
          /\ \A j \in 1..Len(s) : r[j] = s[j]
      <4>1. q[n] \in Events
        BY <2>3
      <4> QED
        BY <2>7, <3>1, <4>1
    <3>3. PICK f : f = [j \in 1..(Len(s) + 1) |-> IF j = Len(s) + 1 THEN n ELSE m[j]]
      OBVIOUS
    <3>4. /\ Len(s) \in Nat /\ f[Len(s) + 1] = n
          /\ \A j \in 1..Len(s) : f[j] = m[j] /\ m[j] \in 1..(n - 1)
      <4>1. PICK len \in Nat : len = Len(s)
        BY <2>7
      <4>2. /\ f = [j \in 1..(len + 1) |-> IF j = len + 1 THEN n ELSE m[j]]
            /\ m \in [1..len -> 1..(n - 1)]
        BY <2>7, <3>3, <4>1
      <4>3. f[len + 1] = n /\ \A j \in 1..len : f[j] = m[j] /\ m[j] \in 1..(n - 1)
        BY <4>2
      <4> QED
        BY <4>1, <4>3
    <3>5. f \in [1..Len(r) -> 1..n]
      <4>1. \A j \in 1..(Len(s) + 1) : f[j] \in 1..n
        <5> SUFFICES ASSUME NEW j \in 1..(Len(s) + 1) PROVE f[j] \in 1..n
          OBVIOUS
        <5>1. j = Len(s) + 1 \/ j \in 1..Len(s)
          BY <3>4
        <5> QED
          BY <2>3, <3>4, <5>1
      <4> QED
        BY <3>2, <3>3, <4>1
    <3>6. \A i, j \in 1..Len(r) : i < j => f[i] < f[j]
      <4> SUFFICES ASSUME NEW i \in 1..Len(r), NEW j \in 1..Len(r), i < j PROVE f[i] < f[j]
        OBVIOUS
      <4>1. i \in 1..Len(s) /\ (j \in 1..Len(s) \/ j = Len(s) + 1)
        <5>1. Len(r) = Len(s) + 1 /\ Len(s) \in Nat
          BY <3>2, <3>4
        <5> QED
          BY <5>1
      <4>2. f[i] = m[i] /\ m[i] \in 1..(n - 1)
        BY <3>4, <4>1
      <4>3. CASE j \in 1..Len(s)
        BY <2>7, <3>4, <4>1, <4>2, <4>3
      <4>4. CASE j = Len(s) + 1
        BY <2>3, <3>4, <4>2, <4>4
      <4> QED
        BY <4>1, <4>3, <4>4
    <3>7. \A j \in 1..Len(r) : r[j] = q[f[j]]
      <4> SUFFICES ASSUME NEW j \in 1..Len(r) PROVE r[j] = q[f[j]]
        OBVIOUS
      <4>1. j = Len(s) + 1 \/ j \in 1..Len(s)
        BY <3>2, <3>4
      <4> QED
        BY <2>7, <3>2, <3>4, <4>1
    <3>8. \A a \in 1..n : ~IsFutureKey(q[a]) => \E j \in 1..Len(r) : f[j] = a
      <4> SUFFICES ASSUME NEW a \in 1..n, ~IsFutureKey(q[a])
                   PROVE  \E j \in 1..Len(r) : f[j] = a
        OBVIOUS
      <4>1. CASE a = n
        <5>1. Len(s) + 1 \in 1..Len(r)
          BY <3>2, <3>4
        <5> QED
          BY <3>4, <4>1, <5>1
      <4>2. CASE a \in 1..(n - 1)
        <5>1. PICK j \in 1..Len(s) : m[j] = a
          BY <2>7, <4>2
        <5>2. j \in 1..Len(r) /\ f[j] = a
          BY <3>2, <3>4, <5>1
        <5> QED
          BY <5>2
      <4> QED
        BY <2>3, <4>1, <4>2
    <3>9. ThinnedBy(q, n, r, f)
      BY <3>2, <3>5, <3>6, <3>7, <3>8 DEF ThinnedBy
    <3> QED
      BY <2>1, <2>5, <2>6, <2>9, <3>1, <3>9
  <2> QED
    BY <2>8, <2>9
<1>2. Len(q) \in 0..Len(q)
  OBVIOUS
<1> QED
  BY <1>1, <1>2

LEMMA ClearStep ==
    ASSUME IInv, CmdClearKeys
    PROVE  IInv'
<1>1. PICK told :
         /\ State /\ queue \in Seq(Events) /\ Sorted(queue) /\ Numbered(queue, got, sent, cleared)
         /\ Told(queue, told, Held, Known) /\ Heard(told)
         /\ sent \in Counts /\ got \in Counts /\ \A x \in Sources : got[x] <= sent[x]
  BY DEF IInv, QueueInv, Queued
<1>2. /\ queue' = EventQ_ClearFutureKeys(queue) /\ cleared' = TRUE
      /\ cut' = cut \cup {queue[i].key : i \in {j \in DOMAIN queue : IsFutureKey(queue[j])}}
      /\ UNCHANGED <<lock, phase, left, hostKeys, hostButton, background, curMouse, mouseEnabled,
                     guestKeys, by, guestButton, guestMouse, got, sent>>
  BY DEF CmdClearKeys, hostVars, guestVars
<1>3. PICK h : KeptUpTo(queue, Len(queue), h) /\ EventQ_ClearFutureKeys(queue) = h[Len(queue)]
  BY <1>1, KeptByFunction
<1>4. PICK m : ThinnedBy(queue, Len(queue), queue', m)
  BY <1>1, <1>2, <1>3, KeptThins
<1>5. PICK r : r = queue'
  OBVIOUS
<1>6. /\ r \in Seq(Events) /\ DOMAIN r = 1..Len(r) /\ DOMAIN queue = 1..Len(queue)
      /\ \A i, j \in DOMAIN r : i < j => m[i] < m[j]
      /\ \A j \in DOMAIN r : m[j] \in DOMAIN queue /\ r[j] = queue[m[j]]
      /\ \A a \in DOMAIN queue : ~IsFutureKey(queue[a]) => \E j \in DOMAIN r : m[j] = a
  <2>1. /\ r \in Seq(Events) /\ m \in [1..Len(r) -> 1..Len(queue)]
        /\ \A i, j \in 1..Len(r) : i < j => m[i] < m[j]
        /\ \A j \in 1..Len(r) : r[j] = queue[m[j]]
        /\ \A a \in 1..Len(queue) : ~IsFutureKey(queue[a]) => \E j \in 1..Len(r) : m[j] = a
    BY <1>4, <1>5 DEF ThinnedBy
  <2>2. DOMAIN r = 1..Len(r) /\ DOMAIN queue = 1..Len(queue)
    BY <1>1, <2>1
  <2> QED
    BY <2>1, <2>2
<1>7. \A a \in DOMAIN queue : From(queue[a]) = "host" => \E j \in DOMAIN r : m[j] = a
  <2> SUFFICES ASSUME NEW a \in DOMAIN queue, From(queue[a]) = "host"
               PROVE  \E j \in DOMAIN r : m[j] = a
    OBVIOUS
  <2>1. queue[a].wait = 0
    BY <1>1 DEF Sorted
  <2>2. ~IsFutureKey(queue[a])
    BY <2>1 DEF IsFutureKey
  <2> QED
    BY <1>6, <2>2
<1>8. Sorted(r)
  BY <1>1, <1>6 DEF Sorted
<1>9. Numbered(r, got, sent, TRUE)
  <2>1. \A i \in DOMAIN r :
           From(r[i]) # "none" =>
              /\ r[i].n \in 1..sent[From(r[i])]
              /\ From(r[i]) # "click" => r[i].n > got[From(r[i])]
    BY <1>1, <1>6 DEF Numbered
  <2>2. \A n \in (got.host + 1)..sent.host : \E i \in DOMAIN r : From(r[i]) = "host" /\ r[i].n = n
    <3> SUFFICES ASSUME NEW n \in (got.host + 1)..sent.host
                 PROVE  \E i \in DOMAIN r : From(r[i]) = "host" /\ r[i].n = n
      OBVIOUS
    <3>1. PICK a \in DOMAIN queue : From(queue[a]) = "host" /\ queue[a].n = n
      BY <1>1 DEF Numbered
    <3>2. PICK j \in DOMAIN r : m[j] = a
      BY <1>7, <3>1
    <3> QED
      BY <1>6, <3>1, <3>2
  <2> QED
    BY <2>1, <2>2 DEF Numbered
<1>10. ASSUME NEW k \in Known'
       PROVE  /\ (\A i \in DOMAIN r : ~IsOf(r[i], k)) => (k \in told <=> k \in Held)
              /\ \A i \in DOMAIN r :
                    IsOf(r[i], k) /\ (\A j \in DOMAIN r : i < j => ~IsOf(r[j], k))
                       => (r[i].down <=> k \in Held)
  <2>1. /\ (\A i \in DOMAIN queue : ~IsOf(queue[i], k)) => (k \in told <=> k \in Held)
        /\ \A i \in DOMAIN queue :
              IsOf(queue[i], k) /\ (\A j \in DOMAIN queue : i < j => ~IsOf(queue[j], k))
                 => (queue[i].down <=> k \in Held)
    <3>1. k \in Known
      BY <1>2 DEF Known
    <3> QED
      BY <1>1, <3>1 DEF Told
  <2>2. ASSUME NEW a \in DOMAIN queue, IsOf(queue[a], k) PROVE \E j \in DOMAIN r : m[j] = a
    <3>1. queue[a].kind = "Key" /\ k = <<queue[a].source, queue[a].key>>
      BY <2>2 DEF IsOf
    <3>2. CASE queue[a].source = "host"
      <4>1. From(queue[a]) = "host"
        BY <3>1, <3>2 DEF From
      <4> QED
        BY <1>7, <4>1
    <3>3. CASE queue[a].source # "host"
      <4>1. queue[a].key \notin cut'
        BY <3>1, <3>3 DEF Known
      <4>2. ~IsFutureKey(queue[a])
        BY <1>2, <4>1
      <4> QED
        BY <1>6, <4>2
    <3> QED
      BY <3>2, <3>3
  <2>3. ASSUME \A i \in DOMAIN r : ~IsOf(r[i], k) PROVE \A a \in DOMAIN queue : ~IsOf(queue[a], k)
    BY <1>6, <2>2, <2>3
  <2>4. ASSUME NEW i \in DOMAIN r, IsOf(r[i], k), \A j \in DOMAIN r : i < j => ~IsOf(r[j], k)
        PROVE  r[i].down <=> k \in Held
    <3>1. ASSUME NEW a \in DOMAIN queue, m[i] < a, IsOf(queue[a], k) PROVE FALSE
      <4>1. PICK j \in DOMAIN r : m[j] = a
        BY <2>2, <3>1
      <4>2. r[j] = queue[a]
        BY <1>6, <4>1
      <4>3. ~(i < j)
        BY <2>4, <3>1, <4>2
      <4>4. i = j \/ j < i
        BY <1>6, <4>3
      <4>5. m[i] \in Int /\ m[j] \in Int /\ (i = j \/ m[j] < m[i])
        BY <1>6, <4>4
      <4> QED
        BY <3>1, <4>1, <4>5
    <3>2. m[i] \in DOMAIN queue /\ r[i] = queue[m[i]]
      BY <1>6
    <3> QED
      BY <2>1, <2>4, <3>1, <3>2
  <2> QED
    BY <2>1, <2>3, <2>4
<1>11. Told(r, told, Held, Known')
  BY <1>10 DEF Told
<1>12. Queued(r, Held, sent, told, got, TRUE, Known')
  BY <1>1, <1>6, <1>8, <1>9, <1>11 DEF Queued
<1>13. State'
  <2>1. cut' \subseteq Keys
    <3> SUFFICES ASSUME NEW a \in DOMAIN queue, IsFutureKey(queue[a])
                 PROVE  queue[a].key \in Keys
      BY <1>1, <1>2 DEF State
    <3> QED
      BY <1>1, EventFields DEF IsFutureKey
  <2> QED
    BY <1>1, <1>2, <2>1 DEF State
<1>14. Held' = Held
  BY <1>2 DEF Held
<1> QED
  BY <1>1, <1>2, <1>5, <1>12, <1>13, <1>14, Restored

---------------------------------------------------------------------------
(* The theorems.                                                           *)

LEMMA InitInv ==
    ASSUME Init
    PROVE  IInv
<1>1. /\ queue = <<>> /\ lock = 0 /\ phase = "host" /\ left = 0
      /\ hostKeys = {} /\ hostButton = FALSE /\ background = FALSE
      /\ curMouse = Origin /\ mouseEnabled = FALSE
      /\ guestKeys = {} /\ guestButton = FALSE /\ guestMouse = Origin
      /\ by = [k \in Keys |-> "host"] /\ cut = {}
      /\ sent = [x \in Sources |-> 0] /\ got = sent /\ cleared = FALSE
  BY DEF Init
<1>2. State
  <2>1. LockTicks \in Nat /\ TickUnits \in Nat /\ Origin \in Places
    BY InputAssumption
  <2>2. 0 \in 0..LockTicks /\ 0 \in 0..TickUnits
    BY <2>1
  <2> QED
    BY <1>1, <2>1, <2>2 DEF State
<1>3. sent \in Counts /\ got \in Counts /\ \A x \in Sources : sent[x] = 0 /\ got[x] = 0
  BY <1>1 DEF Counts
<1>4. queue \in Seq(Events) /\ DOMAIN queue = {}
  BY <1>1
<1>5. PICK told : told = {}
  OBVIOUS
<1>8. Sorted(queue) /\ Told(queue, told, Held, Known) /\ Heard(told)
  BY <1>1, <1>4, <1>5 DEF Sorted, Told, Held, Heard
<1>6. Numbered(queue, got, sent, cleared)
  BY <1>3, <1>4 DEF Numbered, Sources
<1>7. cleared \in BOOLEAN /\ \A x \in Sources : got[x] <= sent[x]
  <2>1. \A x \in Sources : got[x] <= sent[x]
    <3> SUFFICES ASSUME NEW x \in Sources PROVE got[x] <= sent[x]
      OBVIOUS
    <3>1. got[x] = 0 /\ sent[x] = 0
      BY <1>3
    <3> QED
      BY <3>1
  <2> QED
    BY <1>1, <2>1
<1> QED
  BY <1>2, <1>3, <1>4, <1>6, <1>7, <1>8 DEF IInv, QueueInv, Queued

LEMMA NextInv ==
    ASSUME IInv, [Next]_vars
    PROVE  IInv'
<1>1. ASSUME NEW k \in HostKeys, Keyboard_UpdateKeyMap(k) PROVE IInv'
  BY <1>1, KeyStep
<1>2. ASSUME NEW p \in Places, MouseMove(p) PROVE IInv'
  BY <1>2, MoveStep
<1>3. ASSUME NEW p \in Places, MouseButton(p) PROVE IInv'
  BY <1>3, ButtonStep
<1>4. CASE EnterBackground
  BY <1>4, BackgroundStep
<1>5. ASSUME NEW k \in ScriptKeys, CmdType(k) PROVE IInv'
  BY <1>5, TypeStep
<1>6. ASSUME NEW m \in ScriptKeys, NEW k \in ScriptKeys, CmdTypeShifted(m, k) \/ CmdKey(m, k)
      PROVE  IInv'
  <2>1. 0 \in Nat /\ Lead \in Nat
    BY InputAssumption
  <2> QED
    BY <1>6, <2>1, ChordStep DEF CmdTypeShifted, CmdKey
<1>7. CASE CmdClearKeys
  BY <1>7, ClearStep
<1>8. ASSUME NEW p \in Places, CmdClick(p) PROVE IInv'
  BY <1>8, ClickStep
<1>9. CASE TickStart
  BY <1>9, TickStep
<1>10. CASE Elapse
  BY <1>10, ElapseStep
<1>11. CASE FindKeyEvent
  BY <1>11, FindStep
<1>12. CASE LeaveBackground \/ EnableMouse \/ TickEnd \/ UNCHANGED vars
  BY <1>12, QuietStep
<1> QED
  BY <1>1, <1>2, <1>3, <1>4, <1>5, <1>6, <1>7, <1>8, <1>9, <1>10, <1>11, <1>12
     DEF Next, Host, Script

(* The inductive invariant holds: the queue stays sorted, with the events  *)
(* not taken yet, and their last word on each key is what its holder says. *)
THEOREM Invariance == Spec => []IInv
<1>1. Init => IInv
  BY InitInv
<1>2. IInv /\ [Next]_vars => IInv'
  BY NextInv
<1> QED
  BY <1>1, <1>2, PTL DEF Spec

(* Every variable keeps its type, and no event is taken that was not sent. *)
THEOREM TypeCorrect == Spec => []TypeOK
<1>1. IInv => TypeOK
  <2> SUFFICES ASSUME IInv PROVE TypeOK
    OBVIOUS
  <2>1. State /\ queue \in Seq(Events) /\ sent \in Counts /\ got \in Counts
        /\ \A x \in Sources : got[x] <= sent[x]
    BY DEF IInv, QueueInv, Queued
  <2>2. \A i \in DOMAIN queue : /\ queue[i].kind \in {"Key", "Button", "Pos"}
                                /\ queue[i].wait \in Nat
    BY <2>1, EventFields
  <2>3. \A s \in Sources : sent[s] \in Nat /\ got[s] \in 0..sent[s]
    BY <2>1 DEF Counts
  <2>4. cleared \in BOOLEAN
    BY DEF IInv, QueueInv, Queued
  <2> QED
    BY <2>1, <2>2, <2>3, <2>4 DEF TypeOK, State
<1> QED
  BY <1>1, Invariance, PTL

(* A key that the host spoke of last is held exactly if the host holds it, *)
(* once no event of it is queued; one that a script spoke of last is up,   *)
(* unless the script's events of it were cleared.  The two may use the     *)
(* same keys.                                                              *)
THEOREM NoKeyStuck == Spec => []NoStuckKey
<1>1. IInv => NoStuckKey
  <2> SUFFICES ASSUME IInv PROVE NoStuckKey
    OBVIOUS
  <2>1. PICK told : /\ Told(queue, told, Held, Known) /\ Heard(told)
                    /\ hostKeys \subseteq HostKeys
    BY DEF IInv, QueueInv, Queued, State
  <2>2. ASSUME NEW k, NEW x, ~Pending(k, x)
        PROVE  \A i \in DOMAIN queue : ~IsOf(queue[i], <<x, k>>)
    BY <2>2 DEF Pending, IsOf
  <2>3. ASSUME NEW k \in HostKeys, by[k] = "host", ~Pending(k, "host")
        PROVE  k \in guestKeys <=> k \in hostKeys
    <3>1. <<"host", k>> \in told <=> <<"host", k>> \in Held
      BY <2>1, <2>2, <2>3 DEF Told, Known
    <3>2. k \in guestKeys <=> <<"host", k>> \in told
      BY <2>1, <2>3 DEF Heard, Keys
    <3> QED
      BY <3>1, <3>2 DEF Held
  <2>4. ASSUME NEW k \in ScriptKeys \ cut, by[k] = "script", ~Pending(k, "script")
        PROVE  k \notin guestKeys
    <3>1. <<"script", k>> \in told <=> <<"script", k>> \in Held
      BY <2>1, <2>2, <2>4 DEF Told, Known
    <3>2. k \in guestKeys <=> <<"script", k>> \in told
      BY <2>1, <2>4 DEF Heard, Keys
    <3> QED
      BY <3>1, <3>2 DEF Held
  <2> QED
    BY <2>3, <2>4 DEF NoStuckKey
<1> QED
  BY <1>1, Invariance, PTL

(* What a step may do to the numbers of the events taken.                  *)
InOrderStep ==
    /\ got'.host \in {got.host, got.host + 1}
    /\ \/ got'.script \in {got.script, got.script + 1}
       \/ cleared /\ got'.script > got.script

LEMMA TakenInOrder ==
    ASSUME NEW q, NEW told, Queued(q, Held, sent, told, got, cleared, Known), q # <<>>,
           From(Head(q)) \in Sources, got' = [got EXCEPT ![From(Head(q))] = Head(q).n]
    PROVE  InOrderStep
<1>1. got \in Counts /\ cleared \in BOOLEAN
  BY DEF Queued
<1>0. PICK n : n = Head(q).n
  OBVIOUS
<1>2. PICK x \in Sources : x = From(Head(q)) /\ n = Head(q).n
  BY <1>0
<1>3. x = "host" => n = got["host"] + 1
  BY <1>2, HeadNext
<1>4. x = "script" => n > got["script"] /\ (~cleared => n = got["script"] + 1)
  BY <1>2, HeadNext
<1>5. \A y \in Sources : got'[y] = IF y = x THEN n ELSE got[y]
  BY <1>1, <1>2 DEF Counts
<1> QED
  BY <1>3, <1>4, <1>5 DEF InOrderStep, Sources

LEMMA InOrderNext ==
    ASSUME IInv, [Next]_vars
    PROVE  InOrderStep
<1>1. PICK told : /\ Queued(queue, Held, sent, told, got, cleared, Known)
                  /\ queue \in Seq(Events) /\ got \in Counts
  BY DEF IInv, QueueInv, Queued
<1>2. CASE got' = got
  BY <1>2 DEF InOrderStep
<1>3. CASE FindKeyEvent
  <2>1. PICK e \in Events : e = Head(queue)
    BY <1>1, <1>3 DEF FindKeyEvent, EventQ_Peek
  <2>2. queue # <<>> /\ e.kind = "Key" /\ got' = [got EXCEPT ![e.source] = e.n]
    BY <1>3, <2>1 DEF FindKeyEvent, EventQ_Peek
  <2>3. From(e) = e.source /\ From(e) \in Sources
    BY <2>2, EventFields DEF From, Sources
  <2> QED
    BY <1>1, <2>1, <2>2, <2>3, TakenInOrder
<1>4. CASE TickStart
  <2> DEFINE unlocked == Unlock(lock)
             takesPos == mouseEnabled /\ MouseTakes("Pos", queue, unlocked)
             q == IF takesPos THEN Tail(queue) ELSE queue
             takesButton == MouseTakes("Button", q, unlocked)
  <2>1. /\ takesButton => got' = [got EXCEPT ![Head(q).source] = Head(q).n]
        /\ ~takesButton => got' = got
    BY <1>4 DEF TickStart
  <2>2. Queued(q, Held, sent, told, got, cleared, Known)
    <3>1. CASE takesPos
      <4>1. PICK e \in Events : e = Head(queue)
        BY <1>1, <3>1 DEF MouseTakes, EventQ_Peek
      <4>2. queue # <<>> /\ e.kind = "Pos"
        BY <3>1, <4>1 DEF MouseTakes, EventQ_Peek
      <4>3. Took(Head(queue), told, got, told, got)
        BY <1>1, <4>1, <4>2, FromIsASource DEF Took, HeldAfter, Sources
      <4>4. Queued(Tail(queue), Held, sent, told, got, cleared, Known)
        BY <1>1, <4>2, <4>3, TakeQueued
      <4> QED
        BY <3>1, <4>4
    <3>2. CASE ~takesPos
      BY <1>1, <3>2
    <3> QED
      BY <3>1, <3>2
  <2> HIDE DEF q, unlocked
  <2>3. CASE takesButton
    <3>1. q \in Seq(Events)
      BY <2>2 DEF Queued
    <3>2. PICK e \in Events : e = Head(q)
      BY <2>3, <3>1 DEF MouseTakes, EventQ_Peek
    <3>3. q # <<>> /\ e.kind = "Button"
      BY <2>3, <3>2 DEF MouseTakes, EventQ_Peek
    <3>4. From(e) = e.source /\ From(e) \in Sources
      BY <3>3, EventFields DEF From, Sources
    <3> QED
      BY <2>1, <2>2, <2>3, <3>2, <3>3, <3>4, TakenInOrder
  <2> QED
    BY <1>2, <2>1, <2>3
<1>5. CASE Elapse \/ LeaveBackground \/ EnableMouse \/ TickEnd \/ UNCHANGED vars
  <2>1. got' = got
    BY <1>5 DEF Elapse, LeaveBackground, EnableMouse, TickEnd, vars, guestVars
  <2> QED
    BY <1>2, <2>1
<1>6. CASE Host
  <2>1. got' = got
    BY <1>6 DEF Host, Keyboard_UpdateKeyMap, MouseMove, MouseButton, EnterBackground,
               LeaveBackground, guestVars
  <2> QED
    BY <1>2, <2>1
<1>7. CASE Script
  <2>1. got' = got
    BY <1>7 DEF Script, CmdType, CmdTypeShifted, CmdKey, Chord, CmdClearKeys, CmdClick, guestVars
  <2> QED
    BY <1>2, <2>1
<1> QED
  BY <1>3, <1>4, <1>5, <1>6, <1>7 DEF Next

(* The guest takes the host's events one by one in the order in which they *)
(* were pushed, and a script's keys too, skipping only what it cleared.    *)
THEOREM InOrder == Spec => EventsInOrder
<1>1. IInv /\ [Next]_vars => [InOrderStep]_vars
  BY InOrderNext
<1> QED
  BY <1>1, Invariance, PTL DEF Spec, EventsInOrder, InOrderStep
===========================================================================
