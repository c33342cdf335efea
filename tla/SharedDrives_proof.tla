------------------------- MODULE SharedDrives_proof -------------------------
(***************************************************************************)
(* Shared drives, for any number of slots, files, mounts and restarts:     *)
(* host and guest agree on the drives, and a file of the guest reaches the *)
(* fork that it was opened on, however slots and handles are reused.       *)
(***************************************************************************)
EXTENDS SharedDrives, SequenceTheorems, WellFoundedInduction, TLAPS

-----------------------------------------------------------------------------
(* The inductive invariant. *)

Volumes == [vol : 1..MaxMounts, forks : SUBSET Nat, nextHandle : Nat \ {0}]
Files == [vcb : VCBs, slot : Slots, local : Nat, vol : 0..MaxMounts]

(* The drives: types, numbers no volume had before, the count. *)
Drives ==
    /\ slots \in [Slots -> {None} \cup Volumes] /\ vcb \in [Slots -> VCBs]
    /\ mounts \in 0..MaxMounts /\ driveCount \in 0..kMaxDrives
    /\ apart \subseteq Slots /\ unseen \subseteq Slots
    /\ \A s \in Slots :
        /\ slots[s].vol <= mounts /\ vcb[s].vol <= mounts
        /\ vcb[s] # None => vcb[s].slot = s /\ s < driveCount
        /\ s \in Mounted => slots[s].forks \subseteq 1..(slots[s].nextHandle - 1)

(* The queue: drives that are mounted, each once. *)
Queue ==
    /\ pending \in Seq(Slots) /\ ToSet(pending) \subseteq Mounted
    /\ \A i, j \in 1..Len(pending) : pending[i] = pending[j] => i = j

(* A file of a volume that the guest saw: as long as its VCB is the slot's,  *)
(* its fork is open; afterwards no VCB of the slot is that one again.        *)
Seen(f) == f # None /\ f.local # 0 /\ f.slot \notin unseen
Live(f) == Seen(f) /\ f.vcb = vcb[f.slot]
FileInv(f) ==
    /\ f.vcb # None /\ f.vcb.slot = f.slot /\ f.vcb.vol <= mounts
    /\ f.vcb # vcb[f.slot] =>
          slots[f.slot].vol # f.vcb.vol /\ vcb[f.slot].vol # f.vcb.vol
    /\ f.vcb = vcb[f.slot] /\ f.slot \notin apart =>
          slots[f.slot].vol = f.vol /\ f.local \in slots[f.slot].forks
Handles ==
    /\ fcb \in [FCBs -> {None} \cup Files]
    /\ \A i \in FCBs : Seen(fcb[i]) => FileInv(fcb[i])
    /\ \A i, j \in FCBs :
          Live(fcb[i]) /\ Live(fcb[j]) /\ fcb[i].slot = fcb[j].slot
             /\ fcb[i].slot \notin apart /\ fcb[i].local = fcb[j].local => i = j

(* Working directories and defaults. *)
Names ==
    /\ nextWD \in 1..(MaxWD + 1) /\ DOMAIN wdTable \subseteq 1..(nextWD - 1)
    /\ \A r \in DOMAIN wdTable : wdTable[r] \in [slot : Slots, vol : 0..MaxMounts]
    /\ defaultWD \in 0..MaxWD /\ rootWD \in [Slots -> 0..MaxWD]
    /\ defVCB \in VCBs /\ ejected \in BOOLEAN

Core == Drives /\ Queue /\ SidesAgree /\ Handles
IInv == Core /\ Names

-----------------------------------------------------------------------------
(* Slots and volumes. *)

(* The least-number principle, for sets of numbers. *)
Below == {ss \in Nat \X Nat : ss[1] < ss[2]}
LEMMA BelowWellFounded == IsWellFoundedOn(Below, Nat)
BY NatLessThanWellFounded, Zenon DEF Below, OpToRel

LEMMA Least ==
    ASSUME NEW T \in SUBSET Nat, T # {}
    PROVE  \E m \in T : \A k \in T : m <= k
<1>1. PICK m \in T : \A k \in T : <<k, m>> \notin Below
  BY BelowWellFounded, WFMin
<1>2. ASSUME NEW k \in T PROVE m <= k
  <2>1. <<k, m>> \notin Below
    BY <1>1
  <2>2. <<k, m>> \in Below <=> k < m
    BY DEF Below
  <2> QED
    BY <2>1, <2>2
<1> QED
  BY <1>2

LEMMA SlotNumbers ==
    /\ kMaxDrives \in Nat /\ Slots \subseteq Nat /\ 0 \in Slots /\ -1 \notin Slots
    /\ \A n \in 0..kMaxDrives : \A s \in 0..(n - 1) : s \in Slots
    /\ \A s \in Slots : s + 1 \in 0..kMaxDrives
    /\ MaxMounts \in Nat /\ MaxWD \in Nat
BY DrivesAssumption DEF Slots

LEMMA NoneHasNoVolume == None.vol = 0
BY DEF None

LEMMA VCBFacts ==
    ASSUME NEW v \in VCBs
    PROVE  /\ v.vol \in 0..MaxMounts /\ (v # None <=> v.vol # 0)
           /\ v # None => v.slot \in Slots
BY NoneHasNoVolume, SlotNumbers DEF VCBs

LEMMA VolumeFacts ==
    ASSUME NEW v \in {None} \cup Volumes
    PROVE  /\ v.vol \in 0..MaxMounts /\ (v # None <=> v.vol # 0)
           /\ v # None => v \in Volumes
BY NoneHasNoVolume, SlotNumbers DEF Volumes

-----------------------------------------------------------------------------
(* The queue of drives to mount. *)

Once(q) == \A i, j \in 1..Len(q) : q[i] = q[j] => i = j

LEMMA QueueGrows ==
    ASSUME NEW q \in Seq(Slots), NEW s \in Slots \ ToSet(q), Once(q)
    PROVE  /\ Append(q, s) \in Seq(Slots) /\ ToSet(Append(q, s)) = ToSet(q) \cup {s}
           /\ Once(Append(q, s))
<1>1. /\ Append(q, s) \in Seq(Slots) /\ Len(Append(q, s)) = Len(q) + 1
      /\ \A i \in 1..Len(q) : Append(q, s)[i] = q[i]
      /\ Append(q, s)[Len(q) + 1] = s
  BY AppendProperties
<1>2. /\ DOMAIN q = 1..Len(q) /\ Len(q) \in Nat
      /\ DOMAIN Append(q, s) = 1..(Len(q) + 1)
  BY <1>1, LenProperties
<1>3. \A i \in 1..Len(q) : q[i] # s
  BY <1>2 DEF ToSet
<1> HIDE DEF Slots
<1>4. ToSet(Append(q, s)) = ToSet(q) \cup {s}
  BY <1>1, <1>2 DEF ToSet
<1>5. Once(Append(q, s))
  BY <1>1, <1>2, <1>3 DEF Once
<1> QED
  BY <1>1, <1>4, <1>5

LEMMA QueueShrinks ==
    ASSUME NEW q \in Seq(Slots), q # <<>>, Once(q)
    PROVE  /\ Tail(q) \in Seq(Slots) /\ Head(q) \in ToSet(q)
           /\ ToSet(Tail(q)) = ToSet(q) \ {Head(q)} /\ Once(Tail(q))
<1>1. /\ Tail(q) \in Seq(Slots) /\ Len(Tail(q)) = Len(q) - 1
      /\ \A i \in 1..Len(Tail(q)) : Tail(q)[i] = q[i + 1]
  BY HeadTailProperties
<1>2. /\ DOMAIN q = 1..Len(q) /\ Len(q) \in Nat \ {0}
      /\ DOMAIN Tail(q) = 1..(Len(q) - 1) /\ Head(q) = q[1]
  BY <1>1, LenProperties, EmptySeq
<1>3. Head(q) \in ToSet(q)
  BY <1>2 DEF ToSet
<1>4. \A i \in 2..Len(q) : q[i] # q[1]
  BY <1>2 DEF Once
<1>5. \A i \in 1..(Len(q) - 1) : Tail(q)[i] = q[i + 1]
  BY <1>1
<1>6. ToSet(Tail(q)) \subseteq ToSet(q) \ {Head(q)}
  BY <1>2, <1>4, <1>5 DEF ToSet
<1>7. ASSUME NEW s \in ToSet(q), s # Head(q) PROVE s \in ToSet(Tail(q))
  <2>1. PICK i \in 1..Len(q) : s = q[i]
    BY <1>2 DEF ToSet
  <2>2. i - 1 \in 1..(Len(q) - 1) /\ Tail(q)[i - 1] = s
    BY <1>2, <1>5, <1>7, <2>1
  <2> QED
    BY <1>2, <2>2 DEF ToSet
<1>8. Once(Tail(q))
  BY <1>1, <1>2, <1>5 DEF Once
<1> QED
  BY <1>1, <1>3, <1>6, <1>7, <1>8

LEMMA QueueWithout ==
    ASSUME NEW s \in Slots, pending \in Seq(Slots), Once(pending)
    PROVE  /\ Dequeued(s) \in Seq(Slots) /\ ToSet(Dequeued(s)) = ToSet(pending) \ {s}
           /\ Once(Dequeued(s))
<1>1. CASE s \notin ToSet(pending)
  BY <1>1 DEF Dequeued
<1>2. CASE s \in ToSet(pending)
  <2> DEFINE k == CHOOSE i \in DOMAIN pending : pending[i] = s
             n == Len(pending)
             front == SubSeq(pending, 1, k - 1)
             back == SubSeq(pending, k + 1, n)
  <2>1. DOMAIN pending = 1..n /\ n \in Nat /\ \A i \in 1..n : pending[i] \in Slots
    BY LenProperties
  <2>2. k \in 1..n /\ pending[k] = s
    BY <1>2, <2>1 DEF ToSet
  <2>3. Dequeued(s) = front \o back
    BY <1>2 DEF Dequeued, RemoveAt
  <2> HIDE DEF k
  <2>4. /\ front \in Seq(Slots) /\ Len(front) = k - 1
        /\ \A i \in 1..(k - 1) : front[i] = pending[i]
    BY <2>1, <2>2, SubSeqProperties
  <2>5. /\ back \in Seq(Slots) /\ Len(back) = n - k
        /\ \A i \in 1..(n - k) : back[i] = pending[i + k]
    <3>1. \A i \in (k + 1)..n : pending[i] \in Slots
      BY <2>1, <2>2
    <3>2. /\ back \in Seq(Slots) /\ Len(back) = IF k + 1 <= n THEN n - (k + 1) + 1 ELSE 0
          /\ \A i \in 1..(n - (k + 1) + 1) : back[i] = pending[k + 1 + i - 1]
      BY <2>1, <2>2, <3>1, SubSeqProperties
    <3> HIDE DEF back
    <3>3. Len(back) = n - k
      <4>1. CASE k + 1 <= n
        BY <2>1, <2>2, <3>2, <4>1
      <4>2. CASE k = n
        BY <2>1, <2>2, <3>2, <4>2
      <4>3. k + 1 <= n \/ k = n
        <5>1. n \in Nat /\ k \in 1..n
          BY <2>1, <2>2
        <5> HIDE DEF n
        <5> QED
          BY <5>1
      <4> QED
        BY <4>1, <4>2, <4>3, Zenon
    <3>4. ASSUME NEW i \in 1..(n - k) PROVE back[i] = pending[i + k]
      <4>1. i \in 1..(n - (k + 1) + 1) /\ k + 1 + i - 1 = i + k
        BY <2>1, <2>2
      <4>2. back[i] = pending[k + 1 + i - 1]
        BY <3>2, <4>1
      <4> QED
        BY <4>1, <4>2
    <3> QED
      BY <3>2, <3>3, <3>4
  <2> HIDE DEF front, back
  <2> DEFINE d == front \o back
  <2>6. /\ d \in Seq(Slots) /\ Len(d) = n - 1
        /\ \A i \in 1..(n - 1) : d[i] = IF i <= k - 1 THEN front[i] ELSE back[i - (k - 1)]
    <3>1. /\ d \in Seq(Slots) /\ Len(d) = Len(front) + Len(back)
          /\ \A i \in 1..(Len(front) + Len(back)) :
                d[i] = IF i <= Len(front) THEN front[i] ELSE back[i - Len(front)]
      BY <2>4, <2>5, ConcatProperties
    <3>2. Len(front) = k - 1 /\ Len(front) + Len(back) = n - 1
      BY <2>1, <2>2, <2>4, <2>5
    <3> HIDE DEF d
    <3> QED
      BY <3>1, <3>2
  <2>7. DOMAIN d = 1..(n - 1)
    BY <2>6, LenProperties
  <2> HIDE DEF d
  <2>8. \A i \in 1..(n - 1) : d[i] = IF i < k THEN pending[i] ELSE pending[i + 1]
    BY <2>1, <2>2, <2>4, <2>5, <2>6
  <2>9. Once(d)
    BY <2>1, <2>2, <2>6, <2>8 DEF Once
  <2>10. \A i \in 1..(n - 1) : d[i] \in ToSet(pending) \ {s}
    <3> SUFFICES ASSUME NEW i \in 1..(n - 1) PROVE d[i] \in ToSet(pending) \ {s}
      OBVIOUS
    <3>1. PICK j \in 1..n : d[i] = pending[j] /\ j # k
      BY <2>1, <2>2, <2>8
    <3>2. pending[j] # pending[k]
      BY <2>1, <2>2, <3>1 DEF Once
    <3> QED
      BY <2>1, <2>2, <3>1, <3>2 DEF ToSet
  <2>11. ASSUME NEW t \in ToSet(pending), t # s PROVE t \in ToSet(d)
    <3>1. PICK i \in 1..n : t = pending[i]
      BY <2>1 DEF ToSet
    <3>2. i # k
      BY <2>2, <2>11, <3>1
    <3>3. \E j \in 1..(n - 1) : d[j] = t
      <4>1. CASE i < k
        BY <2>1, <2>2, <2>8, <3>1, <4>1
      <4>2. CASE i > k
        <5>1. i - 1 \in 1..(n - 1) /\ d[i - 1] = t
          BY <2>1, <2>2, <2>8, <3>1, <4>2
        <5> QED
          BY <5>1
      <4> QED
        BY <2>1, <2>2, <3>2, <4>1, <4>2
    <3> QED
      BY <2>7, <3>3 DEF ToSet
  <2>12. ToSet(d) = ToSet(pending) \ {s}
    BY <2>7, <2>10, <2>11 DEF ToSet
  <2> QED
    BY <2>3, <2>6, <2>9, <2>12 DEF d
<1> QED
  BY <1>1, <1>2

-----------------------------------------------------------------------------
(* What drives that come and go mean to open files. *)

(* A slot stays as it is, is filled or emptied without the guest, is emptied *)
(* on both sides, or becomes known to the guest.                             *)
Moves(s) ==
    \/ slots'[s] = slots[s] /\ vcb'[s] = vcb[s] /\ (s \in apart => s \in apart')
    \/ /\ slots'[s].vol \notin 1..mounts /\ vcb'[s] = vcb[s]
       /\ vcb[s] = None \/ s \in apart'
    \/ slots'[s].vol = 0 /\ vcb'[s] = None
    \/ slots'[s] = slots[s] /\ vcb[s] = None /\ vcb'[s].vol = slots[s].vol

LEMMA FileTypes ==
    ASSUME Drives, Handles, NEW i \in FCBs, Seen(fcb[i])
    PROVE  /\ fcb[i] \in Files /\ fcb[i].slot \in Slots /\ fcb[i].vcb \in VCBs
           /\ fcb[i].vcb.vol \in 1..mounts /\ FileInv(fcb[i])
<1>1. fcb[i] \in Files /\ FileInv(fcb[i])
  BY DEF Handles, Seen
<1>2. fcb[i].slot \in Slots /\ fcb[i].vcb \in VCBs
  BY <1>1 DEF Files
<1> QED
  BY <1>1, <1>2, VCBFacts, SlotNumbers DEF FileInv, Drives

LEMMA HandlesMove ==
    ASSUME Drives, Handles, UNCHANGED <<fcb, unseen>>, mounts' \in Int, mounts <= mounts',
           \A s \in Slots : Moves(s)
    PROVE  Handles'
<1>1. ASSUME NEW i \in FCBs, Seen(fcb[i])'
      PROVE  /\ Seen(fcb[i]) /\ fcb[i].slot \in Slots /\ fcb[i].vcb \in VCBs
             /\ fcb[i].vcb.vol \in 1..mounts /\ FileInv(fcb[i])
  <2>1. Seen(fcb[i])
    BY <1>1 DEF Seen
  <2> QED
    BY <2>1, FileTypes
<1>2. ASSUME NEW i \in FCBs, Seen(fcb[i])'
      PROVE  /\ FileInv(fcb[i])'
             /\ Live(fcb[i])' /\ fcb[i].slot \notin apart' =>
                   Live(fcb[i]) /\ fcb[i].slot \notin apart
  <2> DEFINE f == fcb[i]
             s == f.slot
  <2>1. /\ Seen(f) /\ s \in Slots /\ f.vcb \in VCBs /\ f.vcb.vol \in 1..mounts
        /\ f.vcb # None /\ f.vcb.slot = s
        /\ f.vcb # vcb[s] => slots[s].vol # f.vcb.vol /\ vcb[s].vol # f.vcb.vol
        /\ f.vcb = vcb[s] /\ s \notin apart => slots[s].vol = f.vol /\ f.local \in slots[s].forks
    BY <1>1, <1>2 DEF FileInv
  <2>2. Moves(s) /\ mounts \in Int /\ None.vol = 0
    BY <2>1, NoneHasNoVolume DEF Drives
  <2>3. SUFFICES /\ f.vcb.vol <= mounts'
                 /\ f.vcb # vcb'[s] => slots'[s].vol # f.vcb.vol /\ vcb'[s].vol # f.vcb.vol
                 /\ f.vcb = vcb'[s] /\ s \notin apart' =>
                       /\ slots'[s].vol = f.vol /\ f.local \in slots'[s].forks
                       /\ f.vcb = vcb[s] /\ s \notin apart
    <3>1. fcb'[i] = f
      OBVIOUS
    <3> QED
      BY <2>1, <2>3, <3>1 DEF FileInv, Live
  <2>4. f.vcb.vol <= mounts'
    BY <2>1, <2>2
  <2> HIDE DEF f, s
  <2> QED
    BY <2>1, <2>2, <2>4 DEF Moves
<1>3. ASSUME NEW i \in FCBs, NEW j \in FCBs, Live(fcb[i])', Live(fcb[j])',
             fcb[i].slot = fcb[j].slot, fcb[i].slot \notin apart', fcb[i].local = fcb[j].local
      PROVE  i = j
  <2>1. Seen(fcb[i])' /\ Seen(fcb[j])'
    BY <1>3 DEF Live
  <2>2. Live(fcb[i]) /\ Live(fcb[j]) /\ fcb[i].slot \notin apart
    BY <1>2, <1>3, <2>1
  <2> QED
    BY <1>3, <2>2 DEF Handles
<1>4. (fcb \in [FCBs -> {None} \cup Files])'
  BY DEF Handles, FCBs, Files, VCBs, Slots
<1> QED
  BY <1>2, <1>3, <1>4 DEF Handles

LEMMA HandlesStay ==
    ASSUME Drives, Handles, UNCHANGED <<slots, vcb, fcb, apart, unseen, mounts>>
    PROVE  Handles'
<1>1. mounts' \in Int /\ mounts <= mounts'
  BY DEF Drives
<1>2. \A s \in Slots : Moves(s)
  BY DEF Moves
<1> QED
  BY <1>1, <1>2, HandlesMove

-----------------------------------------------------------------------------
(* The host. *)

LEMMA CoreStays ==
    ASSUME Core, UNCHANGED <<slots, pending, vcb, driveCount, fcb, apart, unseen, mounts>>
    PROVE  Core'
<1>1. Handles'
  BY HandlesStay DEF Core
<1> QED
  BY <1>1 DEF Core, Drives, Queue, SidesAgree, Mounted

LEMMA NamesStay ==
    ASSUME Names, UNCHANGED <<wdTable, nextWD, defaultWD, rootWD, defVCB, ejected>>
    PROVE  Names'
BY DEF Names

LEMMA MountStep == ASSUME IInv, Mount PROVE IInv'
<1> USE SlotNumbers, NoneHasNoVolume
<1> DEFINE slot == CHOOSE s \in Slots \ Mounted : \A t \in Slots \ Mounted : s <= t
           new == [vol |-> mounts + 1, forks |-> {}, nextHandle |-> 1]
<1>1. slot \in Slots \ Mounted
  <2>1. Slots \ Mounted # {} /\ Slots \ Mounted \in SUBSET Nat
    BY DEF Mount, Mounted
  <2>2. \E s \in Slots \ Mounted : \A t \in Slots \ Mounted : s <= t
    BY <2>1, Least
  <2> QED
    BY <2>2
<1> HIDE DEF slot
<1>2. /\ mounts < MaxMounts /\ mounts' = mounts + 1
      /\ slots' = [slots EXCEPT ![slot] = new]
      /\ openWD(slot) /\ rootWD' = [rootWD EXCEPT ![slot] = nextWD]
      /\ defaultWD' \in {nextWD, defaultWD} /\ pending' = Append(pending, slot)
      /\ UNCHANGED <<vcb, driveCount, ejected, defVCB, fcb, apart, unseen>>
  BY DEF Mount, slot, guestVars, history
<1>3. /\ Drives /\ Queue /\ SidesAgree /\ Handles /\ Names
      /\ slots \in [Slots -> {None} \cup Volumes] /\ mounts \in 0..MaxMounts
      /\ vcb \in [Slots -> VCBs] /\ slots[slot] = None
  BY <1>1 DEF IInv, Core, Drives, Mounted
<1>4. new \in Volumes /\ new.vol = mounts + 1 /\ new # None
  BY <1>2, <1>3 DEF Volumes
<1>5. /\ slots' \in [Slots -> {None} \cup Volumes] /\ slots'[slot] = new
      /\ \A s \in Slots \ {slot} : slots'[s] = slots[s]
  BY <1>1, <1>2, <1>3, <1>4
<1>6. Mounted' = Mounted \cup {slot}
  BY <1>1, <1>4, <1>5 DEF Mounted
<1>7. Drives'
  <2>1. ASSUME NEW s \in Slots
        PROVE  /\ slots'[s].vol <= mounts'
               /\ s \in Mounted' => slots'[s].forks \subseteq 1..(slots'[s].nextHandle - 1)
    <3>1. CASE s = slot
      BY <1>2, <1>3, <1>5, <3>1
    <3>2. CASE s # slot
      <4>1. slots'[s] = slots[s] /\ slots[s].vol \in 0..MaxMounts /\ slots[s].vol <= mounts
        BY <1>3, <1>5, <3>2, VolumeFacts DEF Drives
      <4>2. s \in Mounted' => s \in Mounted
        BY <1>6, <3>2
      <4> QED
        BY <1>2, <1>3, <4>1, <4>2 DEF Drives
    <3> QED
      BY <3>1, <3>2
  <2>2. ASSUME NEW s \in Slots PROVE vcb[s].vol <= mounts'
    <3>1. vcb[s].vol \in 0..MaxMounts /\ vcb[s].vol <= mounts
      BY <1>3, VCBFacts DEF Drives
    <3> QED
      BY <1>2, <1>3, <3>1
  <2>3. mounts' \in 0..MaxMounts
    BY <1>2, <1>3
  <2> QED
    BY <1>2, <1>3, <1>5, <2>1, <2>2, <2>3 DEF Drives
<1>8. Queue'
  <2>1. slot \notin ToSet(pending) /\ pending \in Seq(Slots) /\ Once(pending)
    BY <1>1, <1>3 DEF Queue, Once
  <2>2. /\ pending' \in Seq(Slots) /\ ToSet(pending') = ToSet(pending) \cup {slot}
        /\ Once(pending')
    BY <1>1, <1>2, <2>1, QueueGrows
  <2> QED
    BY <1>3, <1>6, <2>2 DEF Queue, Once
<1>9. slot \in apart \/ vcb[slot] = None
  <2>1. slot \notin apart /\ vcb[slot] # None => slots[slot].vol = vcb[slot].vol
    BY <1>1, <1>3 DEF SidesAgree
  <2>2. vcb[slot] # None => vcb[slot].vol # 0
    BY <1>1, <1>3, VCBFacts
  <2> QED
    BY <1>3, <2>1, <2>2
<1>10. SidesAgree'
  <2>1. ToSet(pending') = ToSet(pending) \cup {slot}
    BY <1>1, <1>2, <1>3, QueueGrows DEF Queue, Once
  <2> QED
    BY <1>1, <1>2, <1>3, <1>5, <1>6, <1>9, <2>1 DEF SidesAgree
<1>11. Handles'
  <2>1. ASSUME NEW s \in Slots PROVE Moves(s)
    <3>1. CASE s = slot
      BY <1>2, <1>3, <1>4, <1>5, <1>9, <3>1 DEF Moves
    <3>2. CASE s # slot
      BY <1>2, <1>5, <3>2 DEF Moves
    <3> QED
      BY <3>1, <3>2
  <2>2. mounts' \in Int /\ mounts <= mounts'
    BY <1>2, <1>3
  <2> QED
    BY <1>2, <1>3, <2>1, <2>2, HandlesMove
<1>12. Names'
  <2>1. /\ nextWD \in 1..MaxWD /\ nextWD' = nextWD + 1
        /\ wdTable' = [r \in DOMAIN wdTable \cup {nextWD} |->
                         IF r = nextWD THEN [slot |-> slot, vol |-> slots'[slot].vol] ELSE wdTable[r]]
    BY <1>2, <1>3 DEF openWD, Names
  <2>2. [slot |-> slot, vol |-> slots'[slot].vol] \in [slot : Slots, vol : 0..MaxMounts]
    BY <1>1, <1>2, <1>3, <1>4, <1>5
  <2> QED
    BY <1>1, <1>2, <1>3, <2>1, <2>2 DEF Names
<1> QED
  BY <1>7, <1>8, <1>10, <1>11, <1>12 DEF IInv, Core

(* The host's half of an unmount, whatever it does to the guest's. *)
LEMMA Unmounts ==
    ASSUME Drives, Queue, NEW slot \in Slots, unmount(slot)
    PROVE  /\ slots' \in [Slots -> {None} \cup Volumes] /\ slots'[slot] = None
           /\ \A s \in Slots \ {slot} : slots'[s] = slots[s]
           /\ mounts' = mounts /\ Mounted' = Mounted \ {slot}
           /\ ToSet(pending') = ToSet(pending) \ {slot} /\ Queue'
           /\ \A s \in Slots : /\ slots'[s].vol <= mounts'
                               /\ s \in Mounted' =>
                                     slots'[s].forks \subseteq 1..(slots'[s].nextHandle - 1)
<1>1. /\ slots' = [slots EXCEPT ![slot] = None] /\ pending' = Dequeued(slot) /\ mounts' = mounts
      /\ slots \in [Slots -> {None} \cup Volumes] /\ mounts \in 0..MaxMounts
  BY DEF unmount, Drives
<1>2. /\ slots' \in [Slots -> {None} \cup Volumes] /\ slots'[slot] = None
      /\ \A s \in Slots \ {slot} : slots'[s] = slots[s]
  BY <1>1
<1>3. Mounted' = Mounted \ {slot}
  BY <1>2 DEF Mounted
<1>4. /\ pending' \in Seq(Slots) /\ ToSet(pending') = ToSet(pending) \ {slot} /\ Once(pending')
  BY <1>1, QueueWithout DEF Queue, Once
<1>5. Queue'
  BY <1>3, <1>4 DEF Queue, Once
<1>6. ASSUME NEW s \in Slots
      PROVE  /\ slots'[s].vol <= mounts'
             /\ s \in Mounted' => slots'[s].forks \subseteq 1..(slots'[s].nextHandle - 1)
  BY <1>1, <1>2, <1>3, NoneHasNoVolume, SlotNumbers DEF Drives
<1> QED
  BY <1>1, <1>2, <1>3, <1>4, <1>5, <1>6

LEMMA ForceUnmountStep ==
    ASSUME IInv, NEW slot \in Slots, ForceUnmount(slot)
    PROVE  IInv'
<1> USE SlotNumbers, NoneHasNoVolume
<1>1. /\ Drives /\ Queue /\ SidesAgree /\ Handles /\ Names
  BY DEF IInv, Core
<1>2. /\ unmount(slot)
      /\ apart' = IF vcb[slot] # None THEN apart \cup {slot} ELSE apart \ {slot}
      /\ UNCHANGED <<vcb, driveCount, ejected, defVCB, fcb, unseen>>
      /\ UNCHANGED <<wdTable, defaultWD, rootWD, nextWD>>
  BY DEF ForceUnmount, unmount, guestVars
<1>3. Drives' /\ Queue'
  BY <1>1, <1>2, Unmounts DEF Drives
<1>4. SidesAgree'
  BY <1>1, <1>2, Unmounts DEF SidesAgree
<1>5. Handles'
  <2>1. ASSUME NEW s \in Slots PROVE Moves(s)
    BY <1>1, <1>2, Unmounts DEF Moves
  <2>2. mounts' \in Int /\ mounts <= mounts'
    BY <1>1, <1>2, Unmounts DEF Drives
  <2> QED
    BY <1>1, <1>2, <2>1, <2>2, HandlesMove
<1>6. Names'
  BY <1>1, <1>2, NamesStay
<1> QED
  BY <1>3, <1>4, <1>5, <1>6 DEF IInv, Core

-----------------------------------------------------------------------------
(* The guest: drives. *)

LEMMA PollMountsStep == ASSUME IInv, PollMounts PROVE IInv'
<1> USE SlotNumbers, NoneHasNoVolume
<1> DEFINE slot == Head(pending)
           seen == [slot |-> slot, vol |-> slots[slot].vol]
<1>1. /\ Drives /\ Queue /\ SidesAgree /\ Handles /\ Names
      /\ slots \in [Slots -> {None} \cup Volumes] /\ mounts \in 0..MaxMounts
      /\ vcb \in [Slots -> VCBs] /\ driveCount \in 0..kMaxDrives
  BY DEF IInv, Core, Drives
<1>2. /\ pending # <<>> /\ pending' = Tail(pending)
      /\ \/ /\ vcb' = vcb /\ driveCount' = driveCount
            /\ apart' = IF vcb[slot] = None THEN apart \cup {slot} ELSE apart
         \/ /\ vcb[slot] = None /\ vcb' = [vcb EXCEPT ![slot] = seen]
            /\ driveCount' = IF slot >= driveCount THEN slot + 1 ELSE driveCount
            /\ apart' = IF vcb'[slot] = None THEN apart \cup {slot} ELSE apart
      /\ UNCHANGED <<slots, mounts, fcb, unseen>>
      /\ UNCHANGED <<wdTable, nextWD, defaultWD, rootWD, defVCB, ejected>>
  <2> DEFINE was == [vcb |-> vcb, driveCount |-> driveCount]
  <2>1. PICK memory \in BOOLEAN :
           LET g == MountNewDrive(was, slot, memory)
           IN  /\ pending # <<>> /\ pending' = Tail(pending)
               /\ vcb' = g.vcb /\ driveCount' = g.driveCount
               /\ apart' = IF g.vcb[slot] = None THEN apart \cup {slot} ELSE apart
               /\ UNCHANGED <<slots, wdTable, defaultWD, rootWD, nextWD, mounts>>
               /\ UNCHANGED <<ejected, defVCB, fcb, upsets, unseen>>
    BY DEF PollMounts
  <2> HIDE DEF slot, seen
  <2>2. CASE vcb[slot] # None \/ ~memory
    <3>1. MountNewDrive(was, slot, memory) = was
      BY <2>2 DEF MountNewDrive
    <3> QED
      BY <2>1, <3>1
  <2>3. CASE vcb[slot] = None /\ memory
    <3>1. /\ MountNewDrive(was, slot, memory).vcb = [vcb EXCEPT ![slot] = seen]
          /\ MountNewDrive(was, slot, memory).driveCount
                = IF slot >= driveCount THEN slot + 1 ELSE driveCount
      BY <2>3 DEF MountNewDrive, seen
    <3> QED
      BY <2>1, <2>3, <3>1
  <2> QED
    BY <2>2, <2>3
<1>3. /\ slot \in ToSet(pending) /\ slot \in Mounted /\ slot \in Slots
      /\ ToSet(pending') = ToSet(pending) \ {slot} /\ Queue'
  <2>1. /\ pending \in Seq(Slots) /\ Once(pending) /\ ToSet(pending) \subseteq Mounted
    BY <1>1 DEF Queue, Once
  <2>2. /\ slot \in ToSet(pending) /\ pending' \in Seq(Slots)
        /\ ToSet(pending') = ToSet(pending) \ {slot} /\ Once(pending')
    BY <1>2, <2>1, QueueShrinks
  <2>3. Mounted' = Mounted /\ Mounted \subseteq Slots
    BY <1>2 DEF Mounted
  <2> HIDE DEF slot
  <2>4. Queue'
    BY <2>1, <2>2, <2>3 DEF Queue, Once
  <2> QED
    BY <2>1, <2>2, <2>3, <2>4
<1> HIDE DEF slot
<1>4. slots[slot] # None /\ slots[slot].vol \in 1..MaxMounts /\ slots[slot].vol <= mounts
  <2>1. slots[slot] # None /\ slots[slot].vol <= mounts
    BY <1>1, <1>3 DEF Mounted, Drives
  <2> QED
    BY <1>1, <1>3, <2>1, VolumeFacts
<1>5. seen \in VCBs /\ seen # None /\ seen.slot = slot /\ seen.vol = slots[slot].vol
  BY <1>3, <1>4 DEF VCBs
<1> HIDE DEF seen
<1>6. CASE /\ vcb' = vcb /\ driveCount' = driveCount
           /\ apart' = IF vcb[slot] = None THEN apart \cup {slot} ELSE apart
  <2>1. vcb' = vcb /\ driveCount' = driveCount /\ apart \subseteq apart' /\ apart' \subseteq Slots
    BY <1>1, <1>3, <1>6 DEF Drives
  <2>2. Drives'
    BY <1>1, <1>2, <2>1 DEF Drives, Mounted
  <2>3. SidesAgree'
    BY <1>1, <1>2, <1>3, <1>6, <2>1 DEF SidesAgree, Mounted
  <2>4. Handles'
    <3>1. ASSUME NEW s \in Slots PROVE Moves(s)
      BY <1>2, <2>1 DEF Moves
    <3>2. mounts' \in Int /\ mounts <= mounts'
      BY <1>1, <1>2
    <3> QED
      BY <1>1, <1>2, <3>1, <3>2, HandlesMove
  <2> QED
    BY <1>1, <1>2, <1>3, <2>2, <2>3, <2>4, NamesStay DEF IInv, Core
<1>7. CASE /\ vcb[slot] = None /\ vcb' = [vcb EXCEPT ![slot] = seen]
           /\ driveCount' = IF slot >= driveCount THEN slot + 1 ELSE driveCount
           /\ apart' = IF vcb'[slot] = None THEN apart \cup {slot} ELSE apart
  <2>1. /\ vcb' \in [Slots -> VCBs] /\ vcb'[slot] = seen
        /\ \A s \in Slots \ {slot} : vcb'[s] = vcb[s]
        /\ driveCount' = IF slot >= driveCount THEN slot + 1 ELSE driveCount
        /\ apart' = apart
    BY <1>1, <1>3, <1>5, <1>7
  <2>2. driveCount' \in 0..kMaxDrives /\ slot < driveCount' /\ driveCount <= driveCount'
    BY <1>1, <1>3, <2>1
  <2>3. ASSUME NEW s \in Slots
        PROVE  /\ vcb'[s].vol <= mounts
               /\ vcb'[s] # None => vcb'[s].slot = s /\ s < driveCount'
    <3>1. CASE s = slot
      BY <1>4, <1>5, <2>1, <2>2, <3>1
    <3>2. CASE s # slot
      BY <1>1, <2>1, <2>2, <3>2 DEF Drives
    <3> QED
      BY <3>1, <3>2
  <2>4. Drives'
    BY <1>1, <1>2, <2>1, <2>2, <2>3 DEF Drives, Mounted
  <2>5. SidesAgree'
    BY <1>1, <1>2, <1>3, <1>5, <2>1 DEF SidesAgree, Mounted
  <2>6. Handles'
    <3>1. ASSUME NEW s \in Slots PROVE Moves(s)
      BY <1>2, <1>5, <1>7, <2>1 DEF Moves
    <3>2. mounts' \in Int /\ mounts <= mounts'
      BY <1>1, <1>2
    <3> QED
      BY <1>1, <1>2, <3>1, <3>2, HandlesMove
  <2> QED
    BY <1>1, <1>2, <1>3, <2>4, <2>5, <2>6, NamesStay DEF IInv, Core
<1> QED
  BY <1>2, <1>6, <1>7

LEMMA TearDownStep ==
    ASSUME IInv, NEW slot \in Slots, TearDownSlot(slot), UNCHANGED <<fcb, unseen, driveCount>>
    PROVE  Core' /\ UNCHANGED <<wdTable, nextWD, defaultWD, rootWD>>
<1> USE SlotNumbers, NoneHasNoVolume
<1>1. /\ Drives /\ Queue /\ SidesAgree /\ Handles
      /\ slots \in [Slots -> {None} \cup Volumes] /\ mounts \in 0..MaxMounts
      /\ vcb \in [Slots -> VCBs]
  BY DEF IInv, Core, Drives
<1>2. /\ vcb' = [vcb EXCEPT ![slot] = None] /\ apart' = apart \ {slot}
      /\ slot \in Mounted => unmount(slot)
      /\ slot \notin Mounted =>
            UNCHANGED <<slots, pending, wdTable, defaultWD, rootWD, nextWD, mounts>>
  BY DEF TearDownSlot, hostVars
<1>3. /\ vcb' \in [Slots -> VCBs] /\ vcb'[slot] = None
      /\ \A s \in Slots \ {slot} : vcb'[s] = vcb[s]
  BY <1>1, <1>2 DEF VCBs
<1>4. /\ slots' \in [Slots -> {None} \cup Volumes] /\ slots'[slot] = None
      /\ \A s \in Slots \ {slot} : slots'[s] = slots[s]
      /\ mounts' = mounts /\ Mounted' = Mounted \ {slot}
      /\ ToSet(pending') = ToSet(pending) \ {slot} /\ Queue'
      /\ \A s \in Slots : /\ slots'[s].vol <= mounts'
                          /\ s \in Mounted' =>
                                slots'[s].forks \subseteq 1..(slots'[s].nextHandle - 1)
  <2>1. CASE slot \in Mounted
    BY <1>1, <1>2, <2>1, Unmounts
  <2>2. CASE slot \notin Mounted
    BY <1>1, <1>2, <2>2 DEF Drives, Queue, Mounted
  <2> QED
    BY <2>1, <2>2
<1>5. Drives'
  <2>1. \A s \in Slots : /\ vcb'[s].vol <= mounts'
                         /\ vcb'[s] # None => vcb'[s].slot = s /\ s < driveCount'
    BY <1>1, <1>3, <1>4 DEF Drives
  <2> QED
    BY <1>1, <1>2, <1>3, <1>4, <2>1 DEF Drives
<1>6. SidesAgree'
  BY <1>1, <1>2, <1>3, <1>4 DEF SidesAgree
<1>7. Handles'
  <2>1. ASSUME NEW s \in Slots PROVE Moves(s)
    BY <1>2, <1>3, <1>4 DEF Moves
  <2>2. mounts' \in Int /\ mounts <= mounts'
    BY <1>1, <1>4
  <2> QED
    BY <1>1, <2>1, <2>2, HandlesMove
<1>8. UNCHANGED <<wdTable, nextWD, defaultWD, rootWD>>
  BY <1>2 DEF unmount
<1> QED
  BY <1>4, <1>5, <1>6, <1>7, <1>8 DEF Core

LEMMA FoundVCB == ASSUME Drives, NEW r PROVE FindVCB(r) \subseteq Slots
BY SlotNumbers DEF FindVCB, Drives

LEMMA UnmountVolStep == ASSUME IInv, NEW r, UnmountVol(r) PROVE IInv'
<1>1. PICK slot \in FindVCB(r) :
         /\ TearDownSlot(slot)
         /\ ejected' = (\A s \in 0..(driveCount - 1) : vcb'[s] = None)
  BY DEF UnmountVol
<1>2. slot \in Slots
  BY FoundVCB DEF IInv, Core
<1>3. UNCHANGED <<driveCount, defVCB, fcb, unseen>>
  BY DEF UnmountVol
<1>4. Core' /\ UNCHANGED <<wdTable, nextWD, defaultWD, rootWD>>
  BY <1>1, <1>2, <1>3, TearDownStep
<1>5. ejected' \in BOOLEAN
  BY <1>1
<1>6. Names'
  BY <1>3, <1>4, <1>5 DEF IInv, Names
<1> QED
  BY <1>4, <1>6 DEF IInv

LEMMA EjectStep == ASSUME IInv, NEW r, Eject(r) PROVE IInv'
<1>1. PICK slot \in FindVCB(r) : TearDownSlot(slot)
  BY DEF Eject
<1>2. slot \in Slots
  BY FoundVCB DEF IInv, Core
<1>3. UNCHANGED <<ejected, driveCount, defVCB, fcb, unseen>>
  BY DEF Eject
<1>4. Core' /\ UNCHANGED <<wdTable, nextWD, defaultWD, rootWD>>
  BY <1>1, <1>2, <1>3, TearDownStep
<1> QED
  BY <1>3, <1>4, NamesStay DEF IInv

(* The count after a restart is one past the last drive that was mounted. *)
LEMMA CountOfQueue ==
    ASSUME NEW got \in SUBSET Slots
    PROVE  InitCount(got) \in 0..kMaxDrives /\ \A s \in got : s < InitCount(got)
<1> USE SlotNumbers
<1> DEFINE T == {n \in Nat : \A s \in got : s < n}
           Is(n) == (\A s \in got : s < n) /\ (n = 0 \/ n - 1 \in got)
<1>1. kMaxDrives \in T
  BY DEF Slots
<1>2. PICK n \in T : \A k \in T : n <= k
  <2>1. T \in SUBSET Nat /\ T # {}
    BY <1>1
  <2> HIDE DEF T
  <2> QED
    BY <2>1, Least
<1>3. n \in 0..kMaxDrives
  BY <1>1, <1>2
<1>4. n = 0 \/ n - 1 \in got
  <2> SUFFICES ASSUME n # 0, n - 1 \notin got PROVE FALSE
    OBVIOUS
  <2>1. ASSUME NEW s \in got PROVE s < n - 1
    <3>1. s \in Nat /\ s < n /\ s # n - 1
      BY <1>2
    <3> QED
      BY <1>3, <3>1
  <2>2. n - 1 \in T
    BY <1>3, <2>1
  <2> QED
    BY <1>2, <1>3, <2>2
<1>5. Is(n)
  BY <1>4
<1>6. InitCount(got) = CHOOSE m \in 0..kMaxDrives : Is(m)
  BY DEF InitCount
<1> HIDE DEF Is
<1>7. InitCount(got) \in 0..kMaxDrives /\ Is(InitCount(got))
  BY <1>3, <1>5, <1>6
<1> QED
  BY <1>7 DEF Is

LEMMA RestartStep == ASSUME IInv, Restart PROVE IInv'
<1> USE SlotNumbers, NoneHasNoVolume
<1>1. /\ Drives /\ Queue /\ SidesAgree /\ Handles /\ Names
      /\ slots \in [Slots -> {None} \cup Volumes] /\ mounts \in 0..MaxMounts
      /\ ToSet(pending) \subseteq Mounted /\ Mounted \subseteq Slots
  BY DEF IInv, Core, Drives, Queue, Mounted
<1>2. PICK got \in SUBSET ToSet(pending) :
      /\ vcb' = InitVCBs(got) /\ driveCount' = InitCount(got) /\ ejected' = FALSE /\ defVCB' = None
      /\ fcb' = [i \in FCBs |-> None] /\ unseen' = {} /\ pending' = <<>>
      /\ apart' = Mounted \ got
      /\ UNCHANGED <<slots, wdTable, defaultWD, rootWD, nextWD, mounts>>
  BY DEF Restart
<1>3. driveCount' \in 0..kMaxDrives /\ \A s \in got : s < driveCount'
  BY <1>1, <1>2, CountOfQueue
<1>4. \A s \in Slots : vcb'[s] = IF s \in got
                                 THEN [slot |-> s, vol |-> slots[s].vol] ELSE None
  BY <1>2 DEF InitVCBs
<1>5. ASSUME NEW s \in Slots
      PROVE  /\ vcb'[s] \in VCBs /\ vcb'[s].vol <= mounts
             /\ vcb'[s] # None => vcb'[s].slot = s /\ s < driveCount'
             /\ s \in got => vcb'[s].vol = slots[s].vol
             /\ s \notin got => vcb'[s] = None
  <2>1. CASE s \in got
    <3>1. slots[s] # None /\ slots[s].vol <= mounts
      BY <1>1, <2>1 DEF Mounted, Drives
    <3>2. slots[s].vol \in 1..MaxMounts
      BY <1>1, <3>1, VolumeFacts
    <3>3. vcb'[s] = [slot |-> s, vol |-> slots[s].vol]
      BY <1>4, <2>1
    <3>4. vcb'[s].vol = slots[s].vol /\ vcb'[s].slot = s
      BY <3>3
    <3>5. vcb'[s] \in VCBs
      BY <3>2, <3>3 DEF VCBs
    <3> QED
      BY <1>3, <2>1, <3>1, <3>4, <3>5
  <2>2. CASE s \notin got
    <3>1. vcb'[s] = None
      BY <1>4, <2>2
    <3>2. None \in VCBs /\ None.vol <= mounts
      BY <1>1 DEF VCBs
    <3> QED
      BY <2>2, <3>1, <3>2
  <2> QED
    BY <2>1, <2>2
<1>6. Drives'
  <2>1. vcb' \in [Slots -> VCBs]
    BY <1>2, <1>5 DEF InitVCBs
  <2> QED
    BY <1>1, <1>2, <1>3, <1>5, <2>1 DEF Drives, Mounted
<1>7. Queue'
  <2>1. ToSet(<<>>) = {} /\ Len(<<>>) = 0 /\ <<>> \in Seq(Slots)
    BY DEF ToSet
  <2>2. \A i, j \in 1..0 : pending'[i] = pending'[j] => i = j
    OBVIOUS
  <2> QED
    BY <1>2, <2>1, <2>2 DEF Queue
<1>8. SidesAgree'
  <2>1. Mounted' = Mounted
    BY <1>2 DEF Mounted
  <2> QED
    BY <1>1, <1>2, <1>5, <2>1 DEF SidesAgree
<1>9. Handles'
  <2>1. fcb' \in [FCBs -> {None} \cup Files] /\ \A i \in FCBs : fcb'[i] = None
    BY <1>2
  <2> QED
    BY <2>1 DEF Handles, Seen, Live, FCBs, Files, VCBs, Slots
<1>10. Names'
  <2>1. None \in VCBs
    BY DEF VCBs
  <2> QED
    BY <1>1, <1>2, <2>1 DEF Names
<1> QED
  BY <1>6, <1>7, <1>8, <1>9, <1>10 DEF IInv, Core

-----------------------------------------------------------------------------
(* The guest: working directories and the default volume. *)

LEMMA SlotsNamed ==
    ASSUME Names, NEW r
    PROVE  SlotOf(r) \in Slots \cup {-1}
BY SlotNumbers DEF SlotOf, slotFromVRefNum, wdToSlot, Names, Mounted

(* The number and the name of a new working directory. *)
LEMMA DirectoryOpened ==
    ASSUME IInv, NEW slot \in Slots, UNCHANGED slots, openWD(slot)
    PROVE  /\ nextWD \in 1..MaxWD /\ nextWD' \in 1..(MaxWD + 1)
           /\ DOMAIN wdTable' \subseteq 1..(nextWD' - 1)
           /\ \A r \in DOMAIN wdTable' : wdTable'[r] \in [slot : Slots, vol : 0..MaxMounts]
<1>1. /\ nextWD \in 1..(MaxWD + 1) /\ nextWD <= MaxWD /\ nextWD' = nextWD + 1
      /\ DOMAIN wdTable \subseteq 1..(nextWD - 1)
      /\ \A r \in DOMAIN wdTable : wdTable[r] \in [slot : Slots, vol : 0..MaxMounts]
      /\ wdTable' = [r \in DOMAIN wdTable \cup {nextWD} |->
                       IF r = nextWD THEN [slot |-> slot, vol |-> slots[slot].vol] ELSE wdTable[r]]
  BY DEF IInv, Names, openWD
<1>2. slots[slot].vol \in 0..MaxMounts
  BY VolumeFacts DEF IInv, Core, Drives
<1> QED
  BY <1>1, <1>2, SlotNumbers

LEMMA OpenWDStep == ASSUME IInv, NEW r, OpenWD(r) PROVE IInv'
<1>1. /\ SlotOf(r) \in Slots /\ openWD(SlotOf(r))
      /\ UNCHANGED <<slots, pending, defaultWD, rootWD, mounts, vcb, driveCount, ejected, defVCB, fcb>>
      /\ UNCHANGED <<apart, unseen>>
  BY SlotsNamed, SlotNumbers DEF OpenWD, history, IInv
<1>2. Core'
  BY <1>1, CoreStays DEF IInv
<1>3. Names'
  BY <1>1, DirectoryOpened DEF Names, IInv
<1> QED
  BY <1>2, <1>3 DEF IInv

LEMMA CloseWDStep == ASSUME IInv, NEW r, CloseWD(r) PROVE IInv'
<1>1. /\ wdTable' = [w \in DOMAIN wdTable \ {DecodeGuestWDRef(r)} |-> wdTable[w]]
      /\ UNCHANGED <<slots, pending, defaultWD, rootWD, nextWD, mounts, vcb, driveCount, ejected, defVCB, fcb>>
      /\ UNCHANGED <<apart, unseen>>
  BY DEF CloseWD, history, guestVars
<1>2. Core'
  BY <1>1, CoreStays DEF IInv
<1>3. Names'
  BY <1>1 DEF Names, IInv
<1> QED
  BY <1>2, <1>3 DEF IInv

(* A default volume of ours, or the one before. *)
LEMMA DefaultSet ==
    ASSUME IInv, NEW slot \in Slots, SetDefault(slot)
    PROVE  /\ Core' /\ defVCB' \in VCBs /\ UNCHANGED <<slots, rootWD, ejected>>
<1>1. UNCHANGED <<slots, pending, vcb, driveCount, fcb, apart, unseen, mounts, rootWD, ejected>>
  BY DEF SetDefault, history
<1>2. Core'
  BY <1>1, CoreStays DEF IInv
<1>3. defVCB' \in VCBs
  BY DEF SetDefault, IInv, Core, Drives, Names
<1> QED
  BY <1>1, <1>2, <1>3

LEMMA SlotsSet ==
    ASSUME IInv, NEW r, NEW slot \in IF r = 0 THEN Mounted ELSE {SlotOf(r)}, slot >= 0
    PROVE  slot \in Slots
BY SlotsNamed, SlotNumbers DEF IInv, Mounted

LEMMA SetVolStep == ASSUME IInv, NEW r, SetVol(r) PROVE IInv'
<1>1. PICK slot \in IF r = 0 THEN Mounted ELSE {SlotOf(r)} :
         /\ slot >= 0 /\ SetDefault(slot)
         /\ defaultWD' = rootWD[slot] /\ UNCHANGED <<wdTable, nextWD>>
  BY DEF SetVol
<1>2. slot \in Slots
  BY <1>1, SlotsSet
<1> QED
  BY <1>1, <1>2, DefaultSet DEF IInv, Names

LEMMA SetVolDirStep == ASSUME IInv, NEW r, SetVolDir(r) PROVE IInv'
<1>1. PICK slot \in IF r = 0 THEN Mounted ELSE {SlotOf(r)} :
         slot >= 0 /\ SetDefault(slot) /\ openWD(slot) /\ defaultWD' = nextWD
  BY DEF SetVolDir
<1>2. slot \in Slots
  BY <1>1, SlotsSet
<1>3. /\ Core' /\ defVCB' \in VCBs /\ UNCHANGED <<slots, rootWD, ejected>>
  BY <1>1, <1>2, DefaultSet
<1>4. Names'
  BY <1>1, <1>2, <1>3, DirectoryOpened, SlotNumbers DEF IInv, Names
<1> QED
  BY <1>3, <1>4 DEF IInv

LEMMA SetVolWDStep == ASSUME IInv, NEW r, SetVolWD(r) PROVE IInv'
<1>1. /\ SlotOf(r) \in Slots /\ SetDefault(SlotOf(r))
      /\ defaultWD' = IF DecodeGuestWDRef(r) \in DOMAIN wdTable
                      THEN DecodeGuestWDRef(r) ELSE rootWD[SlotOf(r)]
      /\ UNCHANGED <<wdTable, nextWD>>
  BY SlotsNamed, SlotNumbers DEF SetVolWD, IInv
<1>2. /\ Core' /\ defVCB' \in VCBs /\ UNCHANGED <<slots, rootWD, ejected>>
  BY <1>1, DefaultSet
<1>3. defaultWD' \in 0..MaxWD
  <2> DEFINE w == DecodeGuestWDRef(r)
             root == rootWD[SlotOf(r)]
  <2>1. root \in 0..MaxWD
    BY <1>1 DEF IInv, Names
  <2>2. w \in DOMAIN wdTable => w \in 0..MaxWD
    <3>1. DOMAIN wdTable \subseteq 1..(nextWD - 1) /\ nextWD \in 1..(MaxWD + 1) /\ MaxWD \in Nat
      BY SlotNumbers DEF IInv, Names
    <3> HIDE DEF w
    <3> QED
      BY <3>1
  <2>3. defaultWD' = IF w \in DOMAIN wdTable THEN w ELSE root
    BY <1>1
  <2> HIDE DEF w, root
  <2> QED
    BY <2>1, <2>2, <2>3
<1> QED
  BY <1>1, <1>2, <1>3 DEF IInv, Names

LEMMA SetVolElsewhereStep == ASSUME IInv, SetVolElsewhere PROVE IInv'
<1>1. /\ defVCB' = None
      /\ UNCHANGED <<slots, pending, wdTable, defaultWD, rootWD, nextWD, mounts>>
      /\ UNCHANGED <<vcb, driveCount, ejected, fcb, apart, unseen>>
  BY DEF SetVolElsewhere, hostVars, history
<1>2. Core'
  BY <1>1, CoreStays DEF IInv
<1>3. None \in VCBs
  BY DEF VCBs
<1> QED
  BY <1>1, <1>2, <1>3 DEF IInv, Names

-----------------------------------------------------------------------------
(* The guest: files. *)

LEMMA OpenStep == ASSUME IInv, NEW r, Open(r) PROVE IInv'
<1> USE SlotNumbers, NoneHasNoVolume
<1> DEFINE slot == volumeFromPB(r)
           v == slots[slot]
           local == v.nextHandle
           forks == IF Free # {} THEN v.forks \cup {local} ELSE v.forks
           file == [vcb |-> vcb[slot], slot |-> slot, local |-> local, vol |-> v.vol]
           first == CHOOSE i \in Free : \A j \in Free : i <= j
<1>1. /\ slot \in Mounted
      /\ slots' = [slots EXCEPT ![slot] = [v EXCEPT !.nextHandle = local + 1, !.forks = forks]]
      /\ \/ Free = {} /\ fcb' = fcb /\ unseen' = unseen
         \/ /\ Free # {} /\ fcb' = [fcb EXCEPT ![first] = file]
            /\ unseen' = IF vcb[slot] = None THEN unseen \cup {slot} ELSE unseen
      /\ UNCHANGED <<pending, wdTable, defaultWD, rootWD, nextWD, mounts>>
      /\ UNCHANGED <<vcb, driveCount, ejected, defVCB, apart>>
  BY DEF Open, AllocFCB
<1>2. /\ Drives /\ Queue /\ SidesAgree /\ Handles /\ Names
      /\ slots \in [Slots -> {None} \cup Volumes] /\ mounts \in 0..MaxMounts
      /\ vcb \in [Slots -> VCBs] /\ unseen \subseteq Slots
      /\ fcb \in [FCBs -> {None} \cup Files]
  BY DEF IInv, Core, Drives, Handles
<1> HIDE DEF slot, first
<1>3. /\ slot \in Slots /\ v # None /\ v \in Volumes /\ v.vol \in 0..MaxMounts
      /\ local \in Nat \ {0} /\ v.forks \subseteq 1..(local - 1) /\ v.vol <= mounts
  <2>1. slot \in Slots /\ v # None
    BY <1>1 DEF Mounted
  <2>2. v \in Volumes /\ v.vol \in 0..MaxMounts
    BY <1>2, <2>1, VolumeFacts
  <2>3. local \in Nat \ {0}
    BY <2>2 DEF Volumes
  <2> QED
    BY <1>1, <1>2, <2>1, <2>2, <2>3 DEF Drives
<1> HIDE DEF v
<1>4. /\ slots'[slot] = [v EXCEPT !.nextHandle = local + 1, !.forks = forks]
      /\ \A s \in Slots \ {slot} : slots'[s] = slots[s]
  BY <1>1, <1>2, <1>3
<1>5. /\ forks \in SUBSET Nat /\ v.forks \subseteq forks /\ forks \subseteq 1..local
      /\ local + 1 \in Nat \ {0} /\ (local + 1) - 1 = local
  BY <1>3
<1>6. /\ slots'[slot] \in Volumes /\ slots'[slot].vol = v.vol
      /\ slots'[slot].forks = forks /\ slots'[slot].nextHandle = local + 1
      /\ slots'[slot] # None
  <2> HIDE DEF forks
  <2>1. slots'[slot] \in Volumes /\ slots'[slot].vol = v.vol
    BY <1>3, <1>4, <1>5 DEF Volumes
  <2>2. slots'[slot].forks = forks /\ slots'[slot].nextHandle = local + 1
    BY <1>3, <1>4 DEF Volumes
  <2>3. slots'[slot] # None
    BY <1>2, <1>3, <2>1, VolumeFacts
  <2> QED
    BY <2>1, <2>2, <2>3
<1>7. slots' \in [Slots -> {None} \cup Volumes]
  <2>1. slots' = [s \in Slots |-> slots'[s]]
    BY <1>1, <1>2
  <2>2. \A s \in Slots : slots'[s] \in {None} \cup Volumes
    BY <1>2, <1>4, <1>6
  <2> QED
    BY <2>1, <2>2
<1>8. \A s \in Slots : slots'[s].vol = slots[s].vol /\ (slots'[s] # None <=> slots[s] # None)
  BY <1>3, <1>4, <1>6 DEF v
<1>9. Mounted' = Mounted
  BY <1>8 DEF Mounted
<1>10. Drives'
  <2>1. unseen' \subseteq Slots
    BY <1>1, <1>2, <1>3
  <2>2. ASSUME NEW s \in Slots, s \in Mounted
        PROVE  slots'[s].forks \subseteq 1..(slots'[s].nextHandle - 1)
    <3>1. CASE s = slot
      BY <1>5, <1>6, <3>1
    <3>2. CASE s # slot
      BY <1>2, <1>4, <2>2, <3>2 DEF Drives
    <3> QED
      BY <3>1, <3>2
  <2>3. \A s \in Slots : /\ slots[s].vol <= mounts /\ vcb[s].vol <= mounts
                         /\ vcb[s] # None => vcb[s].slot = s /\ s < driveCount
    BY <1>2 DEF Drives
  <2>4. \A s \in Slots : /\ slots'[s].vol <= mounts' /\ vcb'[s].vol <= mounts'
                         /\ vcb'[s] # None => vcb'[s].slot = s /\ s < driveCount'
    BY <1>1, <1>8, <2>3
  <2>5. /\ vcb' \in [Slots -> VCBs] /\ mounts' \in 0..MaxMounts /\ driveCount' \in 0..kMaxDrives
        /\ apart' \subseteq Slots
    BY <1>1, <1>2 DEF Drives
  <2> QED
    BY <1>7, <1>9, <2>1, <2>2, <2>4, <2>5 DEF Drives
<1>11. Queue' /\ SidesAgree'
  <2>1. pending' = pending /\ vcb' = vcb /\ apart' = apart
    BY <1>1
  <2>2. Queue'
    BY <1>2, <1>9, <2>1 DEF Queue
  <2>3. SidesAgree'
    BY <1>2, <1>8, <1>9, <2>1 DEF SidesAgree
  <2> QED
    BY <2>2, <2>3
<1>12. Names'
  BY <1>1, <1>2, NamesStay
<1>13. ASSUME NEW i \in FCBs, Seen(fcb[i])', fcb'[i] = fcb[i]
       PROVE  /\ Seen(fcb[i]) /\ FileInv(fcb[i])' /\ fcb[i].slot \in Slots
              /\ FileInv(fcb[i]) /\ (Live(fcb[i])' => Live(fcb[i]))
  <2> DEFINE f == fcb[i]
             s == f.slot
  <2>1. unseen \subseteq unseen'
    BY <1>1
  <2>2. Seen(f)
    BY <1>13, <2>1 DEF Seen
  <2>3. s \in Slots /\ FileInv(f)
    BY <1>2, <2>2, FileTypes
  <2>4. slots[s].forks \subseteq slots'[s].forks
    BY <1>4, <1>5, <1>6, <2>3 DEF v
  <2>5. Live(f)' => Live(f)
    BY <1>1, <1>13, <2>2 DEF Live
  <2>6. slots'[s].vol = slots[s].vol /\ UNCHANGED <<vcb, apart, mounts>> /\ fcb'[i] = f
    BY <1>1, <1>8, <1>13, <2>3
  <2>7. FileInv(f)'
    BY <2>3, <2>4, <2>6 DEF FileInv
  <2> QED
    BY <2>2, <2>3, <2>5, <2>7
<1>14. CASE Free = {}
  <2>1. fcb' = fcb
    BY <1>1, <1>14
  <2>2. \A i \in FCBs : Seen(fcb[i])' => FileInv(fcb[i])'
    BY <1>13, <2>1
  <2>3. ASSUME NEW i \in FCBs, NEW j \in FCBs, Live(fcb[i])', Live(fcb[j])',
               fcb[i].slot = fcb[j].slot, fcb[i].slot \notin apart, fcb[i].local = fcb[j].local
        PROVE  i = j
    <3>1. Live(fcb[i]) /\ Live(fcb[j])
      BY <1>13, <2>1, <2>3 DEF Live
    <3> QED
      BY <1>2, <2>3, <3>1 DEF Handles
  <2>4. (fcb \in [FCBs -> {None} \cup Files])'
    BY <1>2, <2>1 DEF FCBs, Files, VCBs, Slots
  <2>5. Handles'
    BY <1>1, <2>1, <2>2, <2>3, <2>4 DEF Handles
  <2> QED
    BY <1>10, <1>11, <1>12, <2>5 DEF IInv, Core
<1>15. CASE Free # {}
  <2>1. /\ \A i \in FCBs : fcb'[i] = IF i = first THEN file ELSE fcb[i]
        /\ unseen' = IF vcb[slot] = None THEN unseen \cup {slot} ELSE unseen
    BY <1>1, <1>2, <1>15
  <2>2. file \in Files
    BY <1>2, <1>3 DEF Files
  <2>3. (fcb \in [FCBs -> {None} \cup Files])'
    <3>1. fcb' \in [FCBs -> {None} \cup Files]
      BY <1>1, <1>2, <1>15, <2>2
    <3> QED
      BY <3>1 DEF FCBs, Files, VCBs, Slots
  <2>4. file.vcb = vcb[slot] /\ file.slot = slot /\ file.local = local /\ file.vol = v.vol
    OBVIOUS
  <2> HIDE DEF file
  <2>5. ASSUME NEW i \in FCBs, Seen(fcb[i])', fcb'[i] = file PROVE FileInv(fcb[i])'
    <3>1. slot \notin unseen'
      BY <2>4, <2>5 DEF Seen
    <3>2. vcb[slot] # None /\ vcb'[slot] = vcb[slot]
      BY <1>1, <2>1, <3>1
    <3>3. vcb[slot].slot = slot /\ vcb[slot].vol <= mounts'
      BY <1>1, <1>2, <1>3, <3>2 DEF Drives
    <3>4. slots'[slot].vol = v.vol /\ local \in slots'[slot].forks
      BY <1>6, <1>15
    <3> QED
      BY <2>4, <2>5, <3>2, <3>3, <3>4 DEF FileInv
  <2>6. \A i \in FCBs : Seen(fcb[i])' => FileInv(fcb[i])'
    BY <1>13, <2>1, <2>5
  <2>7. ASSUME NEW i \in FCBs, fcb'[i] = fcb[i], Live(fcb[i])', fcb[i].slot = slot, slot \notin apart
        PROVE  fcb[i].local # local
    <3>1. FileInv(fcb[i]) /\ Live(fcb[i])
      BY <1>13, <2>7 DEF Live
    <3>2. fcb[i].local \in v.forks
      BY <2>7, <3>1 DEF FileInv, Live, v
    <3> QED
      BY <1>3, <3>2
  <2>8. ASSUME NEW i \in FCBs, NEW j \in FCBs, Live(fcb[i])', Live(fcb[j])',
               fcb'[i].slot = fcb'[j].slot, fcb'[i].slot \notin apart,
               fcb'[i].local = fcb'[j].local
        PROVE  i = j
    <3>1. CASE i = first /\ j # first
      BY <2>1, <2>4, <2>7, <2>8, <3>1
    <3>2. CASE i # first /\ j = first
      BY <2>1, <2>4, <2>7, <2>8, <3>2
    <3>3. CASE i # first /\ j # first
      <4>1. fcb'[i] = fcb[i] /\ fcb'[j] = fcb[j]
        BY <2>1, <3>3
      <4>2. Live(fcb[i]) /\ Live(fcb[j])
        BY <1>13, <2>8, <4>1 DEF Live
      <4> QED
        BY <1>2, <2>8, <4>1, <4>2 DEF Handles
    <3> QED
      BY <3>1, <3>2, <3>3
  <2>9. Handles'
    BY <1>1, <2>3, <2>6, <2>8 DEF Handles
  <2> QED
    BY <1>10, <1>11, <1>12, <2>9 DEF IInv, Core
<1> QED
  BY <1>14, <1>15

(* The file that was not opened makes no claim. *)
LEMMA OpenNothingStep == ASSUME IInv, NEW r, OpenNothing(r) PROVE IInv'
<1> USE SlotNumbers, NoneHasNoVolume
<1> DEFINE file == [vcb |-> vcb[0], slot |-> 0, local |-> 0, vol |-> 0]
           first == CHOOSE i \in Free : \A j \in Free : i <= j
<1>1. /\ fcb' = [fcb EXCEPT ![first] = file]
      /\ UNCHANGED <<slots, pending, wdTable, defaultWD, rootWD, nextWD, mounts>>
      /\ UNCHANGED <<vcb, driveCount, ejected, defVCB, apart, unseen>>
  BY DEF OpenNothing, AllocFCB, hostVars, history
<1>2. /\ Drives /\ Queue /\ SidesAgree /\ Handles /\ Names
      /\ fcb \in [FCBs -> {None} \cup Files] /\ vcb \in [Slots -> VCBs]
  BY DEF IInv, Core, Drives, Handles
<1> HIDE DEF first
<1>3. file \in Files /\ file.local = 0
  <2>1. vcb[0] \in VCBs
    BY <1>2
  <2> QED
    BY <2>1 DEF Files
<1> HIDE DEF file
<1>4. \A i \in FCBs : fcb'[i] = IF i = first THEN file ELSE fcb[i]
  BY <1>1, <1>2
<1>5. ASSUME NEW i \in FCBs, Seen(fcb[i])' PROVE fcb'[i] = fcb[i] /\ Seen(fcb[i])
  <2>1. fcb'[i] # file
    BY <1>3, <1>5 DEF Seen
  <2> QED
    BY <1>1, <1>4, <1>5, <2>1 DEF Seen
<1>6. ASSUME NEW i \in FCBs, Seen(fcb[i])' PROVE FileInv(fcb[i])'
  <2>1. fcb'[i] = fcb[i] /\ FileInv(fcb[i])
    BY <1>2, <1>5, <1>6 DEF Handles
  <2> QED
    BY <1>1, <2>1 DEF FileInv
<1>7. ASSUME NEW i \in FCBs, NEW j \in FCBs, Live(fcb[i])', Live(fcb[j])',
             fcb'[i].slot = fcb'[j].slot, fcb'[i].slot \notin apart,
             fcb'[i].local = fcb'[j].local
      PROVE  i = j
  <2>1. Seen(fcb[i])' /\ Seen(fcb[j])'
    BY <1>7 DEF Live
  <2>2. fcb'[i] = fcb[i] /\ fcb'[j] = fcb[j] /\ Seen(fcb[i]) /\ Seen(fcb[j])
    BY <1>5, <2>1
  <2>3. Live(fcb[i]) /\ Live(fcb[j])
    BY <1>1, <1>7, <2>2 DEF Live
  <2> QED
    BY <1>2, <1>7, <2>2, <2>3 DEF Handles
<1>8. (fcb \in [FCBs -> {None} \cup Files])'
  <2>1. fcb' \in [FCBs -> {None} \cup Files]
    BY <1>1, <1>2, <1>3
  <2> QED
    BY <2>1 DEF FCBs, Files, VCBs, Slots
<1>9. Handles'
  BY <1>1, <1>6, <1>7, <1>8 DEF Handles
<1>10. Drives' /\ Queue' /\ SidesAgree'
  BY <1>1, <1>2 DEF Drives, Queue, SidesAgree, Mounted
<1> QED
  BY <1>1, <1>2, <1>9, <1>10, NamesStay DEF IInv, Core

(* A file closes its own fork and no other file's. *)
LEMMA CloseStep == ASSUME IInv, NEW i \in FCBs, Close(i) PROVE IInv'
<1> USE SlotNumbers, NoneHasNoVolume
<1> DEFINE f == fcb[i]
           slot == f.slot
           v == slots[slot]
           closed == ForkClosed(v, f.local)
<1>1. /\ f # None /\ (\E s \in 0..(driveCount - 1) : vcb[s] = f.vcb)
      /\ slots' = [slots EXCEPT ![slot] = closed]
      /\ fcb' = [fcb EXCEPT ![i] = None]
      /\ UNCHANGED <<pending, wdTable, defaultWD, rootWD, nextWD, mounts>>
      /\ UNCHANGED <<vcb, driveCount, ejected, defVCB, apart, unseen>>
  <2>1. /\ IsOurFCB(i)
        /\ slots' = [slots EXCEPT ![slot] = closed]
        /\ fcb' = [fcb EXCEPT ![i] = None]
        /\ UNCHANGED <<pending, wdTable, defaultWD, rootWD, nextWD, mounts>>
        /\ UNCHANGED <<vcb, driveCount, ejected, defVCB, apart, unseen>>
    BY DEF Close, history
  <2>2. f # None /\ (\E s \in 0..(driveCount - 1) : vcb[s] = f.vcb)
    BY <2>1, Zenon DEF IsOurFCB
  <2> QED
    BY <2>1, <2>2
<1>2. /\ Drives /\ Queue /\ SidesAgree /\ Handles /\ Names
      /\ slots \in [Slots -> {None} \cup Volumes] /\ mounts \in 0..MaxMounts
      /\ vcb \in [Slots -> VCBs] /\ driveCount \in 0..kMaxDrives
      /\ fcb \in [FCBs -> {None} \cup Files]
  BY DEF IInv, Core, Drives, Handles
<1>3. f \in Files /\ slot \in Slots
  BY <1>1, <1>2 DEF Files
<1> HIDE DEF slot
<1>4. /\ \A s \in Slots : s # slot \/ v = None => slots'[s] = slots[s]
      /\ slots'[slot] = closed
  <2>1. v = None => closed = v
    BY DEF ForkClosed
  <2> HIDE DEF closed, f
  <2> QED
    BY <1>1, <1>2, <1>3, <2>1
<1>5. v # None => /\ v \in Volumes /\ slots'[slot] \in Volumes /\ slots'[slot].vol = v.vol
                  /\ slots'[slot].forks = v.forks \ {f.local}
                  /\ slots'[slot].nextHandle = v.nextHandle /\ slots'[slot] # None
  <2> SUFFICES ASSUME v # None
               PROVE  /\ v \in Volumes /\ slots'[slot] \in Volumes /\ slots'[slot].vol = v.vol
                      /\ slots'[slot].forks = v.forks \ {f.local}
                      /\ slots'[slot].nextHandle = v.nextHandle /\ slots'[slot] # None
    OBVIOUS
  <2>1. v \in Volumes
    BY <1>2, <1>3, VolumeFacts
  <2> HIDE DEF v, f
  <2>2. slots'[slot] = [v EXCEPT !.forks = v.forks \ {f.local}]
    BY <1>4, <2>1 DEF ForkClosed
  <2>3. /\ slots'[slot] \in Volumes /\ slots'[slot].vol = v.vol
        /\ slots'[slot].forks = v.forks \ {f.local}
        /\ slots'[slot].nextHandle = v.nextHandle
    BY <2>1, <2>2 DEF Volumes
  <2>4. slots'[slot] # None
    <3>1. v.vol # 0
      BY <2>1 DEF Volumes
    <3> QED
      BY <2>3, <3>1
  <2> QED
    BY <2>1, <2>3, <2>4
<1>6. /\ slots' \in [Slots -> {None} \cup Volumes]
      /\ \A s \in Slots : slots'[s].vol = slots[s].vol /\ (slots'[s] # None <=> slots[s] # None)
  <2>1. slots' = [s \in Slots |-> slots'[s]]
    BY <1>1, <1>2
  <2>2. \A s \in Slots : slots'[s] \in {None} \cup Volumes
    BY <1>2, <1>4, <1>5
  <2>3. \A s \in Slots : slots'[s].vol = slots[s].vol /\ (slots'[s] # None <=> slots[s] # None)
    BY <1>3, <1>4, <1>5
  <2> QED
    BY <2>1, <2>2, <2>3
<1>7. Mounted' = Mounted
  BY <1>6 DEF Mounted
<1>8. Drives'
  <2>1. ASSUME NEW s \in Slots, s \in Mounted
        PROVE  slots'[s].forks \subseteq 1..(slots'[s].nextHandle - 1)
    <3>1. slots[s].forks \subseteq 1..(slots[s].nextHandle - 1)
      BY <1>2, <2>1 DEF Drives
    <3>2. slots'[s].forks \subseteq slots[s].forks /\ slots'[s].nextHandle = slots[s].nextHandle
      BY <1>4, <1>5
    <3> QED
      BY <3>1, <3>2
  <2> QED
    BY <1>1, <1>2, <1>6, <1>7, <2>1 DEF Drives
<1>9. Queue' /\ SidesAgree'
  <2>1. pending' = pending /\ vcb' = vcb /\ apart' = apart
    BY <1>1
  <2>2. Queue'
    BY <1>2, <1>7, <2>1 DEF Queue
  <2>3. SidesAgree'
    BY <1>2, <1>6, <1>7, <2>1 DEF SidesAgree
  <2> QED
    BY <2>2, <2>3
<1>10. Names'
  BY <1>1, <1>2, NamesStay
<1>11. /\ \A j \in FCBs : fcb'[j] = IF j = i THEN None ELSE fcb[j]
       /\ (fcb \in [FCBs -> {None} \cup Files])'
  <2>1. fcb' \in [FCBs -> {None} \cup Files]
    BY <1>1, <1>2
  <2> QED
    BY <1>1, <1>2, <2>1 DEF FCBs, Files, VCBs, Slots
<1>12. ASSUME Seen(f) PROVE Live(f)
  <2>1. FileInv(f) /\ f.vcb # None /\ f.vcb.slot = slot
    BY <1>2, <1>12 DEF Handles, FileInv, slot
  <2>2. PICK s \in 0..(driveCount - 1) : vcb[s] = f.vcb
    BY <1>1
  <2>3. s \in Slots /\ vcb[s].slot = s
    BY <1>2, <2>1, <2>2 DEF Drives
  <2> QED
    BY <1>12, <2>1, <2>2, <2>3 DEF Live, slot
<1>13. ASSUME NEW j \in FCBs, Seen(fcb[j])'
       PROVE  /\ j # i /\ fcb'[j] = fcb[j] /\ Seen(fcb[j])
              /\ FileInv(fcb[j])' /\ (Live(fcb[j])' => Live(fcb[j]))
  <2> DEFINE g == fcb[j]
             s == g.slot
  <2>1. j # i /\ fcb'[j] = g
    BY <1>11, <1>13 DEF Seen
  <2>2. Seen(g)
    BY <1>1, <1>13, <2>1 DEF Seen
  <2>3. s \in Slots /\ FileInv(g)
    BY <1>2, <2>2, FileTypes
  <2>4. Live(g)' => Live(g)
    BY <1>1, <2>1, <2>2 DEF Live
  <2>5. ASSUME g.vcb = vcb[s], s \notin apart PROVE g.local \in slots'[s].forks
    <3>1. g.local \in slots[s].forks /\ Live(g)
      BY <2>2, <2>3, <2>5 DEF FileInv, Live
    <3>2. CASE s # slot \/ v = None
      BY <1>4, <2>3, <3>1, <3>2
    <3>3. CASE s = slot /\ v # None
      <4>1. g.local # f.local
        <5> SUFFICES ASSUME g.local = f.local PROVE FALSE
          OBVIOUS
        <5>1. Seen(f)
          BY <1>1, <2>2, <3>3 DEF Seen, slot
        <5>2. Live(f)
          BY <1>12, <5>1
        <5> QED
          BY <1>2, <2>1, <2>5, <3>1, <3>3, <5>2 DEF Handles, slot
      <4> QED
        BY <1>5, <3>1, <3>3, <4>1
    <3> QED
      BY <3>2, <3>3
  <2>6. slots'[s].vol = slots[s].vol /\ UNCHANGED <<vcb, apart, mounts>>
    BY <1>1, <1>6, <2>3
  <2>7. FileInv(g)'
    BY <2>1, <2>3, <2>5, <2>6 DEF FileInv
  <2> QED
    BY <2>1, <2>2, <2>4, <2>7
<1>14. ASSUME NEW j \in FCBs, NEW k \in FCBs, Live(fcb[j])', Live(fcb[k])',
              fcb'[j].slot = fcb'[k].slot, fcb'[j].slot \notin apart,
              fcb'[j].local = fcb'[k].local
       PROVE  j = k
  <2>1. Seen(fcb[j])' /\ Seen(fcb[k])'
    BY <1>14 DEF Live
  <2>2. fcb'[j] = fcb[j] /\ fcb'[k] = fcb[k] /\ Live(fcb[j]) /\ Live(fcb[k])
    BY <1>13, <1>14, <2>1
  <2> QED
    BY <1>2, <1>14, <2>2 DEF Handles
<1>15. Handles'
  BY <1>1, <1>11, <1>13, <1>14 DEF Handles
<1> QED
  BY <1>8, <1>9, <1>10, <1>15 DEF IInv, Core

-----------------------------------------------------------------------------
(* The invariant holds. *)

LEMMA InitStep == Init => IInv
<1> SUFFICES ASSUME Init PROVE IInv
  OBVIOUS
<1> USE SlotNumbers, NoneHasNoVolume
<1>1. /\ slots = [s \in Slots |-> None] /\ pending = <<>>
      /\ wdTable = <<>> /\ nextWD = 1 /\ defaultWD = 0 /\ rootWD = [s \in Slots |-> 0]
      /\ vcb = [s \in Slots |-> None] /\ driveCount = 0 /\ ejected = FALSE
      /\ defVCB = None /\ fcb = [i \in FCBs |-> None]
      /\ mounts = 0 /\ apart = {} /\ unseen = {}
  BY DEF Init
<1>2. None \in VCBs /\ Mounted = {} /\ 0 \in 0..MaxWD /\ 0 \in 0..MaxMounts /\ 0 \in 0..kMaxDrives
  BY <1>1 DEF VCBs, Mounted
<1>3. Drives
  BY <1>1, <1>2 DEF Drives
<1>4. Queue
  <2>1. ToSet(<<>>) = {} /\ Len(<<>>) = 0 /\ <<>> \in Seq(Slots)
    BY DEF ToSet
  <2> QED
    BY <1>1, <2>1 DEF Queue
<1>5. SidesAgree
  BY <1>1, <1>2 DEF SidesAgree
<1>6. Handles
  BY <1>1 DEF Handles, Seen, Live
<1>7. Names
  <2>1. DOMAIN wdTable = {}
    BY <1>1
  <2> QED
    BY <1>1, <1>2, <2>1 DEF Names
<1> QED
  BY <1>3, <1>4, <1>5, <1>6, <1>7 DEF IInv, Core

LEMMA StutterStep == ASSUME IInv, UNCHANGED vars PROVE IInv'
<1>1. /\ UNCHANGED <<slots, pending, wdTable, defaultWD, rootWD, nextWD, mounts>>
      /\ UNCHANGED <<vcb, driveCount, ejected, defVCB, fcb, apart, unseen>>
  BY DEF vars, hostVars, guestVars, history
<1> QED
  BY <1>1, CoreStays, NamesStay DEF IInv

LEMMA NextStep == IInv /\ [Next]_vars => IInv'
<1> SUFFICES ASSUME IInv, [Next]_vars PROVE IInv'
  OBVIOUS
<1>1. ASSUME Host PROVE IInv'
  BY <1>1, MountStep, ForceUnmountStep DEF Host
<1>2. ASSUME NEW r \in Refs,
             \/ UnmountVol(r) \/ Eject(r) \/ OpenWD(r) \/ CloseWD(r) \/ SetVol(r)
             \/ SetVolDir(r) \/ SetVolWD(r) \/ Open(r) \/ OpenNothing(r)
      PROVE  IInv'
  BY <1>2, UnmountVolStep, EjectStep, OpenWDStep, CloseWDStep, SetVolStep, SetVolDirStep,
     SetVolWDStep, OpenStep, OpenNothingStep, Zenon
<1>3. ASSUME Guest PROVE IInv'
  BY <1>2, <1>3, PollMountsStep, RestartStep, SetVolElsewhereStep, CloseStep DEF Guest
<1> QED
  BY <1>1, <1>3, StutterStep DEF Next

(* The inductive invariant holds in every state. *)
THEOREM Invariance == Spec => []IInv
BY InitStep, NextStep, PTL DEF Spec

(* What the variables hold. *)
THEOREM TypeCorrect == Spec => []TypeOK
<1>1. IInv => TypeOK
  <2> SUFFICES ASSUME IInv PROVE TypeOK
    OBVIOUS
  <2>1. \A s \in Mounted : /\ slots[s].vol \in 1..MaxMounts
                            /\ slots[s].forks \subseteq 1..(slots[s].nextHandle - 1)
    BY DEF IInv, Core, Drives, Mounted, Volumes
  <2>2. \A s \in Slots : vcb[s] \in VCBs /\ (s >= driveCount => vcb[s] = None)
    BY SlotNumbers DEF IInv, Core, Drives
  <2> QED
    BY <2>1, <2>2 DEF IInv, Core, Drives, Names, TypeOK
<1> QED
  BY <1>1, Invariance, PTL

(* Host and guest agree on the drives, over any number of mounts, unmounts   *)
(* by either side, polls and restarts.                                       *)
THEOREM SidesInStep == Spec => []SidesAgree
<1>1. IInv => SidesAgree
  BY DEF IInv, Core
<1> QED
  BY <1>1, Invariance, PTL

(* An open file of the guest reaches the fork that it was opened on, however *)
(* its slot and its number in the volume are reused.                         *)
THEOREM FilesReachTheirForks == Spec => []FilesKept
<1>1. IInv => FilesKept
  <2> SUFFICES ASSUME IInv, NEW i \in FCBs, IsOurFCB(i), fcb[i].local # 0,
                      fcb[i].slot \notin apart \cup unseen
               PROVE  /\ slots[fcb[i].slot].vol = fcb[i].vol
                      /\ fcb[i].local \in slots[fcb[i].slot].forks
    BY Zenon DEF FilesKept
  <2>1. Drives /\ Handles /\ Seen(fcb[i]) /\ FileInv(fcb[i])
    BY DEF IInv, Core, Handles, Seen, IsOurFCB
  <2>2. PICK s \in 0..(driveCount - 1) : vcb[s] = fcb[i].vcb
    BY DEF IsOurFCB
  <2>3. s \in Slots /\ vcb[s].slot = s
    BY <2>1, <2>2, SlotNumbers DEF Drives, FileInv
  <2>4. s = fcb[i].slot
    BY <2>1, <2>2, <2>3 DEF FileInv
  <2> QED
    BY <2>1, <2>2, <2>4 DEF FileInv
<1> QED
  BY <1>1, Invariance, PTL

(* A drive waits in the queue once at most, and is mounted while it does: an *)
(* unmount takes it out of the queue.                                        *)
THEOREM QueuedOnce ==
    Spec => [](/\ ToSet(pending) \subseteq Mounted
               /\ \A i, j \in DOMAIN pending : pending[i] = pending[j] => i = j)
<1>1. IInv => /\ ToSet(pending) \subseteq Mounted
              /\ \A i, j \in DOMAIN pending : pending[i] = pending[j] => i = j
  <2> SUFFICES ASSUME IInv
               PROVE  /\ ToSet(pending) \subseteq Mounted
                      /\ \A i, j \in DOMAIN pending : pending[i] = pending[j] => i = j
    OBVIOUS
  <2>1. Queue
    BY DEF IInv, Core
  <2>2. DOMAIN pending = 1..Len(pending)
    BY <2>1, LenProperties DEF Queue
  <2> QED
    BY <2>1, <2>2 DEF Queue
<1> QED
  BY <1>1, Invariance, PTL
=============================================================================
