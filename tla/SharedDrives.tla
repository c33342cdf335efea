---------------------------- MODULE SharedDrives ----------------------------
(***************************************************************************)
(* Shared drives: the slots of storage/drive_manager.cpp and the commands  *)
(* of core/extn_extfs.cpp on the host, and the volumes, files and traps of *)
(* the guest's INIT, macsrc/init/drive.c.                                  *)
(*                                                                         *)
(* A slot is reused as soon as its drive is unmounted, while numbers that  *)
(* name it live on: volume references, working directories, file handles.  *)
(* Every volume mounted has a number of its own here (vol), which the      *)
(* program does not have, to tell what such a name was made for.           *)
(* Directories are left out but for the root being one.                    *)
(***************************************************************************)
EXTENDS Integers, FiniteSets, SequencesExt

CONSTANTS
    kMaxDrives,     \* number of slots, 8 in the code
    kMaxFCBs,       \* number of the guest's file control blocks
    MaxMounts,      \* bound: drives mounted altogether
    MaxWD,          \* bound: working directories opened altogether
    MaxOpens,       \* bound: files opened on a volume
    MaxUpsets       \* bound: drives unmounted by the debugger, and restarts of the guest

ASSUME DrivesAssumption ==
    /\ kMaxDrives \in 1..8 /\ kMaxFCBs \in Nat /\ MaxMounts \in Nat /\ MaxWD \in Nat
    /\ MaxOpens \in Nat /\ MaxUpsets \in Nat

VARIABLES
    \* the host
    slots,       \* None, or [vol, forks, nextHandle]
    pending,     \* pendingMounts_
    wdTable,     \* wdRef -> [slot, vol]
    defaultWD,   \* defaultWD_
    rootWD,      \* rootWD_
    \* the guest
    vcb,         \* g->vcb: None, or [slot, vol]; a VCB is never freed
    driveCount, ejected,
    defVCB,      \* DefVCBPtr: None for a volume that is not ours
    fcb,         \* None, or [vcb, slot, local, vol]
    \* history
    nextWD, mounts, upsets,
    apart,       \* slots that the debugger, a restart or a lack of memory made differ
                 \* on both sides
    unseen       \* slots of whose volume a file was opened before the guest saw it

hostVars == <<slots, pending, wdTable, defaultWD, rootWD, nextWD, mounts>>
guestVars == <<vcb, driveCount, ejected, defVCB, fcb>>
history == <<upsets, apart, unseen>>
vars == <<hostVars, guestVars, history>>

Slots == 0..(kMaxDrives - 1)
FCBs == 1..kMaxFCBs
None == [vol |-> 0]
kBaseVRefNum == 32000
kBaseDriveNum == 8

-----------------------------------------------------------------------------
(* Names of volumes and of working directories. *)

Int16(i) == ((i + 32768) % 65536) - 32768
GuestVRefNum(slot) == -(kBaseVRefNum + slot)
EncodeGuestWDRef(wdRef) == Int16(-(wdRef + kBaseVRefNum))
DecodeGuestWDRef(vRefNum) == -vRefNum - kBaseVRefNum

Mounted == {s \in Slots : slots[s] # None}
slotFromVRefNum(vRefNum) ==
    LET slot == -vRefNum - kBaseVRefNum IN IF slot \in Mounted THEN slot ELSE -1
wdToSlot(wdRef) == IF wdRef \in DOMAIN wdTable THEN wdTable[wdRef].slot ELSE -1
\* DefVCBPtr is read from the guest's memory, also when that VCB is out of use
DefaultSlot == IF defVCB # None /\ defVCB.slot \in Mounted THEN defVCB.slot ELSE -1

\* kExtFSResolveVRefNum, PbOpenWD, PbSetVol: a volume before a working directory
SlotOf(vRefNum) ==
    LET slot == slotFromVRefNum(vRefNum)
    IN  IF slot >= 0 THEN slot ELSE wdToSlot(DecodeGuestWDRef(vRefNum))

\* volumeFromPB: a slot, -1 if the volume is not ours.  The slot of a working
\* directory may be empty: the volume is null then, and the error kNoErr
volumeFromPB(vRefNum) ==
    IF vRefNum = 0 THEN DefaultSlot
    ELSE IF vRefNum - kBaseDriveNum \in Mounted THEN vRefNum - kBaseDriveNum
    ELSE SlotOf(vRefNum)

-----------------------------------------------------------------------------
(* The host. *)

Init ==
    /\ slots = [s \in Slots |-> None] /\ pending = <<>>
    /\ wdTable = <<>> /\ nextWD = 1 /\ defaultWD = 0
    /\ rootWD = [s \in Slots |-> 0]
    /\ vcb = [s \in Slots |-> None] /\ driveCount = 0 /\ ejected = FALSE
    /\ defVCB = None /\ fcb = [i \in FCBs |-> None]
    /\ mounts = 0 /\ upsets = 0 /\ apart = {} /\ unseen = {}

openWD(slot) ==
    /\ nextWD <= MaxWD
    /\ wdTable' = [r \in DOMAIN wdTable \cup {nextWD} |->
                     IF r = nextWD THEN [slot |-> slot, vol |-> slots'[slot].vol] ELSE wdTable[r]]
    /\ nextWD' = nextWD + 1

\* --shared, a dropped folder, "drive mount"; a folder that cannot be read
\* leaves no trace
Mount ==
    LET slot == CHOOSE s \in Slots \ Mounted : \A t \in Slots \ Mounted : s <= t IN
    /\ mounts < MaxMounts /\ Mounted # Slots
    /\ mounts' = mounts + 1
    /\ slots' = [slots EXCEPT ![slot] = [vol |-> mounts', forks |-> {}, nextHandle |-> 1]]
    /\ openWD(slot)
    /\ rootWD' = [rootWD EXCEPT ![slot] = nextWD]
    /\ defaultWD' = IF Mounted = {} THEN nextWD ELSE defaultWD
    /\ pending' = Append(pending, slot)
    /\ UNCHANGED <<guestVars, history>>

unmountClears(slot) ==                                              \* (Mutant)
    /\ slots' = [slots EXCEPT ![slot] = None]
    /\ pending' = <<>>
    /\ UNCHANGED <<wdTable, defaultWD, rootWD, nextWD, mounts>>

\* std::erase; a slot is in the queue once at most
Dequeued(slot) ==
    IF slot \in ToSet(pending)
    THEN RemoveAt(pending, CHOOSE i \in DOMAIN pending : pending[i] = slot) ELSE pending

\* the working directories of the slot stay
unmount(slot) ==
    /\ slots' = [slots EXCEPT ![slot] = None]
    /\ pending' = Dequeued(slot)
    /\ UNCHANGED <<wdTable, defaultWD, rootWD, nextWD, mounts>>

\* "drive unmount": the guest is not told
ForceUnmount(slot) ==
    /\ slot \in Mounted /\ upsets < MaxUpsets
    /\ unmount(slot)
    /\ upsets' = upsets + 1
    /\ apart' = IF vcb[slot] # None THEN apart \cup {slot} ELSE apart \ {slot}
    /\ UNCHANGED <<guestVars, unseen>>

-----------------------------------------------------------------------------
(* The guest: drives come and go. *)

\* of the guest's VCBs and count; memory: the heap has room for a VCB
MountNewDriveAgain(g, slot, memory) ==                              \* (Mutant)
    [g EXCEPT !.vcb[slot] = [slot |-> slot, vol |-> slots[slot].vol],
              !.driveCount = slot + 1]

MountNewDrive(g, slot, memory) ==
    IF g.vcb[slot] # None \/ ~memory THEN g
    ELSE [g EXCEPT !.vcb[slot] = [slot |-> slot, vol |-> slots[slot].vol],
                   !.driveCount = IF slot >= @ THEN slot + 1 ELSE @]

PollMountsFront ==                                                  \* (Mutant)
    LET g == MountNewDrive([vcb |-> vcb, driveCount |-> driveCount], Head(pending), TRUE) IN
    /\ pending # <<>>
    /\ vcb' = g.vcb /\ driveCount' = g.driveCount
    /\ UNCHANGED <<hostVars, ejected, defVCB, fcb, history>>

\* the filter of the event loop: what it polls is off the queue, also when the
\* guest does not mount it
PollMounts ==
    \E memory \in BOOLEAN :
        LET slot == Head(pending)
            g == MountNewDrive([vcb |-> vcb, driveCount |-> driveCount], slot, memory)
        IN  /\ pending # <<>>
            /\ pending' = Tail(pending)
            /\ vcb' = g.vcb /\ driveCount' = g.driveCount
            /\ apart' = IF g.vcb[slot] = None THEN apart \cup {slot} ELSE apart
            /\ UNCHANGED <<slots, wdTable, defaultWD, rootWD, nextWD, mounts>>
            /\ UNCHANGED <<ejected, defVCB, fcb, upsets, unseen>>

\* what its INIT leaves: a VCB for every drive in the queue that there is memory
\* for, and the count that MountNewDrive makes of them
InitVCBs(got) == [s \in Slots |-> IF s \in got THEN [slot |-> s, vol |-> slots[s].vol] ELSE None]
InitCount(got) ==
    CHOOSE n \in 0..kMaxDrives : (\A s \in got : s < n) /\ (n = 0 \/ n - 1 \in got)

\* the Mac starts again
Restart ==
    \E got \in SUBSET ToSet(pending) :
        /\ upsets < MaxUpsets /\ upsets' = upsets + 1
        /\ vcb' = InitVCBs(got) /\ driveCount' = InitCount(got)
        /\ ejected' = FALSE /\ defVCB' = None
        /\ fcb' = [i \in FCBs |-> None] /\ unseen' = {}
        /\ pending' = <<>>
        /\ apart' = Mounted \ got
        /\ UNCHANGED <<slots, wdTable, defaultWD, rootWD, nextWD, mounts>>

FindVCB(vRefNum) ==
    LET ours == {s \in 0..(driveCount - 1) : vcb[s] # None}
        direct == {s \in ours : vRefNum \in {GuestVRefNum(s), kBaseDriveNum + s}}
        default == {s \in ours : vcb[s] = defVCB}
    IN  IF vRefNum = 0 THEN default
        ELSE IF direct # {} THEN direct
        ELSE {SlotOf(vRefNum)} \cap ours

TearDownKept(slot) == unmount(slot) /\ UNCHANGED <<vcb, apart>>     \* (Mutant)

TearDownSlot(slot) ==
    /\ vcb' = [vcb EXCEPT ![slot] = None]
    /\ apart' = apart \ {slot}
    /\ IF slot \in Mounted THEN unmount(slot) ELSE UNCHANGED hostVars

\* TrapUnmountVol, and TrapEject of a volume that is there; ejected is never cleared
UnmountVol(vRefNum) ==
    /\ ~ejected
    /\ \E slot \in FindVCB(vRefNum) :
        /\ TearDownSlot(slot)
        /\ ejected' = (\A s \in 0..(driveCount - 1) : vcb'[s] = None)
    /\ UNCHANGED <<driveCount, defVCB, fcb, upsets, unseen>>

\* TrapEject: also after the last drive went
Eject(vRefNum) ==
    /\ ejected
    /\ \E slot \in FindVCB(vRefNum) : TearDownSlot(slot)
    /\ UNCHANGED <<ejected, driveCount, defVCB, fcb, upsets, unseen>>

-----------------------------------------------------------------------------
(* The guest: working directories and the default volume. *)

OpenWD(vRefNum) ==
    /\ ~ejected /\ SlotOf(vRefNum) >= 0
    /\ UNCHANGED slots /\ openWD(SlotOf(vRefNum))
    /\ UNCHANGED <<pending, defaultWD, rootWD, mounts>>
    /\ UNCHANGED <<vcb, driveCount, ejected, defVCB, fcb, history>>

CloseWD(vRefNum) ==
    /\ ~ejected /\ DecodeGuestWDRef(vRefNum) \in DOMAIN wdTable
    /\ wdTable' = [r \in DOMAIN wdTable \ {DecodeGuestWDRef(vRefNum)} |-> wdTable[r]]
    /\ UNCHANGED <<slots, pending, defaultWD, rootWD, nextWD, mounts, guestVars, history>>

\* slot as PbSetVol found it, and TrapSetVol then writes DefVCBPtr
SetDefault(slot) ==
    /\ defVCB' = IF vcb[slot] # None THEN vcb[slot] ELSE defVCB
    /\ UNCHANGED <<slots, pending, rootWD, mounts>>
    /\ UNCHANGED <<vcb, driveCount, ejected, fcb, history>>

\* PBSetVol; a name is the one of a slot
SetVol(vRefNum) ==
    /\ ~ejected
    /\ \E slot \in IF vRefNum = 0 THEN Mounted ELSE {SlotOf(vRefNum)} :
        /\ slot >= 0
        /\ SetDefault(slot)
        /\ defaultWD' = rootWD[slot]
        /\ UNCHANGED <<wdTable, nextWD>>

\* PBHSetVol, of a directory below the root
SetVolDir(vRefNum) ==
    /\ ~ejected
    /\ \E slot \in IF vRefNum = 0 THEN Mounted ELSE {SlotOf(vRefNum)} :
        /\ slot >= 0
        /\ SetDefault(slot)
        /\ openWD(slot)
        /\ defaultWD' = nextWD

\* PBHSetVol without a directory: any working directory of that number
SetVolWD(vRefNum) ==
    /\ ~ejected /\ vRefNum # 0 /\ SlotOf(vRefNum) >= 0
    /\ SetDefault(SlotOf(vRefNum))
    /\ defaultWD' = IF DecodeGuestWDRef(vRefNum) \in DOMAIN wdTable
                    THEN DecodeGuestWDRef(vRefNum) ELSE rootWD[SlotOf(vRefNum)]
    /\ UNCHANGED <<wdTable, nextWD>>

\* SetVol to a volume of the ROM
SetVolElsewhere ==
    /\ defVCB # None /\ defVCB' = None
    /\ UNCHANGED <<hostVars, vcb, driveCount, ejected, fcb, history>>

-----------------------------------------------------------------------------
(* The guest: files. *)

Free == {i \in FCBs : fcb[i] = None}
AllocFCB(file) ==
    LET first == CHOOSE i \in Free : \A j \in Free : i <= j
    IN  fcb' = [fcb EXCEPT ![first] = file]
\* a handle is the slot and a number of the volume's
IsOurFCB(i) == fcb[i] # None /\ \E s \in 0..(driveCount - 1) : vcb[s] = fcb[i].vcb

\* TrapOpen of a file that is there; a handle that gets no FCB is closed
Open(vRefNum) ==
    LET slot == volumeFromPB(vRefNum)
        v == slots[slot]
        local == v.nextHandle
    IN  /\ ~ejected /\ slot \in Mounted
        /\ v.nextHandle <= MaxOpens
        /\ slots' = [slots EXCEPT ![slot].nextHandle = @ + 1,
                                  ![slot].forks = IF Free # {} THEN @ \cup {local} ELSE @]
        /\ IF Free = {} THEN UNCHANGED fcb
           ELSE AllocFCB([vcb |-> vcb[slot], slot |-> slot, local |-> local, vol |-> v.vol])
        /\ unseen' = IF Free # {} /\ vcb[slot] = None THEN unseen \cup {slot} ELSE unseen
        /\ UNCHANGED <<pending, wdTable, defaultWD, rootWD, nextWD, mounts>>
        /\ UNCHANGED <<vcb, driveCount, ejected, defVCB, upsets, apart>>

\* nothing is opened, kNoErr is returned: the handle is what the register held,
\* the address of the parameter block, which names slot 0
OpenNothing(vRefNum) ==
    /\ ~ejected /\ volumeFromPB(vRefNum) \in Slots \ Mounted
    /\ Free # {}
    /\ AllocFCB([vcb |-> vcb[0], slot |-> 0, local |-> 0, vol |-> 0])
    /\ UNCHANGED <<hostVars, vcb, driveCount, ejected, defVCB, history>>

\* the volume of a handle may be gone
ForkClosed(v, local) == IF v = None THEN v ELSE [v EXCEPT !.forks = @ \ {local}]

\* TrapClose
Close(i) ==
    /\ ~ejected /\ IsOurFCB(i)
    /\ slots' = [slots EXCEPT ![fcb[i].slot] = ForkClosed(@, fcb[i].local)]
    /\ fcb' = [fcb EXCEPT ![i] = None]
    /\ UNCHANGED <<pending, wdTable, defaultWD, rootWD, nextWD, mounts>>
    /\ UNCHANGED <<vcb, driveCount, ejected, defVCB, history>>

-----------------------------------------------------------------------------
\* what a program may name: the default, a volume that it sees, a working
\* directory that it opened or that GetVol gave it
Refs ==
    {0} \cup {EncodeGuestWDRef(r) : r \in 1..(nextWD - 1)}
        \cup UNION {{GuestVRefNum(s), kBaseDriveNum + s} : s \in {t \in Slots : vcb[t] # None}}

Guest ==
    \/ PollMounts \/ Restart \/ SetVolElsewhere
    \/ \E r \in Refs :
        \/ UnmountVol(r) \/ Eject(r)
        \/ OpenWD(r) \/ CloseWD(r)
        \/ SetVol(r) \/ SetVolDir(r) \/ SetVolWD(r)
        \/ Open(r) \/ OpenNothing(r)
    \/ \E i \in FCBs : Close(i)
Host == Mount \/ \E slot \in Slots : ForceUnmount(slot)
Next == Host \/ Guest

\* the guest's event loop goes on
Spec == Init /\ [][Next]_vars /\ WF_vars(PollMounts)

-----------------------------------------------------------------------------
(* Properties. *)

VCBs == {None} \cup [slot : Slots, vol : 1..MaxMounts]
TypeOK ==
    /\ \A s \in Mounted : /\ slots[s].vol \in 1..MaxMounts
                          /\ slots[s].forks \subseteq 1..(slots[s].nextHandle - 1)
    /\ \A r \in DOMAIN wdTable : wdTable[r] \in [slot : Slots, vol : 0..MaxMounts]
    /\ defaultWD \in 0..MaxWD /\ \A s \in Slots : rootWD[s] \in 0..MaxWD
    /\ \A s \in Slots : vcb[s] \in VCBs /\ (s >= driveCount => vcb[s] = None)
    /\ defVCB \in VCBs /\ driveCount \in 0..kMaxDrives /\ ejected \in BOOLEAN

(* Host and guest agree on the drives: one that is mounted is on its way to  *)
(* the guest or known to it, and one that the guest knows is mounted, over   *)
(* any reuse of slots.  The debugger's unmount, a restart of the guest and a *)
(* VCB that the guest has no memory for break this (apart).                  *)
SidesAgree ==
    \A s \in Slots \ apart :
        /\ s \in Mounted => s \in ToSet(pending) \/ vcb[s].vol = slots[s].vol
        /\ vcb[s] # None => slots[s].vol = vcb[s].vol

(* An open file that the guest takes for ours reaches, through its handle,   *)
(* the fork that it was opened on, though its slot was reused, and no other  *)
(* file's close takes the fork away.  Two kinds of files are left out.  Of a *)
(* slot that is apart, the guest's VCB lives on while another volume may be  *)
(* in the slot.  And a file opened before the guest saw the volume (unseen)  *)
(* has no VCB and is taken for ours as soon as any drive was unmounted: both *)
(* reach, and close, what their slot and number name then.                   *)
FilesKept ==
    \A i \in FCBs :
        LET f == fcb[i] IN
        IsOurFCB(i) /\ f.local # 0 /\ f.slot \notin apart \cup unseen =>
            slots[f.slot].vol = f.vol /\ f.local \in slots[f.slot].forks

(* A drive that is mounted comes to be known to the guest, or is unmounted   *)
(* first.  It does not if the slot is apart: if the guest still has a VCB    *)
(* there that the debugger's unmount left (MountNewDrive then drops the new  *)
(* drive), had no memory for one, or was restarted after it was told.        *)
Delivered ==
    \A v \in 1..MaxMounts :
        (\E s \in Mounted : slots[s].vol = v)
           ~> \/ \E s \in Slots : vcb[s].vol = v
              \/ \A s \in Mounted : slots[s].vol = v => s \in apart

(* The same without exceptions, as DriveManager::mount queues every drive.   *)
AlwaysDelivered ==
    \A v \in 1..MaxMounts :
        (\E s \in Mounted : slots[s].vol = v)
           ~> (\E s \in Slots : vcb[s].vol = v) \/ (\A s \in Mounted : slots[s].vol # v)

(* "they cannot collide with direct refs": the reference of a working        *)
(* directory names the volume that it was opened on, as long as that one is  *)
(* mounted.                                                                  *)
WDNamesItsVolume ==
    \A r \in DOMAIN wdTable :
        \A s \in Mounted : slots[s].vol = wdTable[r].vol => SlotOf(EncodeGuestWDRef(r)) = s

(* "Returns nullptr + sets errOut = kNotOursErr if the volume is not ours":  *)
(* a file that was opened has a fork.                                        *)
OpenedOnFork == \A i \in FCBs : fcb[i] # None => fcb[i].local # 0
=============================================================================
