----------------------------- MODULE HostVolume -----------------------------
(***************************************************************************)
(* storage/host_volume.cpp: a directory of the host shown to the guest as  *)
(* a volume.  A table gives catalogue node IDs to (directory, name) pairs  *)
(* and remembers a host path for each; a catalogue caches the entries of   *)
(* the directories the guest has looked at; open forks refer to IDs.  The  *)
(* host creates and deletes files behind the volume's back, and every two  *)
(* seconds the cache is dropped, except for entries with open forks.       *)
(*                                                                         *)
(* A host path is the sequence of file names below the mounted directory.  *)
(* An object is a file, with its sidecar, or a directory, of the host.  The*)
(* guest has other names than the host: of a host's name, what is left     *)
(* after the conversion to MacRoman and the cut to 31 characters, compared *)
(* without case, so that two host's names can be one of the guest's.  The  *)
(* catalogue is a vector, and its order matters: it is searched from the   *)
(* front, and pointers into it are held while it changes.                  *)
(***************************************************************************)
EXTENDS Naturals, FiniteSets, SequencesExt

CONSTANTS
    ForkTypes,     \* the forks that are opened, of "data" and "rsrc"
    Permissions,   \* "read": fsRdPerm, "write": fsCurPerm and fsWrPerm, "exclusive": fsRdWrPerm
    Names,         \* the host's names of files and directories
    MacName,       \* MacNameFromHost, cut and case-folded: host's name -> guest's name
    Given,         \* the names that the guest gives: [mac, host], as it will look for them, and
                   \* what HostNameFromMac makes of them
    Hidden,        \* the host's names that a scan skips: dot files, not representable
    InitialDisk,   \* the host's objects when the volume is mounted: path -> is it a directory
    MaxDepth,      \* bound: names in a path
    MaxChanges,    \* bound: changes to the disk, by the guest and by the host
    MaxHandles     \* bound: forks opened

ASSUME VolumeAssumption ==
    /\ ForkTypes \subseteq {"data", "rsrc"} /\ Permissions \subseteq {"read", "write", "exclusive"}
    /\ DOMAIN MacName = Names /\ \A g \in Given : g.host \in Names
    /\ Hidden \subseteq Names
    /\ MaxDepth \in Nat \ {0} /\ MaxChanges \in Nat /\ MaxHandles \in Nat
    /\ IsFiniteSet(DOMAIN InitialDisk)
    /\ \A p \in DOMAIN InitialDisk :
        /\ p \in BoundedSeq(Names, MaxDepth) \ {<<>>} /\ InitialDisk[p] \in BOOLEAN
        /\ Front(p) = <<>> \/ (Front(p) \in DOMAIN InitialDisk /\ InitialDisk[Front(p)])

VARIABLES
    disk,      \* the host: path -> [obj, dir]
    vol,       \* the volume: catalog, and forward, reverse, next, scanned of its CnidTable
    forks,     \* open forks: handle -> [cnid, fork, write, path, obj]
    handles,   \* handles given out
    objects,   \* objects ever made
    changes,   \* changes to the disk so far
    known,     \* history: the ID under which the guest first saw an object
    astray     \* history: paths and names have disagreed (PathsAgree), or a directory was
               \* named by an ID whose pair had been given to another

vars == <<disk, vol, forks, handles, objects, changes, known, astray>>

kRootDirID == 2
FirstCnid == 17    \* 16 is given to the root's own name when mounting
None == 0          \* no object

\* the map f after f[x] = y
Put(f, x, y) == [z \in DOMAIN f \cup {x} |-> IF z = x THEN y ELSE f[z]]
First(S) == IF S = {} THEN 0 ELSE Min(S)

MacNames == {MacName[n] : n \in Names} \cup {g.mac : g \in Given}
\* the guest's name for what the host has at path
MacNameOf(path) == MacName[Last(path)]

-----------------------------------------------------------------------------
(* The host's file system. *)

IsDir(dk, p) == p = <<>> \/ (p \in DOMAIN dk /\ dk[p].dir)
Below(p, q) == IsStrictPrefix(p, q)
IsChild(p, q) == Below(p, q) /\ Len(q) = Len(p) + 1
IsEmpty(dk, p) == \A q \in DOMAIN dk : ~Below(p, q)
ObjectAt(dk, p) == IF p \in DOMAIN dk THEN dk[p].obj ELSE None

With(dk, p, d) == Put(dk, p, [obj |-> objects + 1, dir |-> d])
Without(dk, p) == [q \in DOMAIN dk \ {p} |-> dk[q]]

\* fs::remove: a file or an empty directory; errors are ignored by the caller
Removed(dk, p) == IF p \in DOMAIN dk /\ IsEmpty(dk, p) THEN Without(dk, p) ELSE dk

\* the path of q after p was renamed to r
Redirected(p, r, q) == IF q = p \/ Below(p, q) THEN r \o SubSeq(q, Len(p) + 1, Len(q)) ELSE q

\* fs::rename replaces a file by a file and an empty directory by a directory
CanRename(dk, p, r) ==
    /\ p \in DOMAIN dk /\ r # <<>> /\ IsDir(dk, Front(r)) /\ ~Below(p, r)
    /\ r \in DOMAIN dk => dk[r].dir = dk[p].dir /\ (IsEmpty(dk, r) \/ r = p)
    /\ \A q \in DOMAIN dk : Len(Redirected(p, r, q)) <= MaxDepth
Renamed(dk, p, r) ==
    LET stay == {q \in DOMAIN dk : q # p /\ ~Below(p, q) /\ q # r}
        gone == {q \in DOMAIN dk : q = p \/ Below(p, q)}
    IN  [q \in stay \cup {Redirected(p, r, q) : q \in gone} |->
            IF q \in stay THEN dk[q] ELSE dk[CHOOSE g \in gone : Redirected(p, r, g) = q]]

-----------------------------------------------------------------------------
(* CnidTable. *)

\* CnidTable::resolve: the path is ignored if the pair has an ID already
ResolveNotCounted(v, dir, name, path) ==                           \* (Mutant)
    IF <<dir, name>> \in DOMAIN v.forward
    THEN v
    ELSE [v EXCEPT !.forward = Put(@, <<dir, name>>, v.next),
                   !.reverse = Put(@, v.next, [dir |-> dir, name |-> name, path |-> path])]
Resolve(v, dir, name, path) ==
    IF <<dir, name>> \in DOMAIN v.forward
    THEN v
    ELSE [v EXCEPT !.forward = Put(@, <<dir, name>>, v.next),
                   !.reverse = Put(@, v.next, [dir |-> dir, name |-> name, path |-> path]),
                   !.next = @ + 1]

\* CnidTable::updateKey: whatever the new pair meant before is overwritten
UpdateKeyKeepsOld(v, c, dir, name, path) ==                        \* (Mutant)
    [v EXCEPT !.forward = Put(@, <<dir, name>>, c),
              !.reverse[c] = [dir |-> dir, name |-> name, path |-> path]]
UpdateKey(v, c, dir, name, path) ==
    LET old == <<v.reverse[c].dir, v.reverse[c].name>>
        rest == [k \in DOMAIN v.forward \ {old} |-> v.forward[k]]
    IN  [v EXCEPT !.forward = Put(rest, <<dir, name>>, c),
                  !.reverse[c] = [dir |-> dir, name |-> name, path |-> path]]

\* resolveParentPath; a directory without an ID has no path
StoredPath(v, dir) ==
    IF dir = kRootDirID THEN {<<>>}
    ELSE IF dir \in DOMAIN v.reverse THEN {v.reverse[dir].path} ELSE {}

-----------------------------------------------------------------------------
(* The catalogue. *)

IndexOf(v, c) == First({i \in DOMAIN v.catalog : v.catalog[i].cnid = c})
InCatalog(v, c) == IndexOf(v, c) # 0
\* findByName's loop: 0 if there is none
Find(v, dir, name) ==
    First({i \in DOMAIN v.catalog : v.catalog[i].parent = dir /\ v.catalog[i].name = name})
ChildCount(v, dir) == Cardinality({i \in DOMAIN v.catalog : v.catalog[i].parent = dir})

\* erase and remove_if: what is left of cat are the entries at the indices in keep
Keeping(cat, keep) ==
    LET kept[i \in 0..Len(cat)] ==
            IF i = 0 THEN <<>>
            ELSE IF i \in keep THEN Append(kept[i - 1], cat[i]) ELSE kept[i - 1]
    IN  kept[Len(cat)]

\* what ensureScanned's loop does not skip of the host's directory
Listing(path) == {q \in DOMAIN disk : IsChild(path, q) /\ Last(q) \notin Hidden}

\* one turn of the loop: of two files with one name for the guest, the second takes
\* the entry of the first
Merged(v, dir, path) ==
    LET name == MacNameOf(path)
        v1 == Resolve(v, dir, name, path)
        c == v1.forward[<<dir, name>>]
        i == IndexOf(v1, c)
    IN  IF i # 0
        THEN [v1 EXCEPT !.catalog[i].path = path]
        ELSE [v1 EXCEPT !.catalog =
                 Append(@, [cnid |-> c, parent |-> dir, name |-> name, path |-> path,
                            dir |-> disk[path].dir])]

ListingMerged(v, dir, listing) ==
    LET turn[i \in 0..Len(listing)] == IF i = 0 THEN v ELSE Merged(turn[i - 1], dir, listing[i])
    IN  turn[Len(listing)]

\* ensureScanned: the volumes it can lead to, as the host lists a directory in any order
EnsureScannedNoPrune(v, dir) ==                                    \* (Mutant)
    IF dir \in v.scanned \/ ~\E p \in StoredPath(v, dir) : IsDir(disk, p) THEN {v}
    ELSE LET path == CHOOSE p \in StoredPath(v, dir) : TRUE
         IN  {[ListingMerged(v, dir, order) EXCEPT
                 !.scanned = @ \cup {dir}] : order \in SetToSeqs(Listing(path))}
Pruned(v, dir) ==
    [v EXCEPT !.catalog = Keeping(@, {i \in DOMAIN @ : @[i].parent # dir \/ @[i].path \in DOMAIN disk}),
              !.scanned = @ \cup {dir}]
EnsureScanned(v, dir) ==
    IF dir \in v.scanned \/ ~\E p \in StoredPath(v, dir) : IsDir(disk, p) THEN {v}
    ELSE LET path == CHOOSE p \in StoredPath(v, dir) : TRUE
         IN  {Pruned(ListingMerged(v, dir, order), dir) : order \in SetToSeqs(Listing(path))}

\* mutableFindByCNID: what is not in the catalogue is looked for where it was
Resurrected(v, c) ==
    IF InCatalog(v, c) \/ c \notin DOMAIN v.reverse
    THEN {v} ELSE EnsureScanned(v, v.reverse[c].dir)

-----------------------------------------------------------------------------
(* Where the table's names say that things are.                             *)

Means(v, dir, name, c) == <<dir, name>> \in DOMAIN v.forward /\ v.forward[<<dir, name>>] = c
\* the pair of an ID means that ID, and not another one by now
Live(v, c) == c \in DOMAIN v.reverse /\ Means(v, v.reverse[c].dir, v.reverse[c].name, c)
Home(v, dir) == IF dir = kRootDirID \/ Live(v, dir) THEN StoredPath(v, dir) ELSE {}
\* the pair means c and leads to path
Leads(v, dir, name, c, path) ==
    Means(v, dir, name, c) /\ MacNameOf(path) = name /\ Front(path) \in Home(v, dir)

(* Paths are stored twice, beside the pairs that name the same place.  They  *)
(* agree if no two objects of a directory have one name for the guest, the   *)
(* entries of what exists are where their pairs lead, no entry of a directory*)
(* says that it is a file, and the stored path of a directory, and it alone, *)
(* is where its pair leads.  Five things make them disagree: two host's names*)
(* in a directory that the guest takes for the same; a name of the guest's   *)
(* that does not come back from the host as it was, being too long; a move   *)
(* onto a name that is taken, on the disk or in the catalogue; a rename or a *)
(* move of a directory while the table remembers names below it that are not *)
(* in the catalogue, of directories there or made there later; and a file of *)
(* the host that became a directory while its entry was in the catalogue.    *)
NoNamesakes(dk) ==
    \A p, q \in DOMAIN dk : Front(p) = Front(q) /\ MacNameOf(p) = MacNameOf(q) => p = q
PathsAgree(v, dk) ==
    /\ NoNamesakes(dk)
    /\ \A i \in DOMAIN v.catalog :
        LET e == v.catalog[i]
        IN  e.path \in DOMAIN dk =>
                Leads(v, e.parent, e.name, e.cnid, e.path) /\ (dk[e.path].dir => e.dir)
    /\ \A c \in DOMAIN v.reverse, p \in DOMAIN dk :
        LET k == v.reverse[c]
        IN  Live(v, c) /\ dk[p].dir => (k.path = p <=> Leads(v, k.dir, k.name, c, p))

-----------------------------------------------------------------------------
(* Steps of the guest.  Each ends with Becomes, which also keeps the history *)

\* an object in the catalogue that was not known to the guest is, from now on
Noticed(old, v, dk) ==
    LET ObjOf(i) == dk[v.catalog[i].path].obj
        seen == {i \in DOMAIN v.catalog : v.catalog[i].path \in DOMAIN dk}
    IN  [o \in DOMAIN old \cup {ObjOf(i) : i \in seen} |->
            IF o \in DOMAIN old THEN old[o]
            ELSE v.catalog[CHOOSE i \in seen : ObjOf(i) = o].cnid]

Becomes(v, dk) == vol' = v /\ disk' = dk /\ known' = Noticed(known, v, dk)

Looks(v) == Becomes(v, disk) /\ UNCHANGED <<objects, changes>>
Changes == changes < MaxChanges /\ changes' = changes + 1
\* the directory IDs that the guest has heard of, and may use at any time
Dirs == {kRootDirID} \cup DOMAIN vol.reverse
\* the pair of the ID has been given to another
Stale(dir) == dir # kRootDirID /\ ~Live(vol, dir)

(* Every operation begins with findByName or its like, which scans: v is     *)
(* the volume after that.  One that fails has no other effect.               *)

\* findByName, nthChild, childCount, and enumeration by GetCatInfo
Scan(v) == v # vol /\ Looks(v) /\ UNCHANGED <<forks, handles>>

\* what createFile and createDir have in common: the new entry
Entered(v, dir, name, path, isDir) ==
    LET v1 == Resolve(v, dir, name, path)
    IN  [v1 EXCEPT !.catalog =
            Append(@, [cnid |-> v1.forward[<<dir, name>>], parent |-> dir, name |-> name,
                       path |-> path, dir |-> isDir])]

\* fopen "wb" truncates what the host may have put there meanwhile
CreateFile(v, dir, g) ==
    /\ Changes
    /\ Find(v, dir, g.mac) = 0
    /\ \E p \in StoredPath(v, dir) :
        LET path == Append(p, g.host) IN
        /\ IsDir(disk, p) /\ Len(path) <= MaxDepth
        /\ \/ /\ path \notin DOMAIN disk
              /\ objects' = objects + 1
              /\ Becomes(Entered(v, dir, g.mac, path, FALSE), With(disk, path, FALSE))
           \/ /\ path \in DOMAIN disk /\ ~disk[path].dir
              /\ objects' = objects
              /\ Becomes(Entered(v, dir, g.mac, path, FALSE), disk)
    /\ UNCHANGED <<forks, handles>>

CreateDir(v, dir, g) ==
    /\ Changes
    /\ Find(v, dir, g.mac) = 0
    /\ \E p \in StoredPath(v, dir) :
        LET path == Append(p, g.host) IN
        /\ IsDir(disk, p) /\ Len(path) <= MaxDepth /\ path \notin DOMAIN disk
        /\ objects' = objects + 1
        /\ Becomes(Entered(v, dir, g.mac, path, TRUE), With(disk, path, TRUE))
    /\ UNCHANGED <<forks, handles>>

\* remove's end: the catalogue entry goes whether the host's object went or not
Struck(v, c) == [v EXCEPT !.catalog = RemoveAt(@, IndexOf(v, c))]

RemoveFile(v, i) ==
    /\ Changes
    /\ ~v.catalog[i].dir
    /\ Becomes(Struck(v, v.catalog[i].cnid), Removed(disk, v.catalog[i].path))
    /\ UNCHANGED <<forks, handles, objects>>

\* childCount may scan, and prune entries before the one that e points at: e is
\* then the next entry, or one past the end, which has its ID but no path left
RemoveDir(v, i) ==
    /\ Changes
    /\ v.catalog[i].dir
    /\ \E w \in EnsureScanned(v, v.catalog[i].cnid) :
        /\ ChildCount(w, v.catalog[i].cnid) = 0
        /\ IF i <= Len(w.catalog)
           THEN Becomes(Struck(w, w.catalog[i].cnid), Removed(disk, w.catalog[i].path))
           ELSE Becomes(Struck(w, v.catalog[i].cnid), disk)
    /\ UNCHANGED <<forks, handles, objects>>

\* the loops of move and rename over the catalogue, then over the table: the
\* paths of descendants follow, of those in the catalogue
MovedAlone(v, i, dir, name, path) ==                               \* (Mutant)
    UpdateKey([v EXCEPT !.catalog[i] = [@ EXCEPT !.parent = dir, !.name = name, !.path = path]],
              v.catalog[i].cnid, dir, name, path)
Moved(v, i, dir, name, path) ==
    LET e == v.catalog[i]
        follows == {j \in DOMAIN v.catalog \ {i} : e.dir /\ Below(e.path, v.catalog[j].path)}
        cat == [j \in DOMAIN v.catalog |->
                  IF j = i THEN [e EXCEPT !.parent = dir, !.name = name, !.path = path]
                  ELSE IF j \in follows
                       THEN [v.catalog[j] EXCEPT !.path = Redirected(e.path, path, @)]
                       ELSE v.catalog[j]]
        w == UpdateKey([v EXCEPT !.catalog = cat], e.cnid, dir, name, path)
        below == {j \in DOMAIN cat : e.dir /\ Below(path, cat[j].path)}
    IN  [w EXCEPT !.reverse = [c \in DOMAIN @ |->
            IF \E j \in below : cat[j].cnid = c
            THEN [@[c] EXCEPT !.path = cat[CHOOSE j \in below : cat[j].cnid = c].path]
            ELSE @[c]]]

\* rename refuses a name that is too long
Rename(v, i, dir, g) ==
    /\ Changes
    /\ MacName[g.host] = g.mac
    /\ Find(v, dir, g.mac) = 0
    /\ \E p \in StoredPath(v, dir) :
        LET path == Append(p, g.host) IN
        /\ CanRename(disk, v.catalog[i].path, path)
        /\ Becomes(Moved(v, i, dir, g.mac, path), Renamed(disk, v.catalog[i].path, path))
    /\ UNCHANGED <<forks, handles, objects>>

\* move keeps the host's name, and does not look whether it is taken where it goes
Move(v, i, name, dst) ==
    /\ Changes
    /\ \E p \in StoredPath(v, dst) :
        LET from == v.catalog[i].path
            path == Append(p, Last(from))
        IN  /\ CanRename(disk, from, path)
            /\ Becomes(Moved(v, i, dst, name, path), Renamed(disk, from, path))
    /\ UNCHANGED <<forks, handles, objects>>

-----------------------------------------------------------------------------
(* Open forks.  A data fork holds the host's open file, whatever happens to  *)
(* its path; a resource fork, like a text file, is found by path each time.  *)

Writes(perm) == perm # "read"

\* the conflict check of openFork
ConflictNot(c, fork, perm) == FALSE                                \* (Mutant)
Conflict(c, fork, perm) ==
    \E h \in DOMAIN forks :
        /\ forks[h].cnid = c /\ forks[h].fork = fork
        /\ perm = "exclusive" \/ (perm = "write" /\ forks[h].write)

\* openFork, of a file that PbOpenFork has found by name.  fopen makes a data
\* fork's file if the host has deleted it
OpenFork(v, i, fork, perm) ==
    LET e == v.catalog[i]
        missing == fork = "data" /\ e.path \notin DOMAIN disk
        dk == IF missing THEN With(disk, e.path, FALSE) ELSE disk
    IN  /\ handles < MaxHandles
        /\ ~e.dir /\ ~IsDir(disk, e.path) /\ ~Conflict(e.cnid, fork, perm)
        /\ handles' = handles + 1
        /\ forks' = Put(forks, handles + 1,
                        [cnid |-> e.cnid, fork |-> fork, write |-> Writes(perm),
                         path |-> e.path, obj |-> ObjectAt(dk, e.path)])
        /\ \/ /\ missing /\ IsDir(disk, Front(e.path)) /\ Len(e.path) <= MaxDepth
              /\ Changes /\ objects' = objects + 1
           \/ ~missing /\ UNCHANGED <<changes, objects>>
        /\ Becomes(v, dk)

\* the path by which readFork, writeFork and setEOF reach a resource fork
AccessPath(v, h) ==
    IF InCatalog(v, forks[h].cnid) THEN v.catalog[IndexOf(v, forks[h].cnid)].path
    ELSE forks[h].path

\* readFork, writeFork, setEOF, as far as they change the volume
Access(h) ==
    /\ ~InCatalog(vol, forks[h].cnid)
    /\ \E v \in Resurrected(vol, forks[h].cnid) : v # vol /\ Looks(v)
    /\ UNCHANGED <<forks, handles>>

CloseFork(h) ==
    /\ forks' = [g \in DOMAIN forks \ {h} |-> forks[g]]
    /\ UNCHANGED <<disk, vol, handles, objects, changes, known>>

-----------------------------------------------------------------------------
(* The cache is dropped, and the host goes its own way. *)

\* invalidateAll
HasFork(c) == \E h \in DOMAIN forks : forks[h].cnid = c
Invalidated ==
    [vol EXCEPT !.catalog = Keeping(@, {i \in DOMAIN @ : HasFork(@[i].cnid)}), !.scanned = {}]
InvalidateAll ==
    /\ Looks(Invalidated)
    /\ UNCHANGED <<forks, handles>>

HostCreate(path, isDir) ==
    /\ Changes
    /\ path \notin DOMAIN disk /\ IsDir(disk, Front(path))
    /\ disk' = With(disk, path, isDir)
    /\ objects' = objects + 1
    /\ UNCHANGED <<vol, forks, handles, known>>

HostDelete(path) ==
    /\ Changes
    /\ IsEmpty(disk, path)
    /\ disk' = Without(disk, path)
    /\ UNCHANGED <<vol, forks, handles, objects, known>>

-----------------------------------------------------------------------------
\* mount: the root directory is scanned at once
Init ==
    LET paths == SetToSeq(DOMAIN InitialDisk)
        mounted == [catalog |-> <<>>, forward |-> <<>>, reverse |-> <<>>,
                    next |-> FirstCnid, scanned |-> {}]
    IN  /\ disk = [p \in DOMAIN InitialDisk |->
                     [obj |-> CHOOSE i \in DOMAIN paths : paths[i] = p, dir |-> InitialDisk[p]]]
        /\ objects = Len(paths)
        /\ vol \in EnsureScanned(mounted, kRootDirID)
        /\ known = Noticed(<<>>, vol, disk)
        /\ forks = <<>> /\ handles = 0 /\ changes = 0 /\ astray = ~NoNamesakes(disk)

\* an operation in a directory, by its ID
GuestIn(dir) ==
    \E v \in EnsureScanned(vol, dir) :
        \/ Scan(v)
        \/ \E g \in Given : CreateFile(v, dir, g) \/ CreateDir(v, dir, g)
        \/ \E name \in MacNames : \E i \in {Find(v, dir, name)} \ {0} :
            \/ RemoveFile(v, i) \/ RemoveDir(v, i)
            \/ \E g \in Given : Rename(v, i, dir, g)
            \/ \E dst \in Dirs : Move(v, i, name, dst)
            \/ \E fork \in ForkTypes, perm \in Permissions : OpenFork(v, i, fork, perm)

GuestFork == \E h \in DOMAIN forks : Access(h) \/ CloseFork(h)

Host ==
    \/ \E path \in BoundedSeq(Names, MaxDepth) \ {<<>>}, isDir \in BOOLEAN : HostCreate(path, isDir)
    \/ \E path \in DOMAIN disk : HostDelete(path)

Next ==
    \/ \E dir \in Dirs :
        GuestIn(dir) /\ astray' = (astray \/ Stale(dir) \/ ~PathsAgree(vol', disk'))
    \/ (GuestFork \/ InvalidateAll \/ Host) /\ astray' = (astray \/ ~PathsAgree(vol', disk'))

Spec == Init /\ [][Next]_vars

-----------------------------------------------------------------------------
(* Properties. *)

Cnids == FirstCnid..(vol.next - 1)
Paths == BoundedSeq(Names, MaxDepth) \ {<<>>}

TypeOK ==
    /\ DOMAIN disk \subseteq Paths
    /\ \A p \in DOMAIN disk : disk[p].obj \in 1..objects /\ disk[p].dir \in BOOLEAN
    /\ \A p \in DOMAIN disk : IsDir(disk, Front(p))
    /\ DOMAIN vol.reverse = Cnids
    /\ \A i \in DOMAIN vol.catalog : vol.catalog[i].cnid \in Cnids
    /\ \A k \in DOMAIN vol.forward : vol.forward[k] \in Cnids
    /\ \A h \in DOMAIN forks : h <= handles /\ forks[h].cnid \in Cnids

(* An ID means the same file or directory as long as it exists: whatever is  *)
(* evicted and found again, moved or renamed, itself or a directory above it,*)
(* an object in the catalogue has the ID it was first seen with, and no two  *)
(* objects have the same one.  (CatalogEntry: IDs "uniquely tag an entry for *)
(* its entire lifetime".)  This holds until one of five things has happened, *)
(* which astray remembers, see PathsAgree: two host's names in a directory   *)
(* that are one for the guest, a name of the guest's that is cut, a move onto*)
(* a name that is taken, a directory that moved or was renamed while names   *)
(* below it, remembered by the table, were not in the catalogue, a file that *)
(* became a directory; or until a directory is used by a stale ID.  No two   *)
(* entries have the same ID in any case.                                     *)
IdentityKept ==
    /\ \A i, j \in DOMAIN vol.catalog : vol.catalog[i].cnid = vol.catalog[j].cnid => i = j
    /\ ~astray =>
        /\ \A i \in DOMAIN vol.catalog :
            LET e == vol.catalog[i]
            IN  e.path \in DOMAIN disk /\ disk[e.path].obj \in DOMAIN known
                    => known[disk[e.path].obj] = e.cnid
        /\ \A p, q \in DOMAIN disk :
            disk[p].obj \in DOMAIN known /\ disk[q].obj \in DOMAIN known /\ p # q
                => known[disk[p].obj] # known[disk[q].obj]

(* An open resource fork reaches the file that it was opened on, as long as  *)
(* that file exists, over evictions, renames and moves of the file and of    *)
(* the directories above it.  (OpenFork: "Open forks survive eviction".)  As *)
(* with IdentityKept, until astray: once a directory has moved away from     *)
(* what the table remembers below it and the catalogue does not have, two    *)
(* files have one name for the guest, or another of the five, the fork may   *)
(* reach another file.                                                       *)
HandleReaches ==
    \A h \in DOMAIN forks :
        ~astray /\ (\E p \in DOMAIN disk : disk[p].obj = forks[h].obj) =>
            \A v \in Resurrected(vol, forks[h].cnid) :
                ObjectAt(disk, AccessPath(v, h)) = forks[h].obj

(* At most one open fork of a file may write, also when its entry was        *)
(* evicted or it was renamed meanwhile (openFork: "Conflict check").  Until  *)
(* astray, again: with a second ID for the file the check does not see.      *)
OneWriter ==
    \A g, h \in DOMAIN forks :
        (/\ g # h /\ forks[g].write /\ forks[h].write /\ forks[g].fork = forks[h].fork
         /\ forks[g].obj = forks[h].obj /\ forks[g].obj # None)
            => astray

(* A directory that is scanned shows what is on the disk, all that is not    *)
(* hidden and nothing else, although entries with open forks have outlived   *)
(* the last invalidation and the host has created and deleted files since.  A*)
(* hidden file is shown while the guest that made it has it open.  Left out: *)
(* a step that goes on to change the disk, and what is astray, like two files*)
(* with one name for the guest.  (host_volume.h: "Periodic invalidation      *)
(* forces re-scan from disk, picking up external changes".)                  *)
ShownIn(dir) ==
    {vol.catalog[i].name : i \in {j \in DOMAIN vol.catalog : vol.catalog[j].parent = dir}}
Namely(S) == {MacNameOf(q) : q \in S}
NewlyShown ==
    \A dir \in vol'.scanned \ vol.scanned : changes' = changes /\ ~astray' =>
        \A p \in StoredPath(vol', dir) :
            /\ Namely(Listing(p)') \subseteq ShownIn(dir)'
            /\ ShownIn(dir)' \subseteq Namely({q \in DOMAIN disk' : IsChild(p, q)})
ScanShowsDisk == [][NewlyShown]_vars

(* CatalogEntry: IDs "uniquely tag an entry for its entire lifetime".  What  *)
(* is in the catalogue always has the ID it was first seen with, also a file *)
(* that the guest gave a name of more than 31 characters.                    *)
FirstIDEver ==
    \A i \in DOMAIN vol.catalog :
        LET e == vol.catalog[i]
        IN  e.path \in DOMAIN disk /\ disk[e.path].obj \in DOMAIN known
                => known[disk[e.path].obj] = e.cnid

(* docs/CACHE_DESIGN.md: rename and move "keep the stored path current", for *)
(* directories of "all descendants".  A directory that exists where its pair *)
(* leads has that path stored.                                               *)
StoredPathCurrent ==
    \A c \in Cnids, p \in DOMAIN disk :
        LET k == vol.reverse[c]
        IN  disk[p].dir /\ Leads(vol, k.dir, k.name, c, p) => k.path = p

(* And always one writer, also of a file in a directory whose stored path    *)
(* has gone stale, or that was moved onto a name that was taken.             *)
AlwaysOneWriter ==
    \A g, h \in DOMAIN forks :
        (/\ g # h /\ forks[g].write /\ forks[h].write /\ forks[g].fork = forks[h].fork)
            => forks[g].obj # forks[h].obj \/ forks[g].obj = None

(* "Delete a file or empty directory": what a removal takes from the disk    *)
(* had the name it was given.                                                *)
RemovesWhatItNames ==
    [][\A dir \in Dirs : \A v \in EnsureScanned(vol, dir) : \A i \in DOMAIN v.catalog :
        RemoveDir(v, i) => DOMAIN disk \ DOMAIN disk' \subseteq {v.catalog[i].path}]_vars
=============================================================================
