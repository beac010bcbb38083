-------------------------------- MODULE Mounts --------------------------------
(***************************************************************************)
(* The mounts `cntr attach` assembles (src/attach/child.rs): `child::run`  *)
(* creates base_dir on the host, goes to a mount namespace of its own, a   *)
(* copy of the host's, makes all mounts private, idmaps those that can be  *)
(* (`apply_idmapped_mounts`), mounts a tmpfs on base_dir, goes to the      *)
(* container's namespace, clones every entry of its root, comes back and   *)
(* attaches the clones below base_dir                                      *)
(* (`capture_and_attach_container_trees`).                                 *)
(*                                                                         *)
(* A path is the sequence of its names.  A mount table is a sequence of    *)
(* mounts in the order in which they were attached, that of the root       *)
(* first, and a mount the record [at, fs, kind, idmapped]: where it is,    *)
(* the file system it shows, and what the kernel and the skip list make of *)
(* that file system:                                                       *)
(*   "ok"       can be idmapped                                            *)
(*   "special"  on the list skip_fstypes; the kernel refuses an idmap too  *)
(*   "refused"  not on the list, but the kernel refuses an idmap           *)
(* A mount is always attached where one can look, so the file system seen  *)
(* at a path is that of the last mount attached at or above it.            *)
(***************************************************************************)
EXTENDS Naturals, FiniteSets, SequencesExt

CONSTANTS
  Hosts,           \* mount tables the host may have
  Box,             \* the mount table of the container
  Base,            \* paths::get_base_dir
  Localtime,       \* the file that /etc/localtime names
  Escaped,         \* paths /proc/mounts shows escaped: a blank as \040
  EntryKind,       \* EntryKind[e]: what entry e of the container's root is
  MayFail,         \* system calls fail that normally do not
  BoxMoves,        \* the container replaces and removes its entries meanwhile
  MaxSpoiled       \* bound: mounts and entries hit by either

Entries == DOMAIN EntryKind
EntryKinds == {"dir", "file", "symdir", "symfile", "dangling"}
Namespaces == {"host", "own", "box"}

Path == Seq(STRING)
FileSystem == STRING \cup {"tmpfs"}     \* the provers know no literal in STRING
Mounted == [at : Path, fs : FileSystem, kind : {"ok", "special", "refused"},
            idmapped : BOOLEAN]
Tables == {t \in Seq(Mounted) : t # << >> /\ t[1].at = << >>}

\* Localtime is a file: nothing is mounted below it.
ASSUME MountAssumption ==
  /\ Hosts \subseteq Tables /\ Box \in Tables
  /\ Base \in Path /\ Localtime \in Path
  /\ \A host \in Hosts : \A i \in DOMAIN host : ~IsStrictPrefix(Localtime, host[i].at)
  /\ Entries \subseteq STRING /\ IsFiniteSet(Entries)
  /\ EntryKind \in [Entries -> EntryKinds]
  /\ MayFail \in BOOLEAN /\ BoxMoves \in BOOLEAN /\ MaxSpoiled \in Nat

VARIABLES
  pc,              \* where child::run is
  effective_user,  \* --effective-user is given
  d_type,          \* the container's root lists the types of its entries
  tab,             \* tab[n]: the mount table of namespace n
  ns,              \* the mount namespace the child is in
  shared,          \* mounts of "own" still propagate to "host"
  line,            \* the next line of /proc/mounts
  kind,            \* what each entry of the container's root is now
  entries,         \* the listed entries not captured yet, with their types
  captured_trees,  \* the cloned trees not attached yet
  created,         \* <<what, fs>>: "base_dir" or something "below" it, made on fs
  spoiled          \* paths hit by a fault or by the container

\* Where entry e belongs: base_dir.join(&name).
Target(e) == Base \o <<e>>

boxVars == <<effective_user, d_type>>
treeVars == <<entries, captured_trees>>
vars == <<pc, boxVars, tab, ns, shared, line, kind, treeVars, created, spoiled>>

Init == /\ pc = "base_dir"
        /\ effective_user \in BOOLEAN
        /\ d_type \in BOOLEAN
        /\ \E host \in Hosts :
             tab = [n \in Namespaces |-> IF n = "box" THEN Box ELSE host]
        /\ ns = "host"
        /\ shared = TRUE
        /\ line = 1
        /\ kind = EntryKind
        /\ entries = << >>
        /\ captured_trees = << >>
        /\ created = {}
        /\ spoiled = {}
-----------------------------------------------------------------------------
(***************************************************************************)
(* The kernel's mounts.                                                    *)
(***************************************************************************)
Mount(at, fs, k) == [at |-> at, fs |-> fs, kind |-> k, idmapped |-> FALSE]

\* The mount one sees at path p of table t.
Seen(t, p) == CHOOSE i \in DOMAIN t :
  /\ IsPrefix(t[i].at, p)
  /\ \A j \in DOMAIN t : IsPrefix(t[j].at, p) => j <= i
SeenAt(n, p) == tab[n][Seen(tab[n], p)]

\* The file system under base_dir in the namespace the child is in.
UnderBase == SeenAt(ns, Base).fs

\* The elements of t at the positions I, in their order.
Nth(I, k) == CHOOSE i \in I : Cardinality({j \in I : j <= i}) = k
Picked(t, I) == [k \in 1..Cardinality(I) |-> t[Nth(I, k)]]

\* open_tree with RECURSIVE_CLONE: what one sees at p, with all below it.
CloneTop(t, p) == <<[t[Seen(t, p)] EXCEPT !.at = p]>>      \* mutant
Under(t, p) == {i \in Seen(t, p) + 1..Len(t) : IsStrictPrefix(p, t[i].at)}
Clone(t, p) == <<[t[Seen(t, p)] EXCEPT !.at = p]>> \o Picked(t, Under(t, p))

\* A mount that another one covers: its line names what covers it.
Covered(t, i) == Seen(t, t[i].at) # i

\* move_mount into the child's namespace, and into every peer of its mounts.
Attached(ms) ==
  tab' = [n \in Namespaces |->
            IF n = ns \/ (n = "host" /\ ns = "own" /\ shared)
            THEN tab[n] \o ms ELSE tab[n]]

\* mount_setattr with AT_RECURSIVE: all mounts of the clone, or none.
Accepted(clone) ==
  \A i \in DOMAIN clone : clone[i].kind = "ok" /\ ~clone[i].idmapped
Idmapped(clone) == [i \in DOMAIN clone |-> [clone[i] EXCEPT !.idmapped = TRUE]]
-----------------------------------------------------------------------------
Spoil(p) == /\ Cardinality(spoiled \cup {p}) <= MaxSpoiled
            /\ spoiled' = spoiled \cup {p}

\* An error that `?` returns: the child ends.  The tmpfs needs its mount point.
NoBaseDir == pc = "tmpfs" /\ <<"base_dir", UnderBase>> \notin created
Fails ==
  /\ MayFail \/ NoBaseDir
  /\ pc \in {"base_dir", "unshare", "private", "open_mounts", "tmpfs", "enter", "readdir"}
  /\ pc' = "failed"
  /\ UNCHANGED <<boxVars, tab, ns, shared, line, kind, treeVars, created, spoiled>>

\* create_dir_all makes the directory, or finds it, before the child is in any
\* other namespace.
CreateBaseDir ==
  /\ pc = "base_dir"
  /\ created' = created \cup {<<"base_dir", UnderBase>>}
  /\ pc' = "unshare"
  /\ UNCHANGED <<boxVars, tab, ns, shared, line, kind, treeVars, spoiled>>

Unshare ==
  /\ pc = "unshare"
  /\ ns' = "own"
  /\ pc' = "private"
  /\ UNCHANGED <<boxVars, tab, shared, line, kind, treeVars, created, spoiled>>

AfterPrivate == IF effective_user THEN "open_mounts" ELSE "tmpfs"

MakeNothingPrivate ==      \* mutant
  /\ pc = "private"
  /\ pc' = AfterPrivate
  /\ UNCHANGED <<boxVars, tab, ns, shared, line, kind, treeVars, created, spoiled>>
MakePrivate ==
  /\ pc = "private"
  /\ shared' = FALSE
  /\ pc' = AfterPrivate
  /\ UNCHANGED <<boxVars, tab, ns, line, kind, treeVars, created, spoiled>>

OpenMounts ==
  /\ pc = "open_mounts"
  /\ pc' = "lines"
  /\ UNCHANGED <<boxVars, tab, ns, shared, line, kind, treeVars, created, spoiled>>
-----------------------------------------------------------------------------
(***************************************************************************)
(* apply_idmapped_mounts: one line of /proc/mounts at a time, of the table *)
(* the loop itself appends to.                                             *)
(***************************************************************************)
SkippedAbove(m) == m.kind = "special" \/ IsPrefix(m.at, Base)      \* mutant
Skipped(m) == m.kind = "special" \/ IsPrefix(Base, m.at)

\* A clone that could not be idmapped is not moved back.
MovedAlways(clone) == TRUE             \* mutant: no continue
MovedBack(clone) == Accepted(clone)

NextLine == /\ line <= Len(tab[ns])
            /\ line' = line + 1
            /\ UNCHANGED <<pc, boxVars, ns, shared, kind, treeVars, created>>

SkipLine ==
  /\ pc = "lines"
  /\ NextLine
  /\ Skipped(tab[ns][line])
  /\ UNCHANGED <<tab, spoiled>>

\* The clone takes the idmap and replaces the mount.
IdmapLine ==
  /\ pc = "lines"
  /\ NextLine
  /\ LET m == tab[ns][line]
         clone == Clone(tab[ns], m.at)
     IN /\ ~Skipped(m) /\ m.at \notin Escaped
        /\ MovedBack(clone)
        /\ Attached(Idmapped(clone))
  /\ UNCHANGED spoiled

\* A warning: an escaped path is not found, a path below a covering mount need
\* not exist there, and the kernel refuses the idmap.
RefusedLine ==
  /\ pc = "lines"
  /\ NextLine
  /\ LET m == tab[ns][line]
     IN /\ ~Skipped(m)
        /\ \/ m.at \in Escaped
           \/ Covered(tab[ns], line)
           \/ ~MovedBack(Clone(tab[ns], m.at))
  /\ UNCHANGED <<tab, spoiled>>

\* open_tree, mount_setattr or move_mount fails for another reason.
FailedLine ==
  /\ pc = "lines"
  /\ MayFail
  /\ NextLine
  /\ ~Skipped(tab[ns][line])
  /\ Spoil(tab[ns][line].at)
  /\ UNCHANGED tab

EndOfMounts ==
  /\ pc = "lines"
  /\ line > Len(tab[ns])
  /\ pc' = "tmpfs"
  /\ UNCHANGED <<boxVars, tab, ns, shared, line, kind, treeVars, created, spoiled>>
-----------------------------------------------------------------------------
\* our_mount_ns is opened and the tmpfs mounted.
MountTmpfs ==
  /\ pc = "tmpfs" /\ ~NoBaseDir
  /\ Attached(<<Mount(Base, "tmpfs", "ok")>>)
  /\ pc' = "localtime"
  /\ UNCHANGED <<boxVars, ns, shared, line, kind, treeVars, created, spoiled>>

\* setup_container_timezone: a copy below base_dir, bound over the host's.
BindLocaltime ==
  /\ pc = "localtime"
  /\ created' = created \cup {<<"below", UnderBase>>}
  /\ \/ Attached(<<Mount(Localtime, UnderBase, "ok")>>)
     \/ MayFail /\ UNCHANGED tab
  /\ pc' = "enter"
  /\ UNCHANGED <<boxVars, ns, shared, line, kind, treeVars, spoiled>>

\* The container has no readable /etc/localtime.
NoLocaltime ==
  /\ pc = "localtime"
  /\ pc' = "enter"
  /\ UNCHANGED <<boxVars, tab, ns, shared, line, kind, treeVars, created, spoiled>>
-----------------------------------------------------------------------------
(***************************************************************************)
(* capture_and_attach_container_trees.                                     *)
(***************************************************************************)
EnterBox ==
  /\ pc = "enter"
  /\ ns' = "box"
  /\ pc' = "readdir"
  /\ UNCHANGED <<boxVars, tab, shared, line, kind, treeVars, created, spoiled>>

\* The names and types are collected, in any one order, before anything is
\* captured.
ListedType(k) == IF ~d_type THEN "unknown" ELSE IF k = "dir" THEN "dir" ELSE "other"

ReadDir ==
  /\ pc = "readdir"
  /\ entries' = SetToSeq({[name |-> e, type |-> ListedType(kind[e])] :
                            e \in {x \in Entries : kind[x] # "gone"}})
  /\ pc' = "capture"
  /\ UNCHANGED <<boxVars, tab, ns, shared, line, kind, captured_trees, created,
                 spoiled>>

\* An entry listed without a type is looked at, without following a symlink.
AssumeOther(k) == "other"                        \* mutant: no statat
StatType(k) == IF k = "dir" THEN "dir" ELSE "other"

Stat ==
  /\ pc = "capture" /\ entries # << >> /\ Head(entries).type = "unknown"
  /\ \/ /\ entries' = [entries EXCEPT ![1].type = StatType(kind[Head(entries).name])]
        /\ UNCHANGED spoiled
     \/ /\ MayFail /\ Spoil(Target(Head(entries).name))
        /\ entries' = [entries EXCEPT ![1].type = "other"]
  /\ UNCHANGED <<pc, boxVars, tab, ns, shared, line, kind, captured_trees, created>>

\* open_tree follows a symlink.  It works on the mounts of the namespace the
\* child is in.
Opens(e) == kind[e] \notin {"dangling", "gone"} /\ ns = "box"
OpensDir(e) == kind[e] \in {"dir", "symdir"}

Capture ==
  /\ pc = "capture" /\ entries # << >> /\ Head(entries).type # "unknown"
  /\ entries' = Tail(entries)
  /\ LET entry == Head(entries)
     IN /\ Opens(entry.name)
        /\ captured_trees' = Append(captured_trees,
             [name |-> entry.name, is_dir |-> entry.type = "dir",
              tree_is_dir |-> OpensDir(entry.name),
              tree |-> Clone(tab[ns], <<entry.name>>)])
  /\ UNCHANGED <<pc, boxVars, tab, ns, shared, line, kind, created, spoiled>>

\* open_tree fails: a warning, and the entry is left out.
NotCaptured ==
  /\ pc = "capture" /\ entries # << >> /\ Head(entries).type # "unknown"
  /\ entries' = Tail(entries)
  /\ IF Opens(Head(entries).name)
     THEN MayFail /\ Spoil(Target(Head(entries).name))
     ELSE UNCHANGED spoiled
  /\ UNCHANGED <<pc, boxVars, tab, ns, shared, line, kind, captured_trees, created>>

\* The loop is over and setns brings the child back.
StayInBox ==               \* mutant
  /\ pc = "capture" /\ entries = << >>
  /\ pc' = "attach"
  /\ UNCHANGED <<boxVars, tab, ns, shared, line, kind, treeVars, created, spoiled>>
Return ==
  /\ pc = "capture" /\ entries = << >>
  /\ ns' = "own"
  /\ pc' = "attach"
  /\ UNCHANGED <<boxVars, tab, shared, line, kind, treeVars, created, spoiled>>

ReturnFails ==
  /\ MayFail
  /\ pc = "capture" /\ entries = << >>
  /\ pc' = "failed"
  /\ UNCHANGED <<boxVars, tab, ns, shared, line, kind, treeVars, created, spoiled>>

\* The tree is put below base_dir.
Below(tree) == [i \in DOMAIN tree |-> [tree[i] EXCEPT !.at = Base \o @]]

\* A directory or an empty file is created and the tree attached there; the
\* kernel wants both to be directories or neither.
AttachEntry ==
  /\ pc = "attach" /\ captured_trees # << >>
  /\ captured_trees' = Tail(captured_trees)
  /\ created' = created \cup {<<"below", UnderBase>>}
  /\ LET c == Head(captured_trees)
     IN IF c.is_dir = c.tree_is_dir THEN Attached(Below(c.tree)) ELSE UNCHANGED tab
  /\ UNCHANGED <<pc, boxVars, ns, shared, line, kind, entries, spoiled>>

\* The mount point cannot be created, or the tree not attached.
AttachFails ==
  /\ pc = "attach" /\ captured_trees # << >>
  /\ MayFail
  /\ captured_trees' = Tail(captured_trees)
  /\ created' \in {created, created \cup {<<"below", UnderBase>>}}
  /\ Spoil(Target(Head(captured_trees).name))
  /\ UNCHANGED <<pc, boxVars, tab, ns, shared, line, kind, entries>>

Done ==
  /\ pc = "attach" /\ captured_trees = << >>
  /\ pc' = "done"
  /\ UNCHANGED <<boxVars, tab, ns, shared, line, kind, treeVars, created, spoiled>>
-----------------------------------------------------------------------------
\* The container removes an entry or replaces it by one of another kind.
BoxReplaces ==
  /\ BoxMoves
  /\ pc \in {"enter", "readdir", "capture"}
  /\ \E e \in Entries :
       /\ Target(e) \notin spoiled
       /\ \E k \in {"dir", "file", "gone"} :
            k # kind[e] /\ kind' = [kind EXCEPT ![e] = k]
       /\ Spoil(Target(e))
  /\ UNCHANGED <<pc, boxVars, tab, ns, shared, line, treeVars, created>>

ApplyIdmappedMounts ==
  OpenMounts \/ SkipLine \/ IdmapLine \/ RefusedLine \/ FailedLine \/ EndOfMounts
CaptureAndAttach ==
  \/ EnterBox \/ ReadDir \/ Stat \/ Capture \/ NotCaptured \/ Return \/ ReturnFails
  \/ AttachEntry \/ AttachFails \/ Done

Terminating == pc \in {"done", "failed"} /\ UNCHANGED vars

Next == \/ CreateBaseDir \/ Unshare \/ MakePrivate \/ ApplyIdmappedMounts
        \/ MountTmpfs \/ BindLocaltime \/ NoLocaltime
        \/ CaptureAndAttach \/ Fails \/ BoxReplaces \/ Terminating

Spec == Init /\ [][Next]_vars
-----------------------------------------------------------------------------
(***************************************************************************)
(* Properties.                                                             *)
(***************************************************************************)
Paths == {tab["own"][i].at : i \in DOMAIN tab["own"]} \cup {Localtime}

\* The values of the variables.  The loop over /proc/mounts, which reads what
\* it appends, adds at most one mount per mount of the host.
TypeOK ==
  /\ pc \in {"base_dir", "unshare", "private", "open_mounts", "lines", "tmpfs",
             "localtime", "enter", "readdir", "capture", "attach", "done", "failed"}
  /\ effective_user \in BOOLEAN /\ d_type \in BOOLEAN /\ shared \in BOOLEAN
  /\ ns \in Namespaces
  /\ DOMAIN tab = Namespaces
  /\ pc = "lines" => Len(tab["own"]) <= 2 * Len(tab["host"])
  /\ line \in 1..2 * Len(tab["host"]) + 1
  /\ kind \in [Entries -> EntryKinds \cup {"gone"}]
  /\ entries \in Seq([name : Entries, type : {"dir", "other", "unknown"}])
  /\ \A i \in DOMAIN captured_trees : captured_trees[i].name \in Entries
  /\ spoiled \subseteq Paths \cup {Target(e) : e \in Entries}

\* "The container itself will run unaffected as the mount changes are not
\* visible to container processes" (README.md:108), nor to the host.
OnlyOwnMounts == [][UNCHANGED <<tab["host"], tab["box"]>>]_vars

\* Whatever the loop replaced, failed to replace or read twice, the child sees
\* at each path the file system the host has there; only what is below
\* base_dir and the local time differ.
SameFiles ==
  \A p \in Paths : ~IsPrefix(Base, p) /\ p # Localtime =>
    SeenAt("own", p).fs = SeenAt("host", p).fs

\* No path gets more layers from the loop than the host has there, though the
\* lines of the mounts it attached are read by it as well.
Layers(t, from, p) == {i \in from..Len(t) : t[i].at = p}
OneLayer ==
  pc = "lines" =>
    \A i \in DOMAIN tab["own"] :
      LET p == tab["own"][i].at
      IN Cardinality(Layers(tab["own"], Len(tab["host"]) + 1, p))
           <= Cardinality(Layers(tab["host"], 1, p))

\* Every mount that can be idmapped with all that is mounted below it has been,
\* whatever happened to the others: those that cannot, that failed, whose path
\* is escaped or below base_dir, or that lie over a covered mount.
Supported(p) ==
  LET host == tab["host"]
  IN /\ Accepted(Clone(host, p))
     /\ \A i \in DOMAIN host : IsPrefix(p, host[i].at) => ~Covered(host, i)
     /\ \A q \in spoiled : ~IsPrefix(p, q)
     /\ p \notin Escaped /\ ~IsPrefix(Base, p)
IdmapApplied ==
  pc = "tmpfs" /\ effective_user =>
    \A i \in DOMAIN tab["host"] :
      Supported(tab["host"][i].at) => SeenAt("own", tab["host"][i].at).idmapped

\* "Create base_dir BEFORE entering any namespaces" (src/attach/child.rs:349):
\* the tmpfs finds its mount point, whatever the loop attached above it since,
\* and nothing else is created on the host, and nothing in the container; all
\* other files and mount points are created on the tmpfs.
MountPointsPlaced ==
  /\ ~NoBaseDir
  /\ created \subseteq {<<"base_dir", SeenAt("host", Base).fs>>, <<"below", "tmpfs">>}

\* What the container sees at and below entry e, base_dir shows, submounts
\* included ("captures each root entry using open_tree() (preserves
\* submounts)", src/attach/child.rs:187).
Shown(e) ==
  \A i \in DOMAIN Box : IsPrefix(<<e>>, Box[i].at) \/ i = 1 =>
    LET p == IF i = 1 THEN <<e>> ELSE Box[i].at
    IN SeenAt("own", Base \o p).fs = SeenAt("box", p).fs
EntriesShown ==
  pc = "done" =>
    \A e \in Entries :
      Target(e) \notin spoiled /\ EntryKind[e] \in {"dir", "file", "symfile"}
        => Shown(e)

\* "{base_dir} = tmpfs overlay with container entries bind-mounted",
\* src/attach/child.rs:281: every entry that leads somewhere.
AllEntriesShown ==
  pc = "done" => \A e \in Entries : EntryKind[e] # "dangling" => Shown(e)
================================================================================
