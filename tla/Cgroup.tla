------------------------------- MODULE Cgroup --------------------------------
(***************************************************************************)
(* `move_to` of src/cgroup.rs, the first step of the child in both `attach`*)
(* and `exec`: pick a manager from /proc/self/mountinfo and move the       *)
(* process into the cgroups of the container's process.  Beside it the     *)
(* container goes on: its manager may move it, and it may end.             *)
(*                                                                         *)
(* A hierarchy is the unified one (v2) or that of a v1 controller.  A line *)
(* of mountinfo is split at spaces and looked at by position; the zero or  *)
(* more optional fields before its "-" shift the positions, so that their  *)
(* number is part of the model.                                            *)
(***************************************************************************)
EXTENDS Naturals

CONSTANTS
  Controllers,     \* the v1 controllers the kernel has enabled
  Paths,           \* paths of cgroups below the root of a hierarchy
  OptCounts,       \* numbers of optional fields of a mountinfo line
  Sources          \* mount sources of cgroup mounts

Unified == "unified"
Root == ""
Hier == Controllers \cup {Unified}

ASSUME PathAssumption == Root \notin Paths /\ Unified \notin Controllers
ASSUME OptAssumption == OptCounts \subseteq 0..3

VARIABLES
  mounted,         \* the hierarchies that are mounted, each at its own name
  opt, source,     \* optional fields and source of the line of each
  writable,        \* cntr may write cgroup.procs and tasks
  target,          \* the cgroup of the container's process in each hierarchy
  been,            \* been[h]: all cgroups it has been in
  gone,            \* the container has ended and its cgroups are removed
  own,             \* the cgroup of cntr's process in each hierarchy
  pc, manager, v2_mount,
  cgroup_path,     \* local of the v2 move_to
  cgroups,         \* paths the loop of the v1 move_to still has to visit
  result           \* what move_to returned

hostVars == <<mounted, opt, source, writable>>
contVars == <<target, been, gone>>
locals   == <<pc, manager, v2_mount, cgroup_path, cgroups, result>>
vars == <<hostVars, contVars, own, locals>>

(***************************************************************************)
(* mountinfo.  The fields from "-" on of the line of h; with no optional   *)
(* field the "-" is the seventh field, index 6.                            *)
(***************************************************************************)
FsType(h) == IF h = Unified THEN "cgroup2" ELSE "cgroup"
SuperOptions(h) == IF h = Unified THEN {"rw"} ELSE {"rw", h}
FromDash(h) == << {"-"}, {FsType(h)}, {source[h]}, SuperOptions(h) >>

\* Field i of the line, split at commas; {} where the line is too short.
Field(h, i) == LET j == (i + 1) - (6 + opt[h])
               IN IF j \in 1..4 THEN FromDash(h)[j] ELSE {}

\* create_manager and get_mounts take fields[9] for the file system type.
\* (It is the type with two optional fields, the source with one.)
LooksLike(h, type) == Field(h, 9) = {type}

has_v1 == \E h \in mounted : LooksLike(h, "cgroup")
v2_mounts == {h \in mounted : LooksLike(h, "cgroup2")}

\* get_mounts: the mount of each controller, as far as it is recognised.
get_mounts ==
  [c \in {d \in Controllers : \E h \in mounted : LooksLike(h, "cgroup") /\ d \in Field(h, 10)}
     |-> CHOOSE h \in mounted : LooksLike(h, "cgroup") /\ c \in Field(h, 10)]

Init == /\ mounted \in SUBSET Hier
        /\ opt \in [Hier -> OptCounts]
        /\ source \in [Hier -> Sources]
        /\ writable \in BOOLEAN
        /\ \E p \in Paths : target = [h \in Hier |-> p]
        /\ been = [h \in Hier |-> {target[h]}]
        /\ gone = FALSE
        /\ own = [h \in Hier |-> Root]
        /\ pc = "create" /\ manager = "none" /\ v2_mount = "none"
        /\ cgroup_path = "none" /\ cgroups = {}
        /\ result = "none"
-----------------------------------------------------------------------------
\* create_manager.  The last line that looks like cgroup2 gives the mount.
CreateManager ==
  /\ pc = "create"
  /\ IF v2_mounts = {} THEN v2_mount' = "none" ELSE v2_mount' \in v2_mounts
  /\ manager' = CASE has_v1 /\ v2_mounts # {} -> "hybrid"
                  [] has_v1 /\ v2_mounts = {} -> "v1"
                  [] ~has_v1 /\ v2_mounts # {} -> "v2"
                  [] OTHER -> "null"
  /\ pc' = CASE manager' \in {"hybrid", "v2"} -> "v2_read"
             [] manager' = "v1" -> "v1_read"
             [] OTHER -> "done"
  /\ result' = IF manager' = "null" THEN "ok" ELSE "none"
  /\ UNCHANGED <<hostVars, contVars, own, cgroup_path, cgroups>>

ReturnNothing(r) == pc' = "done" /\ UNCHANGED result     \* mutant
Return(r) == pc' = "done" /\ result' = r

\* v2 get_cgroup_path: /proc/<pid>/cgroup of the container's process.  When it
\* is gone the hybrid manager goes on with v1, the v2 manager fails.
V2Read ==
  /\ pc = "v2_read"
  /\ IF ~gone
     THEN pc' = "v2_write" /\ cgroup_path' = target[Unified] /\ UNCHANGED result
     ELSE /\ UNCHANGED cgroup_path
          /\ IF manager = "hybrid" THEN pc' = "v1_read" /\ UNCHANGED result
                                   ELSE Return("err")
  /\ UNCHANGED <<hostVars, contVars, own, manager, v2_mount, cgroups>>

\* The container's process is in no v2 cgroup: a warning and nothing else.  The
\* kernel lists the unified hierarchy once it is mounted.
NotInV2 ==
  /\ pc = "v2_read"
  /\ ~gone /\ Unified \notin mounted
  /\ Return("ok")
  /\ UNCHANGED <<hostVars, contVars, own, manager, v2_mount, cgroup_path, cgroups>>

\* The directory of path p exists in hierarchy h.
DirExists(h, p) == p = Root \/ (~gone /\ p = target[h])

\* The path under the mount: the leading "/" of cgroup_path is trimmed, or
\* else push would replace the mount path by it.
NotTrimmed(p) == "outside"                              \* mutant
Trimmed(p) == p

\* What a failed v2 write leads to: a warning.
WriteErr == "err"                                       \* mutant
WriteWarn == "ok"

\* v2 move_to: append to cgroup.procs.
V2Write ==
  /\ pc = "v2_write"
  /\ IF writable /\ DirExists(v2_mount, Trimmed(cgroup_path))
     THEN own' = [own EXCEPT ![v2_mount] = Trimmed(cgroup_path)] /\ Return("ok")
     ELSE UNCHANGED own /\ Return(WriteWarn)
  /\ UNCHANGED <<hostVars, contVars, manager, v2_mount, cgroup_path, cgroups>>

\* v1 get_cgroups: of a line "5:cpu:/box" what follows ":/", the path.
V1Read ==
  /\ pc = "v1_read"
  /\ IF gone THEN Return("err") /\ UNCHANGED cgroups
             ELSE /\ cgroups' = {target[h] : h \in mounted}
                  /\ pc' = "v1_loop" /\ UNCHANGED result
  /\ UNCHANGED <<hostVars, contVars, own, manager, v2_mount, cgroup_path>>

\* v1 move_to, one path.  cgroup_v1_path looks the path up among the
\* controllers; a file that cannot be opened is a warning, a failing write an
\* error.
V1Path(cgroup) == {get_mounts[c] : c \in {cgroup} \cap DOMAIN get_mounts}

V1Move(cgroup) ==
  /\ pc = "v1_loop"
  /\ cgroup \in cgroups
  /\ cgroups' = cgroups \ {cgroup}
  /\ LET here == {h \in V1Path(cgroup) : DirExists(h, cgroup)}
     IN IF writable
        THEN /\ own' = [h \in Hier |-> IF h \in here THEN cgroup ELSE own[h]]
             /\ UNCHANGED <<pc, result>>
        ELSE UNCHANGED <<own, pc, result>>
  /\ UNCHANGED <<hostVars, contVars, manager, v2_mount, cgroup_path>>

\* tasks could be opened, but the kernel refuses the pid.
V1WriteFails(cgroup) ==
  /\ pc = "v1_loop"
  /\ cgroup \in cgroups /\ writable
  /\ \E h \in V1Path(cgroup) : DirExists(h, cgroup)
  /\ Return("err")
  /\ UNCHANGED <<hostVars, contVars, own, manager, v2_mount, cgroup_path, cgroups>>

V1Done ==
  /\ pc = "v1_loop"
  /\ cgroups = {}
  /\ Return("ok")
  /\ UNCHANGED <<hostVars, contVars, own, manager, v2_mount, cgroup_path, cgroups>>
-----------------------------------------------------------------------------
\* The container's manager moves its process, in all hierarchies.
TargetMoves ==
  /\ ~gone
  /\ \E p \in Paths : target' = [h \in Hier |-> p]
  /\ been' = [h \in Hier |-> been[h] \cup {target'[h]}]
  /\ UNCHANGED <<hostVars, gone, own, locals>>

\* The container ends; nothing is reported of its cgroups any more.
ContainerEnds ==
  /\ ~gone
  /\ gone' = TRUE
  /\ UNCHANGED <<hostVars, target, been, own, locals>>

Terminating == pc = "done" /\ UNCHANGED vars

Next == \/ CreateManager \/ V2Read \/ NotInV2 \/ V2Write \/ V1Read
        \/ \E cgroup \in Paths : V1Move(cgroup) \/ V1WriteFails(cgroup)
        \/ V1Done \/ TargetMoves \/ ContainerEnds \/ Terminating

Spec == Init /\ [][Next]_vars
-----------------------------------------------------------------------------
(***************************************************************************)
(* Properties.                                                             *)
(***************************************************************************)
\* The values of the variables.
TypeOK ==
  /\ mounted \subseteq Hier /\ opt \in [Hier -> OptCounts]
  /\ source \in [Hier -> Sources] /\ writable \in BOOLEAN
  /\ target \in [Hier -> Paths] /\ been \in [Hier -> SUBSET Paths]
  /\ gone \in BOOLEAN
  /\ own \in [Hier -> Paths \cup {Root}]
  /\ pc \in {"create", "v2_read", "v2_write", "v1_read", "v1_loop", "done"}
  /\ manager \in {"none", "hybrid", "v1", "v2", "null"}
  /\ v2_mount \in mounted \cup {"none"}
  /\ cgroup_path \in Paths \cup {"none"} /\ cgroups \subseteq Paths
  /\ result \in {"none", "ok", "err"} /\ (pc = "done" <=> result # "none")

\* On a host where the unified hierarchy is recognised, a writable cgroup that
\* has stayed where it was is joined.
UnifiedJoined ==
  /\ pc = "done" /\ v2_mount = Unified /\ writable /\ ~gone
  /\ been[Unified] = {target[Unified]}
  => own[Unified] = target[Unified]

\* "For unprivileged users (e.g., rootless podman), warn and continue"
\* (src/cgroup.rs:225): without v1 an error means that the container ended.
UnprivilegedContinues == result = "err" /\ manager = "v2" => gone

\* "Move a process into the cgroup of another process" (src/cgroup.rs:332):
\* said of any host, checked on one that mounts v1 hierarchies only.
MovedOnV1 ==
  /\ pc = "done" /\ manager = "v1" /\ result = "ok" /\ writable /\ ~gone
  /\ Unified \notin mounted
  /\ \A h \in Hier : been[h] = {target[h]}
  => \A h \in mounted : own[h] = target[h]
==============================================================================
