-------------------------------- MODULE Enter --------------------------------
(***************************************************************************)
(* The way of cntr's child into the container: which system calls `attach` *)
(* (child::run) and `exec` (exec_child, enter_container,                   *)
(* exec_in_container) make in which order, and what each of them needs of  *)
(* the ones before.  The container may end at any time; a namespace that   *)
(* was opened before stays.                                                *)
(*                                                                         *)
(* Three rules of the kernel shape the order.  /proc/<pid> and /proc/self  *)
(* are those of the PID namespace of the mounted procfs, and the child is  *)
(* never itself in the container's PID namespace: setns puts only its      *)
(* children there.  Entering a user namespace trades the privileges of the *)
(* host for those of that namespace, with a full bounding set.  And a      *)
(* change from its uid 0 to another uid gives all privileges up.           *)
(***************************************************************************)
EXTENDS Naturals, Sequences

CONSTANTS
  Modes,           \* subset of {"attach", "exec"}
  Kernels,         \* sets of namespace kinds: what kernels support
  Users,           \* subset of {"root", "other"}: users of the container
  MayFail,         \* system calls fail that normally do not
  MayEnd           \* the container ends meanwhile

\* other_kinds, in the order in which they are opened and entered.
UserFirst == <<"user", "uts", "cgroup", "pid", "net", "ipc">>       \* mutant
Order == <<"uts", "cgroup", "pid", "net", "ipc", "user">>
Others == {Order[i] : i \in 1..Len(Order)}
Kinds == Others \cup {"mnt"}

ASSUME ModeAssumption == Modes \subseteq {"attach", "exec"}
ASSUME KernelAssumption == \A s \in Kernels : s \subseteq Kinds
ASSUME UserAssumption == Users \subseteq {"root", "other"}
ASSUME EnterFlags == MayFail \in BOOLEAN /\ MayEnd \in BOOLEAN

\* The order of the calls.  Steps that neither need nor change anything here
\* (opening a terminal, the ready message) are left out.
exec_child ==
  [lookup |-> "cmd", cmd |-> "cgroup", cgroup |-> "open_mnt",
   open_mnt |-> "open", open |-> "join_mnt", join_mnt |-> "join",
   join |-> "gid", gid |-> "uid", uid |-> "caps", caps |-> "chroot",
   chroot |-> "profile", profile |-> "run"]

attach_child ==
  [lookup |-> "cgroup", cgroup |-> "cmd", cmd |-> "open", open |-> "root_fd",
   root_fd |-> "unshare", unshare |-> "tmpfs", tmpfs |-> "capture",
   capture |-> "return", return |-> "join", join |-> "gid", gid |-> "uid",
   uid |-> "caps", caps |-> "profile", profile |-> "run"]

\* mutants: the capabilities before the namespaces; no profile.
CapsFirst == [attach_child EXCEPT !.return = "caps", !.caps = "join", !.uid = "profile"]
NoProfile == [attach_child EXCEPT !.caps = "run"]
child_run == attach_child

VARIABLES
  mode,            \* "attach" or "exec"
  supported,       \* namespaces::supported_namespaces
  differs,         \* the kinds in which the container is not where cntr is
  rootless,        \* cntr's own uid is uid 0 of the container's user namespace
  user,            \* the container's user, in its user namespace
  confined,        \* its AppArmor profile is another than cntr's, mode auto
  alive,           \* the container has not ended
  pc,              \* the next call, "run" or "failed"
  n,               \* position in Order in a loop over the namespaces
  opened,          \* the namespaces in other_namespaces
  joined,          \* the namespaces setns was called for
  mnt,             \* the mount namespace: "host", "private" or "box"
  trees,           \* the container's file systems: "none", "held" or "mounted"
  uid, gid,        \* "own" or "box"
  caps,            \* privileges of the "host", of the "userns" or "none"
  bounded,         \* the bounding set is reduced to the container's
  root,            \* root directory: "host" or "box"
  label,           \* AppArmor profile: "own" or "box"
  fault            \* a call failed that normally does not

options == <<mode, supported, differs, rootless, user, confined>>
nsVars  == <<n, opened, joined>>
mntVars == <<mnt, trees, root>>
creds   == <<uid, gid, caps, bounded, label>>
vars == <<options, alive, pc, nsVars, mntVars, creds, fault>>

Init == /\ mode \in Modes
        /\ supported \in Kernels
        /\ differs \in SUBSET supported
        /\ rootless \in BOOLEAN /\ user \in Users /\ confined \in BOOLEAN
        /\ alive = TRUE
        /\ pc = "lookup"
        /\ n = 1 /\ opened = {} /\ joined = {}
        /\ mnt = "host" /\ trees = "none" /\ root = "host"
        /\ uid = "own" /\ gid = "own" /\ caps = "host" /\ bounded = FALSE
        /\ label = "own"
        /\ fault = FALSE
-----------------------------------------------------------------------------
(***************************************************************************)
(* What a call needs.                                                      *)
(***************************************************************************)
\* The procfs at hand is that of cntr's PID namespace.  A container with a mount
\* namespace of its own has a procfs of its own PID namespace in it.
OwnProc == mnt # "box" \/ ~({"mnt", "pid"} \subseteq differs)

\* /proc/<pid> of the container can be read.
ProcOfContainer == alive /\ OwnProc

\* in_user_ns: the user namespace is another one and was opened.
in_user_ns == "user" \in opened

\* is_same: the links are compared; one that cannot be read differs.
is_same_unless_readable(kind) == kind \notin differs \/ ~ProcOfContainer \* mutant
is_same(kind) == kind \notin differs /\ ProcOfContainer

\* other_namespaces holds the kind.
AnySupported(kind) == kind \in supported                             \* mutant
InOtherNamespaces(kind) == kind \in opened

\* The loops over the namespaces: the current kind has to be opened, entered.
ToOpen == n <= Len(Order) /\ Order[n] \in supported /\ ~is_same(Order[n])
ToEnter == n <= Len(Order) /\ InOtherNamespaces(Order[n])

\* Entering a namespace takes the privileges of the host.
Works ==
  CASE pc \in {"lookup", "cgroup", "cmd", "root_fd"} -> ProcOfContainer
    [] pc = "open_mnt" -> "mnt" \in supported /\ ProcOfContainer
    [] pc = "open" -> "mnt" \in supported /\ (ToOpen => ProcOfContainer)
    [] pc = "join" -> ToEnter => caps = "host"
    [] pc = "capture" -> caps = "host" /\ ProcOfContainer
    [] pc \in {"unshare", "tmpfs", "return", "join_mnt"} -> caps = "host"
    [] pc \in {"gid", "uid"} -> in_user_ns => caps # "none"
    [] pc = "chroot" -> caps # "none"
    [] pc = "profile" -> confined => OwnProc
    [] OTHER -> TRUE

Running == pc \notin {"run", "failed"}

\* The call after the current one.
After == IF mode = "attach" THEN child_run[pc] ELSE exec_child[pc]

Proceed == /\ Works
           /\ pc' = After
           /\ UNCHANGED <<options, alive, fault>>

(***************************************************************************)
(* Lookup, cgroup and command: /proc/<pid> is read, by the parent before   *)
(* the fork and by the child.  The v2 manager of the cgroup step fails too *)
(* when the container is gone; module Cgroup has the step itself.          *)
(***************************************************************************)
Read == /\ pc \in {"lookup", "cgroup", "cmd", "root_fd"}
        /\ Proceed
        /\ UNCHANGED <<nsVars, mntVars, creds>>

OpenMount == pc = "open_mnt" /\ Proceed /\ UNCHANGED <<nsVars, mntVars, creds>>

\* One kind of the loop that opens the namespaces.
Open ==
  /\ pc = "open" /\ n <= Len(Order) /\ Works
  /\ opened' = IF ToOpen THEN opened \cup {Order[n]} ELSE opened
  /\ n' = n + 1
  /\ UNCHANGED <<options, alive, pc, joined, mntVars, creds, fault>>

OpenDone ==
  /\ pc = "open" /\ n > Len(Order)
  /\ Proceed
  /\ n' = 1
  /\ UNCHANGED <<opened, joined, mntVars, creds>>

\* One namespace of the loop that enters them; the user namespace brings
\* privileges and a bounding set of its own.
Join ==
  /\ pc = "join" /\ n <= Len(Order) /\ Works
  /\ joined' = IF ToEnter THEN joined \cup {Order[n]} ELSE joined
  /\ IF ToEnter /\ Order[n] = "user"
     THEN caps' = "userns" /\ bounded' = FALSE
     ELSE UNCHANGED <<caps, bounded>>
  /\ n' = n + 1
  /\ UNCHANGED <<options, alive, pc, opened, mntVars, uid, gid, label, fault>>

JoinDone ==
  /\ pc = "join" /\ n > Len(Order)
  /\ Proceed
  /\ n' = 1
  /\ UNCHANGED <<opened, joined, mntVars, creds>>

(***************************************************************************)
(* Mounts.  exec stays in the container's mount namespace; attach goes     *)
(* there to clone its trees, returns to a private copy of the host's and   *)
(* attaches them.                                                          *)
(***************************************************************************)
JoinMount == /\ pc = "join_mnt" /\ Proceed
             /\ mnt' = "box"
             /\ UNCHANGED <<trees, root, nsVars, creds>>

Unshare == /\ pc = "unshare" /\ Proceed
           /\ mnt' = "private"
           /\ UNCHANGED <<trees, root, nsVars, creds>>

Tmpfs == pc = "tmpfs" /\ Proceed /\ UNCHANGED <<nsVars, mntVars, creds>>

\* A tree that cannot be cloned or attached is a warning.
Capture == /\ pc = "capture" /\ Proceed
           /\ mnt' = "box" /\ trees' = "held"
           /\ UNCHANGED <<root, nsVars, creds>>

Return == /\ pc = "return" /\ Proceed
          /\ mnt' = "private" /\ trees' = "mounted"
          /\ UNCHANGED <<root, nsVars, creds>>

(***************************************************************************)
(* apply_security_context.                                                 *)
(***************************************************************************)
SetGid == /\ pc = "gid" /\ Proceed
          /\ gid' = IF in_user_ns THEN "box" ELSE gid
          /\ UNCHANGED <<uid, caps, bounded, label, nsVars, mntVars>>

SetUid == /\ pc = "uid" /\ Proceed
          /\ uid' = IF in_user_ns THEN "box" ELSE uid
          /\ caps' = IF in_user_ns /\ rootless /\ user = "other"
                     THEN "none" ELSE caps
          /\ UNCHANGED <<gid, bounded, label, nsVars, mntVars>>

\* capabilities::drop ignores that it is not allowed to.
DropCaps == /\ pc = "caps" /\ Proceed
            /\ bounded' = (bounded \/ caps # "none")
            /\ UNCHANGED <<uid, gid, caps, label, nsVars, mntVars>>

(***************************************************************************)
(* exec_in_container, and the profile of both modes.                       *)
(***************************************************************************)
Chroot == /\ pc = "chroot" /\ Proceed
          /\ root' = "box"
          /\ UNCHANGED <<mnt, trees, nsVars, creds>>

InheritProfile == /\ pc = "profile" /\ Proceed
                  /\ label' = IF confined THEN "box" ELSE label
                  /\ UNCHANGED <<uid, gid, caps, bounded, nsVars, mntVars>>

\* A call that does not work, and one that fails though it should.
Fails == /\ Running /\ ~Works
         /\ pc' = "failed"
         /\ UNCHANGED <<options, alive, nsVars, mntVars, creds, fault>>

Faults == /\ MayFail /\ Running
          /\ pc' = "failed" /\ fault' = TRUE
          /\ UNCHANGED <<options, alive, nsVars, mntVars, creds>>

ContainerEnds == /\ MayEnd /\ alive
                 /\ alive' = FALSE
                 /\ UNCHANGED <<options, pc, nsVars, mntVars, creds, fault>>
-----------------------------------------------------------------------------
Terminating == ~Running /\ UNCHANGED vars

Next == \/ Read \/ OpenMount \/ Open \/ OpenDone \/ Join \/ JoinDone
        \/ JoinMount \/ Unshare \/ Tmpfs \/ Capture \/ Return
        \/ SetGid \/ SetUid \/ DropCaps \/ Chroot \/ InheritProfile
        \/ Fails \/ Faults \/ ContainerEnds \/ Terminating

Spec == Init /\ [][Next]_vars
-----------------------------------------------------------------------------
(***************************************************************************)
(* Properties.                                                             *)
(***************************************************************************)
\* The values of the variables.
TypeOK ==
  /\ mode \in Modes /\ supported \in Kernels /\ differs \subseteq supported
  /\ rootless \in BOOLEAN /\ user \in Users /\ confined \in BOOLEAN
  /\ alive \in BOOLEAN /\ fault \in BOOLEAN
  /\ pc \in DOMAIN child_run \cup DOMAIN exec_child \cup {"run", "failed"}
  /\ n \in 1..(Len(Order) + 1)
  /\ opened \subseteq Others /\ joined \subseteq opened
  /\ mnt \in {"host", "private", "box"}
  /\ trees \in {"none", "held", "mounted"} /\ root \in {"host", "box"}
  /\ uid \in {"own", "box"} /\ gid \in {"own", "box"}
  /\ caps \in {"host", "userns", "none"} /\ bounded \in BOOLEAN
  /\ label \in {"own", "box"}

\* The command runs only after setns was called for every namespace in which
\* the container differs, also when it ends in the middle of the opening: no
\* command runs half inside.
AllJoined ==
  pc = "run" => /\ differs \ {"mnt"} \subseteq joined
                /\ mode = "exec" => mnt = "box" /\ root = "box"

\* The bounding set of the command is the container's, unless the change of
\* the uid had given up the privilege to reduce it.
Bounded == pc = "run" => bounded \/ caps = "none"

\* The command runs with the container's profile, or not at all.
Confined == pc = "run" /\ confined => label = "box"

\* exec calls chroot after the change of the uid, and reaches /proc/self in the
\* container's procfs.
ChrootForbidden ==
  mode = "exec" /\ "user" \in differs /\ rootless /\ user = "other"
ProfileHidden == mode = "exec" /\ confined /\ {"mnt", "pid"} \subseteq differs

\* While the container lives and no call fails of itself, the command is
\* reached, whatever the container differs in: each call comes before the one
\* that takes its means away, but for those two of exec.
EntryWorks ==
  pc = "failed" /\ "mnt" \in supported
    => fault \/ ~alive \/ ChrootForbidden \/ ProfileHidden

\* "By default, cntr automatically inherits the AppArmor security profile from
\* the target container" (README.md:405), "for both `attach` and `exec`".
ProfileInherited ==
  pc = "failed" /\ confined /\ user = "root" /\ "mnt" \in supported
    => fault \/ ~alive
==============================================================================
