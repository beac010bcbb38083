---------------------------- MODULE EnterProofs -----------------------------
(***************************************************************************)
(* Entering a container of any kind on any kernel, with failing calls and  *)
(* a container that ends at any point: the command runs wholly inside,     *)
(* bounded and confined, and only the named causes keep it from running.   *)
(***************************************************************************)
EXTENDS Enter, TLAPS

-----------------------------------------------------------------------------
(***************************************************************************)
(* The inductive invariant.                                                *)
(***************************************************************************)
AttachCalls == {"lookup", "cgroup", "cmd", "open", "root_fd", "unshare", "tmpfs",
                "capture", "return", "join", "gid", "uid", "caps", "profile"}
ExecCalls == {"lookup", "cmd", "cgroup", "open_mnt", "open", "join_mnt", "join",
              "gid", "uid", "caps", "chroot", "profile"}

\* Each mode makes its own calls.
OfMode == pc \in (IF mode = "attach" THEN AttachCalls ELSE ExecCalls)
                   \cup {"run", "failed"}

\* The calls up to the opening of the namespaces, those up to the entering, and
\* those after it.
ToOpening == {"lookup", "cgroup", "cmd", "open_mnt", "open"}
Between == {"root_fd", "unshare", "tmpfs", "capture", "return", "join_mnt"}
AfterJoin == {"gid", "uid", "caps", "chroot", "profile", "run"}

\* The loop that opens the namespaces misses none that differs, and opens no
\* other: at a link it cannot read it gives up.
Opening ==
  /\ pc \notin {"open", "join", "failed"} => n = 1
  /\ opened \subseteq differs
  /\ pc = "open" =>
       \A i \in 1..(n - 1) : Order[i] \in differs => Order[i] \in opened
  /\ pc \in Between \cup {"join"} \cup AfterJoin => differs \ {"mnt"} \subseteq opened

\* The loop that enters them leaves none out.
Joining ==
  /\ pc = "join" => \A i \in 1..(n - 1) : Order[i] \in opened => Order[i] \in joined
  /\ pc \in AfterJoin => opened \subseteq joined

\* Where the child is: attach visits the container's mount namespace between
\* "capture" and "return", exec stays there.
Where ==
  /\ pc \in ToOpening \cup (Between \ {"return"}) => mnt # "box"
  /\ mode = "attach" /\ pc \in {"join"} \cup AfterJoin => mnt # "box"
  /\ mode = "exec" /\ pc \in {"join"} \cup AfterJoin => mnt = "box"
  /\ mode = "exec" /\ pc \in {"profile", "run"} => root = "box"

\* The privileges of the host last until the user namespace is entered, which
\* is the last one; after that only the change of the uid can take them all.
Privileges ==
  /\ pc \in ToOpening \cup Between \/ (pc = "join" /\ n <= Len(Order)) => caps = "host"
  /\ caps = "none" => /\ "user" \in opened /\ rootless /\ user = "other"
                      /\ pc \in {"caps", "chroot", "profile", "run", "failed"}
  /\ pc \in {"chroot", "profile", "run"} => bounded \/ caps = "none"

IInv == /\ TypeOK /\ OfMode /\ Opening /\ Joining /\ Where /\ Privileges
        /\ Confined /\ EntryWorks

-----------------------------------------------------------------------------
(***************************************************************************)
(* The constants.                                                          *)
(***************************************************************************)
\* The calls of the two modes, and the order of the namespaces.
LEMMA CallsOfModes ==
  /\ DOMAIN child_run = AttachCalls
  /\ DOMAIN exec_child = ExecCalls
BY DEF child_run, attach_child, exec_child, AttachCalls, ExecCalls

LEMMA OrderFacts ==
  /\ Len(Order) = 6
  /\ Order[1] = "uts" /\ Order[2] = "cgroup" /\ Order[3] = "pid"
  /\ Order[4] = "net" /\ Order[5] = "ipc" /\ Order[6] = "user"
  /\ Others = {"uts", "cgroup", "pid", "net", "ipc", "user"}
  /\ \A kind \in Others : \E i \in 1..6 : Order[i] = kind
  /\ \A i \in 1..6 : Order[i] \in Others
BY DEF Order, Others

\* A container differs in kinds that exist; all but "mnt" are in the order.
LEMMA KindsDiffer == TypeOK => differs \ {"mnt"} \subseteq Others
BY KernelAssumption DEF TypeOK, Kinds

LEMMA TwoModes == TypeOK => mode \in {"attach", "exec"}
BY ModeAssumption DEF TypeOK

-----------------------------------------------------------------------------
(***************************************************************************)
(* The steps.                                                              *)
(***************************************************************************)
\* Each step leads to a call of the same mode.
LEMMA OfModeStep == TypeOK /\ OfMode /\ [Next]_vars => OfMode'
<1> SUFFICES ASSUME TypeOK, OfMode, [Next]_vars PROVE OfMode'
  OBVIOUS
<1> USE TwoModes DEF OfMode, AttachCalls, ExecCalls, options
<1>1. CASE Read
  BY <1>1 DEF Read, Proceed, After, child_run, attach_child, exec_child
<1>2. CASE OpenMount
  BY <1>2 DEF OpenMount, Proceed, After, child_run, attach_child, exec_child
<1>3. CASE Open
  BY <1>3 DEF Open
<1>4. CASE OpenDone
  BY <1>4 DEF OpenDone, Proceed, After, child_run, attach_child, exec_child
<1>5. CASE Join
  BY <1>5 DEF Join
<1>6. CASE JoinDone
  BY <1>6 DEF JoinDone, Proceed, After, child_run, attach_child, exec_child
<1>7. CASE JoinMount
  BY <1>7 DEF JoinMount, Proceed, After, child_run, attach_child, exec_child
<1>8. CASE Unshare
  BY <1>8 DEF Unshare, Proceed, After, child_run, attach_child, exec_child
<1>9. CASE Tmpfs
  BY <1>9 DEF Tmpfs, Proceed, After, child_run, attach_child, exec_child
<1>10. CASE Capture
  BY <1>10 DEF Capture, Proceed, After, child_run, attach_child, exec_child
<1>11. CASE Return
  BY <1>11 DEF Return, Proceed, After, child_run, attach_child, exec_child
<1>12. CASE SetGid
  BY <1>12 DEF SetGid, Proceed, After, child_run, attach_child, exec_child
<1>13. CASE SetUid
  BY <1>13 DEF SetUid, Proceed, After, child_run, attach_child, exec_child
<1>14. CASE DropCaps
  BY <1>14 DEF DropCaps, Proceed, After, child_run, attach_child, exec_child
<1>15. CASE Chroot
  BY <1>15 DEF Chroot, Proceed, After, child_run, attach_child, exec_child
<1>16. CASE InheritProfile
  BY <1>16 DEF InheritProfile, Proceed, After, child_run, attach_child,
     exec_child
<1>17. CASE Fails
  BY <1>17 DEF Fails
<1>18. CASE Faults
  BY <1>18 DEF Faults
<1>19. CASE ContainerEnds
  BY <1>19 DEF ContainerEnds
<1>20. CASE UNCHANGED vars
  BY <1>20 DEF vars
<1> QED
  BY <1>1, <1>2, <1>3, <1>4, <1>5, <1>6, <1>7, <1>8, <1>9, <1>10, <1>11,
     <1>12, <1>13, <1>14, <1>15, <1>16, <1>17, <1>18, <1>19, <1>20
     DEF Next, Terminating

\* Every step keeps the types.
LEMMA TypeStep == TypeOK /\ OfMode /\ Joining /\ [Next]_vars => TypeOK'
<1> SUFFICES ASSUME TypeOK, OfMode, Joining, [Next]_vars PROVE TypeOK'
  OBVIOUS
<1>0. pc' \in DOMAIN child_run \cup DOMAIN exec_child \cup {"run", "failed"}
  BY OfModeStep, CallsOfModes DEF OfMode
<1> USE OrderFacts DEF TypeOK, options, nsVars, mntVars, creds, ToEnter, InOtherNamespaces
<1>1. CASE Read
  BY <1>1, <1>0 DEF Read, Proceed, After, child_run, attach_child,
     exec_child
<1>2. CASE OpenMount
  BY <1>2, <1>0 DEF OpenMount, Proceed, After, child_run, attach_child,
     exec_child
<1>3. CASE Open
  <2>1. n \in 1..6 /\ n' = n + 1 /\ n' \in 1..7
    BY <1>3 DEF Open
  <2>2. opened' \subseteq Others
    BY <1>3, <2>1 DEF Open
  <2>3. joined \subseteq opened'
    BY <1>3 DEF Open
  <2> QED BY <1>3, <1>0, <2>1, <2>2, <2>3 DEF Open
<1>4. CASE OpenDone
  BY <1>4, <1>0 DEF OpenDone, Proceed, After, child_run, attach_child,
     exec_child
<1>5. CASE Join
  <2>1. n \in 1..6 /\ n' = n + 1 /\ n' \in 1..7
    BY <1>5 DEF Join
  <2>2. joined' \subseteq opened
    BY <1>5, <2>1 DEF Join
  <2>3. caps' \in {"host", "userns", "none"} /\ bounded' \in BOOLEAN
    <3>1. CASE ToEnter /\ Order[n] = "user"
      <4>1. caps' = "userns" /\ bounded' = FALSE
        BY <1>5, <3>1 DEF Join
      <4> QED BY <4>1
    <3>2. CASE ~(ToEnter /\ Order[n] = "user")
      BY <1>5, <3>2 DEF Join
    <3> QED BY <3>1, <3>2
  <2> QED BY <1>5, <1>0, <2>1, <2>2, <2>3 DEF Join
<1>6. CASE JoinDone
  BY <1>6, <1>0 DEF JoinDone, Proceed, After, child_run, attach_child,
     exec_child
<1>7. CASE JoinMount
  BY <1>7, <1>0 DEF JoinMount, Proceed, After, child_run, attach_child,
     exec_child
<1>8. CASE Unshare
  BY <1>8, <1>0 DEF Unshare, Proceed, After, child_run, attach_child,
     exec_child
<1>9. CASE Tmpfs
  BY <1>9, <1>0 DEF Tmpfs, Proceed, After, child_run, attach_child,
     exec_child
<1>10. CASE Capture
  BY <1>10, <1>0 DEF Capture, Proceed, After, child_run, attach_child,
     exec_child
<1>11. CASE Return
  BY <1>11, <1>0 DEF Return, Proceed, After, child_run, attach_child,
     exec_child
<1>12. CASE SetGid
  BY <1>12, <1>0 DEF SetGid, Proceed, After, child_run, attach_child,
     exec_child
<1>13. CASE SetUid
  BY <1>13, <1>0 DEF SetUid, Proceed, After, child_run, attach_child,
     exec_child
<1>14. CASE DropCaps
  BY <1>14, <1>0 DEF DropCaps, Proceed, After, child_run, attach_child,
     exec_child
<1>15. CASE Chroot
  BY <1>15, <1>0 DEF Chroot, Proceed, After, child_run, attach_child,
     exec_child
<1>16. CASE InheritProfile
  BY <1>16, <1>0 DEF InheritProfile, Proceed, After, child_run,
     attach_child, exec_child
<1>17. CASE Fails
  BY <1>17, <1>0 DEF Fails
<1>18. CASE Faults
  BY <1>18, <1>0 DEF Faults
<1>19. CASE ContainerEnds
  <2>1. alive' \in BOOLEAN
    BY <1>19 DEF ContainerEnds
  <2> QED BY <1>19, <1>0, <2>1 DEF ContainerEnds
<1>20. CASE UNCHANGED vars
  BY <1>20 DEF vars
<1> QED
  BY <1>1, <1>2, <1>3, <1>4, <1>5, <1>6, <1>7, <1>8, <1>9, <1>10, <1>11,
     <1>12, <1>13, <1>14, <1>15, <1>16, <1>17, <1>18, <1>19, <1>20
     DEF Next, Terminating

\* The loops over the namespaces.
LEMMA LoopsStep ==
  TypeOK /\ OfMode /\ Opening /\ Joining /\ [Next]_vars => (Opening /\ Joining)'
<1> SUFFICES ASSUME TypeOK, OfMode, Opening, Joining, [Next]_vars
             PROVE  (Opening /\ Joining)'
  OBVIOUS
<1> USE OrderFacts, KindsDiffer, TwoModes DEF OfMode, AttachCalls, ExecCalls, Opening, Joining,
        Between, AfterJoin, ToOpening, options, nsVars
<1>1. CASE Read
  BY <1>1 DEF Read, Proceed, After, child_run, attach_child, exec_child
<1>2. CASE OpenMount
  BY <1>2 DEF OpenMount, Proceed, After, child_run, attach_child, exec_child
<1>3. CASE Open
  <2>1. /\ pc = "open" /\ pc' = "open" /\ n \in 1..6 /\ n' = n + 1
        /\ UNCHANGED <<mode, supported, differs, joined>>
    BY <1>3 DEF Open, TypeOK
  <2>2. CASE ToOpen
    <3>1. Order[n] \in differs
      BY <1>3, <2>1, <2>2 DEF Open, Works, ToOpen, is_same
    <3>2. opened' = opened \cup {Order[n]}
      BY <1>3, <2>2 DEF Open
    <3>3. \A i \in 1..(n' - 1) : i \in 1..(n - 1) \/ i = n
      BY <2>1
    <3> QED BY <2>1, <3>1, <3>2, <3>3
  <2>3. CASE ~ToOpen
    <3>1. Order[n] \notin differs
      BY <2>1, <2>3 DEF ToOpen, is_same, TypeOK
    <3>2. opened' = opened
      BY <1>3, <2>3 DEF Open
    <3>3. \A i \in 1..(n' - 1) : i \in 1..(n - 1) \/ i = n
      BY <2>1
    <3> QED BY <2>1, <3>1, <3>2, <3>3
  <2> QED BY <2>2, <2>3
<1>4. CASE OpenDone
  <2>1. /\ pc = "open" /\ n = 7 /\ n' = 1
        /\ UNCHANGED <<mode, differs, opened, joined>>
    BY <1>4 DEF OpenDone, Proceed, TypeOK
  <2>2. pc' \in Between
    BY <1>4 DEF OpenDone, Proceed, After, child_run, attach_child, exec_child
  <2>3. \A kind \in differs \ {"mnt"} : kind \in opened
    <3>1. TAKE kind \in differs \ {"mnt"}
    <3>2. PICK i \in 1..6 : Order[i] = kind
      BY KindsDiffer
    <3> QED BY <2>1, <3>2
  <2> QED BY <2>1, <2>2, <2>3
<1>5. CASE Join
  <2>1. /\ pc = "join" /\ pc' = "join" /\ n \in 1..6 /\ n' = n + 1
        /\ UNCHANGED <<mode, differs, opened>>
    BY <1>5 DEF Join, TypeOK
  <2>2. joined \subseteq joined' /\ (Order[n] \in opened => Order[n] \in joined')
    BY <1>5, <2>1 DEF Join, ToEnter, InOtherNamespaces
  <2>3. \A i \in 1..(n' - 1) : i \in 1..(n - 1) \/ i = n
    BY <2>1
  <2> QED BY <2>1, <2>2, <2>3
<1>6. CASE JoinDone
  <2>1. /\ pc = "join" /\ n = 7 /\ n' = 1
        /\ UNCHANGED <<mode, differs, opened, joined>>
    BY <1>6 DEF JoinDone, Proceed, TypeOK
  <2>2. pc' = "gid"
    BY <1>6 DEF JoinDone, Proceed, After, child_run, attach_child, exec_child
  <2>3. \A kind \in opened : kind \in joined
    <3>1. TAKE kind \in opened
    <3>2. PICK i \in 1..6 : Order[i] = kind
      BY DEF TypeOK
    <3> QED BY <2>1, <3>2
  <2> QED BY <2>1, <2>2, <2>3
<1>7. CASE JoinMount
  BY <1>7 DEF JoinMount, Proceed, After, child_run, attach_child, exec_child
<1>8. CASE Unshare
  BY <1>8 DEF Unshare, Proceed, After, child_run, attach_child, exec_child
<1>9. CASE Tmpfs
  BY <1>9 DEF Tmpfs, Proceed, After, child_run, attach_child, exec_child
<1>10. CASE Capture
  BY <1>10 DEF Capture, Proceed, After, child_run, attach_child, exec_child
<1>11. CASE Return
  BY <1>11 DEF Return, Proceed, After, child_run, attach_child, exec_child
<1>12. CASE SetGid
  BY <1>12 DEF SetGid, Proceed, After, child_run, attach_child, exec_child
<1>13. CASE SetUid
  BY <1>13 DEF SetUid, Proceed, After, child_run, attach_child, exec_child
<1>14. CASE DropCaps
  BY <1>14 DEF DropCaps, Proceed, After, child_run, attach_child, exec_child
<1>15. CASE Chroot
  BY <1>15 DEF Chroot, Proceed, After, child_run, attach_child, exec_child
<1>16. CASE InheritProfile
  BY <1>16 DEF InheritProfile, Proceed, After, child_run, attach_child,
     exec_child
<1>17. CASE Fails
  BY <1>17 DEF Fails
<1>18. CASE Faults
  BY <1>18 DEF Faults
<1>19. CASE ContainerEnds
  BY <1>19 DEF ContainerEnds
<1>20. CASE UNCHANGED vars
  BY <1>20 DEF vars
<1> QED
  BY <1>1, <1>2, <1>3, <1>4, <1>5, <1>6, <1>7, <1>8, <1>9, <1>10, <1>11,
     <1>12, <1>13, <1>14, <1>15, <1>16, <1>17, <1>18, <1>19, <1>20
     DEF Next, Terminating

\* The mount namespace and the root.
LEMMA WhereStep == TypeOK /\ OfMode /\ Where /\ [Next]_vars => Where'
<1> SUFFICES ASSUME TypeOK, OfMode, Where, [Next]_vars PROVE Where'
  OBVIOUS
<1> USE TwoModes DEF OfMode, AttachCalls, ExecCalls, Where,
        Between, AfterJoin, ToOpening, options, mntVars
<1>1. CASE Read
  BY <1>1 DEF Read, Proceed, After, child_run, attach_child, exec_child
<1>2. CASE OpenMount
  BY <1>2 DEF OpenMount, Proceed, After, child_run, attach_child, exec_child
<1>3. CASE Open
  BY <1>3 DEF Open
<1>4. CASE OpenDone
  BY <1>4 DEF OpenDone, Proceed, After, child_run, attach_child, exec_child
<1>5. CASE Join
  BY <1>5 DEF Join
<1>6. CASE JoinDone
  BY <1>6 DEF JoinDone, Proceed, After, child_run, attach_child, exec_child
<1>7. CASE JoinMount
  BY <1>7 DEF JoinMount, Proceed, After, child_run, attach_child, exec_child
<1>8. CASE Unshare
  BY <1>8 DEF Unshare, Proceed, After, child_run, attach_child, exec_child
<1>9. CASE Tmpfs
  BY <1>9 DEF Tmpfs, Proceed, After, child_run, attach_child, exec_child
<1>10. CASE Capture
  BY <1>10 DEF Capture, Proceed, After, child_run, attach_child, exec_child
<1>11. CASE Return
  BY <1>11 DEF Return, Proceed, After, child_run, attach_child, exec_child
<1>12. CASE SetGid
  BY <1>12 DEF SetGid, Proceed, After, child_run, attach_child, exec_child
<1>13. CASE SetUid
  BY <1>13 DEF SetUid, Proceed, After, child_run, attach_child, exec_child
<1>14. CASE DropCaps
  BY <1>14 DEF DropCaps, Proceed, After, child_run, attach_child, exec_child
<1>15. CASE Chroot
  BY <1>15 DEF Chroot, Proceed, After, child_run, attach_child, exec_child
<1>16. CASE InheritProfile
  BY <1>16 DEF InheritProfile, Proceed, After, child_run, attach_child,
     exec_child
<1>17. CASE Fails
  BY <1>17 DEF Fails
<1>18. CASE Faults
  BY <1>18 DEF Faults
<1>19. CASE ContainerEnds
  BY <1>19 DEF ContainerEnds
<1>20. CASE UNCHANGED vars
  BY <1>20 DEF vars
<1> QED
  BY <1>1, <1>2, <1>3, <1>4, <1>5, <1>6, <1>7, <1>8, <1>9, <1>10, <1>11,
     <1>12, <1>13, <1>14, <1>15, <1>16, <1>17, <1>18, <1>19, <1>20
     DEF Next, Terminating

\* The privileges.
LEMMA PrivilegesStep ==
  TypeOK /\ OfMode /\ Privileges /\ [Next]_vars => Privileges'
<1> SUFFICES ASSUME TypeOK, OfMode, Privileges, [Next]_vars PROVE Privileges'
  OBVIOUS
<1> USE OrderFacts, TwoModes DEF OfMode, AttachCalls, ExecCalls, Privileges,
        Between, AfterJoin, ToOpening, options, nsVars, creds, ToEnter,
        InOtherNamespaces, in_user_ns
<1>1. CASE Read
  BY <1>1 DEF Read, Proceed, After, child_run, attach_child, exec_child
<1>2. CASE OpenMount
  BY <1>2 DEF OpenMount, Proceed, After, child_run, attach_child, exec_child
<1>3. CASE Open
  BY <1>3 DEF Open
<1>4. CASE OpenDone
  BY <1>4 DEF OpenDone, Proceed, After, child_run, attach_child, exec_child
<1>5. CASE Join
  <2>1. /\ pc = "join" /\ pc' = "join" /\ n \in 1..6 /\ n' = n + 1
        /\ UNCHANGED <<rootless, user, opened>>
    BY <1>5 DEF Join, TypeOK
  <2>2. CASE ToEnter /\ Order[n] = "user"
    <3>1. n = 6 /\ caps' = "userns"
      BY <1>5, <2>1, <2>2 DEF Join
    <3> QED BY <2>1, <3>1
  <2>3. CASE ~(ToEnter /\ Order[n] = "user")
    BY <1>5, <2>1, <2>3 DEF Join
  <2> QED BY <2>2, <2>3
<1>6. CASE JoinDone
  BY <1>6 DEF JoinDone, Proceed, After, child_run, attach_child, exec_child
<1>7. CASE JoinMount
  BY <1>7 DEF JoinMount, Proceed, After, child_run, attach_child, exec_child
<1>8. CASE Unshare
  BY <1>8 DEF Unshare, Proceed, After, child_run, attach_child, exec_child
<1>9. CASE Tmpfs
  BY <1>9 DEF Tmpfs, Proceed, After, child_run, attach_child, exec_child
<1>10. CASE Capture
  BY <1>10 DEF Capture, Proceed, After, child_run, attach_child, exec_child
<1>11. CASE Return
  BY <1>11 DEF Return, Proceed, After, child_run, attach_child, exec_child
<1>12. CASE SetGid
  BY <1>12 DEF SetGid, Proceed, After, child_run, attach_child, exec_child
<1>13. CASE SetUid
  BY <1>13 DEF SetUid, Proceed, After, child_run, attach_child, exec_child
<1>14. CASE DropCaps
  BY <1>14 DEF DropCaps, Proceed, After, child_run, attach_child, exec_child
<1>15. CASE Chroot
  BY <1>15 DEF Chroot, Proceed, After, child_run, attach_child, exec_child
<1>16. CASE InheritProfile
  BY <1>16 DEF InheritProfile, Proceed, After, child_run, attach_child,
     exec_child
<1>17. CASE Fails
  BY <1>17 DEF Fails
<1>18. CASE Faults
  BY <1>18 DEF Faults
<1>19. CASE ContainerEnds
  BY <1>19 DEF ContainerEnds
<1>20. CASE UNCHANGED vars
  BY <1>20 DEF vars
<1> QED
  BY <1>1, <1>2, <1>3, <1>4, <1>5, <1>6, <1>7, <1>8, <1>9, <1>10, <1>11,
     <1>12, <1>13, <1>14, <1>15, <1>16, <1>17, <1>18, <1>19, <1>20
     DEF Next, Terminating

\* The profile, whose change is the last call.
LEMMA ConfinedStep == TypeOK /\ OfMode /\ Confined /\ [Next]_vars => Confined'
<1> SUFFICES ASSUME TypeOK, OfMode, Confined, [Next]_vars PROVE Confined'
  OBVIOUS
<1> USE TwoModes DEF OfMode, AttachCalls, ExecCalls, Confined, options, creds
<1>1. CASE Read
  BY <1>1 DEF Read, Proceed, After, child_run, attach_child, exec_child
<1>2. CASE OpenMount
  BY <1>2 DEF OpenMount, Proceed, After, child_run, attach_child, exec_child
<1>3. CASE Open
  BY <1>3 DEF Open
<1>4. CASE OpenDone
  BY <1>4 DEF OpenDone, Proceed, After, child_run, attach_child, exec_child
<1>5. CASE Join
  BY <1>5 DEF Join
<1>6. CASE JoinDone
  BY <1>6 DEF JoinDone, Proceed, After, child_run, attach_child, exec_child
<1>7. CASE JoinMount
  BY <1>7 DEF JoinMount, Proceed, After, child_run, attach_child, exec_child
<1>8. CASE Unshare
  BY <1>8 DEF Unshare, Proceed, After, child_run, attach_child, exec_child
<1>9. CASE Tmpfs
  BY <1>9 DEF Tmpfs, Proceed, After, child_run, attach_child, exec_child
<1>10. CASE Capture
  BY <1>10 DEF Capture, Proceed, After, child_run, attach_child, exec_child
<1>11. CASE Return
  BY <1>11 DEF Return, Proceed, After, child_run, attach_child, exec_child
<1>12. CASE SetGid
  BY <1>12 DEF SetGid, Proceed, After, child_run, attach_child, exec_child
<1>13. CASE SetUid
  BY <1>13 DEF SetUid, Proceed, After, child_run, attach_child, exec_child
<1>14. CASE DropCaps
  BY <1>14 DEF DropCaps, Proceed, After, child_run, attach_child, exec_child
<1>15. CASE Chroot
  BY <1>15 DEF Chroot, Proceed, After, child_run, attach_child, exec_child
<1>16. CASE InheritProfile
  BY <1>16 DEF InheritProfile, Proceed, After, child_run, attach_child,
     exec_child
<1>17. CASE Fails
  BY <1>17 DEF Fails
<1>18. CASE Faults
  BY <1>18 DEF Faults
<1>19. CASE ContainerEnds
  BY <1>19 DEF ContainerEnds
<1>20. CASE UNCHANGED vars
  BY <1>20 DEF vars
<1> QED
  BY <1>1, <1>2, <1>3, <1>4, <1>5, <1>6, <1>7, <1>8, <1>9, <1>10, <1>11,
     <1>12, <1>13, <1>14, <1>15, <1>16, <1>17, <1>18, <1>19, <1>20
     DEF Next, Terminating

\* While the container lives, each call has what it needs: only the two
\* obstacles of exec stand in the way.
LEMMA CallsWork ==
  ASSUME TypeOK, OfMode, Opening, Where, Privileges,
         Running, alive, "mnt" \in supported, ~Works
  PROVE  ChrootForbidden \/ ProfileHidden
<1> USE TwoModes DEF OfMode, AttachCalls, ExecCalls, ToOpening, Between, AfterJoin
<1>1. ASSUME mnt # "box" PROVE ProcOfContainer
  BY <1>1 DEF ProcOfContainer, OwnProc
<1>2. pc \notin ToOpening \cup Between
  <2>1. ASSUME pc \in ToOpening \cup Between PROVE Works
    <3>1. caps = "host"
      BY <2>1 DEF Privileges
    <3>2. pc # "return" => ProcOfContainer
      BY <1>1, <2>1 DEF Where
    <3> QED BY <2>1, <3>1, <3>2 DEF Works
  <2> QED BY <2>1
<1>3. pc # "join"
  <2>1. ASSUME pc = "join", ToEnter PROVE caps = "host"
    BY <2>1 DEF Privileges, ToEnter
  <2> QED BY <2>1 DEF Works
<1>4. pc \notin {"gid", "uid"}
  <2>1. ASSUME pc \in {"gid", "uid"} PROVE caps # "none"
    BY <2>1 DEF Privileges
  <2> QED BY <2>1 DEF Works
<1>5. pc # "caps"
  BY DEF Works
<1>6. CASE pc = "chroot"
  <2>1. caps = "none"
    BY <1>6 DEF Works
  <2>2. "user" \in differs /\ rootless /\ user = "other"
    BY <2>1 DEF Privileges, Opening
  <2> QED BY <1>6, <2>2 DEF ChrootForbidden
<1>7. CASE pc = "profile"
  <2>1. confined /\ ~OwnProc
    BY <1>7 DEF Works
  <2>2. mnt = "box" /\ {"mnt", "pid"} \subseteq differs
    BY <2>1 DEF OwnProc
  <2> QED BY <1>7, <2>1, <2>2 DEF ProfileHidden, Where
<1> QED BY <1>2, <1>3, <1>4, <1>5, <1>6, <1>7 DEF Running

\* What stands in the way does not go away, and a container that has ended and
\* a call that has failed stay so.
LEMMA EntryWorksStep ==
  ASSUME TypeOK, OfMode, Opening, Where, Privileges, EntryWorks, [Next]_vars
  PROVE  EntryWorks'
<1> USE DEF options
<1>1. UNCHANGED options /\ (alive' => alive) /\ (fault => fault')
  BY DEF Next, Read, OpenMount, Open, OpenDone, Join, JoinDone, JoinMount, Unshare,
         Tmpfs, Capture, Return, SetGid, SetUid, DropCaps, Chroot, InheritProfile,
         Fails, Faults, ContainerEnds, Terminating, Proceed, vars
<1>2. (ChrootForbidden => ChrootForbidden') /\ (ProfileHidden => ProfileHidden')
  BY <1>1 DEF ChrootForbidden, ProfileHidden
<1>3. CASE pc = "failed"
  BY <1>1, <1>2, <1>3 DEF EntryWorks
<1>4. CASE pc # "failed" /\ pc' # "failed"
  BY <1>4 DEF EntryWorks
<1>5. CASE pc # "failed" /\ pc' = "failed"
  <2>1. Fails \/ Faults
    BY <1>5, OfModeStep, TwoModes
       DEF Next, Read, OpenMount, Open, OpenDone, Join, JoinDone, JoinMount, Unshare,
           Tmpfs, Capture, Return, SetGid, SetUid, DropCaps, Chroot, InheritProfile,
           ContainerEnds, Terminating, Proceed, vars, After, child_run, attach_child,
           exec_child, OfMode, AttachCalls, ExecCalls
  <2>2. CASE Faults
    BY <2>2 DEF Faults, EntryWorks
  <2>3. CASE Fails
    BY <2>3, <1>1, <1>2, CallsWork DEF Fails, EntryWorks
  <2> QED BY <2>1, <2>2, <2>3
<1> QED BY <1>3, <1>4, <1>5

-----------------------------------------------------------------------------
(***************************************************************************)
(* The theorems.                                                           *)
(***************************************************************************)
\* The start.
LEMMA InitInv == Init => IInv
<1> SUFFICES ASSUME Init PROVE IInv
  OBVIOUS
<1>1. TypeOK
  <2>1. alive \in BOOLEAN /\ fault \in BOOLEAN /\ bounded \in BOOLEAN
    BY DEF Init
  <2>2. rootless \in BOOLEAN /\ confined \in BOOLEAN
    BY DEF Init
  <2>3. pc \in DOMAIN child_run /\ n \in 1..(Len(Order) + 1)
    BY CallsOfModes, OrderFacts DEF Init, AttachCalls
  <2> QED BY <2>1, <2>2, <2>3 DEF Init, TypeOK
<1>2. OfMode
  BY DEF Init, OfMode, AttachCalls, ExecCalls
<1>3. Opening /\ Joining
  BY DEF Init, Opening, Joining, Between, AfterJoin
<1>4. Where /\ Privileges
  BY DEF Init, Where, Privileges, ToOpening, Between, AfterJoin
<1>5. Confined /\ EntryWorks
  BY DEF Init, Confined, EntryWorks
<1> QED BY <1>1, <1>2, <1>3, <1>4, <1>5 DEF IInv

\* IInv is an invariant.
LEMMA Invariance == Spec => []IInv
<1>1. IInv /\ [Next]_vars => IInv'
  BY TypeStep, OfModeStep, LoopsStep, WhereStep, PrivilegesStep, ConfinedStep,
     EntryWorksStep DEF IInv
<1> QED BY <1>1, InitInv, PTL DEF Spec

\* The variables keep their types: setns is called only for namespaces that
\* were opened.
THEOREM TypeCorrect == Spec => []TypeOK
<1>1. IInv => TypeOK
  BY DEF IInv
<1> QED BY <1>1, Invariance, PTL

\* No command runs half inside: each namespace in which the container differs
\* was entered, on every kernel and whenever the container ends.
THEOREM WhollyInside == Spec => []AllJoined
<1>1. IInv => AllJoined
  BY TwoModes DEF IInv, AllJoined, Opening, Joining, Where, AfterJoin
<1> QED BY <1>1, Invariance, PTL

\* No command runs with a larger bounding set than the container's, unless the
\* change of the uid has taken the privilege to reduce it.
THEOREM BoundedSet == Spec => []Bounded
<1>1. IInv => Bounded
  BY DEF IInv, Bounded, Privileges
<1> QED BY <1>1, Invariance, PTL

\* No command of a confined container runs without its profile.
THEOREM ConfinedCommand == Spec => []Confined
<1>1. IInv => Confined
  BY DEF IInv
<1> QED BY <1>1, Invariance, PTL

\* The way in works for all sets of differing namespaces: what stops it is a
\* fault, the end of the container or one of the two obstacles of exec.
THEOREM OnlyNamedObstacles == Spec => []EntryWorks
<1>1. IInv => EntryWorks
  BY DEF IInv
<1> QED BY <1>1, Invariance, PTL
=============================================================================
