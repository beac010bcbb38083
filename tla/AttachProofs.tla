---------------------------- MODULE AttachProofs -----------------------------
(***************************************************************************)
(* What holds of the three processes of `cntr attach` in every             *)
(* interleaving, with and without failing calls and signals.               *)
(***************************************************************************)
EXTENDS Attach, TLAPS

-----------------------------------------------------------------------------
(***************************************************************************)
(* The inductive invariant.                                                *)
(***************************************************************************)
BothMaps == {"uid_map", "gid_map"}

\* How far the helper is, and what it has written by then.
HelperProgress ==
  /\ helper \in {"none", "unshare", "uid_map"} => maps = {}
  /\ helper = "gid_map" => maps = {"uid_map"}
  /\ helper \in {"ready", "sleep"} => maps = BothMaps

\* The ready byte is written once, after both maps; the parent goes on only
\* with it, so that the namespace it opens has both.
ByteAfterMaps ==
  /\ pipe # 0 \/ parent = "open_userns" \/ userns_fd # "none" =>
       maps = BothMaps /\ helper \in {"sleep", "zombie", "reaped"}
  /\ userns_fd # "host"

\* What the parent has not forked yet does not exist.
NotForkedYet ==
  /\ parent \in {"start", "pipe", "fork_helper"} => helper = "none"
  /\ parent \in {"start", "pipe", "fork_helper", "read_ready", "open_userns",
                 "socketpair", "fork"} => child = "none" /\ queue = {}
  /\ child = "none" => idmapped = "none"

\* An IdmapHelper exists from the opening of the namespace to the exit, and
\* on the way of an error return there is one.
HelperOwned ==
  /\ parent # "exited" => (idmap_helper <=> userns_fd # "none")
  /\ parent = "drop" => idmap_helper

BeforeSend == {"cgroup", "cmd", "open_ns", "base_dir", "unshare", "private",
               "idmap", "tmpfs", "capture", "enter_ns", "pty", "security", "send"}
AfterSend == {"profile", "exec", "run"}

\* A child that has not sent its message holds the socket, and the message of
\* one that has is in the socket until the parent takes it.
Announced ==
  /\ child \in BeforeSend => "child" \in sockC
  /\ parent = "recv" /\ child \in AfterSend => queue # {}

\* Only the parent holds its end of the socket, and none once it has ended.
ParentListens == /\ sockP \subseteq {"parent"}
                 /\ parent = "exited" => sockP = {}

IInv == /\ TypeOK
        /\ HelperProgress /\ ByteAfterMaps /\ NotForkedYet
        /\ HelperOwned /\ Announced /\ ParentListens
        /\ IdmapComplete /\ HelperReapedOnError
-----------------------------------------------------------------------------
(***************************************************************************)
(* Types.                                                                  *)
(***************************************************************************)
\* The step that follows a step of child::run, and whether it is still before
\* the ready message.
LEMMA AfterType ==
  ASSUME NEW s \in Steps \ {"exec"}
  PROVE  /\ After(s) \in Steps
         /\ s \in BeforeSend \ {"send"} => After(s) \in BeforeSend
         /\ s \in {"send", "profile"} => After(s) \in AfterSend
         /\ s \in BeforeSend \cup {"profile"}
BY DEF After, Skipped, Following, Steps, BeforeSend, AfterSend

\* The steps in two parts.
LEMMA StepsSplit == /\ Steps = BeforeSend \cup {"profile", "exec"}
                    /\ BeforeReady = BeforeSend
BY DEF Following, Steps, BeforeSend, BeforeReady

\* An error return either goes to the Drop of the helper or ends the parent.
LEMMA ErrorExitCases ==
  ASSUME ErrorExit
  PROVE  \/ /\ idmap_helper /\ parent' = "drop"
            /\ UNCHANGED <<code, pipeR, pipeW, sockP, sockC>>
         \/ /\ ~idmap_helper /\ parent' = "exited" /\ code' = "error"
            /\ Release("parent")
BY DEF ErrorExit, fdVars

\* The holders of the descriptors are processes.
Holders == /\ pipeR \subseteq Procs /\ pipeW \subseteq Procs
           /\ sockP \subseteq Procs /\ sockC \subseteq Procs

\* What a process that ends releases.
LEMMA ReleaseType ==
  ASSUME TypeOK, NEW p, Release(p)
  PROVE  Holders'
BY DEF TypeOK, Holders, Release

\* Every step keeps the types; the byte in the pipe needs that the helper
\* writes it once.
LEMMA TypeStep == TypeOK /\ ByteAfterMaps /\ [Next]_vars => TypeOK'
<1> SUFFICES ASSUME TypeOK, ByteAfterMaps, [Next]_vars PROVE TypeOK'
  OBVIOUS
<1> USE DEF TypeOK, options, attachVars, helperVars, childVars, fdVars, chanVars
<1>1. CASE Start
  BY <1>1 DEF Start
<1>2. CASE CreatePipe
  BY <1>2 DEF CreatePipe, Procs
<1>3. CASE ForkHelper
  BY <1>3 DEF ForkHelper, PipeWriters, Procs
<1>4. CASE HelperReady
  <2>1. pipe' \in 0..1
    BY <1>4 DEF HelperReady
  <2>2. Holders'
    BY <1>4 DEF HelperReady, Holders
  <2> QED BY <1>4, <2>1, <2>2 DEF HelperReady, Holders
<1>5. CASE HelperNotReady
  <2>1. CASE parent' = "drop"
    BY <1>5, <2>1, ErrorExitCases DEF HelperNotReady
  <2>2. CASE parent' # "drop"
    <3>1. parent' = "exited" /\ code' = "error" /\ Release("parent")
      BY <1>5, <2>2, ErrorExitCases DEF HelperNotReady
    <3> QED BY <1>5, <3>1, ReleaseType DEF HelperNotReady, Holders
  <2> QED BY <2>1, <2>2
<1>6. CASE OpenUserns
  <2>1. CASE HelperAlive
    BY <1>6, <2>1 DEF OpenUserns
  <2>2. CASE ~HelperAlive /\ parent' = "drop"
    BY <1>6, <2>2, ErrorExitCases DEF OpenUserns
  <2>3. CASE ~HelperAlive /\ parent' # "drop"
    <3>1. parent' = "exited" /\ code' = "error" /\ Release("parent")
      BY <1>6, <2>3, ErrorExitCases DEF OpenUserns
    <3> QED BY <1>6, <2>3, <3>1, ReleaseType DEF OpenUserns, Holders
  <2> QED BY <2>1, <2>2, <2>3
<1>7. CASE SocketPair
  BY <1>7 DEF SocketPair, Procs
<1>8. CASE ForkChild
  BY <1>8, StepsSplit DEF ForkChild, ChildSock, ParentSock, Procs, BeforeSend
<1>9. CASE ReceiveReady
  BY <1>9 DEF ReceiveReady
<1>10. CASE ChildNotReady
  <2>1. CASE parent' = "drop"
    BY <1>10, <2>1, ErrorExitCases DEF ChildNotReady
  <2>2. CASE parent' # "drop"
    <3>1. parent' = "exited" /\ code' = "error" /\ Release("parent")
      BY <1>10, <2>2, ErrorExitCases DEF ChildNotReady
    <3> QED BY <1>10, <3>1, ReleaseType DEF ChildNotReady, Holders
  <2> QED BY <2>1, <2>2
<1>11. CASE ForwardReturns(TRUE)
  BY <1>11 DEF ForwardReturns, SlaveClosed
<1>12. CASE WaitForChild
  <2>1. Holders'
    BY <1>12, ReleaseType DEF WaitForChild
  <2> QED BY <1>12, <2>1 DEF WaitForChild, Holders
<1>13. CASE DropHelper
  <2>1. Holders'
    BY <1>13 DEF DropHelper, Holders
  <2>2. /\ helper' = "reaped" /\ idmap_helper' = FALSE /\ parent' = "exited" /\ code' = "error"
        /\ UNCHANGED <<options, userns_fd, maps, childVars, chanVars>>
    BY <1>13 DEF DropHelper
  <2> QED BY <2>1, <2>2 DEF Holders
<1>14. CASE HelperUnshare
  BY <1>14 DEF HelperUnshare
<1>15. CASE HelperWriteUidMap
  BY <1>15 DEF HelperWriteUidMap, WriteMap
<1>16. CASE HelperWriteGidMap
  BY <1>16 DEF HelperWriteGidMap, WriteMap
<1>17. CASE HelperWriteReady
  <2>1. CASE pipeR = {}
    <3>1. Holders'
      BY <1>17, <2>1, ReleaseType DEF HelperWriteReady
    <3> QED BY <1>17, <2>1, <3>1 DEF HelperWriteReady, Holders
  <2>2. CASE pipeR # {}
    <3>1. pipe' = 1
      BY <1>17, <2>2 DEF HelperWriteReady, HelperSignals, ByteAfterMaps
    <3> QED BY <1>17, <2>2, <3>1 DEF HelperWriteReady, AfterReady
  <2> QED BY <2>1, <2>2
<1>18. CASE ChildStep
  <2>1. child' \in Steps
    BY <1>18, AfterType DEF ChildStep
  <2> QED BY <1>18, <2>1 DEF ChildStep
<1>19. CASE ChildIdmap
  <2>1. child' \in Steps
    BY <1>19, AfterType, StepsSplit DEF ChildIdmap, BeforeSend
  <2> QED BY <1>19, <2>1 DEF ChildIdmap
<1>20. CASE ChildSend
  <2>1. CASE sockP = {}
    <3>1. Holders'
      BY <1>20, <2>1, ReleaseType DEF ChildSend, ChildEnds
    <3>2. /\ child' = "zombie"
          /\ UNCHANGED <<options, attachVars, helperVars, idmapped, background,
                         pipe, queue>>
      BY <1>20, <2>1 DEF ChildSend, ChildEnds
    <3> QED BY <3>1, <3>2 DEF Holders
  <2>2. CASE sockP # {}
    <3>1. child' \in Steps
      BY <1>20, <2>2, AfterType, StepsSplit DEF ChildSend, BeforeSend
    <3>2. queue' \subseteq {"R", "R+pty"}
      BY <1>20, <2>2 DEF ChildSend, ReadyMessage
    <3> QED BY <1>20, <2>2, <3>1, <3>2 DEF ChildSend
  <2> QED BY <2>1, <2>2
<1>21. CASE ChildExec
  <2>1. Holders'
    BY <1>21, ReleaseType DEF ChildExec
  <2> QED BY <1>21, <2>1 DEF ChildExec, Holders
<1>22. CASE ParentFails
  <2>1. CASE parent' = "drop"
    BY <1>22, <2>1, ErrorExitCases DEF ParentFails
  <2>2. CASE parent' # "drop"
    <3>1. parent' = "exited" /\ code' = "error" /\ Release("parent")
      BY <1>22, <2>2, ErrorExitCases DEF ParentFails
    <3> QED BY <1>22, <3>1, ReleaseType DEF ParentFails, Holders
  <2> QED BY <2>1, <2>2
<1>23. CASE HelperFails
  <2>1. Holders'
    BY <1>23, ReleaseType DEF HelperFails
  <2> QED BY <1>23, <2>1 DEF HelperFails, Holders
<1>24. CASE ChildFails
  <2>1. Holders'
    BY <1>24, ReleaseType DEF ChildFails, ChildEnds
  <2> QED BY <1>24, <2>1 DEF ChildFails, ChildEnds, Holders
<1>25. CASE ReadyCutOff
  BY <1>25 DEF ReadyCutOff
<1>26. CASE ForwardReturns(FALSE)
  BY <1>26 DEF ForwardReturns
<1>27. CASE CommandExits
  <2>1. Holders'
    BY <1>27, ReleaseType DEF CommandExits, ChildEnds
  <2> QED BY <1>27, <2>1 DEF CommandExits, ChildEnds, Holders
<1>28. CASE CommandForks
  BY <1>28 DEF CommandForks, Running
<1>29. CASE BackgroundExits
  <2>1. background' \in BOOLEAN
    BY <1>29 DEF BackgroundExits
  <2> QED BY <1>29, <2>1 DEF BackgroundExits
<1>30. CASE ForwardBlocks
  BY <1>30 DEF ForwardBlocks
<1>31. CASE ForwardUnblocks
  BY <1>31 DEF ForwardUnblocks
<1>32. CASE KillParent
  <2>1. Holders'
    BY <1>32, ReleaseType DEF KillParent
  <2> QED BY <1>32, <2>1 DEF KillParent, Holders
<1>33. CASE KillHelper
  <2>1. Holders'
    BY <1>33, ReleaseType DEF KillHelper
  <2> QED BY <1>33, <2>1 DEF KillHelper, Holders
<1>34. CASE KillChild
  <2>1. Holders'
    BY <1>34, ReleaseType DEF KillChild, ChildEnds
  <2> QED BY <1>34, <2>1 DEF KillChild, ChildEnds, Holders
<1>35. CASE UNCHANGED vars
  BY <1>35 DEF vars
<1> QED
  BY <1>1, <1>2, <1>3, <1>4, <1>5, <1>6, <1>7, <1>8, <1>9, <1>10, <1>11,
     <1>12, <1>13, <1>14, <1>15, <1>16, <1>17, <1>18, <1>19, <1>20, <1>21,
     <1>22, <1>23, <1>24, <1>25, <1>26, <1>27, <1>28, <1>29, <1>30, <1>31,
     <1>32, <1>33, <1>34, <1>35
     DEF Next, Parent, Helper, Child, Fault, Command, Input, Kill, Terminating

-----------------------------------------------------------------------------
(***************************************************************************)
(* The steps keep the other parts of the invariant.                        *)
(***************************************************************************)
\* The maps, the ready byte and the namespace that the parent opens.
MapsInv == HelperProgress /\ ByteAfterMaps /\ NotForkedYet /\ IdmapComplete

LEMMA MapsStep == TypeOK /\ MapsInv /\ [Next]_vars => MapsInv'
<1> SUFFICES ASSUME TypeOK, MapsInv, [Next]_vars PROVE MapsInv'
  OBVIOUS
<1> USE DEF TypeOK, MapsInv, HelperProgress, ByteAfterMaps, NotForkedYet,
        IdmapComplete, BothMaps, BeforeSend, options, attachVars, helperVars,
        childVars, fdVars, chanVars
<1>1. CASE Start
  BY <1>1 DEF Start
<1>2. CASE CreatePipe
  BY <1>2 DEF CreatePipe
<1>3. CASE ForkHelper
  BY <1>3 DEF ForkHelper
<1>4. CASE HelperReady
  BY <1>4 DEF HelperReady
<1>5. CASE HelperNotReady
  BY <1>5, ErrorExitCases DEF HelperNotReady
<1>6. CASE OpenUserns
  BY <1>6, ErrorExitCases DEF OpenUserns, HelperAlive
<1>7. CASE SocketPair
  BY <1>7 DEF SocketPair
<1>8. CASE ForkChild
  BY <1>8 DEF ForkChild, ChildSock
<1>9. CASE ReceiveReady
  BY <1>9 DEF ReceiveReady
<1>10. CASE ChildNotReady
  BY <1>10, ErrorExitCases DEF ChildNotReady
<1>11. CASE ForwardReturns(TRUE)
  BY <1>11 DEF ForwardReturns
<1>12. CASE WaitForChild
  BY <1>12 DEF WaitForChild
<1>13. CASE DropHelper
  BY <1>13 DEF DropHelper
<1>14. CASE HelperUnshare
  BY <1>14 DEF HelperUnshare
<1>15. CASE HelperWriteUidMap
  BY <1>15 DEF HelperWriteUidMap, WriteMap
<1>16. CASE HelperWriteGidMap
  BY <1>16 DEF HelperWriteGidMap, WriteMap
<1>17. CASE HelperWriteReady
  BY <1>17 DEF HelperWriteReady, HelperSignals, AfterReady
<1>18. CASE ChildStep
  BY <1>18, AfterType, StepsSplit DEF ChildStep
<1>19. CASE ChildIdmap
  BY <1>19, AfterType, StepsSplit DEF ChildIdmap
<1>20. CASE ChildSend
  BY <1>20, AfterType, StepsSplit DEF ChildSend, ChildEnds
<1>21. CASE ChildExec
  BY <1>21 DEF ChildExec
<1>22. CASE ParentFails
  BY <1>22, ErrorExitCases DEF ParentFails
<1>23. CASE HelperFails
  BY <1>23 DEF HelperFails
<1>24. CASE ChildFails
  BY <1>24, StepsSplit DEF ChildFails, ChildEnds
<1>25. CASE ReadyCutOff
  BY <1>25 DEF ReadyCutOff
<1>26. CASE ForwardReturns(FALSE)
  BY <1>26 DEF ForwardReturns
<1>27. CASE CommandExits
  BY <1>27 DEF CommandExits, ChildEnds, Running
<1>28. CASE CommandForks
  BY <1>28 DEF CommandForks, Running
<1>29. CASE BackgroundExits
  BY <1>29 DEF BackgroundExits
<1>30. CASE ForwardBlocks
  BY <1>30 DEF ForwardBlocks
<1>31. CASE ForwardUnblocks
  BY <1>31 DEF ForwardUnblocks
<1>32. CASE KillParent
  BY <1>32 DEF KillParent
<1>33. CASE KillHelper
  BY <1>33 DEF KillHelper, HelperAlive
<1>34. CASE KillChild
  BY <1>34 DEF KillChild, ChildEnds, ChildAlive
<1>35. CASE UNCHANGED vars
  BY <1>35 DEF vars
<1> QED
  BY <1>1, <1>2, <1>3, <1>4, <1>5, <1>6, <1>7, <1>8, <1>9, <1>10, <1>11,
     <1>12, <1>13, <1>14, <1>15, <1>16, <1>17, <1>18, <1>19, <1>20, <1>21,
     <1>22, <1>23, <1>24, <1>25, <1>26, <1>27, <1>28, <1>29, <1>30, <1>31,
     <1>32, <1>33, <1>34, <1>35
     DEF Next, Parent, Helper, Child, Fault, Command, Input, Kill, Terminating

\* Who owns the helper, and who is left of it after an error.
ExitInv == HelperOwned /\ HelperReapedOnError

LEMMA ExitStep == TypeOK /\ MapsInv /\ ExitInv /\ [Next]_vars => ExitInv'
<1> SUFFICES ASSUME TypeOK, MapsInv, ExitInv, [Next]_vars PROVE ExitInv'
  OBVIOUS
<1> USE DEF TypeOK, ExitInv, HelperOwned, HelperReapedOnError, HelperAlive, BeforeSend, options, attachVars, helperVars,
        childVars, fdVars, chanVars
<1>1. CASE Start
  BY <1>1 DEF Start
<1>2. CASE CreatePipe
  BY <1>2 DEF CreatePipe
<1>3. CASE ForkHelper
  BY <1>3 DEF ForkHelper
<1>4. CASE HelperReady
  BY <1>4 DEF HelperReady
<1>5. CASE HelperNotReady
  BY <1>5, ErrorExitCases DEF HelperNotReady
<1>6. CASE OpenUserns
  BY <1>6, ErrorExitCases DEF OpenUserns, HelperAlive
<1>7. CASE SocketPair
  BY <1>7 DEF SocketPair
<1>8. CASE ForkChild
  BY <1>8 DEF ForkChild, ChildSock
<1>9. CASE ReceiveReady
  BY <1>9 DEF ReceiveReady
<1>10. CASE ChildNotReady
  BY <1>10, ErrorExitCases DEF ChildNotReady
<1>11. CASE ForwardReturns(TRUE)
  BY <1>11 DEF ForwardReturns
<1>12. CASE WaitForChild
  BY <1>12 DEF WaitForChild
<1>13. CASE DropHelper
  BY <1>13 DEF DropHelper
<1>14. CASE HelperUnshare
  BY <1>14 DEF HelperUnshare
<1>15. CASE HelperWriteUidMap
  BY <1>15 DEF HelperWriteUidMap, WriteMap
<1>16. CASE HelperWriteGidMap
  BY <1>16 DEF HelperWriteGidMap, WriteMap
<1>17. CASE HelperWriteReady
  BY <1>17 DEF HelperWriteReady, HelperSignals, AfterReady
<1>18. CASE ChildStep
  BY <1>18, AfterType, StepsSplit DEF ChildStep
<1>19. CASE ChildIdmap
  BY <1>19, AfterType, StepsSplit DEF ChildIdmap
<1>20. CASE ChildSend
  BY <1>20, AfterType, StepsSplit DEF ChildSend, ChildEnds
<1>21. CASE ChildExec
  BY <1>21 DEF ChildExec
<1>22. CASE ParentFails
  BY <1>22, ErrorExitCases DEF ParentFails
<1>23. CASE HelperFails
  BY <1>23 DEF HelperFails
<1>24. CASE ChildFails
  BY <1>24, StepsSplit DEF ChildFails, ChildEnds
<1>25. CASE ReadyCutOff
  BY <1>25 DEF ReadyCutOff
<1>26. CASE ForwardReturns(FALSE)
  BY <1>26 DEF ForwardReturns
<1>27. CASE CommandExits
  BY <1>27 DEF CommandExits, ChildEnds, Running
<1>28. CASE CommandForks
  BY <1>28 DEF CommandForks, Running
<1>29. CASE BackgroundExits
  BY <1>29 DEF BackgroundExits
<1>30. CASE ForwardBlocks
  BY <1>30 DEF ForwardBlocks
<1>31. CASE ForwardUnblocks
  BY <1>31 DEF ForwardUnblocks
<1>32. CASE KillParent
  BY <1>32 DEF KillParent
<1>33. CASE KillHelper
  BY <1>33 DEF KillHelper, HelperAlive
<1>34. CASE KillChild
  BY <1>34 DEF KillChild, ChildEnds, ChildAlive
<1>35. CASE UNCHANGED vars
  BY <1>35 DEF vars
<1> QED
  BY <1>1, <1>2, <1>3, <1>4, <1>5, <1>6, <1>7, <1>8, <1>9, <1>10, <1>11,
     <1>12, <1>13, <1>14, <1>15, <1>16, <1>17, <1>18, <1>19, <1>20, <1>21,
     <1>22, <1>23, <1>24, <1>25, <1>26, <1>27, <1>28, <1>29, <1>30, <1>31,
     <1>32, <1>33, <1>34, <1>35
     DEF Next, Parent, Helper, Child, Fault, Command, Input, Kill, Terminating

\* The child holds its end of the socket, or has sent its message, or is dead.
LEMMA AnnouncedStep ==
  TypeOK /\ NotForkedYet /\ Announced /\ [Next]_vars => Announced'
<1> SUFFICES ASSUME TypeOK, NotForkedYet, Announced, [Next]_vars PROVE Announced'
  OBVIOUS
<1> USE DEF TypeOK, NotForkedYet, Announced, BeforeSend, AfterSend, options, attachVars,
        helperVars, childVars, fdVars, chanVars
<1>1. CASE Start
  BY <1>1 DEF Start
<1>2. CASE CreatePipe
  BY <1>2 DEF CreatePipe
<1>3. CASE ForkHelper
  BY <1>3 DEF ForkHelper
<1>4. CASE HelperReady
  BY <1>4 DEF HelperReady
<1>5. CASE HelperNotReady
  BY <1>5, ErrorExitCases DEF HelperNotReady, Release
<1>6. CASE OpenUserns
  BY <1>6, ErrorExitCases DEF OpenUserns, HelperAlive, Release
<1>7. CASE SocketPair
  BY <1>7 DEF SocketPair
<1>8. CASE ForkChild
  BY <1>8 DEF ForkChild, ChildSock
<1>9. CASE ReceiveReady
  BY <1>9 DEF ReceiveReady
<1>10. CASE ChildNotReady
  BY <1>10, ErrorExitCases DEF ChildNotReady, Release
<1>11. CASE ForwardReturns(TRUE)
  BY <1>11 DEF ForwardReturns
<1>12. CASE WaitForChild
  BY <1>12 DEF WaitForChild, Release
<1>13. CASE DropHelper
  BY <1>13 DEF DropHelper, Release
<1>14. CASE HelperUnshare
  BY <1>14 DEF HelperUnshare
<1>15. CASE HelperWriteUidMap
  BY <1>15 DEF HelperWriteUidMap, WriteMap
<1>16. CASE HelperWriteGidMap
  BY <1>16 DEF HelperWriteGidMap, WriteMap
<1>17. CASE HelperWriteReady
  BY <1>17 DEF HelperWriteReady, HelperSignals, AfterReady, Release
<1>18. CASE ChildStep
  BY <1>18, AfterType, StepsSplit DEF ChildStep
<1>19. CASE ChildIdmap
  BY <1>19, AfterType, StepsSplit DEF ChildIdmap
<1>20. CASE ChildSend
  BY <1>20, AfterType, StepsSplit DEF ChildSend, ChildEnds, Release
<1>21. CASE ChildExec
  BY <1>21 DEF ChildExec, Release
<1>22. CASE ParentFails
  BY <1>22, ErrorExitCases DEF ParentFails, Release
<1>23. CASE HelperFails
  BY <1>23 DEF HelperFails, Release
<1>24. CASE ChildFails
  BY <1>24 DEF ChildFails, ChildEnds, Release
<1>25. CASE ReadyCutOff
  BY <1>25 DEF ReadyCutOff
<1>26. CASE ForwardReturns(FALSE)
  BY <1>26 DEF ForwardReturns
<1>27. CASE CommandExits
  BY <1>27 DEF CommandExits, ChildEnds, Running, Release
<1>28. CASE CommandForks
  BY <1>28 DEF CommandForks, Running
<1>29. CASE BackgroundExits
  BY <1>29 DEF BackgroundExits
<1>30. CASE ForwardBlocks
  BY <1>30 DEF ForwardBlocks
<1>31. CASE ForwardUnblocks
  BY <1>31 DEF ForwardUnblocks
<1>32. CASE KillParent
  BY <1>32 DEF KillParent, Release
<1>33. CASE KillHelper
  BY <1>33 DEF KillHelper, HelperAlive, Release
<1>34. CASE KillChild
  BY <1>34 DEF KillChild, ChildEnds, ChildAlive, Release
<1>35. CASE UNCHANGED vars
  BY <1>35 DEF vars
<1> QED
  BY <1>1, <1>2, <1>3, <1>4, <1>5, <1>6, <1>7, <1>8, <1>9, <1>10, <1>11,
     <1>12, <1>13, <1>14, <1>15, <1>16, <1>17, <1>18, <1>19, <1>20, <1>21,
     <1>22, <1>23, <1>24, <1>25, <1>26, <1>27, <1>28, <1>29, <1>30, <1>31,
     <1>32, <1>33, <1>34, <1>35
     DEF Next, Parent, Helper, Child, Fault, Command, Input, Kill, Terminating

\* Nobody but a parent that runs can receive.
LEMMA ListensStep == TypeOK /\ ParentListens /\ [Next]_vars => ParentListens'
<1> SUFFICES ASSUME TypeOK, ParentListens, [Next]_vars PROVE ParentListens'
  OBVIOUS
<1> USE DEF TypeOK, ParentListens, options, attachVars, helperVars, childVars, fdVars,
        chanVars
<1>1. CASE Start
  BY <1>1 DEF Start
<1>2. CASE CreatePipe
  BY <1>2 DEF CreatePipe
<1>3. CASE ForkHelper
  BY <1>3 DEF ForkHelper
<1>4. CASE HelperReady
  BY <1>4 DEF HelperReady
<1>5. CASE HelperNotReady
  BY <1>5, ErrorExitCases DEF HelperNotReady, Release
<1>6. CASE OpenUserns
  BY <1>6, ErrorExitCases DEF OpenUserns, HelperAlive, Release
<1>7. CASE SocketPair
  BY <1>7 DEF SocketPair
<1>8. CASE ForkChild
  BY <1>8 DEF ForkChild, ParentSock
<1>9. CASE ReceiveReady
  BY <1>9 DEF ReceiveReady
<1>10. CASE ChildNotReady
  BY <1>10, ErrorExitCases DEF ChildNotReady, Release
<1>11. CASE ForwardReturns(TRUE)
  BY <1>11 DEF ForwardReturns
<1>12. CASE WaitForChild
  BY <1>12 DEF WaitForChild, Release
<1>13. CASE DropHelper
  BY <1>13 DEF DropHelper, Release
<1>14. CASE HelperUnshare
  BY <1>14 DEF HelperUnshare
<1>15. CASE HelperWriteUidMap
  BY <1>15 DEF HelperWriteUidMap, WriteMap
<1>16. CASE HelperWriteGidMap
  BY <1>16 DEF HelperWriteGidMap, WriteMap
<1>17. CASE HelperWriteReady
  BY <1>17 DEF HelperWriteReady, HelperSignals, AfterReady, Release
<1>18. CASE ChildStep
  BY <1>18 DEF ChildStep
<1>19. CASE ChildIdmap
  BY <1>19 DEF ChildIdmap
<1>20. CASE ChildSend
  BY <1>20 DEF ChildSend, ChildEnds, Release
<1>21. CASE ChildExec
  BY <1>21 DEF ChildExec, Release
<1>22. CASE ParentFails
  BY <1>22, ErrorExitCases DEF ParentFails, Release
<1>23. CASE HelperFails
  BY <1>23 DEF HelperFails, Release
<1>24. CASE ChildFails
  BY <1>24 DEF ChildFails, ChildEnds, Release
<1>25. CASE ReadyCutOff
  BY <1>25 DEF ReadyCutOff
<1>26. CASE ForwardReturns(FALSE)
  BY <1>26 DEF ForwardReturns
<1>27. CASE CommandExits
  BY <1>27 DEF CommandExits, ChildEnds, Running, Release
<1>28. CASE CommandForks
  BY <1>28 DEF CommandForks, Running
<1>29. CASE BackgroundExits
  BY <1>29 DEF BackgroundExits
<1>30. CASE ForwardBlocks
  BY <1>30 DEF ForwardBlocks
<1>31. CASE ForwardUnblocks
  BY <1>31 DEF ForwardUnblocks
<1>32. CASE KillParent
  BY <1>32 DEF KillParent, Release
<1>33. CASE KillHelper
  BY <1>33 DEF KillHelper, HelperAlive, Release
<1>34. CASE KillChild
  BY <1>34 DEF KillChild, ChildEnds, ChildAlive, Release
<1>35. CASE UNCHANGED vars
  BY <1>35 DEF vars
<1> QED
  BY <1>1, <1>2, <1>3, <1>4, <1>5, <1>6, <1>7, <1>8, <1>9, <1>10, <1>11,
     <1>12, <1>13, <1>14, <1>15, <1>16, <1>17, <1>18, <1>19, <1>20, <1>21,
     <1>22, <1>23, <1>24, <1>25, <1>26, <1>27, <1>28, <1>29, <1>30, <1>31,
     <1>32, <1>33, <1>34, <1>35
     DEF Next, Parent, Helper, Child, Fault, Command, Input, Kill, Terminating

-----------------------------------------------------------------------------
(***************************************************************************)
(* The theorems.                                                           *)
(***************************************************************************)
\* IInv is an invariant.
LEMMA Invariance == Spec => []IInv
<1>1. Init => IInv
  <2> SUFFICES ASSUME Init PROVE IInv
    OBVIOUS
  <2>1. TypeOK
    <3>1. idmap_helper \in BOOLEAN /\ background \in BOOLEAN
      BY DEF Init
    <3>2. effective_user \in BOOLEAN /\ is_tty \in BOOLEAN
      BY DEF Init
    <3> QED BY <3>1, <3>2 DEF Init, TypeOK
  <2>2. MapsInv
    BY DEF Init, MapsInv, HelperProgress, ByteAfterMaps, NotForkedYet, IdmapComplete,
           BothMaps
  <2>3. ExitInv
    BY DEF Init, ExitInv, HelperOwned, HelperReapedOnError
  <2>4. Announced
    BY DEF Init, Announced, BeforeSend, AfterSend
  <2>5. ParentListens
    BY DEF Init, ParentListens
  <2> QED BY <2>1, <2>2, <2>3, <2>4, <2>5 DEF IInv, MapsInv, ExitInv
<1>2. IInv /\ [Next]_vars => IInv'
  BY TypeStep, MapsStep, ExitStep, AnnouncedStep, ListensStep DEF IInv, MapsInv, ExitInv
<1> QED BY <1>1, <1>2, PTL DEF Spec

\* The three processes, the pipe and the socket have their types; the helper
\* writes at most one byte.
THEOREM TypeCorrect == Spec => []TypeOK
<1>1. IInv => TypeOK
  BY DEF IInv
<1> QED BY <1>1, Invariance, PTL

\* A mount is never idmapped with the host's user namespace, nor with one whose
\* maps are not complete, whoever is killed or fails when.
THEOREM MapsComplete == Spec => []IdmapComplete
<1>1. IInv => IdmapComplete
  BY DEF IInv
<1> QED BY <1>1, Invariance, PTL

\* After an error return no helper that the parent has taken over is left.
THEOREM ReapedOnError == Spec => []HelperReapedOnError
<1>1. IInv => HelperReapedOnError
  BY DEF IInv
<1> QED BY <1>1, Invariance, PTL

\* The end of the stream reaches the parent only from a dead child.
THEOREM NotReadyMeansDead == Spec => ChildNotReadyMeansDead
<1>1. IInv /\ [Next]_vars => [ChildNotReady => ~ChildAlive]_vars
  <2> SUFFICES ASSUME IInv, ChildNotReady PROVE ~ChildAlive
    OBVIOUS
  <2>1. parent = "recv" /\ queue = {} /\ sockC = {}
    BY DEF ChildNotReady
  <2>2. child \notin BeforeSend /\ child \notin AfterSend
    BY <2>1 DEF IInv, Announced
  <2>3. child \in {"none", "zombie", "reaped"}
    BY <2>2, StepsSplit DEF IInv, TypeOK, BeforeSend, AfterSend
  <2> QED BY <2>3 DEF ChildAlive
<1> QED BY <1>1, Invariance, PTL DEF Spec, ChildNotReadyMeansDead

\* What the steps do to a child that has not sent its message: it stays before
\* the message, ends, or sends it to a parent that runs.
LEMMA ChildAdvances ==
  ASSUME IInv, [Next]_vars, child \in BeforeSend
  PROVE  child' \in BeforeSend \cup {"zombie"} \/ sockP # {}
<1>1. CASE Start \/ CreatePipe \/ ForkHelper \/ HelperReady \/ HelperNotReady
           \/ OpenUserns \/ SocketPair \/ ReceiveReady \/ ChildNotReady
  BY <1>1 DEF Start, CreatePipe, ForkHelper, HelperReady, HelperNotReady, OpenUserns,
              SocketPair, ReceiveReady, ChildNotReady, childVars
<1>2. CASE ForkChild
  BY <1>2 DEF ForkChild, BeforeSend
<1>3. CASE WaitForChild
  BY <1>3 DEF WaitForChild, BeforeSend
<1>4. CASE ForwardReturns(TRUE) \/ ForwardReturns(FALSE) \/ DropHelper \/ ParentFails
           \/ ReadyCutOff \/ Input
  BY <1>4 DEF ForwardReturns, DropHelper, ParentFails, ReadyCutOff, Input,
              ForwardBlocks, ForwardUnblocks, childVars
<1>5. CASE Helper \/ HelperFails
  BY <1>5 DEF Helper, HelperFails, HelperUnshare, HelperWriteUidMap, HelperWriteGidMap,
              WriteMap, HelperWriteReady, childVars
<1>6. CASE ChildStep
  BY <1>6, AfterType DEF ChildStep, BeforeSend
<1>7. CASE ChildIdmap
  BY <1>7, AfterType, StepsSplit DEF ChildIdmap, BeforeSend
<1>8. CASE ChildSend
  BY <1>8 DEF ChildSend, ChildEnds
<1>9. CASE ChildExec \/ CommandExits \/ CommandForks
  BY <1>9 DEF ChildExec, CommandExits, CommandForks, Running, BeforeSend
<1>10. CASE ChildFails \/ KillChild
  BY <1>10 DEF ChildFails, KillChild, ChildEnds
<1>11. CASE BackgroundExits \/ KillParent \/ KillHelper
  BY <1>11 DEF BackgroundExits, KillParent, KillHelper, childVars
<1>12. CASE UNCHANGED vars
  BY <1>12 DEF vars, childVars
<1> QED
  BY <1>1, <1>2, <1>3, <1>4, <1>5, <1>6, <1>7, <1>8, <1>9, <1>10, <1>11, <1>12
     DEF Next, Parent, Helper, Child, Fault, Command, Kill, Terminating

\* A child that has not announced itself when `attach` ends never runs the
\* command, whoever is killed or fails when.
THEOREM NothingStartsLate == Spec => NoCommandAfterExit
<1>1. IInv /\ [Next]_vars =>
        [parent = "exited" /\ child \in BeforeReady
           => child' \in BeforeReady \cup {"zombie"}]_vars
  <2> SUFFICES ASSUME IInv, [Next]_vars, parent = "exited", child \in BeforeReady
               PROVE  child' \in BeforeReady \cup {"zombie"}
    OBVIOUS
  <2>1. sockP = {}
    BY DEF IInv, ParentListens
  <2> QED BY <2>1, StepsSplit, ChildAdvances
<1> QED BY <1>1, Invariance, PTL DEF Spec, NoCommandAfterExit
=============================================================================
