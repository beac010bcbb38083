------------------------------- MODULE Attach --------------------------------
(***************************************************************************)
(* The three processes of `cntr attach` and how they start, wait for and   *)
(* end each other: `attach` (src/attach/mod.rs) with `parent::run`, the    *)
(* idmap helper (src/attach/idmap_helper.rs), forked when --effective-user *)
(* is given, and `child::run` (src/attach/child.rs), which assembles the   *)
(* mounts, enters the container and executes the command.                  *)
(*                                                                         *)
(* They talk through a pipe (helper -> parent, one byte) and a SEQPACKET   *)
(* socket pair (child -> parent, "R" and perhaps the PTY master).  A       *)
(* reader sees the end of the stream only when no process holds the other  *)
(* end any more, so who holds which descriptor is part of the state.       *)
(***************************************************************************)
EXTENDS Naturals, FiniteSets

CONSTANTS
  MayFail,         \* system calls and setup steps fail
  MayKill          \* signals kill any of the three processes at any time

ASSUME AttachFlags == MayFail \in BOOLEAN /\ MayKill \in BOOLEAN

Procs == {"parent", "helper", "child"}

\* The steps of child::run, each with the next one; "idmap" only with
\* --effective-user, "pty" only when stdin and stdout are terminals.
Following ==
  [cgroup |-> "cmd", cmd |-> "open_ns", open_ns |-> "base_dir",
   base_dir |-> "unshare", unshare |-> "private", private |-> "idmap",
   idmap |-> "tmpfs", tmpfs |-> "capture", capture |-> "enter_ns",
   enter_ns |-> "pty", pty |-> "security", security |-> "send",
   send |-> "profile", profile |-> "exec"]
Steps == DOMAIN Following \cup {"exec"}
\* The steps up to the ready message.
BeforeReady == Steps \ {"profile", "exec"}

VARIABLES
  effective_user,  \* --effective-user is given
  is_tty,          \* stdio_is_tty()
  parent,          \* where `attach` is: see TypeOK
  code,            \* how it ended: with an "error", "killed", or as its
                   \* "child" did (the statuses are in module JobControl)
  idmap_helper,    \* it owns an IdmapHelper, which Drop kills and reaps
  userns_fd,       \* the user namespace the parent opened for the child
  helper,          \* where the idmap helper is
  maps,            \* the id maps written in its user namespace
  child,           \* where child::run is, "run", "zombie" or "reaped"
  idmapped,        \* the user namespace its mounts were idmapped with
  background,      \* the command left a process behind that uses the PTY
  pipeR, pipeW, sockP, sockC,      \* the holders of the descriptors
  pipe,            \* bytes in the pipe
  queue            \* messages in the socket: a set of at most one

attachVars == <<parent, code, idmap_helper, userns_fd>>
helperVars == <<helper, maps>>
childVars  == <<child, idmapped, background>>
fdVars     == <<pipeR, pipeW, sockP, sockC>>
chanVars   == <<pipe, queue>>
options    == <<effective_user, is_tty>>
vars == <<options, attachVars, helperVars, childVars, fdVars, chanVars>>

HelperAlive == helper \notin {"none", "zombie", "reaped"}
ChildAlive == child \notin {"none", "zombie", "reaped"}
\* The child passed exec.
Running == child = "run"

Init == /\ effective_user \in BOOLEAN /\ is_tty \in BOOLEAN
        /\ parent = "start" /\ code = "none"
        /\ idmap_helper = FALSE /\ userns_fd = "none"
        /\ helper = "none" /\ maps = {}
        /\ child = "none" /\ idmapped = "none"
        /\ background = FALSE
        /\ pipeR = {} /\ pipeW = {} /\ sockP = {} /\ sockC = {}
        /\ pipe = 0 /\ queue = {}

(***************************************************************************)
(* Descriptors: a process that ends releases what it holds.                *)
(***************************************************************************)
Release(p) == /\ pipeR' = pipeR \ {p} /\ pipeW' = pipeW \ {p}
              /\ sockP' = sockP \ {p} /\ sockC' = sockC \ {p}

(***************************************************************************)
(* An error return of `attach`: an IdmapHelper that exists is dropped.     *)
(***************************************************************************)
ErrorExitKeeps ==                            \* mutant
  parent' = "exited" /\ code' = "error" /\ Release("parent")
ErrorExit ==
  IF idmap_helper
  THEN parent' = "drop" /\ UNCHANGED code /\ UNCHANGED fdVars
  ELSE parent' = "exited" /\ code' = "error" /\ Release("parent")

\* Drop of IdmapHelper on an error return: SIGKILL, waitpid, then the exit.
DropHelper ==
  /\ parent = "drop"
  /\ helper' = "reaped"
  /\ idmap_helper' = FALSE
  /\ parent' = "exited" /\ code' = "error"
  /\ pipeR' = pipeR \ {"parent", "helper"} /\ pipeW' = pipeW \ {"parent", "helper"}
  /\ sockP' = sockP \ {"parent", "helper"} /\ sockC' = sockC \ {"parent", "helper"}
  /\ UNCHANGED <<options, userns_fd, maps, childVars, chanVars>>

\* The system call at pc fails.
ParentFails ==
  /\ MayFail
  /\ parent \in {"start", "pipe", "fork_helper", "read_ready", "open_userns",
                 "socketpair", "fork", "recv", "wait"}
  /\ ErrorExit
  /\ UNCHANGED <<options, idmap_helper, userns_fd, helperVars, childVars, chanVars>>

(***************************************************************************)
(* The parent up to the fork of the child.                                 *)
(***************************************************************************)
\* has_mount_api and lookup_container succeed.
Start ==
  /\ parent = "start"
  /\ parent' = IF effective_user THEN "pipe" ELSE "socketpair"
  /\ UNCHANGED <<options, code, idmap_helper, userns_fd, helperVars, childVars,
                 fdVars, chanVars>>

CreatePipe ==
  /\ parent = "pipe"
  /\ pipeR' = {"parent"} /\ pipeW' = {"parent"}
  /\ parent' = "fork_helper"
  /\ UNCHANGED <<options, code, idmap_helper, userns_fd, helperVars, childVars,
                 sockP, sockC, chanVars>>

\* fork: each side keeps its own end, the parent drops write_fd and the
\* helper read_fd before anything else.
PipeWriters == {"helper"}

ForkHelper ==
  /\ parent = "fork_helper"
  /\ helper' = "unshare"
  /\ pipeR' = {"parent"} /\ pipeW' = PipeWriters
  /\ parent' = "read_ready"
  /\ UNCHANGED <<options, code, idmap_helper, userns_fd, maps, childVars, sockP,
                 sockC, chanVars>>

\* read returns the helper's byte ...
HelperReady ==
  /\ parent = "read_ready"
  /\ pipe > 0
  /\ pipe' = pipe - 1
  /\ pipeR' = pipeR \ {"parent"}
  /\ parent' = "open_userns"
  /\ UNCHANGED <<options, code, idmap_helper, userns_fd, helperVars, childVars,
                 pipeW, sockP, sockC, queue>>

\* ... or the end of the pipe: HelperNotReady.
HelperNotReady ==
  /\ parent = "read_ready"
  /\ pipe = 0 /\ pipeW = {}
  /\ ErrorExit
  /\ UNCHANGED <<options, idmap_helper, userns_fd, helperVars, childVars, chanVars>>

\* /proc/<helper>/ns/user names the namespace the helper is in right then; a
\* helper that is dead has none.
OpenUserns ==
  /\ parent = "open_userns"
  /\ IF HelperAlive
     THEN /\ userns_fd' = IF helper = "unshare" THEN "host" ELSE "helper"
          /\ idmap_helper' = TRUE
          /\ parent' = "socketpair"
          /\ UNCHANGED <<code, fdVars>>
     ELSE /\ ErrorExit
          /\ UNCHANGED <<userns_fd, idmap_helper>>
  /\ UNCHANGED <<options, helperVars, childVars, chanVars>>

SocketPair ==
  /\ parent = "socketpair"
  /\ sockP' = {"parent"} /\ sockC' = {"parent"}
  /\ parent' = "fork"
  /\ UNCHANGED <<options, code, idmap_helper, userns_fd, helperVars, childVars,
                 pipeR, pipeW, chanVars>>

\* fork: the parent drops child_sock, the child drops parent_sock.
ChildSockKept == {"parent", "child"}         \* mutant: no drop(child_sock)
NoChildSock == {}                            \* mutant: closed in the child too
ChildSock == {"child"}
ParentSockKept == {"parent", "child"}        \* mutant: no drop(parent_sock)
ParentSock == {"parent"}

ForkChild ==
  /\ parent = "fork"
  /\ child' = "cgroup"
  /\ sockP' = ParentSock /\ sockC' = ChildSock
  /\ parent' = "recv"
  /\ UNCHANGED <<options, code, idmap_helper, userns_fd, helperVars, idmapped,
                 background, pipeR, pipeW, chanVars>>

(***************************************************************************)
(* parent::run.                                                            *)
(***************************************************************************)
\* The ready message; with a PTY descriptor the parent forwards.
ReceiveReady ==
  /\ parent = "recv"
  /\ \E m \in queue : /\ parent' = IF m = "R+pty" THEN "forward" ELSE "wait"
                      /\ queue' = queue \ {m}
  /\ UNCHANGED <<options, code, idmap_helper, userns_fd, helperVars, childVars,
                 fdVars, pipe>>

\* A receiver at its limit of descriptors gets the message without the
\* descriptor, and no error: the parent waits, and nobody forwards.
ReadyCutOff ==
  /\ MayFail
  /\ parent = "recv"
  /\ "R+pty" \in queue
  /\ parent' = "wait"
  /\ queue' = queue \ {"R+pty"}
  /\ UNCHANGED <<options, code, idmap_helper, userns_fd, helperVars, childVars,
                 fdVars, pipe>>

\* An empty message is the end of the stream: ChildNotReady.
ChildNotReady ==
  /\ parent = "recv"
  /\ queue = {} /\ sockC = {}
  /\ ErrorExit
  /\ UNCHANGED <<options, idmap_helper, userns_fd, helperVars, childVars, chanVars>>

\* `forward` blocks until nobody holds the slave; its errors are ignored.
SlaveClosedNever == FALSE          \* mutant: the parent keeps a slave open
SlaveClosed == ~ChildAlive /\ ~background

ForwardReturns(closed) ==
  /\ parent = "forward"
  /\ closed = SlaveClosed
  /\ parent' = "wait"
  /\ UNCHANGED <<options, code, idmap_helper, userns_fd, helperVars, childVars,
                 fdVars, chanVars>>

\* Module Pty: `forward` waits in a write for room in the PTY's input queue,
\* until somebody reads from the slave, and also when nobody can any more.
ForwardBlocks ==
  /\ parent = "forward"
  /\ parent' = "blocked"
  /\ UNCHANGED <<options, code, idmap_helper, userns_fd, helperVars, childVars,
                 fdVars, chanVars>>

ForwardUnblocks ==
  /\ parent = "blocked"
  /\ ~SlaveClosed
  /\ parent' = "forward"
  /\ UNCHANGED <<options, code, idmap_helper, userns_fd, helperVars, childVars,
                 fdVars, chanVars>>

\* wait_for_child: process::exit once the child has ended.  No destructor of
\* `attach` runs.
WaitForChild ==
  /\ parent = "wait"
  /\ child = "zombie"
  /\ child' = "reaped"
  /\ parent' = "exited" /\ code' = "child"
  /\ Release("parent")
  /\ UNCHANGED <<options, idmap_helper, userns_fd, helperVars, idmapped, background,
                 chanVars>>

(***************************************************************************)
(* The idmap helper.                                                       *)
(***************************************************************************)
HelperUnshare ==
  /\ helper = "unshare"
  /\ helper' = "uid_map"
  /\ UNCHANGED <<options, attachVars, maps, childVars, fdVars, chanVars>>

WriteMap(m, next) ==
  /\ helper = m
  /\ maps' = maps \cup {m}
  /\ helper' = next
  /\ UNCHANGED <<options, attachVars, childVars, fdVars, chanVars>>

HelperWriteUidMap == WriteMap("uid_map", "gid_map")
HelperWriteGidMap == WriteMap("gid_map", "ready")

\* The ready byte; with no reader left the write fails and the helper ends.
HelperSignalsEarly == helper = "gid_map"     \* mutant: ready before gid_map
HelperSignals == helper = "ready"
AfterReadyAgain == "ready"                   \* mutant: the write is in the loop
AfterReady == "sleep"

HelperWriteReady ==
  /\ HelperSignals
  /\ IF pipeR = {}
     THEN helper' = "zombie" /\ Release("helper") /\ UNCHANGED pipe
     ELSE helper' = AfterReady /\ pipe' = pipe + 1 /\ UNCHANGED fdVars
  /\ UNCHANGED <<options, attachVars, maps, childVars, queue>>

\* A step of setup_userns fails: exit(1).
HelperFails ==
  /\ MayFail
  /\ helper \in {"unshare", "uid_map", "gid_map", "ready"}
  /\ helper' = "zombie"
  /\ Release("helper")
  /\ UNCHANGED <<options, attachVars, maps, childVars, chanVars>>

(***************************************************************************)
(* The child: child::run up to exec, and the command.                      *)
(***************************************************************************)
Skipped(s) == (s = "idmap" /\ ~effective_user) \/ (s = "pty" /\ ~is_tty)
After(s) == IF Skipped(Following[s]) THEN Following[Following[s]] ELSE Following[s]

\* Steps that concern nobody else.
ChildStep ==
  /\ child \in Steps \ {"idmap", "send", "exec"}
  /\ child' = After(child)
  /\ UNCHANGED <<options, attachVars, helperVars, idmapped, background, fdVars,
                 chanVars>>

\* apply_idmapped_mounts: a mount that cannot be idmapped is left as it is.
ChildIdmap ==
  /\ child = "idmap"
  /\ \/ idmapped' = userns_fd
     \/ MayFail /\ UNCHANGED idmapped
  /\ child' = After(child)
  /\ UNCHANGED <<options, attachVars, helperVars, background, fdVars, chanVars>>

ChildEnds == child' = "zombie" /\ Release("child")

\* "R", with the PTY master when there is one.  Sending fails, and the child
\* ends, when no parent holds the other end.
ReadyMessage == IF is_tty THEN "R+pty" ELSE "R"

ChildSend ==
  /\ child = "send"
  /\ IF sockP = {}
     THEN ChildEnds /\ UNCHANGED queue
     ELSE /\ queue' = {ReadyMessage}
          /\ child' = After(child)
          /\ UNCHANGED fdVars
  /\ UNCHANGED <<options, attachVars, helperVars, idmapped, background, pipe>>

\* The descriptors of the socket are close-on-exec.
ChildExec ==
  /\ child = "exec"
  /\ child' = "run"
  /\ Release("child")
  /\ UNCHANGED <<options, attachVars, helperVars, idmapped, background, chanVars>>

\* An error return of child::run: exit(1).
ChildFails ==
  /\ MayFail
  /\ child \in Steps
  /\ ChildEnds
  /\ UNCHANGED <<options, attachVars, helperVars, idmapped, background, chanVars>>

CommandExits ==
  /\ Running
  /\ ChildEnds
  /\ UNCHANGED <<options, attachVars, helperVars, idmapped, background, chanVars>>

\* The command starts a process that keeps the PTY slave open ...
CommandForks ==
  /\ Running /\ is_tty
  /\ background' = TRUE
  /\ UNCHANGED <<options, attachVars, helperVars, child, idmapped, fdVars, chanVars>>

\* ... and that process ends.
BackgroundExits ==
  /\ background
  /\ background' = FALSE
  /\ UNCHANGED <<options, attachVars, helperVars, child, idmapped, fdVars, chanVars>>

(***************************************************************************)
(* Signals: the terminal's SIGINT before raw mode, an out-of-memory kill,  *)
(* the end of the container whose cgroup the child has joined.             *)
(***************************************************************************)
KillParent ==
  /\ MayKill
  /\ parent # "exited"
  /\ parent' = "exited" /\ code' = "killed"
  /\ Release("parent")
  /\ queue' = {}
  /\ UNCHANGED <<options, idmap_helper, userns_fd, helperVars, childVars, pipe>>

KillHelper ==
  /\ MayKill
  /\ HelperAlive
  /\ helper' = "zombie"
  /\ Release("helper")
  /\ UNCHANGED <<options, attachVars, maps, childVars, chanVars>>

KillChild ==
  /\ MayKill
  /\ ChildAlive
  /\ ChildEnds
  /\ UNCHANGED <<options, attachVars, helperVars, idmapped, background, chanVars>>
-----------------------------------------------------------------------------
Parent == \/ Start \/ CreatePipe \/ ForkHelper \/ HelperReady \/ HelperNotReady
          \/ OpenUserns \/ SocketPair \/ ForkChild \/ ReceiveReady
          \/ ChildNotReady \/ ForwardReturns(TRUE) \/ WaitForChild \/ DropHelper
Helper == \/ HelperUnshare \/ HelperWriteUidMap \/ HelperWriteGidMap
          \/ HelperWriteReady
Child == ChildStep \/ ChildIdmap \/ ChildSend \/ ChildExec
Fault == \/ ParentFails \/ HelperFails \/ ChildFails
         \/ ReadyCutOff
         \/ MayFail /\ ForwardReturns(FALSE)
Command == CommandExits \/ CommandForks \/ BackgroundExits
Kill == KillParent \/ KillHelper \/ KillChild

\* Nothing is left to run: a helper that still sleeps stays, and so does a
\* parent behind a full input queue.
Terminating == parent \in {"exited", "blocked"} /\ ~ChildAlive /\ UNCHANGED vars

Input == ForwardBlocks \/ ForwardUnblocks

Next == Parent \/ Helper \/ Child \/ Fault \/ Command \/ Input \/ Kill \/ Terminating

Spec == Init /\ [][Next]_vars

(***************************************************************************)
(* Fairness: the scheduler runs the three processes.  The command and what *)
(* it leaves behind may run forever and need not read, and nothing ever    *)
(* has to fail.                                                            *)
(***************************************************************************)
Fairness == WF_vars(Parent) /\ WF_vars(Helper) /\ WF_vars(Child)

FairSpec == Spec /\ Fairness
-----------------------------------------------------------------------------
(***************************************************************************)
(* Properties.                                                             *)
(***************************************************************************)
\* The values of the variables.
TypeOK ==
  /\ effective_user \in BOOLEAN /\ is_tty \in BOOLEAN
  /\ parent \in {"start", "pipe", "fork_helper", "read_ready", "open_userns",
                 "socketpair", "fork", "recv", "forward", "blocked", "wait",
                 "drop", "exited"}
  /\ code \in {"none", "error", "killed", "child"}
  /\ idmap_helper \in BOOLEAN
  /\ userns_fd \in {"none", "host", "helper"}
  /\ helper \in {"none", "unshare", "uid_map", "gid_map", "ready", "sleep",
                 "zombie", "reaped"}
  /\ maps \subseteq {"uid_map", "gid_map"}
  /\ child \in Steps \cup {"none", "run", "zombie", "reaped"}
  /\ idmapped \in {"none", "host", "helper"}
  /\ background \in BOOLEAN
  /\ pipeR \subseteq Procs /\ pipeW \subseteq Procs
  /\ sockP \subseteq Procs /\ sockC \subseteq Procs
  /\ pipe \in 0..1
  /\ queue \subseteq {"R", "R+pty"}

\* Mounts are idmapped only with the helper's user namespace, never with the
\* host's, and only when both of its id maps are written: the ready byte
\* comes after both, and the parent opens the namespace after the byte.
IdmapComplete ==
  idmapped # "none" => idmapped = "helper" /\ maps = {"uid_map", "gid_map"}

\* The parent stops waiting for the ready message only for a child that is
\* dead: it never gives up on one that goes on to run the command.
ChildNotReadyMeansDead == [][ChildNotReady => ~ChildAlive]_vars

\* An `attach` that has ended, by an error or a signal, before its child sent
\* the ready message gets no command started any more: the child goes on with
\* its mounts, but its message finds no receiver (drop(parent_sock), line 151
\* of src/attach/mod.rs) and it ends.
NoCommandAfterExit ==
  [][parent = "exited" /\ child \in BeforeReady
       => child' \in BeforeReady \cup {"zombie"}]_vars

\* Drop of IdmapHelper "Kill helper and reap it" (src/attach/idmap_helper.rs:163)
\* on every error return that comes after the helper was made.
HelperReapedOnError ==
  parent = "exited" /\ code = "error" /\ userns_fd # "none" => ~HelperAlive

\* The same for every exit: "Keep idmap_helper alive for the duration of
\* attach" (src/attach/mod.rs:144), and drop it then.
HelperReapedAtExit ==
  parent = "exited" /\ code # "killed" /\ userns_fd # "none" => ~HelperAlive

\* The parent never stays in a blocking read: a helper or a child that dies at
\* any point closes the last writing end.
ParentNeverStuck ==
  \A call \in {"read_ready", "recv"} : parent = call ~> parent # call

\* The death of the child, and of what it left on the PTY, ends `attach`,
\* also after an early error of `forward` and a lost descriptor, unless the
\* loop is stuck behind a full input queue.
ChildEndsAttach ==
  (child = "zombie" /\ ~background) ~> parent \in {"exited", "blocked"}
==============================================================================
