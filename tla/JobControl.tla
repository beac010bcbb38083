----------------------------- MODULE JobControl ------------------------------
(***************************************************************************)
(* `wait_for_child` of src/pty.rs, with `forward_pty_and_wait` around it:  *)
(* how the parent answers a child that is stopped, continued, killed or    *)
(* exits, and what the user's shell gets to see of it.                     *)
(*                                                                         *)
(* Without a PTY the child is in the parent's process group, so a Ctrl+Z   *)
(* and the SIGCONT of `fg` go to both, one after the other.  With a PTY    *)
(* the child leads a session of its own: only a signal sent to it stops    *)
(* it, and `fg` resumes the parent alone.                                  *)
(***************************************************************************)
EXTENDS Naturals

CONSTANTS
  Codes,           \* exit codes of the command
  Signals,         \* numbers of signals that can kill the command
  Named,           \* of these, those Signal::from_named_raw knows
  Ignored,         \* of these, those the parent ignores (SIGPIPE in Rust)
  MaxStops         \* bound: times the child is stopped

ASSUME StatusAssumption == /\ Codes \subseteq 0..255
                           /\ Signals \subseteq 1..64
                           /\ Named \subseteq Signals /\ Ignored \subseteq Named
                           /\ MaxStops \in Nat

VARIABLES
  pty,             \* the child runs on a PTY
  pc,              \* where the parent is
  pstate,          \* the parent is "running" or "stopped"
  result,          \* how the parent ended
  child,           \* "running", "stopped" or "dead"
  status,          \* how the child ended
  report,          \* the kernel holds a stop of the child nobody waited for
  tstp,            \* processes with a pending SIGTSTP of Ctrl+Z
  cont,            \* processes with a pending SIGCONT of fg
  stops            \* how often the child was stopped

jobVars == <<tstp, cont>>
childVars == <<child, status, report, stops>>
vars == <<pty, pc, pstate, result, childVars, jobVars>>

\* The ways a process ends, and the number a shell reports for each.
Exit(code) == <<"exit", code % 256>>
Killed(sig) == <<"killed", sig>>
None == <<"none", 0>>
ShellStatus(end) == IF end[1] = "killed" THEN 128 + end[2] ELSE end[2]

Init == /\ pty \in BOOLEAN
        /\ pc = IF pty THEN "forward" ELSE "waitpid"
        /\ pstate = "running"
        /\ result = None
        /\ child = "running" /\ status = None /\ report = FALSE
        /\ tstp = {} /\ cont = {} /\ stops = 0
-----------------------------------------------------------------------------
(***************************************************************************)
(* The parent; it takes a step only while it is not stopped.               *)
(***************************************************************************)
\* `forward` returns when the slave is closed, or early with an error, which
\* is ignored.
ForwardReturns(atEnd) ==
  /\ pstate = "running" /\ pc = "forward"
  /\ atEnd = (child = "dead")
  /\ pc' = "waitpid"
  /\ UNCHANGED <<pty, pstate, result, childVars, jobVars>>

\* waitpid(UNTRACED) returns a stop of the child, once.
WaitStopped ==
  /\ pstate = "running" /\ pc = "waitpid"
  /\ report
  /\ report' = FALSE
  /\ pc' = "stop_self"
  /\ UNCHANGED <<pty, pstate, result, child, status, stops, jobVars>>

\* kill(getpid(), STOP): the parent is stopped before the call returns.
StopSelf ==
  /\ pstate = "running" /\ pc = "stop_self"
  /\ pstate' = "stopped"
  /\ pc' = "cont_child"
  /\ cont' = cont \ {"parent"}
  /\ UNCHANGED <<pty, result, childVars, tstp>>

\* kill(child, CONT); its error is ignored.
Resume(c) == /\ child' = IF child = "stopped" THEN "running" ELSE child
             /\ report' = FALSE
             /\ tstp' = tstp \ {"child"}
ResumeNot(c) == UNCHANGED <<child, report, tstp>>     \* mutant
ContChild(c) == Resume(c)

ResumeChild ==
  /\ pstate = "running" /\ pc = "cont_child"
  /\ ContChild("child")
  /\ pc' = "waitpid"
  /\ UNCHANGED <<pty, pstate, result, status, stops, cont>>

\* A killed child: the signal, if it has a name, is raised again; the parent
\* survives it if it ignores it, and exits with 128 + sig.
ExitForPlain(sig) == Exit(sig)                        \* mutant
ExitForRaised(sig) == Killed(sig)                     \* mutant: raised, no exit
ExitFor(sig) == IF sig \in Named \ Ignored THEN Killed(sig) ELSE Exit(128 + sig)

WaitDead ==
  /\ pstate = "running" /\ pc = "waitpid"
  /\ child = "dead" /\ ~report
  /\ result' = IF status[1] = "killed" THEN ExitFor(status[2])
                                       ELSE Exit(status[2])
  /\ pc' = "exited"
  /\ UNCHANGED <<pty, pstate, childVars, jobVars>>
-----------------------------------------------------------------------------
(***************************************************************************)
(* The child, the terminal and the user's shell.                           *)
(***************************************************************************)
\* A signal that stops the child, from anywhere.
StopChild ==
  /\ child = "running" /\ stops < MaxStops
  /\ child' = "stopped" /\ report' = TRUE /\ stops' = stops + 1
  /\ UNCHANGED <<pty, pc, pstate, result, status, jobVars>>

\* Ctrl+Z in the user's terminal goes to its foreground group; behind a raw
\* terminal it is a byte like any other.
CtrlZ ==
  /\ ~pty /\ pc # "exited" /\ pstate = "running" /\ child = "running"
  /\ stops < MaxStops
  /\ tstp' = {"parent", "child"}
  /\ cont' = {}
  /\ UNCHANGED <<pty, pc, pstate, result, childVars>>

ParentTstp ==
  /\ "parent" \in tstp /\ pc # "exited"
  /\ tstp' = tstp \ {"parent"}
  /\ pstate' = "stopped"
  /\ UNCHANGED <<pty, pc, result, childVars, cont>>

ChildTstp ==
  /\ "child" \in tstp
  /\ tstp' = tstp \ {"child"}
  /\ IF child = "running" /\ stops < MaxStops
     THEN child' = "stopped" /\ report' = TRUE /\ stops' = stops + 1
     ELSE UNCHANGED <<child, report, stops>>
  /\ UNCHANGED <<pty, pc, pstate, result, status, cont>>

\* fg: SIGCONT for the group of the parent; it cancels pending stops.
Fg ==
  /\ pstate = "stopped"
  /\ cont' = IF pty THEN {"parent"} ELSE {"parent", "child"}
  /\ tstp' = tstp \ cont'
  /\ UNCHANGED <<pty, pc, pstate, result, childVars>>

ParentCont ==
  /\ "parent" \in cont
  /\ cont' = cont \ {"parent"}
  /\ pstate' = "running"
  /\ UNCHANGED <<pty, pc, result, childVars, tstp>>

\* A continued child has no stop to report any more.
ChildCont ==
  /\ "child" \in cont
  /\ cont' = cont \ {"child"}
  /\ IF child = "stopped"
     THEN child' = "running" /\ report' = FALSE
     ELSE UNCHANGED <<child, report>>
  /\ UNCHANGED <<pty, pc, pstate, result, status, stops, tstp>>

ChildDies(end) ==
  /\ child' = "dead" /\ status' = end /\ report' = FALSE
  /\ UNCHANGED <<pty, pc, pstate, result, stops, jobVars>>

ChildExits == child = "running" /\ \E c \in Codes : ChildDies(Exit(c))
ChildKilled == child # "dead" /\ \E s \in Signals : ChildDies(Killed(s))
-----------------------------------------------------------------------------
Parent == ForwardReturns(TRUE) \/ WaitStopped \/ StopSelf \/ ResumeChild \/ WaitDead
Deliver == ParentTstp \/ ChildTstp \/ ParentCont \/ ChildCont
Outside == ForwardReturns(FALSE) \/ StopChild \/ CtrlZ \/ Fg \/ ChildExits \/ ChildKilled

Terminating == pc = "exited" /\ UNCHANGED vars

Next == Parent \/ Deliver \/ Outside \/ Terminating

Spec == Init /\ [][Next]_vars

(***************************************************************************)
(* Fairness: a parent that is not stopped runs, and pending signals are    *)
(* delivered.  Nobody has to type fg, and the command need not end.        *)
(***************************************************************************)
Fairness == WF_vars(Parent) /\ WF_vars(Deliver)

FairSpec == Spec /\ Fairness
-----------------------------------------------------------------------------
(***************************************************************************)
(* Properties.                                                             *)
(***************************************************************************)
Ends == {None} \cup {Exit(c) : c \in Codes} \cup {Killed(s) : s \in Signals}

\* The values of the variables.  The parent raises only signals that end it:
\* it never goes on after a child's signal it cannot die of.
TypeOK ==
  /\ pty \in BOOLEAN
  /\ pc \in {"forward", "waitpid", "stop_self", "cont_child", "exited"}
  /\ pstate \in {"running", "stopped"}
  /\ result \in {None} \cup {Exit(c) : c \in 0..255}
                \cup {Killed(s) : s \in Named \ Ignored}
  /\ child \in {"running", "stopped", "dead"}
  /\ status \in Ends
  /\ report \in BOOLEAN /\ (report => child = "stopped")
  /\ tstp \subseteq {"parent", "child"} /\ cont \subseteq {"parent", "child"}
  /\ stops \in 0..MaxStops

\* "Propagates the child's exit status to the current process"
\* (src/pty.rs:264): the shell sees the number it would have seen for the
\* child, also for signals without a name and signals the parent survives,
\* and never while the child is alive.
StatusPropagated ==
  pc = "exited" => child = "dead" /\ ShellStatus(result) = ShellStatus(status)

\* Once the parent waits, a stopped child stops it too, or is resumed: the
\* user is never left with a running parent in front of a stopped child.
StoppedChildAnswered ==
  child = "stopped" /\ pc # "forward" ~> (pstate = "stopped" \/ child # "stopped")
==============================================================================
