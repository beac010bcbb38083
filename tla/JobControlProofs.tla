-------------------------- MODULE JobControlProofs ---------------------------
(***************************************************************************)
(* The exit status that the user's shell sees is the child's, for all exit *)
(* codes and signals and every order of stops, continues and deaths.       *)
(***************************************************************************)
EXTENDS JobControl, TLAPS

-----------------------------------------------------------------------------
(***************************************************************************)
(* The ways a process ends.                                                *)
(***************************************************************************)
\* An exit code is a byte, and stays what it is.
LEMMA ByteOfByte == \A c \in 0..255 : c % 256 = c
OBVIOUS

\* How cntr ends for each way the child ends: the shell sees the same number,
\* and a signal that is raised again is one that ends cntr.
LEMMA ExitForType ==
  ASSUME NEW sig \in Signals
  PROVE  /\ ExitFor(sig) \in {Exit(c) : c \in 0..255}
                               \cup {Killed(s) : s \in Named \ Ignored}
         /\ ShellStatus(ExitFor(sig)) = 128 + sig
         /\ ShellStatus(Killed(sig)) = 128 + sig
<1>1. sig \in 1..64 /\ 128 + sig \in 0..255
  BY StatusAssumption
<1>2. (128 + sig) % 256 = 128 + sig
  BY <1>1, ByteOfByte
<1>3. CASE sig \in Named \ Ignored
  BY <1>1, <1>3 DEF ExitFor, Killed, ShellStatus
<1>4. CASE sig \notin Named \ Ignored
  <2>1. ExitFor(sig) = Exit(128 + sig) /\ Exit(128 + sig)[2] = 128 + sig
    BY <1>2, <1>4 DEF ExitFor, Exit
  <2>2. Exit(128 + sig)[1] = "exit"
    BY DEF Exit
  <2> QED BY <1>1, <2>1, <2>2 DEF ShellStatus, Killed
<1> QED BY <1>3, <1>4

LEMMA ExitType ==
  ASSUME NEW c \in Codes
  PROVE  Exit(c) = <<"exit", c>> /\ c \in 0..255
BY StatusAssumption, ByteOfByte DEF Exit

\* What WaitDead makes of a status of the child.
EndFor(end) == IF end[1] = "killed" THEN ExitFor(end[2]) ELSE Exit(end[2])

LEMMA EndForType ==
  ASSUME NEW end \in Ends
  PROVE  /\ EndFor(end) \in {Exit(c) : c \in 0..255}
                              \cup {Killed(s) : s \in Named \ Ignored}
         /\ ShellStatus(EndFor(end)) = ShellStatus(end)
<1>1. CASE end = None
  <2>1. end[1] = "none" /\ end[2] = 0 /\ EndFor(end) = Exit(0) /\ Exit(0) = <<"exit", 0>>
    BY <1>1, ByteOfByte DEF None, EndFor, Exit
  <2> QED BY <2>1 DEF ShellStatus
<1>2. ASSUME NEW c \in Codes, end = Exit(c)
      PROVE  /\ EndFor(end) \in {Exit(d) : d \in 0..255}
             /\ ShellStatus(EndFor(end)) = ShellStatus(end)
  <2>1. end = <<"exit", c>> /\ c \in 0..255
    BY <1>2, ExitType
  <2>2. EndFor(end) = Exit(c)
    BY <2>1 DEF EndFor
  <2> QED BY <1>2, <2>1, <2>2
<1>3. ASSUME NEW s \in Signals, end = Killed(s)
      PROVE  /\ EndFor(end) \in {Exit(d) : d \in 0..255}
                                  \cup {Killed(d) : d \in Named \ Ignored}
             /\ ShellStatus(EndFor(end)) = ShellStatus(end)
  <2>1. end[1] = "killed" /\ end[2] = s
    BY <1>3 DEF Killed
  <2>2. EndFor(end) = ExitFor(s)
    BY <2>1 DEF EndFor
  <2> QED BY <1>3, <2>2, ExitForType
<1> QED BY <1>1, <1>2, <1>3 DEF Ends

-----------------------------------------------------------------------------
(***************************************************************************)
(* The steps.                                                              *)
(***************************************************************************)
\* Every step keeps the types; only a stopped child has a stop to report.
LEMMA TypeStep == TypeOK /\ [Next]_vars => TypeOK'
<1> SUFFICES ASSUME TypeOK, [Next]_vars PROVE TypeOK'
  OBVIOUS
<1> USE DEF TypeOK, childVars, jobVars
<1>1. CASE ForwardReturns(TRUE)
  BY <1>1 DEF ForwardReturns
<1>2. CASE WaitStopped
  BY <1>2 DEF WaitStopped
<1>3. CASE StopSelf
  BY <1>3 DEF StopSelf
<1>4. CASE ResumeChild
  BY <1>4 DEF ResumeChild, ContChild, Resume
<1>5. CASE WaitDead
  <2>1. result' = EndFor(status)
    BY <1>5 DEF WaitDead, EndFor
  <2>2. result' \in {Exit(c) : c \in 0..255} \cup {Killed(s) : s \in Named \ Ignored}
    BY <2>1, EndForType
  <2>3. pc' = "exited" /\ UNCHANGED <<pty, pstate, child, status, report, stops, tstp, cont>>
    BY <1>5 DEF WaitDead
  <2> QED BY <2>2, <2>3
<1>6. CASE ParentTstp
  BY <1>6 DEF ParentTstp
<1>7. CASE ChildTstp
  <2>1. ASSUME child' = "stopped", report' = TRUE, stops < MaxStops, stops' = stops + 1
        PROVE  /\ report' \in BOOLEAN /\ (report' => child' = "stopped")
               /\ stops' \in 0..MaxStops
    BY <2>1, StatusAssumption
  <2>2. CASE child = "running" /\ stops < MaxStops
    BY <1>7, <2>1, <2>2 DEF ChildTstp
  <2>3. CASE ~(child = "running" /\ stops < MaxStops)
    BY <1>7, <2>3 DEF ChildTstp
  <2> QED BY <2>2, <2>3
<1>8. CASE ParentCont
  BY <1>8 DEF ParentCont
<1>9. CASE ChildCont
  <2>1. /\ cont' \subseteq {"parent", "child"} /\ child' \in {"running", "stopped", "dead"}
        /\ report' \in BOOLEAN /\ (report' => child' = "stopped")
    <3>1. CASE child = "stopped"
      BY <1>9, <3>1 DEF ChildCont
    <3>2. CASE child # "stopped"
      BY <1>9, <3>2 DEF ChildCont
    <3> QED BY <3>1, <3>2
  <2>2. UNCHANGED <<pty, pc, pstate, result, status, stops, tstp>>
    BY <1>9 DEF ChildCont
  <2> QED BY <2>1, <2>2
<1>10. CASE ForwardReturns(FALSE)
  BY <1>10 DEF ForwardReturns
<1>11. CASE StopChild
  <2>1. ASSUME child' = "stopped", report' = TRUE, stops < MaxStops, stops' = stops + 1
        PROVE  /\ report' \in BOOLEAN /\ (report' => child' = "stopped")
               /\ stops' \in 0..MaxStops
    BY <2>1, StatusAssumption
  <2> QED BY <1>11, <2>1 DEF StopChild
<1>12. CASE CtrlZ
  BY <1>12 DEF CtrlZ
<1>13. CASE Fg
  BY <1>13 DEF Fg
<1>14. CASE ChildExits
  <2>1. PICK c \in Codes : ChildDies(Exit(c))
    BY <1>14 DEF ChildExits
  <2>2. child' = "dead" /\ status' \in Ends /\ report' = FALSE
    BY <2>1 DEF ChildDies, Ends
  <2>3. report' \in BOOLEAN /\ ~report'
    BY <2>2
  <2> QED BY <2>1, <2>2, <2>3 DEF ChildDies
<1>15. CASE ChildKilled
  <2>1. PICK s \in Signals : ChildDies(Killed(s))
    BY <1>15 DEF ChildKilled
  <2>2. child' = "dead" /\ status' \in Ends /\ report' = FALSE
    BY <2>1 DEF ChildDies, Ends
  <2>3. report' \in BOOLEAN /\ ~report'
    BY <2>2
  <2> QED BY <2>1, <2>2, <2>3 DEF ChildDies
<1>16. CASE UNCHANGED vars
  BY <1>16 DEF vars
<1> QED
  BY <1>1, <1>2, <1>3, <1>4, <1>5, <1>6, <1>7, <1>8, <1>9, <1>10, <1>11,
     <1>12, <1>13, <1>14, <1>15, <1>16
     DEF Next, Parent, Deliver, Outside, Terminating

\* Once cntr has exited neither its end nor the child's changes.
LEMMA PropagatedStep ==
  TypeOK /\ StatusPropagated /\ [Next]_vars => StatusPropagated'
<1> SUFFICES ASSUME TypeOK, StatusPropagated, [Next]_vars
             PROVE  StatusPropagated'
  OBVIOUS
<1>1. CASE WaitDead
  <2>1. child' = "dead" /\ status' = status /\ result' = EndFor(status)
    BY <1>1 DEF WaitDead, EndFor, childVars
  <2>2. status \in Ends
    BY DEF TypeOK
  <2>3. ShellStatus(result') = ShellStatus(status')
    BY <2>1, <2>2, EndForType
  <2> QED BY <2>1, <2>3 DEF StatusPropagated
<1>2. CASE pc' # "exited"
  BY <1>2 DEF StatusPropagated
<1>3. CASE ~WaitDead /\ pc' = "exited"
  <2>1. pc = "exited"
    BY <1>3 DEF Next, Parent, Deliver, Outside, Terminating, ForwardReturns,
         WaitStopped, StopSelf, ResumeChild, ParentTstp, ChildTstp, ParentCont,
         ChildCont, StopChild, CtrlZ, Fg, ChildExits, ChildKilled, ChildDies, vars
  <2>2. child = "dead" /\ ShellStatus(result) = ShellStatus(status)
    BY <2>1 DEF StatusPropagated
  <2>3. child' = child /\ result' = result /\ status' = status
    BY <1>3, <2>1, <2>2
       DEF Next, Parent, Deliver, Outside, Terminating, ForwardReturns,
         WaitStopped, StopSelf, ResumeChild, ParentTstp, ChildTstp, ParentCont,
         ChildCont, StopChild, CtrlZ, Fg, ChildExits, ChildKilled, ChildDies, vars,
         childVars
  <2> QED BY <2>2, <2>3 DEF StatusPropagated
<1> QED BY <1>1, <1>2, <1>3

-----------------------------------------------------------------------------
(***************************************************************************)
(* The theorems.                                                           *)
(***************************************************************************)
LEMMA InitInv == Init => TypeOK /\ StatusPropagated
<1> SUFFICES ASSUME Init PROVE TypeOK /\ StatusPropagated
  OBVIOUS
<1>1. pty \in BOOLEAN /\ report \in BOOLEAN /\ report = FALSE
  BY DEF Init
<1>2. pc \in {"forward", "waitpid"}
  BY DEF Init
<1>3. status \in Ends
  BY DEF Init, Ends
<1> QED BY <1>1, <1>2, <1>3, StatusAssumption DEF Init, TypeOK, StatusPropagated

\* The variables keep their types; cntr never goes on after it has raised a
\* signal again.
THEOREM TypeCorrect == Spec => []TypeOK
BY InitInv, TypeStep, PTL DEF Spec

\* For all exit codes and signals, named or not, survived or not, the shell
\* sees the number it would have seen for the child itself.
THEOREM Propagated == Spec => []StatusPropagated
BY InitInv, TypeStep, PropagatedStep, PTL DEF Spec
=============================================================================
