-------------------------------- MODULE Relay --------------------------------
(***************************************************************************)
(* What `forward` (src/pty.rs) promises its two ends: a pair of one-way    *)
(* byte relays between the user's terminal and the PTY.  Each relay hands  *)
(* its sink the bytes of its source once each, in order, starting with the *)
(* first, and nothing any more once it has finished.  The program may be   *)
(* finished at any time; which bytes are then still undelivered is left    *)
(* open here and settled by the properties of module Pty.                  *)
(*                                                                         *)
(* The bytes of a source are numbered 1, 2, 3, ... in the order in which   *)
(* they were produced, so made[p] says how many there are.                 *)
(***************************************************************************)
EXTENDS Integers, Sequences

CONSTANT Pairs          \* the directions

VARIABLES made,         \* made[p]: bytes the source of p has produced
          out,          \* out[p]: the bytes handed to the sink of p
          finished      \* the relay has ended

vars == <<made, out, finished>>

Init == /\ made = [p \in Pairs |-> 0]
        /\ out = [p \in Pairs |-> << >>]
        /\ finished = FALSE

\* A source produces a byte, also when nobody relays it any more.
Produce(p) == /\ made' = [made EXCEPT ![p] = @ + 1]
              /\ UNCHANGED <<out, finished>>

\* What was produced before the relay started may be thrown away.
Discard(p) == /\ out[p] = << >>
              /\ made' = [made EXCEPT ![p] = 0]
              /\ UNCHANGED <<out, finished>>

\* The sink receives the next n bytes that are still missing there.
Deliver(p, n) ==
  /\ ~finished
  /\ Len(out[p]) + n <= made[p]
  /\ out' = [out EXCEPT ![p] = @ \o [i \in 1..n |-> Len(out[p]) + i]]
  /\ UNCHANGED <<made, finished>>

Finish == finished' = TRUE /\ UNCHANGED <<made, out>>

Next == \/ \E p \in Pairs : Produce(p) \/ Discard(p)
        \/ \E p \in Pairs : \E n \in 1..made[p] : Deliver(p, n)
        \/ Finish

Spec == Init /\ [][Next]_vars
==============================================================================
