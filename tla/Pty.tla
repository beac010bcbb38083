--------------------------------- MODULE Pty ---------------------------------
(***************************************************************************)
(* The PTY forwarding loop of cntr: `forward`, `shovel`, `FilePair` and    *)
(* `RawTty` of src/pty.rs, together with what the loop talks to: the       *)
(* user's terminal, the kernel's PTY and the command that runs on the PTY  *)
(* slave.  The two file pairs are named for their direction:               *)
(*                                                                         *)
(*    "in"    stdin -> PTY master       "out"   PTY master -> stdout       *)
(*                                                                         *)
(* The file descriptors are blocking: a write into a full queue stops the  *)
(* whole loop.  The bytes of a direction are numbered in the order of      *)
(* their production, so a byte is its number.                              *)
(***************************************************************************)
EXTENDS Integers, Sequences

CONSTANTS
  BUF_SIZE,        \* size of the buffer of a FilePair
  MaxBytes,        \* bound: bytes each source produces
  Room,            \* Room[p]: bytes the kernel queues for the sink of p
  PtyRoom,         \* bytes of program output the PTY queues for its master
  Sizes,           \* window sizes of the user's terminal
  Starts,          \* the slave when the parent starts to forward: "open" in
                   \* attach, and in exec, where the child opens it meanwhile,
                   \* "unopened"
  MayFail,         \* system calls fail that normally do not
  MayHangup        \* the user's terminal goes away (and SIGHUP is ignored)

Pairs == {"in", "out"}
Fallback == "80x25"      \* the size get_winsize reports without a terminal

ASSUME BufAssumption == BUF_SIZE \in Nat \ {0}
ASSUME BytesAssumption == MaxBytes \in Nat
ASSUME RoomAssumption == Room \in [Pairs -> Nat \ {0}] /\ PtyRoom \in Nat \ {0}
ASSUME SizesAssumption == Sizes # {} /\ Fallback \notin Sizes
ASSUME StartsAssumption == Starts # {} /\ Starts \subseteq {"open", "unopened"}
ASSUME FlagsAssumption == MayFail \in BOOLEAN /\ MayHangup \in BOOLEAN

VARIABLES
  pc,              \* where `forward` is
  cur,             \* the pair the for loop of `shovel` has reached
  revents,         \* the pairs poll reported
  buf, read_offset, write_offset, state,        \* the fields of FilePair
  last_winsize,    \* local of `shovel`
  why,             \* what made `shovel` return: "none" while it runs
  tty,             \* the user's terminal: "orig" or "raw" mode, "refused" when
                   \* the kernel refused to take it out of raw mode
  term,            \* the user's terminal: "open" or "hup"
  termSize,        \* its window size
  ptySize,         \* the window size of the PTY
  made,            \* made[p]: bytes the source of p has produced
  rd,              \* rd[p]: of these, bytes read by the loop
  out,             \* out[p]: the bytes written into the sink of p
  taken,           \* taken[p]: of these, bytes the sink has consumed
  slave,           \* the slave side: "unopened", "open", "closed", "never"
  prog             \* the command: "none", "run", "write" (blocked), "gone"

pairVars == <<buf, read_offset, write_offset, state>>
loopVars == <<pc, cur, revents, last_winsize, why, tty>>
sinkVars == <<rd, out>>
envVars  == <<made, taken, slave, prog, term>>
sizeVars == <<termSize, ptySize>>
vars == <<pairVars, loopVars, sinkVars, envVars, sizeVars>>

Min2(a, b) == IF a <= b THEN a ELSE b

\* Nobody can open the slave any more, or everybody has closed it.
SlaveGone == slave \in {"closed", "never"}
\* Queued bytes of a source (lost with a terminal that hung up), and free
\* space in front of a sink.
Queued(p) == made[p] - rd[p]
Pending(p) == IF p = "in" /\ term = "hup" THEN 0 ELSE Queued(p)
Free(p) == Room[p] - (Len(out[p]) - taken[p])

FilePairNew == /\ buf = [p \in Pairs |-> [i \in 1..BUF_SIZE |-> 0]]
               /\ read_offset = [p \in Pairs |-> 0]
               /\ write_offset = [p \in Pairs |-> 0]
               /\ state = [p \in Pairs |-> "Read"]

Init == /\ pc = "forward"
        /\ cur = "in"
        /\ revents = {}
        /\ FilePairNew
        /\ why = "none"
        /\ tty = "orig"
        /\ term = "open"
        /\ termSize \in Sizes
        /\ ptySize = "unset"
        /\ last_winsize = "unset"
        /\ made = [p \in Pairs |-> 0]
        /\ rd = [p \in Pairs |-> 0]
        /\ out = [p \in Pairs |-> << >>]
        /\ taken = [p \in Pairs |-> 0]
        /\ slave \in Starts
        /\ prog = IF slave = "open" THEN "run" ELSE "none"
-----------------------------------------------------------------------------
(***************************************************************************)
(* `forward`: raw mode, three dups, `shovel`, and the drop of RawTty on    *)
(* every way out.  Setting raw mode flushes what was typed before.         *)
(***************************************************************************)
get_winsize == IF term = "open" THEN termSize ELSE Fallback

\* The size is set on the PTY and remembered in last_winsize; an error of the
\* call is ignored, and the size is remembered all the same.
ForgetsPty == last_winsize' = get_winsize /\ UNCHANGED ptySize  \* mutant
set_winsize ==
  /\ last_winsize' = get_winsize
  /\ \/ ptySize' = get_winsize
     \/ MayFail /\ UNCHANGED ptySize

RawTtyNew ==
  /\ pc = "forward"
  /\ term = "open"
  /\ pc' = "dup"
  /\ tty' = "raw"
  /\ made' = [made EXCEPT !["in"] = 0]
  /\ UNCHANGED <<pairVars, cur, revents, last_winsize, why, sinkVars, taken,
                 slave, prog, term, sizeVars>>

\* tcgetattr and tcsetattr fail at will, and always on a terminal that hung up.
TtyRefuses == MayFail \/ term = "hup"

\* RawTty::new fails: `forward` returns before it changed the mode.
RawTtyFails ==
  /\ pc = "forward"
  /\ TtyRefuses
  /\ pc' = "done"
  /\ why' = "error"
  /\ UNCHANGED <<pairVars, cur, revents, last_winsize, tty, sinkVars, envVars,
                 sizeVars>>

\* The three dups succeed and `shovel` starts: it sets the PTY's size.
Dup ==
  /\ pc = "dup"
  /\ pc' = "poll"
  /\ set_winsize
  /\ UNCHANGED <<pairVars, cur, revents, why, tty, sinkVars, envVars, termSize>>

\* mutant: the terminal mode is restored only after `shovel`.
DupFailsRaw ==
  /\ pc = "dup"
  /\ MayFail
  /\ pc' = "done"
  /\ why' = "error"
  /\ UNCHANGED <<pairVars, cur, revents, last_winsize, tty, sinkVars, envVars,
                 sizeVars>>

\* `forward` returns, and drops RawTty on its way out.
Leave == pc' = "restore"

DupFails ==
  /\ pc = "dup"
  /\ MayFail
  /\ Leave
  /\ why' = "error"
  /\ UNCHANGED <<pairVars, cur, revents, last_winsize, tty, sinkVars, envVars,
                 sizeVars>>

\* The drop of RawTty sets the terminal back to its own mode.  It ignores an
\* error of tcsetattr, which a terminal that hung up always gives: `forward`
\* returns all the same and leaves the terminal in raw mode.
Restore ==
  /\ pc = "restore"
  /\ term = "open"
  /\ pc' = "done"
  /\ tty' = "orig"
  /\ UNCHANGED <<pairVars, cur, revents, last_winsize, why, sinkVars, envVars,
                 sizeVars>>

RestoreFails ==
  /\ pc = "restore"
  /\ TtyRefuses
  /\ pc' = "done"
  /\ tty' = "refused"
  /\ UNCHANGED <<pairVars, cur, revents, last_winsize, why, sinkVars, envVars,
                 sizeVars>>
-----------------------------------------------------------------------------
(***************************************************************************)
(* `shovel`.  A pair waits for its source in state Read and for its sink   *)
(* in state Write.  A master whose slave was opened and closed again       *)
(* reports a hangup; before the first open it is merely silent.            *)
(***************************************************************************)
\* mutant: only POLLIN and POLLOUT are looked at, not POLLHUP.
ReadyNoHangup(p) == IF state[p] = "Read" THEN Pending(p) > 0 ELSE Free(p) > 0

Ready(p) ==
  IF state[p] = "Read"
  THEN \/ Pending(p) > 0
       \/ p = "in" /\ term = "hup"
       \/ p = "out" /\ slave = "closed"
  ELSE \/ Free(p) > 0
       \/ p = "in" /\ slave = "closed"
       \/ p = "out" /\ term = "hup"

\* poll returns (with no events after 100 ms), the size is compared with the
\* last one and set on the PTY when it changed.
AfterPollEnds == IF revents' = {} THEN "restore" ELSE "serve"   \* mutant
AfterPoll == IF revents' = {} THEN "poll" ELSE "serve"

Poll ==
  /\ pc = "poll"
  /\ revents' = {p \in Pairs : Ready(p)}
  /\ IF get_winsize # last_winsize
     THEN set_winsize
     ELSE UNCHANGED <<ptySize, last_winsize>>
  /\ pc' = AfterPoll
  /\ cur' = "in"
  /\ UNCHANGED <<pairVars, why, tty, sinkVars, envVars, termSize>>

\* Any error of poll but EINTR makes `shovel` return.
PollFails ==
  /\ pc = "poll"
  /\ MayFail
  /\ Leave
  /\ why' = "error"
  /\ UNCHANGED <<pairVars, cur, revents, last_winsize, tty, sinkVars, envVars,
                 sizeVars>>

\* The for loop goes on with the next pair, and from the last back to poll.
NextPair == IF cur = "in" THEN pc' = "serve" /\ cur' = "out"
                          ELSE pc' = "poll" /\ cur' = "in"

Skip ==
  /\ pc = "serve"
  /\ cur \notin revents
  /\ NextPair
  /\ UNCHANGED <<pairVars, revents, last_winsize, why, tty, sinkVars, envVars,
                 sizeVars>>

\* A pair in state Write goes straight to FilePair::write.
ServeWrite ==
  /\ pc = "serve"
  /\ cur \in revents
  /\ state[cur] = "Write"
  /\ pc' = "write"
  /\ UNCHANGED <<pairVars, cur, revents, last_winsize, why, tty, sinkVars,
                 envVars, sizeVars>>

\* FilePair::read: k bytes (0 from a terminal that hung up) overwrite the
\* front of the buffer, and FilePair::write follows without another poll.
Read(k) ==
  /\ pc = "serve"
  /\ cur \in revents
  /\ state[cur] = "Read"
  /\ \/ k \in 1..Min2(BUF_SIZE, Pending(cur))
     \/ k = 0 /\ Pending(cur) = 0 /\ cur = "in" /\ term = "hup"
  /\ buf' = [buf EXCEPT ![cur] =
               [i \in 1..BUF_SIZE |-> IF i <= k THEN rd[cur] + i ELSE @[i]]]
  /\ read_offset' = [read_offset EXCEPT ![cur] = k]
  /\ rd' = [rd EXCEPT ![cur] = @ + k]
  /\ pc' = "write"
  /\ UNCHANGED <<write_offset, state, cur, revents, last_winsize, why, tty, out,
                 envVars, sizeVars>>

\* Reading the master fails with EIO once the slave is closed and its output
\* has been read.
ReadFails ==
  /\ pc = "serve"
  /\ cur \in revents
  /\ state[cur] = "Read"
  /\ \/ cur = "out" /\ slave = "closed" /\ Pending(cur) = 0
     \/ MayFail
  /\ Leave
  /\ why' = IF cur = "out" /\ slave = "closed" /\ Pending(cur) = 0
            THEN "closed" ELSE "error"
  /\ UNCHANGED <<pairVars, cur, revents, last_winsize, tty, sinkVars, envVars,
                 sizeVars>>

\* The sink of p refuses everything: a terminal that hung up.  A master takes
\* what it has room for, also before the slave was opened and after it closed.
SinkBroken(p) == p = "out" /\ term = "hup"

\* The n bytes of the buffer that a write hands over.
ChunkFromStart(p, n) == [i \in 1..n |-> buf[p][i]]    \* mutant
Chunk(p, n) == [i \in 1..n |-> buf[p][write_offset[p] + i]]

\* A write of n bytes empties the buffer.
DrainedAlways(p, n) == TRUE                           \* mutant
Drained(p, n) == write_offset[p] + n >= read_offset[p]

\* The offsets and the state after a write of n bytes.
AdvanceKeepsOffset(p, n) ==                           \* mutant
  /\ read_offset' = [read_offset EXCEPT ![p] = IF Drained(p, n) THEN 0 ELSE @]
  /\ write_offset' = [write_offset EXCEPT ![p] = @ + n]
  /\ state' = [state EXCEPT ![p] = IF Drained(p, n) THEN "Read" ELSE "Write"]
Advance(p, n) ==
  /\ read_offset' = [read_offset EXCEPT ![p] = IF Drained(p, n) THEN 0 ELSE @]
  /\ write_offset' = [write_offset EXCEPT ![p] = IF Drained(p, n) THEN 0 ELSE @ + n]
  /\ state' = [state EXCEPT ![p] = IF Drained(p, n) THEN "Read" ELSE "Write"]

\* FilePair::write: the sink takes n of the bytes between the two offsets.
\* Nothing happens while it has no room: the call blocks, and the closing of
\* the slave does not wake it.
Write(n) ==
  /\ pc = "write"
  /\ ~SinkBroken(cur)
  /\ IF read_offset[cur] = write_offset[cur]
     THEN n = 0
     ELSE n \in 1..Min2(read_offset[cur] - write_offset[cur], Free(cur))
  /\ out' = [out EXCEPT ![cur] = @ \o Chunk(cur, n)]
  /\ Advance(cur, n)
  /\ NextPair
  /\ UNCHANGED <<buf, revents, last_winsize, why, tty, rd, envVars, sizeVars>>

WriteFails ==
  /\ pc = "write"
  /\ SinkBroken(cur) \/ MayFail
  /\ Leave
  /\ why' = IF SinkBroken(cur) THEN "sink" ELSE "error"
  /\ UNCHANGED <<pairVars, cur, revents, last_winsize, tty, sinkVars, envVars,
                 sizeVars>>
-----------------------------------------------------------------------------
(***************************************************************************)
(* The surroundings.  The user types, resizes and closes the terminal; the *)
(* terminal displays what it got; the command, one thread, reads or writes *)
(* and cannot read while it is blocked in a write.                         *)
(***************************************************************************)
Type ==
  /\ term = "open"
  /\ made["in"] < MaxBytes
  /\ made' = [made EXCEPT !["in"] = @ + 1]
  /\ UNCHANGED <<pairVars, loopVars, sinkVars, taken, slave, prog, term, sizeVars>>

Resize ==
  /\ term = "open"
  /\ termSize' \in Sizes
  /\ UNCHANGED <<pairVars, loopVars, sinkVars, envVars, ptySize>>

Hangup ==
  /\ MayHangup
  /\ term = "open"
  /\ term' = "hup"
  /\ UNCHANGED <<pairVars, loopVars, sinkVars, made, taken, slave, prog, sizeVars>>

TermDrain ==
  /\ term = "open"
  /\ taken["out"] < Len(out["out"])
  /\ taken' = [taken EXCEPT !["out"] = @ + 1]
  /\ UNCHANGED <<pairVars, loopVars, sinkVars, made, slave, prog, term, sizeVars>>

\* `attach_pts` of the child opens the slave, or the child ends before it could.
SlaveOpen ==
  /\ slave = "unopened"
  /\ \/ slave' = "open" /\ prog' = "run"
     \/ slave' = "never" /\ prog' = "gone"
  /\ UNCHANGED <<pairVars, loopVars, sinkVars, made, taken, term, sizeVars>>

ProgRead ==
  /\ prog = "run"
  /\ taken["in"] < Len(out["in"])
  /\ taken' = [taken EXCEPT !["in"] = @ + 1]
  /\ UNCHANGED <<pairVars, loopVars, sinkVars, made, slave, prog, term, sizeVars>>

ProgCallWrite ==
  /\ prog = "run"
  /\ made["out"] < MaxBytes
  /\ prog' = "write"
  /\ UNCHANGED <<pairVars, loopVars, sinkVars, made, taken, slave, term, sizeVars>>

ProgWrite ==
  /\ prog = "write"
  /\ Pending("out") < PtyRoom
  /\ made' = [made EXCEPT !["out"] = @ + 1]
  /\ prog' = "run"
  /\ UNCHANGED <<pairVars, loopVars, sinkVars, taken, slave, term, sizeVars>>

\* The command, and with it the last holder of the slave, ends.
ProgExit ==
  /\ slave = "open"
  /\ slave' = "closed"
  /\ prog' = "gone"
  /\ UNCHANGED <<pairVars, loopVars, sinkVars, made, taken, term, sizeVars>>
-----------------------------------------------------------------------------
Forward ==
  \/ RawTtyNew \/ RawTtyFails \/ Dup \/ DupFails \/ Restore \/ RestoreFails
  \/ Poll \/ PollFails \/ Skip \/ ServeWrite
  \/ \E k \in 0..BUF_SIZE : Read(k)
  \/ ReadFails
  \/ \E n \in 0..BUF_SIZE : Write(n)
  \/ WriteFails

User == Type \/ Resize \/ Hangup
Program == SlaveOpen \/ ProgRead \/ ProgCallWrite \/ ProgWrite \/ ProgExit

\* `forward` has returned and nothing is left to happen around it.
Ended == pc = "done"
Terminating == Ended /\ UNCHANGED vars

Next == Forward \/ User \/ TermDrain \/ Program \/ Terminating

Spec == Init /\ [][Next]_vars

(***************************************************************************)
(* Fairness: the scheduler runs cntr, the kernel completes a write of the  *)
(* command as soon as there is room, the terminal displays its output, and *)
(* a command that is not blocked reads its input.  The user owes nothing,  *)
(* and the command neither writes nor exits unless it wants to.            *)
(***************************************************************************)
Fairness == /\ WF_vars(Forward)
            /\ WF_vars(TermDrain)
            /\ WF_vars(ProgRead)
            /\ WF_vars(ProgWrite)
            /\ WF_vars(SlaveOpen)

FairSpec == Spec /\ Fairness
-----------------------------------------------------------------------------
(***************************************************************************)
(* Safety.                                                                 *)
(***************************************************************************)
\* The values of the variables; the offsets of a FilePair stay inside its
\* buffer, so that the slice buf[write_offset..read_offset] never panics.
TypeOK ==
  /\ pc \in {"forward", "dup", "poll", "serve", "write", "restore", "done"}
  /\ cur \in Pairs
  /\ revents \subseteq Pairs
  /\ buf \in [Pairs -> [1..BUF_SIZE -> Nat]]
  /\ read_offset \in [Pairs -> 0..BUF_SIZE]
  /\ write_offset \in [Pairs -> 0..BUF_SIZE]
  /\ \A p \in Pairs : write_offset[p] <= read_offset[p]
  /\ state \in [Pairs -> {"Read", "Write"}]
  /\ why \in {"none", "error", "closed", "sink"}
  /\ tty \in {"orig", "raw", "refused"}
  /\ term \in {"open", "hup"}
  /\ termSize \in Sizes
  /\ ptySize \in Sizes \cup {Fallback, "unset"}
  /\ last_winsize \in Sizes \cup {Fallback, "unset"}
  /\ made \in [Pairs -> Nat]
  /\ rd \in [Pairs -> Nat]
  /\ out \in [Pairs -> Seq(Nat)]
  /\ taken \in [Pairs -> Nat]
  /\ slave \in {"unopened", "open", "closed", "never"}
  /\ prog \in {"none", "run", "write", "gone"}

\* Across partial reads and writes, reuse of the buffer and every way out of
\* the loop, a byte that FilePair::read took is written or still buffered.
NoByteLost ==
  \A p \in Pairs :
    /\ rd[p] = Len(out[p]) + (read_offset[p] - write_offset[p])
    /\ rd[p] <= made[p]

\* Each sink receives the bytes of its source once each and in order.
InOrder == \A p \in Pairs : \A i \in 1..Len(out[p]) : out[p][i] = i

\* The bytes between the two offsets are the next ones the sink needs; outside
\* of FilePair::write a pair in state Read has none.
BufferHoldsNext ==
  \A p \in Pairs :
    /\ \A j \in 1..(read_offset[p] - write_offset[p]) :
         buf[p][write_offset[p] + j] = Len(out[p]) + j
    /\ state[p] = "Read" =>
         /\ write_offset[p] = 0
         /\ pc \in {"forward", "dup", "poll", "serve"} \/ (pc = "write" /\ p # cur)
              => read_offset[p] = 0

\* When `shovel` returns because the PTY was closed, all that the command
\* ever wrote has been written to the terminal.
OutputComplete == why = "closed" => Len(out["out"]) = made["out"]

\* `forward` leaves the user's terminal in raw mode only when the kernel
\* refuses the very call that should end it, whose error is ignored: RawTty
\* is dropped on every way out, the failing dups included.
RawOnlyWhileForwarding ==
  Ended => tty = "orig" \/ (tty = "refused" /\ TtyRefuses)

\* "Forwards PTY I/O between stdin/stdout and the PTY (blocks until child
\* exits)", src/pty.rs:262.
BlocksUntilChildExits == Ended => SlaveGone

\* The rest of the inductive invariant: nothing is read before the loop runs,
\* and what is true of the ends of the loop and of the slave.
Phases ==
  /\ pc \in {"forward", "dup"} => \A p \in Pairs : rd[p] = 0
  /\ pc = "forward" => tty = "orig"
  /\ pc = "done" => tty # "raw"
  /\ tty = "refused" => pc = "done" /\ TtyRefuses
  /\ why # "none" => pc \in {"restore", "done"}
  /\ why = "closed" => slave = "closed" /\ rd["out"] = made["out"]
                       /\ read_offset["out"] = write_offset["out"]
  /\ SlaveGone => prog = "gone"

IInv == TypeOK /\ NoByteLost /\ InOrder /\ BufferHoldsNext /\ Phases

(***************************************************************************)
(* Liveness, under FairSpec.                                               *)
(***************************************************************************)
\* The loop waits in a blocking write for room in the PTY's input queue.
InputBlocked == pc = "write" /\ cur = "in" /\ Free("in") = 0

\* Once everybody has closed the slave, `forward` returns, whatever the loop
\* was doing, unless it is stuck for good behind a full input queue.
ChildGoneEndsForward == <>[]InputBlocked \/ (slave = "closed" ~> Ended)

\* The PTY takes on the window size of the terminal again and again, unless
\* the loop is stuck for good behind a full input queue.
WindowFollows == <>[]InputBlocked \/ []<>(ptySize = termSize \/ Ended)

\* A byte the command wrote gets to the terminal, also when the command ends
\* right after it and while input flows, unless the loop is stuck for good
\* behind a full input queue.
OutputForwarded ==
  \/ <>[]InputBlocked
  \/ \A i \in 1..MaxBytes : made["out"] >= i ~> Len(out["out"]) >= i

\* The loop implements the pair of relays.
R == INSTANCE Relay WITH finished <- Ended
ImplementsRelay == R!Spec
==============================================================================
