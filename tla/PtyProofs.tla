------------------------------ MODULE PtyProofs ------------------------------
(***************************************************************************)
(* What holds of the forwarding loop for every buffer size, every queue    *)
(* length and every number of bytes: the types, and that no byte is lost,  *)
(* invented, repeated or reordered on its way.                             *)
(***************************************************************************)
EXTENDS Pty, SequenceTheorems, TLAPS

USE DEF Pairs

-----------------------------------------------------------------------------
(***************************************************************************)
(* Types.                                                                  *)
(***************************************************************************)
\* get_winsize reports a size of the terminal or the fallback.
LEMMA WinsizeType == TypeOK => get_winsize \in Sizes \cup {Fallback}
BY DEF TypeOK, get_winsize

\* Setting the size keeps both copies of it in range.
LEMMA SetWinsizeType ==
  ASSUME TypeOK, set_winsize
  PROVE  /\ ptySize' \in Sizes \cup {Fallback, "unset"}
         /\ last_winsize' \in Sizes \cup {Fallback, "unset"}
BY WinsizeType DEF TypeOK, set_winsize

\* What a write appends to a sink: n numbers from the buffer.
LEMMA ChunkType ==
  ASSUME TypeOK, NEW p \in Pairs, NEW n \in Nat,
         write_offset[p] + n <= BUF_SIZE
  PROVE  Chunk(p, n) \in Seq(Nat) /\ Len(Chunk(p, n)) = n
<1> DEFINE f == [i \in 1..n |-> buf[p][write_offset[p] + i]]
<1>1. write_offset[p] \in Nat /\ BUF_SIZE \in Nat
  BY BufAssumption DEF TypeOK
<1>2. \A i \in 1..n : write_offset[p] + i \in 1..BUF_SIZE
  BY <1>1
<1>3. \A i \in 1..n : buf[p][write_offset[p] + i] \in Nat
  BY <1>2 DEF TypeOK
<1>4. f \in Seq(Nat) /\ Len(f) = n
  BY <1>3
<1> QED BY <1>4 DEF Chunk

\* A write takes at most what lies between the two offsets.
LEMMA WriteBounds ==
  ASSUME TypeOK, NEW n \in 0..BUF_SIZE, Write(n)
  PROVE  /\ n \in Nat /\ cur \in Pairs
         /\ write_offset[cur] + n <= read_offset[cur]
         /\ read_offset[cur] \in 0..BUF_SIZE /\ write_offset[cur] \in Nat
<1>1. /\ cur \in Pairs /\ n \in Nat /\ BUF_SIZE \in Nat
      /\ read_offset[cur] \in 0..BUF_SIZE /\ write_offset[cur] \in 0..BUF_SIZE
      /\ write_offset[cur] <= read_offset[cur]
  <2>1. cur \in Pairs /\ write_offset[cur] <= read_offset[cur]
    BY DEF TypeOK
  <2>2. read_offset[cur] \in 0..BUF_SIZE /\ write_offset[cur] \in 0..BUF_SIZE
    BY <2>1 DEF TypeOK
  <2> QED BY <2>1, <2>2, BufAssumption
<1>2. n = 0 \/ n <= read_offset[cur] - write_offset[cur]
  <2>1. CASE read_offset[cur] = write_offset[cur]
    BY <2>1 DEF Write
  <2>2. CASE read_offset[cur] # write_offset[cur]
    <3>1. n \in 1..Min2(read_offset[cur] - write_offset[cur], Free(cur))
      BY <2>2 DEF Write
    <3>2. Room[cur] \in Nat
      BY <1>1, RoomAssumption
    <3>4. taken[cur] \in Nat
      BY <1>1 DEF TypeOK
    <3>5. out[cur] \in Seq(Nat)
      BY <1>1 DEF TypeOK
    <3>3. Free(cur) \in Int
      BY <3>2, <3>4, <3>5 DEF Free
    <3> QED BY <3>1, <3>3, <1>1 DEF Min2
  <2> QED BY <2>1, <2>2
<1> QED BY <1>1, <1>2

-----------------------------------------------------------------------------
\* FilePair::read keeps the types: a pair in state Read starts at offset 0.
LEMMA ReadType ==
  ASSUME TypeOK, BufferHoldsNext, NEW k \in 0..BUF_SIZE, Read(k)
  PROVE  TypeOK'
<1>1. cur \in Pairs /\ k \in Nat /\ BUF_SIZE \in Nat /\ k <= BUF_SIZE
  BY BufAssumption DEF TypeOK
<1>2. rd[cur] \in Nat /\ buf[cur] \in [1..BUF_SIZE -> Nat]
  BY <1>1 DEF TypeOK
<1>3. write_offset[cur] = 0
  BY <1>1 DEF Read, BufferHoldsNext
<1>4. buf' \in [Pairs -> [1..BUF_SIZE -> Nat]]
  <2> DEFINE f == [i \in 1..BUF_SIZE |-> IF i <= k THEN rd[cur] + i ELSE buf[cur][i]]
  <2>1. f \in [1..BUF_SIZE -> Nat]
    BY <1>1, <1>2
  <2>2. buf' = [buf EXCEPT ![cur] = f]
    BY DEF Read
  <2>3. buf \in [Pairs -> [1..BUF_SIZE -> Nat]]
    BY DEF TypeOK
  <2> HIDE DEF f
  <2> QED BY <2>1, <2>2, <2>3
<1>5. /\ read_offset' \in [Pairs -> 0..BUF_SIZE]
      /\ write_offset' \in [Pairs -> 0..BUF_SIZE]
      /\ \A p \in Pairs : write_offset'[p] <= read_offset'[p]
  <2>1. read_offset' = [read_offset EXCEPT ![cur] = k] /\ write_offset' = write_offset
    BY DEF Read
  <2> QED BY <1>1, <1>3, <2>1 DEF TypeOK
<1>6. rd' \in [Pairs -> Nat]
  <2>1. rd' = [rd EXCEPT ![cur] = @ + k]
    BY DEF Read
  <2>2. rd[cur] + k \in Nat
    BY <1>1, <1>2
  <2> QED BY <2>1, <2>2 DEF TypeOK
<1>7. pc' = "write" /\ UNCHANGED <<state, cur, revents, last_winsize, why, tty,
                                   out, envVars, sizeVars>>
  BY DEF Read
<1>8. /\ cur' \in Pairs /\ revents' \subseteq Pairs
      /\ state' \in [Pairs -> {"Read", "Write"}]
      /\ out' \in [Pairs -> Seq(Nat)]
      /\ why' \in {"none", "error", "closed", "sink"}
      /\ tty' \in {"orig", "raw", "refused"}
      /\ term' \in {"open", "hup"}
      /\ termSize' \in Sizes
      /\ ptySize' \in Sizes \cup {Fallback, "unset"}
      /\ last_winsize' \in Sizes \cup {Fallback, "unset"}
      /\ made' \in [Pairs -> Nat]
      /\ taken' \in [Pairs -> Nat]
      /\ slave' \in {"unopened", "open", "closed", "never"}
      /\ prog' \in {"none", "run", "write", "gone"}
  BY <1>7 DEF TypeOK, envVars, sizeVars
<1>9. pc' = "write"
  BY <1>7
<1> HIDE DEF Pairs
<1> QED BY <1>4, <1>5, <1>6, <1>8, <1>9 DEF TypeOK

\* FilePair::write keeps the types.
LEMMA WriteType ==
  ASSUME TypeOK, NEW n \in 0..BUF_SIZE, Write(n)
  PROVE  TypeOK'
<1>1. /\ n \in Nat /\ cur \in Pairs
      /\ write_offset[cur] + n <= read_offset[cur]
      /\ read_offset[cur] \in 0..BUF_SIZE /\ write_offset[cur] \in Nat
  BY WriteBounds
<1>2. out' \in [Pairs -> Seq(Nat)]
  <2>1. write_offset[cur] + n <= BUF_SIZE
    BY <1>1, BufAssumption
  <2>2. Chunk(cur, n) \in Seq(Nat)
    BY <1>1, <2>1, ChunkType
  <2>3. out[cur] \in Seq(Nat)
    BY <1>1 DEF TypeOK
  <2>4. out[cur] \o Chunk(cur, n) \in Seq(Nat)
    BY <2>2, <2>3
  <2>5. out' = [out EXCEPT ![cur] = out[cur] \o Chunk(cur, n)]
    BY DEF Write
  <2>6. out \in [Pairs -> Seq(Nat)]
    BY DEF TypeOK
  <2> QED BY <2>4, <2>5, <2>6
<1>3. Advance(cur, n)
  BY DEF Write
<1>4. /\ read_offset' \in [Pairs -> 0..BUF_SIZE]
      /\ write_offset' \in [Pairs -> 0..BUF_SIZE]
      /\ \A p \in Pairs : write_offset'[p] <= read_offset'[p]
  <2>0. /\ read_offset \in [Pairs -> 0..BUF_SIZE]
        /\ write_offset \in [Pairs -> 0..BUF_SIZE]
        /\ \A p \in Pairs : write_offset[p] <= read_offset[p]
    BY DEF TypeOK
  <2>1. CASE Drained(cur, n)
    <3>1. /\ read_offset' = [read_offset EXCEPT ![cur] = 0]
          /\ write_offset' = [write_offset EXCEPT ![cur] = 0]
      BY <1>3, <2>1 DEF Advance
    <3>2. 0 \in 0..BUF_SIZE
      BY BufAssumption
    <3>3. /\ read_offset' \in [Pairs -> 0..BUF_SIZE]
          /\ write_offset' \in [Pairs -> 0..BUF_SIZE]
      BY <3>1, <3>2, <2>0
    <3>4. \A p \in Pairs : write_offset'[p] <= read_offset'[p]
      BY <1>1, <3>1, <2>0
    <3> QED BY <3>3, <3>4
  <2>2. CASE ~Drained(cur, n)
    <3>1. /\ read_offset' = [read_offset EXCEPT ![cur] = read_offset[cur]]
          /\ write_offset' = [write_offset EXCEPT ![cur] = write_offset[cur] + n]
      BY <1>3, <2>2 DEF Advance
    <3>2. write_offset[cur] + n \in 0..BUF_SIZE
      BY <1>1, BufAssumption
    <3>3. read_offset' = read_offset
      BY <3>1, <2>0, <1>1
    <3>4. write_offset' \in [Pairs -> 0..BUF_SIZE]
      BY <3>1, <3>2, <2>0
    <3>5. \A p \in Pairs : write_offset'[p] <= read_offset'[p]
      BY <1>1, <3>1, <2>0, <3>3
    <3> QED BY <2>0, <3>3, <3>4, <3>5
  <2> QED BY <2>1, <2>2
<1>5. state' \in [Pairs -> {"Read", "Write"}]
  BY <1>3 DEF TypeOK, Advance
<1>6. pc' \in {"poll", "serve"} /\ cur' \in Pairs
  BY DEF Write, NextPair
<1>7. UNCHANGED <<buf, revents, last_winsize, why, tty, rd, envVars, sizeVars>>
  BY DEF Write
<1>8. /\ revents' \subseteq Pairs
      /\ buf' \in [Pairs -> [1..BUF_SIZE -> Nat]]
      /\ rd' \in [Pairs -> Nat]
      /\ why' \in {"none", "error", "closed", "sink"}
      /\ tty' \in {"orig", "raw", "refused"}
      /\ term' \in {"open", "hup"}
      /\ termSize' \in Sizes
      /\ ptySize' \in Sizes \cup {Fallback, "unset"}
      /\ last_winsize' \in Sizes \cup {Fallback, "unset"}
      /\ made' \in [Pairs -> Nat]
      /\ taken' \in [Pairs -> Nat]
      /\ slave' \in {"unopened", "open", "closed", "never"}
      /\ prog' \in {"none", "run", "write", "gone"}
  BY <1>7 DEF TypeOK, envVars, sizeVars
<1> HIDE DEF Pairs
<1> QED BY <1>2, <1>4, <1>5, <1>6, <1>8 DEF TypeOK

\* Whoever takes a byte from a sink, the terminal or the command, keeps the types.
LEMMA TakeType ==
  ASSUME TypeOK, NEW p \in Pairs, taken' = [taken EXCEPT ![p] = @ + 1],
         UNCHANGED <<pairVars, loopVars, sinkVars, made, slave, prog, term, sizeVars>>
  PROVE  TypeOK'
<1>1. taken \in [Pairs -> Nat]
  BY DEF TypeOK
<1>2. taken' \in [Pairs -> Nat]
  <2>1. taken[p] + 1 \in Nat
    BY <1>1
  <2> QED BY <1>1, <2>1
<1>3. UNCHANGED <<pc, cur, revents, why, tty, last_winsize, state, buf, read_offset,
                  write_offset, rd, out, made, slave, prog, term, termSize, ptySize>>
  BY DEF pairVars, loopVars, sinkVars, sizeVars
<1> HIDE DEF Pairs
<1>4. /\ pc' \in {"forward", "dup", "poll", "serve", "write", "restore", "done"}
      /\ cur' \in Pairs /\ revents' \subseteq Pairs
      /\ why' \in {"none", "error", "closed", "sink"}
      /\ tty' \in {"orig", "raw", "refused"}
      /\ term' \in {"open", "hup"}
      /\ slave' \in {"unopened", "open", "closed", "never"}
      /\ prog' \in {"none", "run", "write", "gone"}
  BY <1>3 DEF TypeOK
<1>5. /\ termSize' \in Sizes
      /\ ptySize' \in Sizes \cup {Fallback, "unset"}
      /\ last_winsize' \in Sizes \cup {Fallback, "unset"}
  BY <1>3 DEF TypeOK
<1>6. /\ buf' \in [Pairs -> [1..BUF_SIZE -> Nat]]
      /\ state' \in [Pairs -> {"Read", "Write"}]
      /\ read_offset' \in [Pairs -> 0..BUF_SIZE]
      /\ write_offset' \in [Pairs -> 0..BUF_SIZE]
  BY <1>3 DEF TypeOK
<1>7. \A q \in Pairs : write_offset'[q] <= read_offset'[q]
  <2>1. \A q \in Pairs : write_offset[q] <= read_offset[q]
    BY DEF TypeOK
  <2> QED BY <1>3, <2>1
<1>8. /\ made' \in [Pairs -> Nat] /\ rd' \in [Pairs -> Nat]
      /\ out' \in [Pairs -> Seq(Nat)]
  BY <1>3 DEF TypeOK
<1> QED BY <1>2, <1>4, <1>5, <1>6, <1>7, <1>8 DEF TypeOK

\* So does whoever makes one, the user or the command.
LEMMA MakeType ==
  ASSUME TypeOK, NEW p \in Pairs, made' = [made EXCEPT ![p] = @ + 1],
         prog' \in {"none", "run", "write", "gone"},
         UNCHANGED <<pairVars, loopVars, sinkVars, taken, slave, term, sizeVars>>
  PROVE  TypeOK'
<1>1. made \in [Pairs -> Nat]
  BY DEF TypeOK
<1>2. made' \in [Pairs -> Nat]
  <2>1. made[p] + 1 \in Nat
    BY <1>1
  <2> QED BY <1>1, <2>1
<1>3. UNCHANGED <<pc, cur, revents, why, tty, last_winsize, state, buf, read_offset,
                  write_offset, rd, out, taken, slave, term, termSize, ptySize>>
  BY DEF pairVars, loopVars, sinkVars, sizeVars
<1> HIDE DEF Pairs
<1>4. /\ pc' \in {"forward", "dup", "poll", "serve", "write", "restore", "done"}
      /\ cur' \in Pairs /\ revents' \subseteq Pairs
      /\ why' \in {"none", "error", "closed", "sink"}
      /\ tty' \in {"orig", "raw", "refused"}
      /\ term' \in {"open", "hup"}
      /\ slave' \in {"unopened", "open", "closed", "never"}
  BY <1>3 DEF TypeOK
<1>5. /\ termSize' \in Sizes
      /\ ptySize' \in Sizes \cup {Fallback, "unset"}
      /\ last_winsize' \in Sizes \cup {Fallback, "unset"}
  BY <1>3 DEF TypeOK
<1>6. /\ buf' \in [Pairs -> [1..BUF_SIZE -> Nat]]
      /\ state' \in [Pairs -> {"Read", "Write"}]
      /\ read_offset' \in [Pairs -> 0..BUF_SIZE]
      /\ write_offset' \in [Pairs -> 0..BUF_SIZE]
  BY <1>3 DEF TypeOK
<1>7. \A q \in Pairs : write_offset'[q] <= read_offset'[q]
  <2>1. \A q \in Pairs : write_offset[q] <= read_offset[q]
    BY DEF TypeOK
  <2> QED BY <1>3, <2>1
<1>8. /\ taken' \in [Pairs -> Nat] /\ rd' \in [Pairs -> Nat]
      /\ out' \in [Pairs -> Seq(Nat)]
  BY <1>3 DEF TypeOK
<1> QED BY <1>2, <1>4, <1>5, <1>6, <1>7, <1>8 DEF TypeOK

\* So do the steps that may change the size of the PTY.
LEMMA ResizeType ==
  ASSUME TypeOK, pc' \in {"poll", "serve"}, cur' \in Pairs, revents' \subseteq Pairs,
         set_winsize \/ UNCHANGED <<ptySize, last_winsize>>,
         UNCHANGED <<pairVars, why, tty, sinkVars, envVars, termSize>>
  PROVE  TypeOK'
<1>1. /\ ptySize' \in Sizes \cup {Fallback, "unset"}
      /\ last_winsize' \in Sizes \cup {Fallback, "unset"}
  <2>1. CASE set_winsize
    BY <2>1, SetWinsizeType
  <2>2. CASE UNCHANGED <<ptySize, last_winsize>>
    BY <2>2 DEF TypeOK
  <2> QED BY <2>1, <2>2
<1>2. UNCHANGED <<why, tty, state, buf, read_offset, write_offset, rd, out, made, taken,
                  slave, prog, term, termSize>>
  BY DEF pairVars, sinkVars, envVars
<1> HIDE DEF Pairs
<1>3. /\ why' \in {"none", "error", "closed", "sink"}
      /\ tty' \in {"orig", "raw", "refused"}
      /\ term' \in {"open", "hup"} /\ termSize' \in Sizes
      /\ slave' \in {"unopened", "open", "closed", "never"}
      /\ prog' \in {"none", "run", "write", "gone"}
  BY <1>2 DEF TypeOK
<1>4. /\ buf' \in [Pairs -> [1..BUF_SIZE -> Nat]]
      /\ state' \in [Pairs -> {"Read", "Write"}]
      /\ read_offset' \in [Pairs -> 0..BUF_SIZE]
      /\ write_offset' \in [Pairs -> 0..BUF_SIZE]
  BY <1>2 DEF TypeOK
<1>5. \A q \in Pairs : write_offset'[q] <= read_offset'[q]
  <2>1. \A q \in Pairs : write_offset[q] <= read_offset[q]
    BY DEF TypeOK
  <2> QED BY <1>2, <2>1
<1>6. /\ made' \in [Pairs -> Nat] /\ taken' \in [Pairs -> Nat] /\ rd' \in [Pairs -> Nat]
      /\ out' \in [Pairs -> Seq(Nat)]
  BY <1>2 DEF TypeOK
<1> QED BY <1>1, <1>3, <1>4, <1>5, <1>6 DEF TypeOK

\* Every step keeps the types.
LEMMA TypeStep == TypeOK /\ BufferHoldsNext /\ [Next]_vars => TypeOK'
<1> SUFFICES ASSUME TypeOK, BufferHoldsNext, [Next]_vars PROVE TypeOK'
  OBVIOUS
<1> USE BufAssumption DEF TypeOK, pairVars, loopVars, sinkVars, envVars, sizeVars
<1>1. CASE RawTtyNew
  BY <1>1 DEF RawTtyNew
<1>2. CASE RawTtyFails
  BY <1>2 DEF RawTtyFails
<1>3. CASE Dup
  <2>1. UNCHANGED <<cur, revents>> /\ cur \in Pairs /\ revents \subseteq Pairs
    BY <1>3 DEF Dup
  <2> HIDE DEF TypeOK
  <2> QED BY <1>3, <2>1, ResizeType DEF Dup
<1>4. CASE DupFails
  BY <1>4 DEF DupFails, Leave
<1>5. CASE Restore \/ RestoreFails
  <2>1. CASE Restore
    BY <2>1 DEF Restore
  <2>2. CASE RestoreFails
    BY <2>2 DEF RestoreFails
  <2> QED BY <1>5, <2>1, <2>2
<1>6. CASE Poll
  <2> HIDE DEF TypeOK
  <2>1. pc' \in {"poll", "serve"} /\ cur' \in Pairs /\ revents' \subseteq Pairs
    BY <1>6 DEF Poll, AfterPoll, Pairs
  <2>2. set_winsize \/ UNCHANGED <<ptySize, last_winsize>>
    BY <1>6 DEF Poll
  <2>3. UNCHANGED <<pairVars, why, tty, sinkVars, envVars, termSize>>
    BY <1>6 DEF Poll
  <2> QED BY <2>1, <2>2, <2>3, ResizeType
<1>7. CASE PollFails
  BY <1>7 DEF PollFails, Leave
<1>8. CASE Skip
  <2>1. pc' \in {"serve", "poll"} /\ cur' \in Pairs
    BY <1>8 DEF Skip, NextPair
  <2>2. UNCHANGED <<pairVars, revents, last_winsize, why, tty, sinkVars, envVars, sizeVars>>
    BY <1>8 DEF Skip, NextPair
  <2> QED BY <2>1, <2>2
<1>9. CASE ServeWrite
  BY <1>9 DEF ServeWrite
<1>10. ASSUME NEW k \in 0..BUF_SIZE, Read(k) PROVE TypeOK'
  BY <1>10, ReadType
<1>11. CASE ReadFails
  BY <1>11 DEF ReadFails, Leave
<1>12. ASSUME NEW n \in 0..BUF_SIZE, Write(n) PROVE TypeOK'
  BY <1>12, WriteType
<1>13. CASE WriteFails
  BY <1>13 DEF WriteFails, Leave
<1>14. CASE Type
  <2>1. prog' \in {"none", "run", "write", "gone"}
    BY <1>14 DEF Type
  <2> HIDE DEF TypeOK
  <2> QED BY <1>14, <2>1, MakeType DEF Type, Pairs
<1>15. CASE Resize
  BY <1>15 DEF Resize
<1>16. CASE Hangup
  BY <1>16 DEF Hangup
<1>17. CASE TermDrain
  <2> HIDE DEF TypeOK
  <2> QED BY <1>17, TakeType DEF TermDrain
<1>18. CASE SlaveOpen
  BY <1>18 DEF SlaveOpen
<1>19. CASE ProgRead
  <2> HIDE DEF TypeOK
  <2> QED BY <1>19, TakeType DEF ProgRead
<1>20. CASE ProgCallWrite
  BY <1>20 DEF ProgCallWrite
<1>21. CASE ProgWrite
  <2> HIDE DEF TypeOK
  <2> QED BY <1>21, MakeType DEF ProgWrite, Pairs
<1>22. CASE ProgExit
  BY <1>22 DEF ProgExit
<1>23. CASE UNCHANGED vars
  BY <1>23 DEF vars
<1> QED
  BY <1>1, <1>2, <1>3, <1>4, <1>5, <1>6, <1>7, <1>8, <1>9, <1>10, <1>11, <1>12, <1>13, <1>14, <1>15, <1>16, <1>17, <1>18, <1>19, <1>20, <1>21, <1>22, <1>23
     DEF Next, Forward, User, Program, Terminating

-----------------------------------------------------------------------------
(***************************************************************************)
(* The bytes.  Only Read and Write touch the buffers, the counters and the *)
(* sinks.                                                                  *)
(***************************************************************************)
BytesInv == NoByteLost /\ InOrder /\ BufferHoldsNext

\* The integers among the types, for one pair.
LEMMA PairTypes ==
  ASSUME TypeOK, NEW p \in Pairs
  PROVE  /\ read_offset[p] \in 0..BUF_SIZE /\ write_offset[p] \in 0..BUF_SIZE
         /\ write_offset[p] <= read_offset[p]
         /\ rd[p] \in Nat /\ made[p] \in Nat
         /\ out[p] \in Seq(Nat) /\ Len(out[p]) \in Nat
         /\ BUF_SIZE \in Nat
<1>1. out[p] \in Seq(Nat)
  BY DEF TypeOK
<1>2. Len(out[p]) \in Nat
  BY <1>1
<1> QED BY <1>1, <1>2, BufAssumption DEF TypeOK

\* FilePair::read puts the next k bytes of its source at the front of an empty
\* buffer.
LEMMA ReadBytes ==
  ASSUME TypeOK, BytesInv, NEW k \in 0..BUF_SIZE, Read(k)
  PROVE  BytesInv'
<1> cur \in Pairs /\ k \in Nat
  BY BufAssumption DEF TypeOK
<1>1. /\ pc = "serve" /\ state[cur] = "Read"
      /\ read_offset' = [read_offset EXCEPT ![cur] = k]
      /\ rd' = [rd EXCEPT ![cur] = rd[cur] + k]
      /\ pc' = "write"
      /\ UNCHANGED <<write_offset, state, cur, out, made>>
  BY DEF Read, envVars
<1>2. read_offset[cur] = 0 /\ write_offset[cur] = 0
  BY <1>1 DEF BytesInv, BufferHoldsNext
<1>3. rd[cur] = Len(out[cur])
  <2>1. rd[cur] = Len(out[cur]) + (read_offset[cur] - write_offset[cur])
    BY DEF BytesInv, NoByteLost
  <2>2. Len(out[cur]) \in Nat
    BY PairTypes
  <2> QED BY <1>2, <2>1, <2>2
<1>4. \A j \in 1..BUF_SIZE : j <= k => buf'[cur][j] = rd[cur] + j
  <2>1. buf' = [buf EXCEPT ![cur] =
                  [i \in 1..BUF_SIZE |-> IF i <= k THEN rd[cur] + i ELSE buf[cur][i]]]
    BY DEF Read
  <2>2. buf \in [Pairs -> [1..BUF_SIZE -> Nat]]
    BY DEF TypeOK
  <2> QED BY <2>1, <2>2
<1>5. \A p \in Pairs : p # cur => /\ buf'[p] = buf[p] /\ rd'[p] = rd[p]
                                  /\ read_offset'[p] = read_offset[p]
  BY <1>1 DEF Read, TypeOK
<1>6. read_offset'[cur] = k /\ rd'[cur] = rd[cur] + k
  BY <1>1 DEF TypeOK
<1>7. rd[cur] + k <= made[cur]
  <2>1. k <= made[cur] - rd[cur] \/ k = 0
    <3>1. rd[cur] \in Nat /\ made[cur] \in Nat
      BY PairTypes
    <3>2. k = 0 \/ k \in 1..Min2(BUF_SIZE, Pending(cur))
      BY DEF Read
    <3> QED BY <3>1, <3>2, BufAssumption DEF Min2, Pending, Queued
  <2>2. rd[cur] <= made[cur]
    BY DEF BytesInv, NoByteLost
  <2>3. PICK a, b \in Nat : a = rd[cur] /\ b = made[cur]
    BY PairTypes
  <2>4. a <= b /\ (k <= b - a \/ k = 0)
    BY <2>1, <2>2, <2>3
  <2>5. a + k <= b
    BY <2>4
  <2> QED BY <2>3, <2>5
<1>8. NoByteLost'
  <2> SUFFICES ASSUME NEW p \in Pairs
               PROVE  /\ rd'[p] = Len(out'[p]) + (read_offset'[p] - write_offset'[p])
                      /\ rd'[p] <= made'[p]
    BY DEF NoByteLost
  <2>1. CASE p = cur
    BY <2>1, <1>1, <1>2, <1>3, <1>6, <1>7, PairTypes
  <2>2. CASE p # cur
    BY <2>2, <1>1, <1>5 DEF BytesInv, NoByteLost
  <2> QED BY <2>1, <2>2
<1>9. InOrder'
  BY <1>1 DEF BytesInv, InOrder
<1>10. BufferHoldsNext'
  <2> SUFFICES ASSUME NEW p \in Pairs
               PROVE  /\ \A j \in 1..(read_offset'[p] - write_offset'[p]) :
                           buf'[p][write_offset'[p] + j] = Len(out'[p]) + j
                      /\ state'[p] = "Read" =>
                           /\ write_offset'[p] = 0
                           /\ pc' \in {"forward", "dup", "poll", "serve"}
                                \/ (pc' = "write" /\ p # cur')
                                => read_offset'[p] = 0
    BY DEF BufferHoldsNext
  <2>1. CASE p = cur
    <3>1. \A j \in 1..k : buf'[cur][0 + j] = Len(out[cur]) + j
      BY <1>3, <1>4, BufAssumption
    <3> QED BY <2>1, <3>1, <1>1, <1>2, <1>6
  <2>2. CASE p # cur
    <3>1. /\ \A j \in 1..(read_offset[p] - write_offset[p]) :
               buf[p][write_offset[p] + j] = Len(out[p]) + j
          /\ state[p] = "Read" => write_offset[p] = 0 /\ read_offset[p] = 0
      BY <1>1 DEF BytesInv, BufferHoldsNext
    <3> QED BY <2>2, <3>1, <1>1, <1>5
  <2> QED BY <2>1, <2>2
<1> QED BY <1>8, <1>9, <1>10 DEF BytesInv

\* FilePair::write hands over the next n bytes.
LEMMA WriteBytes ==
  ASSUME TypeOK, BytesInv, NEW n \in 0..BUF_SIZE, Write(n)
  PROVE  /\ BytesInv'
         /\ Chunk(cur, n) = [i \in 1..n |-> Len(out[cur]) + i]
         /\ Len(out[cur]) + n <= made[cur]
<1> DEFINE L == Len(out[cur])
<1> DEFINE d == read_offset[cur] - write_offset[cur]
<1>1. /\ n \in Nat /\ cur \in Pairs
      /\ write_offset[cur] + n <= read_offset[cur]
      /\ read_offset[cur] \in 0..BUF_SIZE /\ write_offset[cur] \in Nat
      /\ BUF_SIZE \in Nat /\ L \in Nat /\ out[cur] \in Seq(Nat)
      /\ rd[cur] \in Nat /\ made[cur] \in Nat
  BY WriteBounds, PairTypes
<1>2. /\ pc = "write"
      /\ out' = [out EXCEPT ![cur] = out[cur] \o Chunk(cur, n)]
      /\ Advance(cur, n)
      /\ pc' \in {"poll", "serve"}
      /\ UNCHANGED <<buf, rd, made>>
  BY DEF Write, NextPair, envVars
<1>3. \A j \in 1..d : buf[cur][write_offset[cur] + j] = L + j
  BY <1>1 DEF BytesInv, BufferHoldsNext
<1>4. Chunk(cur, n) = [i \in 1..n |-> L + i]
  <2>1. \A i \in 1..n : i \in 1..d
    BY <1>1
  <2> QED BY <1>3, <2>1 DEF Chunk
<1>5. Chunk(cur, n) \in Seq(Nat) /\ Len(Chunk(cur, n)) = n
  BY <1>1, ChunkType
<1>6. /\ out'[cur] = out[cur] \o Chunk(cur, n)
      /\ \A p \in Pairs : p # cur => out'[p] = out[p]
  BY <1>1, <1>2 DEF TypeOK
<1>7. Len(out'[cur]) = L + n
  <2>1. Len(out[cur] \o Chunk(cur, n)) = Len(out[cur]) + Len(Chunk(cur, n))
    BY <1>1, <1>5, ConcatProperties
  <2> QED BY <1>5, <1>6, <2>1
<1>8. \A i \in 1..(L + n) : out'[cur][i] = i
  <2> SUFFICES ASSUME NEW i \in 1..(L + n) PROVE out'[cur][i] = i
    OBVIOUS
  <2>1. CASE i <= L
    <3>1. (out[cur] \o Chunk(cur, n))[i] = out[cur][i]
      BY <1>1, <1>5, <2>1
    <3>2. out[cur][i] = i
      BY <1>1, <2>1 DEF BytesInv, InOrder
    <3> QED BY <1>6, <3>1, <3>2
  <2>2. CASE i > L
    <3>1. (out[cur] \o Chunk(cur, n))[i] = Chunk(cur, n)[i - L]
      <4>1. L = Len(out[cur]) /\ L \in Nat /\ n \in Nat
        BY <1>1
      <4> HIDE DEF L
      <4>2. PICK s, t \in Seq(Nat) : s = out[cur] /\ t = Chunk(cur, n)
        BY <1>1, <1>5
      <4>3. Len(s) = L /\ Len(t) = n
        BY <1>5, <4>1, <4>2
      <4>4. i \in 1..(Len(s) + Len(t)) /\ i > Len(s)
        BY <2>2, <4>1, <4>3
      <4>5. (s \o t)[i] = t[i - Len(s)]
        BY <4>2, <4>4, ConcatProperties
      <4> QED BY <4>2, <4>3, <4>5
    <3>2. i - L \in 1..n
      <4>1. L \in Nat /\ n \in Nat
        BY <1>1
      <4> HIDE DEF L
      <4> QED BY <2>2, <4>1
    <3>3. Chunk(cur, n)[i - L] = L + (i - L)
      BY <1>4, <3>2
    <3> QED BY <1>1, <1>6, <3>1, <3>3
  <2> QED BY <1>1, <2>1, <2>2
<1>9. rd[cur] = L + d /\ rd[cur] <= made[cur]
  <2>1. cur \in Pairs
    BY <1>1
  <2> QED BY <2>1 DEF BytesInv, NoByteLost
<1>10. L + n <= made[cur]
  <2>1. n <= d
    BY <1>1
  <2>2. L \in Nat /\ d \in Int /\ n \in Nat /\ made[cur] \in Nat
    BY <1>1
  <2>3. L + d <= made[cur]
    BY <1>9
  <2> HIDE DEF L, d
  <2> QED BY <2>1, <2>2, <2>3
<1>11. \A p \in Pairs : p # cur => /\ read_offset'[p] = read_offset[p]
                                   /\ write_offset'[p] = write_offset[p]
                                   /\ state'[p] = state[p]
  BY <1>1, <1>2 DEF Advance, TypeOK
<1>12. CASE Drained(cur, n)
  <2>1. read_offset'[cur] = 0 /\ write_offset'[cur] = 0 /\ n = d
    <3>1. /\ read_offset' = [read_offset EXCEPT ![cur] = 0]
          /\ write_offset' = [write_offset EXCEPT ![cur] = 0]
      BY <1>2, <1>12 DEF Advance
    <3>2. /\ read_offset \in [Pairs -> 0..BUF_SIZE]
          /\ write_offset \in [Pairs -> 0..BUF_SIZE]
      BY DEF TypeOK
    <3>3. n = d
      BY <1>1, <1>12 DEF Drained
    <3> QED BY <1>1, <3>1, <3>2, <3>3
  <2>2. rd'[cur] = Len(out'[cur]) + (read_offset'[cur] - write_offset'[cur])
    BY <1>1, <1>2, <1>7, <1>9, <2>1
  <2>3. NoByteLost'
    BY <1>2, <1>6, <1>9, <1>11, <2>2 DEF BytesInv, NoByteLost
  <2>4. InOrder'
    BY <1>6, <1>7, <1>8 DEF BytesInv, InOrder
  <2>5. BufferHoldsNext'
    <3> SUFFICES ASSUME NEW p \in Pairs
                 PROVE  /\ \A j \in 1..(read_offset'[p] - write_offset'[p]) :
                             buf'[p][write_offset'[p] + j] = Len(out'[p]) + j
                        /\ state'[p] = "Read" =>
                             write_offset'[p] = 0 /\ read_offset'[p] = 0
      BY DEF BufferHoldsNext
    <3>1. CASE p = cur
      BY <2>1, <3>1
    <3>2. CASE p # cur
      <4>1. /\ \A j \in 1..(read_offset[p] - write_offset[p]) :
                 buf[p][write_offset[p] + j] = Len(out[p]) + j
            /\ state[p] = "Read" => write_offset[p] = 0 /\ read_offset[p] = 0
        BY <1>2, <3>2 DEF BytesInv, BufferHoldsNext
      <4> QED BY <1>2, <1>6, <1>11, <3>2, <4>1
    <3> QED BY <3>1, <3>2
  <2> QED BY <2>3, <2>4, <2>5, <1>4, <1>10 DEF BytesInv
<1>13. CASE ~Drained(cur, n)
  <2>1. /\ read_offset'[cur] = read_offset[cur]
        /\ write_offset'[cur] = write_offset[cur] + n
        /\ state'[cur] = "Write"
    <3>1. /\ read_offset' = [read_offset EXCEPT ![cur] = read_offset[cur]]
          /\ write_offset' = [write_offset EXCEPT ![cur] = write_offset[cur] + n]
          /\ state' = [state EXCEPT ![cur] = "Write"]
      BY <1>2, <1>13 DEF Advance
    <3>2. /\ read_offset \in [Pairs -> 0..BUF_SIZE]
          /\ write_offset \in [Pairs -> 0..BUF_SIZE]
          /\ state \in [Pairs -> {"Read", "Write"}]
      BY DEF TypeOK
    <3> QED BY <1>1, <3>1, <3>2
  <2>2. rd'[cur] = Len(out'[cur]) + (read_offset'[cur] - write_offset'[cur])
    <3>1. read_offset[cur] \in Int /\ write_offset[cur] \in Int
      BY <1>1
    <3> HIDE DEF L
    <3>2. L + d = (L + n) + (read_offset[cur] - (write_offset[cur] + n))
      BY <1>1, <3>1
    <3> QED BY <1>2, <1>7, <1>9, <2>1, <3>2
  <2>3. NoByteLost'
    BY <1>2, <1>6, <1>9, <1>11, <2>2 DEF BytesInv, NoByteLost
  <2>4. InOrder'
    BY <1>6, <1>7, <1>8 DEF BytesInv, InOrder
  <2>5. BufferHoldsNext'
    <3> SUFFICES ASSUME NEW p \in Pairs
                 PROVE  /\ \A j \in 1..(read_offset'[p] - write_offset'[p]) :
                             buf'[p][write_offset'[p] + j] = Len(out'[p]) + j
                        /\ state'[p] = "Read" =>
                             write_offset'[p] = 0 /\ read_offset'[p] = 0
      BY DEF BufferHoldsNext
    <3>1. CASE p = cur
      <4>1. \A j \in 1..(d - n) :
              buf[cur][(write_offset[cur] + n) + j] = (L + n) + j
        <5> SUFFICES ASSUME NEW j \in 1..(d - n)
                     PROVE  buf[cur][(write_offset[cur] + n) + j] = (L + n) + j
          OBVIOUS
        <5>1. n + j \in 1..d
          BY <1>1
        <5>2. buf[cur][write_offset[cur] + (n + j)] = L + (n + j)
          BY <1>3, <5>1
        <5>3. j \in Int
          OBVIOUS
        <5>4. write_offset[cur] + (n + j) = (write_offset[cur] + n) + j
          BY <1>1, <5>3
        <5>5. L + (n + j) = (L + n) + j
          <6> HIDE DEF L
          <6> QED BY <1>1, <5>3
        <5> QED BY <5>2, <5>4, <5>5
      <4>2. read_offset'[cur] - write_offset'[cur] = d - n
        BY <1>1, <2>1
      <4> QED BY <1>2, <1>7, <2>1, <3>1, <4>1, <4>2
    <3>2. CASE p # cur
      <4>1. /\ \A j \in 1..(read_offset[p] - write_offset[p]) :
                 buf[p][write_offset[p] + j] = Len(out[p]) + j
            /\ state[p] = "Read" => write_offset[p] = 0 /\ read_offset[p] = 0
        BY <1>2, <3>2 DEF BytesInv, BufferHoldsNext
      <4> QED BY <1>2, <1>6, <1>11, <3>2, <4>1
    <3> QED BY <3>1, <3>2
  <2> QED BY <2>3, <2>4, <2>5, <1>4, <1>10 DEF BytesInv
<1> QED BY <1>12, <1>13

\* A step that touches neither buffers, counters nor sinks.
LEMMA QuietBytes ==
  ASSUME BytesInv, UNCHANGED <<pairVars, sinkVars>>,
         \A p \in Pairs : rd[p] <= made'[p],
         \A p \in Pairs :
           /\ state[p] = "Read"
           /\ pc' \in {"forward", "dup", "poll", "serve"} \/ (pc' = "write" /\ p # cur')
           => pc \in {"forward", "dup", "poll", "serve"} \/ (pc = "write" /\ p # cur)
  PROVE  BytesInv'
<1>1. UNCHANGED <<buf, read_offset, write_offset, state, rd, out>>
  BY DEF pairVars, sinkVars
<1>2. NoByteLost'
  BY <1>1 DEF BytesInv, NoByteLost
<1>3. InOrder'
  BY <1>1 DEF BytesInv, InOrder
<1>4. BufferHoldsNext'
  BY <1>1 DEF BytesInv, BufferHoldsNext
<1> QED BY <1>2, <1>3, <1>4 DEF BytesInv

\* Every step keeps the bytes in place and in order.
LEMMA BytesStep == TypeOK /\ BytesInv /\ Phases /\ [Next]_vars => BytesInv'
<1> SUFFICES ASSUME TypeOK, BytesInv, Phases, [Next]_vars PROVE BytesInv'
  OBVIOUS
<1>1. \A p \in Pairs : rd[p] <= made[p] /\ rd[p] \in Nat /\ made[p] \in Nat
  BY DEF BytesInv, NoByteLost, TypeOK
<1>2. CASE RawTtyNew
  <2>1. UNCHANGED <<pairVars, sinkVars>> /\ pc = "forward"
    BY <1>2 DEF RawTtyNew
  <2>2. \A p \in Pairs : rd[p] <= made'[p]
    BY <1>1, <1>2 DEF RawTtyNew, Phases, TypeOK
  <2> QED BY <2>1, <2>2, QuietBytes
<1>3. CASE RawTtyFails
  <2>1. UNCHANGED <<pairVars, sinkVars, made>>
    BY <1>3 DEF RawTtyFails, envVars
  <2>2. \A p \in Pairs :
          /\ state[p] = "Read"
          /\ pc' \in {"forward", "dup", "poll", "serve"} \/ (pc' = "write" /\ p # cur')
          => pc \in {"forward", "dup", "poll", "serve"} \/ (pc = "write" /\ p # cur)
    BY <1>3 DEF RawTtyFails, loopVars
  <2> QED BY <1>1, <2>1, <2>2, QuietBytes
<1>4. CASE Dup
  <2>1. UNCHANGED <<pairVars, sinkVars, made>>
    BY <1>4 DEF Dup, envVars
  <2>2. \A p \in Pairs :
          /\ state[p] = "Read"
          /\ pc' \in {"forward", "dup", "poll", "serve"} \/ (pc' = "write" /\ p # cur')
          => pc \in {"forward", "dup", "poll", "serve"} \/ (pc = "write" /\ p # cur)
    BY <1>4 DEF Dup, loopVars
  <2> QED BY <1>1, <2>1, <2>2, QuietBytes
<1>5. CASE DupFails
  <2>1. UNCHANGED <<pairVars, sinkVars, made>>
    BY <1>5 DEF DupFails, envVars
  <2>2. \A p \in Pairs :
          /\ state[p] = "Read"
          /\ pc' \in {"forward", "dup", "poll", "serve"} \/ (pc' = "write" /\ p # cur')
          => pc \in {"forward", "dup", "poll", "serve"} \/ (pc = "write" /\ p # cur)
    BY <1>5 DEF DupFails, Leave, loopVars
  <2> QED BY <1>1, <2>1, <2>2, QuietBytes
<1>6. CASE Restore \/ RestoreFails
  <2>1. UNCHANGED <<pairVars, sinkVars, made>>
    BY <1>6 DEF Restore, RestoreFails, envVars
  <2>2. \A p \in Pairs :
          /\ state[p] = "Read"
          /\ pc' \in {"forward", "dup", "poll", "serve"} \/ (pc' = "write" /\ p # cur')
          => pc \in {"forward", "dup", "poll", "serve"} \/ (pc = "write" /\ p # cur)
    BY <1>6 DEF Restore, RestoreFails, loopVars
  <2> QED BY <1>1, <2>1, <2>2, QuietBytes
<1>7. CASE Poll
  <2>1. UNCHANGED <<pairVars, sinkVars, made>>
    BY <1>7 DEF Poll, envVars
  <2>2. \A p \in Pairs :
          /\ state[p] = "Read"
          /\ pc' \in {"forward", "dup", "poll", "serve"} \/ (pc' = "write" /\ p # cur')
          => pc \in {"forward", "dup", "poll", "serve"} \/ (pc = "write" /\ p # cur)
    BY <1>7 DEF Poll, AfterPoll, loopVars
  <2> QED BY <1>1, <2>1, <2>2, QuietBytes
<1>8. CASE PollFails
  <2>1. UNCHANGED <<pairVars, sinkVars, made>>
    BY <1>8 DEF PollFails, envVars
  <2>2. \A p \in Pairs :
          /\ state[p] = "Read"
          /\ pc' \in {"forward", "dup", "poll", "serve"} \/ (pc' = "write" /\ p # cur')
          => pc \in {"forward", "dup", "poll", "serve"} \/ (pc = "write" /\ p # cur)
    BY <1>8 DEF PollFails, Leave, loopVars
  <2> QED BY <1>1, <2>1, <2>2, QuietBytes
<1>9. CASE Skip
  <2>1. UNCHANGED <<pairVars, sinkVars, made>>
    BY <1>9 DEF Skip, envVars
  <2>2. \A p \in Pairs :
          /\ state[p] = "Read"
          /\ pc' \in {"forward", "dup", "poll", "serve"} \/ (pc' = "write" /\ p # cur')
          => pc \in {"forward", "dup", "poll", "serve"} \/ (pc = "write" /\ p # cur)
    BY <1>9 DEF Skip, NextPair, loopVars
  <2> QED BY <1>1, <2>1, <2>2, QuietBytes
<1>10. CASE ServeWrite
  <2>1. UNCHANGED <<pairVars, sinkVars, made>>
    BY <1>10 DEF ServeWrite, envVars
  <2>2. \A p \in Pairs :
          /\ state[p] = "Read"
          /\ pc' \in {"forward", "dup", "poll", "serve"} \/ (pc' = "write" /\ p # cur')
          => pc \in {"forward", "dup", "poll", "serve"} \/ (pc = "write" /\ p # cur)
    BY <1>10 DEF ServeWrite, loopVars
  <2> QED BY <1>1, <2>1, <2>2, QuietBytes
<1>11. CASE ReadFails
  <2>1. UNCHANGED <<pairVars, sinkVars, made>>
    BY <1>11 DEF ReadFails, envVars
  <2>2. \A p \in Pairs :
          /\ state[p] = "Read"
          /\ pc' \in {"forward", "dup", "poll", "serve"} \/ (pc' = "write" /\ p # cur')
          => pc \in {"forward", "dup", "poll", "serve"} \/ (pc = "write" /\ p # cur)
    BY <1>11 DEF ReadFails, Leave, loopVars
  <2> QED BY <1>1, <2>1, <2>2, QuietBytes
<1>12. CASE WriteFails
  <2>1. UNCHANGED <<pairVars, sinkVars, made>>
    BY <1>12 DEF WriteFails, envVars
  <2>2. \A p \in Pairs :
          /\ state[p] = "Read"
          /\ pc' \in {"forward", "dup", "poll", "serve"} \/ (pc' = "write" /\ p # cur')
          => pc \in {"forward", "dup", "poll", "serve"} \/ (pc = "write" /\ p # cur)
    BY <1>12 DEF WriteFails, Leave, loopVars
  <2> QED BY <1>1, <2>1, <2>2, QuietBytes
<1>13. CASE Resize
  <2>1. UNCHANGED <<pairVars, sinkVars, made>>
    BY <1>13 DEF Resize, envVars
  <2>2. \A p \in Pairs :
          /\ state[p] = "Read"
          /\ pc' \in {"forward", "dup", "poll", "serve"} \/ (pc' = "write" /\ p # cur')
          => pc \in {"forward", "dup", "poll", "serve"} \/ (pc = "write" /\ p # cur)
    BY <1>13 DEF Resize, loopVars
  <2> QED BY <1>1, <2>1, <2>2, QuietBytes
<1>14. CASE Hangup
  <2>1. UNCHANGED <<pairVars, sinkVars, made>>
    BY <1>14 DEF Hangup, envVars
  <2>2. \A p \in Pairs :
          /\ state[p] = "Read"
          /\ pc' \in {"forward", "dup", "poll", "serve"} \/ (pc' = "write" /\ p # cur')
          => pc \in {"forward", "dup", "poll", "serve"} \/ (pc = "write" /\ p # cur)
    BY <1>14 DEF Hangup, loopVars
  <2> QED BY <1>1, <2>1, <2>2, QuietBytes
<1>15. CASE TermDrain
  <2>1. UNCHANGED <<pairVars, sinkVars, made>>
    BY <1>15 DEF TermDrain, envVars
  <2>2. \A p \in Pairs :
          /\ state[p] = "Read"
          /\ pc' \in {"forward", "dup", "poll", "serve"} \/ (pc' = "write" /\ p # cur')
          => pc \in {"forward", "dup", "poll", "serve"} \/ (pc = "write" /\ p # cur)
    BY <1>15 DEF TermDrain, loopVars
  <2> QED BY <1>1, <2>1, <2>2, QuietBytes
<1>16. CASE SlaveOpen
  <2>1. UNCHANGED <<pairVars, sinkVars, made>>
    BY <1>16 DEF SlaveOpen, envVars
  <2>2. \A p \in Pairs :
          /\ state[p] = "Read"
          /\ pc' \in {"forward", "dup", "poll", "serve"} \/ (pc' = "write" /\ p # cur')
          => pc \in {"forward", "dup", "poll", "serve"} \/ (pc = "write" /\ p # cur)
    BY <1>16 DEF SlaveOpen, loopVars
  <2> QED BY <1>1, <2>1, <2>2, QuietBytes
<1>17. CASE ProgRead
  <2>1. UNCHANGED <<pairVars, sinkVars, made>>
    BY <1>17 DEF ProgRead, envVars
  <2>2. \A p \in Pairs :
          /\ state[p] = "Read"
          /\ pc' \in {"forward", "dup", "poll", "serve"} \/ (pc' = "write" /\ p # cur')
          => pc \in {"forward", "dup", "poll", "serve"} \/ (pc = "write" /\ p # cur)
    BY <1>17 DEF ProgRead, loopVars
  <2> QED BY <1>1, <2>1, <2>2, QuietBytes
<1>18. CASE ProgCallWrite
  <2>1. UNCHANGED <<pairVars, sinkVars, made>>
    BY <1>18 DEF ProgCallWrite, envVars
  <2>2. \A p \in Pairs :
          /\ state[p] = "Read"
          /\ pc' \in {"forward", "dup", "poll", "serve"} \/ (pc' = "write" /\ p # cur')
          => pc \in {"forward", "dup", "poll", "serve"} \/ (pc = "write" /\ p # cur)
    BY <1>18 DEF ProgCallWrite, loopVars
  <2> QED BY <1>1, <2>1, <2>2, QuietBytes
<1>19. CASE ProgExit
  <2>1. UNCHANGED <<pairVars, sinkVars, made>>
    BY <1>19 DEF ProgExit, envVars
  <2>2. \A p \in Pairs :
          /\ state[p] = "Read"
          /\ pc' \in {"forward", "dup", "poll", "serve"} \/ (pc' = "write" /\ p # cur')
          => pc \in {"forward", "dup", "poll", "serve"} \/ (pc = "write" /\ p # cur)
    BY <1>19 DEF ProgExit, loopVars
  <2> QED BY <1>1, <2>1, <2>2, QuietBytes
<1>20. CASE Type
  <2>1. UNCHANGED <<pairVars, sinkVars, pc, cur>>
    BY <1>20 DEF Type, loopVars
  <2>2. \A p \in Pairs : rd[p] <= made'[p]
    BY <1>1, <1>20 DEF Type, TypeOK
  <2> QED BY <2>1, <2>2, QuietBytes
<1>21. CASE ProgWrite
  <2>1. UNCHANGED <<pairVars, sinkVars, pc, cur>>
    BY <1>21 DEF ProgWrite, loopVars
  <2>2. \A p \in Pairs : rd[p] <= made'[p]
    BY <1>1, <1>21 DEF ProgWrite, TypeOK
  <2> QED BY <2>1, <2>2, QuietBytes
<1>22. ASSUME NEW k \in 0..BUF_SIZE, Read(k) PROVE BytesInv'
  BY <1>22, ReadBytes
<1>23. ASSUME NEW n \in 0..BUF_SIZE, Write(n) PROVE BytesInv'
  BY <1>23, WriteBytes
<1>24. CASE UNCHANGED vars
  <2>1. UNCHANGED <<pairVars, sinkVars, made, pc, cur>>
    BY <1>24 DEF vars, loopVars, envVars
  <2> QED BY <1>1, <2>1, QuietBytes
<1> QED
  BY <1>2, <1>3, <1>4, <1>5, <1>6, <1>7, <1>8, <1>9, <1>10, <1>11, <1>12,
     <1>13, <1>14, <1>15, <1>16, <1>17, <1>18, <1>19, <1>20, <1>21, <1>22,
     <1>23, <1>24
     DEF Next, Forward, User, Program, Terminating

-----------------------------------------------------------------------------
(***************************************************************************)
(* The inductive invariant.                                                *)
(***************************************************************************)
\* The ends of the loop, the mode of the terminal and the slave.
LEMMA PhasesStep == TypeOK /\ BytesInv /\ Phases /\ [Next]_vars => Phases'
<1> SUFFICES ASSUME TypeOK, BytesInv, Phases, [Next]_vars PROVE Phases'
  OBVIOUS
<1> USE DEF TypeOK, Phases, SlaveGone, TtyRefuses
<1>1. CASE RawTtyNew
  BY <1>1 DEF RawTtyNew, pairVars, loopVars, sinkVars, envVars
<1>2. CASE RawTtyFails
  BY <1>2 DEF RawTtyFails, pairVars, loopVars, sinkVars, envVars
<1>3. CASE Dup
  BY <1>3 DEF Dup, pairVars, loopVars, sinkVars, envVars
<1>4. CASE DupFails
  BY <1>4 DEF DupFails, Leave, pairVars, loopVars, sinkVars, envVars
<1>5. CASE Restore \/ RestoreFails
  BY <1>5 DEF Restore, RestoreFails, pairVars, loopVars, sinkVars, envVars
<1>6. CASE Poll
  BY <1>6 DEF Poll, AfterPoll, pairVars, loopVars, sinkVars, envVars
<1>7. CASE PollFails
  BY <1>7 DEF PollFails, Leave, pairVars, loopVars, sinkVars, envVars
<1>8. CASE Skip
  BY <1>8 DEF Skip, NextPair, pairVars, loopVars, sinkVars, envVars
<1>9. CASE ServeWrite
  BY <1>9 DEF ServeWrite, pairVars, loopVars, sinkVars, envVars
<1>10. CASE ReadFails
  BY <1>10 DEF ReadFails, Leave, Pending, Queued, BytesInv, BufferHoldsNext, pairVars, loopVars, sinkVars, envVars
<1>11. CASE WriteFails
  BY <1>11 DEF WriteFails, Leave, pairVars, loopVars, sinkVars, envVars
<1>12. CASE Type
  BY <1>12 DEF Type, pairVars, loopVars, sinkVars, envVars
<1>13. CASE Resize
  BY <1>13 DEF Resize, pairVars, loopVars, sinkVars, envVars
<1>14. CASE Hangup
  BY <1>14 DEF Hangup, pairVars, loopVars, sinkVars, envVars
<1>15. CASE TermDrain
  BY <1>15 DEF TermDrain, pairVars, loopVars, sinkVars, envVars
<1>16. CASE SlaveOpen
  BY <1>16 DEF SlaveOpen, pairVars, loopVars, sinkVars, envVars
<1>17. CASE ProgRead
  BY <1>17 DEF ProgRead, pairVars, loopVars, sinkVars, envVars
<1>18. CASE ProgCallWrite
  BY <1>18 DEF ProgCallWrite, pairVars, loopVars, sinkVars, envVars
<1>19. CASE ProgWrite
  BY <1>19 DEF ProgWrite, pairVars, loopVars, sinkVars, envVars
<1>20. CASE ProgExit
  BY <1>20 DEF ProgExit, pairVars, loopVars, sinkVars, envVars
<1>21. ASSUME NEW k \in 0..BUF_SIZE, Read(k) PROVE Phases'
  BY <1>21 DEF Read, envVars
<1>22. ASSUME NEW n \in 0..BUF_SIZE, Write(n) PROVE Phases'
  BY <1>22 DEF Write, NextPair, envVars
<1>23. CASE UNCHANGED vars
  BY <1>23 DEF vars, pairVars, loopVars, sinkVars, envVars
<1> QED
  BY <1>1, <1>2, <1>3, <1>4, <1>5, <1>6, <1>7, <1>8, <1>9, <1>10, <1>11,
     <1>12, <1>13, <1>14, <1>15, <1>16, <1>17, <1>18, <1>19, <1>20, <1>21,
     <1>22, <1>23
     DEF Next, Forward, User, Program, Terminating

\* The initial states satisfy the invariant.
LEMMA InitInv == Init => IInv
<1> SUFFICES ASSUME Init PROVE IInv
  OBVIOUS
<1>1. TypeOK
  <2>1. slave \in {"unopened", "open", "closed", "never"} /\ prog \in {"none", "run", "write", "gone"}
    BY StartsAssumption DEF Init
  <2> QED BY <2>1, BufAssumption DEF Init, FilePairNew, TypeOK
<1>2. NoByteLost /\ InOrder
  BY DEF Init, FilePairNew, NoByteLost, InOrder
<1>3. BufferHoldsNext
  BY DEF Init, FilePairNew, BufferHoldsNext
<1>4. Phases
  <2>1. slave \notin {"closed", "never"}
    BY StartsAssumption DEF Init
  <2> QED BY <2>1 DEF Init, Phases, SlaveGone
<1> QED BY <1>1, <1>2, <1>3, <1>4 DEF IInv

\* IInv is an invariant of every instance.
THEOREM Invariance == Spec => []IInv
<1>1. IInv /\ [Next]_vars => IInv'
  BY TypeStep, BytesStep, PhasesStep DEF IInv, BytesInv
<1> QED BY InitInv, <1>1, PTL DEF Spec

\* The offsets of a FilePair never leave its buffer, and all variables keep
\* their types.
THEOREM TypeCorrect == Spec => []TypeOK
<1>1. IInv => TypeOK
  BY DEF IInv
<1> QED BY Invariance, <1>1, PTL

\* No byte that was read is lost, whatever the sizes of buffers and queues.
THEOREM NothingLost == Spec => []NoByteLost
<1>1. IInv => NoByteLost
  BY DEF IInv
<1> QED BY Invariance, <1>1, PTL

\* Each sink gets the bytes of its source once each, in order.
THEOREM Ordered == Spec => []InOrder
<1>1. IInv => InOrder
  BY DEF IInv
<1> QED BY Invariance, <1>1, PTL

\* When the PTY's closing ends the loop, its output is complete.
THEOREM Complete == Spec => []OutputComplete
<1>1. IInv => OutputComplete
  <2> SUFFICES ASSUME IInv, why = "closed"
               PROVE  Len(out["out"]) = made["out"]
    BY DEF OutputComplete
  <2>1. /\ rd["out"] = made["out"]
        /\ read_offset["out"] = write_offset["out"]
    BY DEF IInv, Phases
  <2>2. rd["out"] = Len(out["out"]) + (read_offset["out"] - write_offset["out"])
    BY DEF IInv, NoByteLost
  <2>3. Len(out["out"]) \in Nat /\ read_offset["out"] \in Nat
    BY PairTypes, BufAssumption DEF IInv
  <2> QED BY <2>1, <2>2, <2>3
<1> QED BY Invariance, <1>1, PTL

\* When `forward` has returned, the user's terminal is in its own mode again,
\* or the kernel refused to take it out of raw mode.
THEOREM Restored == Spec => []RawOnlyWhileForwarding
<1>1. IInv => RawOnlyWhileForwarding
  BY DEF IInv, TypeOK, Phases, RawOnlyWhileForwarding, Ended
<1> QED BY Invariance, <1>1, PTL

-----------------------------------------------------------------------------
(***************************************************************************)
(* The loop implements the two relays of module Relay.                     *)
(***************************************************************************)
\* A write hands over the next bytes of its source.
LEMMA WriteDelivers ==
  ASSUME IInv, NEW n \in 0..BUF_SIZE, Write(n)
  PROVE  R!Next \/ UNCHANGED R!vars
<1>1. TypeOK /\ BytesInv
  BY DEF IInv, BytesInv
<1>2. n \in Nat /\ cur \in Pairs
  BY <1>1, WriteBounds
<1>3. /\ Chunk(cur, n) = [i \in 1..n |-> Len(out[cur]) + i]
      /\ Len(out[cur]) + n <= made[cur]
  BY <1>1, WriteBytes
<1>4. /\ pc = "write" /\ pc' \in {"poll", "serve"}
      /\ out' = [out EXCEPT ![cur] = out[cur] \o Chunk(cur, n)]
      /\ made' = made
  BY DEF Write, NextPair, envVars
<1>5. ~Ended /\ Ended' = Ended
  BY <1>4 DEF Ended
<1>6. R!Deliver(cur, n)
  BY <1>3, <1>4, <1>5 DEF R!Deliver
<1>7. CASE n = 0
  <2>1. Chunk(cur, n) = << >>
    BY <1>7 DEF Chunk
  <2>2. out[cur] \in Seq(Nat) /\ out \in [Pairs -> Seq(Nat)]
    BY <1>1, <1>2 DEF TypeOK
  <2>3. out[cur] \o << >> = out[cur]
    BY <2>2, ConcatEmptySeq
  <2>4. out' = out
    BY <1>4, <2>1, <2>2, <2>3
  <2> QED BY <1>4, <1>5, <2>4 DEF R!vars
<1>8. CASE n # 0
  <2>1. made[cur] \in Nat /\ Len(out[cur]) \in Nat
    BY <1>1, <1>2, PairTypes
  <2>2. n \in 1..made[cur]
    BY <1>2, <1>3, <1>8, <2>1
  <2> QED BY <1>2, <1>6, <2>2 DEF R!Next
<1> QED BY <1>7, <1>8

\* Every step of the loop is a step of the relays or leaves them alone.
LEMMA StepRefines == IInv /\ [Next]_vars => [R!Next]_(R!vars)
<1> SUFFICES ASSUME IInv, [Next]_vars PROVE R!Next \/ UNCHANGED R!vars
  OBVIOUS
<1>1. CASE RawTtyNew
  <2>1. /\ made' = [made EXCEPT !["in"] = 0] /\ out' = out
        /\ pc = "forward" /\ pc' = "dup"
    BY <1>1 DEF RawTtyNew, sinkVars
  <2>2. rd["in"] = 0 /\ rd["in"] = Len(out["in"]) + (read_offset["in"] - write_offset["in"])
    BY <2>1 DEF IInv, Phases, NoByteLost
  <2>3. /\ read_offset["in"] \in Nat /\ write_offset["in"] \in Nat
        /\ write_offset["in"] <= read_offset["in"]
        /\ Len(out["in"]) \in Nat /\ out["in"] \in Seq(Nat)
    BY PairTypes, BufAssumption DEF IInv
  <2>4. Len(out["in"]) = 0
    BY <2>2, <2>3
  <2>5. out["in"] = << >>
    BY <2>3, <2>4, EmptySeq
  <2>6. R!Discard("in")
    BY <2>1, <2>5 DEF R!Discard, Ended
  <2> QED BY <2>6 DEF R!Next
<1>2. CASE RawTtyFails
  BY <1>2 DEF RawTtyFails, R!Next, R!Finish, Ended, loopVars, sinkVars, envVars
<1>3. CASE Dup
  BY <1>3 DEF Dup, R!vars, Ended, loopVars, sinkVars, envVars
<1>4. CASE DupFails
  BY <1>4 DEF DupFails, Leave, R!vars, Ended, loopVars, sinkVars, envVars
<1>5. CASE Restore \/ RestoreFails
  BY <1>5 DEF Restore, RestoreFails, R!Next, R!Finish, Ended, loopVars, sinkVars, envVars
<1>6. CASE Poll
  BY <1>6 DEF Poll, AfterPoll, R!vars, Ended, loopVars, sinkVars, envVars
<1>7. CASE PollFails
  BY <1>7 DEF PollFails, Leave, R!vars, Ended, loopVars, sinkVars, envVars
<1>8. CASE Skip
  BY <1>8 DEF Skip, NextPair, R!vars, Ended, loopVars, sinkVars, envVars
<1>9. CASE ServeWrite
  BY <1>9 DEF ServeWrite, R!vars, Ended, loopVars, sinkVars, envVars
<1>10. CASE ReadFails
  BY <1>10 DEF ReadFails, Leave, R!vars, Ended, loopVars, sinkVars, envVars
<1>11. CASE WriteFails
  BY <1>11 DEF WriteFails, Leave, R!vars, Ended, loopVars, sinkVars, envVars
<1>12. CASE Resize
  BY <1>12 DEF Resize, R!vars, Ended, loopVars, sinkVars, envVars
<1>13. CASE Hangup
  BY <1>13 DEF Hangup, R!vars, Ended, loopVars, sinkVars, envVars
<1>14. CASE TermDrain
  BY <1>14 DEF TermDrain, R!vars, Ended, loopVars, sinkVars, envVars
<1>15. CASE SlaveOpen
  BY <1>15 DEF SlaveOpen, R!vars, Ended, loopVars, sinkVars, envVars
<1>16. CASE ProgRead
  BY <1>16 DEF ProgRead, R!vars, Ended, loopVars, sinkVars, envVars
<1>17. CASE ProgCallWrite
  BY <1>17 DEF ProgCallWrite, R!vars, Ended, loopVars, sinkVars, envVars
<1>18. CASE ProgExit
  BY <1>18 DEF ProgExit, R!vars, Ended, loopVars, sinkVars, envVars
<1>19. CASE Type
  <2>1. R!Produce("in")
    BY <1>19 DEF Type, R!Produce, Ended, loopVars, sinkVars
  <2> QED BY <2>1 DEF R!Next
<1>20. CASE ProgWrite
  <2>1. R!Produce("out")
    BY <1>20 DEF ProgWrite, R!Produce, Ended, loopVars, sinkVars
  <2> QED BY <2>1 DEF R!Next
<1>21. ASSUME NEW k \in 0..BUF_SIZE, Read(k) PROVE UNCHANGED R!vars
  BY <1>21 DEF Read, R!vars, Ended, envVars
<1>22. ASSUME NEW n \in 0..BUF_SIZE, Write(n) PROVE R!Next \/ UNCHANGED R!vars
  BY <1>22, WriteDelivers
<1>23. CASE UNCHANGED vars
  BY <1>23 DEF vars, R!vars, Ended, loopVars, sinkVars, envVars
<1> QED
  BY <1>1, <1>2, <1>3, <1>4, <1>5, <1>6, <1>7, <1>8, <1>9, <1>10, <1>11,
     <1>12, <1>13, <1>14, <1>15, <1>16, <1>17, <1>18, <1>19, <1>20, <1>21,
     <1>22, <1>23
     DEF Next, Forward, User, Program, Terminating

\* `forward` implements a pair of reliable relays that may end at any time.
THEOREM Refinement == Spec => ImplementsRelay
<1>1. Init => R!Init
  BY DEF Init, FilePairNew, R!Init, Ended
<1> QED BY <1>1, Invariance, StepRefines, PTL DEF Spec, ImplementsRelay, R!Spec
-----------------------------------------------------------------------------
\* What keeps the loop running without a fault: the terminal is there, and the
\* way out begins only when the slave is gone.
Waiting == /\ term = "open"
           /\ pc \in {"restore", "done"} => SlaveGone

LEMMA WaitingStep ==
  ASSUME ~MayFail, ~MayHangup, Waiting, [Next]_vars
  PROVE  Waiting'
<1> USE DEF Waiting, SlaveGone, pairVars, loopVars, sinkVars, envVars, sizeVars
<1>1. CASE RawTtyNew \/ RawTtyFails \/ Dup \/ DupFails
  BY <1>1 DEF RawTtyNew, RawTtyFails, TtyRefuses, Dup, DupFails, Leave
<1>2. CASE Restore \/ RestoreFails \/ PollFails \/ Skip \/ ServeWrite
  BY <1>2 DEF Restore, RestoreFails, PollFails, Leave, Skip, ServeWrite, NextPair
<1>3. CASE Poll
  BY <1>3 DEF Poll, AfterPoll
<1>4. CASE \E k \in 0..BUF_SIZE : Read(k)
  BY <1>4 DEF Read
<1>5. CASE \E n \in 0..BUF_SIZE : Write(n)
  BY <1>5 DEF Write, NextPair
<1>6. CASE ReadFails \/ WriteFails
  BY <1>6 DEF ReadFails, WriteFails, Leave, SinkBroken
<1>7. CASE User
  BY <1>7 DEF User, Type, Resize, Hangup
<1>8. CASE TermDrain
  BY <1>8 DEF TermDrain
<1>9. CASE Program
  BY <1>9 DEF Program, SlaveOpen, ProgRead, ProgCallWrite, ProgWrite, ProgExit
<1>10. CASE UNCHANGED vars
  BY <1>10 DEF vars
<1> QED BY <1>1, <1>2, <1>3, <1>4, <1>5, <1>6, <1>7, <1>8, <1>9, <1>10
        DEF Next, Forward, Terminating

\* Where no call fails and the terminal stays, `forward` returns only when
\* nobody has the slave open any more or ever will.
THEOREM Blocks == ~MayFail /\ ~MayHangup => (Spec => []BlocksUntilChildExits)
<1> SUFFICES ASSUME ~MayFail, ~MayHangup PROVE Spec => []BlocksUntilChildExits
  OBVIOUS
<1>1. Init => Waiting
  BY DEF Init, Waiting
<1>2. Waiting /\ [Next]_vars => Waiting'
  BY WaitingStep
<1>3. Waiting => BlocksUntilChildExits
  BY DEF Waiting, BlocksUntilChildExits, Ended
<1> QED BY <1>1, <1>2, <1>3, PTL DEF Spec

\* And then the terminal is in its own mode again: nothing refuses the call.
THEOREM RestoredWithoutFault ==
  ~MayFail /\ ~MayHangup => (Spec => [](Ended => tty = "orig"))
<1> SUFFICES ASSUME ~MayFail, ~MayHangup PROVE Spec => [](Ended => tty = "orig")
  OBVIOUS
<1>1. Init => Waiting
  BY DEF Init, Waiting
<1>2. Waiting /\ [Next]_vars => Waiting'
  BY WaitingStep
<1>3. Waiting /\ RawOnlyWhileForwarding => (Ended => tty = "orig")
  BY DEF Waiting, RawOnlyWhileForwarding, TtyRefuses
<1> QED BY <1>1, <1>2, <1>3, Restored, PTL DEF Spec
==============================================================================
