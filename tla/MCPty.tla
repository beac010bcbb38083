-------------------------------- MODULE MCPty --------------------------------
(***************************************************************************)
(* Small instances of Pty.  Buffers and queues of one or two bytes make    *)
(* partial reads, partial writes, full queues and reuse of the buffer all  *)
(* happen within three bytes per direction.                                *)
(***************************************************************************)
EXTENDS Pty

RoomOne == [p \in Pairs |-> 1]
RoomTwo == [p \in Pairs |-> IF p = "in" THEN 1 ELSE 2]
==============================================================================
