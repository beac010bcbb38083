-------------------------------- MODULE Identity --------------------------------
(***************************************************************************)
(* Who the command runs as: what cntr works out from the numbers it reads  *)
(* in /proc.  `translate_id` of src/procfs/mod.rs, the set of capabilities *)
(* that `drop` of src/capabilities.rs leaves, and the choice of a profile  *)
(* in `read_profile` of src/lsm.rs.                                        *)
(***************************************************************************)
EXTENDS Integers, FiniteSetsExt

CONSTANTS
  MaxId,           \* the largest id, u32::MAX in the code
  CAP_SYS_CHROOT, CAP_SYS_PTRACE

ASSUME IdentityAssumption ==
  MaxId \in Nat /\ CAP_SYS_CHROOT \in Nat /\ CAP_SYS_PTRACE \in Nat

Ids == 0..MaxId

\* What checked_add makes of a sum that has no u32.
Overflow == MaxId + 1

\* A line "inner outer length" of uid_map holds the outer id: checked_sub has a
\* result and the offset is in the range.
HoldsEnd(x, id) == x.outer <= id /\ id - x.outer <= x.length        \* mutant
Holds(x, id) == x.outer <= id /\ id - x.outer < x.length

\* The first line that holds the id; without one the id as it is.
translate_id(map, id) ==
  LET lines == {i \in DOMAIN map : Holds(map[i], id)}
      x == map[Min(lines)]
      inner == x.inner + (id - x.outer)
  IN IF lines = {} THEN id ELSE IF inner <= MaxId THEN inner ELSE Overflow

\* The kernel's own direction: the id of the host behind one of the namespace,
\* in a set that is empty when there is none.
make_kuid(map, id) ==
  {x.outer + (id - x.inner) :
     x \in {map[i] : i \in {j \in DOMAIN map : map[j].inner <= id
                                               /\ id < map[j].inner + map[j].length}}}
Mapped(map, kuid) == \E i \in DOMAIN map : Holds(map[i], kuid)

\* The loop over 0..=last_cap; a capability that prctl does not let go stays.
DropsBelow(bounding, inheritable, last_cap) ==                      \* mutant
  bounding \ {c \in 0..(last_cap - 1) : c \notin inheritable}
Drops(bounding, inheritable, last_cap) ==
  bounding \ {c \in 0..last_cap : c \notin inheritable}
drop(bounding, effective, last_cap) ==
  Drops(bounding, effective \cup {CAP_SYS_CHROOT, CAP_SYS_PTRACE}, last_cap)

\* The label to change to, or "none".
IgnoresMode(apparmor_mode, enabled, target, own) ==                 \* mutant
  IF enabled /\ target # own THEN target ELSE "none"
read_profile(apparmor_mode, enabled, target, own) ==
  IF apparmor_mode # "off" /\ enabled /\ target # own THEN target ELSE "none"
==============================================================================
