---------------------------- MODULE CgroupProofs -----------------------------
(***************************************************************************)
(* The move into the container's cgroups on any set of mounted hierarchies,*)
(* with mountinfo lines of any shape and any number of cgroups, while the  *)
(* container moves and ends.                                               *)
(***************************************************************************)
EXTENDS Cgroup, TLAPS

-----------------------------------------------------------------------------
(***************************************************************************)
(* The inductive invariant.                                                *)
(***************************************************************************)
\* The path the v2 manager writes to is one the container has been in; where
\* the container is now counts as one.
PathOnce ==
  /\ \A h \in Hier : target[h] \in been[h]
  /\ pc = "v2_write" => cgroup_path \in been[Unified]

\* A manager with a v2 part has a v2 mount and writes to it; only the end of
\* the container makes the hybrid one go on with v1.
ManagerKnown ==
  /\ manager \in {"none", "v1", "null"} => v2_mount = "none"
  /\ pc = "create" <=> manager = "none"
  /\ pc \in {"v2_read", "v2_write"} => manager \in {"hybrid", "v2"}
  /\ pc \in {"v1_read", "v1_loop"} => manager \in {"hybrid", "v1"}
  /\ pc \in {"v1_read", "v1_loop"} /\ manager = "hybrid" => gone

IInv == TypeOK /\ PathOnce /\ ManagerKnown /\ UnifiedJoined /\ UnprivilegedContinues

-----------------------------------------------------------------------------
(***************************************************************************)
(* The steps.                                                              *)
(***************************************************************************)
LEMMA UnifiedIsHierarchy == Unified \in Hier /\ Unified # "none" /\ Unified = "unified"
BY DEF Hier, Unified

\* The choice of the manager.
LEMMA CreateManagerCases ==
  ASSUME CreateManager
  PROVE  /\ pc = "create" /\ UNCHANGED <<hostVars, contVars, own, cgroup_path, cgroups>>
         /\ \/ /\ manager' \in {"hybrid", "v2"} /\ pc' = "v2_read"
               /\ v2_mount' \in v2_mounts /\ result' = "none"
            \/ /\ manager' = "v1" /\ pc' = "v1_read"
               /\ v2_mount' = "none" /\ result' = "none"
            \/ /\ manager' = "null" /\ pc' = "done"
               /\ v2_mount' = "none" /\ result' = "ok"
<1>1. CASE has_v1 /\ v2_mounts # {}
  <2>1. manager' = "hybrid" /\ v2_mount' \in v2_mounts
    BY <1>1 DEF CreateManager
  <2> QED BY <2>1 DEF CreateManager
<1>2. CASE has_v1 /\ v2_mounts = {}
  <2>1. manager' = "v1" /\ v2_mount' = "none"
    BY <1>2 DEF CreateManager
  <2> QED BY <2>1 DEF CreateManager
<1>3. CASE ~has_v1 /\ v2_mounts # {}
  <2>1. manager' = "v2" /\ v2_mount' \in v2_mounts
    BY <1>3 DEF CreateManager
  <2> QED BY <2>1 DEF CreateManager
<1>4. CASE ~has_v1 /\ v2_mounts = {}
  <2>1. manager' = "null" /\ v2_mount' = "none"
    BY <1>4 DEF CreateManager
  <2> QED BY <2>1 DEF CreateManager
<1> QED BY <1>1, <1>2, <1>3, <1>4

\* Every step keeps the types.
LEMMA TypeStep == TypeOK /\ PathOnce /\ ManagerKnown /\ [Next]_vars => TypeOK'
<1> SUFFICES ASSUME TypeOK, PathOnce, ManagerKnown, [Next]_vars PROVE TypeOK'
  OBVIOUS
<1> USE UnifiedIsHierarchy DEF TypeOK, hostVars, contVars, locals
<1>1. CASE CreateManager
  <2>1. v2_mounts \subseteq mounted
    BY DEF v2_mounts
  <2> QED BY <1>1, <2>1, CreateManagerCases
<1>2. CASE V2Read
  BY <1>2 DEF V2Read, Return
<1>3. CASE V2Write
  <2>1. cgroup_path \in Paths
    BY <1>3 DEF V2Write, PathOnce
  <2>2. own' \in [Hier -> Paths \cup {Root}]
    BY <1>3, <2>1 DEF V2Write, Trimmed
  <2>3. pc' = "done" /\ result' = "ok"
    BY <1>3 DEF V2Write, Return, WriteWarn
  <2> QED BY <1>3, <2>2, <2>3 DEF V2Write
<1>4. CASE V1Read
  <2>1. {target[h] : h \in mounted} \subseteq Paths
    OBVIOUS
  <2> QED BY <1>4, <2>1 DEF V1Read, Return
<1>5. ASSUME NEW cgroup \in Paths, V1Move(cgroup) PROVE TypeOK'
  <2>1. own' \in [Hier -> Paths \cup {Root}]
    BY <1>5 DEF V1Move
  <2> QED BY <1>5, <2>1 DEF V1Move
<1>6. ASSUME NEW cgroup \in Paths, V1WriteFails(cgroup) PROVE TypeOK'
  BY <1>6 DEF V1WriteFails, Return
<1>7. CASE V1Done
  BY <1>7 DEF V1Done, Return
<1>8. CASE TargetMoves
  <2>1. target' \in [Hier -> Paths]
    BY <1>8 DEF TargetMoves
  <2>2. been' \in [Hier -> SUBSET Paths]
    BY <1>8, <2>1 DEF TargetMoves
  <2> QED BY <1>8, <2>1, <2>2 DEF TargetMoves
<1>9. CASE ContainerEnds
  <2>1. gone' \in BOOLEAN
    BY <1>9 DEF ContainerEnds
  <2> QED BY <1>9, <2>1 DEF ContainerEnds
<1>10. CASE NotInV2
  BY <1>10 DEF NotInV2, Return
<1>11. CASE UNCHANGED vars
  BY <1>11 DEF vars
<1> QED
  BY <1>1, <1>2, <1>3, <1>4, <1>5, <1>6, <1>7, <1>8, <1>9, <1>10, <1>11 DEF Next, Terminating

\* The path and the manager.
LEMMA ManagerStep ==
  TypeOK /\ PathOnce /\ ManagerKnown /\ [Next]_vars => (PathOnce /\ ManagerKnown)'
<1> SUFFICES ASSUME TypeOK, PathOnce, ManagerKnown, [Next]_vars
             PROVE  (PathOnce /\ ManagerKnown)'
  OBVIOUS
<1> USE UnifiedIsHierarchy DEF TypeOK, PathOnce, ManagerKnown, hostVars, contVars, locals
<1>1. CASE CreateManager
  BY <1>1, CreateManagerCases
<1>2. CASE V2Read
  BY <1>2 DEF V2Read, Return
<1>3. CASE V2Write
  BY <1>3 DEF V2Write, Return
<1>4. CASE V1Read
  BY <1>4 DEF V1Read, Return
<1>5. ASSUME NEW cgroup \in Paths, V1Move(cgroup) PROVE (PathOnce /\ ManagerKnown)'
  BY <1>5 DEF V1Move
<1>6. ASSUME NEW cgroup \in Paths, V1WriteFails(cgroup)
      PROVE  (PathOnce /\ ManagerKnown)'
  BY <1>6 DEF V1WriteFails, Return
<1>7. CASE V1Done
  BY <1>7 DEF V1Done, Return
<1>8. CASE TargetMoves
  <2>1. \A h \in Hier : been'[h] = been[h] \cup {target'[h]}
    BY <1>8 DEF TargetMoves
  <2> QED BY <1>8, <2>1 DEF TargetMoves
<1>9. CASE ContainerEnds
  BY <1>9 DEF ContainerEnds
<1>10. CASE NotInV2
  BY <1>10 DEF NotInV2, Return
<1>11. CASE UNCHANGED vars
  BY <1>11 DEF vars
<1> QED
  BY <1>1, <1>2, <1>3, <1>4, <1>5, <1>6, <1>7, <1>8, <1>9, <1>10, <1>11 DEF Next, Terminating

\* The unified cgroup: what the v2 manager writes is the container's cgroup, and
\* what comes after it is not undone.
LEMMA JoinedStep == IInv /\ [Next]_vars => UnifiedJoined'
<1> SUFFICES ASSUME IInv, [Next]_vars,
                    pc' = "done", v2_mount' = Unified, writable', ~gone',
                    been'[Unified] = {target'[Unified]}
             PROVE  own'[Unified] = target'[Unified]
  BY DEF UnifiedJoined
<1> USE UnifiedIsHierarchy DEF IInv, TypeOK, PathOnce, ManagerKnown, hostVars, contVars, locals
<1>1. CASE CreateManager
  BY <1>1, CreateManagerCases
<1>2. CASE V2Read
  BY <1>2 DEF V2Read, Return
<1>3. CASE V2Write
  <2>1. /\ v2_mount = Unified /\ writable /\ ~gone
        /\ been[Unified] = {target[Unified]} /\ target' = target
    BY <1>3 DEF V2Write
  <2>2. cgroup_path = target[Unified]
    BY <1>3, <2>1 DEF V2Write
  <2>3. DirExists(v2_mount, Trimmed(cgroup_path))
    BY <2>1, <2>2 DEF DirExists, Trimmed
  <2>4. own' = [own EXCEPT ![v2_mount] = Trimmed(cgroup_path)]
    BY <1>3, <2>1, <2>3 DEF V2Write
  <2>5. own'[Unified] = Trimmed(cgroup_path)
    BY <2>1, <2>4
  <2> QED BY <2>1, <2>2, <2>5 DEF Trimmed
<1>4. CASE V1Read
  BY <1>4 DEF V1Read, Return
<1>5. ASSUME NEW cgroup \in Paths, V1Move(cgroup)
      PROVE  own'[Unified] = target'[Unified]
  BY <1>5 DEF V1Move
<1>6. ASSUME NEW cgroup \in Paths, V1WriteFails(cgroup)
      PROVE  own'[Unified] = target'[Unified]
  BY <1>6 DEF V1WriteFails, Return
<1>7. CASE V1Done
  BY <1>7 DEF V1Done, Return
<1>8. CASE TargetMoves
  <2>1. been'[Unified] = been[Unified] \cup {target'[Unified]}
    BY <1>8 DEF TargetMoves
  <2>2. target[Unified] \in been[Unified]
    OBVIOUS
  <2>3. target[Unified] = target'[Unified] /\ been[Unified] = {target[Unified]}
    BY <2>1, <2>2
  <2>4. pc = "done" /\ v2_mount = Unified /\ writable /\ ~gone /\ own' = own
    BY <1>8 DEF TargetMoves
  <2> QED BY <2>3, <2>4 DEF UnifiedJoined
<1>9. CASE ContainerEnds
  BY <1>9 DEF ContainerEnds
<1>10. CASE NotInV2
  BY <1>10 DEF NotInV2, Return
<1>11. CASE UNCHANGED vars
  BY <1>11 DEF vars, UnifiedJoined
<1> QED
  BY <1>1, <1>2, <1>3, <1>4, <1>5, <1>6, <1>7, <1>8, <1>9, <1>10, <1>11 DEF Next, Terminating

\* Errors: of the v2 manager only when the container's process is gone.
LEMMA ErrorStep == IInv /\ [Next]_vars => UnprivilegedContinues'
<1> SUFFICES ASSUME IInv, [Next]_vars, result' = "err", manager' = "v2" PROVE gone'
  BY DEF UnprivilegedContinues
<1> USE DEF IInv, TypeOK, ManagerKnown, UnprivilegedContinues, hostVars, contVars, locals
<1>1. CASE CreateManager
  BY <1>1, CreateManagerCases
<1>2. CASE V2Read
  BY <1>2 DEF V2Read, Return
<1>3. CASE V2Write
  BY <1>3 DEF V2Write, Return, WriteWarn
<1>4. CASE V1Read
  BY <1>4 DEF V1Read, Return
<1>5. ASSUME NEW cgroup \in Paths, V1Move(cgroup) PROVE gone'
  BY <1>5 DEF V1Move
<1>6. ASSUME NEW cgroup \in Paths, V1WriteFails(cgroup) PROVE gone'
  BY <1>6 DEF V1WriteFails, Return
<1>7. CASE V1Done
  BY <1>7 DEF V1Done, Return
<1>8. CASE TargetMoves
  BY <1>8 DEF TargetMoves
<1>9. CASE ContainerEnds
  BY <1>9 DEF ContainerEnds
<1>10. CASE NotInV2
  BY <1>10 DEF NotInV2, Return
<1>11. CASE UNCHANGED vars
  BY <1>11 DEF vars
<1> QED
  BY <1>1, <1>2, <1>3, <1>4, <1>5, <1>6, <1>7, <1>8, <1>9, <1>10, <1>11 DEF Next, Terminating

-----------------------------------------------------------------------------
(***************************************************************************)
(* The theorems.                                                           *)
(***************************************************************************)
LEMMA InitInv == Init => IInv
<1> SUFFICES ASSUME Init PROVE IInv
  OBVIOUS
<1> USE UnifiedIsHierarchy
<1>1. TypeOK
  <2>1. target \in [Hier -> Paths]
    BY DEF Init
  <2>2. been \in [Hier -> SUBSET Paths] /\ own \in [Hier -> Paths \cup {Root}]
    BY <2>1 DEF Init
  <2>3. gone \in BOOLEAN
    BY DEF Init
  <2> QED BY <2>1, <2>2, <2>3 DEF Init, TypeOK
<1>2. PathOnce
  BY DEF Init, PathOnce
<1>3. ManagerKnown /\ UnifiedJoined /\ UnprivilegedContinues
  BY DEF Init, ManagerKnown, UnifiedJoined, UnprivilegedContinues
<1> QED BY <1>1, <1>2, <1>3 DEF IInv

\* IInv is an invariant.
LEMMA Invariance == Spec => []IInv
<1>1. IInv /\ [Next]_vars => IInv'
  BY TypeStep, ManagerStep, JoinedStep, ErrorStep DEF IInv
<1> QED BY <1>1, InitInv, PTL DEF Spec

\* The variables keep their types; move_to has a result when it is done and
\* none before.
THEOREM TypeCorrect == Spec => []TypeOK
<1>1. IInv => TypeOK
  BY DEF IInv
<1> QED BY <1>1, Invariance, PTL

\* On every host whose unified hierarchy is recognised, cntr is in the cgroup
\* of a container that has not moved, when move_to is done.
THEOREM Joined == Spec => []UnifiedJoined
<1>1. IInv => UnifiedJoined
  BY DEF IInv
<1> QED BY <1>1, Invariance, PTL

\* Missing rights are never an error of the v2 manager.
THEOREM Continues == Spec => []UnprivilegedContinues
<1>1. IInv => UnprivilegedContinues
  BY DEF IInv
<1> QED BY <1>1, Invariance, PTL
=============================================================================
