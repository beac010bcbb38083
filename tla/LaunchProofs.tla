------------------------------ MODULE LaunchProofs ------------------------------
(***************************************************************************)
(* Proofs about Launch: whoever the container's process becomes between    *)
(* two reads of /proc, the command has capabilities, a label, ids and an   *)
(* environment that the process had, and it is the command that was given. *)
(*                                                                         *)
(* Every invariant says what is known at each step of the way (pc) of one  *)
(* thing that the command gets; Shape is what they share.  The last part   *)
(* is the command line: ScanInv relates what has been read of it to the    *)
(* reference in Cli, and with it come the command, the label and the       *)
(* environment that were asked for.                                        *)
(***************************************************************************)
EXTENDS Launch, SequenceTheorems, NaturalFacts

\* The steps, and those after the one in which something was read.
Steps == {"lookup", "caps", "owner", "uid_map", "gid_map", "label", "cmd", "enter",
          "gid", "uid", "bounding", "profile", "exec", "run"}
Prepares == {"lookup", "caps", "owner", "uid_map", "gid_map", "label", "cmd", "enter"}

\* The records have their fields, the world is one of the inputs, and nothing
\* is begun before the arguments are understood.
Shape ==
  /\ pc \in Steps \cup {"scan", "failed"}
  /\ IsWorld(world)
  /\ now \in 1..Len(world.lives)
  /\ DOMAIN status = {"effective_capabilities", "owner", "uid", "gid", "lsm_profile"}
  /\ DOMAIN cmd = {"argv", "environment"}
  /\ DOMAIN self = {"uid", "gid", "bounding", "refused", "label", "argv", "environ"}
  /\ pc \in Steps => outcome = "ok"

LEMMA ShapeInit == Init => Shape
<1> SUFFICES ASSUME Init PROVE Shape
  OBVIOUS
<1>1. PICK i \in Inputs : world = i.world
  BY DEF Init
<1>2. IsWorld(world)
  BY <1>1, LaunchAssumption
<1>3. Len(world.lives) \in Nat \ {0}
  BY <1>2 DEF IsWorld
<1>4. now \in 1..Len(world.lives)
  BY <1>3 DEF Init
<1> QED BY <1>2, <1>4 DEF Init, Shape, Steps

LEMMA ShapeStep == Shape /\ [Next]_vars => Shape'
<1> SUFFICES ASSUME Shape, [Next]_vars PROVE Shape'
  OBVIOUS
<1>1. ASSUME world' = world PROVE IsWorld(world')
  BY <1>1 DEF Shape
<1> USE DEF Shape, boxVars, runVars
<1>2. CASE ScanArguments
  BY <1>1, <1>2 DEF ScanArguments, Steps
<1>3. CASE Lookup
  BY <1>1, <1>3 DEF Lookup, Step, cliVars, Steps
<1>4. CASE ReadCaps \/ ReadOwner
  BY <1>1, <1>4 DEF ReadCaps, ReadOwner, Reads, Step, cliVars, Steps
<1>5. CASE ReadUidMap \/ ReadGidMap
  BY <1>1, <1>5 DEF ReadUidMap, ReadGidMap, Reads, Step, cliVars, Steps
<1>6. CASE ReadLabel
  BY <1>1, <1>6 DEF ReadLabel, Reads, Step, cliVars, Steps
<1>7. CASE NewCommand
  BY <1>1, <1>7 DEF NewCommand, Step, cliVars, Steps
<1>8. CASE EnterContainer
  BY <1>1, <1>8 DEF EnterContainer, Step, cliVars, Steps
<1>9. CASE SetGid \/ SetUid
  BY <1>1, <1>9 DEF SetGid, SetUid, Step, cliVars, Steps
<1>10. CASE DropCapabilities
  BY <1>1, <1>10 DEF DropCapabilities, Step, cliVars, Steps
<1>11. CASE InheritProfile
  BY <1>1, <1>11 DEF InheritProfile, Step, cliVars, Steps
<1>12. CASE Exec
  BY <1>1, <1>12 DEF Exec, Step, cliVars, Steps
<1>13. CASE Fails
  BY <1>1, <1>13 DEF Fails, cliVars, Steps
<1>14. CASE BoxMoves
  <2>1. Len(world.lives) \in Nat
    BY DEF IsWorld
  <2> QED BY <1>1, <1>14, <2>1 DEF BoxMoves, cliVars, Steps
<1>15. CASE BoxEnds
  BY <1>1, <1>15 DEF BoxEnds, cliVars, Steps
<1>16. CASE UNCHANGED vars
  BY <1>1, <1>16 DEF vars, cliVars, Steps
<1> QED BY <1>2, <1>3, <1>4, <1>5, <1>6, <1>7, <1>8, <1>9, <1>10, <1>11, <1>12,
           <1>13, <1>14, <1>15, <1>16 DEF Next, Terminating

\* What a step does to whom the container's process has been: nothing is
\* forgotten, and the life it is in is one of them.
LEMMA MomentsGrow ==
  ASSUME Shape, [Next]_vars
  PROVE  world' = world /\ Moments \subseteq Moments' /\ Box \in Moments
<1>1. world' = world /\ (now' = now \/ now' = now + 1)
  BY DEF Next, vars, boxVars, ScanArguments, Lookup, ReadCaps, ReadOwner, ReadUidMap,
     ReadGidMap, ReadLabel, Reads, NewCommand, EnterContainer, SetGid, SetUid,
     DropCapabilities, InheritProfile, Exec, Step, Fails, BoxMoves, BoxEnds, Terminating
<1>2. now \in Nat /\ now >= 1
  BY DEF Shape, IsWorld
<1> QED BY <1>1, <1>2 DEF Moments, Box
-----------------------------------------------------------------------------
(***************************************************************************)
(* The capabilities.                                                       *)
(***************************************************************************)
All == IF world.userns THEN 0..world.last_cap ELSE world.bounding
Own == {CAP_SYS_CHROOT, CAP_SYS_PTRACE}

CapsInv ==
  /\ pc \in Steps \ {"lookup", "caps"} =>
       \E m \in Moments : status.effective_capabilities = m.caps
  /\ pc \in Prepares \cup {"scan"} => self.bounding = world.bounding
  /\ pc \in {"gid", "uid", "bounding"} => self.bounding = All
  /\ pc \in {"profile", "exec", "run"} /\ ~self.refused =>
       \E m \in Moments : self.bounding = (m.caps \cup Own) \cap All

LEMMA CapsInit == Init => CapsInv
BY DEF Init, CapsInv, Steps, Prepares

LEMMA CapsStep == Shape /\ CapsInv /\ [Next]_vars => CapsInv'
<1> SUFFICES ASSUME Shape, CapsInv, [Next]_vars PROVE CapsInv'
  OBVIOUS
<1> world' = world /\ Moments \subseteq Moments' /\ Box \in Moments
  BY MomentsGrow
<1>0. All' = All
  BY DEF All
<1> USE <1>0 DEF CapsInv, boxVars, runVars, Steps, Prepares
<1>1. CASE ScanArguments \/ Lookup \/ Fails \/ BoxMoves \/ BoxEnds \/ UNCHANGED vars
  BY <1>1 DEF ScanArguments, Lookup, Fails, BoxMoves, BoxEnds, vars, Step
<1>2. CASE ReadCaps
  BY <1>2 DEF ReadCaps, Reads, Step, Shape
<1>3. CASE ReadOwner \/ ReadUidMap \/ ReadGidMap
  BY <1>3 DEF ReadOwner, ReadUidMap, ReadGidMap, Reads, Step, Shape
<1>4. CASE ReadLabel
  BY <1>4 DEF ReadLabel, Reads, Step, Shape
<1>5. CASE NewCommand
  BY <1>5 DEF NewCommand, Step
<1>6. CASE EnterContainer
  BY <1>6 DEF EnterContainer, Step, Shape, All
<1>7. CASE SetGid \/ SetUid
  BY <1>7 DEF SetGid, SetUid, Step, Shape
<1>8. CASE DropCapabilities
  <2>1. CASE self' = [self EXCEPT !.refused = TRUE]
    BY <1>8, <2>1 DEF DropCapabilities, Step, Shape
  <2>2. CASE self' = [self EXCEPT !.bounding =
                        drop(@, status.effective_capabilities, world.last_cap)]
    <3>1. All \subseteq 0..world.last_cap
      BY DEF All, Shape, IsWorld
    <3>2. PICK m \in Moments : status.effective_capabilities = m.caps
      BY <1>8 DEF DropCapabilities, Step
    <3>3. self'.bounding = drop(All, m.caps, world.last_cap)
      BY <1>8, <2>2, <3>2 DEF DropCapabilities, Step, Shape
    <3>4. self'.bounding = (m.caps \cup Own) \cap All
      BY <3>1, <3>3 DEF drop, Drops, Own
    <3> QED BY <1>8, <3>2, <3>4 DEF DropCapabilities, Step
  <2> QED BY <1>8, <2>1, <2>2 DEF DropCapabilities
<1>9. CASE InheritProfile \/ Exec
  <2>1. self'.bounding = self.bounding /\ self'.refused = self.refused
    BY <1>9 DEF InheritProfile, Exec, Shape
  <2> QED BY <1>9, <2>1 DEF InheritProfile, Exec, Step
<1> QED BY <1>1, <1>2, <1>3, <1>4, <1>5, <1>6, <1>7, <1>8, <1>9 DEF Next, Terminating

\* Where prctl does not refuse, the bounding set of the command is what one
\* read of the container's capabilities gave, and the two that cntr needs.
THEOREM CommandCaps == Spec => []CapsOfContainer
<1>1. CapsInv => CapsOfContainer
  BY DEF CapsInv, CapsOfContainer, Own, All, Steps
<1> QED BY <1>1, CapsInit, CapsStep, ShapeInit, ShapeStep, PTL DEF Spec
-----------------------------------------------------------------------------
(***************************************************************************)
(* The label.                                                              *)
(***************************************************************************)
Asked == opts.apparmor_mode # "off" /\ world.enabled
Labels == {m.label : m \in Moments}

LabelInv ==
  /\ pc \notin {"exec", "run", "failed"} => self.label = world.label
  /\ pc \in {"cmd", "enter", "gid", "uid", "bounding", "profile"} =>
       IF ~Asked THEN status.lsm_profile = "none"
       ELSE IF status.lsm_profile = "none" THEN world.label \in Labels
       ELSE status.lsm_profile \in Labels
  /\ pc \in {"exec", "run"} =>
       IF Asked THEN self.label \in Labels ELSE self.label = world.label

LEMMA LabelInit == Init => LabelInv
BY DEF Init, LabelInv

LEMMA LabelStep == Shape /\ LabelInv /\ [Next]_vars => LabelInv'
<1> SUFFICES ASSUME Shape, LabelInv, [Next]_vars PROVE LabelInv'
  OBVIOUS
<1>a. world' = world /\ Moments \subseteq Moments' /\ Box \in Moments
  BY MomentsGrow
<1>b. Labels \subseteq Labels' /\ Box.label \in Labels
  BY <1>a DEF Labels
<1>c. ASSUME UNCHANGED cliVars PROVE Asked' = Asked
  BY <1>a, <1>c DEF Asked, cliVars
<1> HIDE DEF Labels, Asked
<1> USE <1>a, <1>b DEF LabelInv, boxVars, runVars
<1>1. CASE ScanArguments
  BY <1>1 DEF ScanArguments
<1>2. CASE Lookup \/ Fails \/ BoxMoves \/ BoxEnds \/ UNCHANGED vars
  <2>1. Asked' = Asked
    BY <1>2, <1>c DEF Lookup, Fails, BoxMoves, BoxEnds, vars, Step
  <2> QED BY <1>2, <2>1 DEF Lookup, Fails, BoxMoves, BoxEnds, vars, Step
<1>3. CASE ReadCaps \/ ReadOwner \/ ReadUidMap \/ ReadGidMap
  BY <1>3 DEF ReadCaps, ReadOwner, ReadUidMap, ReadGidMap, Reads, Step
<1>4. CASE ReadLabel
  <2>1. Asked' = Asked /\ self' = self /\ pc' = "cmd" /\ self.label = world.label
    BY <1>4, <1>c DEF ReadLabel, Reads, Step
  <2>2. status'.lsm_profile =
          read_profile(opts.apparmor_mode, world.enabled, Box.label, self.label)
    BY <1>4 DEF ReadLabel, Reads, Shape
  <2>3. CASE ~Asked
    BY <2>1, <2>2, <2>3 DEF read_profile, Asked
  <2>4. CASE Asked /\ Box.label = self.label
    BY <2>1, <2>2, <2>4 DEF read_profile, Asked
  <2>5. CASE Asked /\ Box.label # self.label
    <3>1. now \in 1..Len(world.lives) /\ IsLife(world.lives[now])
      BY DEF Shape, IsWorld
    <3>2. Box.label # "none"
      BY <3>1 DEF IsLife, Box
    <3>3. status'.lsm_profile = Box.label
      BY <2>2, <2>5 DEF read_profile, Asked
    <3> QED BY <2>1, <2>5, <3>2, <3>3
  <2> QED BY <2>3, <2>4, <2>5
<1>5. CASE NewCommand \/ EnterContainer \/ SetGid \/ SetUid \/ DropCapabilities
  <2>1. Asked' = Asked /\ status' = status
    BY <1>5, <1>c DEF NewCommand, EnterContainer, SetGid, SetUid, DropCapabilities, Step
  <2>2. self'.label = self.label
    BY <1>5 DEF NewCommand, EnterContainer, SetGid, SetUid, DropCapabilities, Shape
  <2> QED BY <1>5, <2>1, <2>2
         DEF NewCommand, EnterContainer, SetGid, SetUid, DropCapabilities, Step
<1>6. CASE InheritProfile
  <2>1. Asked' = Asked /\ self'.label = IF status.lsm_profile = "none" THEN self.label
                                       ELSE status.lsm_profile
    BY <1>6, <1>c DEF InheritProfile, Step, Shape
  <2> QED BY <1>6, <2>1 DEF InheritProfile, Step
<1>7. CASE Exec
  <2>1. Asked' = Asked /\ self'.label = self.label
    BY <1>7, <1>c DEF Exec, Step, Shape
  <2> QED BY <1>7, <2>1 DEF Exec, Step
<1> QED BY <1>1, <1>2, <1>3, <1>4, <1>5, <1>6, <1>7 DEF Next, Terminating
-----------------------------------------------------------------------------
(***************************************************************************)
(* The environment.                                                        *)
(***************************************************************************)
\* env is that of one program of the container, with a time zone if it has none.
Inherited(env) ==
  \E m \in Moments : /\ DOMAIN m.environ \subseteq DOMAIN env
                     /\ DOMAIN env \subseteq DOMAIN m.environ \cup {"TZ"}
                     /\ \A v \in DOMAIN m.environ : env[v] = m.environ[v]

Home == IF opts.effective_user = "none" THEN "none" ELSE Homes[opts.effective_user]
EnvInv ==
  /\ pc \notin {"run", "failed"} => self.environ = world.environ
  /\ pc \in {"enter", "gid", "uid", "bounding", "profile", "exec", "run"} =>
       Inherited(cmd.environment)
  /\ pc = "run" =>
       self.environ = IF mode = "attach"
                      THEN exec_in_overlay(cmd.environment, world.environ, Home)
                      ELSE exec_in_container(cmd.environment, world.environ,
                                             world.etc_environment)

LEMMA EnvInit == Init => EnvInv
BY DEF Init, EnvInv

LEMMA EnvStep == Shape /\ EnvInv /\ [Next]_vars => EnvInv'
<1> SUFFICES ASSUME Shape, EnvInv, [Next]_vars PROVE EnvInv'
  OBVIOUS
<1>a. world' = world /\ Moments \subseteq Moments' /\ Box \in Moments
  BY MomentsGrow
<1>b. ASSUME UNCHANGED cmd, Inherited(cmd.environment)
      PROVE  Inherited(cmd.environment)'
  BY <1>a, <1>b DEF Inherited
<1> USE <1>a, <1>b DEF EnvInv, boxVars, runVars
<1>1. CASE ScanArguments
  BY <1>1 DEF ScanArguments
<1>2. CASE Lookup \/ Fails \/ BoxMoves \/ BoxEnds \/ UNCHANGED vars
  <2>1. UNCHANGED <<cliVars, world, cmd, self>> /\ pc' \in {pc, "caps", "failed"}
    BY <1>2 DEF Lookup, Fails, BoxMoves, BoxEnds, vars, Step
  <2>2. Home' = Home /\ mode' = mode
    BY <2>1 DEF Home, cliVars
  <2> QED BY <1>2, <2>1, <2>2 DEF Lookup, Fails, BoxMoves, BoxEnds, vars, Step
<1>3. CASE ReadCaps \/ ReadOwner \/ ReadUidMap \/ ReadGidMap \/ ReadLabel
  BY <1>3 DEF ReadCaps, ReadOwner, ReadUidMap, ReadGidMap, ReadLabel, Reads, Step
<1>4. CASE NewCommand
  <2>1. cmd'.environment = Box.environ
    BY <1>4 DEF NewCommand
  <2>2. Inherited(cmd.environment)'
    BY <2>1 DEF Inherited
  <2> QED BY <1>4, <2>2 DEF NewCommand, Step
<1>5. CASE EnterContainer
  <2>1. Inherited(cmd.environment)'
    <3>1. CASE UNCHANGED cmd
      BY <1>5, <3>1 DEF EnterContainer, Step
    <3>2. CASE cmd' = [cmd EXCEPT !.environment = env_default(@, "TZ", "localtime")]
      <4>1. PICK m \in Moments :
                  /\ DOMAIN m.environ \subseteq DOMAIN cmd.environment
                  /\ DOMAIN cmd.environment \subseteq DOMAIN m.environ \cup {"TZ"}
                  /\ \A v \in DOMAIN m.environ : cmd.environment[v] = m.environ[v]
        BY <1>5 DEF EnterContainer, Step, Inherited
      <4>2. cmd'.environment = Over(cmd.environment, One("TZ", "localtime"))
        BY <3>2 DEF Shape, env_default
      <4>3. /\ DOMAIN cmd'.environment = DOMAIN cmd.environment \cup {"TZ"}
            /\ \A v \in DOMAIN cmd.environment : cmd'.environment[v] = cmd.environment[v]
        BY <4>2 DEF Over, One
      <4> QED BY <4>1, <4>3 DEF Inherited
    <3> QED BY <1>5, <3>1, <3>2 DEF EnterContainer
  <2>2. self'.environ = self.environ
    BY <1>5 DEF EnterContainer, Shape
  <2> QED BY <1>5, <2>1, <2>2 DEF EnterContainer, Step
<1>6. CASE SetGid \/ SetUid \/ DropCapabilities \/ InheritProfile
  <2>1. cmd' = cmd /\ self'.environ = self.environ
    BY <1>6 DEF SetGid, SetUid, DropCapabilities, InheritProfile, Shape
  <2> QED BY <1>6, <2>1 DEF SetGid, SetUid, DropCapabilities, InheritProfile, Step
<1>7. CASE Exec
  <2>1. Home' = Home /\ mode' = mode
    BY <1>7 DEF Exec, Step, Home, cliVars
  <2>2. self'.environ = IF mode = "attach"
                        THEN exec_in_overlay(cmd.environment, self.environ, Home)
                        ELSE exec_in_container(cmd.environment, self.environ,
                                               world.etc_environment)
    BY <1>7 DEF Exec, Shape, Home
  <2> QED BY <1>7, <2>1, <2>2 DEF Exec, Step
<1> QED BY <1>1, <1>2, <1>3, <1>4, <1>5, <1>6, <1>7 DEF Next, Terminating

\* What the two ways of executing the command make of the environment.
LEMMA EnvAtRun ==
  ASSUME EnvInv, pc = "run", mode \in {"attach", "exec"},
         opts.effective_user = "none" \/ (mode = "attach" /\ opts.effective_user \in Users)
  PROVE  \E m \in Moments :
           /\ \A v \in DOMAIN m.environ \ {"PATH", "HOME"} : self.environ[v] = m.environ[v]
           /\ mode = "exec" => self.environ["PATH"] = PathOfContainer(m)
           /\ mode = "attach" /\ "PATH" \in DOMAIN world.environ
                => self.environ["PATH"] = world.environ["PATH"]
           /\ IF opts.effective_user # "none"
              THEN self.environ["HOME"] = Homes[opts.effective_user]
              ELSE "HOME" \in DOMAIN m.environ => self.environ["HOME"] = m.environ["HOME"]
<1>1. PICK m \in Moments :
            /\ DOMAIN m.environ \subseteq DOMAIN cmd.environment
            /\ DOMAIN cmd.environment \subseteq DOMAIN m.environ \cup {"TZ"}
            /\ \A v \in DOMAIN m.environ : cmd.environment[v] = m.environ[v]
  BY DEF EnvInv, Inherited
<1>2. CASE mode = "attach"
  <2> DEFINE path == IF "PATH" \in DOMAIN world.environ THEN world.environ["PATH"]
                     ELSE "default"
             e == Over(One("PATH", path), cmd.environment)
             h == IF Home = "none" THEN e ELSE Over(One("HOME", Home), e)
  <2>1. self.environ = Over(h, world.environ)
    BY <1>2 DEF EnvInv, exec_in_overlay, envs
  <2>2. /\ DOMAIN e = {"PATH"} \cup DOMAIN cmd.environment /\ e["PATH"] = path
        /\ \A v \in DOMAIN cmd.environment \ {"PATH"} : e[v] = cmd.environment[v]
    BY DEF Over, One
  <2> HIDE DEF e
  <2>3. /\ DOMAIN e \subseteq DOMAIN h /\ h["PATH"] = path
        /\ \A v \in DOMAIN e \ {"HOME"} : h[v] = e[v]
        /\ IF Home = "none" THEN h = e ELSE "HOME" \in DOMAIN h /\ h["HOME"] = Home
    <3>1. CASE Home = "none"
      BY <2>2, <3>1
    <3>2. CASE Home # "none"
      <4>1. h = Over(One("HOME", Home), e)
        BY <3>2
      <4> HIDE DEF h
      <4> QED BY <2>2, <3>2, <4>1 DEF Over, One
    <3> QED BY <3>1, <3>2
  <2> HIDE DEF h
  <2>4. \A v \in DOMAIN h : self.environ[v] = h[v]
    BY <2>1 DEF Over
  <2>5. \A v \in DOMAIN m.environ \ {"PATH", "HOME"} : self.environ[v] = m.environ[v]
    BY <1>1, <2>2, <2>3, <2>4
  <2>6. self.environ["PATH"] = path
    BY <2>2, <2>3, <2>4
  <2>7. CASE opts.effective_user = "none"
    <3>1. h = e
      BY <2>3, <2>7 DEF Home
    <3>2. "HOME" \in DOMAIN m.environ => self.environ["HOME"] = m.environ["HOME"]
      BY <1>1, <2>2, <2>4, <3>1
    <3> QED BY <1>2, <2>5, <2>6, <2>7, <3>2
  <2>8. CASE opts.effective_user # "none"
    <3>1. Home # "none" /\ Home = Homes[opts.effective_user]
      BY <2>8, LaunchAssumption DEF Home
    <3>2. self.environ["HOME"] = Homes[opts.effective_user]
      BY <2>3, <2>4, <3>1
    <3> QED BY <1>2, <2>5, <2>6, <2>8, <3>2
  <2> QED BY <2>7, <2>8
<1>3. CASE mode = "exec"
  <2> DEFINE path == read_container_path(world.etc_environment)
             e == Over(cmd.environment, One("PATH", path))
  <2>1. self.environ = Over(e, world.environ)
    BY <1>3 DEF EnvInv, exec_in_container, envs, env_default
  <2>2. /\ DOMAIN e = {"PATH"} \cup DOMAIN cmd.environment
        /\ \A v \in DOMAIN cmd.environment : e[v] = cmd.environment[v]
        /\ "PATH" \notin DOMAIN cmd.environment => e["PATH"] = path
    BY DEF Over, One
  <2> HIDE DEF e
  <2>3. \A v \in DOMAIN e : self.environ[v] = e[v]
    BY <2>1 DEF Over
  <2>4. \A v \in DOMAIN m.environ : self.environ[v] = m.environ[v]
    BY <1>1, <2>2, <2>3
  <2>5. self.environ["PATH"] = PathOfContainer(m)
    BY <1>1, <2>2, <2>3, <2>4 DEF PathOfContainer, read_container_path
  <2>6. opts.effective_user = "none"
    BY <1>3
  <2> QED BY <1>3, <2>4, <2>5, <2>6
<1> QED BY <1>2, <1>3
-----------------------------------------------------------------------------
(***************************************************************************)
(* The ids.                                                                *)
(***************************************************************************)
\* Of lines that do not overlap, the one that holds an id of the host gives the
\* id back: from the host to the namespace and back is the way one came.
LEMMA ThereAndBack ==
  ASSUME NEW map, IdMap(map), NEW id \in Ids, Mapped(map, id),
         translate_id(map, id) # Overflow,
         NEW u \in make_kuid(map, translate_id(map, id))
  PROVE  u = id
<1>1. /\ DOMAIN map \subseteq Nat
      /\ \A i \in DOMAIN map : map[i] \in IdLine
  <2> HIDE DEF IdLine
  <2> QED BY DEF IdMap
<1>2. \A i \in DOMAIN map :
         map[i].inner \in Nat /\ map[i].outer \in Nat /\ map[i].length \in Nat
  BY <1>1, IdentityAssumption DEF IdLine, Ids
<1> DEFINE lines == {i \in DOMAIN map : Holds(map[i], id)}
<1>3. lines \in SUBSET Nat /\ lines # {}
  BY <1>1 DEF Mapped
<1>4. PICK k \in lines : k = Min(lines)
  <2>1. \E i \in lines : \A j \in lines : i <= j
    BY <1>3, LeastNatural
  <2> QED BY <2>1 DEF Min
<1>5. k \in DOMAIN map /\ Holds(map[k], id)
  BY <1>4
<1>6. translate_id(map, id) = map[k].inner + (id - map[k].outer)
  <2>1. translate_id(map, id) = IF map[k].inner + (id - map[k].outer) <= MaxId
                                THEN map[k].inner + (id - map[k].outer) ELSE Overflow
    BY <1>3, <1>4 DEF translate_id
  <2> QED BY <2>1
<1> HIDE DEF lines
<1> DEFINE n == translate_id(map, id)
<1>7. id \in Nat /\ map[k].inner <= n /\ n < map[k].inner + map[k].length
  BY <1>2, <1>5, <1>6, IdentityAssumption DEF Holds, Ids
<1>8. PICK j \in DOMAIN map : /\ map[j].inner <= n /\ n < map[j].inner + map[j].length
                              /\ u = map[j].outer + (n - map[j].inner)
  BY DEF make_kuid
<1> HIDE DEF n
<1>9. n \in Nat
  BY <1>2, <1>5, <1>6, <1>7 DEF n
<1>10. j = k
  <2> SUFFICES ASSUME j # k PROVE FALSE
    OBVIOUS
  <2>1. j < k \/ k < j
    BY <1>1, <1>5
  <2>2. \/ map[j].inner + map[j].length <= map[k].inner
        \/ map[k].inner + map[k].length <= map[j].inner
    BY <1>5, <2>1 DEF IdMap
  <2> QED BY <1>2, <1>5, <1>7, <1>8, <1>9, <2>2
<1>11. n = map[k].inner + (id - map[k].outer)
  BY <1>6 DEF n
<1>12. u = map[k].outer + (n - map[k].inner)
  BY <1>8, <1>10
<1>13. map[k].inner \in Nat /\ map[k].outer \in Nat
  BY <1>2, <1>5
<1> QED BY <1>7, <1>9, <1>11, <1>12, <1>13

\* Life i is the one whose owner was read; each id has gone through a map that
\* the process had when it was read, and back through one that it had later.
UserInv ==
  /\ pc \in Steps \ {"lookup", "caps", "owner"} =>
       \E m \in Moments : status.owner = <<m.uid, m.gid>>
  /\ pc \in Steps \ {"lookup", "caps", "owner", "uid_map"} =>
       /\ status.uid # Overflow
       /\ \E k \in Moments : status.uid = translate_id(k.uid_map, status.owner[1])
  /\ pc \in Steps \ {"lookup", "caps", "owner", "uid_map", "gid_map"} =>
       /\ status.gid # Overflow
       /\ \E k \in Moments : status.gid = translate_id(k.gid_map, status.owner[2])
  /\ pc \in {"uid", "bounding", "profile", "exec", "run"} /\ world.userns =>
       \E k \in Moments : self.gid \in make_kuid(k.gid_map, status.gid)
  /\ pc \in {"bounding", "profile", "exec", "run"} /\ world.userns =>
       \E k \in Moments : self.uid \in make_kuid(k.uid_map, status.uid)

LEMMA UserInit == Init => UserInv
BY DEF Init, UserInv, Steps

LEMMA UserStep == Shape /\ UserInv /\ [Next]_vars => UserInv'
<1> SUFFICES ASSUME Shape, UserInv, [Next]_vars PROVE UserInv'
  OBVIOUS
<1> world' = world /\ Moments \subseteq Moments' /\ Box \in Moments
  BY MomentsGrow
<1> USE DEF UserInv, boxVars, runVars, Steps
<1>1. CASE ScanArguments \/ Lookup \/ Fails \/ BoxMoves \/ BoxEnds \/ UNCHANGED vars
  BY <1>1 DEF ScanArguments, Lookup, Fails, BoxMoves, BoxEnds, vars, Step
<1>2. CASE ReadCaps
  BY <1>2 DEF ReadCaps, Reads, Step, Shape
<1>3. CASE ReadOwner
  BY <1>3 DEF ReadOwner, Reads, Step, Shape
<1>4. CASE ReadUidMap
  BY <1>4 DEF ReadUidMap, Reads, Step, Shape
<1>5. CASE ReadGidMap
  BY <1>5 DEF ReadGidMap, Reads, Step, Shape
<1>6. CASE ReadLabel
  BY <1>6 DEF ReadLabel, Reads, Step, Shape
<1>7. CASE NewCommand
  BY <1>7 DEF NewCommand, Step
<1>8. CASE EnterContainer
  BY <1>8 DEF EnterContainer, Step, Shape
<1>9. CASE SetGid
  BY <1>9 DEF SetGid, Step, Shape
<1>10. CASE SetUid
  BY <1>10 DEF SetUid, Step, Shape
<1>11. CASE DropCapabilities \/ InheritProfile \/ Exec
  <2>1. self'.uid = self.uid /\ self'.gid = self.gid
    BY <1>11 DEF DropCapabilities, InheritProfile, Exec, Shape
  <2> QED BY <1>11, <2>1 DEF DropCapabilities, InheritProfile, Exec, Step
<1> QED BY <1>1, <1>2, <1>3, <1>4, <1>5, <1>6, <1>7, <1>8, <1>9, <1>10, <1>11
        DEF Next, Terminating

\* Two maps of one process that both hold an id are one map.
LEMMA OneMap ==
  ASSUME Shape, NEW k \in Moments, NEW l \in Moments, NEW id
  PROVE  /\ IsLife(k)
         /\ Mapped(k.uid_map, id) /\ Mapped(l.uid_map, id) => k.uid_map = l.uid_map
         /\ Mapped(k.gid_map, id) /\ Mapped(l.gid_map, id) => k.gid_map = l.gid_map
<1>1. now \in 1..Len(world.lives) /\ Len(world.lives) \in Nat
  BY DEF Shape, IsWorld
<1>2. PICK i \in 1..now : k = world.lives[i]
  BY DEF Moments
<1>3. PICK j \in 1..now : l = world.lives[j]
  BY DEF Moments
<1>4. i \in 1..Len(world.lives) /\ j \in 1..Len(world.lives)
  BY <1>1
<1>5. IsLife(k)
  BY <1>2, <1>4 DEF Shape, IsWorld
<1>6. ~Mapped(<< >>, id)
  BY DEF Mapped
<1>7. CASE i = j
  BY <1>2, <1>3, <1>5, <1>7
<1>8. CASE i < j
  <2>1. k.uid_map \in {<< >>, l.uid_map} /\ k.gid_map \in {<< >>, l.gid_map}
    BY <1>2, <1>3, <1>4, <1>8 DEF Shape, IsWorld
  <2> QED BY <1>5, <1>6, <2>1
<1>9. CASE j < i
  <2>1. l.uid_map \in {<< >>, k.uid_map} /\ l.gid_map \in {<< >>, k.gid_map}
    BY <1>2, <1>3, <1>4, <1>9 DEF Shape, IsWorld
  <2> QED BY <1>5, <1>6, <2>1
<1> QED BY <1>7, <1>8, <1>9

\* In a user namespace the command has the uid and the gid that one read of the
\* container's owner gave, unless one of the maps did not hold it.
THEOREM CommandUser == Spec => []UserOfContainer
<1>1. Shape /\ UserInv => UserOfContainer
  <2> SUFFICES ASSUME Shape, UserInv, pc = "run", world.userns
               PROVE  \E m \in Moments :
                        /\ self.uid = m.uid \/ \E k \in Moments : ~Mapped(k.uid_map, m.uid)
                        /\ self.gid = m.gid \/ \E k \in Moments : ~Mapped(k.gid_map, m.gid)
    BY DEF UserOfContainer
  <2>1. PICK m \in Moments : status.owner = <<m.uid, m.gid>>
    BY DEF UserInv, Steps
  <2>2. IsLife(m)
    BY OneMap
  <2>3. ASSUME \A k \in Moments : Mapped(k.uid_map, m.uid) PROVE self.uid = m.uid
    <3>1. PICK k \in Moments : /\ status.uid = translate_id(k.uid_map, m.uid)
                               /\ status.uid # Overflow
      BY <2>1 DEF UserInv, Steps
    <3>2. PICK l \in Moments : self.uid \in make_kuid(l.uid_map, status.uid)
      BY DEF UserInv
    <3>3. k.uid_map = l.uid_map /\ IsLife(k)
      BY <2>3, OneMap
    <3>4. IdMap(k.uid_map) /\ m.uid \in Ids
      BY <2>2, <3>3 DEF IsLife
    <3>5. PICK map : map = k.uid_map
      OBVIOUS
    <3>6. PICK id : id = m.uid
      OBVIOUS
    <3>7. IdMap(map) /\ id \in Ids /\ Mapped(map, id)
      BY <2>3, <3>4, <3>5, <3>6
    <3>8. translate_id(map, id) # Overflow /\ self.uid \in make_kuid(map, translate_id(map, id))
      BY <3>1, <3>2, <3>3, <3>5, <3>6
    <3> QED BY <3>6, <3>7, <3>8, ThereAndBack
  <2>4. ASSUME \A k \in Moments : Mapped(k.gid_map, m.gid) PROVE self.gid = m.gid
    <3>1. PICK k \in Moments : /\ status.gid = translate_id(k.gid_map, m.gid)
                               /\ status.gid # Overflow
      BY <2>1 DEF UserInv, Steps
    <3>2. PICK l \in Moments : self.gid \in make_kuid(l.gid_map, status.gid)
      BY DEF UserInv
    <3>3. k.gid_map = l.gid_map /\ IsLife(k)
      BY <2>4, OneMap
    <3>4. IdMap(k.gid_map) /\ m.gid \in Ids
      BY <2>2, <3>3 DEF IsLife
    <3>5. PICK map : map = k.gid_map
      OBVIOUS
    <3>6. PICK id : id = m.gid
      OBVIOUS
    <3>7. IdMap(map) /\ id \in Ids /\ Mapped(map, id)
      BY <2>4, <3>4, <3>5, <3>6
    <3>8. translate_id(map, id) # Overflow /\ self.gid \in make_kuid(map, translate_id(map, id))
      BY <3>1, <3>2, <3>3, <3>5, <3>6
    <3> QED BY <3>6, <3>7, <3>8, ThereAndBack
  <2> QED BY <2>3, <2>4
<1> QED BY <1>1, UserInit, UserStep, ShapeInit, ShapeStep, PTL DEF Spec
-----------------------------------------------------------------------------
(***************************************************************************)
(* Which arguments are values.                                             *)
(***************************************************************************)
\* IsValue is defined of each argument by what it is of the one before it.  That
\* there is such a function is shown by one that is not defined so: an argument
\* is a value if its distance is odd from the beginning k of the run of options
\* that it ends.
Run(k, i) == /\ k \in 2..(i - 1)
             /\ \A j \in k..(i - 1) : argv[j] \in TakesValue
             /\ k = 2 \/ argv[k - 1] \notin TakesValue
Odd(n) == \E m \in Nat : n = 2 * m + 1

LEMMA Halves ==
  \A n \in Nat : \E m \in Nat : n = 2 * m \/ n = 2 * m + 1
<1> DEFINE T == {n \in Nat : \E m \in Nat : n = 2 * m \/ n = 2 * m + 1}
<1>1. 0 \in T
  <2>1. 0 = 2 * 0
    OBVIOUS
  <2> QED BY <2>1
<1>2. ASSUME NEW n \in Nat, n \in T PROVE n + 1 \in T
  <2>1. PICK m \in Nat : n = 2 * m \/ n = 2 * m + 1
    BY <1>2
  <2>2. n + 1 = 2 * m + 1 \/ n + 1 = 2 * (m + 1)
    BY <2>1
  <2>3. \E k \in Nat : n + 1 = 2 * k \/ n + 1 = 2 * k + 1
    <3>1. CASE n + 1 = 2 * m + 1
      <4> WITNESS m \in Nat
      <4> QED BY <3>1
    <3>2. CASE n + 1 = 2 * (m + 1)
      <4>1. m + 1 \in Nat
        OBVIOUS
      <4> WITNESS m + 1 \in Nat
      <4> QED BY <3>2
    <3> QED BY <2>2, <3>1, <3>2
  <2> QED BY <2>3
<1> HIDE DEF T
<1>3. Nat \subseteq T
  BY <1>1, <1>2, NaturalInduction
<1> QED BY <1>3 DEF T

LEMMA OneRun ==
  ASSUME NEW i \in Nat, NEW k, NEW l, Run(k, i), Run(l, i)
  PROVE  k = l
<1>1. ASSUME NEW x, NEW y, Run(x, i), Run(y, i), x < y PROVE FALSE
  <2>1. x \in 2..(i - 1) /\ y \in 2..(i - 1) /\ y # 2 /\ y - 1 \in x..(i - 1)
    BY <1>1 DEF Run
  <2> QED BY <1>1, <2>1 DEF Run
<1>2. k \in Int /\ l \in Int
  BY DEF Run
<1> QED BY <1>1, <1>2

LEMMA ValueStep ==
  ASSUME NEW i \in Nat
  PROVE  (\E k \in Nat : Run(k, i) /\ Odd(i - k))
           <=> /\ i > 2 /\ argv[i - 1] \in TakesValue
               /\ ~\E k \in Nat : Run(k, i - 1) /\ Odd((i - 1) - k)
<1>1. ASSUME NEW n \in Nat PROVE ~(Odd(n) /\ Odd(n + 1))
  BY DEF Odd
<1>2. ASSUME NEW k \in Nat, Run(k, i), Odd(i - k)
      PROVE  /\ i > 2 /\ argv[i - 1] \in TakesValue
             /\ ~\E l \in Nat : Run(l, i - 1) /\ Odd((i - 1) - l)
  <2>1. k \in 2..(i - 1) /\ i - 1 \in k..(i - 1) /\ i > 2
    BY <1>2 DEF Run
  <2>2. argv[i - 1] \in TakesValue
    BY <1>2, <2>1 DEF Run
  <2>3. ASSUME NEW l \in Nat, Run(l, i - 1), Odd((i - 1) - l) PROVE FALSE
    <3>1. /\ l \in 2..(i - 2) /\ \A j \in l..(i - 2) : argv[j] \in TakesValue
          /\ l = 2 \/ argv[l - 1] \notin TakesValue
      BY <2>3 DEF Run
    <3>2. \A j \in l..(i - 1) : argv[j] \in TakesValue
      BY <2>2, <3>1
    <3>3. Run(l, i)
      BY <3>1, <3>2 DEF Run
    <3>4. l = k
      BY <1>2, <3>3, OneRun
    <3>5. (i - 1) - k \in Nat /\ ((i - 1) - k) + 1 = i - k
      BY <2>1
    <3> QED BY <1>1, <1>2, <2>3, <3>4, <3>5
  <2> QED BY <2>1, <2>2, <2>3
<1>3. ASSUME i > 2, argv[i - 1] \in TakesValue,
             ~\E k \in Nat : Run(k, i - 1) /\ Odd((i - 1) - k)
      PROVE  \E k \in Nat : Run(k, i) /\ Odd(i - k)
  <2> DEFINE T == {k \in 2..(i - 1) : \A j \in k..(i - 1) : argv[j] \in TakesValue}
  <2>1. i - 1 \in T /\ T \in SUBSET Nat
    BY <1>3
  <2>2. PICK k \in T : \A x \in T : k <= x
    BY <2>1, LeastNatural
  <2>3. k \in 2..(i - 1) /\ \A j \in k..(i - 1) : argv[j] \in TakesValue
    OBVIOUS
  <2>4. k = 2 \/ argv[k - 1] \notin TakesValue
    <3> SUFFICES ASSUME k # 2, argv[k - 1] \in TakesValue PROVE FALSE
      OBVIOUS
    <3>1. \A j \in (k - 1)..(i - 1) : j = k - 1 \/ j \in k..(i - 1)
      BY <2>3
    <3>2. k - 1 \in T
      BY <2>3, <3>1
    <3> QED BY <2>2, <2>3, <3>2
  <2> HIDE DEF T
  <2>5. Run(k, i) /\ k \in Nat
    BY <2>3, <2>4 DEF Run
  <2>6. Odd(i - k)
    <3> SUFFICES ASSUME ~Odd(i - k) PROVE FALSE
      OBVIOUS
    <3>1. PICK n \in Nat : n = i - k
      BY <2>3
    <3>2. n # 1 /\ n >= 1
      BY <2>3, <3>1 DEF Odd
    <3>3. Odd(n - 1)
      <4>1. \E m \in Nat : n = 2 * m \/ n = 2 * m + 1
        BY Halves
      <4>2. PICK m \in Nat : n = 2 * m
        BY <3>1, <4>1 DEF Odd
      <4>3. m - 1 \in Nat /\ n - 1 = 2 * (m - 1) + 1
        BY <3>2, <4>2
      <4> QED BY <4>3 DEF Odd
    <3>4. (i - 1) - k = n - 1 /\ k \in 2..(i - 2)
      BY <2>3, <3>1, <3>2
    <3>5. Run(k, i - 1)
      BY <2>3, <2>4, <3>4 DEF Run
    <3> QED BY <1>3, <2>5, <3>3, <3>4, <3>5
  <2> QED BY <2>5, <2>6
<1> QED BY <1>2, <1>3

LEMMA IsValueDef ==
  \A i \in Nat : IsValue[i] <=> i > 2 /\ argv[i - 1] \in TakesValue /\ ~IsValue[i - 1]
<1> DEFINE f == [i \in Nat |-> \E k \in Nat : Run(k, i) /\ Odd(i - k)]
           g == [i \in Nat |-> i > 2 /\ argv[i - 1] \in TakesValue /\ ~f[i - 1]]
<1>1. ASSUME NEW i \in Nat PROVE f[i] = g[i]
  <2>1. CASE i = 0
    <3>1. ~\E k \in Nat : Run(k, i) /\ Odd(i - k)
      BY <2>1 DEF Run
    <3>2. f[i] = FALSE
      BY <3>1
    <3>3. g[i] = FALSE
      <4> HIDE DEF f
      <4>1. (i > 2) = FALSE
        BY <2>1
      <4> QED BY <4>1
    <3> QED BY <3>2, <3>3
  <2>2. CASE i # 0
    <3>1. i - 1 \in Nat
      BY <2>2
    <3>2. f[i - 1] <=> \E k \in Nat : Run(k, i - 1) /\ Odd((i - 1) - k)
      BY <3>1
    <3> QED BY <3>2, ValueStep
  <2> QED BY <2>1, <2>2
<1>2. f = g
  <2> HIDE DEF f
  <2>1. f = [i \in Nat |-> f[i]]
    BY DEF f
  <2> QED BY <1>1, <2>1
<1> HIDE DEF f
<1>3. IsValue = [i \in Nat |-> i > 2 /\ argv[i - 1] \in TakesValue /\ ~IsValue[i - 1]]
  BY <1>2 DEF IsValue
<1> QED BY <1>3
-----------------------------------------------------------------------------
(***************************************************************************)
(* What the scan has made of the arguments it has read, in the terms of    *)
(* the reference.                                                          *)
(***************************************************************************)
Fields == {"container_id", "container_types", "effective_user", "apparmor_mode",
           "command_parts"}

\* After n arguments the next is not a value, and the command has not begun.
Between(n) ==
  /\ n \in 1..Len(argv)
  /\ ~IsValue[n + 1]
  /\ \A b \in Begins : b > n
  /\ \A i \in 2..n : argv[i] = "-h" => IsValue[i]

NamedIs(n, id) == IF id = "none" THEN \A i \in 2..n : ~Named(i)
                  ELSE \E i \in 2..n : Named(i) /\ id = argv[i]
Values(o, n) == {i \in 3..n : IsValue[i] /\ argv[i - 1] = o}
LastIs(o, default, n, value) ==
  IF Values(o, n) = {} THEN value = default
  ELSE \E i \in Values(o, n) : value = argv[i] /\ \A j \in Values(o, n) : j <= i

Understood(n, m, o) ==
  /\ Between(n)
  /\ DOMAIN o = Fields
  /\ NamedIs(n, o.container_id)
  /\ LastIs("--apparmor", "auto", n, o.apparmor_mode) /\ o.apparmor_mode \in Apparmor
  /\ LastIs("--effective-user", "none", n, o.effective_user)
  /\ o.effective_user = "none" \/ (m = "attach" /\ o.effective_user \in Users)

First == IF argv[Begin] = "--" THEN Begin + 1 ELSE Begin
Parsed(n, m, c, o) ==
  /\ m \in {"none", "attach", "exec"}
  /\ m = "none" =>
       /\ n = 0 /\ c = FALSE /\ DOMAIN o = Fields
       /\ o.container_id = "none" /\ o.effective_user = "none"
       /\ o.apparmor_mode = "auto" /\ o.command_parts = << >>
  /\ m # "none" /\ ~c => Understood(n, m, o) /\ o.command_parts = << >>
  /\ m # "none" /\ c =>
       /\ Begins # {} /\ Begin \in 2..n /\ n \in 2..Len(argv)
       /\ Understood(Begin - 1, m, o)
       /\ o.command_parts = SubSeq(argv, First, n)

Read == Len(argv) - Len(rest)
ScanInv ==
  /\ argv \in Seq(STRING \ {"none"})
  /\ outcome \in {"scan", "ok"} =>
       /\ Read \in 0..Len(argv) /\ rest = SubSeq(argv, Read + 1, Len(argv))
       /\ Parsed(Read, mode, in_command, opts)
  /\ outcome = "ok" => rest = << >> /\ mode # "none" /\ opts.container_id # "none"

\* All of it is about the arguments, which stay as they are.
LEMMA ParsedSame ==
  ASSUME argv' = argv
  PROVE  /\ Begins' = Begins /\ Begin' = Begin
         /\ \A n, m, c, o : Parsed(n, m, c, o)' <=> Parsed(n, m, c, o)
<1>1. IsValue' = IsValue
  BY DEF IsValue
<1>2. \A i : Named(i)' <=> Named(i)
  BY <1>1 DEF Named
<1>3. Begins' = Begins
  BY <1>1 DEF Begins, Named
<1>4. Begin' = Begin
  BY <1>3 DEF Begin
<1>5. First' = First
  BY <1>4 DEF First
<1>6. \A n : Between(n)' <=> Between(n)
  BY <1>1, <1>3 DEF Between
<1>7. \A n, id : NamedIs(n, id)' <=> NamedIs(n, id)
  BY <1>1 DEF NamedIs, Named
<1>8. \A o, n : Values(o, n)' = Values(o, n)
  BY <1>1 DEF Values
<1>9. \A o, d, n, v : LastIs(o, d, n, v)' <=> LastIs(o, d, n, v)
  BY <1>8 DEF LastIs
<1>10. \A n, m, o : Understood(n, m, o)' <=> Understood(n, m, o)
  BY <1>6, <1>7, <1>9 DEF Understood
<1>11. \A n, m, c, o : Parsed(n, m, c, o)' <=> Parsed(n, m, c, o)
  BY <1>3, <1>4, <1>5, <1>10 DEF Parsed
<1> QED BY <1>3, <1>4, <1>11

\* The first of the places where the command could begin is where it does.
LEMMA BeginIs ==
  ASSUME NEW n \in Begins, \A b \in Begins : b >= n
  PROVE  Begin = n
<1>1. n \in Int /\ Begins \subseteq Int /\ Begins # {}
  BY DEF Begins
<1>2. Begin \in Begins /\ \A b \in Begins : Begin <= b
  BY <1>1 DEF Begin
<1> QED BY <1>1, <1>2

\* An argument that is not the value of an option, and takes none.
LEMMA OneArgument ==
  ASSUME argv \in Seq(STRING \ {"none"}), NEW n, Between(n), n + 1 \in 1..Len(argv),
         argv[n + 1] \notin TakesValue, n + 1 \notin Begins, argv[n + 1] # "-h"
  PROVE  /\ Between(n + 1)
         /\ \A o : Values(o, n + 1) = Values(o, n)
<1>1. n \in Nat /\ n >= 1 /\ Len(argv) \in Nat
  BY DEF Between
<1>2. ~IsValue[n + 1]
  BY DEF Between
<1>3. ~IsValue[n + 2]
  BY <1>1, IsValueDef
<1>4. ASSUME NEW b \in Begins PROVE b > n + 1
  BY <1>1, <1>4 DEF Between, Begins
<1>5. \A i \in 2..(n + 1) : i \in 2..n \/ i = n + 1
  BY <1>1
<1>6. Between(n + 1)
  BY <1>1, <1>3, <1>4, <1>5 DEF Between
<1>7. ASSUME NEW o PROVE Values(o, n + 1) = Values(o, n)
  <2>1. \A i : i \in 3..(n + 1) <=> i \in 3..n \/ (i = n + 1 /\ n >= 2)
    BY <1>1
  <2> QED BY <1>2, <2>1 DEF Values
<1> QED BY <1>6, <1>7

\* An option and its value, which is not looked at for what it is.
LEMMA TwoArguments ==
  ASSUME argv \in Seq(STRING \ {"none"}), NEW n, Between(n), n + 2 \in 1..Len(argv),
         argv[n + 1] \in TakesValue
  PROVE  /\ Between(n + 2)
         /\ \A id : NamedIs(n, id) => NamedIs(n + 2, id)
         /\ \A o : Values(o, n + 2) = IF argv[n + 1] = o THEN Values(o, n) \cup {n + 2}
                                      ELSE Values(o, n)
<1>1. n \in Nat /\ n >= 1 /\ Len(argv) \in Nat
  BY DEF Between
<1>2. ~IsValue[n + 1] /\ IsValue[n + 2] /\ ~IsValue[n + 3]
  <2>1. ~IsValue[n + 1]
    BY DEF Between
  <2>2. n + 2 \in Nat /\ n + 2 > 2 /\ (n + 2) - 1 = n + 1
    BY <1>1
  <2>3. IsValue[n + 2]
    BY <2>1, <2>2, IsValueDef
  <2>4. n + 3 \in Nat /\ (n + 3) - 1 = n + 2
    BY <1>1
  <2> QED BY <2>1, <2>3, <2>4, IsValueDef
<1>3. argv[n + 1] \in Dashed /\ argv[n + 1] # "--" /\ argv[n + 1] # "-h"
  BY CliAssumption DEF TakesValue
<1>4. ~Named(n + 1) /\ ~Named(n + 2)
  BY <1>2, <1>3 DEF Named
<1>5. \A i \in 2..(n + 2) : i \in 2..n \/ i = n + 1 \/ i = n + 2
  BY <1>1
<1>6. ASSUME NEW b \in Begins PROVE b > n + 2
  <2>1. b # n + 1 /\ b # n + 2
    BY <1>2, <1>3, <1>4 DEF Begins
  <2> QED BY <1>1, <2>1 DEF Between, Begins
<1>7. Between(n + 2)
  <2>1. (n + 2) + 1 = n + 3
    BY <1>1
  <2> QED BY <1>2, <1>3, <1>5, <1>6, <2>1 DEF Between
<1>8. ASSUME NEW id, NamedIs(n, id) PROVE NamedIs(n + 2, id)
  <2>1. \A i \in 2..n : i \in 2..(n + 2)
    BY <1>1
  <2> QED BY <1>4, <1>5, <1>8, <2>1 DEF NamedIs
<1>9. ASSUME NEW o
      PROVE  Values(o, n + 2) = IF argv[n + 1] = o THEN Values(o, n) \cup {n + 2}
                                ELSE Values(o, n)
  <2>1. \A i : i \in 3..(n + 2) <=> i \in 3..n \/ (i = n + 1 /\ n >= 2) \/ i = n + 2
    BY <1>1
  <2>2. (n + 2) - 1 = n + 1
    BY <1>1
  <2> QED BY <1>2, <2>1, <2>2 DEF Values
<1> QED BY <1>7, <1>8, <1>9

\* The value that comes now is the last.
LEMMA LatestValue ==
  ASSUME NEW n \in Nat, NEW o, NEW default,
         Values(o, n + 2) = Values(o, n) \cup {n + 2}
  PROVE  LastIs(o, default, n + 2, argv[n + 2])
<1>1. \A j \in Values(o, n) : j <= n + 2
  BY DEF Values
<1> QED BY <1>1 DEF LastIs

LEMMA GivenIs ==
  ASSUME NEW n \in Nat, Begin = n + 1, NEW o, NEW default, NEW value,
         LastIs(o, default, n, value)
  PROVE  Given(o, default) = value
<1>1. {i \in 3..(Begin - 1) : IsValue[i] /\ argv[i - 1] = o} = Values(o, n)
  BY DEF Values
<1>2. CASE Values(o, n) = {}
  BY <1>1, <1>2 DEF Given, LastIs
<1>3. CASE Values(o, n) # {}
  <2>1. PICK i \in Values(o, n) : value = argv[i] /\ \A j \in Values(o, n) : j <= i
    BY <1>3 DEF LastIs
  <2>2. \A j \in Values(o, n) : j \in Int
    BY DEF Values
  <2>3. i = CHOOSE x \in Values(o, n) : \A j \in Values(o, n) : j <= x
    <3>1. PICK x \in Values(o, n) :
            /\ \A j \in Values(o, n) : j <= x
            /\ x = CHOOSE y \in Values(o, n) : \A j \in Values(o, n) : j <= y
      BY <2>1
    <3> QED BY <2>1, <2>2, <3>1
  <2> QED BY <1>1, <1>3, <2>1, <2>3 DEF Given
<1> QED BY <1>2, <1>3

\* What is left after n more arguments.
LEMMA LeftOver ==
  ASSUME NEW S, NEW s \in Seq(S), NEW k \in 0..Len(s), NEW r,
         r = SubSeq(s, k + 1, Len(s)), NEW n \in 0..Len(r)
  PROVE  /\ Len(s) \in Nat /\ Len(r) = Len(s) - k
         /\ \A i \in 1..Len(r) : r[i] = s[k + i]
         /\ SubSeq(r, n + 1, Len(r)) = SubSeq(s, k + n + 1, Len(s))
         /\ Len(SubSeq(r, n + 1, Len(r))) = Len(s) - (k + n)
<1>1. Len(s) \in Nat /\ \A i \in 1..Len(s) : s[i] \in S
  BY LenProperties
<1>2. /\ r \in Seq(S) /\ Len(r) = Len(s) - k
      /\ \A i \in 1..Len(r) : r[i] = s[k + i]
  <2>1. k + 1 \in Int /\ \A i \in (k + 1)..Len(s) : s[i] \in S
    BY <1>1
  <2>2. /\ SubSeq(s, k + 1, Len(s)) \in Seq(S)
        /\ Len(SubSeq(s, k + 1, Len(s))) = IF k + 1 <= Len(s) THEN Len(s) - (k + 1) + 1 ELSE 0
        /\ \A i \in 1..(Len(s) - (k + 1) + 1) :
             SubSeq(s, k + 1, Len(s))[i] = s[(k + 1) + i - 1]
    BY <1>1, <2>1, SubSeqProperties
  <2>3. Len(r) = Len(s) - k
    BY <1>1, <2>2
  <2>4. ASSUME NEW i \in 1..Len(r) PROVE r[i] = s[k + i]
    BY <1>1, <2>2, <2>3
  <2> QED BY <2>2, <2>3, <2>4
<1>3. SubSeq(r, n + 1, Len(r)) = SubSeq(s, k + n + 1, Len(s))
  <2>1. CASE n = Len(r)
    <3>1. SubSeq(r, n + 1, Len(r)) = << >>
      BY <1>1, <1>2, <2>1, SubSeqEmpty
    <3>2. SubSeq(s, k + n + 1, Len(s)) = << >>
      BY <1>1, <1>2, <2>1, SubSeqEmpty
    <3> QED BY <3>1, <3>2
  <2>2. CASE n < Len(r)
    <3>1. PICK i, j, m, l : i = k + 1 /\ j = Len(s) /\ m = n + 1 /\ l = Len(r)
      OBVIOUS
    <3> /\ i \in 1..Len(s) /\ j \in 1..Len(s)
        /\ m \in 1..(j - i + 1) /\ l \in 1..(j - i + 1)
      BY <1>1, <1>2, <2>2, <3>1
    <3>2. SubSeq(SubSeq(s, i, j), m, l) = SubSeq(s, i + m - 1, i + l - 1)
      BY SubSeqOfSubSeq
    <3>3. i + m - 1 = k + n + 1 /\ i + l - 1 = Len(s)
      BY <1>1, <1>2, <3>1
    <3> QED BY <3>1, <3>2, <3>3
  <2> QED BY <1>2, <2>1, <2>2
<1>4. Len(SubSeq(s, k + n + 1, Len(s))) = Len(s) - (k + n)
  <2>1. k + n + 1 \in Int /\ \A i \in (k + n + 1)..Len(s) : s[i] \in S
    BY <1>1, <1>2
  <2>2. Len(SubSeq(s, k + n + 1, Len(s)))
          = IF k + n + 1 <= Len(s) THEN Len(s) - (k + n + 1) + 1 ELSE 0
    BY <1>1, <2>1, SubSeqProperties
  <2> QED BY <1>1, <1>2, <2>2
<1> QED BY <1>1, <1>2, <1>3, <1>4

LEMMA ScanInit == Init => ScanInv
<1> SUFFICES ASSUME Init PROVE ScanInv
  OBVIOUS
<1>1. argv \in Seq(STRING \ {"none"}) /\ rest = argv
  BY LaunchAssumption DEF Init, CliInit
<1>2. Len(argv) \in Nat /\ Read = 0
  BY <1>1, LenProperties DEF Read
<1>3. rest = SubSeq(argv, Read + 1, Len(argv))
  BY <1>1, <1>2, SubSeqFull
<1>4. Parsed(Read, mode, in_command, opts)
  BY <1>2 DEF Init, CliInit, Parsed, Fields
<1> QED BY <1>1, <1>2, <1>3, <1>4 DEF ScanInv, Init, CliInit

\* The arguments that a step reads.
LEMMA Reading ==
  ASSUME ScanInv, outcome = "scan", argv' = argv, NEW n \in 0..Len(rest), Takes(n)
  PROVE  /\ Read \in Nat /\ Len(argv) \in Nat
         /\ \A i \in 1..Len(rest) : Read + i \in 1..Len(argv) /\ rest[i] = argv[Read + i]
         /\ Read' = Read + n /\ Read' \in 0..Len(argv)
         /\ rest' = SubSeq(argv', Read' + 1, Len(argv'))
<1>1. /\ argv \in Seq(STRING \ {"none"}) /\ Read \in 0..Len(argv)
      /\ rest = SubSeq(argv, Read + 1, Len(argv))
  BY DEF ScanInv
<1>2. /\ Len(argv) \in Nat /\ Len(rest) = Len(argv) - Read
      /\ \A i \in 1..Len(rest) : rest[i] = argv[Read + i]
      /\ rest' = SubSeq(argv, Read + n + 1, Len(argv))
      /\ Len(rest') = Len(argv) - (Read + n)
  BY <1>1, LeftOver DEF Takes
<1>3. Read' = Read + n
  <2> HIDE DEF Read
  <2>0. Len(argv) \in Int /\ Read \in Int /\ n \in Int
    BY <1>1, <1>2
  <2>1. PICK a, b \in Int : a = Len(argv) /\ b = Read
    BY <2>0
  <2> DEFINE c == Len(rest')
  <2>2. c = a - (b + n)
    BY <1>2, <2>1
  <2> HIDE DEF c
  <2>3. a - c = b + n
    BY <2>2
  <2>4. Read' = Len(argv) - c
    BY DEF Read, c
  <2> QED BY <2>0, <2>1, <2>3, <2>4
<1>4. \A i \in 1..Len(rest) : Read + i \in 1..Len(argv)
  BY <1>1, <1>2
<1>5. Read \in Nat /\ Read + n \in 0..Len(argv)
  BY <1>1, <1>2
<1> QED BY <1>2, <1>3, <1>4, <1>5

\* It is enough to understand the arguments so far, in the terms of before.
LEMMA ScanGoesOn ==
  ASSUME ScanInv, outcome = "scan", UNCHANGED <<argv, outcome>>,
         NEW n \in 0..Len(rest), Takes(n),
         Parsed(Read + n, mode', in_command', opts')
  PROVE  ScanInv'
<1>1. Read' = Read + n /\ Read' \in 0..Len(argv) /\ rest' = SubSeq(argv', Read' + 1, Len(argv'))
  BY Reading
<1>2. Parsed(Read, mode, in_command, opts)'
  <2>1. PICK k : k = Read + n
    OBVIOUS
  <2>2. Parsed(k, mode', in_command', opts')
    BY <2>1
  <2>3. Parsed(k, mode, in_command, opts)'
    BY <2>2, ParsedSame
  <2>4. k = Read'
    BY <1>1, <2>1
  <2> QED BY <2>3, <2>4
<1> QED BY <1>1, <1>2 DEF ScanInv

LEMMA NextArgument ==
  ASSUME ScanInv, outcome = "scan", rest # << >>
  PROVE  /\ Len(rest) \in Nat /\ Len(rest) >= 1
         /\ Read \in Nat /\ Read + 1 \in 1..Len(argv)
         /\ Head(rest) = argv[Read + 1] /\ argv[Read + 1] # "none"
<1>1. /\ argv \in Seq(STRING \ {"none"}) /\ Read \in 0..Len(argv)
      /\ rest = SubSeq(argv, Read + 1, Len(argv))
  BY DEF ScanInv
<1>2. Len(argv) \in Nat /\ Len(rest) = Len(argv) - Read
  <2>1. 0 \in 0..Len(rest) \/ Len(rest) = Len(argv) - Read
    BY <1>1, LenProperties DEF Read
  <2> QED BY <1>1, <2>1, LenProperties, LeftOver DEF Read
<1>3. Read # Len(argv)
  <2>1. ASSUME Read = Len(argv) PROVE rest = << >>
    BY <1>1, <1>2, <2>1, SubSeqEmpty
  <2> QED BY <2>1
<1>4. Read + 1 \in 1..Len(argv) /\ Len(argv) \in (Read + 1)..Len(argv)
  BY <1>1, <1>2, <1>3
<1>5. Head(rest) = argv[Read + 1]
  BY <1>1, <1>4, HeadTailOfSubSeq
<1>6. argv[Read + 1] \in STRING \ {"none"}
  BY <1>1, <1>4, ElementOfSeq
<1> QED BY <1>1, <1>2, <1>4, <1>5, <1>6

\* An option with a value: the value replaces the one given before.
LEMMA OptionRead ==
  ASSUME ScanInv, outcome = "scan", mode # "none", ~in_command,
         UNCHANGED <<argv, mode, in_command, outcome>>,
         NEW o \in TakesValue, NEW field \in Fields, NEW value,
         Len(rest) # 1, rest # << >>, Head(rest) = o, rest[2] = value, Takes(2),
         opts' = [opts EXCEPT ![field] = value],
         \/ o = "-t" /\ field = "container_types"
         \/ o = "--apparmor" /\ field = "apparmor_mode" /\ value \in Apparmor
         \/ o = "--effective-user" /\ field = "effective_user" /\ value \in Users
            /\ mode = "attach"
  PROVE  ScanInv'
<1>1. PICK n : n = Read
  OBVIOUS
<1>2. Parsed(n, mode, in_command, opts) /\ argv \in Seq(STRING \ {"none"})
  BY <1>1 DEF ScanInv
<1>3. Understood(n, mode, opts) /\ opts.command_parts = << >> /\ mode \in {"attach", "exec"}
  BY <1>2 DEF Parsed
<1>4. 2 \in 0..Len(rest) /\ Head(rest) = argv[n + 1]
  <2>1. Len(rest) \in Nat /\ Len(rest) >= 1 /\ Head(rest) = argv[Read + 1]
    BY NextArgument
  <2>2. Head(rest) = argv[n + 1]
    BY <1>1, <2>1
  <2>3. PICK l \in Nat : l = Len(rest) /\ l >= 1
    BY <2>1
  <2>4. l # 1
    BY <2>3
  <2>5. 2 \in 0..l
    BY <2>3, <2>4
  <2> QED BY <2>2, <2>3, <2>5
<1>5. n \in Nat /\ n + 2 \in 1..Len(argv) /\ o = argv[n + 1] /\ value = argv[n + 2]
  <2>1. /\ n \in Nat
        /\ \A i \in 1..Len(rest) : n + i \in 1..Len(argv) /\ rest[i] = argv[n + i]
    <3>1. /\ Read \in Nat
          /\ \A i \in 1..Len(rest) : Read + i \in 1..Len(argv) /\ rest[i] = argv[Read + i]
      BY <1>4, Reading
    <3> QED BY <1>1, <3>1
  <2>2. 2 \in 1..Len(rest)
    BY <1>4
  <2> QED BY <1>4, <2>1, <2>2
<1>6. /\ Between(n + 2)
      /\ \A id : NamedIs(n, id) => NamedIs(n + 2, id)
      /\ \A p : Values(p, n + 2) = IF o = p THEN Values(p, n) \cup {n + 2} ELSE Values(p, n)
  BY <1>2, <1>3, <1>5, TwoArguments DEF Understood
<1>7. ASSUME NEW p, NEW default, NEW v, LastIs(p, default, n, v), o # p
      PROVE  LastIs(p, default, n + 2, v)
  BY <1>6, <1>7 DEF LastIs
<1>8. ASSUME NEW default PROVE LastIs(o, default, n + 2, value)
  BY <1>5, <1>6, LatestValue
<1>9. Understood(n + 2, mode, opts')
  <2> DEFINE q == opts'
  <2>1. DOMAIN q = Fields /\ q[field] = value /\ \A f \in Fields \ {field} : q[f] = opts[f]
    BY <1>3 DEF Understood
  <2>2. NamedIs(n + 2, q.container_id)
    BY <1>3, <1>6, <2>1 DEF Understood, Fields
  <2>3. CASE o = "-t"
    BY <1>3, <1>6, <1>7, <2>1, <2>2, <2>3 DEF Understood, Fields
  <2>4. CASE o = "--apparmor"
    BY <1>3, <1>6, <1>7, <1>8, <2>1, <2>2, <2>4 DEF Understood, Fields
  <2>5. CASE o = "--effective-user"
    BY <1>3, <1>6, <1>7, <1>8, <2>1, <2>2, <2>5 DEF Understood, Fields
  <2> QED BY <2>3, <2>4, <2>5 DEF TakesValue
<1>10. opts'.command_parts = << >>
  BY <1>3 DEF Understood, Fields
<1>11. Parsed(n + 2, mode', in_command', opts')
  BY <1>3, <1>9, <1>10 DEF Parsed
<1> QED BY <1>1, <1>4, <1>11, ScanGoesOn

LEMMA SubcommandRead ==
  ASSUME ScanInv, Subcommand PROVE ScanInv'
<1>1. argv' = argv
  BY DEF Subcommand, Ends
<1>2. CASE outcome' \in {"printed", "error"}
  BY <1>1, <1>2 DEF ScanInv
<1>3. CASE outcome' \notin {"printed", "error"}
  <2>1. /\ outcome = "scan" /\ mode = "none" /\ rest # << >> /\ Takes(1)
        /\ mode' \in {"attach", "exec"} /\ UNCHANGED <<argv, in_command, opts, outcome>>
    BY <1>3 DEF Subcommand, Ends
  <2>2. /\ Read = 0 /\ in_command = FALSE /\ DOMAIN opts = Fields
        /\ opts.container_id = "none" /\ opts.effective_user = "none"
        /\ opts.apparmor_mode = "auto" /\ opts.command_parts = << >>
    BY <2>1 DEF ScanInv, Parsed
  <2>3. Len(rest) \in Nat /\ Len(rest) >= 1 /\ 1 \in 1..Len(argv)
    BY <2>1, <2>2, NextArgument
  <2>4. ~IsValue[2]
    BY IsValueDef
  <2>5. Between(1)
    BY <2>3, <2>4 DEF Between, Begins
  <2>6. Understood(1, mode', opts)
    <3>1. \A o : Values(o, 1) = {}
      BY DEF Values
    <3>2. NamedIs(1, "none")
      BY DEF NamedIs
    <3> QED BY <2>2, <2>5, <3>1, <3>2 DEF Understood, LastIs, Apparmor
  <2>7. Parsed(1, mode', in_command', opts')
    BY <2>1, <2>2, <2>6 DEF Parsed
  <2>8. Parsed(Read + 1, mode', in_command', opts')
    <3>1. Read + 1 = 1
      BY <2>2
    <3> QED BY <2>7, <3>1
  <2>9. 1 \in 0..Len(rest)
    BY <2>3
  <2> QED BY <2>1, <2>8, <2>9, ScanGoesOn
<1> QED BY <1>2, <1>3

LEMMA CommandPartRead ==
  ASSUME ScanInv, CommandPart PROVE ScanInv'
<1>1. /\ outcome = "scan" /\ mode # "none" /\ rest # << >> /\ in_command /\ Takes(1)
      /\ opts' = [opts EXCEPT !.command_parts = Append(opts.command_parts, Head(rest))]
      /\ UNCHANGED <<argv, mode, in_command, outcome>>
  BY DEF CommandPart, Scanning, Sets
<1>2. PICK n : n = Read
  OBVIOUS
<1>3. /\ Parsed(n, mode, TRUE, opts) /\ argv \in Seq(STRING \ {"none"})
      /\ mode \in {"attach", "exec"}
  BY <1>1, <1>2 DEF ScanInv, Parsed
<1>4. /\ Begins # {} /\ Begin \in 2..n /\ n \in 2..Len(argv)
      /\ Understood(Begin - 1, mode, opts)
      /\ opts.command_parts = SubSeq(argv, First, n)
  BY <1>3 DEF Parsed
<1>5. Len(rest) \in Nat /\ Len(rest) >= 1 /\ n + 1 \in 1..Len(argv) /\ Head(rest) = argv[n + 1]
  BY <1>1, <1>2, NextArgument
<1>6. First \in 2..(n + 1)
  BY <1>4 DEF First
<1>7. Len(argv) \in Nat /\ \A i \in 1..Len(argv) : argv[i] \in STRING \ {"none"}
  BY <1>3, LenProperties, ElementOfSeq
<1>8. Append(SubSeq(argv, First, n), argv[n + 1]) = SubSeq(argv, First, n + 1)
  <2> DEFINE S == STRING \ {"none"}
  <2>1. SubSeq(argv, First, n) \in Seq(S)
    <3>1. First \in Int /\ n \in Int /\ \A i \in First..n : argv[i] \in S
      BY <1>4, <1>5, <1>6, <1>7
    <3> HIDE DEF S
    <3> QED BY <3>1, SubSeqProperties
  <2>2. Append(SubSeq(argv, First, n), argv[n + 1]) = SubSeq(argv, First, n) \o <<argv[n + 1]>>
    BY <1>5, <1>7, <2>1, AppendIsConcat
  <2>3. /\ First \in 1..Len(argv) /\ n + 1 \in First..Len(argv) /\ (n + 1) - 1 = n
    BY <1>4, <1>5, <1>6, <1>7
  <2>4. SubSeq(argv, First, n + 1) = SubSeq(argv, First, (n + 1) - 1) \o <<argv[n + 1]>>
    BY <1>3, <2>3, SubSeqRecursiveSecond
  <2> QED BY <2>2, <2>3, <2>4
<1>9. /\ opts'.command_parts = SubSeq(argv, First, n + 1)
      /\ DOMAIN opts' = Fields /\ \A f \in Fields \ {"command_parts"} : opts'[f] = opts[f]
  BY <1>1, <1>4, <1>5, <1>8 DEF Understood, Fields
<1>10. Understood(Begin - 1, mode, opts')
  BY <1>4, <1>9 DEF Understood, Fields
<1>11. Begin \in 2..(n + 1) /\ n + 1 \in 2..Len(argv)
  BY <1>4, <1>5
<1>12. Parsed(n + 1, mode', in_command', opts')
  BY <1>1, <1>3, <1>4, <1>9, <1>10, <1>11 DEF Parsed
<1>13. 1 \in 0..Len(rest)
  BY <1>5
<1> QED BY <1>1, <1>2, <1>12, <1>13, ScanGoesOn

\* The argument at which the command begins, by "--" or as its first word.
LEMMA CommandBegins ==
  ASSUME ScanInv, outcome = "scan", mode # "none", rest # << >>, ~in_command, Takes(1),
         Read + 1 \in Begins, NEW parts, StartsCommand(parts),
         parts = IF Head(rest) = "--" THEN << >> ELSE <<Head(rest)>>
  PROVE  ScanInv'
<1>1. /\ opts' = [opts EXCEPT !.command_parts = parts]
      /\ in_command' = TRUE /\ UNCHANGED <<argv, mode, outcome>>
  BY DEF StartsCommand
<1>2. PICK n : n = Read
  OBVIOUS
<1>3. /\ Parsed(n, mode, FALSE, opts) /\ argv \in Seq(STRING \ {"none"})
      /\ mode \in {"attach", "exec"} /\ Understood(n, mode, opts)
  BY <1>2 DEF ScanInv, Parsed
<1>4. Len(rest) \in Nat /\ Len(rest) >= 1 /\ n + 1 \in 1..Len(argv) /\ Head(rest) = argv[n + 1]
  BY <1>2, NextArgument
<1>5. n \in 1..Len(argv) /\ \A b \in Begins : b > n
  BY <1>3 DEF Understood, Between
<1>6. Begins # {} /\ Begin = n + 1
  <2>1. \A b \in Begins : b \in Int /\ b >= n + 1
    BY <1>5 DEF Begins
  <2>2. n + 1 \in Begins
    BY <1>2
  <2> QED BY <2>1, <2>2, BeginIs
<1>7. parts = SubSeq(argv, First, n + 1)
  <2>1. CASE argv[n + 1] = "--"
    <3>1. First = n + 2 /\ n + 1 \in Int /\ n + 2 \in Int /\ n + 1 < n + 2
      BY <1>5, <1>6, <2>1 DEF First
    <3> QED BY <1>4, <2>1, <3>1, SubSeqEmpty
  <2>2. CASE argv[n + 1] # "--"
    <3>1. First = n + 1 /\ First \in 1..Len(argv) /\ n + 1 \in First..Len(argv)
          /\ (n + 1) - 1 = n /\ n \in Int /\ n < First
      BY <1>4, <1>5, <1>6, <2>2 DEF First
    <3>2. SubSeq(argv, First, n + 1) = SubSeq(argv, First, (n + 1) - 1) \o <<argv[n + 1]>>
      BY <1>3, <3>1, SubSeqRecursiveSecond
    <3>3. SubSeq(argv, First, n) = << >>
      BY <3>1, SubSeqEmpty
    <3>4. << >> \o <<argv[n + 1]>> = <<argv[n + 1]>>
      OBVIOUS
    <3> QED BY <1>4, <2>2, <3>1, <3>2, <3>3, <3>4
  <2> QED BY <2>1, <2>2
<1>8. /\ opts'.command_parts = parts
      /\ DOMAIN opts' = Fields /\ \A f \in Fields \ {"command_parts"} : opts'[f] = opts[f]
  BY <1>1, <1>3 DEF Understood, Fields
<1>9. Understood(Begin - 1, mode, opts')
  <2>1. Begin - 1 = n
    BY <1>5, <1>6
  <2> QED BY <1>3, <1>8, <2>1 DEF Understood, Fields
<1>10. Begin \in 2..(n + 1) /\ n + 1 \in 2..Len(argv)
  BY <1>4, <1>5, <1>6
<1>11. Parsed(n + 1, mode', in_command', opts')
  BY <1>1, <1>3, <1>6, <1>7, <1>8, <1>9, <1>10 DEF Parsed
<1>12. 1 \in 0..Len(rest)
  BY <1>4
<1> QED BY <1>1, <1>2, <1>11, <1>12, ScanGoesOn

LEMMA DashDashRead ==
  ASSUME ScanInv, DashDash PROVE ScanInv'
<1>1. /\ outcome = "scan" /\ mode # "none" /\ rest # << >> /\ ~in_command /\ Takes(1)
      /\ Head(rest) = "--" /\ StartsCommand(<< >>)
  BY DEF DashDash, Option, Scanning
<1>2. Read + 1 \in 1..Len(argv) /\ Read \in Nat /\ argv[Read + 1] = "--"
  BY <1>1, NextArgument
<1>3. Read \in 1..Len(argv) /\ ~IsValue[Read + 1]
  BY <1>1 DEF ScanInv, Parsed, Understood, Between
<1>4. Read + 1 \in Begins
  BY <1>2, <1>3 DEF Begins
<1> QED BY <1>1, <1>4, CommandBegins

LEMMA PositionalRead ==
  ASSUME ScanInv, Positional PROVE ScanInv'
<1>1. /\ outcome = "scan" /\ mode # "none" /\ rest # << >> /\ ~in_command /\ Takes(1)
      /\ Head(rest) \notin Dashed
      /\ IF opts.container_id = "none"
         THEN Sets("container_id", Head(rest)) ELSE StartsCommand(<<Head(rest)>>)
  BY DEF Positional, Scanning, SecondStarts
<1>2. PICK n : n = Read
  OBVIOUS
<1>3. /\ Parsed(n, mode, FALSE, opts) /\ argv \in Seq(STRING \ {"none"})
      /\ mode \in {"attach", "exec"} /\ Understood(n, mode, opts)
      /\ opts.command_parts = << >>
  BY <1>1, <1>2 DEF ScanInv, Parsed
<1>4. /\ Len(rest) \in Nat /\ Len(rest) >= 1 /\ n + 1 \in 1..Len(argv)
      /\ Head(rest) = argv[n + 1] /\ argv[n + 1] # "none"
  BY <1>1, <1>2, NextArgument
<1>5. n \in 1..Len(argv) /\ ~IsValue[n + 1] /\ \A b \in Begins : b > n
  BY <1>3 DEF Understood, Between
<1>6. Named(n + 1)
  BY <1>1, <1>4, <1>5 DEF Named
<1>7. argv[n + 1] \notin TakesValue /\ argv[n + 1] # "--" /\ argv[n + 1] # "-h"
  BY <1>1, <1>4, CliAssumption DEF TakesValue
<1>8. CASE opts.container_id = "none"
  <2>1. \A i \in 2..n : ~Named(i)
    BY <1>3, <1>8 DEF Understood, NamedIs
  <2>2. n + 1 \notin Begins
    <3>1. (n + 1) - 1 = n
      BY <1>5
    <3> QED BY <1>7, <2>1, <3>1 DEF Begins
  <2>3. Between(n + 1) /\ \A o : Values(o, n + 1) = Values(o, n)
    BY <1>3, <1>4, <1>7, <2>2, OneArgument DEF Understood
  <2>4. NamedIs(n + 1, argv[n + 1])
    <3>1. n + 1 \in 2..(n + 1)
      BY <1>5
    <3> QED BY <1>4, <1>6, <3>1 DEF NamedIs
  <2>5. opts' = [opts EXCEPT !.container_id = Head(rest)]
        /\ UNCHANGED <<argv, mode, in_command, outcome>>
    BY <1>1, <1>8 DEF Sets
  <2>6. /\ opts'.container_id = argv[n + 1]
        /\ DOMAIN opts' = Fields /\ \A f \in Fields \ {"container_id"} : opts'[f] = opts[f]
    BY <1>3, <1>4, <2>5 DEF Understood, Fields
  <2>7. Understood(n + 1, mode, opts')
    BY <1>3, <2>3, <2>4, <2>6 DEF Understood, LastIs, Fields
  <2>8. Parsed(n + 1, mode', in_command', opts')
    BY <1>1, <1>3, <2>5, <2>6, <2>7 DEF Parsed, Fields
  <2>9. 1 \in 0..Len(rest)
    BY <1>4
  <2> QED BY <1>1, <1>2, <2>5, <2>8, <2>9, ScanGoesOn
<1>9. CASE opts.container_id # "none"
  <2>1. \E i \in 2..n : Named(i)
    BY <1>3, <1>9 DEF Understood, NamedIs
  <2>2. n + 1 \in Begins
    <3>1. (n + 1) - 1 = n /\ n + 1 \in 2..Len(argv)
      BY <1>4, <1>5
    <3> QED BY <1>6, <2>1, <3>1 DEF Begins
  <2>3. Read + 1 \in Begins /\ StartsCommand(<<Head(rest)>>) /\ Head(rest) # "--"
    BY <1>1, <1>2, <1>4, <1>7, <1>9, <2>2
  <2> QED BY <1>1, <2>3, CommandBegins
<1> QED BY <1>8, <1>9

LEMMA ScanStep == ScanInv /\ [Next]_vars => ScanInv'
<1> SUFFICES ASSUME ScanInv, [Next]_vars PROVE ScanInv'
  OBVIOUS
<1>1. CASE UNCHANGED cliVars
  <2>1. Read' = Read /\ UNCHANGED <<argv, rest, mode, in_command, opts, outcome>>
    BY <1>1 DEF cliVars, Read
  <2>2. Parsed(Read, mode, in_command, opts)' <=> Parsed(Read, mode, in_command, opts)
    <3>1. Parsed(Read, mode, in_command, opts)' <=> Parsed(Read', mode', in_command', opts')
      BY <2>1, ParsedSame
    <3> QED BY <2>1, <3>1
  <2> QED BY <2>1, <2>2 DEF ScanInv
<1>2. CASE ScanArguments
  <2>1. ASSUME argv' = argv, outcome' \in {"printed", "error"} PROVE ScanInv'
    BY <2>1 DEF ScanInv
  <2>2. ASSUME NEW o \in TakesValue, NEW field \in Fields, NEW valid,
               WithValue(o, field, valid),
               \/ o = "-t" /\ field = "container_types"
               \/ o = "--apparmor" /\ field = "apparmor_mode" /\ valid = Apparmor
               \/ o = "--effective-user" /\ field = "effective_user" /\ valid = Users
                  /\ mode = "attach"
        PROVE  ScanInv'
    <3>1. CASE outcome' \in {"printed", "error"}
      BY <2>1, <2>2, <3>1 DEF WithValue, Ends, Sets
    <3>2. CASE outcome' \notin {"printed", "error"}
      <4>1. /\ outcome = "scan" /\ mode # "none" /\ rest # << >> /\ ~in_command
            /\ Head(rest) = o /\ Len(rest) # 1 /\ Takes(2) /\ rest[2] \in valid
            /\ opts' = [opts EXCEPT ![field] = rest[2]]
            /\ UNCHANGED <<argv, mode, in_command, outcome>>
        BY <2>2, <3>2 DEF WithValue, Option, Scanning, Ends, Sets
      <4>2. PICK value : value = rest[2]
        OBVIOUS
      <4>3. /\ rest[2] = value /\ opts' = [opts EXCEPT ![field] = value]
            /\ \/ o = "-t" /\ field = "container_types"
               \/ o = "--apparmor" /\ field = "apparmor_mode" /\ value \in Apparmor
               \/ o = "--effective-user" /\ field = "effective_user" /\ value \in Users
                  /\ mode = "attach"
        BY <2>2, <4>1, <4>2
      <4> QED BY <4>1, <4>3, OptionRead
    <3> QED BY <3>1, <3>2
  <2>3. CASE Subcommand
    BY <2>3, SubcommandRead
  <2>4. CASE CommandPart
    BY <2>4, CommandPartRead
  <2>5. CASE Help \/ UnknownOption
    BY <2>1, <2>5 DEF Help, UnknownOption, Ends
  <2>6. CASE TypeOption
    BY <2>2, <2>6 DEF TypeOption, TakesValue, Fields
  <2>7. CASE ApparmorOption
    BY <2>2, <2>7 DEF ApparmorOption, TakesValue, Fields
  <2>8. CASE EffectiveUser
    BY <2>2, <2>8 DEF EffectiveUser, TakesValue, Fields
  <2>9. CASE DashDash
    BY <2>9, DashDashRead
  <2>10. CASE Positional
    BY <2>10, PositionalRead
  <2>11. CASE EndOfArguments
    <3>1. /\ outcome = "scan" /\ mode # "none" /\ rest = << >>
          /\ outcome' = IF opts.container_id = "none" THEN "error" ELSE "ok"
          /\ UNCHANGED <<argv, rest, mode, in_command, opts>>
      BY <2>11 DEF EndOfArguments, Ends
    <3>2. CASE opts.container_id = "none"
      BY <2>1, <3>1, <3>2
    <3>3. CASE opts.container_id # "none"
      <4>1. Read' = Read
        BY <3>1 DEF Read
      <4>2. Parsed(Read, mode, in_command, opts)' <=> Parsed(Read, mode, in_command, opts)
        <5>1. Parsed(Read, mode, in_command, opts)' <=> Parsed(Read', mode', in_command', opts')
          BY <3>1, ParsedSame
        <5> QED BY <3>1, <4>1, <5>1
      <4> QED BY <3>1, <3>3, <4>1, <4>2 DEF ScanInv
    <3> QED BY <3>2, <3>3
  <2> QED BY <1>2, <2>3, <2>4, <2>5, <2>6, <2>7, <2>8, <2>9, <2>10, <2>11
         DEF ScanArguments, Scan
<1> QED BY <1>1, <1>2 DEF Next, vars, Lookup, ReadCaps, ReadOwner, ReadUidMap, ReadGidMap,
        ReadLabel, Reads, NewCommand, EnterContainer, SetGid, SetUid, DropCapabilities,
        InheritProfile, Exec, Step, Fails, BoxMoves, BoxEnds, Terminating

\* A command line that was understood says what the reference says of it.
LEMMA AsGiven ==
  ASSUME ScanInv, outcome = "ok"
  PROVE  /\ mode \in {"attach", "exec"}
         /\ opts.command_parts = GivenCommand
         /\ \E i \in 2..(Begin - 1) : Named(i) /\ opts.container_id = argv[i]
         /\ \A i \in 2..(Begin - 1) : argv[i] = "-h" => IsValue[i]
         /\ opts.apparmor_mode = Given("--apparmor", "auto") /\ opts.apparmor_mode \in Apparmor
         /\ opts.effective_user = Given("--effective-user", "none")
         /\ opts.effective_user = "none" \/ (mode = "attach" /\ opts.effective_user \in Users)
<1>1. /\ argv \in Seq(STRING \ {"none"}) /\ rest = << >> /\ mode # "none"
      /\ Parsed(Read, mode, in_command, opts) /\ opts.container_id # "none"
  BY DEF ScanInv
<1>2. Read = Len(argv) /\ Len(argv) \in Nat
  BY <1>1, LenProperties DEF Read
<1>3. mode \in {"attach", "exec"} /\ Parsed(Len(argv), mode, in_command, opts)
  BY <1>1, <1>2 DEF Parsed
<1>4. Begin - 1 \in Nat /\ Understood(Begin - 1, mode, opts)
  <2>1. CASE in_command
    <3>1. Understood(Begin - 1, mode, opts)
      BY <1>1, <1>3, <2>1 DEF Parsed
    <3> QED BY <3>1, <1>2 DEF Understood, Between
  <2>2. CASE ~in_command
    <3>1. Understood(Len(argv), mode, opts)
      BY <1>1, <1>3, <2>2 DEF Parsed
    <3>2. Begins = {}
      BY <1>2, <3>1 DEF Understood, Between, Begins
    <3>3. Begin - 1 = Len(argv)
      BY <1>2, <3>2 DEF Begin
    <3> QED BY <1>2, <3>1, <3>3
  <2> QED BY <2>1, <2>2
<1>5. PICK n \in Nat : n = Begin - 1
  BY <1>4
<1>6. Begin = n + 1 /\ Understood(n, mode, opts)
  <2>1. Begin \in Int
    <3>1. CASE Begins = {}
      BY <1>2, <3>1 DEF Begin
    <3>2. CASE Begins # {}
      <4>1. Begins \in SUBSET Nat
        BY DEF Begins
      <4>2. PICK b \in Begins : \A j \in Begins : b <= j
        BY <3>2, <4>1, LeastNatural
      <4>3. Begin = b
        BY <4>1, <4>2, BeginIs
      <4> QED BY <4>1, <4>3
    <3> QED BY <3>1, <3>2
  <2> QED BY <1>4, <1>5, <2>1
<1>7. opts.command_parts = GivenCommand
  <2>1. CASE in_command
    BY <1>1, <1>3, <2>1 DEF Parsed, GivenCommand, First
  <2>2. CASE ~in_command
    <3>1. Understood(Len(argv), mode, opts) /\ opts.command_parts = << >>
      BY <1>1, <1>3, <2>2 DEF Parsed
    <3>2. Begins = {}
      BY <1>2, <3>1 DEF Understood, Between, Begins
    <3> QED BY <3>1, <3>2 DEF GivenCommand
  <2> QED BY <2>1, <2>2
<1>8. \E i \in 2..(Begin - 1) : Named(i) /\ opts.container_id = argv[i]
  BY <1>1, <1>5, <1>6 DEF Understood, NamedIs
<1>9. \A i \in 2..(Begin - 1) : argv[i] = "-h" => IsValue[i]
  BY <1>5, <1>6 DEF Understood, Between
<1>10. opts.apparmor_mode = Given("--apparmor", "auto") /\ opts.apparmor_mode \in Apparmor
  BY <1>6, GivenIs DEF Understood
<1>11. opts.effective_user = Given("--effective-user", "none")
  BY <1>6, GivenIs DEF Understood
<1> QED BY <1>3, <1>6, <1>7, <1>8, <1>9, <1>10, <1>11 DEF Understood
-----------------------------------------------------------------------------
(***************************************************************************)
(* What was asked for on the command line.                                 *)
(***************************************************************************)
Chosen(parts) == CmdNew(IF mode = "exec" THEN exec_command(parts) ELSE parts, world.environ)

CommandInv ==
  /\ pc \in {"enter", "gid", "uid", "bounding", "profile", "exec"} =>
       cmd.argv = Chosen(opts.command_parts)
  /\ pc = "run" => self.argv = Chosen(opts.command_parts)

LEMMA CommandStep == Shape /\ CommandInv /\ [Next]_vars => CommandInv'
<1> SUFFICES ASSUME Shape, CommandInv, [Next]_vars PROVE CommandInv'
  OBVIOUS
<1>1. world' = world
  BY MomentsGrow
<1>2. ASSUME UNCHANGED cliVars
      PROVE  Chosen(opts.command_parts)' = Chosen(opts.command_parts)
  BY <1>1, <1>2 DEF Chosen, cliVars
<1> HIDE DEF Chosen
<1> USE DEF CommandInv, boxVars, runVars
<1>3. CASE ScanArguments
  BY <1>3 DEF ScanArguments
<1>4. CASE Lookup \/ Fails \/ BoxMoves \/ BoxEnds \/ UNCHANGED vars
  <2>1. UNCHANGED <<cliVars, cmd, self>> /\ pc' \in {pc, "caps", "failed"}
    BY <1>4 DEF Lookup, Fails, BoxMoves, BoxEnds, vars, Step
  <2> QED BY <1>2, <2>1
<1>5. CASE ReadCaps \/ ReadOwner \/ ReadUidMap \/ ReadGidMap \/ ReadLabel
  BY <1>5 DEF ReadCaps, ReadOwner, ReadUidMap, ReadGidMap, ReadLabel, Reads, Step
<1>6. CASE NewCommand
  <2>1. cmd'.argv = Chosen(opts.command_parts) /\ UNCHANGED cliVars /\ pc' = "enter"
    BY <1>6 DEF NewCommand, Step, Chosen
  <2> QED BY <1>2, <2>1
<1>7. CASE EnterContainer \/ SetGid \/ SetUid \/ DropCapabilities \/ InheritProfile
  <2>1. cmd'.argv = cmd.argv /\ UNCHANGED cliVars
    BY <1>7 DEF EnterContainer, SetGid, SetUid, DropCapabilities, InheritProfile, Step, Shape
  <2> QED BY <1>2, <1>7, <2>1
         DEF EnterContainer, SetGid, SetUid, DropCapabilities, InheritProfile, Step
<1>8. CASE Exec
  <2>1. self'.argv = cmd.argv /\ UNCHANGED cliVars /\ pc = "exec" /\ pc' = "run"
    BY <1>8 DEF Exec, Step, Shape
  <2> QED BY <1>2, <2>1
<1> QED BY <1>3, <1>4, <1>5, <1>6, <1>7, <1>8 DEF Next, Terminating

\* What runs is what the command line says, whichever of its forms is used.
THEOREM CommandGiven == Spec => []CommandAsGiven
<1>1. Init => CommandInv
  BY DEF Init, CommandInv
<1>2. Shape /\ ScanInv /\ CommandInv => CommandAsGiven
  <2> SUFFICES ASSUME Shape, ScanInv, CommandInv, pc = "run"
               PROVE  /\ self.argv = IF GivenCommand # << >> THEN GivenCommand
                                     ELSE IF mode = "exec" THEN <<"/bin/sh">>
                                     ELSE IF "SHELL" \in DOMAIN world.environ
                                     THEN <<world.environ["SHELL"], "-l">> ELSE <<"sh", "-l">>
                      /\ \E i \in 2..(Begin - 1) : Named(i) /\ opts.container_id = argv[i]
                      /\ \A i \in 2..(Begin - 1) : argv[i] = "-h" => IsValue[i]
    BY DEF CommandAsGiven
  <2>1. outcome = "ok"
    BY DEF Shape, Steps
  <2>2. self.argv = Chosen(GivenCommand)
    BY <2>1, AsGiven DEF CommandInv
  <2>3. <<"/bin/sh">> # << >>
    OBVIOUS
  <2> QED BY <2>1, <2>2, <2>3, AsGiven DEF Chosen, CmdNew, exec_command
<1> QED BY <1>1, <1>2, CommandStep, ScanInit, ScanStep, ShapeInit, ShapeStep, PTL DEF Spec

\* With `--apparmor off` the command keeps cntr's label, otherwise it has one that
\* the container's process had.
THEOREM CommandLabel == Spec => []LabelAsAsked
<1>1. Shape /\ ScanInv /\ LabelInv => LabelAsAsked
  <2> SUFFICES ASSUME Shape, ScanInv, LabelInv, pc = "run" PROVE LabelAsAsked
    BY DEF LabelAsAsked
  <2>1. opts.apparmor_mode = Given("--apparmor", "auto") /\ opts.apparmor_mode \in Apparmor
    BY AsGiven DEF Shape, Steps
  <2>2. Asked <=> world.enabled /\ Given("--apparmor", "auto") = "auto"
    BY <2>1 DEF Asked, Apparmor
  <2> QED BY <2>2 DEF LabelInv, LabelAsAsked, Labels
<1> QED BY <1>1, LabelInit, LabelStep, ScanInit, ScanStep, ShapeInit, ShapeStep, PTL DEF Spec

\* The environment is that of one program of the container, but for the PATH of
\* the mode and the HOME of the user that was asked for.
THEOREM CommandEnvironment == Spec => []EnvironmentOfContainer
<1>1. Shape /\ ScanInv /\ EnvInv => EnvironmentOfContainer
  <2> SUFFICES ASSUME Shape, ScanInv, EnvInv, pc = "run" PROVE EnvironmentOfContainer
    BY DEF EnvironmentOfContainer
  <2>1. /\ mode \in {"attach", "exec"}
        /\ opts.effective_user = Given("--effective-user", "none")
        /\ opts.effective_user = "none" \/ (mode = "attach" /\ opts.effective_user \in Users)
    BY AsGiven DEF Shape, Steps
  <2> QED BY <2>1, EnvAtRun DEF EnvironmentOfContainer
<1> QED BY <1>1, EnvInit, EnvStep, ScanInit, ScanStep, ShapeInit, ShapeStep, PTL DEF Spec
================================================================================
