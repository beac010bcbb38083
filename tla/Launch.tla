--------------------------------- MODULE Launch ---------------------------------
(***************************************************************************)
(* From the command line to the command: `attach` and `exec` as what they  *)
(* read and what they make of it.  The arguments are scanned (Cli), the    *)
(* container is looked up, `procfs::status` reads its capabilities, its    *)
(* owner, its id maps and its profile one after the other, `Cmd::new` its  *)
(* environment; then the ids, the bounding set, the profile and the        *)
(* environment of the command follow from that (Identity, Command).        *)
(*                                                                         *)
(* The container's process goes on meanwhile.  It is a sequence of lives:  *)
(* it may change its group and its user, give up capabilities, be mapped   *)
(* only now, or execute another program, and it may end, between any two   *)
(* of the reads.  Module Enter has the order of the calls on the way into  *)
(* the container, Attach the processes and how they fail.                  *)
(***************************************************************************)
EXTENDS Cli, Identity, Command

CONSTANTS
  Inputs,          \* the command lines and the worlds they meet
  Homes            \* the home directory of each of Users

VARIABLES
  world,           \* what is given, see Worlds
  now,             \* the life of the container's process
  alive,           \* it has not ended
  pc,              \* the next step, "run" or "failed"
  status,          \* ProcStatus
  cmd,             \* Cmd
  self             \* the process that becomes the command

boxVars == <<world, now, alive>>
runVars == <<status, cmd, self>>
vars == <<cliVars, boxVars, pc, runVars>>

(***************************************************************************)
(* A world is a record: cntr's own uid, gid, bounding set, label and       *)
(* environ; lives, a sequence of [uid, gid, caps, label, environ, uid_map, *)
(* gid_map] with the ids of the host; userns, whether the container is in  *)
(* another user namespace; last_cap; enabled, whether AppArmor is;         *)
(* etc_environment, the PATH of that file of the container or "none"; and  *)
(* localtime, whether the container has an /etc/localtime.                 *)
(***************************************************************************)
\* A map of ids is written once, and the kernel takes no lines that overlap; a
\* process stays in its user namespace.
IdLine == [inner : Ids, outer : Ids, length : Nat]
IdMap(map) ==
  /\ map \in Seq(IdLine)
  /\ \A i, j \in DOMAIN map : i < j =>
       \/ map[i].inner + map[i].length <= map[j].inner
       \/ map[j].inner + map[j].length <= map[i].inner
IsLife(m) == /\ m.uid \in Ids /\ m.gid \in Ids /\ m.label # "none"
             /\ IdMap(m.uid_map) /\ IdMap(m.gid_map)
IsWorld(w) ==
  /\ w.last_cap \in Nat /\ w.bounding \subseteq 0..w.last_cap
  /\ Len(w.lives) \in Nat \ {0}
  /\ \A i \in 1..Len(w.lives) : IsLife(w.lives[i])
  /\ \A i, j \in 1..Len(w.lives) : i < j =>
       /\ w.lives[i].uid_map \in {<< >>, w.lives[j].uid_map}
       /\ w.lives[i].gid_map \in {<< >>, w.lives[j].gid_map}

ASSUME LaunchAssumption ==
  /\ \A u \in Users : Homes[u] # "none"
  /\ \A i \in Inputs : i.argv \in Seq(STRING \ {"none"}) /\ IsWorld(i.world)

Init ==
  \E i \in Inputs :
    /\ CliInit(i.argv)
    /\ world = i.world
    /\ now = 1 /\ alive = TRUE
    /\ pc = "scan"
    /\ status = [effective_capabilities |-> {}, owner |-> <<0, 0>>, uid |-> 0,
                 gid |-> 0, lsm_profile |-> "none"]
    /\ cmd = [argv |-> << >>, environment |-> << >>]
    /\ self = [uid |-> world.uid, gid |-> world.gid, bounding |-> world.bounding,
               refused |-> FALSE, label |-> world.label,
               argv |-> << >>, environ |-> world.environ]
-----------------------------------------------------------------------------
Box == world.lives[now]

Step(from, to) ==
  pc = from /\ pc' = to /\ UNCHANGED <<cliVars, boxVars>>
ScanArguments ==
  /\ pc = "scan" /\ Scan
  /\ pc' = IF outcome' = "ok" THEN "lookup"
           ELSE IF outcome' = "scan" THEN "scan" ELSE "failed"
  /\ UNCHANGED <<boxVars, runVars>>

\* The check of the mount API and lookup_container_pid.
Lookup == Step("lookup", "caps") /\ alive /\ UNCHANGED runVars

(***************************************************************************)
(* procfs::status, by the parent, one file after the other.                *)
(***************************************************************************)
\* A file of /proc/<pid> gives a field of the status.
Reads(from, to, field, value) ==
  /\ Step(from, to) /\ alive
  /\ status' = [status EXCEPT ![field] = value]
  /\ UNCHANGED <<cmd, self>>

ReadCaps == Reads("caps", "owner", "effective_capabilities", Box.caps)
ReadOwner == Reads("owner", "uid_map", "owner", <<Box.uid, Box.gid>>)
ReadUidMap ==
  LET uid == translate_id(Box.uid_map, status.owner[1])
  IN uid # Overflow /\ Reads("uid_map", "gid_map", "uid", uid)
ReadGidMap ==
  LET gid == translate_id(Box.gid_map, status.owner[2])
  IN gid # Overflow /\ Reads("gid_map", "label", "gid", gid)
ReadLabel ==
  Reads("label", "cmd", "lsm_profile",
        read_profile(opts.apparmor_mode, world.enabled, Box.label, self.label))

(***************************************************************************)
(* The child.                                                              *)
(***************************************************************************)
NewCommand ==
  /\ Step("cmd", "enter") /\ alive
  /\ cmd' = [argv |-> CmdNew(IF mode = "exec" THEN exec_command(opts.command_parts)
                             ELSE opts.command_parts, world.environ),
             environment |-> Box.environ]
  /\ UNCHANGED <<status, self>>

\* The namespaces: with the user namespace comes a bounding set of its own.
\* In attach a copy of the container's local time may have been made.
EnterContainer ==
  /\ Step("enter", "gid")
  /\ self' = [self EXCEPT !.bounding = IF world.userns THEN 0..world.last_cap ELSE @]
  /\ \/ UNCHANGED cmd
     \/ /\ mode = "attach" /\ world.localtime
        /\ cmd' = [cmd EXCEPT !.environment = env_default(@, "TZ", "localtime")]
  /\ UNCHANGED status

\* setgid, then setuid, each with an id that the namespace must have.
SetGid ==
  /\ Step("gid", "uid")
  /\ IF world.userns
     THEN \E g \in make_kuid(Box.gid_map, status.gid) : self' = [self EXCEPT !.gid = g]
     ELSE UNCHANGED self
  /\ UNCHANGED <<status, cmd>>

SetUid ==
  /\ Step("uid", "bounding")
  /\ IF world.userns
     THEN \E u \in make_kuid(Box.uid_map, status.uid) : self' = [self EXCEPT !.uid = u]
     ELSE UNCHANGED self
  /\ UNCHANGED <<status, cmd>>

\* prctl may refuse, which is ignored: module Enter says when it must.
DropCapabilities ==
  /\ Step("bounding", "profile")
  /\ self' \in {[self EXCEPT !.refused = TRUE],
                [self EXCEPT !.bounding =
                   drop(@, status.effective_capabilities, world.last_cap)]}
  /\ UNCHANGED <<status, cmd>>

InheritProfile ==
  /\ Step("profile", "exec")
  /\ self' = [self EXCEPT !.label =
                IF status.lsm_profile = "none" THEN @ ELSE status.lsm_profile]
  /\ UNCHANGED <<status, cmd>>

Exec ==
  /\ Step("exec", "run")
  /\ self' = [self EXCEPT
       !.argv = cmd.argv,
       !.environ = IF mode = "attach"
         THEN exec_in_overlay(cmd.environment, @,
                IF opts.effective_user = "none" THEN "none" ELSE Homes[opts.effective_user])
         ELSE exec_in_container(cmd.environment, @, world.etc_environment)]
  /\ UNCHANGED <<status, cmd>>

\* Any of the steps may fail; the ones above cannot be taken when they must.
Fails ==
  /\ pc \notin {"scan", "run", "failed"}
  /\ pc' = "failed"
  /\ UNCHANGED <<cliVars, boxVars, runVars>>

(***************************************************************************)
(* The container.  What it does before the lookup is in its first life.    *)
(***************************************************************************)
LivesOn == alive /\ pc \notin {"scan", "run", "failed"}
BoxMoves ==
  /\ LivesOn /\ now < Len(world.lives)
  /\ now' = now + 1
  /\ UNCHANGED <<cliVars, world, alive, pc, runVars>>
BoxEnds ==
  /\ LivesOn
  /\ alive' = FALSE
  /\ UNCHANGED <<cliVars, world, now, pc, runVars>>
-----------------------------------------------------------------------------
Terminating == pc \in {"run", "failed"} /\ UNCHANGED vars

Next == \/ ScanArguments \/ Lookup
        \/ ReadCaps \/ ReadOwner \/ ReadUidMap \/ ReadGidMap \/ ReadLabel
        \/ NewCommand \/ EnterContainer \/ SetGid \/ SetUid
        \/ DropCapabilities \/ InheritProfile \/ Exec \/ Fails
        \/ BoxMoves \/ BoxEnds \/ Terminating

Spec == Init /\ [][Next]_vars
-----------------------------------------------------------------------------
(***************************************************************************)
(* Properties.                                                             *)
(***************************************************************************)
\* The lives the container's process has had since the lookup.
Moments == {world.lives[i] : i \in 1..now}

\* What runs is the command after the container's name, word for word, and
\* without one "[default: $SHELL]" (src/cli.rs:73), "[default: /bin/sh]"
\* (src/cli.rs:101): no option of cntr gets into it and none of its own is
\* taken by cntr, whichever way it is set off.  A request for help runs nothing.
CommandAsGiven ==
  pc = "run" =>
    /\ self.argv = IF GivenCommand # << >> THEN GivenCommand
                   ELSE IF mode = "exec" THEN <<"/bin/sh">>
                   ELSE IF "SHELL" \in DOMAIN world.environ
                   THEN <<world.environ["SHELL"], "-l">> ELSE <<"sh", "-l">>
    /\ \E i \in 2..(Begin - 1) : Named(i) /\ opts.container_id = argv[i]
    /\ \A i \in 2..(Begin - 1) : argv[i] = "-h" => IsValue[i]

\* In a user namespace the command has the uid and the gid the container's
\* process had, both at one moment, whatever the process does between the
\* reads; an id that a map it had did not hold is excepted.
UserOfContainer ==
  pc = "run" /\ world.userns =>
    \E m \in Moments :
      /\ self.uid = m.uid \/ \E k \in Moments : ~Mapped(k.uid_map, m.uid)
      /\ self.gid = m.gid \/ \E k \in Moments : ~Mapped(k.gid_map, m.gid)

\* Where prctl does not refuse, the command may gain the capabilities the
\* container's process had at one moment, and the two that cntr needs: none
\* above or below them, up to the last one the kernel knows.
CapsOfContainer ==
  pc = "run" /\ ~self.refused =>
    LET own == {CAP_SYS_CHROOT, CAP_SYS_PTRACE}
        all == IF world.userns THEN 0..world.last_cap ELSE world.bounding
    IN \E m \in Moments : self.bounding = (m.caps \cup own) \cap all

\* With `--apparmor off` the command keeps cntr's profile; otherwise it has one
\* that the container's process had (README.md:405).
LabelAsAsked ==
  pc = "run" =>
    IF world.enabled /\ Given("--apparmor", "auto") = "auto"
    THEN self.label \in {m.label : m \in Moments}
    ELSE self.label = world.label

\* "`exec` ... sets up the container's environment" (README.md:115): what one
\* program of the container had wins over cntr's own.  PATH is the host's in
\* attach and never in exec ("Avoid using host's PATH which may point to
\* binaries not present after chroot", src/cmd.rs:180); HOME is that of the
\* effective user, if there is one.
PathOfContainer(m) ==
  IF "PATH" \in DOMAIN m.environ THEN m.environ["PATH"]
  ELSE IF world.etc_environment # "none" THEN world.etc_environment ELSE "default"
EnvironmentOfContainer ==
  pc = "run" =>
    LET user == Given("--effective-user", "none")
    IN \E m \in Moments :
         /\ \A v \in DOMAIN m.environ \ {"PATH", "HOME"} : self.environ[v] = m.environ[v]
         /\ mode = "exec" => self.environ["PATH"] = PathOfContainer(m)
         /\ mode = "attach" /\ "PATH" \in DOMAIN world.environ
              => self.environ["PATH"] = world.environ["PATH"]
         /\ IF user # "none" THEN self.environ["HOME"] = Homes[user]
            ELSE "HOME" \in DOMAIN m.environ => self.environ["HOME"] = m.environ["HOME"]
=================================================================================
