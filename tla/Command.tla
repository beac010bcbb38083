-------------------------------- MODULE Command --------------------------------
(***************************************************************************)
(* What cntr executes: the choice of the command and the environment in    *)
(* src/cmd.rs.  An environment is a function from names to values.  cntr's *)
(* own is never cleared: Command::envs adds to what the process has.       *)
(***************************************************************************)
EXTENDS SequencesExt

\* f, and g for the names that f does not have.
Over(f, g) ==
  [v \in DOMAIN f \cup DOMAIN g |-> IF v \in DOMAIN f THEN f[v] ELSE g[v]]
One(name, value) == [v \in {name} |-> value]

\* exec names a command of its own before Cmd::new sees that there is none.
exec_command(command_parts) ==
  IF command_parts = << >> THEN <<"/bin/sh">> ELSE command_parts

\* Cmd::new: without a command, a login shell.
CmdNew(command_parts, own) ==
  IF command_parts # << >> THEN command_parts
  ELSE <<IF "SHELL" \in DOMAIN own THEN own["SHELL"] ELSE "sh", "-l">>

env_default(environment, name, value) == Over(environment, One(name, value))

\* Command::envs(environment) on top of what cntr itself was given.
envs(environment, own) == Over(environment, own)

\* PATH is cntr's, or the default; HOME is that of the effective user.
exec_in_overlay(environment, own, home) ==
  LET path == IF "PATH" \in DOMAIN own THEN own["PATH"] ELSE "default"
      e == Over(One("PATH", path), environment)
  IN envs(IF home = "none" THEN e ELSE Over(One("HOME", home), e), own)

\* PATH is the container's: of its process, of /etc/environment, or the default.
read_container_path(etc_environment) ==
  IF etc_environment = "none" THEN "default" ELSE etc_environment
PathInherited(environment, own, etc_environment) ==                  \* mutant
  envs(environment, own)
exec_in_container(environment, own, etc_environment) ==
  envs(env_default(environment, "PATH", read_container_path(etc_environment)), own)
==============================================================================
