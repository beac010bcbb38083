---------------------------------- MODULE Cli ----------------------------------
(***************************************************************************)
(* The command line of cntr: `run_with_args`, `parse_attach_args` and      *)
(* `parse_exec_args` of src/cli.rs, which walk over the arguments once,    *)
(* one step per argument.  An argument is a token; what the program asks   *)
(* of it is whether it begins with a dash and which option, subcommand,    *)
(* user, container type or AppArmor mode it names.                         *)
(***************************************************************************)
EXTENDS Integers, SequencesExt

CONSTANTS
  Users,           \* the names getpwnam_r knows
  Types,           \* the container types lookup_container_type knows
  Dashed           \* the arguments that begin with a dash

Apparmor == {"auto", "off"}

\* The options of cntr begin with a dash; "none" stands for what is not given.
ASSUME CliAssumption ==
  /\ {"-h", "--", "-t", "--apparmor", "--effective-user"} \subseteq Dashed
  /\ "none" \notin Users

VARIABLES
  argv,            \* the arguments after the program's name
  rest,            \* those the iterator has not returned yet
  mode,            \* the subcommand: "none", "attach" or "exec"
  in_command,      \* the rest belongs to the command
  opts,            \* what has been parsed
  outcome          \* "scan", then "ok", "printed" or "error"

cliVars == <<argv, rest, mode, in_command, opts, outcome>>

CliInit(a) ==
  /\ argv = a /\ rest = a
  /\ mode = "none"
  /\ in_command = FALSE
  /\ opts = [container_id |-> "none", container_types |-> "all",
             effective_user |-> "none", apparmor_mode |-> "auto",
             command_parts |-> << >>]
  /\ outcome = "scan"
-----------------------------------------------------------------------------
\* One argument is taken from the iterator, or with its value two.
Takes(n) == rest' = SubSeq(rest, n + 1, Len(rest))
Ends(how) == outcome' = how /\ UNCHANGED <<argv, mode, in_command, opts>>

\* No or an unknown subcommand, and those that only print.
Subcommand ==
  /\ outcome = "scan" /\ mode = "none"
  /\ IF rest = << >> THEN Ends("error") /\ UNCHANGED rest
     ELSE /\ Takes(1)
          /\ \/ /\ Head(rest) \in {"attach", "exec"}
                /\ mode' = Head(rest)
                /\ UNCHANGED <<argv, in_command, opts, outcome>>
             \/ Head(rest) \in {"help", "-h", "version"} /\ Ends("printed")
             \/ /\ Head(rest) \notin {"attach", "exec", "help", "-h", "version"}
                /\ Ends("error")

Scanning == outcome = "scan" /\ mode # "none" /\ rest # << >>
Option(o) == Scanning /\ ~in_command /\ Head(rest) = o
Sets(field, value) == /\ opts' = [opts EXCEPT ![field] = value]
                      /\ UNCHANGED <<argv, mode, in_command, outcome>>

CommandPart ==
  /\ Scanning /\ in_command
  /\ Takes(1)
  /\ Sets("command_parts", Append(opts.command_parts, Head(rest)))

Help == Option("-h") /\ Takes(1) /\ Ends("printed")

\* An option whose value is the next argument, whatever that looks like; it
\* must be one of the valid ones.
WithValue(o, field, valid) ==
  /\ Option(o)
  /\ IF Len(rest) = 1 THEN Takes(1) /\ Ends("error")
     ELSE Takes(2) /\ IF rest[2] \in valid THEN Sets(field, rest[2]) ELSE Ends("error")

TypeOption == WithValue("-t", "container_types", Types)
ApparmorOption == WithValue("--apparmor", "apparmor_mode", Apparmor)
EffectiveUser ==
  mode = "attach" /\ WithValue("--effective-user", "effective_user", Users)

StartsCommand(parts) ==
  /\ in_command' = TRUE
  /\ opts' = [opts EXCEPT !.command_parts = parts]
  /\ UNCHANGED <<argv, mode, outcome>>

DashDash == Option("--") /\ Takes(1) /\ StartsCommand(<< >>)

Known == {"-h", "-t", "--apparmor", "--"}
           \cup (IF mode = "attach" THEN {"--effective-user"} ELSE {})
UnknownOption ==
  /\ Scanning /\ ~in_command
  /\ Head(rest) \in Dashed \ Known
  /\ Takes(1) /\ Ends("error")

\* The first other argument is the container; the second begins the command,
\* without a "--".
SecondIsIgnored ==               \* mutant: in_command is not set
  /\ opts' = [opts EXCEPT !.command_parts = Append(@, Head(rest))]
  /\ UNCHANGED <<argv, mode, in_command, outcome>>
SecondStarts == StartsCommand(<<Head(rest)>>)

Positional ==
  /\ Scanning /\ ~in_command
  /\ Head(rest) \notin Dashed
  /\ Takes(1)
  /\ IF opts.container_id = "none"
     THEN Sets("container_id", Head(rest)) ELSE SecondStarts

\* No argument is left: the container must have been named.
EndOfArguments ==
  /\ outcome = "scan" /\ mode # "none" /\ rest = << >>
  /\ Ends(IF opts.container_id = "none" THEN "error" ELSE "ok")
  /\ UNCHANGED rest

Scan == \/ Subcommand \/ CommandPart \/ Help \/ TypeOption \/ ApparmorOption
        \/ EffectiveUser \/ DashDash \/ UnknownOption \/ Positional
        \/ EndOfArguments
-----------------------------------------------------------------------------
(***************************************************************************)
(* The reference: what the usage text says of a whole command line,        *)
(*   cntr attach [OPTIONS] <CONTAINER_ID> [-- <COMMAND>...]                *)
(* read off the positions of the arguments after the subcommand.           *)
(***************************************************************************)
TakesValue == {"-t", "--apparmor", "--effective-user"}

\* Argument i is the value of the option before it.
IsValue[i \in Nat] == i > 2 /\ argv[i - 1] \in TakesValue /\ ~IsValue[i - 1]

Named(i) == argv[i] \notin Dashed /\ ~IsValue[i]
\* The command begins after a "--", or with the second name.
Begins == {i \in 2..Len(argv) :
             \/ argv[i] = "--" /\ ~IsValue[i]
             \/ Named(i) /\ \E j \in 2..(i - 1) : Named(j)}
Begin == IF Begins = {} THEN Len(argv) + 1
         ELSE CHOOSE i \in Begins : \A j \in Begins : i <= j
GivenCommand == IF Begins = {} THEN << >>
                ELSE SubSeq(argv, IF argv[Begin] = "--" THEN Begin + 1 ELSE Begin,
                            Len(argv))
\* The last value given for option o before the command, or the default.
Given(o, default) ==
  LET at == {i \in 3..(Begin - 1) : IsValue[i] /\ argv[i - 1] = o}
  IN IF at = {} THEN default
     ELSE argv[CHOOSE i \in at : \A j \in at : j <= i]
================================================================================
