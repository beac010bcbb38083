# A TLA+ verification of cntr

cntr attaches a shell (`cntr attach`) or runs a command (`cntr exec`) in a
running container. It is a short-lived program of two or three processes that
talk through a pipe, a socket pair, signals, exit statuses and a PTY, and that
call the kernel in an order in which every call changes what the next ones may
do. This directory holds TLA+ modules of that behaviour, the TLC runs that check
them on small instances, and proofs, checked by TLAPS, of the safety properties of
each of them.

Source lines are those of the repository (`src/pty.rs:167`); `PROJECT.json` maps
every definition to the lines it models.

## Files

| file | what it is |
|---|---|
| `Relay.tla` | abstract: two one-way byte relays |
| `Pty.tla`, `MCPty.tla` | the forwarding loop of `src/pty.rs`, its instances |
| `Attach.tla` | the three processes of `cntr attach` |
| `JobControl.tla` | `wait_for_child` between child, terminal and shell |
| `Cgroup.tla` | `move_to` of `src/cgroup.rs` |
| `Enter.tla` | the child's way into the container, for attach and exec |
| `Mounts.tla`, `MCMounts.tla` | the mounts that attach assembles, its instances |
| `Cli.tla` | the command line, argument by argument |
| `Identity.tla` | id maps, capabilities and profiles as operators |
| `Command.tla` | command and environment as operators |
| `Launch.tla`, `MCLaunch.tla` | from the command line to the command: `Cli`, `Identity` and `Command` beside a container that changes, its instances |
| `PtyProofs.tla`, `AttachProofs.tla`, `JobControlProofs.tla`, `CgroupProofs.tla`, `EnterProofs.tla`, `MountsProofs.tla`, `LaunchProofs.tla` | theorems about the module in their name |
| `NaturalFacts.tla` | least and greatest number of a set, induction over a set of numbers |

Every run is `tlc -config <run>.cfg <module>`; `MCPty`, `MCMounts` and `MCLaunch` are
the modules of the `Pty*`, `Mounts*` and `Launch` runs, the other runs name their module
in their first word. The proofs are checked with `tlapm <module>Proofs.tla` and
`tlapm NaturalFacts.tla`.

## Inventory

**PTY forwarding** (`src/pty.rs`: `forward`, `shovel`, `FilePair`, `RawTty`).
State: two buffers with two offsets and a read/write state each, the saved mode of
the terminal, the last window size. Operations: poll with a timeout of 100 ms, read,
write, resize, raw mode on and off. It interacts with the user's terminal, the
kernel's PTY queues and the command on the slave side. Hard: partial writes, two
directions in one thread with blocking writes, a slave that is opened late, never,
or closed at any point, and errors anywhere. Correct if every byte is handed on once
and in order, nothing the command wrote is lost at its end, the terminal is restored,
and the loop ends when, and only when, the command is gone.

**Waiting and job control** (`wait_for_child`, `forward_pty_and_wait`). State: the
process states of parent and child, one pending stop report. Operations: waitpid, stop
oneself, continue the child, exit as the child did. Hard: Ctrl+Z and `fg` reach parent
and child one after the other, in any order around the system calls; signals without a
name or that the parent survives. Correct if the shell sees the child's status and a
stopped child is answered.

**Attach** (`src/attach/`): *parent* (`mod.rs`, `parent.rs`), *idmap helper*
(`idmap_helper.rs`), *child* (`child.rs`), and *descriptor passing* (`src/ipc.rs`).
State: who holds which end of the pipe and of the socket pair, the id maps of the
helper's user namespace, the descriptor the parent opened on it, the child's progress,
its wait status. Interaction: one byte from helper to parent, one message, perhaps with
the PTY master, from child to parent, SIGKILL and waitpid. Hard: each of the three can
fail or be killed between any two steps. Correct if mounts are only idmapped with a
complete user namespace, nobody waits for a dead process, no command starts after an
attach that has ended, and no helper stays behind.

**Exec** (`src/exec/mod.rs`). The parent opens the PTY, forks and forwards; the
child opens the slave and enters the container. There is no ready message, so the two
run without any synchronisation.

**Entering the container** (`src/container_setup.rs`, `src/namespace.rs`,
`src/capabilities.rs`, `src/lsm.rs`, `src/procfs/`, `src/container.rs`, `src/cmd.rs`,
and the same steps in `src/attach/child.rs`). State: namespaces, mounts, root, uid,
gid, capabilities, profile of the process. Hard: the order; the container may end
between two reads of `/proc`. Correct if no command runs half inside.

**Cgroups** (`src/cgroup.rs`). Picks a manager from `/proc/self/mountinfo` and writes
the pid into the container's cgroup. Hard: the shape of the lines, failed writes that
are only warnings, a container that moves or ends. Correct if a cgroup that can be
joined is joined.

**The mounts of attach** (`src/attach/child.rs`: `apply_idmapped_mounts`,
`setup_container_timezone`, `capture_and_attach_container_trees`,
`src/syscalls/mount_api.rs`). State: the mount tables of the host, of the child and of
the container, the namespace the child is in, the clones it holds. Hard: the table is
read while it is changed, mounts cover and contain each other, each call may fail on its
own, and the container goes on while its entries are listed and then captured. Correct
if nothing but the child's namespace changes, every path of the host shows the files it
had, and every entry of the container appears.

**What is read of the container** (`src/procfs/mod.rs`, `src/lsm.rs`,
`src/capabilities.rs`, `Cmd::new`). State: `ProcStatus` and `Cmd`, filled by a dozen
reads of `/proc`, by the parent and then by the child. Hard: the container's process
changes in between; numbers at the edges of an id map. Correct if the command runs as
what the container's process was.

**Command, command line, passwd, paths** (`src/cmd.rs`, `src/cli.rs`,
`src/passwd.rs`, `src/paths.rs`). Sequential parsing and merging of environments.
Correct if they compute what the manual says.

**Not part of the model**: `src/syscalls/` (wrappers, whose effect is in the modules
that use them), `src/errors.rs`, `src/lib.rs`, `src/bin/main.rs`, tests, packaging and
completions. The search for containers is in the external crate container-pid.

`PROJECT.json` lists the hazards of this code, each at its line, with the properties
that cover it or the reason why none does.

## The modules

### Relay and Pty

`Pty` has one action per step of `forward` and `shovel`. `pc` is the place in
`forward`; `cur` the pair the `for` loop has reached; `buf`, `read_offset`,
`write_offset`, `state` are the fields of the two `FilePair`s; `revents`,
`last_winsize` are locals of `shovel`. `Read(k)` and `Write(n)` are `FilePair::read`
and `FilePair::write` with the number of bytes the system call returned. As in the
code, `Read` goes on to `Write` without another poll, and a failing read or write of
either pair ends the loop.

Around it: `Type`, `Resize`, `Hangup` (user), `TermDrain` (terminal), `ProgRead`,
`ProgCallWrite`, `ProgWrite`, `ProgExit` (a single-threaded command, which cannot read
while it is blocked in a write), `SlaveOpen` (`attach_pts`). The kernel's rules in it:
a read of the master gives queued output first and EIO when the slave is closed; a
master whose slave was never opened reports no hangup; a master takes a write while its
queue has room, also before the slave is opened and after it is closed, and blocks
otherwise, forever when nobody reads; setting raw mode flushes typed input. `Restore` is
the destructor of `RawTty`, which ignores the error of `tcsetattr`: the call fails on a
terminal that hung up, and at will in `PtySafety`, and `tty` is then "refused". `Starts`
tells attach (the child opened the slave before it sent the master) from exec (the
child opens it later or ends before). A byte is its number
in its direction, so that lost, doubled and reordered bytes are visible.

The model assumes that stdin is a terminal, as attach and exec forward only then.
EINTR of poll is left out, for it repeats the call.

`Relay` is what the loop promises: per direction, the sink receives the next missing
bytes, and nothing after the end. `Pty` implements it by `finished <- pc = "done"`.

### Attach

Parent, helper and child with their program counters; `pipeR`, `pipeW`, `sockP`,
`sockC` are the sets of processes that hold an end, which decides when a reader sees
the end of the stream. `Following` lists the steps of `child::run`. Faults
(`ParentFails`, `HelperFails`, `ChildFails`, an early return of `forward`) and signals
(`KillParent`, `KillHelper`, `KillChild`) strike anywhere. `ErrorExit` is the `?` of
`attach`: it runs the destructor of an `IdmapHelper` that exists (`DropHelper`);
`WaitForChild` is `process::exit`, which runs none. `ForwardReturns` abstracts the
whole of `Pty` to when it returns, `ForwardBlocks` and `ForwardUnblocks` to when it is
behind a full input queue. In `ReadyCutOff` the kernel delivers the ready message
without its descriptor, because the parent is at its limit: the parent takes it for a
child without a PTY. The wait status of the child and what the parent makes of it are in
`JobControl`.

### JobControl

`wait_for_child` with waitpid, stop and continue as separate steps, and the signals of
Ctrl+Z and `fg` delivered to parent and child one by one. With a PTY the child has a
session of its own, and the parent first is in `forward`.

### Cgroup

`create_manager` and the managers as steps, beside a container that moves or ends. A
mountinfo line is modelled by the position of its fields after the optional ones,
because the code looks at fixed positions; everything else of a line is a value.
`NotInV2` is the container without a line "0::", for which v2 returns without joining.

### Enter

The two orders of calls as records from a call to the next one (`child_run`,
`exec_child`), the two loops over the namespaces, and in `Works` what a call needs: a
procfs of cntr's PID namespace and a live container to read `/proc/<pid>`, host
privileges to enter a namespace, some privilege to set ids and to chroot. What the
calls change is in their actions. The cgroup step is only the read of `/proc` here;
PTY and ready message are left out, they neither need nor change any of this. Assumed
of the container: with a mount and a PID namespace of its own it has a procfs of that PID
namespace mounted (`OwnProc`).

### Mounts

A path is a sequence of names; a mount table is the sequence of mounts in the order in
which they were attached, and what one sees at a path is the last mount at or above it
(`Seen`). `Clone` is `open_tree` with `RECURSIVE_CLONE`, `Attached` is `move_mount` into
the child's namespace, and into the host's while mounts are still shared; `Nth`,
`Picked` and `Under` cut a clone out of a table; `Accepted` is
the kernel's rule for `mount_setattr` on a whole clone: all mounts or none, and no mount
twice. `SkipLine`, `IdmapLine`, `RefusedLine` and `FailedLine` are the ways through one
line of `/proc/mounts`; the file shows the mounts attached meanwhile, so the loop meets
its own. `CreateBaseDir` makes the mount point of the tmpfs while the child is still in the
host's namespace, and `created` remembers on which file system each thing was made; the
tmpfs cannot be mounted where base_dir is not (`NoBaseDir`). `ReadDir`, `Stat`,
`Capture`, `Return`, `AttachEntry` are the passes over the container's entries,
`BoxReplaces` the container between them. An entry of the listing
has a type, or none on file systems that give none (`d_type`); `open_tree` follows
symbolic links, `statat` does not. `spoiled` remembers which paths a fault or the
container has hit: what is promised of the others.

### Cli, Identity, Command and Launch

`Cli` walks over the arguments as the two parsers do, which differ only in
`--effective-user`; `-h` stands for all options that print and leave, `-t` for its long
form. `Identity` has `translate_id` on ids of a fixed width, with the checked addition
that overflows, `drop` as the loop up to `last_cap`, and the choice of a profile.
`Command` has the choice of the command and the environments as functions from names to
values. All of it is operators, so that theorems can be stated about them.

`Launch` puts them in the order of the calls. The container's process is a sequence of
lives, and `BoxMoves` goes to the next one between any two reads: a `setgid` before a
`setuid`, capabilities given up, an executed program with another profile and
environment, id maps that are written only after the process has begun. `BoxEnds` ends
it. A world (what the environment, the id maps and the settings are) and a command line
are chosen at the start. `PathOfContainer` and the other references are written from
the documentation, over the arguments and the lives, and not from the code's order.

### Broken variants

Definitions marked *mutant* are wrong variants of the definition that follows them, of
the kind a bug would make (a dropped reset, a missing close, a swapped order).
`PROJECT.json` lists, for each property of a passing run, one that must violate it; no
specification uses them.

## Runs

Passing runs:

| run | bounds | shows |
|---|---|---|
| `PtySafety` | buffer 2, 3 bytes per direction, queues of 1 and 2 bytes, every call may fail, hangup, slave late or never | bytes once and in order, nothing lost at the end, terminal raw afterwards only when the kernel refused to restore it, refinement of `Relay` |
| `PtyLive` | buffer 2, 2 bytes, queues of 1, two window sizes, slave open first, late or never | `forward` returns when and only when the slave is closed; the size follows; the last output arrives |
| `Attach` | all options, one fault or signal per process at any point | idmap complete, helper reaped on error, no command after the end of attach, nobody stuck |
| `JobControl` | 2 exit codes; signals 9, 13 (ignored by Rust programs), 34 (without a name); 3 stops | the shell sees the child's status; a stop is answered |
| `Cgroup` | 2 v1 controllers and the unified hierarchy, mounted in any combination, 0 to 2 optional fields, 2 paths, one of them named like a controller | the unified cgroup is joined; errors only when the container ended |
| `Enter` | both modes, any subset of mnt, uts, pid, net, user differs, a kernel without mount namespaces, both kinds of users, fault and end of the container at any point | no command half inside; the command is reached |
| `Mounts` | 10 host tables of 4 to 6 mounts (nested in either order, stacked on one path, alone or below another mount, refused, already idmapped, escaped, below base_dir), a container with three mounts and three entries, at most `MaxSpoiled` = 2 paths hit by faults or by the container | own namespace only; no path shows other files or gets more layers than it has on the host; what can be idmapped is; only base_dir is created on the host; entries with submounts |
| `Launch` | every command line of `attach` and `exec` with up to `MaxArgs` = 4 arguments of 11, in one world; 4 command lines in 17 worlds with up to 4 lives; ids of 3 bits, capabilities 0 to 5 | the command given runs, as who the container's process was, with its environment |

Why the bounds are enough: a buffer of two bytes has full, partial and empty writes,
and three bytes make it wrap; queues of one byte are full after one write. The three
processes of `Attach` have no loops, so all of their interleavings are explored. Three
stops allow a stop during the answer to another one. In `Enter` uts and net stand for
cgroup and ipc, which have the same rules. Two mounts of a host are enough for one to
be above, below or on the other, before or after it, and a third for two on one path
to be cloned together; with two spoiled paths a fault and
a change of the container meet. Four arguments hold an option with its value, the
container and a command, in any order. An id map of three lines has ids before, between
and behind its lines, and lines that touch.

Runs that show a disagreement between the code and its documentation (each checks one
property, quoted from there):

| run | property | what happens |
|---|---|---|
| `AttachHelperLeak` | `HelperReapedAtExit` | `process::exit` skips the destructor that kills the helper |
| `CgroupV1` | `MovedOnV1` | the path is looked up among the controllers; nothing is joined, and no error |
| `EnterProfile` | `ProfileInherited` | exec writes its profile to `/proc/self` of the container's procfs, where the process does not exist, when the container has a mount and a PID namespace of its own |
| `MountsEntries` | `AllEntriesShown` | a symbolic link to a directory (`/bin` of a container with a merged `/usr`) is attached to a file, which the kernel refuses |

Further disagreements met while modelling, which the modules can show but no run does:

- In exec, a child that ends before it opened the slave leaves the parent polling
  forever: the master stays silent; hence `slave = "closed"` in `ChildGoneEndsForward`.
- A full input queue keeps `forward` in a write that nobody will ever relieve: a command
  that writes before it reads is then blocked on its own output, against "Forward data
  between the file pairs until one side is closed" (`src/pty.rs:167`), and after it has
  gone `forward` does not return, against "until child exits or PTY closes"
  (`src/pty.rs:276`); hence `InputBlocked` in the liveness properties.
- A process left behind on the PTY keeps attach running after the child has exited,
  against "blocks until child exits" (`src/pty.rs:262`); hence `~background` in
  `ChildEndsAttach`.
- A child on a PTY that is stopped while the parent forwards does not stop the parent
  (`src/pty.rs:267`); hence `pc # "forward"` in `StoppedChildAnswered`.
- A mountinfo line without optional fields is not recognised, and the null manager "for
  systems without cgroup support" (`src/cgroup.rs:58`) is taken.
- The hybrid manager falls back to v1 (`src/cgroup.rs:248`) only when
  `/proc/<pid>/cgroup` cannot be read, not when v2 cannot be written.
- exec changes the uid before it calls chroot, and loses the privilege when cntr's own
  uid is uid 0 of the container's user namespace and the container's user is another
  (`ChrootForbidden`).
- The command is not in the container's PID namespace (`src/container_setup.rs:30`), as
  setns moves only children; outside of user namespaces it keeps cntr's uid and gid
  (`README.md:477`).
- `--effective-user` does not reach the root file system: the clone of `/` contains
  `/proc`, for which the kernel refuses the idmap, and with it the whole clone
  (`src/attach/child.rs:118`), against "all files created on the host"
  (`src/attach/child.rs:52`); hence `Accepted(Clone(host, p))` in `Supported`. A mount
  below a covered one, idmapped first, has the covering one refused in the same way, and
  a path that `/proc/mounts` shows escaped is not found.
- PATH of attach is always cntr's, against "Set PATH if not already set"
  (`src/cmd.rs:144`).
- The environment of the command holds cntr's own as well, there is no `env_clear`:
  variables the container does not define leak into it, against "sets up the
  container's environment" (`README.md:115`).
- An id that the container's map does not hold is used as it is, also in a user
  namespace, where that number is another user or none; the comment says "This happens
  when the process is not in a user namespace" (`src/procfs/mod.rs:114`). It takes a
  process that entered the namespace without a mapping, or one whose map is not written
  yet; hence `Mapped` in `UserOfContainer`.
- `--effective-user` takes a name only, the help says "username or numeric uid[:gid]"
  (`src/cli.rs:65`).

## Fairness

`Pty`: the scheduler runs cntr; a read or write that can proceed does; the terminal
displays what it was given; the command reads its input unless it is blocked in a
write; the child of exec opens the slave or ends. Nobody has to type, resize, write or
exit. `Attach`: the three processes run; the command, what it leaves behind, faults and
signals owe nothing. `JobControl`: a parent that is not stopped runs, pending signals
are delivered; nobody has to type `fg`. All of it is weak fairness: a step the process
can take and goes on being able to take is taken, which any scheduler gives. The other
modules have only safety properties.

## Proofs

TLC checks the properties on the instances above; the theorems state them for every
value of the constants. Each invariant and each action property of a passing run is
stated by one, which TLC agreed with before it was proved and which follows from an
inductive invariant of its module.

| module | theorems | for every |
|---|---|---|
| `PtyProofs` | `TypeCorrect`, `NothingLost`, `Ordered`, `Complete`, `Restored`, `Refinement`, `Blocks`, `RestoredWithoutFault` | size of buffers and queues, number of bytes, set of window sizes |
| `AttachProofs` | `TypeCorrect`, `MapsComplete`, `ReapedOnError`, `NotReadyMeansDead`, `NothingStartsLate` | choice of options, with and without faults and signals |
| `JobControlProofs` | `TypeCorrect`, `Propagated` | set of exit codes and signals, number of stops |
| `CgroupProofs` | `TypeCorrect`, `Joined`, `Continues` | set of hierarchies, paths and line shapes |
| `EnterProofs` | `TypeCorrect`, `WhollyInside`, `BoundedSet`, `ConfinedCommand`, `OnlyNamedObstacles` | set of namespaces of the kernel |
| `MountsProofs` | `Inductive`, `TypeCorrect`, `SameFilesSeen`, `LayersBounded`, `AllIdmapped`, `PlacedMountPoints`, `ContainerShown`, `OthersUntouched` | table of the host and of the container, paths of any depth, set of entries |
| `LaunchProofs` | `CommandCaps`, `CommandUser`, `CommandGiven`, `CommandLabel`, `CommandEnvironment` | command line of any length, world, width of ids, set of names |

### Assumptions on the constants

Most of them are types (`BufAssumption`, `BytesAssumption`, `RoomAssumption`,
`SizesAssumption`, `StartsAssumption`, `FlagsAssumption`, `AttachFlags`,
`StatusAssumption`, `OptAssumption`, `ModeAssumption`, `KernelAssumption`,
`UserAssumption`, `EnterFlags`, `IdentityAssumption`): buffers and queues hold at least
a byte, exit codes are bytes, a mode is attach or exec. TLC evaluates all of them.
Those that say more:

- `MountAssumption`: no mount of the host is strictly below the local time, which is a
  file; the tables have a mount of `/` first, the entries are finitely many.
- `PathAssumption`: the root of a hierarchy, `/`, is not among the cgroups below it, and
  the unified hierarchy is no controller.
- `CliAssumption`: the options begin with a dash; "none", which stands for `None`, is no
  user's name.
- `LaunchAssumption`: no home and no argument is "none" either; a world is one the kernel
  can show (`IsWorld`): the bounding set is within `0..last_cap`, the lines of an id map
  do not overlap inside, and a map is written once.

### The forwarding loop

`IInv` of `Pty` is the conjunction of `TypeOK`, `NoByteLost`, `InOrder`,
`BufferHoldsNext` and `Phases`. `InOrder` alone is not inductive: to know that a write
appends the right bytes one has to know what is in the buffer between the offsets
(`BufferHoldsNext`), and to know that a read fills it with the right ones that it was
empty, which is the second part of `BufferHoldsNext`, and that all read before was
written (`NoByteLost`). `OutputComplete` needs that the loop ends with "closed" only
when the queue and the buffer are empty, and that a command that is gone writes no more
(`Phases`). There is a lemma per kind of fact: `TypeStep`, `BytesStep` (which splits
into `ReadBytes`, `WriteBytes` and the steps that touch no bytes, `QuietBytes`) and
`PhasesStep`, with a step for each action. The refinement maps `Type` and `ProgWrite`
to `Produce`, `RawTtyNew` to `Discard`, `Write` to `Deliver` (`WriteDelivers`), steps to
"done" to `Finish`, and all others to stuttering (`StepRefines`). `Blocks` holds where
no call fails and the terminal stays, which are its hypotheses, and the constants of
`PtyLive`; with a fault `forward` may return at any time. `Restored` says for all
constants that no way out skips the call that restores the terminal, and
`RestoredWithoutFault`, under the hypotheses of `Blocks`, that the call succeeds.

### Attach, job control, cgroups, entering

- `Attach`: that mounts are idmapped with a complete namespace rests on the one byte:
  the helper writes it after both maps, and the parent opens the namespace only with it
  (`HelperProgress`, `ByteAfterMaps`). That an error leaves no helper rests on who owns
  the `IdmapHelper` (`HelperOwned`), and that a socket at its end means a dead child on `Announced`: until its message the
  child holds its end, after it the message is in the socket.
- `JobControl`: `TypeOK` says with which report the parent is at which step, and with
  that `StatusPropagated` is inductive.
- `Cgroup`: the path that is written is one the container was in (`PathOnce`), and the
  manager has the parts that its choice promised (`ManagerKnown`).
- `Enter`: `OfMode` gives the calls of each mode; `Opening` and `Joining` are the
  invariants of the two loops over the namespaces; `Where` says in which mount namespace
  and root a call is made; `Privileges`, why each call has what it needs: the user
  namespace is entered last, and after it only the change of the uid takes privileges.

### The mounts

The loop over `/proc/mounts` changes the table it reads. `Extends` and `SameView` say
that the child's table is the host's with more behind it and shows the same file
systems; `CopiedOnce`, that there is an injective map from the mounts the loop attached
to the host's mounts at the same paths, from which follow `OneLayer` and the bound of
twice the host's mounts, with which the loop ends; `IdmapProgress`, that a mount which
can be idmapped either is hidden by its idmapped copy or waits for its line with nothing
attached below it, for a mount below would be idmapped already and make the kernel refuse
the clone above it. `LineOK` ties the line to the table. `OnTmpfs` says which file system
lies at base_dir at each step, the host's own until the tmpfs is mounted, from which
follows where things are created (`PlacedMountPoints`). `OnTmpfs`, `TreesOK` and
`EntriesOK` follow an entry of the container through the listing, the capture and the
attaching. Most of the lemmas are about `Seen`, `Clone` and `Joined`: what one sees
after mounts are attached at, above and beside a path (`CloneShows`, `PutShows`,
`PutHides`, `PutBack`).

The proof showed that an earlier form of `OneLayer`, at most one layer on each path, was
false: two mounts stacked on one path below an idmapped one are cloned together and give
two. None of the host tables had that; now one has, and the property counts the host's
own layers.

### From the command line to the command

Each property has an invariant of its own over `Shape`, the order of the calls:
`CapsInv`, `LabelInv` and `EnvInv` say of which moment of the container's process what
was read is, and `UserInv` that an id has gone through a map of one moment and back
through that of a later one. `ThereAndBack` is the fact about `translate_id` for all
maps without overlap: what it makes of an id that the map holds is never an overflow,
and the kernel maps it back to that id; `OneMap`, that two moments have the same map or
an empty one.

`ScanInv` relates the two parsers to the reference that `CommandAsGiven` uses, which is
written over all of the arguments: after some of them the modes and options are those the reference
reads in that part (`Parsed`), with a lemma per kind of argument (`OptionRead`,
`SubcommandRead`, `CommandPartRead`, `CommandBegins`, `DashDashRead`,
`PositionalRead`). Which argument is the value of the one before it is a recursive
function of the position (`IsValue`); `IsValueDef` proves that it exists, by the parity
of the run of options that ends there.

### Induction, and what is left to TLC

The library's induction theorems have an operator as parameter, which the provers
cannot instantiate. `NaturalFacts` states induction for a set of numbers instead
(`NaturalInduction`) and proves it from the least element of a set (`LeastNatural`);
that is enough here.

Only model-checked:

- all liveness properties (`WindowFollows`, `OutputForwarded`, `ChildGoneEndsForward`,
  `ParentNeverStuck`, `ChildEndsAttach`, `StoppedChildAnswered`): fairness and ENABLED
  are beyond the prover;
- the properties of the runs that show a disagreement, which are false.

## Plan

Done, in this order: the forwarding loop with its abstract specification and proofs;
the processes of attach; job control; cgroups; entering the container; the mounts;
command line, reads of the container and command; the proofs of all safety properties.

Next: `Session`, `Attach` and `Pty` composed: who gets a hangup when parent or child
dies, an early error of `forward` before `wait_for_child`, the master inherited by the
command. Abstract specification: a remote command with a status and two relays, and the
proof that the session implements it.

## Not modelled

The search for containers (the crate container-pid), the choice of base_dir
(`src/paths.rs`, one expression), the probe of the mount API and `fork`
(`src/syscalls/`), formatting of errors, tests and packaging. A pid that is used again
after the container has ended is left out, because the code has no means against it.
