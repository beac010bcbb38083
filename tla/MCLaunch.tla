-------------------------------- MODULE MCLaunch --------------------------------
(***************************************************************************)
(* Small instances of Launch: every command line of a subcommand and up to *)
(* MaxArgs arguments in one world, and a few command lines in every world. *)
(***************************************************************************)
EXTENDS Launch

CONSTANT MaxArgs

AllUsers == {"joe"}
AllTypes == {"podman"}
HomeOf == [u \in AllUsers |-> "home of joe"]
Options == {"-t", "--apparmor", "--effective-user", "--", "-h", "-x"}
Tokens == Options \cup AllUsers \cup AllTypes \cup {"off", "box", "ls"}

Subcommands == {"attach", "exec", "version", "run"}
Lines(set, n) ==
  {<<s>> \o t : s \in set, t \in UNION {[1..k -> Tokens] : k \in 0..n}}
CommandLines ==
  {<< >>} \cup Lines(Subcommands, 1) \cup Lines({"attach", "exec"}, MaxArgs)

\* An id map of three lines, one not written yet, and that of the host: ids
\* 0 to 4 of the first are 4, 5, 1, 2 and 6 outside; 0 and 3 are not mapped.
Line(inner, outer, length) == [inner |-> inner, outer |-> outer, length |-> length]
BoxMap == <<Line(0, 4, 2), Line(2, 1, 2), Line(4, 6, 1)>>
HostMap == <<Line(0, 0, MaxId)>>

LastCap == 5
AllCaps == 0..LastCap
BoxCaps == {0, 4}
Root == [uid |-> 4, gid |-> 4, caps |-> BoxCaps \cup {LastCap}, label |-> "unconfined",
         environ |-> [LANG |-> "box"], uid_map |-> BoxMap, gid_map |-> BoxMap]
Program == [HOME |-> "box home", LANG |-> "box 2", PATH |-> "box path", TZ |-> "box zone"]

\* The process of a container that only runs; one that changes its group, then
\* its user, and executes a program in a profile; one whose maps are written
\* after it has begun; one of a user that is not mapped; one without a user
\* namespace.
Changed == [Root EXCEPT !.gid = 6]
Dropped == [Changed EXCEPT !.uid = 6, !.caps = {}]
Executed == [Dropped EXCEPT !.label = "box", !.environ = Program]
Unmapped == [Root EXCEPT !.uid = 3, !.gid = 0]
NoMap == [Unmapped EXCEPT !.uid_map = << >>, !.gid_map = << >>]
OnHost == [Root EXCEPT !.uid = MaxId - 1, !.uid_map = HostMap, !.gid_map = HostMap]

Cntr == [uid |-> 0, gid |-> 0, bounding |-> AllCaps \ {1}, label |-> "unconfined",
         environ |-> [LANG |-> "host", PATH |-> "host path", SHELL |-> "zsh", TZ |-> "host zone"],
         lives |-> <<Root>>, userns |-> TRUE, last_cap |-> LastCap, enabled |-> TRUE,
         etc_environment |-> "none", localtime |-> TRUE]

\* cntr has a PATH or none, the container an /etc/environment or none.
Variants(w) ==
  {[w EXCEPT !.enabled = e, !.etc_environment = p, !.environ = v] :
     e \in BOOLEAN, p \in {"none", "etc path"}, v \in {Cntr.environ, [LANG |-> "host"]}}
Worlds ==
  UNION {Variants([Cntr EXCEPT !.lives = l]) :
           l \in {<<Root, Changed, Dropped, Executed>>, <<NoMap, Unmapped, Root>>}}
    \cup {[Cntr EXCEPT !.lives = <<OnHost, [OnHost EXCEPT !.label = "box"]>>, !.userns = FALSE]}

Box2 == <<"attach", "--effective-user", "joe", "box">>
AllInputs ==
  [argv : CommandLines, world : {Cntr}]
    \cup [argv : {<<"attach", "box">>, <<"exec", "box">>, Box2,
                  <<"exec", "--apparmor", "off", "box", "ls">>}, world : Worlds]
==============================================================================
