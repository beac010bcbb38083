------------------------------- MODULE MCMounts -------------------------------
(***************************************************************************)
(* Small instances of Mounts: a host with /, /proc, /var above base_dir,   *)
(* /data with a mount of each kind below it, mounted before or after it,   *)
(* two mounts on one path, alone or below /data, a path with a blank and a *)
(* mount on base_dir; and a container with a mount below /usr.             *)
(***************************************************************************)
EXTENDS Mounts

Data == <<"data">>
Sub == <<"data", "sub">>
Disk == <<"my disk">>

BaseDir == <<"var", "cntr">>
LocaltimePath == <<"etc", "localtime">>
EscapedPaths == {Disk}

Common == <<Mount(<< >>, "root", "ok"), Mount(<<"proc">>, "proc", "special"),
            Mount(<<"var">>, "var", "ok")>>
SubMounts == {Mount(Sub, "sub", "ok"), Mount(Sub, "sub", "refused"),
              [Mount(Sub, "sub", "ok") EXCEPT !.idmapped = TRUE]}
Ordered(d, s) == {Common \o <<d, s>>, Common \o <<s, d>>}
HostTables ==
  UNION {Ordered(Mount(Data, "data", "ok"), s) : s \in SubMounts}
    \cup {Common \o <<Mount(Data, "data", "refused"), Mount(Sub, "sub", "ok")>>,
          Common \o <<Mount(Data, "data", "ok"), Mount(Data, "data2", "ok"),
                      Mount(Disk, "disk", "ok")>>,
          Common \o <<Mount(Data, "data", "ok"), Mount(Sub, "sub", "ok"),
                      Mount(Sub, "sub2", "ok")>>,
          Common \o <<Mount(BaseDir, "old", "ok")>>}
OneHost == {Common \o <<Mount(Data, "data", "ok")>>}

BoxTable == <<Mount(<< >>, "box", "ok"), Mount(<<"usr", "lib">>, "lib", "ok"),
              Mount(<<"hosts">>, "hosts", "ok")>>
BoxEntries == [usr |-> "dir", hosts |-> "file", tz |-> "symfile"]
AllEntries == [usr |-> "dir", hosts |-> "file", bin |-> "symdir", old |-> "dangling"]
==============================================================================
