-------------------------- MODULE MCWorkloadFiles --------------------------
(***************************************************************************)
(* Values for TLC: the requests, as clients of the file API spell their    *)
(* paths and the mod worker makes its own.                                 *)
(***************************************************************************)
EXTENDS WorkloadFiles

Spellings ==
    Paths \cup {<<".">>, <<"..">>, <<"mods", "..">>, <<".", "m">>, <<"/">>, <<"/", "..", "m">>}

Entry(p, isDir) == [path |-> p, dir |-> isDir]
Files(dir, names) == [i \in DOMAIN names |-> Entry(dir \o <<names[i]>>, FALSE)]

\* An upload stores files in one directory; an archive has directories of its own, and
\* may be empty.
Uploads == {[op |-> "upload", path |-> dir, entries |-> Files(dir, names), to |-> Root] :
              dir \in UNION {SafePath(s) : s \in {<<>>, <<".", "mods">>}},
              names \in {<<"m", "mods">>, <<>>}}
Imports == {[op |-> "import", path |-> Root, entries |-> entries, to |-> Root] :
              entries \in {<<Entry(<<"mods">>, TRUE), Entry(<<"mods", "m">>, FALSE)>>,
                           <<Entry(<<"m">>, FALSE), Entry(<<"mods", "m">>, FALSE)>>,
                           <<Entry(<<"m">>, FALSE), Entry(<<"m">>, FALSE)>>, <<>>}}
Installs == {[op |-> "install", path |-> <<"mods">>, to |-> Root,
              entries |-> <<Entry(<<"mods", "m">>, FALSE)>>]}

Change(op, p, to) == [op |-> op, path |-> p, entries |-> <<>>, to |-> to]
Changes ==
    {Change("mkdir", p, Root) : p \in UNION {SafePath(s) : s \in {<<"m", "..", "m">>}}}
    \cup {Change("delete", p, Root) : p \in UNION {Deletable(s) : s \in Spellings}}
    \cup {Change("rename", <<"mods">>, <<"m">>), Change("rename", <<"m">>, <<"mods">>),
          Change("rename", <<"mods", "m">>, <<"m">>), Change("rename", <<"m">>, <<"mods", "m">>)}
    \cup {Change("uninstall", <<"mods", "m">>, Root)}

MCRequests == Uploads \cup Imports \cup Installs \cup Changes
=============================================================================
