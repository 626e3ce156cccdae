--------------------------- MODULE WorkloadFiles ---------------------------
(***************************************************************************)
(* The data directory of one workload: requests of the file API, mod jobs, *)
(* several at a time, each a sequence of calls to the file system.  A file *)
(* is opened, which empties it, and then written; whoever has it open goes *)
(* on writing when it is renamed or removed.  A write may fail half-way,   *)
(* a disk that fails it may fail the removal too, and the daemon may crash.*)
(***************************************************************************)
EXTENDS Integers, Sequences, SequencesExt

CONSTANTS Clients,       \* names for the requests and jobs under way at one time
          Names,         \* of directories and files
          MaxDepth,      \* bound: names in a path
          Inodes,        \* as many as the disk has room for
          Requests,      \* what may be asked for
          MaxRequests,   \* bound: requests and jobs
          MaxTroubles    \* bound: failed downloads and writes, crashes

ASSUME FilesAssumption ==
    /\ MaxDepth \in Nat /\ MaxRequests \in Nat /\ MaxTroubles \in Nat
    /\ 0 \notin Inodes   \* 0 is no inode

Root == <<>>
Paths == UNION {[1 .. n -> Names] : n \in 0 .. MaxDepth}
Absent == -2
Torn == -1
Empty == 0

\* An upload, an archive and an install store entries in turn, the others change the
\* tree: that of a rename is moved from "path" to "to".
Entries == [path : Paths, dir : BOOLEAN]
StoringOps == {"upload", "import", "install"}
ChangingOps == {"mkdir", "delete", "rename", "uninstall"}
Stores == {r \in Requests : r.op \in StoringOps}

\* A mod is one file.
ASSUME RequestsAssumption ==
    /\ Requests # {}
    /\ Requests \subseteq [op : StoringOps \cup ChangingOps, path : Paths, to : Paths,
                           entries : Seq(Entries)]
    /\ \A r \in Requests : r.op = "install" => Len(r.entries) = 1 /\ ~r.entries[1].dir

VARIABLES dirs,          \* the directories there are
          link,          \* the inode of each file, 0 where there is none
          content,       \* of an inode: Empty, Torn or the request that wrote it
          req, no,       \* what a client asks for, and the number of the request
          at,            \* the call it makes next, or "idle"
          nth,           \* the entry it has come to
          fd,            \* the inode it has open, or 0
          outcome,       \* how a client's last request ended, "none" if by a crash
          requests, troubles,
          touched,       \* history: whether another request has meddled with this one
          before         \* history: the files' contents when the request began

vars == <<dirs, link, content, req, no, at, nth, fd, outcome, requests, troubles,
          touched, before>>
treeVars == <<dirs, link, content>>
asked == <<req, no, requests, touched, before>>

Parent(p) == Front(p)
Under(p) == {q \in Paths : IsPrefix(p, q)}
Above(p) == {q \in Paths : IsPrefix(q, p) /\ q # p}
IsFile(p) == link[p] # 0
ContentAt(p) == IF IsFile(p) THEN content[link[p]] ELSE Absent

-----------------------------------------------------------------------------
(* Paths.  A request spells a path as components, "." and ".." among them, *)
(* with "/" in front of an absolute one; "" has none.  (A path that climbs *)
(* out of the root and names the root's own directory again is left out.)  *)

\* filepath.Clean: "." goes, and ".." takes the component before it, if there is one.
\* Above "/" there is nothing to climb to.
Clean(spelt) ==
    FoldLeft(LAMBDA path, x :
                 IF x \in {".", "/"} \/ (x = ".." /\ path = <<>> /\ spelt[1] = "/") THEN path
                 ELSE IF x = ".." /\ path # <<>> /\ Last(path) # ".." THEN Front(path)
                 ELSE Append(path, x),
             <<>>, spelt)

\* safePath refuses what leaves the root.
SafePath(spelt) == IF Clean(spelt) # <<>> /\ Head(Clean(spelt)) = ".." THEN {} ELSE {Clean(spelt)}

\* delete refuses the root, spelt "" or "/"; by another spelling it goes.
Deletable(spelt) == IF spelt \in {<<>>, <<"/">>} THEN {} ELSE SafePath(spelt)

-----------------------------------------------------------------------------
Contents == {Torn, Empty} \cup 1 .. MaxRequests

\* The directories and files make up a tree, and a file has an inode of its own.
Tree ==
    /\ dirs \subseteq Paths
    /\ \A p \in dirs : Above(p) \subseteq dirs
    /\ \A p \in Paths : IsFile(p) => p \notin dirs /\ Above(p) \subseteq dirs
    /\ \A p, q \in Paths : IsFile(p) /\ link[p] = link[q] => p = q

TypeOK ==
    /\ Tree
    /\ link \in [Paths -> Inodes \cup {0}]
    /\ content \in [Inodes -> Contents]
    /\ req \in [Clients -> Requests]
    /\ no \in [Clients -> 0 .. MaxRequests]
    /\ at \in [Clients -> {"idle", "mkdir", "fetch", "open", "write", "unlink", "spoilt", "change"}]
    /\ nth \in [Clients -> Nat \ {0}]
    /\ \A c \in Clients : at[c] \in {"open", "write", "unlink", "spoilt"} => nth[c] \in DOMAIN req[c].entries
    /\ fd \in [Clients -> Inodes \cup {0}]
    /\ \A c \in Clients : fd[c] # 0 <=> at[c] \in {"write", "unlink", "spoilt"}
    /\ outcome \in [Clients -> {"none", "ok", "failed"}]
    /\ requests \in 0 .. MaxRequests /\ troubles \in 0 .. MaxTroubles
    /\ touched \in [Clients -> BOOLEAN]
    /\ before \in [Clients -> Seq(Contents \cup {Absent})]

Init ==
    /\ dirs \in {{}, {Root}}
    /\ link = [p \in Paths |-> 0] /\ content = [i \in Inodes |-> Empty]
    /\ req = [c \in Clients |-> CHOOSE r \in Requests : TRUE]
    /\ at = [c \in Clients |-> "idle"] /\ nth = [c \in Clients |-> 1]
    /\ fd = [c \in Clients |-> 0] /\ outcome = [c \in Clients |-> "none"]
    /\ no = [c \in Clients |-> 0]
    /\ requests = 0 /\ troubles = 0
    /\ touched = [c \in Clients |-> FALSE]
    /\ before = [c \in Clients |-> <<>>]

-----------------------------------------------------------------------------
(* A request begins, and meddles with those whose paths lead to its own or *)
(* the other way, or which others have meddled with: a rename may have     *)
(* taken the file that one of them writes to where this one goes.          *)

Targets(r) == IF r \in Stores THEN {r.entries[i].path : i \in DOMAIN r.entries}
              ELSE {r.path} \cup (IF r.op = "rename" THEN {r.to} ELSE {})
Meddle(r, s) == \E p \in Targets(r), q \in Targets(s) : IsPrefix(p, q) \/ IsPrefix(q, p)

Begin(c, r) ==
    /\ at[c] = "idle" /\ requests < MaxRequests
    /\ requests' = requests + 1
    /\ req' = [req EXCEPT ![c] = r] /\ no' = [no EXCEPT ![c] = requests + 1]
    /\ at' = [at EXCEPT ![c] = IF r \in Stores THEN "mkdir" ELSE "change"]
    /\ outcome' = [outcome EXCEPT ![c] = "none"]
    /\ LET met == {d \in Clients \ {c} : at[d] # "idle" /\ (touched[d] \/ Meddle(r, req[d]))}
       IN touched' = [d \in Clients |-> IF d = c THEN met # {} ELSE touched[d] \/ d \in met]
    /\ before' = [before EXCEPT ![c] = [i \in DOMAIN r.entries |-> ContentAt(r.entries[i].path)]]
    /\ UNCHANGED <<treeVars, nth, fd, troubles>>

Go(c, next) ==
    at' = [at EXCEPT ![c] = next] /\ UNCHANGED <<asked, outcome>>

\* An answer or a return; what the client had open is closed.
End(c, result) ==
    /\ at' = [at EXCEPT ![c] = "idle"] /\ outcome' = [outcome EXCEPT ![c] = result]
    /\ nth' = [nth EXCEPT ![c] = 1] /\ fd' = [fd EXCEPT ![c] = 0]
    /\ UNCHANGED asked

Trouble == troubles < MaxTroubles /\ troubles' = troubles + 1

\* os.MkdirAll.
CanMake(p) == \A q \in Paths : IsPrefix(q, p) => ~IsFile(q)
Made(p) == dirs \cup {q \in Paths : IsPrefix(q, p)}

MkdirAll(c) ==
    /\ at[c] = "mkdir"
    /\ \/ /\ CanMake(req[c].path)
          /\ dirs' = Made(req[c].path)
          /\ Go(c, "fetch")
          /\ UNCHANGED <<nth, fd>>
       \/ ~CanMake(req[c].path) /\ End(c, "failed") /\ UNCHANGED dirs
    /\ UNCHANGED <<link, content, troubles>>

\* ParseMultipartForm and zip.NewReader of an upload or an archive, and the GET of a
\* mod: the files arrive, or the request is refused before any of them is opened.  An
\* upload of no files is refused too, an archive without any is not.
Fetch(c) ==
    /\ at[c] = "fetch"
    /\ \/ req[c].entries # <<>> /\ Go(c, "open") /\ UNCHANGED <<nth, fd, troubles>>
       \/ req[c].entries = <<>> /\ req[c].op = "import" /\ End(c, "ok") /\ UNCHANGED troubles
       \/ req[c].entries = <<>> /\ req[c].op # "import" /\ End(c, "failed") /\ UNCHANGED troubles
       \/ Trouble /\ End(c, "failed")
    /\ UNCHANGED treeVars

Spare == {i \in Inodes : (\A p \in Paths : link[p] # i) /\ (\A d \in Clients : fd[d] # i)}

\* The entry the client has come to.
This(c) == req[c].entries[nth[c]]

\* The entry is done with: the next one is opened, or the request answered.
NextEntry(c) ==
    IF nth[c] < Len(req[c].entries)
    THEN Go(c, "open") /\ nth' = [nth EXCEPT ![c] = @ + 1] /\ fd' = [fd EXCEPT ![c] = 0]
    ELSE End(c, "ok")

\* An archive's directories are made without a look at the error.
EntryDir(c) ==
    /\ at[c] = "open" /\ This(c).dir
    /\ dirs' = IF CanMake(This(c).path) THEN Made(This(c).path) ELSE dirs
    /\ NextEntry(c)
    /\ UNCHANGED <<link, content, troubles>>

\* os.Create, in an archive after an os.MkdirAll whose error is not looked at.
EntryDirs(c, p) ==
    IF req[c].op = "import" /\ CanMake(Parent(p)) THEN Made(Parent(p)) ELSE dirs

\* What is there loses its content; what is not takes room on the disk.
CanOpen(p) == Parent(p) \in dirs' /\ p \notin dirs' /\ (IsFile(p) \/ Spare # {})
Opened(c, p) ==
    LET i == IF IsFile(p) THEN link[p] ELSE CHOOSE j \in Spare : TRUE IN
    /\ link' = [link EXCEPT ![p] = i] /\ content' = [content EXCEPT ![i] = Empty]
    /\ fd' = [fd EXCEPT ![c] = i]

\* A mutant of Open: an upload empties all of its files first.
OpenAll(c) ==
    LET p == This(c).path
        rest == {req[c].entries[i].path : i \in nth[c] .. Len(req[c].entries)}
    IN
    /\ at[c] = "open" /\ ~This(c).dir
    /\ dirs' = EntryDirs(c, p)
    /\ \/ /\ CanOpen(p)
          /\ link' = [link EXCEPT ![p] = IF IsFile(p) THEN link[p] ELSE CHOOSE j \in Spare : TRUE]
          /\ content' = [i \in Inodes |-> IF \E q \in rest : link'[q] = i THEN Empty ELSE content[i]]
          /\ fd' = [fd EXCEPT ![c] = link'[p]]
          /\ Go(c, "write") /\ UNCHANGED nth
       \/ ~CanOpen(p) /\ End(c, "failed") /\ UNCHANGED <<link, content>>
    /\ UNCHANGED troubles

Open(c) ==
    LET p == This(c).path IN
    /\ at[c] = "open" /\ ~This(c).dir
    /\ dirs' = EntryDirs(c, p)
    /\ \/ CanOpen(p) /\ Opened(c, p) /\ Go(c, "write") /\ UNCHANGED nth
       \/ ~CanOpen(p) /\ End(c, "failed") /\ UNCHANGED <<link, content>>
    /\ UNCHANGED troubles

\* io.Copy.  What another request writes to the same file meanwhile is mixed up
\* with it.
Copied(c) ==
    LET i == fd[c] IN
    \E x \in {no[c]} \cup (IF content[i] \in {Empty, no[c]} THEN {} ELSE {Torn}) :
        content' = [content EXCEPT ![i] = x]

CopyFails(c) == Trouble /\ content' = [content EXCEPT ![fd[c]] = Torn]

\* A mutant of Write: what an upload could write of a file will do.
WriteIgnoringErrors(c) ==
    /\ at[c] = "write"
    /\ \/ Copied(c) /\ NextEntry(c) /\ UNCHANGED troubles
       \/ CopyFails(c) /\ NextEntry(c)
    /\ UNCHANGED <<dirs, link>>

\* A mutant of Write: a failed download stays.
WriteLeavingDownload(c) ==
    /\ at[c] = "write"
    /\ \/ Copied(c) /\ NextEntry(c) /\ UNCHANGED troubles
       \/ CopyFails(c) /\ End(c, "failed")
    /\ UNCHANGED <<dirs, link>>

\* The download of a mod may break off, or the disk fail: "unlink" and "spoilt".
Write(c) ==
    /\ at[c] = "write"
    /\ \/ Copied(c) /\ NextEntry(c) /\ UNCHANGED troubles
       \/ CopyFails(c) /\ req[c].op # "install" /\ End(c, "failed")
       \/ /\ CopyFails(c) /\ req[c].op = "install" /\ UNCHANGED <<nth, fd>>
          /\ Go(c, "unlink") \/ Go(c, "spoilt")
    /\ UNCHANGED <<dirs, link>>

\* os.Remove, which takes a file or an empty directory.
BelowFile(p) == \E q \in Above(p) : IsFile(q)
Full(p) == p \in dirs /\ \E x \in Under(p) \ {p} : x \in dirs \/ IsFile(x)
Removable(p) == ~BelowFile(p) /\ ~Full(p)
Removed(p) == link' = [link EXCEPT ![p] = 0] /\ dirs' = dirs \ {p}

\* A mutant of Unlink: the download's directory is cleared instead of the file.
UnlinkAll(c) ==
    /\ at[c] \in {"unlink", "spoilt"}
    /\ link' = [p \in Paths |-> IF p \in Under(req[c].path) THEN 0 ELSE link[p]]
    /\ End(c, "failed")
    /\ UNCHANGED <<dirs, content, troubles>>

\* After a failed download what has its name is removed, whoever made it; that this
\* fails is not looked at, and it may where the disk has failed before.
Unlink(c) ==
    LET p == This(c).path IN
    /\ at[c] \in {"unlink", "spoilt"}
    /\ \/ Removable(p) /\ Removed(p)
       \/ (~Removable(p) \/ at[c] = "spoilt") /\ UNCHANGED <<dirs, link>>
    /\ End(c, "failed")
    /\ UNCHANGED <<content, troubles>>

-----------------------------------------------------------------------------
(* Requests of a single call.                                              *)

Mkdir(c) ==
    /\ at[c] = "change" /\ req[c].op = "mkdir"
    /\ IF CanMake(req[c].path) THEN dirs' = Made(req[c].path) /\ End(c, "ok")
       ELSE End(c, "failed") /\ UNCHANGED dirs
    /\ UNCHANGED <<link, content, troubles>>

\* os.RemoveAll, which fails below a file.
Delete(c) ==
    /\ at[c] = "change" /\ req[c].op = "delete"
    /\ \/ /\ ~BelowFile(req[c].path)
          /\ dirs' = dirs \ Under(req[c].path)
          /\ link' = [p \in Paths |-> IF p \in Under(req[c].path) THEN 0 ELSE link[p]]
          /\ End(c, "ok")
       \/ BelowFile(req[c].path) /\ End(c, "failed") /\ UNCHANGED <<dirs, link>>
    /\ UNCHANGED <<content, troubles>>

\* os.Rename refuses to replace a directory, and replaces a file by a file.  What is at
\* x afterwards was at Origin(p, q, x) before.
CanMove(p, q) ==
    /\ Parent(q) \in dirs /\ q \notin dirs
    /\ IsFile(p) \/ (p \in dirs /\ ~IsFile(q) /\ ~IsPrefix(p, q))
Origin(p, q, x) == IF x \in Under(q) THEN p \o SubSeq(x, Len(q) + 1, Len(x)) ELSE x
Stays(p, q, x) == x \in Under(q) \/ x \notin Under(p)
MovedLink(p, q) ==
    [x \in Paths |-> IF Stays(p, q, x) /\ Origin(p, q, x) \in Paths THEN link[Origin(p, q, x)] ELSE 0]
MovedDirs(p, q) == {x \in Paths : Stays(p, q, x) /\ Origin(p, q, x) \in dirs}

\* The bound on paths holds of those of the files moved, too.
Fits(p, q) == \A x \in Under(p) : x \in dirs \/ IsFile(x) => Len(q) + Len(x) - Len(p) <= MaxDepth

Rename(c) ==
    LET p == req[c].path
        q == req[c].to
    IN
    /\ at[c] = "change" /\ req[c].op = "rename"
    /\ \/ /\ CanMove(p, q) /\ Fits(p, q)
          /\ link' = MovedLink(p, q) /\ dirs' = MovedDirs(p, q)
          /\ End(c, "ok")
       \/ ~CanMove(p, q) /\ End(c, "failed") /\ UNCHANGED <<dirs, link>>
    /\ UNCHANGED <<content, troubles>>

\* RemoveFile: nothing there is no error, but something in it is.
Uninstall(c) ==
    LET p == req[c].path IN
    /\ at[c] = "change" /\ req[c].op = "uninstall"
    /\ \/ Removable(p) /\ Removed(p) /\ End(c, "ok")
       \/ ~Removable(p) /\ End(c, "failed") /\ UNCHANGED <<dirs, link>>
    /\ UNCHANGED <<content, troubles>>

Crash ==
    /\ Trouble
    /\ \E c \in Clients : at[c] # "idle"
    /\ at' = [c \in Clients |-> "idle"] /\ nth' = [c \in Clients |-> 1]
    /\ fd' = [c \in Clients |-> 0] /\ outcome' = [c \in Clients |-> "none"]
    /\ UNCHANGED <<treeVars, asked>>

Client(c) ==
    \/ MkdirAll(c) \/ Fetch(c) \/ EntryDir(c) \/ Open(c) \/ Write(c) \/ Unlink(c)
    \/ Mkdir(c) \/ Delete(c) \/ Rename(c) \/ Uninstall(c)

Next == Crash \/ \E c \in Clients : Client(c) \/ \E r \in Requests : Begin(c, r)

Spec == Init /\ [][Next]_vars

-----------------------------------------------------------------------------
(* Properties.                                                             *)

Busy(c) == at[c] # "idle"
Ends(c, result) == at[c] # "idle" /\ at'[c] = "idle" /\ outcome'[c] = result
Alone(c) == req[c] \in Stores /\ ~touched[c]
Holds(c, i) == LET e == req[c].entries[i] IN e.dir \/ ContentAt(e.path)' = no[c]

\* An upload, an import or an install that is answered with success has stored all
\* of its files, whatever other requests do at the same time elsewhere.
StoredWhenOk ==
    [][\A c \in Clients : Alone(c) /\ Ends(c, "ok")
          => \A i \in DOMAIN req[c].entries : Holds(c, i)]_vars

\* One that fails has stored the files before the one it failed at, and has not
\* touched those after it: the same request can be made again.  An archive may name a
\* file twice; the later entry replaces the earlier.
FailedStoresAPrefix ==
    [][\A c \in Clients : Alone(c) /\ Ends(c, "failed") /\ req[c].entries # <<>>
          => \E k \in DOMAIN req[c].entries :
                /\ \A i \in 1 .. (k - 1) :
                      Holds(c, i) \/ req[c].entries[i].path = req[c].entries[k].path
                /\ \A i \in (k + 1) .. Len(req[c].entries) :
                      \/ ContentAt(req[c].entries[i].path)' = before[c][i]
                      \/ \E j \in 1 .. k : req[c].entries[j].path = req[c].entries[i].path]_vars

\* A mod whose download breaks off does not stay half-written for the game server to
\* load: the file is gone, or what it was if the download never began.  Only a disk that
\* has failed the copy and then its removal leaves a part of it.
FailedInstallLeavesNothingTorn ==
    [][\A c \in Clients : Alone(c) /\ req[c].op = "install" /\ Ends(c, "failed")
          => ContentAt(req[c].entries[1].path)' \in
                IF at[c] = "spoilt" THEN {Absent, Torn} ELSE {Absent, before[c][1]}]_vars

\* A file that no request under way asks for, by its path or by one above it, and that
\* nobody has open, stays as it is, whatever is renamed, removed or half-written around
\* it: also a download that failed clears up no more than its own name.
FilesElsewhereStay ==
    [][\A y \in Paths :
          /\ \A c \in Clients : Busy(c) => \A p \in Targets(req[c]) : ~IsPrefix(p, y)
          /\ \A c \in Clients : fd[c] # 0 => fd[c] # link[y]
          => ContentAt(y)' = ContentAt(y)]_vars
=============================================================================
