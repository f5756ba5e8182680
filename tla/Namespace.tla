------------------------------ MODULE Namespace ------------------------------
(***************************************************************************)
(* What the server promises about names: a tree of directories and files   *)
(* that each operation changes in one step, and answers that say what that *)
(* step found.  Contents are left out but for whose they are.              *)
(*                                                                         *)
(* Weakened lists what may go wrong:                                       *)
(*   "lost"   a call fails on its way to the server, or its answer does;   *)
(*   "moved"  directories are renamed while files in them are put back;    *)
(*   "crash"  the server stops and starts again;                           *)
(*   "disk"   the server's disk refuses to write.                          *)
(***************************************************************************)
CONSTANTS
    Client,    \* the machines
    Dir,       \* names of directories
    Name,      \* names of files in a directory
    Id,        \* identities of directories, which renaming does not change
    Mode,      \* permissions
    Full,      \* those of a file that has been put back: 0777
    None,      \* no directory, no file
    Weakened

VARIABLES
    dir,       \* directory name -> its identity
    file,      \* identity -> file name -> the file
    answer     \* what the last operation to return has said

vars == <<dir, file, answer>>
tree == <<dir, file>>

NoFiles == [n \in Name |-> None]
Has(d, n) == dir[d] # None /\ file[dir[d]][n] # None

Init ==
    /\ dir    = [d \in Dir |-> None]
    /\ file   = [i \in Id |-> NoFiles]
    /\ answer = None

Says(op, at, said) == answer' = [op |-> op, at |-> at, said |-> said]
Refused(op, at) == Says(op, at, "error") /\ UNCHANGED tree

-----------------------------------------------------------------------------
(***************************************************************************)
(* The changes of the tree.                                                *)
(***************************************************************************)
MakeDir(d) ==
    /\ dir[d] = None
    /\ \E i \in Id : (\A e \in Dir : dir[e] # i) /\ dir' = [dir EXCEPT ![d] = i]
    /\ UNCHANGED file

RemoveDir(d) ==
    /\ dir[d] # None
    /\ file[dir[d]] = NoFiles
    /\ dir' = [dir EXCEPT ![d] = None]
    /\ UNCHANGED file

MoveDir(d, e) ==
    /\ dir[d] # None
    /\ \A i \in Id : dir[e] = i => file[i] = NoFiles
    /\ dir' = [dir EXCEPT ![e] = dir[d], ![d] = None]
    /\ UNCHANGED file

Put(d, n, f) ==
    /\ dir[d] # None
    /\ file' = [file EXCEPT ![dir[d]][n] = f]
    /\ UNCHANGED dir

MoveFile(d, n, e, k) ==
    /\ Has(d, n)
    /\ dir[e] # None
    /\ file' = [file EXCEPT ![dir[e]][k] = file[dir[d]][n], ![dir[d]][n] = None]
    /\ UNCHANGED dir

-----------------------------------------------------------------------------
(***************************************************************************)
(* The operations.  A directory that looks empty may hold a file that is   *)
(* being put back, or what is left of one, and then stays.                 *)
(***************************************************************************)
Mkdir(d) ==
    \/ Says("mkdir", d, "ok") /\ MakeDir(d)
    \/ dir[d] # None /\ Refused("mkdir", d)

Rmdir(d) ==
    \/ Says("rmdir", d, "ok") /\ RemoveDir(d)
    \/ Refused("rmdir", d)

RenameDir(d, e) ==
    \/ Says("rename", d, "ok") /\ MoveDir(d, e)
    \/ (dir[d] = None \/ dir[e] # None) /\ Refused("rename", d)

RenameFile(d, n, e, k) ==
    \/ Says("rename", <<d, n>>, "ok") /\ MoveFile(d, n, e, k)
    \/ ~(Has(d, n) /\ dir[e] # None) /\ Refused("rename", <<d, n>>)

\* A create is not exclusive, and one that the server refuses succeeds.
Created(c, d, n, m) ==
    \/ ~Has(d, n) /\ Put(d, n, [mode |-> m, by |-> c])
    \/ Has(d, n) /\ Put(d, n, [file[dir[d]][n] EXCEPT !.by = c])
    \/ (Has(d, n) \/ dir[d] = None) /\ UNCHANGED tree

Create(c, d, n, m) == Says("create", <<d, n>>, "ok") /\ Created(c, d, n, m)

Unlink(d, n) ==
    \/ Says("unlink", <<d, n>>, "ok") /\ Has(d, n) /\ Put(d, n, None)
    \/ ~Has(d, n) /\ Refused("unlink", <<d, n>>)

Chmod(d, n, m) ==
    \/ /\ Says("chmod", <<d, n>>, "ok")
       /\ Has(d, n)
       /\ Put(d, n, [file[dir[d]][n] EXCEPT !.mode = m])
    \/ ~Has(d, n) /\ Refused("chmod", <<d, n>>)

\* A file that a client has put back has all permissions, whatever it had.
\* The close succeeds also when its directory is gone.
Close(c, d, n) ==
    /\ Says("close", <<d, n>>, "ok")
    /\ \/ Put(d, n, [mode |-> Full, by |-> c])
       \/ dir[d] = None /\ UNCHANGED tree

CloseRefused(d, n) == dir[d] = None /\ Refused("close", <<d, n>>)

\* What a client has in its cache it takes for a file with all permissions.
GetAttr(d, n) ==
    /\ \/ Has(d, n) /\ Says("getattr", <<d, n>>, file[dir[d]][n].mode)
       \/ ~Has(d, n) /\ Says("getattr", <<d, n>>, "error")
       \/ Says("getattr", <<d, n>>, Full)
    /\ UNCHANGED tree

GetAttrDir(d) ==
    /\ Says("getattr", d, IF dir[d] = None THEN "error" ELSE "directory")
    /\ UNCHANGED tree

\* access() and opendir() never fail.
Granted(op, at) == Says(op, at, "ok") /\ UNCHANGED tree

\* A listing fails if there is no such directory when it begins.
Listed(d) ==
    \/ dir[d] = None /\ Refused("readdir", d)
    \/ Granted("readdir", d)

-----------------------------------------------------------------------------
(***************************************************************************)
(* What may go wrong besides.                                              *)
(***************************************************************************)

\* The caller is told that a call has failed, or, of rename and chmod, that it
\* has succeeded, whatever the server has done.
LostOnDir(d) ==
    /\ "lost" \in Weakened
    /\ \/ Says("mkdir", d, "error") /\ MakeDir(d)
       \/ Says("rmdir", d, "error") /\ RemoveDir(d)
       \/ \E op \in {"mkdir", "rmdir", "getattr"} : Refused(op, d)
       \/ Granted("rename", d)

LostOnFile(c, d, n, m) ==
    /\ "lost" \in Weakened
    /\ \/ Says("create", <<d, n>>, "error") /\ Created(c, d, n, m)
       \/ Says("unlink", <<d, n>>, "error") /\ Has(d, n) /\ Put(d, n, None)
       \/ \E op \in {"create", "unlink", "getattr"} : Refused(op, <<d, n>>)
       \/ Granted("rename", <<d, n>>)
       \/ Granted("chmod", <<d, n>>)

\* A close that leaves nothing on the server.
CloseGone(d, n) ==
    /\ Weakened \cap {"moved", "crash", "disk"} # {}
    /\ \E said \in {"ok", "error"} : Says("close", <<d, n>>, said)
    /\ UNCHANGED tree

\* A close that finds another directory where its own was, in which an earlier
\* close has left something.
CloseOther(d, n) ==
    /\ "moved" \in Weakened
    /\ Says("close", <<d, n>>, "ok")
    /\ \E c \in Client : Put(d, n, [mode |-> Full, by |-> c])

Next ==
    \E d \in Dir :
        \/ Mkdir(d) \/ Rmdir(d) \/ \E e \in Dir \ {d} : RenameDir(d, e)
        \/ GetAttrDir(d) \/ Granted("opendir", d) \/ Listed(d)
        \/ LostOnDir(d)
        \/ \E n \in Name :
            \/ \E e \in Dir, k \in Name : RenameFile(d, n, e, k)
            \/ \E m \in Mode : Chmod(d, n, m)
            \/ \E c \in Client, m \in Mode : Create(c, d, n, m) \/ LostOnFile(c, d, n, m)
            \/ \E c \in Client : Close(c, d, n)
            \/ Unlink(d, n) \/ GetAttr(d, n) \/ Granted("access", <<d, n>>)
            \/ CloseRefused(d, n) \/ CloseGone(d, n) \/ CloseOther(d, n)

Spec == Init /\ [][Next]_vars
=============================================================================
