------------------------------ MODULE AfsNames ------------------------------
(***************************************************************************)
(* Names, directories and attributes: the handlers of wiscAFS_server.cc    *)
(* for them, what wiscAFS_client.cc and wiscAFS_ops.cc make of their       *)
(* answers, and, because they change names too, the uploads of CloseFile.  *)
(*                                                                         *)
(* A handler that makes one system call is one step, and its client's      *)
(* answer with it.  An upload and a listing are several, between which     *)
(* other clients rename and remove the directory they are in.  Each path   *)
(* is looked up again by every system call, and an open directory stays    *)
(* the one that was opened, whatever its name is by then.                  *)
(***************************************************************************)
EXTENDS Naturals

CONSTANTS
    Client,    \* the machines, with one application each
    Dir,       \* names of directories
    Name,      \* names of files in a directory
    Id,        \* inodes of directories
    Mode,      \* permissions
    Full,      \* 0777, those of a local copy and of a temporary file
    None,      \* no directory, no file
    Place,     \* entry -> its place in the order of readdir()
    Faults     \* which of the following may happen

(***************************************************************************)
(* "lost": a call fails before or after the server has carried it out, or  *)
(*   a stream ends too early.                                              *)
(* "moved": a directory is renamed while a file in it, or in one of its    *)
(*   new name, is being uploaded.                                          *)
(* "crash": the server crashes and starts again.                           *)
(* "disk": a write to a temporary file fails.                              *)
(***************************************************************************)
FaultKinds == {"lost", "moved", "crash", "disk"}

\* A file n has two names in its directory: n, and n.ttmmpp.
Entry == Name \X {"file", "temp"}

ASSUME ModeAssumption == Full \in Mode
ASSUME NoneAssumption == None \notin Id /\ None \notin [mode : Mode, by : Client]
ASSUME PlaceAssumption ==
    /\ Place \in [Entry -> Nat \ {0}]
    /\ \A x, y \in Entry : Place[x] = Place[y] => x = y
ASSUME FaultsAssumption == Faults \subseteq FaultKinds

VARIABLES
    dir,       \* directory name -> its inode, or None
    file,      \* inode -> name -> the file n: its permissions and author
    temp,      \* inode -> name -> the file n.ttmmpp
    call,      \* client -> the stream it has with the server
    answer     \* what the last operation to be decided says to its caller

vars == <<dir, file, temp, call, answer>>
tree == <<dir, file, temp>>

File == [mode : Mode, by : Client]
Path == Dir \X Name

(***************************************************************************)
(* A stream with the server.  "upload" is CloseFile, with the temporary    *)
(* file open that it has made in the directory id, and "unlink" the same   *)
(* after its rename(); "listing" is ReadDir with the directory id open, of *)
(* which the entries up to the place cursor have been sent, and "cut" is a *)
(* stream whose server has stopped.  The history variables ever and always *)
(* are the entries the directory has had at some time, and all the time,   *)
(* since opendir().                                                        *)
(***************************************************************************)
Idle == [at |-> "idle"]

UploadCall  == [at : {"upload"}, dir : Dir, name : Name, id : Id]
UnlinkCall  == [at : {"unlink"}, dir : Dir, name : Name]
ListingCall == [at : {"listing"}, dir : Dir, id : Id, cursor : Nat,
                sent : SUBSET Entry, ever : SUBSET Entry, always : SUBSET Entry]
CutCall     == [at : {"cut"}, op : {"close"}, path : Path]
                 \cup [at : {"cut"}, op : {"readdir"}, path : Dir]

Op == {"mkdir", "rmdir", "rename", "create", "unlink", "chmod", "close",
       "getattr", "access", "opendir", "readdir"}
Answer == [op : Op, at : Dir \cup Path,
           said : Mode \cup {"ok", "error", "directory"}]

TypeOK ==
    /\ dir    \in [Dir -> Id \cup {None}]
    /\ file   \in [Id -> [Name -> File \cup {None}]]
    /\ temp   \in [Id -> [Name -> File \cup {None}]]
    /\ call   \in [Client -> {Idle} \cup UploadCall \cup UnlinkCall
                               \cup ListingCall \cup CutCall]
    /\ answer \in Answer \cup {None}

NoFiles == [n \in Name |-> None]

Init ==
    /\ dir    = [d \in Dir |-> None]
    /\ file   = [i \in Id |-> NoFiles]
    /\ temp   = [i \in Id |-> NoFiles]
    /\ call   = [c \in Client |-> Idle]
    /\ answer = None

-----------------------------------------------------------------------------
Has(d, n) == dir[d] # None /\ file[dir[d]][n] # None

IsEmpty(i) == file[i] = NoFiles /\ temp[i] = NoFiles

\* A name that rename() may replace, and a directory that rmdir() removes.
Vacant(d) == \A i \in Id : dir[d] = i => IsEmpty(i)
Removable(d) == dir[d] # None /\ Vacant(d)

\* An inode stays in use while the directory is open.
FreeId(i) ==
    /\ \A d \in Dir : dir[d] # i
    /\ \A c \in Client : call[c].at = "listing" => call[c].id # i

\* The entries of directory i when fs and ts are its files and temporary files.
Listing(fs, ts) ==
    {x \in Entry : IF x[2] = "file" THEN fs[x[1]] # None ELSE ts[x[1]] # None}

Says(op, at, said) == answer' = [op |-> op, at |-> at, said |-> said]

\* The calls in progress, of which those that list see what changes.
Seen(k) ==
    IF k.at # "listing" THEN k
    ELSE LET now == Listing(file'[k.id], temp'[k.id])
         IN  [k EXCEPT !.ever = @ \cup now, !.always = @ \cap now]

Others == call' = [c \in Client |-> Seen(call[c])]
Becomes(c, k) == call' = [b \in Client |-> IF b = c THEN k ELSE Seen(call[b])]

\* The server has carried out a call, whose answer may be lost.
Reports(op, at) ==
    \E said \in {"ok"} \cup (IF "lost" \in Faults THEN {"error"} ELSE {}) :
        Says(op, at, said)

Refused(op, at) == Says(op, at, "error") /\ UNCHANGED <<tree, call>>

-----------------------------------------------------------------------------
(***************************************************************************)
(* System calls, by path.                                                  *)
(***************************************************************************)
mkdir(d) ==
    /\ dir[d] = None
    /\ \E i \in Id : FreeId(i) /\ dir' = [dir EXCEPT ![d] = i]
    /\ UNCHANGED <<file, temp>>

rmdir(d) ==
    /\ Removable(d)
    /\ dir' = [dir EXCEPT ![d] = None]
    /\ UNCHANGED <<file, temp>>

renameDir(d, e) ==
    /\ dir[d] # None
    /\ Vacant(e)
    /\ dir' = [dir EXCEPT ![e] = dir[d], ![d] = None]
    /\ UNCHANGED <<file, temp>>

renameFile(d, n, e, k) ==
    /\ Has(d, n)
    /\ dir[e] # None
    /\ file' = [file EXCEPT ![dir[e]][k] = file[dir[d]][n], ![dir[d]][n] = None]
    /\ UNCHANGED <<dir, temp>>

put(d, n, f) ==
    /\ dir[d] # None
    /\ file' = [file EXCEPT ![dir[d]][n] = f]
    /\ UNCHANGED <<dir, temp>>

-----------------------------------------------------------------------------
(***************************************************************************)
(* Operations that are one call of the server.  What the client says when  *)
(* the call is lost is an error code, but for rename and chmod, which      *)
(* return success then.                                                    *)
(***************************************************************************)
CreateDir(c, d) ==
    /\ call[c] = Idle
    /\ \/ mkdir(d) /\ Reports("mkdir", d) /\ Others
       \/ (dir[d] # None \/ "lost" \in Faults) /\ Refused("mkdir", d)

RemoveDir(c, d) ==
    /\ call[c] = Idle
    /\ \/ rmdir(d) /\ Reports("rmdir", d) /\ Others
       \/ (~Removable(d) \/ "lost" \in Faults) /\ Refused("rmdir", d)

\* A file of directory name d is being put back.
Uploading(d) ==
    \E c \in Client : call[c].at \in {"upload", "unlink"} /\ call[c].dir = d

RenameDir(c, d, e) ==
    /\ call[c] = Idle
    /\ d # e
    /\ "moved" \in Faults \/ (~Uploading(d) /\ ~Uploading(e))
    /\ \/ renameDir(d, e) /\ Says("rename", d, "ok") /\ Others
       \/ (dir[d] = None \/ ~Vacant(e)) /\ Refused("rename", d)
       \/ "lost" \in Faults /\ Says("rename", d, "ok") /\ UNCHANGED <<tree, call>>

RenameFile(c, d, n, e, k) ==
    /\ call[c] = Idle
    /\ <<d, n>> # <<e, k>>
    /\ \/ renameFile(d, n, e, k) /\ Says("rename", <<d, n>>, "ok") /\ Others
       \/ ~(Has(d, n) /\ dir[e] # None) /\ Refused("rename", <<d, n>>)
       \/ "lost" \in Faults /\ Says("rename", <<d, n>>, "ok") /\ UNCHANGED <<tree, call>>

\* A file that is there is emptied or not, by the client's flags.  A create
\* that the server refuses succeeds.
CreateFile(c, d, n, m) ==
    /\ call[c] = Idle
    /\ \/ /\ \/ ~Has(d, n) /\ put(d, n, [mode |-> m, by |-> c])
             \/ Has(d, n) /\ put(d, n, [file[dir[d]][n] EXCEPT !.by = c])
             \/ (Has(d, n) \/ dir[d] = None) /\ UNCHANGED tree
          /\ Reports("create", <<d, n>>)
          /\ Others
       \/ "lost" \in Faults /\ Refused("create", <<d, n>>)

DeleteFile(c, d, n) ==
    /\ call[c] = Idle
    /\ \/ Has(d, n) /\ put(d, n, None) /\ Reports("unlink", <<d, n>>) /\ Others
       \/ (~Has(d, n) \/ "lost" \in Faults) /\ Refused("unlink", <<d, n>>)

\* The permissions of the local copy stay as they are.
Chmod(c, d, n, m) ==
    /\ call[c] = Idle
    /\ \/ /\ Has(d, n)
          /\ put(d, n, [file[dir[d]][n] EXCEPT !.mode = m])
          /\ Says("chmod", <<d, n>>, "ok")
          /\ Others
       \/ ~Has(d, n) /\ Refused("chmod", <<d, n>>)
       \/ "lost" \in Faults /\ Says("chmod", <<d, n>>, "ok") /\ UNCHANGED <<tree, call>>

GetAttr(c, d, n) ==
    /\ call[c] = Idle
    /\ \/ Has(d, n) /\ Says("getattr", <<d, n>>, file[dir[d]][n].mode)
       \/ (~Has(d, n) \/ "lost" \in Faults) /\ Says("getattr", <<d, n>>, "error")
    /\ UNCHANGED <<tree, call>>

\* The path is in the client's cache, and what is looked at is its local copy,
\* whatever has become of the file.
GetAttrCached(c, d, n) ==
    /\ call[c] = Idle
    /\ Says("getattr", <<d, n>>, Full)
    /\ UNCHANGED <<tree, call>>

GetAttrDir(c, d) ==
    /\ call[c] = Idle
    /\ \/ dir[d] # None /\ Says("getattr", d, "directory")
       \/ (dir[d] = None \/ "lost" \in Faults) /\ Says("getattr", d, "error")
    /\ UNCHANGED <<tree, call>>

\* The client overwrites the status of the reply with 1.
AccessFile(c, d, n) ==
    /\ call[c] = Idle
    /\ Says("access", <<d, n>>, "ok")
    /\ UNCHANGED <<tree, call>>

\* The server has no such method, and errno is set to the 0 of an empty reply.
OpenDir(c, d) ==
    /\ call[c] = Idle
    /\ Says("opendir", d, "ok")
    /\ UNCHANGED <<tree, call>>

-----------------------------------------------------------------------------
(***************************************************************************)
(* CloseFile of a file that the application has opened or created at some  *)
(* time, and written to.  (Its opening changes no name, and is AfsClient's,*)
(* like two uploads with the same temporary file at once are AfsServer's.) *)
(***************************************************************************)
Overlaps(d, n) ==
    \E c \in Client :
        /\ call[c].at \in {"upload", "unlink"}
        /\ call[c].name = n
        /\ call[c].dir = d \/ (call[c].at = "upload" /\ call[c].id = dir[d])

CloseFile(c, d, n) ==
    /\ call[c] = Idle
    /\ dir[d] # None
    /\ ~Overlaps(d, n)
    /\ temp' = [temp EXCEPT ![dir[d]][n] = [mode |-> Full, by |-> c]]
    /\ UNCHANGED <<dir, file, answer>>
    /\ Becomes(c, [at |-> "upload", dir |-> d, name |-> n, id |-> dir[d]])

\* There is no directory to make the temporary file in.  The client notices
\* only if it still has something to send.
CloseRefused(c, d, n) ==
    /\ call[c] = Idle
    /\ dir[d] = None
    /\ \E said \in {"ok", "error"} : Says("close", <<d, n>>, said)
    /\ UNCHANGED <<tree, call>>

\* The client does not look at the status of the stream: a close whose rename
\* fails succeeds.
EndUpload(c) ==
    LET d == call[c].dir
        n == call[c].name IN
    /\ call[c].at = "upload"
    /\ Says("close", <<d, n>>, "ok")
    /\ IF dir[d] # None /\ temp[dir[d]][n] # None
       THEN /\ file' = [file EXCEPT ![dir[d]][n] = temp[dir[d]][n]]
            /\ temp' = [temp EXCEPT ![dir[d]][n] = None]
            /\ UNCHANGED dir
            /\ Becomes(c, [at |-> "unlink", dir |-> d, name |-> n])
       ELSE /\ UNCHANGED tree
            /\ Becomes(c, Idle)

\* Deliberately wrong: unlink(path) in place of unlink(tempPath).
UnlinkTemp_Path(c) ==
    LET d == call[c].dir
        n == call[c].name IN
    /\ call[c].at = "unlink"
    /\ file' = IF dir[d] = None THEN file
               ELSE [file EXCEPT ![dir[d]][n] = None]
    /\ UNCHANGED <<dir, temp, answer>>
    /\ Becomes(c, Idle)

UnlinkTemp(c) ==
    LET d == call[c].dir
        n == call[c].name IN
    /\ call[c].at = "unlink"
    /\ temp' = IF dir[d] = None THEN temp
               ELSE [temp EXCEPT ![dir[d]][n] = None]
    /\ UNCHANGED <<dir, file, answer>>
    /\ Becomes(c, Idle)

WriteFails(c) ==
    /\ "disk" \in Faults
    /\ call[c].at = "upload"
    /\ \E said \in {"ok", "error"} :
        Says("close", <<call[c].dir, call[c].name>>, said)
    /\ UNCHANGED tree
    /\ Becomes(c, Idle)

-----------------------------------------------------------------------------
(***************************************************************************)
(* ReadDir: a stream of entries, temporary files among them, which the     *)
(* client passes on one by one.  That there is no such directory is its    *)
(* first message; a stream without messages is an empty listing.           *)
(***************************************************************************)
Left(k) ==
    {x \in Listing(file[k.id], temp[k.id]) : Place[x] > k.cursor}

ReadDir(c, d) ==
    /\ call[c] = Idle
    /\ UNCHANGED tree
    /\ IF dir[d] = None
       THEN /\ \/ Says("readdir", d, "error")
               \/ "lost" \in Faults /\ Says("readdir", d, "ok")
            /\ UNCHANGED call
       ELSE LET now == Listing(file[dir[d]], temp[dir[d]]) IN
            /\ Becomes(c, [at |-> "listing", dir |-> d, id |-> dir[d], cursor |-> 0,
                           sent |-> {}, ever |-> now, always |-> now])
            /\ UNCHANGED answer

\* Deliberately wrong: two calls of readdir() a turn, for the condition of the
\* loop and for the entry.
SendEntry_EverySecond(c) ==
    /\ call[c].at = "listing"
    /\ \E x, y \in Left(call[c]) :
        /\ Place[x] < Place[y]
        /\ \A z \in Left(call[c]) : z = x \/ Place[y] <= Place[z]
        /\ call' = [call EXCEPT ![c].cursor = Place[y], ![c].sent = @ \cup {y}]
    /\ UNCHANGED <<tree, answer>>

SendEntry(c) ==
    /\ call[c].at = "listing"
    /\ \E x \in Left(call[c]) :
        /\ \A y \in Left(call[c]) : Place[x] <= Place[y]
        /\ call' = [call EXCEPT ![c].cursor = Place[x], ![c].sent = @ \cup {x}]
    /\ UNCHANGED <<tree, answer>>

\* Deliberately wrong: the loop ends at a temporary file.
EndListing_AtTemp(c) ==
    /\ call[c].at = "listing"
    /\ \A x \in Left(call[c]) :
        \E y \in Left(call[c]) : y[2] = "temp" /\ Place[y] <= Place[x]
    /\ Says("readdir", call[c].dir, "ok")
    /\ UNCHANGED tree
    /\ Becomes(c, Idle)

EndListing(c) ==
    /\ call[c].at = "listing"
    /\ Left(call[c]) = {}
    /\ Says("readdir", call[c].dir, "ok")
    /\ UNCHANGED tree
    /\ Becomes(c, Idle)

\* The client does not look at the status of the stream: a listing that is cut
\* ends like any other.
CutListing(c) ==
    /\ "lost" \in Faults
    /\ call[c].at = "listing"
    /\ Says("readdir", call[c].dir, "ok")
    /\ UNCHANGED tree
    /\ Becomes(c, Idle)

-----------------------------------------------------------------------------
(***************************************************************************)
(* The server crashes and starts again: names stay, temporary files too.   *)
(***************************************************************************)
Cut(k) ==
    CASE k.at = "upload"  -> [at |-> "cut", op |-> "close", path |-> <<k.dir, k.name>>]
      [] k.at = "listing" -> [at |-> "cut", op |-> "readdir", path |-> k.dir]
      [] k.at = "unlink"  -> Idle
      [] OTHER            -> k

Crash ==
    /\ "crash" \in Faults
    /\ call' = [c \in Client |-> Cut(call[c])]
    /\ UNCHANGED <<tree, answer>>

\* A client notices only if it still has something to send.
CutReturns(c) ==
    /\ call[c].at = "cut"
    /\ \E said \in {"ok"} \cup (IF call[c].op = "close" THEN {"error"} ELSE {}) :
        Says(call[c].op, call[c].path, said)
    /\ UNCHANGED tree
    /\ Becomes(c, Idle)

-----------------------------------------------------------------------------
\* The steps of a call once it has begun.
Proceed(c) ==
    \/ EndUpload(c) \/ UnlinkTemp(c) \/ WriteFails(c)
    \/ SendEntry(c) \/ EndListing(c) \/ CutListing(c)
    \/ CutReturns(c)

Operation(c) ==
    \/ \E d \in Dir :
        \/ CreateDir(c, d) \/ RemoveDir(c, d)
        \/ \E e \in Dir : RenameDir(c, d, e)
        \/ GetAttrDir(c, d) \/ OpenDir(c, d) \/ ReadDir(c, d)
    \/ \E d \in Dir, n \in Name :
        \/ \E m \in Mode : CreateFile(c, d, n, m) \/ Chmod(c, d, n, m)
        \/ \E e \in Dir, k \in Name : RenameFile(c, d, n, e, k)
        \/ DeleteFile(c, d, n)
        \/ GetAttr(c, d, n) \/ GetAttrCached(c, d, n) \/ AccessFile(c, d, n)
        \/ CloseFile(c, d, n) \/ CloseRefused(c, d, n)

Next ==
    \/ \E c \in Client : Proceed(c) \/ Operation(c)
    \/ Crash

Spec == Init /\ [][Next]_vars

-----------------------------------------------------------------------------
(***************************************************************************)
(* Properties.                                                             *)
(***************************************************************************)

\* "assert listdir_is == listdir_should" (tests/test_unreliablefs.py,
\* test_readdir), while others create, rename and delete: a listing that comes
\* to its end has every entry that was in the directory all the time, and none
\* that never was.
ListingWhole ==
    [][\A c \in Client : EndListing(c) =>
        /\ call[c].always \subseteq call[c].sent
        /\ call[c].sent \subseteq call[c].ever]_vars

\* "Permission on server should match the permission locally cached files"
\* (slide.pdf, page 11): a close puts back contents, and leaves the file the
\* permissions that create or chmod has given it.
PermissionsKept ==
    [][\A c \in Client :
        LET d == call[c].dir
            n == call[c].name IN
        EndUpload(c) /\ Has(d, n)
            => file'[dir[d]][n].mode = file[dir[d]][n].mode]_vars

\* A directory has one name, and one that has none is empty, of what uploads
\* have left behind too: RemoveDir and RenameDir lose no file.
DirsNamed ==
    /\ \A d, e \in Dir : dir[d] # None /\ dir[d] = dir[e] => d = e
    /\ \A i \in Id : (\A d \in Dir : dir[d] # i) => IsEmpty(i)

\* Temporary files have the permissions they were made with, which the file
\* they become gets with the contents.
TempsFull ==
    \A i \in Id : \A n \in Name : temp[i][n] # None => temp[i][n].mode = Full

UploadsApart ==
    \A b, c \in Client :
        /\ b # c
        /\ call[b].at \in {"upload", "unlink"}
        /\ call[c].at \in {"upload", "unlink"}
        => <<call[b].dir, call[b].name>> # <<call[c].dir, call[c].name>>

\* An upload finds its own temporary file, and nobody else's, at the path it
\* renames, unless a directory was renamed meanwhile.
UploadsInPlace ==
    "moved" \notin Faults =>
        \A c \in Client : call[c].at = "upload" =>
            /\ dir[call[c].dir] = call[c].id
            /\ temp[call[c].id][call[c].name] = [mode |-> Full, by |-> c]

\* A listing has passed on what it went past, and knows what is still to come.
ListingsSound ==
    \A c \in Client : call[c].at = "listing" =>
        /\ call[c].sent \subseteq call[c].ever
        /\ call[c].always \subseteq Listing(file[call[c].id], temp[call[c].id])
        /\ Listing(file[call[c].id], temp[call[c].id]) \subseteq call[c].ever
        /\ \A x \in call[c].always :
                Place[x] <= call[c].cursor => x \in call[c].sent

\* The inductive invariant, from which AfsNamesProofs proves the rest.
IInv ==
    /\ TypeOK
    /\ DirsNamed
    /\ TempsFull
    /\ UploadsApart
    /\ UploadsInPlace
    /\ ListingsSound

Names == INSTANCE Namespace WITH Weakened <- Faults

\* Uploads with their temporary files, renamed into place while other handlers
\* rename, remove and list directories, and all other operations on names, are
\* those of Namespace: each changes the tree in one step and nothing else, and
\* reports success or failure as that step went, where Namespace does not
\* concede that it may not (a create, access() and opendir() never fail, a close
\* makes a file that has all permissions).
ImplementsNamespace == Names!Spec
=============================================================================
