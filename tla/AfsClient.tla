------------------------------ MODULE AfsClient ------------------------------
(***************************************************************************)
(* The clients of wiscAFS: the FUSE operations of wiscAFS_ops.cc, the      *)
(* library of wiscAFS_client.cc under them, and its cache, ClientCache.h.  *)
(* Several applications run on each client; FUSE serves their calls on     *)
(* threads of their own, which the semaphores wiscOPSem and clientSem      *)
(* order, except for read and write.                                       *)
(*                                                                         *)
(* A client keeps a local copy of each file it has opened, named by the    *)
(* inode number the file had on the server at that moment.  An upload      *)
(* gives the file a new inode; an inode that no path of the server names   *)
(* any more is used again.                                                 *)
(*                                                                         *)
(* The server is the one of FileStore, which AfsServer implements: a       *)
(* download carries the contents of one moment, an upload changes a path   *)
(* at one moment, at its end.  Uploads of one path by two clients at once, *)
(* for which AfsServer shows that this is not so, do not happen here.      *)
(***************************************************************************)
EXTENDS FileData

CONSTANTS
    Client,    \* the machines
    App,       \* the applications, each with at most one open file
    Home,      \* application -> its machine
    Path,      \* the path names
    Ino,       \* the server's inode numbers, which name the local copies
    Fd,        \* descriptors of a client process, for local copies
    Chunk,     \* what applications write
    NoIno,     \* no inode: a path that does not exist, a closed descriptor
    Zero,      \* the inode number 0, with which a refused create comes back
    NoFd,      \* no descriptor: -1
    MaxLen,    \* bound of the model: the length of a file
    MaxSem,    \* bound of the model: the count of wiscOPSem, waiters aside
    Faults     \* which of the following may happen

(***************************************************************************)
(* "shared": a file is opened whose path, or whose local copy, is open in  *)
(*   another application of the same client.                               *)
(* "dup": close() of one of several descriptors for an open file, which    *)
(*   FUSE reports with flush and no release.                               *)
(* "moved": an application renames a file that another one has open.       *)
(* "vanish": a download stream ends before its first message: the file is  *)
(*   gone, the server is down, or the file was opened with O_WRONLY.       *)
(* "down": the server goes away in the middle of a stream.                 *)
(* "crash": a client crashes.                                              *)
(* "truncate": truncate(), ftruncate() and open() with O_TRUNC.            *)
(* "late": a create finds a file that another client has put there since   *)
(*   the FUSE library looked the path up.                                  *)
(* "refused": the server refuses a create, with O_EXCL in that situation,  *)
(*   or for reasons of its own.                                            *)
(* "lost": a call that is not a stream fails, before or after the server   *)
(*   has carried it out.                                                   *)
(* "disk": opening, writing or reading a local copy fails.                 *)
(***************************************************************************)
FaultKinds == {"shared", "dup", "moved", "vanish", "down", "crash", "truncate",
               "late", "refused", "lost", "disk"}

ASSUME HomeAssumption == Home \in [App -> Client]
ASSUME NilAssumption ==
    /\ NoIno \notin Ino \cup {Zero}
    /\ Zero \notin Ino
    /\ NoFd \notin Fd
\* NoIno is not what a file holds either, and not an open file of CloseToOpen.
ASSUME NoFileAssumption ==
    LET Contents == Seq(Chunk \cup {Hole})
    IN  NoIno \notin Contents \cup [path : Path, contents : Contents, modified : BOOLEAN]
ASSUME BoundAssumption == MaxLen \in Nat /\ MaxSem \in Nat \ {0}
ASSUME FaultsAssumption == Faults \subseteq FaultKinds

VARIABLES
    dir,       \* server: path -> inode, or NoIno
    data,      \* server: inode -> the file's chunks
    cache,     \* client -> path -> its entry in the map of DiskCache
    local,     \* client -> inode -> the local copy, <inode>.tmp
    file,      \* client -> descriptor -> the inode whose copy it has open
    opSem,     \* client -> the count of wiscOPSem
    clientSem, \* client -> the count of clientSem
    app        \* application -> the call it is in, or the file it has open

vars == <<dir, data, cache, local, file, opSem, clientSem, app>>

server == <<dir, data>>
sems   == <<opSem, clientSem>>

File == Seq(Chunk \cup {Hole})

\* The numbers that name local copies.
Copy == Ino \cup {Zero}

\* An entry of the cache; NoEntry stands for a path the map does not hold.
Entry   == [ino : Copy \cup {NoIno}, dirty : BOOLEAN]
NoEntry == [ino |-> NoIno, dirty |-> FALSE]
Clean(i) == [ino |-> i, dirty |-> FALSE]

(***************************************************************************)
(* Where an application is.  "opening" is OpenFile with the download src,  *)
(* of which n chunks are in the local copy, once fd is that copy's         *)
(* descriptor; "creating" is CreateFile with the reply's contents src;     *)
(* "open" has the file open, "written" is wiscAFS_write                    *)
(* between pwrite and WriteFile, "closing" is CloseFile, which has         *)
(* streamed sent of the local copy of ino.  The history variable wrote     *)
(* says whether the application has written since its last close.          *)
(***************************************************************************)
Idle == [at |-> "idle"]

OpeningApp  == [at : {"opening"}, path : Path, ino : Ino, src : File,
                fd : Fd \cup {NoFd}, n : Nat]
CreatingApp == [at : {"creating"}, path : Path, ino : Copy, src : File]
OpenApp     == [at : {"open", "written"}, path : Path, fd : Fd \cup {NoFd},
                wrote : BOOLEAN]
ClosingApp  == [at : {"closing"}, path : Path, fd : Fd \cup {NoFd},
                wrote : BOOLEAN, last : BOOLEAN, ino : Copy, sent : File]
RenamingApp == [at : {"renaming"}, path : Path, to : Path]

TypeOK ==
    /\ dir   \in [Path -> Ino \cup {NoIno}]
    /\ data  \in [Ino -> File]
    /\ cache \in [Client -> [Path -> Entry]]
    /\ local \in [Client -> [Copy -> File]]
    /\ file  \in [Client -> [Fd -> Copy \cup {NoIno}]]
    /\ opSem \in [Client -> 0 .. MaxSem]
    /\ clientSem \in [Client -> {0, 1}]
    /\ app   \in [App -> {Idle} \cup OpeningApp \cup CreatingApp \cup OpenApp
                            \cup ClosingApp \cup RenamingApp]

Init ==
    /\ dir   = [p \in Path |-> NoIno]
    /\ data  = [i \in Ino |-> <<>>]
    /\ cache = [c \in Client |-> [p \in Path |-> NoEntry]]
    /\ local = [c \in Client |-> [i \in Copy |-> <<>>]]
    /\ file  = [c \in Client |-> [f \in Fd |-> NoIno]]
    /\ opSem = [c \in Client |-> 1]
    /\ clientSem = [c \in Client |-> 1]
    /\ app   = [a \in App |-> Idle]

-----------------------------------------------------------------------------
(***************************************************************************)
(* The semaphores.  Every operation but read and write holds both from its *)
(* beginning to its end; truncate holds wiscOPSem alone.                   *)
(***************************************************************************)
SemsFree(c) == opSem[c] > 0 /\ clientSem[c] > 0

SemWait(c) ==
    /\ SemsFree(c)
    /\ opSem' = [opSem EXCEPT ![c] = @ - 1]
    /\ clientSem' = [clientSem EXCEPT ![c] = @ - 1]

SemPost(c) ==
    /\ opSem' = [opSem EXCEPT ![c] = @ + 1]
    /\ clientSem' = [clientSem EXCEPT ![c] = @ + 1]

\* An application has a file open, as FUSE sees it.
HasFile(a) == app[a].at \in {"open", "written", "closing"}

OpenOn(c, p) == \E a \in App : Home[a] = c /\ HasFile(a) /\ app[a].path = p

\* The inode whose local copy is behind an application's descriptor.
Local(a) == IF app[a].fd = NoFd THEN NoIno ELSE file[Home[a]][app[a].fd]

\* Another application of client c has path p, or the local copy of i, open.
InUse(c, p, i) ==
    \E a \in App : Home[a] = c /\ HasFile(a) /\ (app[a].path = p \/ Local(a) = i)

\* The FUSE library lets no other call use a path while it is being renamed.
Renaming(c, p) ==
    \E a \in App : /\ Home[a] = c
                  /\ app[a].at = "renaming"
                  /\ p \in {app[a].path, app[a].to}

\* Inode numbers the server may give to a new file.
FreeIno(i) == \A p \in Path : dir[p] # i

\* FUSE asks for the attributes of a path before anything else: GetAttr says
\* that it exists if the cache or the server has it.
Exists(c, p) == cache[c][p] # NoEntry \/ dir[p] # NoIno

-----------------------------------------------------------------------------
(***************************************************************************)
(* wiscAFS_open, OpenFile.                                                 *)
(***************************************************************************)
OpenFile(a, p) ==
    LET c == Home[a] IN
    /\ app[a].at = "idle"
    /\ dir[p] # NoIno
    /\ "shared" \in Faults \/ ~InUse(c, p, dir[p])
    /\ SemWait(c)
    /\ app' = [app EXCEPT ![a] = [at |-> "opening", path |-> p, ino |-> dir[p],
                                  src |-> data[dir[p]], fd |-> NoFd, n |-> 0]]
    /\ UNCHANGED <<server, cache, local, file>>

\* Deliberately wrong: an entry that is there stays as dirty as it was.
OpenLocalCopy_KeepsDirty(a) ==
    LET c == Home[a] IN
    /\ app[a].at = "opening"
    /\ app[a].fd = NoFd
    /\ \E f \in Fd :
        /\ file[c][f] = NoIno
        /\ file' = [file EXCEPT ![c][f] = app[a].ino]
        /\ app' = [app EXCEPT ![a].fd = f]
    /\ local' = [local EXCEPT ![c][app[a].ino] = <<>>]
    /\ cache' = [cache EXCEPT ![c][app[a].path].ino = app[a].ino]
    /\ UNCHANGED <<server, sems>>

\* Deliberately wrong: open() without O_TRUNC.
OpenLocalCopy_NoTruncate(a) ==
    LET c == Home[a] IN
    /\ app[a].at = "opening"
    /\ app[a].fd = NoFd
    /\ \E f \in Fd :
        /\ file[c][f] = NoIno
        /\ file' = [file EXCEPT ![c][f] = app[a].ino]
        /\ app' = [app EXCEPT ![a].fd = f]
    /\ cache' = [cache EXCEPT ![c][app[a].path] = Clean(app[a].ino)]
    /\ UNCHANGED <<server, local, sems>>

\* The first message: truncate the local copy, and enter the path into the
\* cache or make its entry a clean one.
OpenLocalCopy(a) ==
    LET c == Home[a] IN
    /\ app[a].at = "opening"
    /\ app[a].fd = NoFd
    /\ \E f \in Fd :
        /\ file[c][f] = NoIno
        /\ file' = [file EXCEPT ![c][f] = app[a].ino]
        /\ app' = [app EXCEPT ![a].fd = f]
    /\ local' = [local EXCEPT ![c][app[a].ino] = <<>>]
    /\ cache' = [cache EXCEPT ![c][app[a].path] = Clean(app[a].ino)]
    /\ UNCHANGED <<server, sems>>

\* Write the chunk of a message to the local copy.
StoreMessage(a) ==
    LET c == Home[a] IN
    /\ app[a].at = "opening"
    /\ app[a].fd # NoFd
    /\ app[a].n < Len(app[a].src)
    /\ local' = [local EXCEPT ![c][Local(a)] =
                    WriteAt(@, app[a].n + 1, app[a].src[app[a].n + 1])]
    /\ app' = [app EXCEPT ![a].n = @ + 1]
    /\ UNCHANGED <<server, cache, file, sems>>

\* reader->Read() returned false.  The client does not look at the status
\* that reader->Finish() returns.
DownloadEnded(a) ==
    \/ app[a].n = Len(app[a].src)
    \/ "down" \in Faults /\ app[a].n > 0

EndOpen(a) ==
    /\ app[a].at = "opening"
    /\ app[a].fd # NoFd
    /\ DownloadEnded(a)
    /\ app' = [app EXCEPT ![a] = [at |-> "open", path |-> app[a].path,
                                  fd |-> app[a].fd, wrote |-> FALSE]]
    /\ SemPost(Home[a])
    /\ UNCHANGED <<server, cache, local, file>>

\* The local copy cannot be opened, for want of a descriptor for example.
OpenNoCopy(a) ==
    /\ "disk" \in Faults
    /\ app[a].at = "opening"
    /\ app[a].fd = NoFd
    /\ app' = [app EXCEPT ![a] = Idle]
    /\ SemPost(Home[a])
    /\ UNCHANGED <<server, cache, local, file>>

\* The local copy cannot be written: the open fails, and leaves an entry for
\* the front part that is there, and its descriptor open.
StoreFails(a) ==
    /\ "disk" \in Faults
    /\ app[a].at = "opening"
    /\ app[a].fd # NoFd
    /\ app[a].n < Len(app[a].src)
    /\ app' = [app EXCEPT ![a] = Idle]
    /\ SemPost(Home[a])
    /\ UNCHANGED <<server, cache, local, file>>

\* A stream without messages: the open succeeds, with the number that happens to
\* be in the uninitialised variable fileDescriptor.  It is -1, the descriptor of
\* another file, or one that is not open, and may be opened later.
OpenVanished(a, p) ==
    LET c == Home[a] IN
    /\ "vanish" \in Faults
    /\ app[a].at = "idle"
    /\ Exists(c, p)
    /\ SemsFree(c)
    /\ \E f \in Fd \cup {NoFd} :
        app' = [app EXCEPT ![a] = [at |-> "open", path |-> p, fd |-> f,
                                   wrote |-> FALSE]]
    /\ UNCHANGED <<server, cache, local, file, sems>>

(***************************************************************************)
(* wiscAFS_create, CreateFile: the server creates the file, then the       *)
(* client its local copy.                                                  *)
(***************************************************************************)
Creating(a, p, i, s) ==
    app' = [app EXCEPT ![a] = [at |-> "creating", path |-> p, ino |-> i, src |-> s]]

CreateFile(a, p) ==
    LET c == Home[a] IN
    /\ app[a].at = "idle"
    /\ ~Exists(c, p)
    /\ SemWait(c)
    /\ \E i \in Ino :
        /\ FreeIno(i)
        /\ "shared" \in Faults \/ ~InUse(c, p, i)
        /\ dir'  = [dir EXCEPT ![p] = i]
        /\ data' = [data EXCEPT ![i] = <<>>]
        /\ Creating(a, p, i, <<>>)
    /\ UNCHANGED <<cache, local, file>>

\* The FUSE library found no such path, and by now another client has one.
LooksNew(c, p) == cache[c][p] = NoEntry /\ \E d \in Client : d # c

(***************************************************************************)
(* The server has the file, and opens it with the client's flags: with     *)
(* O_TRUNC it is emptied.  What it holds is sent as a C string, which ends *)
(* at a zero, in the file or somewhere behind the buffer it was read into. *)
(***************************************************************************)
CStrings(s) ==
    LET zeros == {k \in DOMAIN s : s[k] = Hole}
    IN  IF s = <<>> THEN {s}
        ELSE IF zeros # {}
             THEN {SubSeq(s, 1, k - 1) : k \in {l \in zeros : \A m \in zeros : l <= m}}
        ELSE {s} \cup {Append(s, ch) : ch \in IF Len(s) < MaxLen THEN Chunk ELSE {}}

CreateOverExisting(a, p, truncating) ==
    LET c == Home[a] IN
    /\ "late" \in Faults
    /\ app[a].at = "idle"
    /\ LooksNew(c, p)
    /\ dir[p] # NoIno
    /\ "shared" \in Faults \/ ~InUse(c, p, dir[p])
    /\ SemWait(c)
    /\ IF truncating
       THEN data' = [data EXCEPT ![dir[p]] = <<>>] /\ Creating(a, p, dir[p], <<>>)
       ELSE /\ \E s \in CStrings(data[dir[p]]) : Creating(a, p, dir[p], s)
            /\ UNCHANGED data
    /\ UNCHANGED <<dir, cache, local, file>>

\* The server says no, with a Status that is OK and no file attributes.
CreateRefused(a, p) ==
    LET c == Home[a] IN
    /\ "refused" \in Faults
    /\ app[a].at = "idle"
    /\ ~Exists(c, p) \/ LooksNew(c, p)
    /\ "shared" \in Faults \/ ~InUse(c, p, Zero)
    /\ SemWait(c)
    /\ Creating(a, p, Zero, <<>>)
    /\ UNCHANGED <<server, cache, local, file>>

\* The call fails after the server has created the file.
CreateLost(a, p) ==
    LET c == Home[a] IN
    /\ "lost" \in Faults
    /\ app[a].at = "idle"
    /\ ~Exists(c, p)
    /\ SemsFree(c)
    /\ \E i \in Ino :
        /\ FreeIno(i)
        /\ dir'  = [dir EXCEPT ![p] = i]
        /\ data' = [data EXCEPT ![i] = <<>>]
    /\ UNCHANGED <<cache, local, file, sems, app>>

\* addCacheValue inserts into a map, which keeps an entry it has.
Added(entries, p, e) == IF entries[p] = NoEntry THEN [entries EXCEPT ![p] = e]
                                                ELSE entries

EndCreate(a) ==
    LET c == Home[a] IN
    /\ app[a].at = "creating"
    /\ \E f \in Fd :
        /\ file[c][f] = NoIno
        /\ file' = [file EXCEPT ![c][f] = app[a].ino]
        /\ app' = [app EXCEPT ![a] = [at |-> "open", path |-> app[a].path,
                                      fd |-> f, wrote |-> FALSE]]
    /\ local' = [local EXCEPT ![c][app[a].ino] = app[a].src]
    /\ cache' = [cache EXCEPT ![c] = Added(@, app[a].path, Clean(app[a].ino))]
    /\ SemPost(c)
    /\ UNCHANGED server

\* The local copy cannot be opened: the create fails, and the file is there.
CreateNoCopy(a) ==
    /\ "disk" \in Faults
    /\ app[a].at = "creating"
    /\ app' = [app EXCEPT ![a] = Idle]
    /\ SemPost(Home[a])
    /\ UNCHANGED <<server, cache, local, file>>

-----------------------------------------------------------------------------
(***************************************************************************)
(* wiscAFS_write and wiscAFS_read, which take no semaphore.                *)
(***************************************************************************)

\* pwrite().  When it fails, because the descriptor is not open, WriteFile is
\* called all the same.  With the descriptor -1 neither is.
PWrite(a, k, ch) ==
    LET c == Home[a] IN
    /\ app[a].at = "open"
    /\ app[a].fd # NoFd
    /\ ~Renaming(c, app[a].path)
    /\ IF Local(a) = NoIno
       THEN app' = [app EXCEPT ![a].at = "written"] /\ UNCHANGED local
       ELSE /\ k <= Len(local[c][Local(a)]) + 1
            /\ local' = [local EXCEPT ![c][Local(a)] = WriteAt(@, k, ch)]
            /\ app' = [app EXCEPT ![a].at = "written", ![a].wrote = TRUE]
    /\ UNCHANGED <<server, cache, file, sems>>

\* pwrite() fails and WriteFile is called all the same: the write counts.
PWriteFails(a) ==
    /\ "disk" \in Faults
    /\ app[a].at = "open"
    /\ app[a].fd # NoFd
    /\ ~Renaming(Home[a], app[a].path)
    /\ app' = [app EXCEPT ![a].at = "written", ![a].wrote = TRUE]
    /\ UNCHANGED <<server, cache, local, file, sems>>

\* Deliberately wrong: the entry stays clean.
WriteFile_Forgets(a) ==
    /\ app[a].at = "written"
    /\ app' = [app EXCEPT ![a].at = "open"]
    /\ UNCHANGED <<server, cache, local, file, sems>>

\* WriteFile: mark the entry of the path dirty, if there is one.
WriteFile(a) ==
    LET c == Home[a] IN
    /\ app[a].at = "written"
    /\ cache' = IF cache[c][app[a].path] = NoEntry THEN cache
                ELSE [cache EXCEPT ![c][app[a].path].dirty = TRUE]
    /\ app' = [app EXCEPT ![a].at = "open"]
    /\ UNCHANGED <<server, local, file, sems>>

\* wiscAFS_read with the descriptor -1 posts a semaphore it has not waited for.
ReadBadFd(a) ==
    LET c == Home[a] IN
    /\ app[a].at = "open"
    /\ app[a].fd = NoFd
    /\ opSem[c] + (1 - clientSem[c]) < MaxSem
    /\ opSem' = [opSem EXCEPT ![c] = @ + 1]
    /\ UNCHANGED <<server, cache, local, file, clientSem, app>>

-----------------------------------------------------------------------------
(***************************************************************************)
(* wiscAFS_flush, CloseFile, and wiscAFS_release if this is the last close.*)
(***************************************************************************)

\* The call returns: the application goes on with its file or without it.
Return(a, last) ==
    IF last
    THEN /\ app' = [app EXCEPT ![a] = Idle]
         /\ file' = IF app[a].fd = NoFd THEN file
                    ELSE [file EXCEPT ![Home[a]][app[a].fd] = NoIno]
    ELSE /\ app' = [app EXCEPT ![a] = [at |-> "open", path |-> app[a].path,
                                       fd |-> app[a].fd, wrote |-> FALSE]]
         /\ UNCHANGED file

MayBeLast == IF "dup" \in Faults THEN BOOLEAN ELSE {TRUE}

\* Deliberately wrong: isDirty is not tested.
NothingToSend_AnyEntry(e, copies) == e # NoEntry => copies[e.ino] = <<>>

\* Nothing to upload: the path has no entry, a clean one, or a local copy of
\* length 0, for which the client sends a stream without messages.
NothingToSend(e, copies) == e.dirty => copies[e.ino] = <<>>

\* Deliberately wrong: posts clientSem once more than it has waited for it.
CloseUnsent_ExtraPost(a, last) ==
    LET c == Home[a] IN
    /\ app[a].at = "open"
    /\ SemsFree(c)
    /\ NothingToSend(cache[c][app[a].path], local[c])
    /\ Return(a, last)
    /\ clientSem' = [clientSem EXCEPT ![c] = @ + 1]
    /\ UNCHANGED <<server, cache, local, opSem>>

CloseUnsent(a, last) ==
    LET c == Home[a] IN
    /\ app[a].at = "open"
    /\ SemsFree(c)
    /\ NothingToSend(cache[c][app[a].path], local[c])
    /\ Return(a, last)
    /\ UNCHANGED <<server, cache, local, sems>>

\* The entry of the path is dirty: upload the local copy that it names.
CloseFile(a, last) ==
    LET c == Home[a]
        e == cache[c][app[a].path] IN
    /\ app[a].at = "open"
    /\ ~NothingToSend(e, local[c])
    /\ \A b \in App : app[b].at = "closing" => app[b].path # app[a].path
    /\ SemWait(c)
    /\ app' = [app EXCEPT ![a] =
                [at |-> "closing", path |-> app[a].path, fd |-> app[a].fd,
                 wrote |-> app[a].wrote, last |-> last, ino |-> e.ino,
                 sent |-> <<>>]]
    /\ UNCHANGED <<server, cache, local, file>>

\* The local copy cannot be opened, and nothing is sent.
CloseNoCopy(a, last) ==
    LET c == Home[a] IN
    /\ "disk" \in Faults
    /\ app[a].at = "open"
    /\ cache[c][app[a].path].dirty
    /\ SemsFree(c)
    /\ Return(a, last)
    /\ UNCHANGED <<server, cache, local, sems>>

\* Deliberately wrong: reads from the same place every time.
SendMessage_NoSeek(a) ==
    /\ app[a].at = "closing"
    /\ Len(app[a].sent) < Len(local[Home[a]][app[a].ino])
    /\ UNCHANGED vars

\* One turn of the loop that reads a chunk and writes it to the stream.
SendMessage(a) ==
    LET copy == local[Home[a]][app[a].ino] IN
    /\ app[a].at = "closing"
    /\ Len(app[a].sent) < Len(copy)
    /\ app' = [app EXCEPT ![a].sent = Append(@, copy[Len(@) + 1])]
    /\ UNCHANGED <<server, cache, local, file, sems>>

\* The server publishes what it has collected, if anything, as a new file.
Publish(p, s) ==
    IF s = <<>>
    THEN UNCHANGED server
    ELSE \E i \in Ino :
            /\ FreeIno(i)
            /\ dir'  = [dir EXCEPT ![p] = i]
            /\ data' = [data EXCEPT ![i] = s]

\* Deliberately wrong: the loop ends after the first message.
EndClose_Early(a) ==
    /\ app[a].at = "closing"
    /\ app[a].sent # <<>>
    /\ Publish(app[a].path, app[a].sent)
    /\ Return(a, app[a].last)
    /\ SemPost(Home[a])
    /\ UNCHANGED <<cache, local>>

\* read() has returned 0: the stream ends and the server publishes it.
EndClose(a) ==
    /\ app[a].at = "closing"
    /\ Len(app[a].sent) >= Len(local[Home[a]][app[a].ino])
    /\ Publish(app[a].path, app[a].sent)
    /\ Return(a, app[a].last)
    /\ SemPost(Home[a])
    /\ UNCHANGED <<cache, local>>

\* Deliberately wrong: returns without posting the semaphores.
CloseLost_NoPost(a) ==
    /\ "down" \in Faults
    /\ app[a].at = "closing"
    /\ Return(a, app[a].last)
    /\ UNCHANGED <<server, cache, local, sems>>

\* The local copy cannot be read: the close fails, and the server takes the
\* cut stream for a whole file.
SendFails(a) ==
    /\ "disk" \in Faults
    /\ app[a].at = "closing"
    /\ Len(app[a].sent) < Len(local[Home[a]][app[a].ino])
    /\ Publish(app[a].path, app[a].sent)
    /\ Return(a, app[a].last)
    /\ SemPost(Home[a])
    /\ UNCHANGED <<cache, local>>

\* The server goes away during the upload, and publishes nothing.  The close
\* fails only if a write to the stream does; writer->Finish() is not looked at.
CloseLost(a) ==
    /\ "down" \in Faults
    /\ app[a].at = "closing"
    /\ Return(a, app[a].last)
    /\ SemPost(Home[a])
    /\ UNCHANGED <<server, cache, local>>

-----------------------------------------------------------------------------
(***************************************************************************)
(* wiscAFS_rename, RenameFile: first the cache, then the server.  The FUSE *)
(* library lets no rename in while a write of the path is in progress, and *)
(* moves a file out of the way first that the rename would remove while it *)
(* is open.                                                                *)
(***************************************************************************)

\* renameCacheValue inserts into a map, which keeps an entry it has.
Renamed(entries, p, q) ==
    IF entries[p] = NoEntry THEN entries
    ELSE [Added(entries, q, entries[p]) EXCEPT ![p] = NoEntry]

MayRename(a, p, q) ==
    LET c == Home[a] IN
    /\ app[a].at = "idle"
    /\ p # q
    /\ ~OpenOn(c, q)
    /\ "moved" \in Faults \/ ~OpenOn(c, p)
    /\ \A b \in App : Home[b] = c /\ app[b].at = "written" => app[b].path # p

RenameFile(a, p, q) ==
    LET c == Home[a] IN
    /\ MayRename(a, p, q)
    /\ Exists(c, p)
    /\ SemWait(c)
    /\ cache' = [cache EXCEPT ![c] = Renamed(@, p, q)]
    /\ app' = [app EXCEPT ![a] = [at |-> "renaming", path |-> p, to |-> q]]
    /\ UNCHANGED <<server, local, file>>

\* A directory is renamed that p is in, and q is the name of p then.  The
\* cache has no entry for the directory, and those below it stay as they are.
RenameDirectory(a, p, q) ==
    LET c == Home[a] IN
    /\ MayRename(a, p, q)
    /\ dir[p] # NoIno
    /\ dir[q] = NoIno
    /\ SemWait(c)
    /\ app' = [app EXCEPT ![a] = [at |-> "renaming", path |-> p, to |-> q]]
    /\ UNCHANGED <<server, cache, local, file>>

\* The open files of the client follow a rename that has succeeded.
Moved(a) ==
    app' = [b \in App |->
        IF b = a THEN Idle
        ELSE IF Home[b] = Home[a] /\ HasFile(b) /\ app[b].path = app[a].path
             THEN [app[b] EXCEPT !.path = app[a].to]
        ELSE app[b]]

\* The server renames the path, if it has it.
EndRename(a) ==
    LET p == app[a].path IN
    /\ app[a].at = "renaming"
    /\ IF dir[p] = NoIno
       THEN app' = [app EXCEPT ![a] = Idle] /\ UNCHANGED dir
       ELSE Moved(a) /\ dir' = [dir EXCEPT ![app[a].to] = dir[p], ![p] = NoIno]
    /\ SemPost(Home[a])
    /\ UNCHANGED <<data, cache, local, file>>

\* The call fails before it reaches the server.  status() is 0 then, and the
\* rename succeeds.
RenameLost(a) ==
    /\ "lost" \in Faults
    /\ app[a].at = "renaming"
    /\ Moved(a)
    /\ SemPost(Home[a])
    /\ UNCHANGED <<server, cache, local, file>>

\* wiscAFS_unlink, DeleteFile.  The FUSE library renames files that are open
\* instead.
DeleteFile(a, p) ==
    LET c == Home[a] IN
    /\ app[a].at = "idle"
    /\ Exists(c, p)
    /\ ~OpenOn(c, p)
    /\ SemsFree(c)
    /\ dir' = [dir EXCEPT ![p] = NoIno]
    /\ cache' = [cache EXCEPT ![c][p] = NoEntry]
    /\ UNCHANGED <<data, local, file, sems, app>>

\* The call fails before it reaches the server; the entry is dropped.
DeleteLost(a, p) ==
    LET c == Home[a] IN
    /\ "lost" \in Faults
    /\ app[a].at = "idle"
    /\ cache[c][p] # NoEntry
    /\ ~OpenOn(c, p)
    /\ SemsFree(c)
    /\ cache' = [cache EXCEPT ![c][p] = NoEntry]
    /\ UNCHANGED <<server, local, file, sems, app>>

\* wiscAFS_truncate, TruncateFile: the local copy only, and only if there is
\* one.
TruncateFile(c, p, n) ==
    /\ "truncate" \in Faults
    /\ opSem[c] > 0
    /\ ~Renaming(c, p)
    /\ cache[c][p] # NoEntry
    /\ local' = [local EXCEPT ![c][cache[c][p].ino] = Resized(@, n)]
    /\ UNCHANGED <<server, cache, file, sems, app>>

(***************************************************************************)
(* A client crashes and starts again.  The server publishes what it has    *)
(* collected of an upload.  loadCache brings back at most one entry, the   *)
(* first of the cache file, and as a clean one.  (A client starts again    *)
(* only after the server has seen its streams end.)                        *)
(***************************************************************************)
Reloaded(entries) ==
    {[q \in Path |-> IF q = p THEN Clean(entries[p].ino) ELSE NoEntry] : p \in Path}
        \cup {[q \in Path |-> NoEntry]}

Crash(c) ==
    /\ "crash" \in Faults
    /\ \E entries \in Reloaded(cache[c]) : cache' = [cache EXCEPT ![c] = entries]
    /\ file' = [file EXCEPT ![c] = [f \in Fd |-> NoIno]]
    /\ opSem' = [opSem EXCEPT ![c] = 1]
    /\ clientSem' = [clientSem EXCEPT ![c] = 1]
    /\ app' = [a \in App |-> IF Home[a] = c THEN Idle ELSE app[a]]
    /\ IF \E a \in App : Home[a] = c /\ app[a].at = "closing"
       THEN \E a \in App :
                /\ Home[a] = c /\ app[a].at = "closing"
                /\ Publish(app[a].path, app[a].sent)
       ELSE UNCHANGED server
    /\ UNCHANGED local

-----------------------------------------------------------------------------
\* The steps an operation takes once it has begun.
Proceed(a) ==
    \/ OpenLocalCopy(a) \/ OpenNoCopy(a)
    \/ StoreMessage(a)
    \/ EndOpen(a)
    \/ EndCreate(a) \/ CreateNoCopy(a)
    \/ WriteFile(a)
    \/ SendMessage(a)
    \/ EndClose(a)
    \/ EndRename(a)

\* The calls an application may make.
Operation(a) ==
    \/ \E p \in Path :
        \/ OpenFile(a, p)
        \/ OpenVanished(a, p)
        \/ CreateFile(a, p)
        \/ \E truncating \in BOOLEAN : CreateOverExisting(a, p, truncating)
        \/ CreateRefused(a, p)
        \/ CreateLost(a, p)
        \/ DeleteFile(a, p)
        \/ DeleteLost(a, p)
        \/ \E q \in Path : RenameFile(a, p, q) \/ RenameDirectory(a, p, q)
    \/ PWriteFails(a)
    \/ \E k \in 1 .. MaxLen, ch \in Chunk : PWrite(a, k, ch)
    \/ ReadBadFd(a)
    \/ \E last \in MayBeLast :
        CloseUnsent(a, last) \/ CloseFile(a, last) \/ CloseNoCopy(a, last)

\* A stream ends, or a call, that should not have.
Fail(a) == StoreFails(a) \/ SendFails(a) \/ CloseLost(a) \/ RenameLost(a)

Next ==
    \/ \E a \in App : Proceed(a) \/ Fail(a) \/ Operation(a)
    \/ \E c \in Client :
        \/ Crash(c)
        \/ \E p \in Path, n \in 0 .. MaxLen : TruncateFile(c, p, n)

Spec == Init /\ [][Next]_vars

\* FUSE's threads run, and the server answers.
FairSpec == Spec /\ \A a \in App : WF_vars(Proceed(a))

-----------------------------------------------------------------------------
(***************************************************************************)
(* Properties.                                                             *)
(***************************************************************************)
InLibrary(a) == app[a].at \in {"opening", "creating", "closing", "renaming"}

\* clientSem lets one operation of a client into the library at a time, and is
\* never lost on one of the operations' many returns: also when wiscAFS_read
\* has posted wiscOPSem without waiting for it.  The server relies on it: a
\* running client has at most one upload in progress.
OneLibraryCall ==
    \A c \in Client :
        LET inside == {a \in App : Home[a] = c /\ InLibrary(a)} IN
        /\ \A a, b \in inside : a = b
        /\ clientSem[c] = 0 <=> inside # {}

\* Every operation that has begun returns, whatever becomes of the stream it
\* carries, and while others write to the local copy it reads and truncate it.
\* (An upload reads to the end of the copy: one that others make longer all the
\* time keeps it going, and every other call of the client waiting.  Here a copy
\* stops growing, at MaxLen chunks.)
OperationsReturn ==
    \A a \in App : InLibrary(a) ~> ~InLibrary(a)

\* "We write back the updated files to server only after a close, provided
\* they were modified by a write" (report.pdf, section 1): a close that returns
\* success, of a file its application has written to, leaves on the server what
\* the application had in its copy.  (A close whose stream breaks may return
\* success too, and leave nothing: this holds only without "down".)
WritesWrittenBack ==
    [][\A a \in App, last \in BOOLEAN :
        /\ CloseUnsent(a, last) \/ EndClose(a) \/ CloseLost(a)
        /\ app[a].wrote
        => /\ dir'[app[a].path] # NoIno
           /\ data'[dir'[app[a].path]] = local[Home[a]][Local(a)]]_vars

(***************************************************************************)
(* The inductive invariant of the clients, when files are not shared on a  *)
(* client ("shared", "moved"), opens find their file ("vanish"), and       *)
(* descriptors are closed once ("dup").                                    *)
(***************************************************************************)
HasFd(a) == HasFile(a) \/ (app[a].at = "opening" /\ app[a].fd # NoFd)

\* The open files of a client differ in their paths, descriptors and copies.
FilesApart ==
    \A a \in App : HasFd(a) =>
        /\ app[a].fd # NoFd
        /\ Local(a) # NoIno
        /\ \A b \in App : HasFd(b) /\ Home[a] = Home[b] /\ a # b =>
            /\ app[a].fd # app[b].fd
            /\ Local(a) # Local(b)
            /\ app[a].path # app[b].path

\* Two paths of the server never have one inode.
InodesApart == \A p, q \in Path : dir[p] # NoIno /\ dir[p] = dir[q] => p = q

\* The cache leads from an open path to the copy its application uses, and
\* the entry is dirty if the application has written.
EntriesRight ==
    \A a \in App : HasFd(a) =>
        LET e == cache[Home[a]][app[a].path] IN
        /\ e.ino = Local(a)
        /\ app[a].at = "opening" => ~e.dirty
        /\ app[a].at \in {"open", "closing"} => e.dirty = app[a].wrote
        /\ app[a].at = "written" => app[a].wrote

\* A download in progress, or an upload, is the front part of its file.
CopiesRight ==
    \A a \in App :
        /\ app[a].at = "opening" /\ app[a].fd # NoFd =>
            /\ Local(a) = app[a].ino
            /\ Len(local[Home[a]][Local(a)]) = app[a].n
            /\ IsPrefixOf(local[Home[a]][Local(a)], app[a].src)
        /\ app[a].at = "closing" =>
            /\ app[a].wrote /\ app[a].ino = Local(a)
            /\ local[Home[a]][Local(a)] # <<>>
            /\ IsPrefixOf(app[a].sent, local[Home[a]][Local(a)])

IInv ==
    /\ TypeOK
    /\ OneLibraryCall
    /\ FilesApart
    /\ InodesApart
    /\ EntriesRight
    /\ CopiesRight

(***************************************************************************)
(* The clients and the server implement CloseToOpen.                       *)
(***************************************************************************)
StoreOf == [p \in Path |-> IF dir[p] = NoIno THEN NoIno ELSE data[dir[p]]]

SessionOf(a) ==
    CASE app[a].at = "opening"  -> [path |-> app[a].path, contents |-> app[a].src,
                                    modified |-> FALSE]
      [] app[a].at = "creating" -> [path |-> app[a].path, contents |-> app[a].src,
                                    modified |-> FALSE]
      [] HasFile(a)             -> [path |-> app[a].path,
                                    contents |-> local[Home[a]][Local(a)],
                                    modified |-> app[a].wrote]
      [] OTHER                  -> NoIno

Consistency == INSTANCE CloseToOpen WITH
    Nil <- NoIno, Weakened <- Faults,
    store <- StoreOf, session <- [a \in App |-> SessionOf(a)]

\* An open finds what the last close put there, a close puts back what its
\* application wrote, all of it and at one moment; and what is left of that
\* when a client or the server crashes, or a file is truncated.
ImplementsCloseToOpen == Consistency!Spec
=============================================================================
