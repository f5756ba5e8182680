------------------------------ MODULE AfsServer ------------------------------
(***************************************************************************)
(* The file-content half of wiscAFS_server.cc: the handlers that create,   *)
(* stream, replace, rename and delete files, run by the thread pool of a   *)
(* synchronous gRPC server.  The handlers take no lock: what orders them   *)
(* is the file system below, whose calls (open, read, write, close,        *)
(* rename, unlink) are the atomic steps of this module.                    *)
(*                                                                         *)
(* Every path has a second name, path + ".ttmmpp", under which an upload   *)
(* is collected before it is renamed over the path.                        *)
(***************************************************************************)
EXTENDS FileData

CONSTANTS
    Path,      \* the paths clients use
    Thread,    \* the threads that run handlers
    Ino,       \* inodes of the server's file system
    Fd,        \* descriptors of the server process
    Chunk,     \* what a chunk may hold
    Content,   \* the non-empty file contents clients upload
    NoIno,     \* no inode: a free name, a closed descriptor
    NoReply,   \* a stream that ended before its first message
    MaxReply,  \* bound of the model: chunks of one OpenFile stream
    Faults     \* which of the following may happen

(***************************************************************************)
(* "overlap": an upload of a path starts while another one is in progress. *)
(*   Two clients, or one that restarted, can do this; the CloseFile calls  *)
(*   of one running client are serialised by its clientSem.                *)
(* "cut": an upload stream ends before its last message (client crash).    *)
(* "clobber": O_CREAT|O_TRUNC reaches the server for a path that exists    *)
(*   (another client created it after this one's lookup).                  *)
(* "stray": an upload stream without messages, whose handler closes the    *)
(*   uninitialised variable fd.                                            *)
(* "wronly": OpenFile with the flag O_WRONLY, which the handler passes to  *)
(*   the open() it then reads from.                                        *)
(***************************************************************************)
FaultKinds == {"overlap", "cut", "clobber", "stray", "wronly"}

ASSUME ContentAssumption == Content \subseteq Seq(Chunk) \ {<<>>}
ASSUME NilAssumption ==
    /\ NoIno \notin Ino
    /\ NoReply \notin Seq(Chunk \cup {Hole})
ASSUME MaxReplyAssumption == MaxReply \in Nat
ASSUME FaultsAssumption == Faults \subseteq FaultKinds

VARIABLES
    dir,       \* path -> the inode it names, or NoIno
    tmp,       \* path -> the inode its ".ttmmpp" name names, or NoIno
    data,      \* inode -> the file's chunks
    file,      \* descriptor -> the inode it has open, or NoIno
    off,       \* descriptor -> its offset, in chunks
    call,      \* thread -> the call it is serving
    got        \* thread -> what its last OpenFile stream has carried so far

vars == <<dir, tmp, data, file, off, call, got>>

File == Seq(Chunk \cup {Hole})

Idle == [op |-> "idle"]

(***************************************************************************)
(* A call in progress.  "get" is OpenFile, whose local variable sz is      *)
(* left, in chunks, and whose descriptor can be read if rd.  "put" is      *)
(* CloseFile collecting the stream src, of which sent messages are         *)
(* written; "unlink" is CloseFile between its rename and its unlink.       *)
(***************************************************************************)
GetCall    == [op : {"get"}, fd : Fd, left : Nat, rd : BOOLEAN]
PutCall    == [op : {"put"}, path : Path, fd : Fd, src : Content, sent : Nat]
UnlinkCall == [op : {"unlink"}, path : Path]
Call       == {Idle} \cup GetCall \cup PutCall \cup UnlinkCall

TypeOK ==
    /\ dir  \in [Path -> Ino \cup {NoIno}]
    /\ tmp  \in [Path -> Ino \cup {NoIno}]
    /\ data \in [Ino -> File]
    /\ file \in [Fd -> Ino \cup {NoIno}]
    /\ off  \in [Fd -> Nat]
    /\ call \in [Thread -> Call]
    /\ got  \in [Thread -> File \cup {NoReply}]

Init ==
    /\ dir  = [p \in Path |-> NoIno]
    /\ tmp  = [p \in Path |-> NoIno]
    /\ data = [i \in Ino |-> <<>>]
    /\ file = [f \in Fd |-> NoIno]
    /\ off  = [f \in Fd |-> 0]
    /\ call = [t \in Thread |-> Idle]
    /\ got  = [t \in Thread |-> NoReply]

-----------------------------------------------------------------------------
(***************************************************************************)
(* The file system.                                                        *)
(***************************************************************************)

\* An inode is free when no name and no open descriptor refers to it.
FreeIno(i) ==
    /\ \A p \in Path : dir[p] # i /\ tmp[p] # i
    /\ \A f \in Fd : file[f] # i

FreeFd(f) == file[f] = NoIno

\* open() of inode i by the call c of thread t, at descriptor f.
OpenAt(t, f, i, c) ==
    /\ FreeFd(f)
    /\ file' = [file EXCEPT ![f] = i]
    /\ off'  = [off EXCEPT ![f] = 0]
    /\ call' = [call EXCEPT ![t] = c]

Return(t) == call' = [call EXCEPT ![t] = Idle]

Close(f) ==
    /\ file' = [file EXCEPT ![f] = NoIno]
    /\ off'  = [off EXCEPT ![f] = 0]

\* The open file behind thread t's descriptor.
Inode(t) == file[call[t].fd]
Offset(t) == off[call[t].fd]

-----------------------------------------------------------------------------
(***************************************************************************)
(* OpenFile: stream a file to the client.                                  *)
(***************************************************************************)
Readable == IF "wronly" \in Faults THEN BOOLEAN ELSE {TRUE}

OpenFile(t, p) ==
    /\ call[t].op = "idle"
    /\ dir[p] # NoIno
    /\ \E f \in Fd, rd \in Readable :
        OpenAt(t, f, dir[p], [op |-> "get", fd |-> f, left |-> Len(data[dir[p]]),
                              rd |-> rd])
    /\ got' = [got EXCEPT ![t] = NoReply]
    /\ UNCHANGED <<dir, tmp, data>>

\* open() fails (no such path, or no descriptor left): the handler returns
\* Status::OK and has written nothing to the stream.
OpenFileFails(t, p) ==
    /\ call[t].op = "idle"
    /\ dir[p] = NoIno \/ \A f \in Fd : ~FreeFd(f)
    /\ got' = [got EXCEPT ![t] = NoReply]
    /\ UNCHANGED <<dir, tmp, data, file, off, call>>

\* The chunks the stream has carried.
Received(t) == IF got[t] = NoReply THEN <<>> ELSE got[t]

\* Deliberately wrong: the loop goes on after sz has reached 0.
SendChunk_NoSizeTest(t) ==
    /\ call[t].op = "get"
    /\ call[t].rd /\ Inode(t) # NoIno
    /\ Offset(t) < Len(data[Inode(t)])
    /\ Len(Received(t)) < MaxReply
    /\ got' = [got EXCEPT ![t] = Append(Received(t), data[Inode(t)][Offset(t) + 1])]
    /\ off' = [off EXCEPT ![call[t].fd] = @ + 1]
    /\ call' = [call EXCEPT ![t].left = @ - 1]
    /\ UNCHANGED <<dir, tmp, data, file>>

\* One turn of the loop that reads a chunk and writes it to the stream.  sz
\* counts down only while 1024 bytes or more are left, so a short last chunk
\* leaves it where it was.
SendChunk(t) ==
    /\ call[t].op = "get"
    /\ call[t].left > 0
    /\ call[t].rd /\ Inode(t) # NoIno
    /\ Offset(t) < Len(data[Inode(t)])
    /\ Len(Received(t)) < MaxReply
    /\ got' = [got EXCEPT ![t] = Append(Received(t), data[Inode(t)][Offset(t) + 1])]
    /\ off' = [off EXCEPT ![call[t].fd] = @ + 1]
    /\ \/ call' = [call EXCEPT ![t].left = @ - 1]
       \/ call[t].left = 1 /\ UNCHANGED call
    /\ UNCHANGED <<dir, tmp, data, file>>

\* Deliberately wrong: the loop ends at sz == 0, and nothing more is sent.
SendEmptyChunk_Silent(t) ==
    /\ call[t].op = "get"
    /\ call[t].left = 0
    /\ Close(call[t].fd)
    /\ Return(t)
    /\ UNCHANGED <<dir, tmp, data, got>>

\* sz has reached 0: one more message, with no data, ends the stream.
SendEmptyChunk(t) ==
    /\ call[t].op = "get"
    /\ call[t].left = 0
    /\ got' = [got EXCEPT ![t] = Received(t)]
    /\ Close(call[t].fd)
    /\ Return(t)
    /\ UNCHANGED <<dir, tmp, data>>

\* Deliberately wrong: the test for bytesRead == 0 is missing.
StopAtEndOfFile_Missing(t) ==
    /\ call[t].op = "get"
    /\ call[t].left > 0
    /\ call[t].rd /\ Inode(t) # NoIno
    /\ Offset(t) >= Len(data[Inode(t)])
    /\ UNCHANGED vars

\* read() returns 0 although sz is not 0: the loop stops.
StopAtEndOfFile(t) ==
    /\ call[t].op = "get"
    /\ call[t].left > 0
    /\ call[t].rd /\ Inode(t) # NoIno
    /\ Offset(t) >= Len(data[Inode(t)])
    /\ Close(call[t].fd)
    /\ Return(t)
    /\ UNCHANGED <<dir, tmp, data, got>>

\* read() fails, on a write-only descriptor or one that was closed behind the
\* handler's back.  The handler answers Status::OK all the same, and does not
\* close its descriptor.
ReadFails(t) ==
    /\ call[t].op = "get"
    /\ call[t].left > 0
    /\ ~(call[t].rd /\ Inode(t) # NoIno)
    /\ Return(t)
    /\ UNCHANGED <<dir, tmp, data, file, off, got>>

-----------------------------------------------------------------------------
(***************************************************************************)
(* CloseFile: collect a stream in the temporary file, then publish it.     *)
(***************************************************************************)

\* Thread t is in the middle of a CloseFile of path p.
Uploading(t, p) == call[t].op \in {"put", "unlink"} /\ call[t].path = p

\* Deliberately wrong: open() without O_TRUNC.
Truncated_Missing(s) == s

\* What O_TRUNC leaves of a file.
Truncated(s) == <<>>

\* Deliberately wrong: one temporary name for all paths.
TempName_Shared(p) == CHOOSE q \in Path : TRUE

\* The name of the temporary file of path p, written as the path it is for.
TempName(p) == p

\* The first message: create or truncate the temporary file.
CloseFile(t, p, src) ==
    /\ call[t].op = "idle"
    /\ "overlap" \in Faults \/ \A u \in Thread : ~Uploading(u, p)
    /\ \E i \in Ino :
        /\ IF tmp[TempName(p)] = NoIno THEN FreeIno(i) ELSE i = tmp[TempName(p)]
        /\ tmp'  = [tmp EXCEPT ![TempName(p)] = i]
        /\ data' = [data EXCEPT ![i] = Truncated(@)]
        /\ \E f \in Fd :
            OpenAt(t, f, i, [op |-> "put", path |-> p, fd |-> f,
                             src |-> src, sent |-> 0])
    /\ UNCHANGED <<dir, got>>

\* The write of one message, at the offset of the handler's own descriptor.
WriteChunk(t) ==
    /\ call[t].op = "put"
    /\ call[t].sent < Len(call[t].src)
    /\ Inode(t) # NoIno
    /\ data' = [data EXCEPT ![Inode(t)] =
                    WriteAt(@, Offset(t) + 1, call[t].src[call[t].sent + 1])]
    /\ off'  = [off EXCEPT ![call[t].fd] = @ + 1]
    /\ call' = [call EXCEPT ![t].sent = @ + 1]
    /\ UNCHANGED <<dir, tmp, file, got>>

\* Deliberately wrong: the descriptor is not closed.
WriteFails_Leak(t) ==
    /\ call[t].op = "put"
    /\ call[t].sent < Len(call[t].src)
    /\ Return(t)
    /\ UNCHANGED <<dir, tmp, data, file, off, got>>

\* write() fails (no space, or the descriptor is closed): the handler closes
\* the temporary file, leaves it where it is and answers -1.
WriteFails(t) ==
    /\ call[t].op = "put"
    /\ call[t].sent < Len(call[t].src)
    /\ Close(call[t].fd)
    /\ Return(t)
    /\ UNCHANGED <<dir, tmp, data, got>>

\* reader->Read() returned false.  The handler cannot tell the end of the
\* stream from a stream that was cut.
StreamEnded(t) ==
    \/ call[t].sent = Len(call[t].src)
    \/ "cut" \in Faults /\ call[t].sent > 0

\* Deliberately wrong: the path is unlinked before the rename.
Publish_UnlinkFirst(t, p) ==
    IF dir[p] # NoIno
    THEN dir' = [dir EXCEPT ![p] = NoIno] /\ UNCHANGED <<tmp, call, file, off>>
    ELSE /\ dir'  = [dir EXCEPT ![p] = tmp[p]]
         /\ tmp'  = [tmp EXCEPT ![p] = NoIno]
         /\ call' = [call EXCEPT ![t] = [op |-> "unlink", path |-> p]]
         /\ Close(call[t].fd)

\* Deliberately wrong: link() instead of rename(), the temporary name stays.
Publish_Link(t, p) ==
    /\ Close(call[t].fd)
    /\ dir'  = [dir EXCEPT ![p] = tmp[TempName(p)]]
    /\ Return(t)
    /\ UNCHANGED tmp

\* close(fd); rename(tempPath, path).  The rename fails when the temporary
\* name is gone, and the handler then answers -1.
Publish(t, p) ==
    /\ Close(call[t].fd)
    /\ IF tmp[TempName(p)] = NoIno
       THEN Return(t) /\ UNCHANGED <<dir, tmp>>
       ELSE /\ dir'  = [dir EXCEPT ![p] = tmp[TempName(p)]]
            /\ tmp'  = [tmp EXCEPT ![TempName(p)] = NoIno]
            /\ call' = [call EXCEPT ![t] = [op |-> "unlink", path |-> p]]

\* Deliberately wrong: published before the last message is written.
EndOfStream_Early(t) ==
    /\ call[t].op = "put"
    /\ call[t].sent > 0
    /\ Publish(t, call[t].path)
    /\ UNCHANGED <<data, got>>

\* The loop over the stream is over.
EndOfStream(t) ==
    /\ call[t].op = "put"
    /\ StreamEnded(t)
    /\ Publish(t, call[t].path)
    /\ UNCHANGED <<data, got>>

\* After a successful rename: unlink(tempPath).  The name is free unless
\* another upload of the path has created it again since.
UnlinkTemp(t) ==
    /\ call[t].op = "unlink"
    /\ tmp' = [tmp EXCEPT ![TempName(call[t].path)] = NoIno]
    /\ Return(t)
    /\ UNCHANGED <<dir, data, file, off, got>>

\* A stream without messages: close() of an uninitialised variable hits a
\* descriptor of another call (or none, which changes nothing), and
\* rename("", "") fails.
StrayClose(t, f) ==
    /\ "stray" \in Faults
    /\ call[t].op = "idle"
    /\ ~FreeFd(f)
    /\ Close(f)
    /\ UNCHANGED <<dir, tmp, data, call, got>>

-----------------------------------------------------------------------------
(***************************************************************************)
(* The handlers of one system call.                                        *)
(***************************************************************************)

\* CreateFile of a path that does not exist.
CreateFile(t, p) ==
    /\ call[t].op = "idle"
    /\ dir[p] = NoIno
    /\ \E f \in Fd : FreeFd(f)
    /\ \E i \in Ino :
        /\ FreeIno(i)
        /\ dir'  = [dir EXCEPT ![p] = i]
        /\ data' = [data EXCEPT ![i] = <<>>]
    /\ UNCHANGED <<tmp, file, off, call, got>>

\* CreateFile with O_TRUNC of a path that exists empties the file in place.
CreateOverExisting(t, p) ==
    /\ "clobber" \in Faults
    /\ call[t].op = "idle"
    /\ dir[p] # NoIno
    /\ \E f \in Fd : FreeFd(f)
    /\ data' = [data EXCEPT ![dir[p]] = <<>>]
    /\ UNCHANGED <<dir, tmp, file, off, call, got>>

RenameFile(t, p, q) ==
    /\ call[t].op = "idle"
    /\ p # q
    /\ dir[p] # NoIno
    /\ dir' = [dir EXCEPT ![q] = dir[p], ![p] = NoIno]
    /\ UNCHANGED <<tmp, data, file, off, call, got>>

DeleteFile(t, p) ==
    /\ call[t].op = "idle"
    /\ dir[p] # NoIno
    /\ dir' = [dir EXCEPT ![p] = NoIno]
    /\ UNCHANGED <<tmp, data, file, off, call, got>>

(***************************************************************************)
(* A crash of the server process ends every call and closes every          *)
(* descriptor.  Names and contents survive; nothing is cleaned up when the *)
(* server starts again.                                                    *)
(***************************************************************************)
Crash ==
    /\ file' = [f \in Fd |-> NoIno]
    /\ off'  = [f \in Fd |-> 0]
    /\ call' = [t \in Thread |-> Idle]
    /\ got'  = [t \in Thread |-> IF call[t].op = "get" THEN NoReply ELSE got[t]]
    /\ UNCHANGED <<dir, tmp, data>>

-----------------------------------------------------------------------------
\* The steps a call takes once it has begun.
Proceed(t) ==
    \/ SendChunk(t)
    \/ SendEmptyChunk(t)
    \/ StopAtEndOfFile(t)
    \/ ReadFails(t)
    \/ WriteChunk(t)
    \/ WriteFails(t)
    \/ EndOfStream(t)
    \/ UnlinkTemp(t)

\* The requests that may arrive.
Request(t) ==
    \/ \E p \in Path :
        \/ OpenFile(t, p)
        \/ OpenFileFails(t, p)
        \/ \E src \in Content : CloseFile(t, p, src)
        \/ CreateFile(t, p)
        \/ CreateOverExisting(t, p)
        \/ \E q \in Path : RenameFile(t, p, q)
        \/ DeleteFile(t, p)
    \/ \E f \in Fd : StrayClose(t, f)

Next == Crash \/ \E t \in Thread : Proceed(t) \/ Request(t)

Spec == Init /\ [][Next]_vars

\* The thread pool runs every thread, and a client keeps sending until its
\* stream is over: a call that has begun is not left waiting forever.
FairSpec == Spec /\ \A t \in Thread : WF_vars(Proceed(t))

-----------------------------------------------------------------------------
(***************************************************************************)
(* Properties.                                                             *)
(***************************************************************************)

\* Whatever fails, crashes or races in the handlers, an inode of the store
\* has at most one name: no two paths share their contents, and no
\* temporary name leads to a published file, which the next upload of the
\* path would truncate in place (rename() of CloseFile and RenameFile).
NamesDistinct ==
    \A p, q \in Path :
        /\ dir[p] # NoIno /\ dir[p] = dir[q] => p = q
        /\ tmp[p] # NoIno /\ tmp[p] = tmp[q] => p = q
        /\ dir[p] # NoIno => dir[p] # tmp[q]

\* What a path names is, at every moment, all of one upload (or the empty
\* file it was created as), through failed writes and crashes of the server
\* between any two system calls of CloseFile: the reason for the temporary
\* file.  "The server will therefore retain the data written by the client
\* that closed last" (report.pdf, section 2.2).
PublishedWhole ==
    \A p \in Path : dir[p] # NoIno => data[dir[p]] \in Content \cup {<<>>}

\* When upload streams may be cut, the worst a path can name is the front
\* part of one upload: chunks of two uploads are never mixed and nothing is
\* left over from an older temporary file.
PublishedPrefix ==
    \A p \in Path : dir[p] # NoIno => \E c \in Content : IsPrefixOf(data[dir[p]], c)

\* A CloseFile that is still collecting its stream has the file it writes
\* under its temporary name, so that its rename will publish that file: no
\* crash, rename, delete or upload of another path takes it away.
TempOwned ==
    \A t \in Thread : call[t].op = "put" =>
        tmp[TempName(call[t].path)] = Inode(t)

\* One OpenFile stream never carries chunks of two uploads: at every moment
\* it has carried the front part of one.  Uploads replace the path while the
\* stream reads the old file, which stays as it is; an O_CREAT|O_TRUNC that
\* empties that file in place cuts the stream short, and nobody fills the
\* file again.
DownloadsUnmixed ==
    \A t \in Thread :
        got[t] # NoReply => \E c \in Content : IsPrefixOf(got[t], c)

\* A path that exists stops existing only by a DeleteFile or a RenameFile of
\* it; in particular there is no moment at which an upload has removed the
\* old file and not yet put the new one in its place.
PathsPersist ==
    [][\A p \in Path : dir[p] # NoIno /\ dir'[p] = NoIno =>
        \E t \in Thread :
            DeleteFile(t, p) \/ \E q \in Path : RenameFile(t, p, q)]_vars

\* A stray close has taken the descriptor of t's OpenFile from it, or sent it
\* on to another file and so past the longest contents there are.
Astray(t) ==
    /\ call[t].op = "get"
    /\ Inode(t) = NoIno \/ (Len(Received(t)) = MaxReply
                             /\ \A c \in Content : Len(c) < MaxReply)

\* Every call that a thread has begun returns, whatever other handlers do to
\* the file meanwhile (OpenFile's loop counts with a size that was read once,
\* before the loop), unless a stray close leads it astray.
CallsReturn ==
    \A t \in Thread : call[t].op # "idle" ~> call[t].op = "idle" \/ Astray(t)

-----------------------------------------------------------------------------
HasFd(t) == call[t].op \in {"get", "put"}

\* No descriptor outlives the call it was opened for, whichever way the call
\* ends: the handlers never run the server out of descriptors.
DescriptorsHeld ==
    \A f \in Fd : file[f] # NoIno =>
        \E t \in Thread : HasFd(t) /\ call[t].fd = f

\* An OpenFile that found its file, and was not ended by a crash, has sent at
\* least one message by the time it returns.  The client takes the inode that
\* names its local copy, and the descriptor it gives the application, from
\* the first message.  "with os_open(fullname, os.O_WRONLY) as fd" of a file
\* that is not empty (tests/test_unreliablefs.py, test_append and test_seek).
OpensAnswered ==
    [][\A t \in Thread :
        call[t].op = "get" /\ call'[t].op = "idle" => Crash \/ got'[t] # NoReply]_vars

(***************************************************************************)
(* The inductive invariant, for the runs of the server in which none of    *)
(* the Faults happens.                                                     *)
(***************************************************************************)
UploadsApart ==
    \A t, u \in Thread, p \in Path : Uploading(t, p) /\ Uploading(u, p) => t = u

\* The descriptors of the calls in progress are open, and not shared.
FdsApart ==
    \A t \in Thread : HasFd(t) =>
        /\ Inode(t) # NoIno
        /\ \A u \in Thread : HasFd(u) /\ call[t].fd = call[u].fd => t = u

\* The temporary file holds what has been sent so far.
Collected ==
    \A t \in Thread : call[t].op = "put" =>
        /\ call[t].sent <= Len(call[t].src)
        /\ Offset(t) = call[t].sent
        /\ Len(data[Inode(t)]) = call[t].sent
        /\ \A j \in 1 .. call[t].sent : data[Inode(t)][j] = call[t].src[j]

\* What a download has carried is the front part of the file it has open,
\* and left is what remains of it, unless the last chunk was a short one.
Carried ==
    \A t \in Thread : call[t].op = "get" =>
        /\ call[t].rd
        /\ \/ Offset(t) + call[t].left = Len(data[Inode(t)])
           \/ Offset(t) = Len(data[Inode(t)]) /\ Offset(t) > 0 /\ call[t].left = 1
        /\ IF got[t] = NoReply
           THEN Offset(t) = 0
           ELSE /\ Offset(t) > 0
                /\ Len(got[t]) = Offset(t)
                /\ \A j \in 1 .. Offset(t) : got[t][j] = data[Inode(t)][j]

\* No temporary name leads to a file that is being streamed.
TempsUnread ==
    \A t \in Thread, p \in Path :
        call[t].op = "get" /\ Inode(t) # NoIno => tmp[p] # Inode(t)

\* One uploader per path, and every temporary file is what was sent.
UploadInv ==
    /\ TypeOK
    /\ NamesDistinct
    /\ TempOwned
    /\ UploadsApart
    /\ FdsApart
    /\ Collected

IInv ==
    /\ UploadInv
    /\ PublishedWhole
    /\ TempsUnread
    /\ Carried

(***************************************************************************)
(* The server implements FileStore: uploads are atomic, and a download     *)
(* returns the contents of one moment.                                     *)
(***************************************************************************)
StoreOf == [p \in Path |-> IF dir[p] = NoIno THEN NoReply ELSE data[dir[p]]]

ViewOf == [t \in Thread |->
    IF call[t].op = "get" /\ Inode(t) # NoIno THEN data[Inode(t)] ELSE NoReply]

ReplyOf == [t \in Thread |-> IF call[t].op = "get" THEN NoReply ELSE got[t]]

Store == INSTANCE FileStore WITH
    Client <- Thread, Value <- Content, Empty <- <<>>, Nil <- NoReply,
    store <- StoreOf, view <- ViewOf, reply <- ReplyOf

\* A download whose stream ended normally returns exactly the contents its
\* path had when it began, an upload changes one path at one instant.
ImplementsFileStore == Store!Spec
=============================================================================
