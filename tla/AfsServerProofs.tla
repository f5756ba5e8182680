--------------------------- MODULE AfsServerProofs ---------------------------
(***************************************************************************)
(* Theorems about AfsServer, for every value of its constants.             *)
(***************************************************************************)
EXTENDS AfsServer, TLAPS

USE DEF TempName, Truncated

(***************************************************************************)
(* Lemmas about the operators.                                             *)
(***************************************************************************)

\* The four kinds of call are told apart by op.
LEMMA CallKinds ==
    ASSUME NEW c \in Call
    PROVE  /\ c.op = "idle" => c = Idle
           /\ c.op = "get" => c \in GetCall
           /\ c.op = "put" => c \in PutCall
           /\ c.op = "unlink" => c \in UnlinkCall
           /\ c.op \in {"idle", "get", "put", "unlink"}
  BY DEF Call, Idle, GetCall, PutCall, UnlinkCall

\* Without "wronly" every descriptor OpenFile has opened can be read.
LEMMA ReadableType ==
    ASSUME NEW rd \in Readable
    PROVE  rd \in BOOLEAN /\ (Faults = {} => rd = TRUE)
  <1>1. CASE "wronly" \in Faults
    BY <1>1 DEF Readable
  <1>2. CASE "wronly" \notin Faults
    BY <1>2 DEF Readable
  <1>3. QED
    BY <1>1, <1>2

\* A write keeps a file a file.
LEMMA WriteAtType ==
    ASSUME NEW s \in File, NEW k \in Nat \ {0}, NEW c \in Chunk
    PROVE  /\ WriteAt(s, k, c) \in File
           /\ Len(WriteAt(s, k, c)) = IF k > Len(s) THEN k ELSE Len(s)
  <1> DEFINE n == IF k > Len(s) THEN k ELSE Len(s)
  <1>1. n \in Nat /\ Len(s) \in Nat
    BY DEF File
  <1>2. \A j \in 1 .. n :
          (IF j = k THEN c ELSE IF j \in 1 .. Len(s) THEN s[j] ELSE Hole)
              \in Chunk \cup {Hole}
    BY DEF File
  <1>3. WriteAt(s, k, c) \in [1 .. n -> Chunk \cup {Hole}]
    BY <1>2 DEF WriteAt
  <1>4. QED
    BY <1>1, <1>3 DEF File

\* A write at the end of a file appends to it.
LEMMA WriteAtEnd ==
    ASSUME NEW s \in File, NEW c \in Chunk
    PROVE  /\ Len(WriteAt(s, Len(s) + 1, c)) = Len(s) + 1
           /\ WriteAt(s, Len(s) + 1, c)[Len(s) + 1] = c
           /\ \A j \in 1 .. Len(s) : WriteAt(s, Len(s) + 1, c)[j] = s[j]
  <1>1. Len(s) \in Nat
    BY DEF File
  <1>2. Len(WriteAt(s, Len(s) + 1, c)) = Len(s) + 1
    BY <1>1, WriteAtType
  <1>3. WriteAt(s, Len(s) + 1, c) =
          [j \in 1 .. (Len(s) + 1) |->
              IF j = Len(s) + 1 THEN c ELSE IF j \in 1 .. Len(s) THEN s[j] ELSE Hole]
    BY <1>1 DEF WriteAt
  <1>4. WriteAt(s, Len(s) + 1, c)[Len(s) + 1] = c
    BY <1>1, <1>3
  <1>5. \A j \in 1 .. Len(s) : WriteAt(s, Len(s) + 1, c)[j] = s[j]
    <2>1. SUFFICES ASSUME NEW j \in 1 .. Len(s)
                   PROVE  WriteAt(s, Len(s) + 1, c)[j] = s[j]
      OBVIOUS
    <2>2. j \in 1 .. (Len(s) + 1) /\ j # Len(s) + 1
      BY <1>1
    <2>3. QED
      BY <1>3, <2>2
  <1>6. QED
    BY <1>2, <1>4, <1>5

(***************************************************************************)
(* Type correctness, whatever faults may happen.                           *)
(***************************************************************************)
LEMMA InitType == Init => TypeOK
  BY DEF Init, TypeOK, File, Call

LEMMA DownloadStepType ==
    ASSUME TypeOK, NEW t \in Thread,
           \/ \E p \in Path : OpenFile(t, p) \/ OpenFileFails(t, p)
           \/ SendChunk(t) \/ SendEmptyChunk(t)
           \/ StopAtEndOfFile(t) \/ ReadFails(t)
    PROVE  TypeOK'
  <1>1. ASSUME NEW p \in Path, OpenFile(t, p) PROVE TypeOK'
    <2>1. PICK f \in Fd, rd \in Readable :
            OpenAt(t, f, dir[p], [op |-> "get", fd |-> f, left |-> Len(data[dir[p]]),
                                  rd |-> rd])
      BY <1>1 DEF OpenFile
    <2>2. dir[p] \in Ino /\ Len(data[dir[p]]) \in Nat
      BY <1>1 DEF OpenFile, TypeOK, File
    <2>3. rd \in BOOLEAN
      BY ReadableType
    <2>4. [op |-> "get", fd |-> f, left |-> Len(data[dir[p]]), rd |-> rd] \in Call
      BY <2>2, <2>3 DEF Call, GetCall
    <2>5. QED
      BY <1>1, <2>1, <2>2, <2>4 DEF OpenFile, OpenAt, TypeOK
  <1>2. ASSUME NEW p \in Path, OpenFileFails(t, p) PROVE TypeOK'
    BY <1>2 DEF OpenFileFails, TypeOK
  <1>3. CASE SendChunk(t)
    <2>1. call[t] \in GetCall /\ call[t].left \in Nat \ {0} /\ call[t].fd \in Fd
      BY <1>3, CallKinds DEF SendChunk, TypeOK, GetCall
    <2>2. Inode(t) \in Ino /\ Offset(t) \in Nat
      BY <1>3, <2>1 DEF SendChunk, TypeOK, Inode, Offset
    <2>3. data[Inode(t)][Offset(t) + 1] \in Chunk \cup {Hole}
      BY <1>3, <2>2 DEF SendChunk, TypeOK, File
    <2>4. Append(Received(t), data[Inode(t)][Offset(t) + 1]) \in File
      BY <2>3 DEF Received, TypeOK, File
    <2>5. call' \in [Thread -> Call]
      <3>1. [call[t] EXCEPT !.left = @ - 1] \in GetCall
        BY <2>1 DEF GetCall
      <3>2. QED
        BY <1>3, <3>1 DEF SendChunk, TypeOK, Call
    <2>6. off' \in [Fd -> Nat]
      <3>1. off[call[t].fd] + 1 \in Nat
        BY <2>2 DEF Offset
      <3>2. QED
        BY <1>3, <3>1 DEF SendChunk, TypeOK
    <2>7. got' \in [Thread -> File \cup {NoReply}]
      BY <1>3, <2>4 DEF SendChunk, TypeOK
    <2>8. QED
      BY <1>3, <2>5, <2>6, <2>7 DEF SendChunk, TypeOK
  <1>4. CASE SendEmptyChunk(t)
    <2>1. Received(t) \in File
      BY DEF Received, TypeOK, File
    <2>2. QED
      BY <1>4, <2>1 DEF SendEmptyChunk, Close, Return, TypeOK, Call
  <1>5. CASE StopAtEndOfFile(t)
    BY <1>5 DEF StopAtEndOfFile, Close, Return, TypeOK, Call
  <1>6. CASE ReadFails(t)
    BY <1>6 DEF ReadFails, Return, TypeOK, Call
  <1>7. QED
    BY <1>1, <1>2, <1>3, <1>4, <1>5, <1>6

LEMMA UploadStepType ==
    ASSUME TypeOK, NEW t \in Thread,
           \/ \E p \in Path, src \in Content : CloseFile(t, p, src)
           \/ WriteChunk(t) \/ WriteFails(t) \/ EndOfStream(t) \/ UnlinkTemp(t)
           \/ \E f \in Fd : StrayClose(t, f)
    PROVE  TypeOK'
  <1>1. ASSUME NEW p \in Path, NEW src \in Content, CloseFile(t, p, src)
        PROVE  TypeOK'
    <2>1. PICK i \in Ino :
            /\ tmp' = [tmp EXCEPT ![p] = i]
            /\ data' = [data EXCEPT ![i] = <<>>]
            /\ \E f \in Fd : OpenAt(t, f, i, [op |-> "put", path |-> p, fd |-> f,
                                              src |-> src, sent |-> 0])
      BY <1>1 DEF CloseFile
    <2>2. PICK f \in Fd : OpenAt(t, f, i, [op |-> "put", path |-> p, fd |-> f,
                                          src |-> src, sent |-> 0])
      BY <2>1
    <2>3. [op |-> "put", path |-> p, fd |-> f, src |-> src, sent |-> 0] \in Call
      BY DEF Call, PutCall
    <2>4. <<>> \in File
      BY DEF File
    <2>5. QED
      BY <1>1, <2>1, <2>2, <2>3, <2>4 DEF CloseFile, OpenAt, TypeOK
  <1>2. CASE WriteChunk(t)
    <2>1. /\ call[t] \in PutCall /\ call[t].fd \in Fd /\ call[t].sent \in Nat
          /\ call[t].src \in Seq(Chunk) /\ call[t].sent < Len(call[t].src)
      BY <1>2, CallKinds, ContentAssumption DEF WriteChunk, TypeOK, PutCall
    <2>2. Inode(t) \in Ino /\ Offset(t) \in Nat
      BY <1>2, <2>1 DEF WriteChunk, TypeOK, Inode, Offset
    <2>3. call[t].src[call[t].sent + 1] \in Chunk
      BY <2>1
    <2>4. data[Inode(t)] \in File
      BY <2>2 DEF TypeOK
    <2>5. WriteAt(data[Inode(t)], Offset(t) + 1, call[t].src[call[t].sent + 1]) \in File
      BY <2>2, <2>3, <2>4, WriteAtType
    <2>6. data' \in [Ino -> File]
      BY <1>2, <2>5 DEF WriteChunk, TypeOK
    <2>7. off' \in [Fd -> Nat]
      <3>1. off[call[t].fd] + 1 \in Nat
        BY <2>2 DEF Offset
      <3>2. QED
        BY <1>2, <3>1 DEF WriteChunk, TypeOK
    <2>8. call' \in [Thread -> Call]
      <3>1. [call[t] EXCEPT !.sent = @ + 1] \in PutCall
        BY <2>1 DEF PutCall
      <3>2. QED
        BY <1>2, <3>1 DEF WriteChunk, TypeOK, Call
    <2>9. QED
      BY <1>2, <2>6, <2>7, <2>8 DEF WriteChunk, TypeOK
  <1>3. CASE WriteFails(t)
    BY <1>3 DEF WriteFails, Close, Return, TypeOK, Call
  <1>4. CASE EndOfStream(t)
    <2>1. call[t].path \in Path
      BY <1>4, CallKinds DEF EndOfStream, TypeOK, PutCall
    <2>2. [op |-> "unlink", path |-> call[t].path] \in Call
      BY <2>1 DEF Call, UnlinkCall
    <2>3. QED
      BY <1>4, <2>1, <2>2 DEF EndOfStream, Publish, Close, Return, TypeOK, Call
  <1>5. CASE UnlinkTemp(t)
    BY <1>5 DEF UnlinkTemp, Return, TypeOK, Call
  <1>6. ASSUME NEW f \in Fd, StrayClose(t, f) PROVE TypeOK'
    BY <1>6 DEF StrayClose, Close, TypeOK
  <1>7. QED
    BY <1>1, <1>2, <1>3, <1>4, <1>5, <1>6

LEMMA NameStepType ==
    ASSUME TypeOK, NEW t \in Thread, NEW p \in Path,
           \/ CreateFile(t, p) \/ CreateOverExisting(t, p) \/ DeleteFile(t, p)
           \/ \E q \in Path : RenameFile(t, p, q)
    PROVE  TypeOK'
  <1>1. <<>> \in File
    BY DEF File
  <1>2. QED
    BY <1>1 DEF CreateFile, CreateOverExisting, DeleteFile, RenameFile, TypeOK

LEMMA NextType == TypeOK /\ [Next]_vars => TypeOK'
  <1>1. ASSUME TypeOK, Crash PROVE TypeOK'
    BY <1>1 DEF Crash, TypeOK, Call
  <1>2. ASSUME TypeOK, NEW t \in Thread, Proceed(t) PROVE TypeOK'
    BY <1>2, DownloadStepType, UploadStepType DEF Proceed
  <1>3. ASSUME TypeOK, NEW t \in Thread, Request(t) PROVE TypeOK'
    BY <1>3, DownloadStepType, UploadStepType, NameStepType DEF Request
  <1>4. ASSUME TypeOK, UNCHANGED vars PROVE TypeOK'
    BY <1>4 DEF vars, TypeOK
  <1>5. QED
    BY <1>1, <1>2, <1>3, <1>4 DEF Next

\* The state of the server always has the shape its declarations give it.
THEOREM TypeCorrect == Spec => []TypeOK
  BY InitType, NextType, PTL DEF Spec

(***************************************************************************)
(* Names: no inode has two, whatever faults may happen.                    *)
(***************************************************************************)
LEMMA NamesStep ==
    ASSUME TypeOK, NamesDistinct, Next
    PROVE  NamesDistinct'
  <1>1. CASE Crash
    BY <1>1 DEF Crash, NamesDistinct
  <1>2. ASSUME NEW t \in Thread, Proceed(t), ~EndOfStream(t), ~UnlinkTemp(t)
        PROVE  NamesDistinct'
    <2>1. UNCHANGED <<dir, tmp>>
      BY <1>2 DEF Proceed, SendChunk, SendEmptyChunk, StopAtEndOfFile, ReadFails,
                  WriteChunk, WriteFails
    <2>2. QED
      BY <2>1 DEF NamesDistinct
  <1>3. ASSUME NEW t \in Thread, EndOfStream(t) PROVE NamesDistinct'
    <2>1. call[t].path \in Path
      BY <1>3, CallKinds DEF EndOfStream, TypeOK, PutCall
    <2>2. CASE tmp[call[t].path] = NoIno
      BY <1>3, <2>2 DEF EndOfStream, Publish, NamesDistinct
    <2>3. CASE tmp[call[t].path] # NoIno
      <3>1. /\ dir' = [dir EXCEPT ![call[t].path] = tmp[call[t].path]]
            /\ tmp' = [tmp EXCEPT ![call[t].path] = NoIno]
        BY <1>3, <2>3 DEF EndOfStream, Publish
      <3>2. QED
        BY <2>1, <2>3, <3>1 DEF NamesDistinct, TypeOK
    <2>4. QED
      BY <2>2, <2>3
  <1>4. ASSUME NEW t \in Thread, UnlinkTemp(t) PROVE NamesDistinct'
    BY <1>4 DEF UnlinkTemp, NamesDistinct, TypeOK
  <1>5. ASSUME NEW t \in Thread, NEW p \in Path, NEW src \in Content,
               CloseFile(t, p, src)
        PROVE  NamesDistinct'
    <2>1. PICK i \in Ino :
            /\ IF tmp[p] = NoIno THEN FreeIno(i) ELSE i = tmp[p]
            /\ tmp' = [tmp EXCEPT ![p] = i]
            /\ dir' = dir
      BY <1>5 DEF CloseFile
    <2>2. QED
      BY <2>1, NilAssumption DEF NamesDistinct, TypeOK, FreeIno
  <1>6. ASSUME NEW t \in Thread, NEW p \in Path, CreateFile(t, p)
        PROVE  NamesDistinct'
    BY <1>6, NilAssumption DEF CreateFile, FreeIno, NamesDistinct, TypeOK
  <1>7. ASSUME NEW t \in Thread, NEW p \in Path, NEW q \in Path, RenameFile(t, p, q)
        PROVE  NamesDistinct'
    BY <1>7 DEF RenameFile, NamesDistinct, TypeOK
  <1>8. ASSUME NEW t \in Thread, NEW p \in Path, DeleteFile(t, p)
        PROVE  NamesDistinct'
    BY <1>8 DEF DeleteFile, NamesDistinct, TypeOK
  <1>9. ASSUME NEW t \in Thread, NEW p \in Path,
               OpenFile(t, p) \/ OpenFileFails(t, p) \/ CreateOverExisting(t, p)
        PROVE  NamesDistinct'
    BY <1>9 DEF OpenFile, OpenFileFails, CreateOverExisting, NamesDistinct
  <1>10. ASSUME NEW t \in Thread, NEW f \in Fd, StrayClose(t, f)
         PROVE  NamesDistinct'
    BY <1>10 DEF StrayClose, NamesDistinct
  <1>11. ASSUME NEW t \in Thread, Request(t) PROVE NamesDistinct'
    BY <1>5, <1>6, <1>7, <1>8, <1>9, <1>10, <1>11 DEF Request
  <1>12. QED
    BY <1>1, <1>2, <1>3, <1>4, <1>11 DEF Next

\* No inode of the store ever has two names: no two paths share their
\* contents, and no upload can truncate a published file (rename() in
\* CloseFile and RenameFile).  It holds for overlapping and cut uploads and
\* across crashes too.
THEOREM NamesAreDistinct == Spec => []NamesDistinct
  <1>1. Init => NamesDistinct
    BY DEF Init, NamesDistinct
  <1>2. TypeOK /\ NamesDistinct /\ [Next]_vars => NamesDistinct'
    BY NamesStep DEF vars, NamesDistinct
  <1>3. QED
    BY <1>1, <1>2, TypeCorrect, PTL DEF Spec

(***************************************************************************)
(* Uploads, when no two CloseFile calls of one path overlap and no stray   *)
(* close happens.  Streams may be cut, and O_TRUNC may hit existing files. *)
(***************************************************************************)
OneUploader == "overlap" \notin Faults /\ "stray" \notin Faults

\* The fields of the calls that use a descriptor.
LEMMA CallFields ==
    ASSUME TypeOK, NEW t \in Thread
    PROVE  /\ HasFd(t) => call[t].fd \in Fd
           /\ call[t].op = "get" => call[t].left \in Nat
           /\ call[t].op \in {"put", "unlink"} => call[t].path \in Path
           /\ call[t].op = "put" =>
                /\ call[t].src \in Content
                /\ call[t].src \in Seq(Chunk)
                /\ Len(call[t].src) \in Nat
                /\ call[t].sent \in Nat
  BY CallKinds, ContentAssumption DEF TypeOK, HasFd, GetCall, PutCall, UnlinkCall

\* A thread that begins a call with a fresh descriptor leaves the others alone.
LEMMA OpenFrame ==
    ASSUME TypeOK, FdsApart, NEW t \in Thread, NEW f \in Fd, NEW i \in Ino,
           NEW c, c.op \in {"get", "put"}, c.fd = f, OpenAt(t, f, i, c)
    PROVE  /\ FdsApart'
           /\ call'[t] = c /\ Inode(t)' = i /\ Offset(t)' = 0
           /\ \A u \in Thread : u # t => call'[u] = call[u]
           /\ \A u \in Thread : u # t /\ HasFd(u) =>
                Inode(u)' = Inode(u) /\ Offset(u)' = Offset(u)
  <1>1. call'[t] = c /\ Inode(t)' = i /\ Offset(t)' = 0
    BY DEF OpenAt, TypeOK, Inode, Offset
  <1>2. \A u \in Thread : u # t => call'[u] = call[u]
    BY DEF OpenAt, TypeOK
  <1>3. ASSUME NEW u \in Thread, u # t, HasFd(u)
        PROVE  Inode(u)' = Inode(u) /\ Offset(u)' = Offset(u) /\ call[u].fd # f
    BY <1>2, <1>3, CallFields DEF OpenAt, FreeFd, FdsApart, TypeOK, Inode, Offset
  <1>4. FdsApart'
    <2>1. i # NoIno
      BY NilAssumption
    <2>2. QED
      BY <1>1, <1>2, <1>3, <2>1 DEF FdsApart, HasFd
  <1>5. QED
    BY <1>1, <1>2, <1>3, <1>4

\* A thread that closes its descriptor leaves the others alone.
LEMMA CloseFrame ==
    ASSUME TypeOK, FdsApart, NEW t \in Thread, HasFd(t), NEW c,
           c.op \notin {"get", "put"},
           Close(call[t].fd), call' = [call EXCEPT ![t] = c]
    PROVE  /\ FdsApart'
           /\ call'[t] = c
           /\ \A u \in Thread : u # t => call'[u] = call[u]
           /\ \A u \in Thread : u # t /\ HasFd(u) =>
                Inode(u)' = Inode(u) /\ Offset(u)' = Offset(u)
  <1>1. call'[t] = c
    BY DEF TypeOK
  <1>2. \A u \in Thread : u # t => call'[u] = call[u]
    BY DEF TypeOK
  <1>3. ASSUME NEW u \in Thread, u # t, HasFd(u)
        PROVE  Inode(u)' = Inode(u) /\ Offset(u)' = Offset(u)
    BY <1>2, <1>3, CallFields DEF Close, FdsApart, TypeOK, Inode, Offset
  <1>4. FdsApart'
    BY <1>1, <1>2, <1>3 DEF FdsApart, HasFd
  <1>5. QED
    BY <1>1, <1>2, <1>3, <1>4

LEMMA UploadStep_Begin ==
    ASSUME OneUploader, UploadInv, NEW t \in Thread, NEW p \in Path,
           NEW src \in Content, CloseFile(t, p, src)
    PROVE  TempOwned' /\ UploadsApart' /\ FdsApart' /\ Collected'
  <1>1. PICK i \in Ino :
            /\ IF tmp[p] = NoIno THEN FreeIno(i) ELSE i = tmp[p]
            /\ tmp' = [tmp EXCEPT ![p] = i]
            /\ data' = [data EXCEPT ![i] = <<>>]
            /\ \E f \in Fd : OpenAt(t, f, i, [op |-> "put", path |-> p, fd |-> f,
                                              src |-> src, sent |-> 0])
    BY DEF CloseFile
  <1>2. PICK f \in Fd : OpenAt(t, f, i, [op |-> "put", path |-> p, fd |-> f,
                                        src |-> src, sent |-> 0])
    BY <1>1
  <1> DEFINE c == [op |-> "put", path |-> p, fd |-> f, src |-> src, sent |-> 0]
  <1> HIDE DEF c
  <1>3. c.op = "put" /\ c.path = p /\ c.fd = f /\ c.src = src /\ c.sent = 0
    BY DEF c
  <1>4. OpenAt(t, f, i, c)
    BY <1>2 DEF c
  <1>5. TypeOK /\ FdsApart /\ TempOwned /\ UploadsApart /\ Collected /\ NamesDistinct
    BY DEF UploadInv
  <1>6. /\ FdsApart'
        /\ call'[t] = c /\ Inode(t)' = i /\ Offset(t)' = 0
        /\ \A u \in Thread : u # t => call'[u] = call[u]
        /\ \A u \in Thread : u # t /\ HasFd(u) =>
             Inode(u)' = Inode(u) /\ Offset(u)' = Offset(u)
    BY <1>3, <1>4, <1>5, OpenFrame
  <1>7. \A u \in Thread : ~Uploading(u, p)
    BY DEF CloseFile, OneUploader
  <1>8. ASSUME NEW u \in Thread, u # t, call[u].op = "put"
        PROVE  call[u].path \in Path /\ call[u].path # p /\ Inode(u) # i
    <2>1. call[u].path \in Path /\ call[u].path # p
      BY <1>5, <1>7, <1>8, CallFields DEF Uploading
    <2>2. Inode(u) = tmp[call[u].path] /\ Inode(u) # NoIno
      BY <1>5, <1>8 DEF TempOwned, FdsApart, HasFd
    <2>3. Inode(u) # i
      BY <1>1, <1>5, <2>1, <2>2 DEF NamesDistinct, FreeIno
    <2>4. QED
      BY <2>1, <2>3
  <1>9. TempOwned'
    BY <1>1, <1>3, <1>5, <1>6, <1>8 DEF TempOwned, HasFd, TypeOK
  <1>10. UploadsApart'
    BY <1>3, <1>5, <1>6, <1>7 DEF UploadsApart, Uploading
  <1>11. Collected'
    <2>1. data'[i] = <<>>
      BY <1>1, <1>5 DEF TypeOK
    <2>2. src \in Seq(Chunk) /\ 0 <= Len(src)
      BY ContentAssumption
    <2>3. ASSUME NEW u \in Thread, u # t, call[u].op = "put"
          PROVE  data'[Inode(u)'] = data[Inode(u)]
      <3>1. Inode(u)' = Inode(u)
        BY <1>6, <2>3 DEF HasFd
      <3>2. QED
        BY <1>1, <1>8, <2>3, <3>1, <1>5 DEF TypeOK
    <2>4. QED
      BY <1>3, <1>5, <1>6, <2>1, <2>2, <2>3 DEF Collected, HasFd
  <1>12. QED
    BY <1>6, <1>9, <1>10, <1>11

LEMMA UploadStep_Write ==
    ASSUME OneUploader, UploadInv, NEW t \in Thread, WriteChunk(t)
    PROVE  TempOwned' /\ UploadsApart' /\ FdsApart' /\ Collected'
  <1>1. TypeOK /\ FdsApart /\ TempOwned /\ UploadsApart /\ Collected /\ NamesDistinct
    BY DEF UploadInv
  <1>2. /\ call[t].op = "put" /\ HasFd(t)
        /\ call[t].fd \in Fd /\ call[t].path \in Path
        /\ call[t].src \in Seq(Chunk) /\ call[t].sent \in Nat
        /\ call[t].sent < Len(call[t].src)
        /\ Inode(t) \in Ino /\ Offset(t) \in Nat
    BY <1>1, CallFields DEF WriteChunk, HasFd, TypeOK, Inode, Offset
  <1>3. /\ call'[t].op = "put" /\ call'[t].path = call[t].path
        /\ call'[t].fd = call[t].fd /\ call'[t].src = call[t].src
        /\ call'[t].sent = call[t].sent + 1
        /\ \A u \in Thread : u # t => call'[u] = call[u]
    BY <1>1, <1>2, CallKinds DEF WriteChunk, TypeOK, PutCall
  <1>4. file' = file /\ tmp' = tmp
    BY DEF WriteChunk
  <1>5. \A u \in Thread : HasFd(u)' <=> HasFd(u)
    BY <1>2, <1>3 DEF HasFd
  <1>6. \A u \in Thread : HasFd(u) => Inode(u)' = Inode(u) /\ call'[u].fd = call[u].fd
    BY <1>3, <1>4 DEF Inode
  <1>7. FdsApart'
    BY <1>1, <1>5, <1>6 DEF FdsApart
  <1>8. TempOwned'
    BY <1>1, <1>2, <1>3, <1>4, <1>6 DEF TempOwned, HasFd
  <1>9. UploadsApart'
    BY <1>1, <1>2, <1>3 DEF UploadsApart, Uploading
  <1>10. Offset(t)' = Offset(t) + 1
    BY <1>1, <1>2, <1>3 DEF WriteChunk, Offset, TypeOK
  <1>11. ASSUME NEW u \in Thread, u # t, call[u].op = "put"
         PROVE  Offset(u)' = Offset(u) /\ data'[Inode(u)'] = data[Inode(u)]
    <2>1. call[u].fd \in Fd /\ call[u].fd # call[t].fd /\ call[u].path \in Path
      BY <1>1, <1>2, <1>11, CallFields DEF FdsApart, HasFd
    <2>2. Offset(u)' = Offset(u)
      BY <1>1, <1>3, <1>11, <2>1 DEF WriteChunk, Offset, TypeOK
    <2>3. call[u].path # call[t].path
      BY <1>1, <1>2, <1>11, <2>1 DEF UploadsApart, Uploading
    <2>4. Inode(u) # Inode(t)
      BY <1>1, <1>2, <1>11, <2>1, <2>3 DEF TempOwned, NamesDistinct, FdsApart, HasFd
    <2>5. data'[Inode(u)] = data[Inode(u)]
      BY <1>1, <2>4 DEF WriteChunk, TypeOK
    <2>6. QED
      BY <1>6, <1>11, <2>2, <2>5 DEF HasFd
  <1>12. /\ Len(data'[Inode(t)]) = call[t].sent + 1
         /\ \A j \in 1 .. call[t].sent + 1 : data'[Inode(t)][j] = call[t].src[j]
    <2> DEFINE s == data[Inode(t)]
               k == call[t].src[call[t].sent + 1]
    <2>1. s \in File /\ k \in Chunk
      BY <1>1, <1>2 DEF TypeOK
    <2>2. /\ Offset(t) = Len(s) /\ Len(s) = call[t].sent
          /\ \A j \in 1 .. call[t].sent : s[j] = call[t].src[j]
      BY <1>1, <1>2 DEF Collected
    <2>3. data'[Inode(t)] = WriteAt(s, Len(s) + 1, k)
      BY <1>1, <1>2, <2>2 DEF WriteChunk, TypeOK
    <2> HIDE DEF s, k
    <2>4. /\ Len(data'[Inode(t)]) = Len(s) + 1
          /\ data'[Inode(t)][Len(s) + 1] = k
          /\ \A j \in 1 .. Len(s) : data'[Inode(t)][j] = s[j]
      BY <2>1, <2>3, WriteAtEnd
    <2>5. ASSUME NEW j \in 1 .. call[t].sent + 1
          PROVE  data'[Inode(t)][j] = call[t].src[j]
      <3>1. CASE j = call[t].sent + 1
        BY <2>2, <2>4, <3>1 DEF k
      <3>2. CASE j # call[t].sent + 1
        <4>1. j \in 1 .. call[t].sent
          BY <1>2, <3>2
        <4>2. QED
          BY <2>2, <2>4, <4>1
      <3>3. QED
        BY <3>1, <3>2
    <2>6. QED
      BY <2>2, <2>4, <2>5
  <1>13. Collected'
    <2>1. ASSUME NEW u \in Thread, call'[u].op = "put", u # t
          PROVE  /\ call'[u].sent <= Len(call'[u].src)
                 /\ Offset(u)' = call'[u].sent
                 /\ Len(data'[Inode(u)']) = call'[u].sent
                 /\ \A j \in 1 .. call'[u].sent : data'[Inode(u)'][j] = call'[u].src[j]
      <3>1. call'[u] = call[u]
        BY <1>3, <2>1
      <3>2. QED
        BY <1>1, <1>11, <2>1, <3>1 DEF Collected
    <2>2. /\ call'[t].sent <= Len(call'[t].src)
          /\ Offset(t)' = call'[t].sent
          /\ Len(data'[Inode(t)']) = call'[t].sent
          /\ \A j \in 1 .. call'[t].sent : data'[Inode(t)'][j] = call'[t].src[j]
      <3>1. Offset(t) = call[t].sent
        BY <1>1, <1>2 DEF Collected
      <3>2. Inode(t)' = Inode(t)
        BY <1>2, <1>6
      <3>3. QED
        BY <1>2, <1>3, <1>10, <1>12, <3>1, <3>2
    <2>3. QED
      BY <2>1, <2>2 DEF Collected
  <1>14. QED
    BY <1>7, <1>8, <1>9, <1>13

LEMMA UploadStep_Return ==
    ASSUME OneUploader, UploadInv, NEW t \in Thread,
           WriteFails(t) \/ EndOfStream(t) \/ UnlinkTemp(t)
    PROVE  TempOwned' /\ UploadsApart' /\ FdsApart' /\ Collected'
  <1>1. TypeOK /\ FdsApart /\ TempOwned /\ UploadsApart /\ Collected /\ NamesDistinct
    BY DEF UploadInv
  <1> DEFINE p == call[t].path
  <1>2. call[t].op \in {"put", "unlink"} /\ p \in Path /\ data' = data
    BY <1>1, CallFields DEF WriteFails, EndOfStream, UnlinkTemp
  \* What every one of these steps does to the other threads.
  <1>3. /\ FdsApart'
        /\ call'[t] = Idle \/ (call'[t].op = "unlink" /\ call'[t].path = p)
        /\ \A u \in Thread : u # t => call'[u] = call[u]
        /\ \A u \in Thread : u # t /\ HasFd(u) =>
             Inode(u)' = Inode(u) /\ Offset(u)' = Offset(u)
    <2>1. CASE WriteFails(t)
      <3>1. HasFd(t) /\ Close(call[t].fd) /\ call' = [call EXCEPT ![t] = Idle]
        BY <2>1 DEF WriteFails, HasFd, Return
      <3>2. Idle.op \notin {"get", "put"}
        BY DEF Idle
      <3>3. QED
        BY <1>1, <3>1, <3>2, CloseFrame
    <2>2. CASE EndOfStream(t)
      <3> DEFINE d == [op |-> "unlink", path |-> p]
      <3>1. /\ HasFd(t) /\ Close(call[t].fd)
            /\ call' = [call EXCEPT ![t] = Idle] \/ call' = [call EXCEPT ![t] = d]
        BY <2>2 DEF EndOfStream, Publish, HasFd, Return
      <3>2. Idle.op \notin {"get", "put"} /\ d.op = "unlink" /\ d.path = p
        BY DEF Idle
      <3> HIDE DEF d
      <3>3. CASE call' = [call EXCEPT ![t] = Idle]
        BY <1>1, <3>1, <3>2, <3>3, CloseFrame
      <3>4. CASE call' = [call EXCEPT ![t] = d]
        BY <1>1, <3>1, <3>2, <3>4, CloseFrame
      <3>5. QED
        BY <3>1, <3>3, <3>4
    <2>3. CASE UnlinkTemp(t)
      <3>1. file' = file /\ off' = off /\ call' = [call EXCEPT ![t] = Idle]
        BY <2>3 DEF UnlinkTemp, Return
      <3>2. /\ call'[t] = Idle /\ Idle.op = "idle"
            /\ \A u \in Thread : u # t => call'[u] = call[u]
        BY <1>1, <3>1 DEF TypeOK, Idle
      <3>3. \A u \in Thread : u # t /\ HasFd(u) =>
                Inode(u)' = Inode(u) /\ Offset(u)' = Offset(u)
        BY <3>1, <3>2 DEF Inode, Offset
      <3>4. FdsApart'
        BY <1>1, <3>2, <3>3 DEF FdsApart, HasFd
      <3>5. QED
        BY <3>2, <3>3, <3>4
    <2>4. QED
      BY <2>1, <2>2, <2>3
  <1>4. \A q \in Path : q # p => tmp'[q] = tmp[q]
    BY <1>1, <1>2 DEF WriteFails, EndOfStream, Publish, UnlinkTemp, TypeOK
  <1> HIDE DEF p
  <1>5. Idle.op = "idle"
    BY DEF Idle
  <1>6. ASSUME NEW u \in Thread, u # t, call[u].op = "put"
        PROVE  call[u].path \in Path /\ call[u].path # p
    BY <1>1, <1>2, <1>6, CallFields DEF UploadsApart, Uploading, p
  <1>7. TempOwned'
    BY <1>1, <1>3, <1>4, <1>5, <1>6 DEF TempOwned, HasFd
  <1>8. UploadsApart'
    BY <1>1, <1>2, <1>3, <1>5 DEF UploadsApart, Uploading, p
  <1>9. Collected'
    BY <1>1, <1>2, <1>3, <1>5 DEF Collected, HasFd
  <1>10. QED
    BY <1>3, <1>7, <1>8, <1>9

LEMMA UploadStep_Download ==
    ASSUME UploadInv, NEW t \in Thread,
           \/ \E p \in Path : OpenFile(t, p)
           \/ SendChunk(t) \/ SendEmptyChunk(t) \/ StopAtEndOfFile(t) \/ ReadFails(t)
    PROVE  TempOwned' /\ UploadsApart' /\ FdsApart' /\ Collected'
  <1>1. TypeOK /\ FdsApart /\ TempOwned /\ UploadsApart /\ Collected
    BY DEF UploadInv
  <1>2. tmp' = tmp /\ data' = data
    BY DEF OpenFile, SendChunk, SendEmptyChunk, StopAtEndOfFile, ReadFails
  <1> DEFINE Others ==
        /\ FdsApart'
        /\ call'[t].op \in {"get", "idle"} /\ call[t].op \in {"get", "idle"}
        /\ \A u \in Thread : u # t => call'[u] = call[u]
        /\ \A u \in Thread : u # t /\ HasFd(u) =>
             Inode(u)' = Inode(u) /\ Offset(u)' = Offset(u)
  <1>3. Others
    <2>1. ASSUME NEW p \in Path, OpenFile(t, p) PROVE Others
      <3>1. PICK f \in Fd, rd \in Readable :
              OpenAt(t, f, dir[p], [op |-> "get", fd |-> f, left |-> Len(data[dir[p]]),
                                  rd |-> rd])
        BY <2>1 DEF OpenFile
      <3> DEFINE c == [op |-> "get", fd |-> f, left |-> Len(data[dir[p]]), rd |-> rd]
      <3>2. c.op = "get" /\ c.fd = f /\ OpenAt(t, f, dir[p], c)
        BY <3>1
      <3>3. dir[p] \in Ino /\ call[t].op = "idle"
        BY <1>1, <2>1 DEF OpenFile, TypeOK
      <3> HIDE DEF c
      <3>4. QED
        BY <1>1, <3>2, <3>3, OpenFrame
    <2>2. CASE SendChunk(t)
      <3>1. /\ call'[t].op = "get" /\ call'[t].fd = call[t].fd
            /\ call[t].op = "get" /\ call[t].fd \in Fd
            /\ \A u \in Thread : u # t => call'[u] = call[u]
        BY <1>1, <2>2, CallKinds DEF SendChunk, TypeOK, GetCall
      <3>2. file' = file
        BY <2>2 DEF SendChunk
      <3>3. FdsApart'
        BY <1>1, <3>1, <3>2 DEF FdsApart, HasFd, Inode
      <3>4. ASSUME NEW u \in Thread, u # t, HasFd(u)
            PROVE  Inode(u)' = Inode(u) /\ Offset(u)' = Offset(u)
        <4>1. call[u].fd # call[t].fd
          BY <1>1, <3>1, <3>4 DEF FdsApart, HasFd
        <4>2. QED
          BY <1>1, <2>2, <3>1, <3>2, <3>4, <4>1, CallFields
             DEF SendChunk, Inode, Offset, TypeOK
      <3>5. QED
        BY <3>1, <3>3, <3>4
    <2>3. CASE SendEmptyChunk(t) \/ StopAtEndOfFile(t)
      <3>1. /\ HasFd(t) /\ Close(call[t].fd) /\ call' = [call EXCEPT ![t] = Idle]
            /\ call[t].op = "get"
        BY <2>3 DEF SendEmptyChunk, StopAtEndOfFile, HasFd, Return
      <3>2. Idle.op = "idle"
        BY DEF Idle
      <3>3. QED
        BY <1>1, <3>1, <3>2, CloseFrame
    <2>4. CASE ReadFails(t)
      <3>1. /\ call' = [call EXCEPT ![t] = Idle] /\ file' = file /\ off' = off
            /\ call[t].op = "get" /\ Idle.op = "idle"
        BY <2>4 DEF ReadFails, Return, Idle
      <3>2. /\ call'[t] = Idle
            /\ \A u \in Thread : u # t => call'[u] = call[u]
        BY <1>1, <3>1 DEF TypeOK
      <3>3. QED
        BY <1>1, <3>1, <3>2 DEF FdsApart, HasFd, Inode, Offset
    <2>5. QED
      BY <2>1, <2>2, <2>3, <2>4
  <1>4. TempOwned'
    BY <1>1, <1>2, <1>3 DEF TempOwned, HasFd
  <1>5. UploadsApart'
    BY <1>1, <1>3 DEF UploadsApart, Uploading
  <1>6. Collected'
    BY <1>1, <1>2, <1>3 DEF Collected, HasFd
  <1>7. QED
    BY <1>3, <1>4, <1>5, <1>6

\* The inode a CloseFile collects in is neither free nor published.
LEMMA CollectedApart ==
    ASSUME UploadInv, NEW u \in Thread, call[u].op = "put"
    PROVE  /\ Inode(u) \in Ino
           /\ ~FreeIno(Inode(u))
           /\ \A p \in Path : dir[p] # NoIno => dir[p] # Inode(u)
  <1>1. Inode(u) # NoIno /\ tmp[call[u].path] = Inode(u)
    BY DEF UploadInv, FdsApart, TempOwned, HasFd
  <1>2. call[u].path \in Path /\ call[u].fd \in Fd
    BY CallFields DEF UploadInv, HasFd
  <1>3. QED
    BY <1>1, <1>2 DEF UploadInv, NamesDistinct, FreeIno, TypeOK, Inode

LEMMA UploadStep_Names ==
    ASSUME UploadInv, NEW t \in Thread, NEW p \in Path,
           \/ OpenFileFails(t, p) \/ CreateFile(t, p) \/ CreateOverExisting(t, p)
           \/ DeleteFile(t, p) \/ \E q \in Path : RenameFile(t, p, q)
    PROVE  TempOwned' /\ UploadsApart' /\ FdsApart' /\ Collected'
  <1>1. UNCHANGED <<tmp, file, off, call>>
    BY DEF OpenFileFails, CreateFile, CreateOverExisting, DeleteFile, RenameFile
  <1>2. \A u \in Thread : /\ HasFd(u)' = HasFd(u)
                          /\ Inode(u)' = Inode(u) /\ Offset(u)' = Offset(u)
    BY <1>1 DEF HasFd, Inode, Offset
  <1>3. TempOwned' /\ UploadsApart' /\ FdsApart'
    BY <1>1, <1>2 DEF UploadInv, TempOwned, UploadsApart, FdsApart, Uploading
  <1>4. ASSUME NEW u \in Thread, call[u].op = "put"
        PROVE  data'[Inode(u)] = data[Inode(u)]
    <2>1. /\ Inode(u) \in Ino /\ ~FreeIno(Inode(u))
          /\ \A q \in Path : dir[q] # NoIno => dir[q] # Inode(u)
      BY <1>4, CollectedApart
    <2>2. QED
      BY <2>1 DEF OpenFileFails, CreateFile, CreateOverExisting, DeleteFile,
                  RenameFile, UploadInv, TypeOK
  <1>5. Collected'
    BY <1>1, <1>2, <1>4 DEF UploadInv, Collected
  <1>6. QED
    BY <1>3, <1>5

LEMMA UploadInvStep ==
    ASSUME OneUploader, UploadInv, [Next]_vars
    PROVE  UploadInv'
  <1>1. TypeOK' /\ NamesDistinct'
    BY NextType, NamesStep DEF UploadInv, vars, NamesDistinct
  <1> SUFFICES TempOwned' /\ UploadsApart' /\ FdsApart' /\ Collected'
    BY <1>1 DEF UploadInv
  <1>2. CASE Crash
    BY <1>2 DEF Crash, Idle, TempOwned, UploadsApart, FdsApart, Collected,
                HasFd, Uploading
  <1>3. ASSUME NEW t \in Thread, Proceed(t)
        PROVE  TempOwned' /\ UploadsApart' /\ FdsApart' /\ Collected'
    BY <1>3, UploadStep_Write, UploadStep_Return, UploadStep_Download DEF Proceed
  <1>4. ASSUME NEW t \in Thread, Request(t)
        PROVE  TempOwned' /\ UploadsApart' /\ FdsApart' /\ Collected'
    <2>1. \A f \in Fd : ~StrayClose(t, f)
      BY DEF StrayClose, OneUploader
    <2>2. QED
      BY <1>4, <2>1, UploadStep_Begin, UploadStep_Download, UploadStep_Names DEF Request
  <1>5. CASE UNCHANGED vars
    BY <1>5 DEF vars, UploadInv, TempOwned, UploadsApart, FdsApart, Collected,
                HasFd, Uploading, Inode, Offset
  <1>6. QED
    BY <1>2, <1>3, <1>4, <1>5 DEF Next

LEMMA UploadInvInit == Init => UploadInv
  <1>1. Init => TypeOK /\ NamesDistinct
    BY InitType DEF Init, NamesDistinct
  <1>2. Init => TempOwned /\ UploadsApart /\ FdsApart /\ Collected
    BY DEF Init, Idle, TempOwned, UploadsApart, FdsApart, Collected, HasFd, Uploading
  <1>3. QED
    BY <1>1, <1>2 DEF UploadInv

\* As long as the uploads of a path do not overlap, the rename at the end of
\* CloseFile publishes the very file the handler has written: crashes,
\* renames, deletes and cut streams never take the temporary file away.
THEOREM TempsAreOwned ==
    ASSUME OneUploader
    PROVE  Spec => []TempOwned
  <1>1. UploadInv => TempOwned
    BY DEF UploadInv
  <1>2. UploadInv /\ [Next]_vars => UploadInv'
    BY UploadInvStep
  <1>3. QED
    BY <1>1, <1>2, UploadInvInit, PTL DEF Spec

(***************************************************************************)
(* What the paths name.                                                    *)
(***************************************************************************)

\* The contents of paths change only by a new name or by O_TRUNC.
LEMMA PublishedFrame ==
    ASSUME OneUploader, UploadInv, [Next]_vars, NEW p \in Path, dir'[p] # NoIno
    PROVE  \/ \E q \in Path : dir[q] # NoIno /\ data'[dir'[p]] = data[dir[q]]
           \/ data'[dir'[p]] = <<>>
           \/ \E t \in Thread : /\ EndOfStream(t)
                                /\ call[t].path = p
                                /\ data'[dir'[p]] = data[Inode(t)]
  <1> DEFINE Same == \E q \in Path : dir[q] # NoIno /\ data'[dir'[p]] = data[dir[q]]
             Emptied == data'[dir'[p]] = <<>>
             Ended == \E t \in Thread : /\ EndOfStream(t)
                                        /\ call[t].path = p
                                        /\ data'[dir'[p]] = data[Inode(t)]
  <1>1. TypeOK /\ NamesDistinct /\ TempOwned
    BY DEF UploadInv
  <1>2. CASE dir' = dir /\ data' = data
    BY <1>2
  <1>3. ASSUME NEW t \in Thread, WriteChunk(t) PROVE Same
    <2>1. Inode(t) # dir[p] /\ dir' = dir
      BY <1>3, CollectedApart DEF WriteChunk
    <2>2. data'[dir[p]] = data[dir[p]]
      BY <1>1, <1>3, <2>1 DEF WriteChunk, TypeOK
    <2>3. QED
      BY <2>1, <2>2
  <1>4. ASSUME NEW t \in Thread, EndOfStream(t) PROVE Same \/ Ended
    <2>1. call[t].op = "put" /\ call[t].path \in Path
      BY <1>1, <1>4, CallFields DEF EndOfStream
    <2>2. tmp[call[t].path] = Inode(t) /\ data' = data
      BY <1>1, <1>4, <2>1 DEF EndOfStream, TempOwned
    <2>3. dir' = dir \/ dir' = [dir EXCEPT ![call[t].path] = tmp[call[t].path]]
      BY <1>4 DEF EndOfStream, Publish
    <2>4. CASE dir' = dir
      BY <2>2, <2>4
    <2>5. CASE dir' = [dir EXCEPT ![call[t].path] = tmp[call[t].path]]
      BY <1>1, <1>4, <2>1, <2>2, <2>5 DEF TypeOK
    <2>6. QED
      BY <2>3, <2>4, <2>5
  <1>5. ASSUME NEW t \in Thread, Proceed(t) PROVE Same \/ Ended
    BY <1>2, <1>3, <1>4, <1>5 DEF Proceed, SendChunk, SendEmptyChunk, StopAtEndOfFile,
       ReadFails, WriteFails, UnlinkTemp
  <1>6. ASSUME NEW t \in Thread, NEW q \in Path, NEW src \in Content, CloseFile(t, q, src)
        PROVE  Same
    <2>1. PICK i \in Ino :
            /\ IF tmp[q] = NoIno THEN FreeIno(i) ELSE i = tmp[q]
            /\ data' = [data EXCEPT ![i] = <<>>]
            /\ dir' = dir
      BY <1>6 DEF CloseFile
    <2>2. dir[p] # i
      BY <1>1, <2>1 DEF NamesDistinct, FreeIno
    <2>3. QED
      BY <1>1, <2>1, <2>2 DEF TypeOK
  <1>7. ASSUME NEW t \in Thread, NEW q \in Path, CreateFile(t, q) PROVE Same \/ Emptied
    <2>1. PICK i \in Ino :
            /\ FreeIno(i)
            /\ dir'  = [dir EXCEPT ![q] = i]
            /\ data' = [data EXCEPT ![i] = <<>>]
      BY <1>7 DEF CreateFile
    <2>2. CASE p = q
      BY <1>1, <2>1, <2>2 DEF TypeOK
    <2>3. CASE p # q
      BY <1>1, <2>1, <2>3 DEF TypeOK, FreeIno
    <2>4. QED
      BY <2>2, <2>3
  <1>8. ASSUME NEW t \in Thread, NEW q \in Path, CreateOverExisting(t, q)
        PROVE  Same \/ Emptied
    BY <1>1, <1>8 DEF CreateOverExisting, TypeOK
  <1>9. ASSUME NEW t \in Thread, NEW q \in Path, NEW r \in Path, RenameFile(t, q, r)
        PROVE  Same
    BY <1>1, <1>9 DEF RenameFile, TypeOK
  <1>10. ASSUME NEW t \in Thread, NEW q \in Path, DeleteFile(t, q) PROVE Same
    BY <1>1, <1>10 DEF DeleteFile, TypeOK
  <1>11. ASSUME NEW t \in Thread, Request(t) PROVE Same \/ Emptied
    BY <1>2, <1>6, <1>7, <1>8, <1>9, <1>10, <1>11
       DEF Request, OpenFile, OpenFileFails, StrayClose
  <1>12. CASE Crash
    BY <1>2, <1>12 DEF Crash
  <1>13. CASE UNCHANGED vars
    BY <1>2, <1>13 DEF vars
  <1>14. QED
    BY <1>5, <1>11, <1>12, <1>13 DEF Next

\* What CloseFile publishes is the part of the stream it has received.
LEMMA PublishesCollected ==
    ASSUME UploadInv, NEW t \in Thread, EndOfStream(t)
    PROVE  /\ call[t].src \in Content
           /\ IsPrefixOf(data[Inode(t)], call[t].src)
           /\ "cut" \notin Faults => data[Inode(t)] = call[t].src
  <1> DEFINE s == data[Inode(t)]
             c == call[t].src
  <1>1. call[t].op = "put" /\ StreamEnded(t)
    BY DEF EndOfStream
  <1>2. c \in Content /\ c \in Seq(Chunk) /\ s \in File
    BY <1>1, CallFields, CollectedApart DEF UploadInv, TypeOK
  <1>3. /\ call[t].sent \in Nat /\ call[t].sent <= Len(c) /\ Len(s) = call[t].sent
        /\ \A j \in 1 .. Len(s) : s[j] = c[j]
    BY <1>1, CallFields DEF UploadInv, Collected
  <1>4. IsPrefixOf(s, c)
    BY <1>3 DEF IsPrefixOf
  <1>5. ASSUME "cut" \notin Faults PROVE s = c
    <2>1. Len(s) = Len(c)
      BY <1>1, <1>3, <1>5 DEF StreamEnded
    <2>2. s \in [1 .. Len(s) -> Chunk \cup {Hole}] /\ c \in [1 .. Len(c) -> Chunk]
      BY <1>2 DEF File
    <2> HIDE DEF s, c
    <2>3. QED
      BY <1>3, <2>1, <2>2
  <1>6. QED
    BY <1>2, <1>4, <1>5

\* As long as the uploads of a path neither overlap nor are cut, a path names
\* all of one upload at every moment (or is empty), whichever write fails and
\* wherever between two system calls of CloseFile the server crashes.
THEOREM UploadsAreWhole ==
    ASSUME OneUploader, "cut" \notin Faults
    PROVE  Spec => []PublishedWhole
  <1>1. Init => PublishedWhole
    BY DEF Init, PublishedWhole
  <1>2. ASSUME UploadInv, PublishedWhole, [Next]_vars
        PROVE  PublishedWhole'
    <2> SUFFICES ASSUME NEW p \in Path, dir'[p] # NoIno
                 PROVE  data'[dir'[p]] \in Content \cup {<<>>}
      BY DEF PublishedWhole
    <2>1. CASE \E q \in Path : dir[q] # NoIno /\ data'[dir'[p]] = data[dir[q]]
      BY <1>2, <2>1 DEF PublishedWhole
    <2>2. CASE \E t \in Thread : EndOfStream(t) /\ data'[dir'[p]] = data[Inode(t)]
      BY <1>2, <2>2, PublishesCollected
    <2>3. QED
      BY <1>2, <2>1, <2>2, PublishedFrame
  <1>3. UploadInv /\ [Next]_vars => UploadInv'
    BY UploadInvStep
  <1>4. QED
    BY <1>1, <1>2, <1>3, UploadInvInit, PTL DEF Spec

\* The front part of one upload.
OfOneUpload(s) == \E c \in Content : IsPrefixOf(s, c)

LEMMA EmptyIsPrefix ==
    ASSUME Content # {}
    PROVE  OfOneUpload(<<>>)
  <1>1. PICK c \in Content : TRUE
    OBVIOUS
  <1>2. 0 <= Len(c)
    BY ContentAssumption
  <1>3. QED
    BY <1>2 DEF IsPrefixOf, OfOneUpload

LEMMA PublishedPrefixStep ==
    ASSUME OneUploader, Content # {}, UploadInv, PublishedPrefix, [Next]_vars
    PROVE  PublishedPrefix'
  <1> SUFFICES ASSUME NEW p \in Path, dir'[p] # NoIno
               PROVE  OfOneUpload(data'[dir'[p]])
    BY DEF PublishedPrefix, IsPrefixOf, OfOneUpload
  <1>1. CASE \E q \in Path : dir[q] # NoIno /\ data'[dir'[p]] = data[dir[q]]
    BY <1>1 DEF PublishedPrefix, OfOneUpload
  <1>2. CASE \E t \in Thread : EndOfStream(t) /\ data'[dir'[p]] = data[Inode(t)]
    BY <1>2, PublishesCollected DEF OfOneUpload
  <1>3. QED
    BY <1>1, <1>2, EmptyIsPrefix, PublishedFrame

\* When upload streams may be cut, a path still names the front part of one
\* upload, never chunks of two uploads or the rest of an older file.
THEOREM UploadsArePrefixes ==
    ASSUME OneUploader, Content # {}
    PROVE  Spec => []PublishedPrefix
  <1>1. Init => PublishedPrefix
    BY DEF Init, PublishedPrefix
  <1>2. UploadInv /\ PublishedPrefix /\ [Next]_vars => UploadInv' /\ PublishedPrefix'
    BY UploadInvStep, PublishedPrefixStep
  <1>3. QED
    BY <1>1, <1>2, UploadInvInit, PTL DEF Spec

(***************************************************************************)
(* Downloads, when none of the Faults happens.                             *)
(***************************************************************************)
LEMMA DownloadFacts ==
    ASSUME IInv, NEW u \in Thread, call[u].op = "get"
    PROVE  /\ call[u].fd \in Fd /\ call[u].left \in Nat
           /\ Inode(u) \in Ino /\ Offset(u) \in Nat
           /\ data[Inode(u)] \in File /\ data[Inode(u)] # NoReply
           /\ Len(data[Inode(u)]) \in Nat
           /\ ~FreeIno(Inode(u))
           /\ \A p \in Path : tmp[p] # Inode(u)
           /\ HasFd(u) /\ call[u].rd
  <1>1. TypeOK /\ FdsApart /\ TempsUnread /\ HasFd(u)
    BY DEF IInv, UploadInv, HasFd
  <1>2. call[u].fd \in Fd /\ call[u].left \in Nat
    BY <1>1, CallFields
  <1>3. Inode(u) \in Ino /\ Offset(u) \in Nat
    BY <1>1, <1>2 DEF FdsApart, TypeOK, Inode, Offset
  <1>4. data[Inode(u)] \in File /\ data[Inode(u)] # NoReply
    BY <1>1, <1>3, NilAssumption DEF TypeOK, File
  <1>5. Len(data[Inode(u)]) \in Nat
    BY <1>4 DEF File
  <1>6. ~FreeIno(Inode(u))
    BY <1>2 DEF FreeIno, Inode
  <1>7. \A p \in Path : tmp[p] # Inode(u)
    BY <1>1, <1>3, NilAssumption DEF TempsUnread
  <1>8. call[u].rd
    BY DEF IInv, Carried
  <1>9. QED
    BY <1>8, <1>1, <1>2, <1>3, <1>4, <1>5, <1>6, <1>7

\* What a step of one thread leaves of another thread's download.
LEMMA DownloadFrame ==
    ASSUME Faults = {}, IInv, NEW t \in Thread, Proceed(t) \/ Request(t),
           NEW u \in Thread, u # t, call[u].op = "get"
    PROVE  /\ call'[u] = call[u] /\ got'[u] = got[u]
           /\ Inode(u)' = Inode(u) /\ Offset(u)' = Offset(u)
           /\ data'[Inode(u)] = data[Inode(u)]
  <1> DEFINE Held == /\ call'[u] = call[u] /\ got'[u] = got[u]
                     /\ Inode(u)' = Inode(u) /\ Offset(u)' = Offset(u)
                     /\ data'[Inode(u)] = data[Inode(u)]
  <1>1. TypeOK /\ FdsApart /\ UploadInv
    BY DEF IInv, UploadInv
  <1>2. /\ call[u].fd \in Fd /\ HasFd(u)
        /\ Inode(u) \in Ino /\ ~FreeIno(Inode(u))
        /\ \A p \in Path : tmp[p] # Inode(u)
    BY DownloadFacts
  <1>3. CASE SendChunk(t)
    <2>1. call[t].fd \in Fd /\ call[t].fd # call[u].fd
      BY <1>1, <1>2, <1>3, CallFields DEF SendChunk, FdsApart, HasFd
    <2>2. QED
      BY <1>1, <1>2, <1>3, <2>1 DEF SendChunk, TypeOK, Inode, Offset
  <1>4. CASE SendEmptyChunk(t) \/ StopAtEndOfFile(t) \/ WriteFails(t)
    <2>1. /\ HasFd(t) /\ Close(call[t].fd) /\ call' = [call EXCEPT ![t] = Idle]
          /\ got'[u] = got[u] /\ data' = data /\ Idle.op = "idle"
      BY <1>1, <1>4 DEF SendEmptyChunk, StopAtEndOfFile, WriteFails, HasFd, Return,
                        TypeOK, Idle
    <2>2. QED
      BY <1>1, <1>2, <2>1, CloseFrame
  <1>5. CASE EndOfStream(t)
    <2> DEFINE d == [op |-> "unlink", path |-> call[t].path]
    <2>1. /\ HasFd(t) /\ Close(call[t].fd) /\ got' = got /\ data' = data
          /\ call' = [call EXCEPT ![t] = Idle] \/ call' = [call EXCEPT ![t] = d]
      BY <1>5 DEF EndOfStream, Publish, HasFd, Return
    <2>2. Idle.op = "idle" /\ d.op = "unlink"
      BY DEF Idle
    <2> HIDE DEF d
    <2>3. CASE call' = [call EXCEPT ![t] = Idle]
      BY <1>1, <1>2, <2>1, <2>2, <2>3, CloseFrame
    <2>4. CASE call' = [call EXCEPT ![t] = d]
      BY <1>1, <1>2, <2>1, <2>2, <2>4, CloseFrame
    <2>5. QED
      BY <2>1, <2>3, <2>4
  <1>6. CASE WriteChunk(t)
    <2>1. /\ call[t].fd \in Fd /\ call[t].fd # call[u].fd
          /\ call[t].path \in Path /\ tmp[call[t].path] = Inode(t)
      BY <1>1, <1>2, <1>6, CallFields DEF WriteChunk, FdsApart, HasFd, UploadInv, TempOwned
    <2>2. Inode(t) # Inode(u)
      BY <1>2, <2>1
    <2>3. QED
      BY <1>1, <1>2, <1>6, <2>1, <2>2 DEF WriteChunk, TypeOK, Inode, Offset
  <1>7. CASE ReadFails(t) \/ UnlinkTemp(t)
    BY <1>1, <1>7 DEF ReadFails, UnlinkTemp, Return, TypeOK, Inode, Offset
  <1>8. ASSUME NEW p \in Path, OpenFile(t, p) PROVE Held
    <2>1. PICK f \in Fd, rd \in Readable :
            OpenAt(t, f, dir[p], [op |-> "get", fd |-> f, left |-> Len(data[dir[p]]),
                                  rd |-> rd])
      BY <1>8 DEF OpenFile
    <2> DEFINE c == [op |-> "get", fd |-> f, left |-> Len(data[dir[p]]), rd |-> rd]
    <2>2. c.op = "get" /\ c.fd = f /\ OpenAt(t, f, dir[p], c)
      BY <2>1
    <2>3. dir[p] \in Ino /\ data' = data /\ got'[u] = got[u]
      BY <1>1, <1>8 DEF OpenFile, TypeOK
    <2> HIDE DEF c
    <2>4. QED
      BY <1>1, <1>2, <2>2, <2>3, OpenFrame
  <1>9. ASSUME NEW p \in Path, NEW src \in Content, CloseFile(t, p, src) PROVE Held
    <2>1. PICK i \in Ino :
            /\ IF tmp[p] = NoIno THEN FreeIno(i) ELSE i = tmp[p]
            /\ data' = [data EXCEPT ![i] = <<>>]
            /\ \E f \in Fd : OpenAt(t, f, i, [op |-> "put", path |-> p, fd |-> f,
                                              src |-> src, sent |-> 0])
      BY <1>9 DEF CloseFile
    <2>2. PICK f \in Fd : OpenAt(t, f, i, [op |-> "put", path |-> p, fd |-> f,
                                          src |-> src, sent |-> 0])
      BY <2>1
    <2> DEFINE c == [op |-> "put", path |-> p, fd |-> f, src |-> src, sent |-> 0]
    <2>3. c.op = "put" /\ c.fd = f /\ OpenAt(t, f, i, c)
      BY <2>2
    <2>4. Inode(u) # i /\ got' = got
      BY <1>2, <1>9, <2>1 DEF CloseFile
    <2>5. data'[Inode(u)] = data[Inode(u)]
      BY <1>1, <1>2, <2>1, <2>4 DEF TypeOK
    <2> HIDE DEF c
    <2>6. QED
      BY <1>1, <1>2, <2>3, <2>4, <2>5, OpenFrame
  <1>10. ASSUME NEW p \in Path,
                \/ OpenFileFails(t, p) \/ CreateFile(t, p) \/ DeleteFile(t, p)
                \/ \E q \in Path : RenameFile(t, p, q)
         PROVE  Held
    BY <1>1, <1>2, <1>10 DEF OpenFileFails, CreateFile, DeleteFile, RenameFile, TypeOK,
       Inode, Offset
  <1>11. ASSUME Request(t) PROVE Held
    BY <1>8, <1>9, <1>10, <1>11 DEF Request, CreateOverExisting, StrayClose
  <1>12. ASSUME Proceed(t) PROVE Held
    BY <1>3, <1>4, <1>5, <1>6, <1>7, <1>12 DEF Proceed
  <1>13. QED
    BY <1>11, <1>12

\* What a step of the thread itself makes of its download.
LEMMA DownloadOwn ==
    ASSUME Faults = {}, IInv, NEW t \in Thread, Proceed(t) \/ Request(t),
           call'[t].op = "get"
    PROVE  \/ \E p \in Path : OpenFile(t, p)
           \/ SendChunk(t)
  <1>1. TypeOK
    BY DEF IInv, UploadInv
  <1>2. \A c \in {Idle} : c.op # "get"
    BY DEF Idle
  <1>3. \A p : [op |-> "unlink", path |-> p].op # "get"
    OBVIOUS
  <1>4. ASSUME Proceed(t), ~SendChunk(t) PROVE FALSE
    <2>1. ~WriteChunk(t)
      BY <1>1, CallKinds DEF WriteChunk, TypeOK, PutCall
    <2>2. ~EndOfStream(t)
      BY <1>1, <1>2 DEF EndOfStream, Publish, Return, TypeOK
    <2>3. QED
      BY <1>1, <1>2, <1>4, <2>1, <2>2 DEF Proceed, SendEmptyChunk, StopAtEndOfFile,
         ReadFails, WriteFails, UnlinkTemp, Return, TypeOK
  <1>5. ASSUME Request(t), \A p \in Path : ~OpenFile(t, p) PROVE FALSE
    <2>1. \A p \in Path, src \in Content : ~CloseFile(t, p, src)
      BY <1>1 DEF CloseFile, OpenAt, TypeOK
    <2>2. QED
      BY <1>5, <2>1 DEF Request, OpenFileFails, CreateFile, CreateOverExisting,
         RenameFile, DeleteFile, StrayClose
  <1>6. QED
    BY <1>4, <1>5

\* What one more chunk makes of the chunks a stream has carried.
LEMMA AppendChunk ==
    ASSUME NEW r \in File, NEW x \in Chunk \cup {Hole}
    PROVE  /\ Append(r, x) \in File /\ Append(r, x) # NoReply
           /\ Len(Append(r, x)) = Len(r) + 1
           /\ Append(r, x)[Len(r) + 1] = x
           /\ \A j \in 1 .. Len(r) : Append(r, x)[j] = r[j]
  <1>1. Append(r, x) \in File
    BY DEF File
  <1>2. Append(r, x) # NoReply
    BY <1>1, NilAssumption DEF File
  <1>3. QED
    BY <1>1, <1>2 DEF File

LEMMA BeginDownloadInv ==
    ASSUME IInv, NEW t \in Thread, NEW p \in Path, OpenFile(t, p)
    PROVE  /\ call[t].op = "idle" /\ call'[t].op = "get"
           /\ Inode(t)' = dir[p] /\ Offset(t)' = 0
           /\ call'[t].left = Len(data[dir[p]]) /\ call'[t].rd \in Readable
           /\ dir[p] \in Ino /\ got'[t] = NoReply
           /\ dir' = dir /\ tmp' = tmp /\ data' = data
           /\ \A u \in Thread : u # t => got'[u] = got[u] /\ call'[u] = call[u]
  <1>1. TypeOK /\ FdsApart
    BY DEF IInv, UploadInv
  <1>2. PICK f \in Fd, rd \in Readable :
          OpenAt(t, f, dir[p], [op |-> "get", fd |-> f, left |-> Len(data[dir[p]]),
                                rd |-> rd])
    BY DEF OpenFile
  <1> DEFINE c == [op |-> "get", fd |-> f, left |-> Len(data[dir[p]]), rd |-> rd]
  <1>3. /\ c.op = "get" /\ c.fd = f /\ c.left = Len(data[dir[p]]) /\ c.rd \in Readable
        /\ OpenAt(t, f, dir[p], c)
    BY <1>2
  <1>4. /\ dir[p] \in Ino /\ dir' = dir /\ tmp' = tmp /\ data' = data
        /\ got'[t] = NoReply /\ call[t].op = "idle"
        /\ \A u \in Thread : u # t => got'[u] = got[u]
    BY <1>1 DEF OpenFile, TypeOK
  <1> HIDE DEF c
  <1>5. QED
    BY <1>1, <1>3, <1>4, OpenFrame

LEMMA SendChunkInv ==
    ASSUME IInv, NEW t \in Thread, SendChunk(t)
    PROVE  /\ call[t].op = "get" /\ call'[t].op = "get" /\ call'[t].rd
           /\ Inode(t)' = Inode(t) /\ Offset(t)' = Offset(t) + 1
           /\ \/ call'[t].left = call[t].left - 1
              \/ call'[t].left = call[t].left /\ call[t].left = 1
           /\ Offset(t) < Len(data[Inode(t)]) /\ call[t].left > 0
           /\ got'[t] = Append(Received(t), data[Inode(t)][Offset(t) + 1])
           /\ dir' = dir /\ tmp' = tmp /\ data' = data
           /\ \A u \in Thread : u # t => got'[u] = got[u] /\ call'[u] = call[u]
  <1>1. TypeOK
    BY DEF IInv, UploadInv
  <1>2. call[t] \in GetCall /\ call[t].fd \in Fd /\ Offset(t) \in Nat
    BY <1>1, CallKinds, DownloadFacts DEF SendChunk, TypeOK, GetCall
  <1>3. /\ call'[t].op = "get" /\ call'[t].fd = call[t].fd
        /\ \/ call'[t].left = call[t].left - 1
           \/ call'[t].left = call[t].left /\ call[t].left = 1
        /\ \A u \in Thread : u # t => call'[u] = call[u]
    BY <1>1, <1>2 DEF SendChunk, TypeOK, GetCall
  <1>4. Inode(t)' = Inode(t) /\ Offset(t)' = Offset(t) + 1
    BY <1>1, <1>2, <1>3 DEF SendChunk, Inode, Offset, TypeOK
  <1>5. call'[t].rd
    <2>1. call[t].rd
      BY DEF SendChunk
    <2>2. call' = call \/ call' = [call EXCEPT ![t].left = @ - 1]
      BY DEF SendChunk
    <2>3. CASE call' = call
      BY <2>1, <2>3
    <2>4. CASE call' = [call EXCEPT ![t].left = @ - 1]
      <3>1. call'[t] = [call[t] EXCEPT !.left = @ - 1]
        BY <1>1, <2>4 DEF TypeOK
      <3>2. call'[t].rd = call[t].rd
        BY <1>2, <3>1 DEF GetCall
      <3>3. QED
        BY <2>1, <3>2
    <2>5. QED
      BY <2>2, <2>3, <2>4
  <1>6. QED
    BY <1>1, <1>3, <1>4, <1>5 DEF SendChunk, TypeOK

LEMMA IInvStep ==
    ASSUME Faults = {}, IInv, [Next]_vars
    PROVE  IInv'
  <1>1. TypeOK /\ UploadInv /\ NamesDistinct /\ PublishedWhole
        /\ TempsUnread /\ Carried
    BY DEF IInv, UploadInv
  <1>2. UploadInv' /\ TypeOK'
    BY <1>1, UploadInvStep DEF OneUploader, UploadInv
  <1>3. PublishedWhole'
    <2> SUFFICES ASSUME NEW p \in Path, dir'[p] # NoIno
                 PROVE  data'[dir'[p]] \in Content \cup {<<>>}
      BY DEF PublishedWhole
    <2>1. CASE \E q \in Path : dir[q] # NoIno /\ data'[dir'[p]] = data[dir[q]]
      BY <1>1, <2>1 DEF PublishedWhole
    <2>2. CASE \E t \in Thread : EndOfStream(t) /\ data'[dir'[p]] = data[Inode(t)]
      BY <1>1, <2>2, PublishesCollected
    <2>3. QED
      BY <1>1, <2>1, <2>2, PublishedFrame DEF OneUploader
  <1>4. CASE Crash
    <2>1. \A u \in Thread : call'[u].op # "get"
      BY <1>4 DEF Crash, Idle
    <2>2. QED
      BY <1>2, <1>3, <2>1 DEF IInv, TempsUnread, Carried
  <1>5. CASE UNCHANGED vars
    BY <1>1, <1>2, <1>3, <1>5 DEF IInv, vars, TempsUnread, Carried, Inode, Offset
  <1>6. ASSUME NEW t \in Thread, Proceed(t) \/ Request(t)
        PROVE  TempsUnread' /\ Carried'
    <2> DEFINE TmpFresh ==
          \A p \in Path : tmp'[p] = tmp[p] \/ tmp'[p] = NoIno \/ FreeIno(tmp'[p])
               OwnCarried ==
          /\ call'[t].rd
          /\ \A p \in Path : tmp'[p] # Inode(t)'
          /\ \/ Offset(t)' + call'[t].left = Len(data'[Inode(t)'])
             \/ /\ Offset(t)' = Len(data'[Inode(t)']) /\ Offset(t)' > 0
                /\ call'[t].left = 1
          /\ IF got'[t] = NoReply
             THEN Offset(t)' = 0
             ELSE /\ Offset(t)' > 0
                  /\ Len(got'[t]) = Offset(t)'
                  /\ \A j \in 1 .. Offset(t)' : got'[t][j] = data'[Inode(t)'][j]
    <2>1. TmpFresh
      <3>1. CASE tmp' = tmp
        BY <3>1
      <3>2. ASSUME NEW q \in Path, NEW src \in Content, CloseFile(t, q, src)
            PROVE  TmpFresh
        BY <1>1, <3>2 DEF CloseFile, TypeOK
      <3>3. ASSUME NEW q \in Path, tmp' = [tmp EXCEPT ![q] = NoIno]
            PROVE  TmpFresh
        BY <1>1, <3>3 DEF TypeOK
      <3>4. CASE EndOfStream(t) \/ UnlinkTemp(t)
        BY <1>1, <3>1, <3>3, <3>4, CallFields DEF EndOfStream, Publish, UnlinkTemp
      <3>5. QED
        BY <1>6, <3>1, <3>2, <3>4
           DEF Proceed, Request, SendChunk, SendEmptyChunk, StopAtEndOfFile, ReadFails,
               WriteChunk, WriteFails, OpenFile, OpenFileFails, CreateFile,
               CreateOverExisting, RenameFile, DeleteFile, StrayClose
    <2>2. ASSUME NEW u \in Thread, u # t, call'[u].op = "get"
          PROVE  /\ call[u].op = "get"
                 /\ call'[u] = call[u] /\ got'[u] = got[u]
                 /\ Inode(u)' = Inode(u) /\ Offset(u)' = Offset(u)
                 /\ data'[Inode(u)'] = data[Inode(u)]
                 /\ \A p \in Path : tmp'[p] # Inode(u)
      <3>1. call[u].op = "get"
        <4>1. call'[u] = call[u]
          BY <1>1, <1>6, <2>2
             DEF Proceed, Request, SendChunk, SendEmptyChunk, StopAtEndOfFile, ReadFails,
                 WriteChunk, WriteFails, EndOfStream, Publish, UnlinkTemp,
                 OpenFile, OpenFileFails, CloseFile, OpenAt, CreateFile,
                 CreateOverExisting, RenameFile, DeleteFile, StrayClose, Return, TypeOK
        <4>2. QED
          BY <2>2, <4>1
      <3>2. QED
        BY <1>6, <2>1, <2>2, <3>1, DownloadFrame, DownloadFacts, NilAssumption
    <2>3. ASSUME call'[t].op = "get" PROVE OwnCarried
      <3>1. ASSUME NEW p \in Path, OpenFile(t, p) PROVE OwnCarried
        <4>1. Len(data[dir[p]]) \in Nat
          BY <1>1, <3>1 DEF OpenFile, TypeOK, File
        <4>2. QED
          <5>1. call'[t].rd
            BY <3>1, BeginDownloadInv, ReadableType
          <5>2. QED
            BY <1>1, <3>1, <4>1, <5>1, BeginDownloadInv, NilAssumption DEF NamesDistinct
      <3>2. CASE SendChunk(t)
        <4> DEFINE s == data[Inode(t)]
                   k == Offset(t)
                   r == Received(t)
        <4>1. /\ call[t].op = "get" /\ Inode(t)' = Inode(t) /\ Offset(t)' = k + 1
              /\ k < Len(s) /\ call[t].left > 0 /\ tmp' = tmp /\ data' = data
              /\ got'[t] = Append(r, s[k + 1])
              /\ \/ call'[t].left = call[t].left - 1
                 \/ call'[t].left = call[t].left /\ call[t].left = 1
          BY <3>2, SendChunkInv
        <4>2. /\ k \in Nat /\ Len(s) \in Nat /\ s \in File /\ call[t].left \in Nat
              /\ \A p \in Path : tmp[p] # Inode(t)
          BY <4>1, DownloadFacts
        <4>3. /\ r \in File /\ Len(r) = k /\ \A j \in 1 .. k : r[j] = s[j]
          <5>1. CASE got[t] = NoReply
            BY <1>1, <4>1, <5>1 DEF Carried, Received, File
          <5>2. CASE got[t] # NoReply
            <6>1. r = got[t] /\ r \in File
              BY <1>1, <5>2 DEF Received, TypeOK
            <6>2. Len(r) = k /\ \A j \in 1 .. k : r[j] = s[j]
              BY <1>1, <4>1, <5>2, <6>1 DEF Carried
            <6>3. QED
              BY <6>1, <6>2
          <5>3. QED
            BY <5>1, <5>2
        <4>4. k + call[t].left = Len(s)
          BY <1>1, <4>1, <4>2 DEF Carried
        <4>5. s[k + 1] \in Chunk \cup {Hole}
          BY <4>1, <4>2 DEF File
        <4>6. /\ got'[t] # NoReply
              /\ Len(got'[t]) = k + 1
              /\ got'[t][k + 1] = s[k + 1]
              /\ \A j \in 1 .. k : got'[t][j] = r[j]
          <5>1. /\ got'[t] = Append(r, s[k + 1])
                /\ r \in File /\ s[k + 1] \in Chunk \cup {Hole} /\ Len(r) = k
            BY <4>1, <4>3, <4>5
          <5> DEFINE x == s[k + 1]
          <5>2. /\ Append(r, x) # NoReply /\ Len(Append(r, x)) = Len(r) + 1
                /\ Append(r, x)[Len(r) + 1] = x
                /\ \A j \in 1 .. Len(r) : Append(r, x)[j] = r[j]
            <6> HIDE DEF s, k, r
            <6>1. r \in File /\ x \in Chunk \cup {Hole}
              BY <5>1
            <6> HIDE DEF x
            <6>2. QED
              BY <6>1, AppendChunk
          <5>3. got'[t] = Append(r, x) /\ Len(r) = k
            BY <5>1
          <5> HIDE DEF s, k, r
          <5>4. s[k + 1] = x
            OBVIOUS
          <5> HIDE DEF x
          <5>5. QED
            BY <5>2, <5>3, <5>4
        <4>7. \A j \in 1 .. k + 1 : got'[t][j] = s[j]
          <5>1. \A j \in 1 .. k + 1 : j \in 1 .. k \/ j = k + 1
            BY <4>2
          <5>2. QED
            BY <4>3, <4>6, <5>1
        <4>8. data'[Inode(t)'] = s
          BY <4>1
        <4>9. /\ Offset(t)' > 0
              /\ \/ Offset(t)' + call'[t].left = Len(s)
                 \/ Offset(t)' = Len(s) /\ call'[t].left = 1
          <5> HIDE DEF s, k, r
          <5>1. QED
            BY <4>1, <4>2, <4>4
        <4>10. call'[t].rd /\ \A p \in Path : tmp'[p] # Inode(t)'
          BY <3>2, <4>1, <4>2, SendChunkInv
        <4> HIDE DEF s, r
        <4>11. QED
          BY <4>1, <4>6, <4>7, <4>8, <4>9, <4>10
      <3>3. QED
        BY <1>6, <2>3, <3>1, <3>2, DownloadOwn
    <2>4. TempsUnread'
      BY <2>2, <2>3 DEF TempsUnread
    <2>5. Carried'
      <3>1. ASSUME NEW u \in Thread, call'[u].op = "get", u # t
            PROVE  /\ call'[u].rd
                   /\ \/ Offset(u)' + call'[u].left = Len(data'[Inode(u)'])
                      \/ /\ Offset(u)' = Len(data'[Inode(u)']) /\ Offset(u)' > 0
                         /\ call'[u].left = 1
                   /\ IF got'[u] = NoReply
                      THEN Offset(u)' = 0
                      ELSE /\ Offset(u)' > 0
                           /\ Len(got'[u]) = Offset(u)'
                           /\ \A j \in 1 .. Offset(u)' : got'[u][j] = data'[Inode(u)'][j]
        BY <1>1, <2>2, <3>1 DEF Carried
      <3>2. QED
        BY <2>3, <3>1 DEF Carried
    <2>6. QED
      BY <2>4, <2>5
  <1>7. QED
    BY <1>2, <1>3, <1>4, <1>5, <1>6 DEF IInv, Next

LEMMA IInvInit == Init => IInv
  <1>1. Init => \A t \in Thread : call[t].op # "get"
    BY DEF Init, Idle
  <1>2. QED
    BY <1>1, UploadInvInit DEF Init, IInv, PublishedWhole, TempsUnread, Carried

\* All parts of the inductive invariant hold of a server none of the Faults
\* happens to.
THEOREM ServerInvariant ==
    ASSUME Faults = {}
    PROVE  Spec => []IInv
  BY IInvInit, IInvStep, PTL DEF Spec

(***************************************************************************)
(* Refinement: every step of the server is a step of FileStore or changes  *)
(* nothing FileStore knows of.                                             *)
(***************************************************************************)

\* The contents of an existing path are a file.
LEMMA StoreFacts ==
    ASSUME IInv, NEW p \in Path
    PROVE  /\ dir[p] = NoIno => StoreOf[p] = NoReply
           /\ dir[p] # NoIno => /\ dir[p] \in Ino
                                /\ StoreOf[p] = data[dir[p]]
                                /\ StoreOf[p] # NoReply
  <1>1. TypeOK
    BY DEF IInv, UploadInv
  <1>2. dir[p] # NoIno => dir[p] \in Ino /\ data[dir[p]] # NoReply
    BY <1>1, NilAssumption DEF TypeOK, File
  <1>3. QED
    BY <1>2 DEF StoreOf

\* Steps that leave the names and the published files alone.
LEMMA StoreKept ==
    ASSUME dir' = dir, \A p \in Path : dir[p] # NoIno => data'[dir[p]] = data[dir[p]]
    PROVE  StoreOf' = StoreOf
  BY DEF StoreOf

\* What FileStore sees of one thread.
LEMMA ViewFacts ==
    ASSUME IInv, NEW u \in Thread
    PROVE  /\ call[u].op = "get" => /\ ViewOf[u] = data[Inode(u)]
                                    /\ ViewOf[u] # NoReply
                                    /\ ReplyOf[u] = NoReply
           /\ call[u].op # "get" => ViewOf[u] = NoReply /\ ReplyOf[u] = got[u]
  <1>1. CASE call[u].op = "get"
    <2>1. Inode(u) # NoIno /\ data[Inode(u)] # NoReply
      BY <1>1, DownloadFacts, NilAssumption
    <2>2. QED
      BY <1>1, <2>1 DEF ViewOf, ReplyOf
  <1>2. CASE call[u].op # "get"
    BY <1>2 DEF ViewOf, ReplyOf
  <1>3. QED
    BY <1>1, <1>2

\* A step of one thread changes nothing FileStore sees of the others.
LEMMA OthersKept ==
    ASSUME Faults = {}, IInv, IInv', NEW t \in Thread, Proceed(t) \/ Request(t),
           NEW u \in Thread, u # t
    PROVE  ViewOf'[u] = ViewOf[u] /\ ReplyOf'[u] = ReplyOf[u]
  <1>1. TypeOK
    BY DEF IInv, UploadInv
  <1>2. call'[u] = call[u] /\ got'[u] = got[u]
    BY <1>1
       DEF Proceed, Request, SendChunk, SendEmptyChunk, StopAtEndOfFile, ReadFails,
           WriteChunk, WriteFails, EndOfStream, Publish, UnlinkTemp,
           OpenFile, OpenFileFails, CloseFile, OpenAt, CreateFile,
           CreateOverExisting, RenameFile, DeleteFile, StrayClose, Return, TypeOK
  <1>3. CASE call[u].op = "get"
    <2>1. Inode(u)' = Inode(u) /\ data'[Inode(u)] = data[Inode(u)]
      BY <1>3, DownloadFrame
    <2>2. QED
      BY <1>2, <1>3, <2>1 DEF ViewOf, ReplyOf
  <1>4. CASE call[u].op # "get"
    BY <1>2, <1>4 DEF ViewOf, ReplyOf
  <1>5. QED
    BY <1>3, <1>4

\* So the step changes at most one component of view and of reply.
LEMMA OneView ==
    ASSUME Faults = {}, IInv, IInv', NEW t \in Thread, Proceed(t) \/ Request(t)
    PROVE  /\ ViewOf' = [ViewOf EXCEPT ![t] = ViewOf'[t]]
           /\ ReplyOf' = [ReplyOf EXCEPT ![t] = ReplyOf'[t]]
           /\ ViewOf'[t] = ViewOf[t] => ViewOf' = ViewOf
           /\ ReplyOf'[t] = ReplyOf[t] => ReplyOf' = ReplyOf
  <1>1. \A u \in Thread : u # t => ViewOf'[u] = ViewOf[u] /\ ReplyOf'[u] = ReplyOf[u]
    BY OthersKept
  <1>2. ViewOf' = [ViewOf EXCEPT ![t] = ViewOf'[t]] /\
        (ViewOf'[t] = ViewOf[t] => ViewOf' = ViewOf)
    BY <1>1 DEF ViewOf
  <1>3. ReplyOf' = [ReplyOf EXCEPT ![t] = ReplyOf'[t]] /\
        (ReplyOf'[t] = ReplyOf[t] => ReplyOf' = ReplyOf)
    BY <1>1 DEF ReplyOf
  <1>4. QED
    BY <1>2, <1>3

\* At the end of a download the stream has carried the whole file.
LEMMA WholeCarried ==
    ASSUME IInv, NEW t \in Thread, SendEmptyChunk(t) \/ StopAtEndOfFile(t)
    PROVE  /\ call[t].op = "get" /\ call'[t] = Idle
           /\ got'[t] = data[Inode(t)]
           /\ dir' = dir /\ data' = data
  <1> DEFINE s == data[Inode(t)]
             k == Offset(t)
  <1>1. TypeOK /\ Carried
    BY DEF IInv, UploadInv
  <1>2. call[t].op = "get" /\ call'[t] = Idle /\ dir' = dir /\ data' = data
    BY <1>1 DEF SendEmptyChunk, StopAtEndOfFile, Return, TypeOK
  <1>3. s \in File /\ Len(s) \in Nat /\ k \in Nat /\ call[t].left \in Nat
    BY <1>2, DownloadFacts
  <1>4. k = Len(s) /\ (StopAtEndOfFile(t) => k > 0)
    <2>1. CASE SendEmptyChunk(t)
      <3>1. ~ StopAtEndOfFile(t)
        BY <2>1 DEF SendEmptyChunk, StopAtEndOfFile
      <3>2. QED
        BY <1>1, <1>2, <1>3, <2>1, <3>1 DEF SendEmptyChunk, Carried
    <2>2. CASE StopAtEndOfFile(t)
      BY <1>1, <1>2, <1>3, <2>2 DEF StopAtEndOfFile, Carried
    <2>3. QED
      BY <2>1, <2>2
  <1>5. CASE got[t] = NoReply
    <2>1. k = 0 /\ SendEmptyChunk(t) /\ Len(s) = 0
      BY <1>1, <1>2, <1>4, <1>5 DEF Carried
    <2>2. got'[t] = <<>>
      BY <1>1, <1>5, <2>1 DEF SendEmptyChunk, Received, TypeOK
    <2>3. s = <<>>
      BY <1>3, <2>1 DEF File
    <2>4. QED
      BY <1>2, <2>2, <2>3
  <1>6. CASE got[t] # NoReply
    <2>1. got'[t] = got[t] /\ got[t] \in File
      BY <1>1, <1>6 DEF SendEmptyChunk, StopAtEndOfFile, Received, TypeOK
    <2>2. Len(got[t]) = Len(s) /\ \A j \in 1 .. Len(s) : got[t][j] = s[j]
      BY <1>1, <1>2, <1>4, <1>6 DEF Carried
    <2> HIDE DEF s
    <2>3. got[t] = s
      BY <1>3, <2>1, <2>2 DEF File
    <2>4. QED
      BY <1>2, <2>1, <2>3 DEF s
  <1>7. QED
    BY <1>5, <1>6

LEMMA DownloadMaps ==
    ASSUME Faults = {}, IInv, IInv', NEW t \in Thread,
           \/ \E p \in Path : OpenFile(t, p) \/ OpenFileFails(t, p)
           \/ SendChunk(t) \/ SendEmptyChunk(t) \/ StopAtEndOfFile(t) \/ ReadFails(t)
    PROVE  Store!Next \/ UNCHANGED Store!vars
  <1>1. Proceed(t) \/ Request(t)
    BY DEF Proceed, Request
  <1>2. /\ ViewOf' = [ViewOf EXCEPT ![t] = ViewOf'[t]]
        /\ ReplyOf' = [ReplyOf EXCEPT ![t] = ReplyOf'[t]]
        /\ ViewOf'[t] = ViewOf[t] => ViewOf' = ViewOf
        /\ ReplyOf'[t] = ReplyOf[t] => ReplyOf' = ReplyOf
    BY <1>1, OneView
  <1>3. ASSUME NEW p \in Path, OpenFile(t, p) PROVE Store!BeginDownload(t, p)
    <2>1. /\ call[t].op = "idle" /\ call'[t].op = "get" /\ Inode(t)' = dir[p]
          /\ dir[p] \in Ino /\ got'[t] = NoReply /\ dir' = dir /\ data' = data
      BY <1>3, BeginDownloadInv
    <2>2. StoreOf' = StoreOf
      BY <2>1, StoreKept
    <2>3. ViewOf[t] = NoReply
      BY <2>1, ViewFacts
    <2>4. StoreOf[p] = data[dir[p]] /\ StoreOf[p] # NoReply
      BY <1>3, StoreFacts DEF OpenFile
    <2>5. ViewOf'[t] = StoreOf[p] /\ ReplyOf'[t] = NoReply
      BY <2>1, <2>4, NilAssumption DEF ViewOf, ReplyOf
    <2>6. QED
      BY <1>2, <2>2, <2>3, <2>4, <2>5 DEF Store!BeginDownload
  <1>4. ASSUME NEW p \in Path, OpenFileFails(t, p) PROVE Store!RefuseDownload(t)
    <2>1. call[t].op # "get" /\ call' = call /\ dir' = dir /\ data' = data
      BY <1>4 DEF OpenFileFails
    <2>2. got'[t] = NoReply
      BY <1>4 DEF OpenFileFails, IInv, UploadInv, TypeOK
    <2>3. ViewOf'[t] = NoReply /\ ReplyOf'[t] = NoReply
      BY <2>1, <2>2 DEF ViewOf, ReplyOf
    <2>4. ViewOf[t] = NoReply
      BY <2>1, ViewFacts
    <2>5. StoreOf' = StoreOf
      BY <2>1, StoreKept
    <2>6. QED
      BY <1>2, <2>3, <2>4, <2>5 DEF Store!RefuseDownload
  <1>5. CASE SendChunk(t)
    <2>1. /\ call[t].op = "get" /\ call'[t].op = "get" /\ Inode(t)' = Inode(t)
          /\ dir' = dir /\ data' = data
      BY <1>5, SendChunkInv
    <2>2. ViewOf'[t] = ViewOf[t] /\ ReplyOf'[t] = ReplyOf[t]
      BY <2>1 DEF ViewOf, ReplyOf
    <2>3. StoreOf' = StoreOf
      BY <2>1, StoreKept
    <2>4. QED
      BY <1>2, <2>2, <2>3 DEF Store!vars
  <1>6. CASE SendEmptyChunk(t) \/ StopAtEndOfFile(t)
    <2>1. /\ call[t].op = "get" /\ call'[t].op # "get"
          /\ got'[t] = data[Inode(t)] /\ dir' = dir /\ data' = data
      BY <1>6, WholeCarried DEF Idle
    <2>2. ViewOf[t] # NoReply /\ ViewOf[t] = data[Inode(t)]
      BY <2>1, ViewFacts
    <2>3. ViewOf'[t] = NoReply /\ ReplyOf'[t] = ViewOf[t]
      BY <2>1, <2>2 DEF ViewOf, ReplyOf
    <2>4. StoreOf' = StoreOf
      BY <2>1, StoreKept
    <2>5. Store!EndDownload(t)
      BY <1>2, <2>2, <2>3, <2>4 DEF Store!EndDownload
    <2>6. QED
      BY <2>5 DEF Store!Next
  <1>7. ~ReadFails(t)
    BY DownloadFacts, NilAssumption DEF ReadFails
  <1>8. QED
    BY <1>3, <1>4, <1>5, <1>6, <1>7 DEF Store!Next

\* The steps of a CloseFile before its rename, and its unlink.
LEMMA CollectMaps ==
    ASSUME Faults = {}, IInv, IInv', NEW t \in Thread,
           \/ \E p \in Path, src \in Content : CloseFile(t, p, src)
           \/ WriteChunk(t) \/ WriteFails(t) \/ UnlinkTemp(t)
    PROVE  UNCHANGED Store!vars
  <1>1. TypeOK /\ TypeOK' /\ UploadInv /\ NamesDistinct
    BY DEF IInv, UploadInv
  <1>2. Proceed(t) \/ Request(t)
    BY DEF Proceed, Request
  <1>3. StoreOf' = StoreOf
    <2>1. ASSUME NEW p \in Path, NEW src \in Content, CloseFile(t, p, src)
          PROVE  StoreOf' = StoreOf
      <3>1. PICK i \in Ino :
              /\ IF tmp[p] = NoIno THEN FreeIno(i) ELSE i = tmp[p]
              /\ data' = [data EXCEPT ![i] = <<>>]
        BY <2>1 DEF CloseFile
      <3>2. \A q \in Path : dir[q] # NoIno => dir[q] # i
        BY <1>1, <3>1 DEF NamesDistinct, FreeIno
      <3>3. \A q \in Path : dir[q] # NoIno => data'[dir[q]] = data[dir[q]]
        BY <1>1, <3>1, <3>2 DEF TypeOK
      <3>4. QED
        BY <2>1, <3>3, StoreKept DEF CloseFile
    <2>2. CASE WriteChunk(t)
      <3>1. \A q \in Path : dir[q] # NoIno => dir[q] # Inode(t)
        BY <1>1, <2>2, CollectedApart DEF WriteChunk
      <3>2. \A q \in Path : dir[q] # NoIno => data'[dir[q]] = data[dir[q]]
        BY <1>1, <2>2, <3>1 DEF WriteChunk, TypeOK
      <3>3. QED
        BY <2>2, <3>2, StoreKept DEF WriteChunk
    <2>3. CASE WriteFails(t) \/ UnlinkTemp(t)
      BY <2>3, StoreKept DEF WriteFails, UnlinkTemp
    <2>4. QED
      BY <2>1, <2>2, <2>3
  <1>4. call[t].op # "get" /\ call'[t].op # "get" /\ got'[t] = got[t]
    <2>1. ASSUME NEW p \in Path, NEW src \in Content, CloseFile(t, p, src)
          PROVE  call[t].op # "get" /\ call'[t].op # "get" /\ got'[t] = got[t]
      BY <1>1, <2>1 DEF CloseFile, OpenAt, TypeOK
    <2>2. CASE WriteChunk(t)
      BY <1>1, <2>2, CallKinds DEF WriteChunk, TypeOK, PutCall
    <2>3. CASE WriteFails(t) \/ UnlinkTemp(t)
      BY <1>1, <2>3 DEF WriteFails, UnlinkTemp, Return, TypeOK, Idle
    <2>4. QED
      BY <2>1, <2>2, <2>3
  <1>5. ViewOf'[t] = ViewOf[t] /\ ReplyOf'[t] = ReplyOf[t]
    BY <1>4 DEF ViewOf, ReplyOf
  <1>6. ViewOf' = ViewOf /\ ReplyOf' = ReplyOf
    BY <1>2, <1>5, OneView
  <1>7. QED
    BY <1>3, <1>6 DEF Store!vars

\* Steps that begin or end no download leave all views as they are.
LEMMA NamesKeepViews ==
    ASSUME Faults = {}, IInv, IInv', NEW t \in Thread, Proceed(t) \/ Request(t),
           call[t].op # "get", call'[t].op # "get", got' = got
    PROVE  ViewOf' = ViewOf /\ ReplyOf' = ReplyOf
  <1>1. ViewOf'[t] = ViewOf[t] /\ ReplyOf'[t] = ReplyOf[t]
    BY DEF ViewOf, ReplyOf
  <1>2. QED
    BY <1>1, OneView

LEMMA EndOfStreamMaps ==
    ASSUME Faults = {}, IInv, IInv', NEW t \in Thread, EndOfStream(t)
    PROVE  Store!Upload(call[t].path, call[t].src)
           /\ call[t].path \in Path /\ call[t].src \in Content
  <1> DEFINE p == call[t].path
  <1>1. TypeOK /\ UploadInv /\ TempOwned
    BY DEF IInv, UploadInv
  <1>2. p \in Path /\ call[t].src \in Content /\ data[Inode(t)] = call[t].src
    BY <1>1, PublishesCollected, CallFields DEF EndOfStream
  <1>3. tmp[p] = Inode(t) /\ Inode(t) \in Ino
    BY <1>1, CollectedApart DEF EndOfStream, TempOwned
  <1>4. dir' = [dir EXCEPT ![p] = Inode(t)] /\ data' = data /\ got' = got
        /\ call[t].op # "get" /\ call'[t].op # "get"
    BY <1>1, <1>3, NilAssumption DEF EndOfStream, Publish, TypeOK
  <1>5. StoreOf' = [StoreOf EXCEPT ![p] = call[t].src]
    BY <1>1, <1>2, <1>3, <1>4, NilAssumption DEF StoreOf, TypeOK
  <1>6. ViewOf' = ViewOf /\ ReplyOf' = ReplyOf
    BY <1>4, NamesKeepViews DEF Proceed
  <1>7. QED
    BY <1>2, <1>5, <1>6 DEF Store!Upload

LEMMA NamesMap ==
    ASSUME Faults = {}, IInv, IInv', NEW t \in Thread, NEW p \in Path,
           CreateFile(t, p) \/ DeleteFile(t, p) \/ \E q \in Path : RenameFile(t, p, q)
    PROVE  \/ Store!Create(p) \/ Store!Delete(p)
           \/ \E q \in Path : p # q /\ Store!Rename(p, q)
  <1>1. TypeOK
    BY DEF IInv, UploadInv
  <1>2. call[t].op # "get" /\ call'[t].op # "get" /\ got' = got
    BY DEF CreateFile, DeleteFile, RenameFile
  <1>3. ViewOf' = ViewOf /\ ReplyOf' = ReplyOf
    BY <1>2, NamesKeepViews DEF Request
  <1>4. CASE CreateFile(t, p)
    <2>1. PICK i \in Ino : /\ FreeIno(i)
                           /\ dir' = [dir EXCEPT ![p] = i]
                           /\ data' = [data EXCEPT ![i] = <<>>]
      BY <1>4 DEF CreateFile
    <2>2. StoreOf' = [StoreOf EXCEPT ![p] = <<>>]
      BY <1>1, <2>1, NilAssumption DEF StoreOf, FreeIno, TypeOK
    <2>3. StoreOf[p] = NoReply
      BY <1>4, StoreFacts DEF CreateFile
    <2>4. QED
      BY <1>3, <2>2, <2>3 DEF Store!Create, Store!Upload
  <1>5. CASE DeleteFile(t, p)
    <2>1. StoreOf' = [StoreOf EXCEPT ![p] = NoReply]
      BY <1>1, <1>5 DEF DeleteFile, StoreOf, TypeOK
    <2>2. StoreOf[p] # NoReply
      BY <1>5, StoreFacts DEF DeleteFile
    <2>3. QED
      BY <1>3, <2>1, <2>2 DEF Store!Delete, Store!Upload
  <1>6. ASSUME NEW q \in Path, RenameFile(t, p, q) PROVE p # q /\ Store!Rename(p, q)
    <2>1. StoreOf' = [StoreOf EXCEPT ![q] = StoreOf[p], ![p] = NoReply]
      BY <1>1, <1>6 DEF RenameFile, StoreOf, TypeOK
    <2>2. StoreOf[p] # NoReply
      BY <1>6, StoreFacts DEF RenameFile
    <2>3. QED
      BY <1>3, <1>6, <2>1, <2>2 DEF Store!Rename, RenameFile
  <1>7. QED
    BY <1>4, <1>5, <1>6

\* A crash ends the downloads without an answer.
LEMMA CrashMaps == ASSUME IInv, Crash PROVE Store!Restart
  <1>1. StoreOf' = StoreOf
    BY StoreKept DEF Crash
  <1>2. \A u \in Thread : call'[u].op # "get"
    BY DEF Crash, Idle
  <1>3. ViewOf' = [u \in Thread |-> NoReply]
    BY <1>2 DEF ViewOf
  <1>4. ReplyOf' = ReplyOf
    BY <1>2 DEF ReplyOf, Crash
  <1>5. QED
    BY <1>1, <1>3, <1>4 DEF Store!Restart

LEMMA StepMaps ==
    ASSUME Faults = {}, IInv, [Next]_vars
    PROVE  [Store!Next]_(Store!vars)
  <1>1. IInv'
    BY IInvStep
  <1>2. CASE Crash
    BY <1>2, CrashMaps DEF Store!Next
  <1>3. CASE UNCHANGED vars
    BY <1>3 DEF vars, Store!vars, StoreOf, ViewOf, ReplyOf, Inode
  <1>4. ASSUME NEW t \in Thread, Proceed(t) PROVE Store!Next \/ UNCHANGED Store!vars
    <2>1. CASE SendChunk(t) \/ SendEmptyChunk(t) \/ StopAtEndOfFile(t) \/ ReadFails(t)
      BY <1>1, <2>1, DownloadMaps
    <2>2. CASE WriteChunk(t) \/ WriteFails(t) \/ UnlinkTemp(t)
      BY <1>1, <2>2, CollectMaps
    <2>3. CASE EndOfStream(t)
      BY <1>1, <2>3, EndOfStreamMaps DEF Store!Next
    <2>4. QED
      BY <1>4, <2>1, <2>2, <2>3 DEF Proceed
  <1>5. ASSUME NEW t \in Thread, Request(t) PROVE Store!Next \/ UNCHANGED Store!vars
    <2>1. ASSUME NEW p \in Path, OpenFile(t, p) \/ OpenFileFails(t, p)
          PROVE  Store!Next \/ UNCHANGED Store!vars
      BY <1>1, <2>1, DownloadMaps
    <2>2. ASSUME NEW p \in Path, NEW src \in Content, CloseFile(t, p, src)
          PROVE  Store!Next \/ UNCHANGED Store!vars
      BY <1>1, <2>2, CollectMaps
    <2>3. ASSUME NEW p \in Path,
                 CreateFile(t, p) \/ DeleteFile(t, p)
                 \/ \E q \in Path : RenameFile(t, p, q)
          PROVE  Store!Next
      BY <1>1, <2>3, NamesMap DEF Store!Next
    <2>4. QED
      BY <1>5, <2>1, <2>2, <2>3 DEF Request, CreateOverExisting, StrayClose
  <1>6. QED
    BY <1>2, <1>3, <1>4, <1>5 DEF Next

LEMMA InitMaps == Init => Store!Init
  <1>1. Idle.op # "get"
    BY DEF Idle
  <1>2. QED
    BY <1>1 DEF Init, Store!Init, StoreOf, ViewOf, ReplyOf

\* When none of the Faults happens, the handlers together are an atomic file
\* store: a CloseFile replaces its file at the instant of its rename, and an
\* OpenFile whose stream ended normally has carried exactly the contents its
\* path had when it began, whatever was uploaded, renamed or deleted since.
THEOREM ServerIsFileStore ==
    ASSUME Faults = {}
    PROVE  Spec => ImplementsFileStore
  <1>1. Init => Store!Init
    BY InitMaps
  <1>2. IInv /\ [Next]_vars => [Store!Next]_(Store!vars)
    BY StepMaps
  <1>3. QED
    BY <1>1, <1>2, ServerInvariant, PTL DEF Spec, ImplementsFileStore, Store!Spec

(***************************************************************************)
(* Descriptors, when no OpenFile is for writing only.                      *)
(***************************************************************************)
HeldInv ==
    /\ TypeOK
    /\ \A t \in Thread : call[t].op = "get" => call[t].rd = TRUE
    /\ DescriptorsHeld

\* What a step makes of the call of its thread, and of the descriptors.
LEMMA HeldCases ==
    ASSUME "wronly" \notin Faults, HeldInv, NEW t \in Thread, Proceed(t) \/ Request(t)
    PROVE  /\ \A u \in Thread : u # t => call'[u] = call[u]
           /\ call'[t].op = "get" => call'[t].rd = TRUE
           /\ \/ \E f \in Fd : /\ \A g \in Fd : g # f => file'[g] = file[g]
                               /\ ~HasFd(t) /\ HasFd(t)' /\ call'[t].fd = f
              \/ /\ HasFd(t) => HasFd(t)' /\ call'[t].fd = call[t].fd
                 /\ \A g \in Fd : file'[g] = NoIno \/ file'[g] = file[g]
              \/ /\ HasFd(t) /\ file'[call[t].fd] = NoIno
                 /\ \A g \in Fd : g # call[t].fd => file'[g] = file[g]
  <1> DEFINE Kept   == \A u \in Thread : u # t => call'[u] = call[u]
             Reads  == call'[t].op = "get" => call'[t].rd = TRUE
             Opened == \E f \in Fd : /\ \A g \in Fd : g # f => file'[g] = file[g]
                                     /\ ~HasFd(t) /\ HasFd(t)' /\ call'[t].fd = f
             Same   == /\ HasFd(t) => HasFd(t)' /\ call'[t].fd = call[t].fd
                       /\ \A g \in Fd : file'[g] = NoIno \/ file'[g] = file[g]
             Closed == /\ HasFd(t) /\ file'[call[t].fd] = NoIno
                       /\ \A g \in Fd : g # call[t].fd => file'[g] = file[g]
             Goal   == Kept /\ Reads /\ (Opened \/ Same \/ Closed)
  <1>1. TypeOK /\ Idle.op = "idle" /\ (HasFd(t) => call[t].fd \in Fd)
    BY CallFields DEF HeldInv, Idle
  \* close() and return.
  <1>2. ASSUME NEW c, c.op \notin {"get", "put"}, HasFd(t), Close(call[t].fd),
               call' = [call EXCEPT ![t] = c]
        PROVE  Goal
    <2>1. call'[t] = c /\ Kept
      BY <1>1, <1>2 DEF TypeOK
    <2>2. Closed
      BY <1>1, <1>2 DEF Close, TypeOK
    <2>3. QED
      BY <1>2, <2>1, <2>2
  <1>3. ASSUME NEW p \in Path, OpenFile(t, p) PROVE Goal
    <2>1. PICK f \in Fd, rd \in Readable :
            OpenAt(t, f, dir[p], [op |-> "get", fd |-> f, left |-> Len(data[dir[p]]),
                                  rd |-> rd])
      BY <1>3 DEF OpenFile
    <2> DEFINE c == [op |-> "get", fd |-> f, left |-> Len(data[dir[p]]), rd |-> rd]
    <2>2. rd = TRUE
      BY DEF Readable
    <2>3. /\ c.op \in {"get", "put"} /\ c.fd = f /\ c.rd = TRUE /\ call[t].op = "idle"
          /\ call'[t] = c
          /\ \A g \in Fd : g # f => file'[g] = file[g]
          /\ call' = [call EXCEPT ![t] = c]
      BY <1>1, <1>3, <2>1, <2>2 DEF OpenFile, OpenAt, TypeOK
    <2>4. Reads /\ Kept
      BY <1>1, <2>3 DEF TypeOK
    <2> HIDE DEF c
    <2>5. Opened
      BY <2>3 DEF HasFd
    <2>6. QED
      BY <2>4, <2>5
  <1>4. ASSUME NEW p \in Path, NEW src \in Content, CloseFile(t, p, src) PROVE Goal
    <2>1. PICK i \in Ino, f \in Fd :
            OpenAt(t, f, i, [op |-> "put", path |-> p, fd |-> f, src |-> src, sent |-> 0])
      BY <1>4 DEF CloseFile
    <2> DEFINE c == [op |-> "put", path |-> p, fd |-> f, src |-> src, sent |-> 0]
    <2>2. /\ c.op # "get" /\ c.op \in {"get", "put"} /\ c.fd = f
          /\ call[t].op = "idle" /\ call'[t] = c
          /\ \A g \in Fd : g # f => file'[g] = file[g]
          /\ call' = [call EXCEPT ![t] = c]
      BY <1>1, <1>4, <2>1 DEF CloseFile, OpenAt, TypeOK
    <2>3. Reads /\ Kept
      BY <1>1, <2>2 DEF TypeOK
    <2> HIDE DEF c
    <2>4. Opened
      BY <2>2 DEF HasFd
    <2>5. QED
      BY <2>3, <2>4
  <1>5. CASE SendEmptyChunk(t) \/ StopAtEndOfFile(t) \/ WriteFails(t)
    BY <1>1, <1>2, <1>5 DEF SendEmptyChunk, StopAtEndOfFile, WriteFails, HasFd, Return
  <1>6. CASE EndOfStream(t)
    <2> DEFINE c == [op |-> "unlink", path |-> call[t].path]
    <2>1. /\ HasFd(t) /\ Close(call[t].fd) /\ c.op = "unlink"
          /\ call' = [call EXCEPT ![t] = Idle] \/ call' = [call EXCEPT ![t] = c]
      BY <1>6 DEF EndOfStream, Publish, HasFd, Return
    <2> HIDE DEF c
    <2>2. QED
      BY <1>1, <1>2, <2>1
  <1>7. CASE SendChunk(t) \/ WriteChunk(t)
    <2>1. call[t].op \in {"get", "put"} /\ file' = file
      BY <1>7 DEF SendChunk, WriteChunk
    <2>2. CASE call' = call
      BY <2>1, <2>2 DEF HasFd, HeldInv
    <2>3. CASE call' = [call EXCEPT ![t].left = @ - 1] /\ call[t].op = "get"
      <3>1. call[t] \in GetCall /\ call[t].rd = TRUE
        BY <1>1, <2>3, CallKinds DEF TypeOK, HeldInv
      <3>2. call'[t] = [call[t] EXCEPT !.left = @ - 1] /\ Kept
        BY <1>1, <2>3 DEF TypeOK
      <3>3. call'[t].op = "get" /\ call'[t].fd = call[t].fd /\ call'[t].rd = call[t].rd
        BY <3>1, <3>2 DEF GetCall
      <3>4. QED
        BY <2>1, <3>1, <3>2, <3>3 DEF HasFd
    <2>4. CASE call' = [call EXCEPT ![t].sent = @ + 1] /\ call[t].op = "put"
      <3>1. call[t] \in PutCall
        BY <1>1, <2>4, CallKinds DEF TypeOK
      <3>2. call'[t] = [call[t] EXCEPT !.sent = @ + 1] /\ Kept
        BY <1>1, <2>4 DEF TypeOK
      <3>3. call'[t].op = "put" /\ call'[t].fd = call[t].fd
        BY <3>1, <3>2 DEF PutCall
      <3>4. QED
        BY <2>1, <3>2, <3>3 DEF HasFd
    <2>5. QED
      BY <1>7, <2>2, <2>3, <2>4 DEF SendChunk, WriteChunk
  <1>8. CASE ReadFails(t)
    <2>1. HasFd(t) /\ file' = file /\ call' = [call EXCEPT ![t] = Idle]
      BY <1>8 DEF ReadFails, HasFd, Return
    <2>2. file[call[t].fd] = NoIno
      BY <1>8 DEF ReadFails, HeldInv, Inode
    <2>3. call'[t] = Idle /\ Kept
      BY <1>1, <2>1 DEF TypeOK
    <2>4. QED
      BY <1>1, <2>1, <2>2, <2>3
  <1>9. CASE UnlinkTemp(t)
    <2>1. ~HasFd(t) /\ file' = file /\ call' = [call EXCEPT ![t] = Idle]
      BY <1>9 DEF UnlinkTemp, HasFd, Return
    <2>2. call'[t] = Idle /\ Kept
      BY <1>1, <2>1 DEF TypeOK
    <2>3. QED
      BY <1>1, <2>1, <2>2
  <1>10. ASSUME call' = call, \A g \in Fd : file'[g] = NoIno \/ file'[g] = file[g]
         PROVE  Goal
    BY <1>10 DEF HasFd, HeldInv
  <1>11. ASSUME Request(t) PROVE Goal
    <2>1. ASSUME NEW f \in Fd, StrayClose(t, f) PROVE Goal
      BY <1>1, <1>10, <2>1 DEF StrayClose, Close, TypeOK
    <2>2. ASSUME NEW p \in Path,
                 \/ OpenFileFails(t, p) \/ CreateFile(t, p) \/ CreateOverExisting(t, p)
                 \/ DeleteFile(t, p) \/ \E q \in Path : RenameFile(t, p, q)
          PROVE  Goal
      <3>1. call' = call /\ file' = file
        BY <2>2 DEF OpenFileFails, CreateFile, CreateOverExisting, DeleteFile, RenameFile
      <3>2. QED
        BY <1>10, <3>1
    <2>3. QED
      BY <1>3, <1>4, <1>11, <2>1, <2>2 DEF Request
  <1>12. ASSUME Proceed(t) PROVE Goal
    BY <1>5, <1>6, <1>7, <1>8, <1>9, <1>12 DEF Proceed
  <1>13. QED
    BY <1>11, <1>12

LEMMA HeldInvStep ==
    ASSUME "wronly" \notin Faults, HeldInv, [Next]_vars
    PROVE  HeldInv'
  <1>1. TypeOK'
    BY NextType DEF HeldInv
  <1>2. CASE UNCHANGED vars
    BY <1>1, <1>2 DEF vars, HeldInv, DescriptorsHeld, HasFd
  <1>3. CASE Crash
    BY <1>1, <1>3 DEF Crash, HeldInv, DescriptorsHeld, Idle
  <1>4. ASSUME NEW t \in Thread, Proceed(t) \/ Request(t) PROVE HeldInv'
    <2> DEFINE Opened == \E f \in Fd : /\ \A g \in Fd : g # f => file'[g] = file[g]
                                       /\ ~HasFd(t) /\ HasFd(t)' /\ call'[t].fd = f
               Same   == /\ HasFd(t) => HasFd(t)' /\ call'[t].fd = call[t].fd
                         /\ \A g \in Fd : file'[g] = NoIno \/ file'[g] = file[g]
               Closed == /\ HasFd(t) /\ file'[call[t].fd] = NoIno
                         /\ \A g \in Fd : g # call[t].fd => file'[g] = file[g]
    <2>1. /\ \A u \in Thread : u # t => call'[u] = call[u]
          /\ call'[t].op = "get" => call'[t].rd = TRUE
          /\ Opened \/ Same \/ Closed
      BY <1>4, HeldCases
    <2>2. DescriptorsHeld'
      <3> SUFFICES ASSUME NEW g \in Fd, file'[g] # NoIno
                   PROVE  \E u \in Thread : HasFd(u)' /\ call'[u].fd = g
        BY DEF DescriptorsHeld
      <3>1. \A u \in Thread : u # t => (HasFd(u)' <=> HasFd(u))
        BY <2>1 DEF HasFd
      <3>2. file[g] # NoIno => \E u \in Thread : HasFd(u) /\ call[u].fd = g
        BY DEF HeldInv, DescriptorsHeld
      <3>3. CASE Opened
        BY <2>1, <3>1, <3>2, <3>3
      <3>4. CASE Same
        BY <2>1, <3>1, <3>2, <3>4
      <3>5. CASE Closed
        BY <2>1, <3>1, <3>2, <3>5
      <3>6. QED
        BY <2>1, <3>3, <3>4, <3>5
    <2>3. QED
      BY <1>1, <2>1, <2>2 DEF HeldInv
  <1>5. QED
    BY <1>2, <1>3, <1>4 DEF Next

\* An open descriptor always belongs to a call in progress: no way a handler
\* can return leaves its descriptor open, except a read() that fails on a
\* descriptor opened for writing only.
THEOREM NoDescriptorIsLeaked ==
    ASSUME "wronly" \notin Faults
    PROVE  Spec => []DescriptorsHeld
  <1>1. Init => HeldInv
    BY InitType DEF Init, HeldInv, DescriptorsHeld, Idle
  <1>2. HeldInv /\ [Next]_vars => HeldInv'
    BY HeldInvStep
  <1>3. HeldInv => DescriptorsHeld
    BY DEF HeldInv
  <1>4. QED
    BY <1>1, <1>2, <1>3, PTL DEF Spec

(***************************************************************************)
(* Downloads, when no stray close takes a descriptor from a call.          *)
(***************************************************************************)

\* What a thread's download has open: what it had before, or a file that a
\* path names.
KeepsFile(u) ==
    call'[u].op = "get" =>
        \/ call[u].op = "get" /\ Inode(u)' = Inode(u)
        \/ tmp' = tmp /\ \E p \in Path : dir[p] # NoIno /\ Inode(u)' = dir[p]

LEMMA KeepsFileFrame ==
    ASSUME NEW t \in Thread, call'[t].op # "get",
           \A u \in Thread : u # t => call'[u] = call[u],
           \A u \in Thread : u # t /\ HasFd(u) => Inode(u)' = Inode(u)
    PROVE  \A u \in Thread : KeepsFile(u)
  BY DEF KeepsFile, HasFd

\* The steps of a call in progress, whether or not uploads overlap.
LEMMA ProceedKeepsFiles ==
    ASSUME TypeOK, FdsApart, NEW t \in Thread, Proceed(t)
    PROVE  FdsApart' /\ \A u \in Thread : KeepsFile(u)
  <1>1. CASE SendChunk(t)
    <2>1. /\ file' = file /\ call[t].op = "get" /\ call'[t].op = "get"
          /\ call'[t].fd = call[t].fd
      BY <1>1, CallKinds DEF SendChunk, TypeOK, GetCall
    <2>2. \A u \in Thread : u # t => call'[u] = call[u]
      BY <1>1 DEF SendChunk, TypeOK
    <2>3. \A u \in Thread : call'[u].op = call[u].op /\ (HasFd(u) => call'[u].fd = call[u].fd)
      BY <2>1, <2>2
    <2>4. QED
      BY <2>1, <2>3 DEF FdsApart, HasFd, KeepsFile, Inode
  <1>2. CASE SendEmptyChunk(t) \/ StopAtEndOfFile(t) \/ WriteFails(t)
    <2>1. /\ HasFd(t) /\ Close(call[t].fd)
          /\ call' = [call EXCEPT ![t] = Idle]
          /\ Idle.op \notin {"get", "put"}
      BY <1>2 DEF SendEmptyChunk, StopAtEndOfFile, WriteFails, Return, HasFd, Idle
    <2>2. QED
      BY <2>1, CloseFrame, KeepsFileFrame
  <1>3. CASE ReadFails(t) \/ UnlinkTemp(t)
    <2>1. /\ file' = file /\ call'[t] = Idle /\ Idle.op = "idle"
          /\ \A u \in Thread : u # t => call'[u] = call[u]
      BY <1>3 DEF ReadFails, UnlinkTemp, Return, TypeOK, Idle
    <2>2. QED
      BY <2>1 DEF FdsApart, HasFd, KeepsFile, Inode
  <1>4. CASE WriteChunk(t)
    <2>1. /\ file' = file /\ call[t].op = "put" /\ call'[t].op = "put"
          /\ call'[t].fd = call[t].fd
      BY <1>4, CallKinds DEF WriteChunk, TypeOK, PutCall
    <2>2. \A u \in Thread : u # t => call'[u] = call[u]
      BY <1>4 DEF WriteChunk, TypeOK
    <2>3. \A u \in Thread : call'[u].op = call[u].op /\ (HasFd(u) => call'[u].fd = call[u].fd)
      BY <2>1, <2>2
    <2>4. QED
      BY <2>1, <2>3 DEF FdsApart, HasFd, KeepsFile, Inode
  <1>5. CASE EndOfStream(t)
    <2>1. HasFd(t) /\ Close(call[t].fd)
      BY <1>5 DEF EndOfStream, Publish, HasFd
    <2>2. \E c : c.op \notin {"get", "put"} /\ call' = [call EXCEPT ![t] = c]
      <3>1. CASE tmp[call[t].path] = NoIno
        <4>1. call' = [call EXCEPT ![t] = Idle] /\ Idle.op \notin {"get", "put"}
          BY <1>5, <3>1 DEF EndOfStream, Publish, Return, Idle
        <4>2. QED
          BY <4>1
      <3>2. CASE tmp[call[t].path] # NoIno
        <4> DEFINE c == [op |-> "unlink", path |-> call[t].path]
        <4>1. call' = [call EXCEPT ![t] = c] /\ c.op \notin {"get", "put"}
          BY <1>5, <3>2 DEF EndOfStream, Publish
        <4> HIDE DEF c
        <4>2. QED
          BY <4>1
      <3>3. QED
        BY <3>1, <3>2
    <2>3. PICK c : c.op \notin {"get", "put"} /\ call' = [call EXCEPT ![t] = c]
      BY <2>2
    <2>4. QED
      BY <2>1, <2>3, CloseFrame, KeepsFileFrame
  <1>6. QED
    BY <1>1, <1>2, <1>3, <1>4, <1>5 DEF Proceed

\* The requests, but for a stray close.
LEMMA RequestKeepsFiles ==
    ASSUME TypeOK, FdsApart, "stray" \notin Faults, NEW t \in Thread, Request(t)
    PROVE  FdsApart' /\ \A u \in Thread : KeepsFile(u)
  <1>1. ASSUME NEW p \in Path, OpenFile(t, p)
        PROVE  FdsApart' /\ \A u \in Thread : KeepsFile(u)
    <2>1. PICK f \in Fd, rd \in Readable :
            OpenAt(t, f, dir[p], [op |-> "get", fd |-> f,
                                  left |-> Len(data[dir[p]]), rd |-> rd])
      BY <1>1 DEF OpenFile
    <2> DEFINE c == [op |-> "get", fd |-> f, left |-> Len(data[dir[p]]), rd |-> rd]
    <2>2. dir[p] \in Ino /\ dir[p] # NoIno /\ tmp' = tmp
      BY <1>1 DEF OpenFile, TypeOK
    <2>3. c.op \in {"get", "put"} /\ c.fd = f /\ OpenAt(t, f, dir[p], c)
      BY <2>1
    <2> HIDE DEF c
    <2>4. /\ FdsApart'
          /\ Inode(t)' = dir[p]
          /\ \A u \in Thread : u # t => call'[u] = call[u]
          /\ \A u \in Thread : u # t /\ HasFd(u) => Inode(u)' = Inode(u)
      BY <2>2, <2>3, OpenFrame
    <2>5. QED
      BY <2>2, <2>4 DEF KeepsFile, HasFd
  <1>2. ASSUME NEW p \in Path, NEW src \in Content, CloseFile(t, p, src)
        PROVE  FdsApart' /\ \A u \in Thread : KeepsFile(u)
    <2>1. PICK i \in Ino, f \in Fd :
            OpenAt(t, f, i, [op |-> "put", path |-> p, fd |-> f,
                             src |-> src, sent |-> 0])
      BY <1>2 DEF CloseFile
    <2> DEFINE c == [op |-> "put", path |-> p, fd |-> f, src |-> src, sent |-> 0]
    <2>2. c.op = "put" /\ c.fd = f /\ OpenAt(t, f, i, c)
      BY <2>1
    <2> HIDE DEF c
    <2>3. /\ FdsApart'
          /\ call'[t] = c
          /\ \A u \in Thread : u # t => call'[u] = call[u]
          /\ \A u \in Thread : u # t /\ HasFd(u) => Inode(u)' = Inode(u)
      BY <2>2, OpenFrame
    <2>4. QED
      BY <2>2, <2>3, KeepsFileFrame
  <1>3. ASSUME NEW p \in Path,
               \/ OpenFileFails(t, p) \/ CreateFile(t, p) \/ CreateOverExisting(t, p)
               \/ DeleteFile(t, p) \/ \E q \in Path : RenameFile(t, p, q)
        PROVE  FdsApart' /\ \A u \in Thread : KeepsFile(u)
    <2>1. UNCHANGED <<file, call>>
      BY <1>3 DEF OpenFileFails, CreateFile, CreateOverExisting, DeleteFile, RenameFile
    <2>2. QED
      BY <2>1 DEF FdsApart, HasFd, KeepsFile, Inode
  <1>4. ASSUME NEW f \in Fd PROVE ~StrayClose(t, f)
    BY DEF StrayClose
  <1>5. QED
    BY <1>1, <1>2, <1>3, <1>4 DEF Request

\* A temporary name changes to none, or to an inode that nobody has open.
LEMMA TempsAreNew ==
    ASSUME TypeOK, Next, NEW q \in Path
    PROVE  tmp'[q] \in {tmp[q], NoIno} \/ FreeIno(tmp'[q])
  <1>1. ASSUME NEW t \in Thread, NEW p \in Path, NEW src \in Content,
               CloseFile(t, p, src)
        PROVE  tmp'[q] \in {tmp[q], NoIno} \/ FreeIno(tmp'[q])
    <2>1. PICK i \in Ino :
            /\ IF tmp[p] = NoIno THEN FreeIno(i) ELSE i = tmp[p]
            /\ tmp' = [tmp EXCEPT ![p] = i]
      BY <1>1 DEF CloseFile
    <2>2. CASE q = p
      <3>1. tmp'[q] = i
        BY <2>1, <2>2 DEF TypeOK
      <3>2. QED
        BY <2>1, <2>2, <3>1
    <2>3. CASE q # p
      BY <2>1, <2>3 DEF TypeOK
    <2>4. QED
      BY <2>2, <2>3
  <1>2. ASSUME NEW t \in Thread, EndOfStream(t) \/ UnlinkTemp(t)
        PROVE  tmp'[q] \in {tmp[q], NoIno}
    BY <1>2 DEF EndOfStream, Publish, UnlinkTemp, TypeOK
  <1>3. ASSUME NEW t \in Thread, Proceed(t), ~EndOfStream(t), ~UnlinkTemp(t)
        PROVE  tmp' = tmp
    BY <1>3 DEF Proceed, SendChunk, SendEmptyChunk, StopAtEndOfFile, ReadFails,
                WriteChunk, WriteFails
  <1>4. ASSUME NEW t \in Thread, Request(t),
               ~\E p \in Path, src \in Content : CloseFile(t, p, src)
        PROVE  tmp' = tmp
    BY <1>4 DEF Request, OpenFile, OpenFileFails, CreateFile, CreateOverExisting,
                RenameFile, DeleteFile, StrayClose
  <1>5. CASE Crash
    BY <1>5 DEF Crash
  <1>6. QED
    BY <1>1, <1>2, <1>3, <1>4, <1>5 DEF Next

DownloadInv == TypeOK /\ NamesDistinct /\ FdsApart /\ TempsUnread

LEMMA DownloadInvStep ==
    ASSUME "stray" \notin Faults, DownloadInv, Next
    PROVE  DownloadInv'
  <1>1. TypeOK' /\ NamesDistinct'
    BY NextType, NamesStep DEF DownloadInv
  <1>2. FdsApart' /\ \A u \in Thread : KeepsFile(u)
    <2>1. CASE Crash
      BY <2>1 DEF Crash, Idle, FdsApart, HasFd, KeepsFile
    <2>2. QED
      BY <2>1, ProceedKeepsFiles, RequestKeepsFiles DEF Next, DownloadInv
  <1>3. ASSUME NEW u \in Thread, NEW q \in Path, call'[u].op = "get", Inode(u)' # NoIno
        PROVE  tmp'[q] # Inode(u)'
    <2>1. CASE call[u].op = "get" /\ Inode(u)' = Inode(u)
      <3>1. tmp[q] # Inode(u) /\ call[u].fd \in Fd
        BY <1>3, <2>1, CallFields DEF DownloadInv, TempsUnread, HasFd
      <3>2. ~FreeIno(Inode(u))
        BY <3>1 DEF FreeIno, Inode
      <3>3. QED
        BY <1>3, <2>1, <3>1, <3>2, TempsAreNew DEF DownloadInv
    <2>2. CASE tmp' = tmp /\ \E p \in Path : dir[p] # NoIno /\ Inode(u)' = dir[p]
      BY <2>2 DEF DownloadInv, NamesDistinct
    <2>3. QED
      BY <1>2, <1>3, <2>1, <2>2 DEF KeepsFile
  <1>4. QED
    BY <1>1, <1>2, <1>3 DEF DownloadInv, TempsUnread

LEMMA DownloadInvNext ==
    ASSUME "stray" \notin Faults, DownloadInv, [Next]_vars
    PROVE  DownloadInv'
  <1>1. CASE UNCHANGED vars
    <2>1. TypeOK'
      BY <1>1, NextType DEF DownloadInv
    <2>2. QED
      BY <1>1, <2>1 DEF DownloadInv, vars, NamesDistinct, FdsApart, HasFd, Inode,
         TempsUnread
  <1>2. QED
    BY <1>1, DownloadInvStep

\* No temporary name leads to a file that OpenFile is streaming, so that no
\* upload begins by truncating it, also when uploads overlap, are cut or hit
\* published files, and across crashes: what has a temporary name was opened
\* by uploads alone, and what a download has open had the name of a path.
THEOREM TempsAreUnread ==
    ASSUME "stray" \notin Faults
    PROVE  Spec => []TempsUnread
  <1>1. Init => DownloadInv
    BY InitType DEF Init, Idle, DownloadInv, NamesDistinct, FdsApart, HasFd,
       TempsUnread
  <1>2. DownloadInv /\ [Next]_vars => DownloadInv'
    BY DownloadInvNext
  <1>3. DownloadInv => TempsUnread
    BY DEF DownloadInv
  <1>4. QED
    BY <1>1, <1>2, <1>3, PTL DEF Spec
-----------------------------------------------------------------------------
\* What a step makes of the name of a path.
Unnames(p) == dir[p] # NoIno /\ dir'[p] = NoIno

Removal(p) ==
    \E t \in Thread : DeleteFile(t, p) \/ \E q \in Path : RenameFile(t, p, q)

\* An upload that is published gives its path a file, and no other path a new
\* one or none.
LEMMA PublishNames ==
    ASSUME TypeOK, NEW t \in Thread, NEW p \in Path, EndOfStream(t)
    PROVE  ~Unnames(p)
  <1> DEFINE own == call[t].path
  <1>1. own \in Path
    BY CallFields DEF EndOfStream
  <1>2. CASE tmp[own] = NoIno
    <2>1. dir' = dir
      BY <1>2 DEF EndOfStream, Publish
    <2>2. QED
      BY <2>1 DEF Unnames
  <1>3. CASE tmp[own] # NoIno
    <2>1. dir' = [dir EXCEPT ![own] = tmp[own]]
      BY <1>3 DEF EndOfStream, Publish
    <2> HIDE DEF own
    <2>2. dir'[p] = dir[p] \/ dir'[p] = tmp[own]
      BY <1>1, <2>1 DEF TypeOK
    <2>3. QED
      BY <1>3, <2>2 DEF Unnames
  <1>4. QED
    BY <1>2, <1>3

\* The requests: only the two that are meant to remove a name do.
LEMMA RequestNames ==
    ASSUME TypeOK, NEW t \in Thread, Request(t), NEW p \in Path, Unnames(p)
    PROVE  Removal(p)
  <1>1. dir' # dir
    BY DEF Unnames
  <1>2. ASSUME NEW r \in Path, CreateFile(t, r) PROVE FALSE
    <2>1. PICK i \in Ino : dir' = [dir EXCEPT ![r] = i]
      BY <1>2 DEF CreateFile
    <2>2. dir'[p] = dir[p] \/ dir'[p] = i
      BY <2>1 DEF TypeOK
    <2>3. QED
      BY <2>2, NilAssumption DEF Unnames
  <1>3. ASSUME NEW r \in Path, NEW q \in Path, RenameFile(t, r, q)
        PROVE  Removal(p)
    <2>1. /\ dir' = [dir EXCEPT ![q] = dir[r], ![r] = NoIno]
          /\ dir[r] # NoIno
      BY <1>3 DEF RenameFile
    <2>2. p # r => dir'[p] = dir[p] \/ dir'[p] = dir[r]
      BY <2>1 DEF TypeOK
    <2>3. p = r
      BY <2>1, <2>2 DEF Unnames
    <2>4. QED
      BY <1>3, <2>3 DEF Removal
  <1>4. ASSUME NEW r \in Path, DeleteFile(t, r) PROVE Removal(p)
    <2>1. dir' = [dir EXCEPT ![r] = NoIno]
      BY <1>4 DEF DeleteFile
    <2>2. p = r
      BY <2>1 DEF Unnames, TypeOK
    <2>3. QED
      BY <1>4, <2>2 DEF Removal
  <1>5. QED
    BY <1>1, <1>2, <1>3, <1>4 DEF Request, OpenFile, OpenFileFails, CloseFile,
       CreateOverExisting, StrayClose

LEMMA PathsStep ==
    ASSUME TypeOK, Next, NEW p \in Path, Unnames(p)
    PROVE  Removal(p)
  <1>1. dir' # dir
    BY DEF Unnames
  <1>2. ~Crash
    BY <1>1 DEF Crash
  <1>3. PICK t \in Thread : Proceed(t) \/ Request(t)
    BY <1>2 DEF Next
  <1>4. ~Proceed(t)
    <2>1. ~EndOfStream(t)
      BY PublishNames
    <2>2. QED
      BY <1>1, <2>1 DEF Proceed, SendChunk, SendEmptyChunk, StopAtEndOfFile,
         ReadFails, WriteChunk, WriteFails, UnlinkTemp
  <1>5. QED
    BY <1>3, <1>4, RequestNames

\* No handler but DeleteFile and RenameFile takes a path's name away, and no
\* crash does, at any step and with all the faults: an upload replaces the old
\* file at one instant, with a file that is there.
THEOREM PathsAreKept == Spec => PathsPersist
  <1>1. TypeOK /\ Next => \A p \in Path : Unnames(p) => Removal(p)
    BY PathsStep
  <1>2. TypeOK /\ [Next]_vars =>
            [\A p \in Path : dir[p] # NoIno /\ dir'[p] = NoIno =>
                \E t \in Thread :
                    DeleteFile(t, p) \/ \E q \in Path : RenameFile(t, p, q)]_vars
    BY <1>1 DEF Unnames, Removal
  <1>3. QED
    BY <1>2, TypeCorrect, PTL DEF Spec, PathsPersist

(***************************************************************************)
(* Downloads that have not sent a message yet.                             *)
(***************************************************************************)
ReadsOnly == {"stray", "wronly", "clobber"} \cap Faults = {}

\* Such a download is at the beginning of a file that has not become shorter
\* than its size was when it was opened.
Unanswered ==
    \A u \in Thread : call[u].op = "get" /\ got[u] = NoReply =>
        Offset(u) = 0 /\ call[u].left <= Len(data[Inode(u)])

OpensInv == DownloadInv /\ HeldInv /\ Unanswered

\* An open file that has no temporary name loses no chunk: it is not
\* truncated, and a write never shortens a file.
LEMMA OpenFilesGrow ==
    ASSUME ReadsOnly, TypeOK, Next, NEW i \in Ino, ~FreeIno(i),
           \A p \in Path : tmp[p] # i
    PROVE  Len(data'[i]) >= Len(data[i])
  <1> DEFINE Kept == data'[i] = data[i]
  <1>1. data[i] \in File /\ Len(data[i]) \in Nat
    BY DEF TypeOK, File
  <1>2. ASSUME NEW t \in Thread, WriteChunk(t), ~Kept
        PROVE  Len(data'[i]) >= Len(data[i])
    <2> DEFINE s == data[i]
               k == Offset(t) + 1
               c == call[t].src[call[t].sent + 1]
    <2>1. Inode(t) = i /\ data'[i] = WriteAt(s, k, c)
      BY <1>2 DEF WriteChunk, TypeOK
    <2>2. k \in Nat \ {0}
      BY <1>2, CallFields DEF WriteChunk, TypeOK, HasFd, Offset
    <2>3. c \in Chunk
      BY <1>2, CallFields DEF WriteChunk
    <2> HIDE DEF s, k, c
    <2>4. s \in File /\ Len(s) \in Nat
      BY <1>1 DEF s
    <2>5. Len(WriteAt(s, k, c)) >= Len(s)
      BY <2>2, <2>3, <2>4, WriteAtType
    <2>6. QED
      BY <2>1, <2>5 DEF s
  <1>3. ASSUME NEW t \in Thread, NEW p \in Path, NEW src \in Content, CloseFile(t, p, src)
        PROVE  Kept
    <2>1. PICK j \in Ino : /\ IF tmp[p] = NoIno THEN FreeIno(j) ELSE j = tmp[p]
                           /\ data' = [data EXCEPT ![j] = <<>>]
      BY <1>3 DEF CloseFile
    <2>2. j # i
      BY <2>1
    <2>3. QED
      BY <2>1, <2>2 DEF TypeOK
  <1>4. ASSUME NEW t \in Thread, NEW p \in Path, CreateFile(t, p)
        PROVE  Kept
    <2>1. PICK j \in Ino : FreeIno(j) /\ data' = [data EXCEPT ![j] = <<>>]
      BY <1>4 DEF CreateFile
    <2>2. j # i
      BY <2>1
    <2>3. QED
      BY <2>1, <2>2 DEF TypeOK
  <1>5. ASSUME NEW t \in Thread, NEW p \in Path PROVE ~CreateOverExisting(t, p)
    BY DEF CreateOverExisting, ReadsOnly
  <1>6. ASSUME NEW t \in Thread, Proceed(t), ~WriteChunk(t) PROVE data' = data
    BY <1>6 DEF Proceed, SendChunk, SendEmptyChunk, StopAtEndOfFile, ReadFails,
                WriteFails, EndOfStream, UnlinkTemp
  <1>7. ASSUME NEW t \in Thread, Request(t) PROVE Kept
    BY <1>3, <1>4, <1>5, <1>7 DEF Request, OpenFile, OpenFileFails, RenameFile,
                                  DeleteFile, StrayClose
  <1>8. CASE Crash
    BY <1>1, <1>8 DEF Crash
  <1>9. QED
    BY <1>1, <1>2, <1>6, <1>7, <1>8 DEF Next


\* A step of one thread leaves the streams of the others where they are.
LEMMA OthersKeepPlace ==
    ASSUME "stray" \notin Faults, TypeOK, FdsApart,
           NEW t \in Thread, Proceed(t) \/ Request(t),
           NEW u \in Thread, u # t, HasFd(u)
    PROVE  /\ call'[u] = call[u] /\ got'[u] = got[u]
           /\ Inode(u)' = Inode(u) /\ Offset(u)' = Offset(u)
  <1> DEFINE Held == /\ call'[u] = call[u]
                     /\ Inode(u)' = Inode(u) /\ Offset(u)' = Offset(u)
  <1>1. /\ call[u].fd \in Fd
        /\ HasFd(t) => call[t].fd \in Fd /\ call[t].fd # call[u].fd
    BY CallFields DEF FdsApart
  <1>2. got'[u] = got[u]
    BY DEF Proceed, SendChunk, SendEmptyChunk, StopAtEndOfFile, ReadFails, WriteChunk,
           WriteFails, EndOfStream, UnlinkTemp, Request, OpenFile, OpenFileFails,
           CloseFile, CreateFile, CreateOverExisting, RenameFile, DeleteFile,
           StrayClose, TypeOK
  <1>3. CASE SendChunk(t)
    BY <1>1, <1>2, <1>3 DEF SendChunk, TypeOK, HasFd, Inode, Offset
  <1>4. CASE WriteChunk(t)
    BY <1>1, <1>2, <1>4 DEF WriteChunk, TypeOK, HasFd, Inode, Offset
  <1>5. CASE SendEmptyChunk(t) \/ StopAtEndOfFile(t) \/ WriteFails(t)
    <2>1. /\ HasFd(t) /\ Close(call[t].fd)
          /\ call' = [call EXCEPT ![t] = Idle]
          /\ Idle.op \notin {"get", "put"}
      BY <1>5 DEF SendEmptyChunk, StopAtEndOfFile, WriteFails, Return, HasFd, Idle
    <2>2. QED
      BY <1>1, <1>2, <2>1, CloseFrame
  <1>6. CASE EndOfStream(t)
    <2> DEFINE d == [op |-> "unlink", path |-> call[t].path]
    <2>1. /\ HasFd(t) /\ Close(call[t].fd)
          /\ call' = [call EXCEPT ![t] = Idle] \/ call' = [call EXCEPT ![t] = d]
          /\ Idle.op \notin {"get", "put"} /\ d.op \notin {"get", "put"}
      BY <1>6 DEF EndOfStream, Publish, HasFd, Return, Idle
    <2> HIDE DEF d
    <2>2. QED
      BY <1>1, <1>2, <2>1, CloseFrame
  <1>7. CASE ReadFails(t) \/ UnlinkTemp(t)
    BY <1>1, <1>2, <1>7 DEF ReadFails, UnlinkTemp, Return, TypeOK, Inode, Offset
  <1>8. ASSUME NEW p \in Path, OpenFile(t, p) PROVE Held
    <2>1. PICK f \in Fd, rd \in Readable :
            OpenAt(t, f, dir[p], [op |-> "get", fd |-> f,
                                  left |-> Len(data[dir[p]]), rd |-> rd])
      BY <1>8 DEF OpenFile
    <2> DEFINE c == [op |-> "get", fd |-> f, left |-> Len(data[dir[p]]), rd |-> rd]
    <2>2. dir[p] \in Ino /\ c.op \in {"get", "put"} /\ c.fd = f /\ OpenAt(t, f, dir[p], c)
      BY <1>8, <2>1 DEF OpenFile, TypeOK
    <2> HIDE DEF c
    <2>3. QED
      BY <1>1, <2>2, OpenFrame
  <1>9. ASSUME NEW p \in Path, NEW src \in Content, CloseFile(t, p, src) PROVE Held
    <2>1. PICK i \in Ino, f \in Fd :
            OpenAt(t, f, i, [op |-> "put", path |-> p, fd |-> f,
                             src |-> src, sent |-> 0])
      BY <1>9 DEF CloseFile
    <2> DEFINE c == [op |-> "put", path |-> p, fd |-> f, src |-> src, sent |-> 0]
    <2>2. c.op \in {"get", "put"} /\ c.fd = f /\ OpenAt(t, f, i, c)
      BY <2>1
    <2> HIDE DEF c
    <2>3. QED
      BY <1>1, <2>2, OpenFrame
  <1>10. ASSUME NEW p \in Path,
                \/ OpenFileFails(t, p) \/ CreateFile(t, p) \/ CreateOverExisting(t, p)
                \/ DeleteFile(t, p) \/ \E q \in Path : RenameFile(t, p, q)
         PROVE  Held
    BY <1>10 DEF OpenFileFails, CreateFile, CreateOverExisting, DeleteFile, RenameFile,
                 Inode, Offset
  <1>11. ASSUME NEW f \in Fd PROVE ~StrayClose(t, f)
    BY DEF StrayClose
  <1>12. QED
    BY <1>2, <1>3, <1>4, <1>5, <1>6, <1>7, <1>8, <1>9, <1>10, <1>11
       DEF Proceed, Request

\* A step of a thread's own: a message that has been sent stays sent.
LEMMA OwnPlace ==
    ASSUME ReadsOnly, TypeOK, NEW t \in Thread, Proceed(t) \/ Request(t),
           call'[t].op = "get", got'[t] = NoReply
    PROVE  /\ data' = data /\ Offset(t)' = 0
           /\ call'[t].left = Len(data[Inode(t)'])
  <1>1. ~SendChunk(t)
    <2>1. ASSUME SendChunk(t) PROVE got'[t] # NoReply
      <3> DEFINE ch == data[Inode(t)][Offset(t) + 1]
                 s == Received(t)
      <3>1. got'[t] = Append(s, ch)
        BY <2>1 DEF SendChunk, TypeOK
      <3>2. s \in Seq(Chunk \cup {Hole})
        BY DEF TypeOK, Received, File
      <3>3. ch \in Chunk \cup {Hole}
        <4>1. Inode(t) \in Ino /\ Offset(t) \in Nat /\ Offset(t) < Len(data[Inode(t)])
          BY <2>1, CallFields DEF SendChunk, TypeOK, HasFd, Inode, Offset
        <4>2. data[Inode(t)] \in Seq(Chunk \cup {Hole})
          BY <4>1 DEF TypeOK, File
        <4> HIDE DEF ch, s
        <4>3. QED
          BY <4>1, <4>2 DEF ch
      <3> HIDE DEF ch, s
      <3>4. Append(s, ch) \in Seq(Chunk \cup {Hole})
        BY <3>2, <3>3
      <3>5. QED
        BY <3>1, <3>4, NilAssumption
    <2>2. QED
      BY <2>1
  <1>2. ~Proceed(t)
    <2>1. ASSUME SendEmptyChunk(t) \/ StopAtEndOfFile(t) \/ ReadFails(t) \/ WriteFails(t)
                 \/ UnlinkTemp(t)
          PROVE  call'[t].op # "get"
      BY <2>1 DEF SendEmptyChunk, StopAtEndOfFile, ReadFails, WriteFails, UnlinkTemp,
                  Return, Idle, TypeOK
    <2>2. ASSUME WriteChunk(t) PROVE call'[t].op # "get"
      BY <2>2, CallKinds DEF WriteChunk, TypeOK, PutCall
    <2>3. ASSUME EndOfStream(t) PROVE call'[t].op # "get"
      BY <2>3 DEF EndOfStream, Publish, Return, Idle, TypeOK
    <2>4. QED
      BY <1>1, <2>1, <2>2, <2>3 DEF Proceed
  <1>3. Request(t) /\ call[t].op = "idle"
    BY <1>2 DEF Request, OpenFile, OpenFileFails, CloseFile, CreateFile,
       CreateOverExisting, RenameFile, DeleteFile, StrayClose
  <1>4. ASSUME NEW p \in Path, NEW src \in Content PROVE ~CloseFile(t, p, src)
    BY <1>3 DEF CloseFile, OpenAt, TypeOK
  <1>5. call' # call
    BY <1>3
  <1>6. PICK p \in Path : OpenFile(t, p)
    BY <1>3, <1>4, <1>5 DEF Request, OpenFileFails, CreateFile,
       CreateOverExisting, RenameFile, DeleteFile, StrayClose
  <1>7. PICK f \in Fd, rd \in Readable :
          OpenAt(t, f, dir[p], [op |-> "get", fd |-> f,
                                left |-> Len(data[dir[p]]), rd |-> rd])
    BY <1>6 DEF OpenFile
  <1> DEFINE c == [op |-> "get", fd |-> f, left |-> Len(data[dir[p]]), rd |-> rd]
  <1>8. call'[t] = c /\ Inode(t)' = dir[p] /\ Offset(t)' = 0
    BY <1>7 DEF OpenAt, TypeOK, Inode, Offset
  <1>9. data' = data
    BY <1>6 DEF OpenFile
  <1>10. c.left = Len(data[dir[p]])
    OBVIOUS
  <1> HIDE DEF c
  <1>11. QED
    BY <1>6, <1>8, <1>9, <1>10

LEMMA OpensInvStep ==
    ASSUME ReadsOnly, OpensInv, [Next]_vars
    PROVE  OpensInv'
  <1>1. /\ TypeOK /\ FdsApart /\ DownloadInv /\ HeldInv
        /\ "stray" \notin Faults /\ "wronly" \notin Faults
    BY DEF OpensInv, DownloadInv, ReadsOnly
  <1>2. DownloadInv' /\ HeldInv' /\ TypeOK'
    BY <1>1, DownloadInvNext, HeldInvStep DEF DownloadInv
  <1>3. ASSUME NEW u \in Thread, call'[u].op = "get", got'[u] = NoReply, Next
        PROVE  Offset(u)' = 0 /\ call'[u].left <= Len(data'[Inode(u)'])
    <2>1. PICK t \in Thread : Proceed(t) \/ Request(t)
      BY <1>3 DEF Next, Crash, Idle
    <2>2. CASE call[u].op = "get" /\ u # t
      <3>1. /\ call'[u] = call[u] /\ got'[u] = got[u]
            /\ Inode(u)' = Inode(u) /\ Offset(u)' = Offset(u)
        BY <1>1, <2>1, <2>2, OthersKeepPlace DEF HasFd
      <3>2. /\ Inode(u) \in Ino /\ ~FreeIno(Inode(u))
            /\ \A p \in Path : tmp[p] # Inode(u)
        BY <1>1, <2>2, CallFields DEF DownloadInv, TempsUnread, FdsApart, HasFd,
           TypeOK, FreeIno, Inode
      <3>3. Len(data'[Inode(u)]) >= Len(data[Inode(u)])
        BY <1>1, <1>3, <3>2, OpenFilesGrow
      <3>4. data[Inode(u)] \in File /\ data'[Inode(u)] \in File
        BY <1>1, <1>2, <3>2 DEF TypeOK
      <3>5. /\ call[u].left \in Nat
            /\ Len(data[Inode(u)]) \in Nat /\ Len(data'[Inode(u)]) \in Nat
        BY <1>1, <2>2, <3>4, CallFields DEF File
      <3>6. Offset(u) = 0 /\ call[u].left <= Len(data[Inode(u)])
        BY <1>3, <2>2, <3>1 DEF OpensInv, Unanswered
      <3>7. QED
        BY <3>1, <3>3, <3>5, <3>6
    <2>3. CASE u = t
      <3>1. /\ data' = data /\ Offset(t)' = 0
            /\ call'[t].left = Len(data[Inode(t)'])
        BY <1>1, <1>3, <2>1, <2>3, OwnPlace
      <3>2. call'[t].left \in Nat
        BY <1>2, <1>3, <2>3, CallKinds DEF TypeOK, GetCall
      <3>3. QED
        BY <2>3, <3>1, <3>2
    <2>4. CASE call[u].op # "get" /\ u # t
      BY <1>1, <1>3, <2>1, <2>4, HeldCases
    <2>5. QED
      BY <2>2, <2>3, <2>4
  <1>4. CASE UNCHANGED vars
    BY <1>2, <1>4 DEF vars, OpensInv, Unanswered, Inode, Offset
  <1>5. QED
    BY <1>2, <1>3, <1>4 DEF OpensInv, Unanswered

\* The way back from an OpenFile is behind a message: the read() of an open
\* file does not fail, and does not find the end of a file it has not read.
LEMMA ReturnsAnswered ==
    ASSUME ReadsOnly, OpensInv, Next, NEW u \in Thread,
           call[u].op = "get", call'[u].op = "idle", ~Crash
    PROVE  got'[u] # NoReply
  <1>1. TypeOK /\ FdsApart /\ HeldInv /\ "stray" \notin Faults
    BY DEF OpensInv, HeldInv, DownloadInv, ReadsOnly
  <1>2. PICK t \in Thread : Proceed(t) \/ Request(t)
    BY DEF Next
  <1>3. u = t
    BY <1>1, <1>2, OthersKeepPlace DEF HasFd
  <1>4. CASE SendEmptyChunk(u)
    <2>1. got'[u] = Received(u)
      BY <1>1, <1>4 DEF SendEmptyChunk, TypeOK
    <2>2. Received(u) \in Seq(Chunk \cup {Hole})
      BY <1>1 DEF TypeOK, Received, File
    <2>3. QED
      BY <2>1, <2>2, NilAssumption
  <1>5. ~ReadFails(u)
    <2>1. Inode(u) # NoIno /\ call[u].rd = TRUE
      BY <1>1 DEF FdsApart, HasFd, HeldInv
    <2>2. QED
      BY <2>1 DEF ReadFails
  <1>6. ASSUME StopAtEndOfFile(u), got[u] = NoReply PROVE FALSE
    <2>1. Offset(u) = 0 /\ call[u].left <= Len(data[Inode(u)])
      BY <1>6 DEF OpensInv, Unanswered
    <2>2. call[u].left \in Nat /\ call[u].left > 0 /\ Offset(u) >= Len(data[Inode(u)])
      BY <1>1, <1>6, CallFields DEF StopAtEndOfFile
    <2>3. data[Inode(u)] \in File
      BY <1>1, CallFields DEF FdsApart, HasFd, TypeOK, Inode
    <2>4. Len(data[Inode(u)]) \in Nat
      BY <2>3 DEF File
    <2>5. QED
      BY <2>1, <2>2, <2>4
  <1>7. ~SendChunk(u)
    BY <1>1, CallKinds DEF SendChunk, TypeOK, GetCall
  <1>8. Proceed(u)
    BY <1>2, <1>3 DEF Request, OpenFile, OpenFileFails, CloseFile, CreateFile,
       CreateOverExisting, RenameFile, DeleteFile, StrayClose
  <1>9. SendEmptyChunk(u) \/ StopAtEndOfFile(u)
    BY <1>5, <1>7, <1>8 DEF Proceed, WriteChunk, WriteFails, EndOfStream, UnlinkTemp
  <1>10. QED
    BY <1>1, <1>4, <1>6, <1>9 DEF StopAtEndOfFile

\* An OpenFile that has found its file is answered, unless the server crashes
\* or one of three things happens: the file is opened for writing only, it is
\* emptied by O_TRUNC under the download, or a stray close takes the
\* descriptor.  Uploads of the path, overlapping or cut, renames, deletes and
\* empty files do not matter.
THEOREM OpensAreAnswered ==
    ASSUME {"stray", "wronly", "clobber"} \cap Faults = {}
    PROVE  Spec => OpensAnswered
  <1>1. ReadsOnly
    BY DEF ReadsOnly
  <1>2. Init => OpensInv
    <2>1. Init => DownloadInv /\ HeldInv
      BY InitType DEF Init, Idle, DownloadInv, NamesDistinct, FdsApart, HasFd,
         TempsUnread, HeldInv, DescriptorsHeld
    <2>2. Init => Unanswered
      BY DEF Init, Idle, Unanswered
    <2>3. QED
      BY <2>1, <2>2 DEF OpensInv
  <1>3. OpensInv /\ [Next]_vars => OpensInv'
    BY <1>1, OpensInvStep
  <1>4. OpensInv /\ [Next]_vars =>
            [\A t \in Thread :
                call[t].op = "get" /\ call'[t].op = "idle"
                => Crash \/ got'[t] # NoReply]_vars
    BY <1>1, ReturnsAnswered
  <1>5. QED
    BY <1>2, <1>3, <1>4, PTL DEF Spec, OpensAnswered

(***************************************************************************)
(* How far the calls in progress are from their end, when no two uploads   *)
(* of one path overlap and no stray close happens.                         *)
(***************************************************************************)
Unread(t) ==
    IF Offset(t) < Len(data[Inode(t)]) THEN Len(data[Inode(t)]) - Offset(t) ELSE 0

StepsLeft(t) ==
    CASE call[t].op = "get"    -> Unread(t) + 1
      [] call[t].op = "put"    -> Len(call[t].src) - call[t].sent + 2
      [] call[t].op = "unlink" -> 1
      [] OTHER                 -> 0

\* A call has so many steps left.  A step of its own brings it nearer to its
\* end, and no other step takes it further away.
Nearer(t) ==
    /\ StepsLeft(t) \in Nat
    /\ IF Proceed(t) THEN StepsLeft(t)' < StepsLeft(t)
                     ELSE StepsLeft(t)' <= StepsLeft(t)

StreamInv == UploadInv /\ TempsUnread

LEMMA StreamInvStep == ASSUME OneUploader, StreamInv, [Next]_vars PROVE StreamInv'
  <1>1. UploadInv' /\ "stray" \notin Faults /\ DownloadInv
    BY UploadInvStep DEF StreamInv, OneUploader, UploadInv, DownloadInv
  <1>2. DownloadInv'
    BY <1>1, DownloadInvNext
  <1>3. QED
    BY <1>1, <1>2 DEF StreamInv, DownloadInv

\* The file that a download reads stays as it is, or is emptied.
LEMMA DownloadedFile ==
    ASSUME OneUploader, StreamInv, Next, NEW u \in Thread, call[u].op = "get"
    PROVE  data'[Inode(u)] = data[Inode(u)] \/ data'[Inode(u)] = <<>>
  <1> DEFINE i == Inode(u)
             Goal == data'[i] = data[i] \/ data'[i] = <<>>
  <1>1. /\ TypeOK /\ TempOwned /\ NamesDistinct
        /\ i \in Ino /\ ~FreeIno(i) /\ \A p \in Path : tmp[p] # i
    BY CallFields DEF StreamInv, UploadInv, TempsUnread, FdsApart, HasFd,
       TypeOK, FreeIno, Inode
  <1> HIDE DEF i
  <1>2. ASSUME NEW t \in Thread, WriteChunk(t) PROVE Goal
    <2>1. Inode(t) # i
      BY <1>1, <1>2, CallFields DEF WriteChunk, TempOwned
    <2>2. QED
      BY <1>1, <1>2, <2>1 DEF WriteChunk, TypeOK
  <1>3. ASSUME NEW j \in Ino, data' = [data EXCEPT ![j] = <<>>] PROVE Goal
    BY <1>1, <1>3 DEF TypeOK
  <1>4. ASSUME NEW t \in Thread, NEW p \in Path, NEW src \in Content, CloseFile(t, p, src)
        PROVE  Goal
    <2>1. PICK j \in Ino : data' = [data EXCEPT ![j] = <<>>]
      BY <1>4 DEF CloseFile
    <2>2. QED
      BY <1>3, <2>1
  <1>5. ASSUME NEW t \in Thread, NEW p \in Path, CreateFile(t, p) PROVE Goal
    <2>1. PICK j \in Ino : data' = [data EXCEPT ![j] = <<>>]
      BY <1>5 DEF CreateFile
    <2>2. QED
      BY <1>3, <2>1
  <1>6. ASSUME NEW t \in Thread, NEW p \in Path, CreateOverExisting(t, p) PROVE Goal
    <2>1. dir[p] \in Ino /\ data' = [data EXCEPT ![dir[p]] = <<>>]
      BY <1>1, <1>6 DEF CreateOverExisting, TypeOK
    <2>2. QED
      BY <1>3, <2>1
  <1>7. ASSUME NEW t \in Thread, Proceed(t), ~WriteChunk(t) PROVE data' = data
    BY <1>7 DEF Proceed, SendChunk, SendEmptyChunk, StopAtEndOfFile, ReadFails,
                WriteFails, EndOfStream, UnlinkTemp
  <1>8. ASSUME NEW t \in Thread, Request(t) PROVE Goal
    BY <1>4, <1>5, <1>6, <1>8 DEF Request, OpenFile, OpenFileFails, RenameFile,
                                  DeleteFile, StrayClose
  <1>9. Goal
    BY <1>2, <1>7, <1>8 DEF Next, Crash
  <1>10. QED
    BY <1>9 DEF i

\* What StepsLeft is made of.
LEMMA StreamFacts ==
    ASSUME StreamInv, NEW u \in Thread, HasFd(u)
    PROVE  /\ call[u].fd \in Fd /\ Inode(u) \in Ino /\ Offset(u) \in Nat
           /\ Len(data[Inode(u)]) \in Nat
           /\ call[u].op = "get" => call[u].left \in Nat
           /\ call[u].op = "put" =>
                /\ Len(call[u].src) \in Nat /\ call[u].sent \in Nat
                /\ call[u].sent <= Len(call[u].src)
  <1>1. TypeOK /\ FdsApart /\ Collected
    BY DEF StreamInv, UploadInv
  <1>2. call[u].fd \in Fd /\ Inode(u) \in Ino /\ Offset(u) \in Nat
    BY <1>1, CallFields DEF FdsApart, TypeOK, Inode, Offset
  <1>3. data[Inode(u)] \in File
    BY <1>1, <1>2 DEF TypeOK
  <1>4. Len(data[Inode(u)]) \in Nat
    BY <1>3 DEF File
  <1>5. QED
    BY <1>1, <1>2, <1>4, CallFields DEF Collected

LEMMA StepsLeftType ==
    ASSUME StreamInv, NEW u \in Thread
    PROVE  /\ StepsLeft(u) \in Nat
           /\ StepsLeft(u) = 0 <=> call[u].op = "idle"
  <1>1. call[u].op \in {"idle", "get", "put", "unlink"}
    BY CallKinds DEF StreamInv, UploadInv, TypeOK, Idle, GetCall, PutCall, UnlinkCall
  <1>2. CASE call[u].op = "get"
    BY <1>2, StreamFacts DEF StepsLeft, Unread, HasFd
  <1>3. CASE call[u].op = "put"
    BY <1>3, StreamFacts DEF StepsLeft, HasFd
  <1>4. QED
    BY <1>1, <1>2, <1>3 DEF StepsLeft

\* The steps of the call itself.
LEMMA OwnStepIsNearer ==
    ASSUME OneUploader, StreamInv, StreamInv', NEW t \in Thread, Proceed(t)
    PROVE  StepsLeft(t)' < StepsLeft(t)
  <1>1. TypeOK /\ TypeOK'
    BY DEF StreamInv, UploadInv
  <1>2. StepsLeft(t) \in Nat /\ (StepsLeft(t) = 0 <=> call[t].op = "idle")
    BY StepsLeftType
  <1>3. ASSUME call[t].op # "idle", call'[t].op = "idle"
        PROVE  StepsLeft(t)' < StepsLeft(t)
    <2>1. StepsLeft(t)' = 0
      BY <1>3 DEF StepsLeft
    <2>2. QED
      BY <1>2, <1>3, <2>1
  <1>4. CASE SendEmptyChunk(t) \/ StopAtEndOfFile(t) \/ ReadFails(t) \/ WriteFails(t)
             \/ UnlinkTemp(t)
    <2>1. call[t].op # "idle" /\ call'[t].op = "idle"
      BY <1>1, <1>4 DEF SendEmptyChunk, StopAtEndOfFile, ReadFails, WriteFails,
                        UnlinkTemp, Return, Idle, TypeOK
    <2>2. QED
      BY <1>3, <2>1
  <1>5. CASE SendChunk(t)
    <2>1. /\ call[t].fd \in Fd /\ Inode(t) \in Ino /\ Offset(t) \in Nat
          /\ Len(data[Inode(t)]) \in Nat /\ Offset(t) < Len(data[Inode(t)])
          /\ call[t].op = "get"
      BY <1>5, StreamFacts DEF SendChunk, HasFd
    <2>2. call'[t].op = "get" /\ call'[t].fd = call[t].fd
      BY <1>1, <1>5, CallKinds DEF SendChunk, TypeOK, GetCall
    <2>3. /\ data'[Inode(t)] = data[Inode(t)]
          /\ Inode(t)' = Inode(t) /\ Offset(t)' = Offset(t) + 1
      BY <1>1, <1>5, <2>1, <2>2 DEF SendChunk, TypeOK, Inode, Offset
    <2>4. StepsLeft(t) = Len(data[Inode(t)]) - Offset(t) + 1
      BY <2>1 DEF StepsLeft, Unread
    <2>5. StepsLeft(t)' = Unread(t)' + 1
      BY <2>2 DEF StepsLeft
    <2>6. data' = data
      BY <1>5 DEF SendChunk
    <2>7. Unread(t)' = IF Offset(t) + 1 < Len(data[Inode(t)])
                       THEN Len(data[Inode(t)]) - (Offset(t) + 1) ELSE 0
      BY <2>3, <2>6 DEF Unread
    <2>8. QED
      BY <2>1, <2>4, <2>5, <2>7
  <1>6. CASE WriteChunk(t)
    <2>1. /\ call[t].op = "put" /\ call[t] \in PutCall
          /\ call'[t] = [call[t] EXCEPT !.sent = @ + 1]
      BY <1>1, <1>6, CallKinds DEF WriteChunk, TypeOK
    <2>2. /\ call'[t].op = "put" /\ call'[t].src = call[t].src
          /\ call'[t].sent = call[t].sent + 1
      BY <2>1 DEF PutCall
    <2>3. Len(call[t].src) \in Nat /\ call[t].sent \in Nat
      BY <2>1, StreamFacts DEF HasFd
    <2>4. QED
      BY <2>1, <2>2, <2>3 DEF StepsLeft
  <1>7. CASE EndOfStream(t)
    <2>1. /\ call[t].op = "put" /\ Len(call[t].src) \in Nat /\ call[t].sent \in Nat
          /\ call[t].sent <= Len(call[t].src)
      BY <1>7, StreamFacts DEF EndOfStream, HasFd
    <2>2. StepsLeft(t) >= 2
      BY <2>1 DEF StepsLeft
    <2>3. call'[t].op \in {"idle", "unlink"}
      BY <1>1, <1>7 DEF EndOfStream, Publish, Return, Idle, TypeOK
    <2>4. StepsLeft(t)' \in {0, 1}
      BY <2>3 DEF StepsLeft
    <2>5. QED
      BY <1>2, <2>2, <2>4
  <1>8. QED
    BY <1>4, <1>5, <1>6, <1>7 DEF Proceed

\* The steps of the others, and the crash.
LEMMA OtherStepsKeepNear ==
    ASSUME OneUploader, StreamInv, StreamInv', Next, NEW u \in Thread,
           call[u].op # "idle", ~Proceed(u)
    PROVE  StepsLeft(u)' <= StepsLeft(u)
  <1>1. TypeOK /\ FdsApart /\ "stray" \notin Faults
    BY DEF StreamInv, UploadInv, OneUploader
  <1>2. StepsLeft(u) \in Nat
    BY StepsLeftType
  <1>3. CASE Crash
    <2>1. call'[u].op = "idle"
      BY <1>3 DEF Crash, Idle
    <2>2. StepsLeft(u)' = 0
      BY <2>1 DEF StepsLeft
    <2>3. QED
      BY <1>2, <2>2
  <1>4. CASE ~Crash
    <2>1. PICK t \in Thread : Proceed(t) \/ Request(t)
      BY <1>4 DEF Next
    <2>2. u # t
      BY <1>1, <2>1 DEF Request, OpenFile, OpenFileFails, CloseFile, CreateFile,
         CreateOverExisting, RenameFile, DeleteFile, StrayClose
    <2>3. CASE call[u].op = "get"
      <3>1. /\ call'[u] = call[u]
            /\ Inode(u)' = Inode(u) /\ Offset(u)' = Offset(u)
        BY <1>1, <2>1, <2>2, <2>3, OthersKeepPlace DEF HasFd
      <3>2. Len(data'[Inode(u)]) <= Len(data[Inode(u)])
        <4>1. Len(data[Inode(u)]) \in Nat /\ Len(<<>>) = 0
          BY <2>3, StreamFacts DEF HasFd
        <4>2. QED
          BY <2>3, <4>1, DownloadedFile
      <3>3. /\ Len(data[Inode(u)]) \in Nat /\ Offset(u) \in Nat
            /\ Len(data'[Inode(u)]) \in Nat
        <4>1. Len(data[Inode(u)])' \in Nat
          BY <2>3, <3>1, StreamFacts DEF HasFd
        <4>2. QED
          BY <2>3, <3>1, <4>1, StreamFacts DEF HasFd
      <3>4. Unread(u)' = IF Offset(u) < Len(data'[Inode(u)])
                         THEN Len(data'[Inode(u)]) - Offset(u) ELSE 0
        BY <3>1 DEF Unread
      <3>5. Unread(u)' <= Unread(u)
        BY <3>2, <3>3, <3>4 DEF Unread
      <3>6. Unread(u) \in Nat /\ Unread(u)' \in Nat
        BY <3>3, <3>4 DEF Unread
      <3>7. QED
        BY <2>3, <3>1, <3>5, <3>6 DEF StepsLeft
    <2>4. CASE call[u].op = "put"
      <3>1. call'[u] = call[u]
        BY <1>1, <2>1, <2>2, <2>4, OthersKeepPlace DEF HasFd
      <3>2. StepsLeft(u)' = StepsLeft(u)
        BY <2>4, <3>1 DEF StepsLeft
      <3>3. QED
        BY <1>2, <3>2
    <2>5. CASE call[u].op = "unlink"
      <3>1. call'[u] = call[u]
        BY <1>1, <2>1, <2>2 DEF Proceed, SendChunk, SendEmptyChunk, StopAtEndOfFile,
           ReadFails, WriteChunk, WriteFails, EndOfStream, Publish, UnlinkTemp, Return,
           Request, OpenFile, OpenFileFails, CloseFile, OpenAt, CreateFile,
           CreateOverExisting, RenameFile, DeleteFile, StrayClose, TypeOK
      <3>2. StepsLeft(u)' = StepsLeft(u)
        BY <2>5, <3>1 DEF StepsLeft
      <3>3. QED
        BY <1>2, <3>2
    <2>6. call[u].op \in {"get", "put", "unlink"}
      BY <1>1, CallKinds DEF TypeOK, Idle, GetCall, PutCall, UnlinkCall
    <2>7. QED
      BY <2>3, <2>4, <2>5, <2>6
  <1>5. QED
    BY <1>3, <1>4

\* A call in progress is a bounded number of its own steps away from its end,
\* and nothing that other handlers do meanwhile makes them more: the file that
\* a download reads does not grow under it, whatever is uploaded, renamed or
\* deleted, although OpenFile's loop looks at the file and not only at the
\* size it has read before.
THEOREM CallsComeToAnEnd ==
    ASSUME OneUploader
    PROVE  Spec => [][\A t \in Thread : call[t].op # "idle" => Nearer(t)]_vars
  <1>1. Init => StreamInv
    <2>1. Init => UploadInv
      BY UploadInvInit
    <2>2. Init => TempsUnread
      BY DEF Init, Idle, TempsUnread
    <2>3. QED
      BY <2>1, <2>2 DEF StreamInv
  <1>2. StreamInv /\ [Next]_vars => StreamInv'
    BY StreamInvStep
  <1>3. StreamInv /\ StreamInv' /\ [Next]_vars =>
            [\A t \in Thread : call[t].op # "idle" => Nearer(t)]_vars
    BY StepsLeftType, OwnStepIsNearer, OtherStepsKeepNear DEF Nearer
  <1>4. QED
    BY <1>1, <1>2, <1>3, PTL DEF Spec
-----------------------------------------------------------------------------
(***************************************************************************)
(* What a download carries, when uploads may be cut and published files    *)
(* emptied in place.  A download is in step while what it has carried is   *)
(* the part of its file before its offset, and ended once the file has     *)
(* been emptied, since nothing is added to it any more.                    *)
(***************************************************************************)
InStep(t) ==
    /\ OfOneUpload(data[Inode(t)])
    /\ Offset(t) = Len(Received(t))
    /\ IsPrefixOf(Received(t), data[Inode(t)])

DownloadsInStep ==
    \A t \in Thread :
        call[t].op = "get" => data[Inode(t)] = <<>> \/ InStep(t)

CarriedInv ==
    /\ StreamInv
    /\ PublishedPrefix
    /\ DownloadsInStep
    /\ DownloadsUnmixed

\* The step that carries a chunk.
LEMMA CarryStep ==
    ASSUME CarriedInv, NEW t \in Thread, SendChunk(t)
    PROVE  /\ InStep(t)'
           /\ OfOneUpload(got'[t])
           /\ \A u \in Thread : u # t => got'[u] = got[u]
  <1>1. TypeOK /\ DownloadsInStep
    BY DEF CarriedInv, StreamInv, UploadInv
  <1> DEFINE file0 == data[Inode(t)]
             r == Received(t)
             n == Offset(t)
  <1>2. /\ call[t].fd \in Fd /\ Inode(t) \in Ino /\ n \in Nat
        /\ Len(file0) \in Nat /\ n < Len(file0)
        /\ call[t].op = "get" /\ call[t] \in GetCall
    BY <1>1, CallKinds, StreamFacts DEF CarriedInv, SendChunk, HasFd, TypeOK
  <1>3. /\ call'[t].op = "get" /\ call'[t].fd = call[t].fd
    BY <1>1, <1>2 DEF SendChunk, TypeOK, GetCall
  <1>4. /\ data' = data /\ Inode(t)' = Inode(t) /\ Offset(t)' = n + 1
    BY <1>1, <1>2, <1>3 DEF SendChunk, TypeOK, Inode, Offset
  <1>5. /\ got'[t] = Append(r, file0[n + 1])
        /\ \A u \in Thread : u # t => got'[u] = got[u]
    BY <1>1 DEF SendChunk, TypeOK
  <1>6. file0 # <<>> /\ file0 \in File
    BY <1>1, <1>2 DEF TypeOK
  <1>7. /\ OfOneUpload(file0) /\ n = Len(r)
        /\ \A j \in 1 .. Len(r) : r[j] = file0[j]
    BY <1>1, <1>2, <1>6 DEF DownloadsInStep, InStep, IsPrefixOf
  <1>8. r \in File /\ file0[n + 1] \in Chunk \cup {Hole}
    BY <1>1, <1>2, <1>6 DEF TypeOK, Received, File
  <1> DEFINE s == Append(r, file0[n + 1])
  <1>9. /\ s # NoReply /\ Len(s) = n + 1
        /\ \A j \in 1 .. (n + 1) : s[j] = file0[j]
    <2>1. /\ s # NoReply /\ Len(s) = Len(r) + 1 /\ s[Len(r) + 1] = file0[n + 1]
          /\ \A j \in 1 .. Len(r) : s[j] = r[j]
      BY <1>8, AppendChunk
    <2> HIDE DEF s, r, file0, n
    <2>2. QED
      BY <1>2, <1>7, <2>1
  <1>10. Received(t)' = s
    BY <1>5, <1>9 DEF Received
  <1> HIDE DEF s, r, file0, n
  <1>11. IsPrefixOf(s, file0)
    BY <1>2, <1>9 DEF IsPrefixOf
  <1>12. data'[Inode(t)'] = file0
    BY <1>4 DEF file0
  <1>13. InStep(t)'
    BY <1>4, <1>7, <1>9, <1>10, <1>11, <1>12 DEF InStep, OfOneUpload, IsPrefixOf
  <1>14. OfOneUpload(s)
    <2>1. PICK c \in Content : IsPrefixOf(file0, c)
      BY <1>7 DEF OfOneUpload
    <2>2. Len(c) \in Nat
      BY ContentAssumption
    <2>3. IsPrefixOf(s, c)
      BY <1>2, <1>9, <2>1, <2>2 DEF IsPrefixOf
    <2>4. QED
      BY <2>3 DEF OfOneUpload
  <1>15. QED
    BY <1>5, <1>13, <1>14 DEF s

\* What the other steps do to the answers.
LEMMA AnswersKept ==
    ASSUME TypeOK, [Next]_vars, NEW u \in Thread, ~SendChunk(u)
    PROVE  got'[u] \in {got[u], NoReply, Received(u)}
  <1>1. ASSUME NEW t \in Thread, Proceed(t) PROVE got'[u] \in {got[u], Received(u)}
    <2>1. CASE t = u
      BY <1>1, <2>1 DEF Proceed, SendEmptyChunk, StopAtEndOfFile, ReadFails,
         WriteChunk, WriteFails, EndOfStream, UnlinkTemp, TypeOK
    <2>2. CASE t # u
      BY <1>1, <2>2 DEF Proceed, SendChunk, SendEmptyChunk, StopAtEndOfFile, ReadFails,
         WriteChunk, WriteFails, EndOfStream, UnlinkTemp, TypeOK
    <2>3. QED
      BY <2>1, <2>2
  <1>2. ASSUME NEW t \in Thread, Request(t) PROVE got'[u] \in {got[u], NoReply}
    BY <1>2 DEF Request, OpenFile, OpenFileFails, CloseFile, CreateFile,
       CreateOverExisting, RenameFile, DeleteFile, StrayClose, TypeOK
  <1>3. CASE Crash
    BY <1>3 DEF Crash
  <1>4. CASE UNCHANGED vars
    BY <1>4 DEF vars
  <1>5. QED
    BY <1>1, <1>2, <1>3, <1>4 DEF Next

\* The step that begins a download, and the steps of the others.
LEMMA InStepKept ==
    ASSUME OneUploader, CarriedInv, Next, NEW u \in Thread, ~SendChunk(u),
           call'[u].op = "get"
    PROVE  data'[Inode(u)'] = <<>> \/ InStep(u)'
  <1>1. TypeOK /\ FdsApart /\ DownloadsInStep /\ PublishedPrefix
    BY DEF CarriedInv, StreamInv, UploadInv
  <1>2. ~Crash
    <2>1. Crash => call'[u] = Idle
      BY DEF Crash
    <2>2. QED
      BY <2>1 DEF Idle
  <1>3. PICK t \in Thread : Proceed(t) \/ Request(t)
    BY <1>2 DEF Next
  <1>4. CASE t # u
    <2>1. call[u].op = "get" /\ HasFd(u)
      <3>1. call'[u] = call[u]
        BY <1>1, <1>3, <1>4
        DEF Proceed, Request, SendChunk, SendEmptyChunk, StopAtEndOfFile, ReadFails,
            WriteChunk, WriteFails, EndOfStream, Publish, UnlinkTemp,
            OpenFile, OpenFileFails, CloseFile, OpenAt, CreateFile,
            CreateOverExisting, RenameFile, DeleteFile, StrayClose, Return, TypeOK
      <3>2. QED
        BY <3>1 DEF HasFd
    <2>2. /\ got'[u] = got[u]
          /\ Inode(u)' = Inode(u) /\ Offset(u)' = Offset(u)
      BY <1>1, <1>3, <1>4, <2>1, OthersKeepPlace DEF OneUploader
    <2>3. data'[Inode(u)] = data[Inode(u)] \/ data'[Inode(u)] = <<>>
      BY <2>1, DownloadedFile DEF CarriedInv
    <2>4. data[Inode(u)] = <<>> \/ InStep(u)
      BY <1>1, <2>1 DEF DownloadsInStep
    <2>5. CASE data'[Inode(u)] = data[Inode(u)] /\ InStep(u)
      <3>1. Received(u)' = Received(u) /\ data'[Inode(u)'] = data[Inode(u)]
        BY <2>2, <2>5 DEF Received
      <3>2. QED
        BY <2>2, <2>5, <3>1 DEF InStep, OfOneUpload, IsPrefixOf
    <2>6. QED
      BY <2>2, <2>3, <2>4, <2>5
  <1>5. CASE t = u
    <2>1. ~Proceed(u)
      <3>1. ~WriteChunk(u)
        <4>1. ASSUME WriteChunk(u) PROVE FALSE
          <5>1. call[u] \in PutCall /\ call'[u] = [call[u] EXCEPT !.sent = @ + 1]
            BY <1>1, <4>1, CallKinds DEF WriteChunk, TypeOK
          <5>2. call'[u].op = "put"
            BY <5>1 DEF PutCall
          <5>3. QED
            BY <5>2
        <4>2. QED
          BY <4>1
      <3>2. ~EndOfStream(u)
        BY <1>1 DEF EndOfStream, Publish, Return, Idle, TypeOK
      <3>3. QED
        BY <1>1, <3>1, <3>2 DEF Proceed, SendEmptyChunk, StopAtEndOfFile, ReadFails,
           WriteFails, UnlinkTemp, Return, Idle, TypeOK
    <2>2. call[u].op = "idle"
      BY <1>3, <1>5, <2>1 DEF OneUploader, Request, OpenFile, OpenFileFails, CloseFile,
         CreateFile, CreateOverExisting, RenameFile, DeleteFile, StrayClose
    <2>3. PICK p \in Path : OpenFile(u, p)
      BY <1>1, <1>3, <1>5, <2>1, <2>2 DEF OneUploader, Request, OpenFileFails, CloseFile,
         OpenAt, CreateFile, CreateOverExisting, RenameFile, DeleteFile, StrayClose, TypeOK
    <2>4. /\ Inode(u)' = dir[p] /\ Offset(u)' = 0 /\ dir[p] # NoIno
          /\ got'[u] = NoReply /\ data' = data
      <3>1. PICK f \in Fd, rd \in Readable :
              OpenAt(u, f, dir[p], [op |-> "get", fd |-> f,
                                    left |-> Len(data[dir[p]]), rd |-> rd])
        BY <2>3 DEF OpenFile
      <3> DEFINE c == [op |-> "get", fd |-> f, left |-> Len(data[dir[p]]), rd |-> rd]
      <3>2. OpenAt(u, f, dir[p], c) /\ c.fd = f
        BY <3>1
      <3> HIDE DEF c
      <3>3. Inode(u)' = dir[p] /\ Offset(u)' = 0
        BY <1>1, <3>2 DEF OpenAt, Inode, Offset, TypeOK
      <3>4. QED
        BY <1>1, <2>3, <3>3 DEF OpenFile, TypeOK
    <2>5. Received(u)' = <<>> /\ OfOneUpload(data[dir[p]])
      BY <1>1, <2>4 DEF Received, PublishedPrefix, OfOneUpload
    <2>6. data[dir[p]] \in File
      BY <1>1, <2>4 DEF TypeOK
    <2>7. IsPrefixOf(<<>>, data[dir[p]])
      BY <2>6 DEF IsPrefixOf, File
    <2>8. QED
      BY <2>4, <2>5, <2>7 DEF InStep, OfOneUpload, IsPrefixOf
  <1>6. QED
    BY <1>4, <1>5

LEMMA CarriedInvStep ==
    ASSUME OneUploader, Content # {}, CarriedInv, [Next]_vars
    PROVE  CarriedInv'
  <1>1. StreamInv' /\ PublishedPrefix'
    BY StreamInvStep, PublishedPrefixStep DEF CarriedInv, StreamInv
  <1>2. TypeOK /\ DownloadsInStep /\ DownloadsUnmixed
    BY DEF CarriedInv, StreamInv, UploadInv
  <1>3. DownloadsInStep'
    <2>1. CASE UNCHANGED vars
      BY <1>2, <2>1 DEF DownloadsInStep, vars, InStep, OfOneUpload, IsPrefixOf,
         Inode, Offset, Received
    <2>2. CASE Next
      <3>1. ASSUME NEW u \in Thread, call'[u].op = "get"
            PROVE  data'[Inode(u)'] = <<>> \/ InStep(u)'
        BY <2>2, <3>1, CarryStep, InStepKept
      <3>2. QED
        BY <3>1 DEF DownloadsInStep
    <2>3. QED
      BY <2>1, <2>2
  <1>4. DownloadsUnmixed'
    <2> SUFFICES ASSUME NEW u \in Thread, got'[u] # NoReply
                 PROVE  OfOneUpload(got'[u])
      BY DEF DownloadsUnmixed, OfOneUpload, IsPrefixOf
    <2>1. CASE SendChunk(u)
      BY <2>1, CarryStep
    <2>2. CASE ~SendChunk(u)
      <3>1. got'[u] \in {got[u], Received(u)}
        BY <1>2, <2>2, AnswersKept
      <3>2. got'[u] = got[u] \/ got'[u] = <<>>
        BY <3>1 DEF Received
      <3>3. QED
        BY <1>2, <3>2, EmptyIsPrefix DEF DownloadsUnmixed, OfOneUpload
    <2>3. QED
      BY <2>1, <2>2
  <1>5. QED
    BY <1>1, <1>3, <1>4 DEF CarriedInv

\* A download never carries chunks of two uploads, as long as uploads of one
\* path do not overlap: whatever is uploaded, cut, renamed, deleted or emptied
\* in place while it reads, it has carried the front part of one upload
\* (wiscAFS_server.cc:165-230, 339-387, 427).
THEOREM DownloadsAreUnmixed ==
    ASSUME OneUploader, Content # {}
    PROVE  Spec => []DownloadsUnmixed
  <1>1. Init => CarriedInv
    <2>1. Init => UploadInv
      BY UploadInvInit
    <2>2. Init => TempsUnread /\ PublishedPrefix /\ DownloadsInStep /\ DownloadsUnmixed
      BY DEF Init, Idle, TempsUnread, PublishedPrefix, DownloadsInStep, DownloadsUnmixed
    <2>3. QED
      BY <2>1, <2>2 DEF CarriedInv, StreamInv
  <1>2. CarriedInv /\ [Next]_vars => CarriedInv'
    BY CarriedInvStep
  <1>3. CarriedInv => DownloadsUnmixed
    BY DEF CarriedInv
  <1>4. QED
    BY <1>1, <1>2, <1>3, PTL DEF Spec
=============================================================================
