-------------------------- MODULE AfsSessionProofs --------------------------
(***************************************************************************)
(* Theorems about AfsClient when files are not shared on a client, opens   *)
(* find their file and descriptors are closed once; whatever else fails.   *)
(***************************************************************************)
EXTENDS AfsClientProofs

Private == Faults \cap {"shared", "moved", "vanish", "dup"} = {}

(***************************************************************************)
(* The inductive invariant.  Right(a) is about one application and the     *)
(* rows of its client, Apart(a, b) about two on one client.                *)
(***************************************************************************)
EntryRight(a) ==
    LET e == cache[Home[a]][app[a].path] IN
    /\ e.ino = Local(a)
    /\ app[a].at = "opening" => ~e.dirty
    /\ app[a].at \in {"open", "closing"} => e.dirty = app[a].wrote
    /\ app[a].at = "written" => app[a].wrote

CopyRight(a) ==
    LET copy == local[Home[a]][Local(a)] IN
    /\ app[a].at = "opening" /\ app[a].fd # NoFd =>
        /\ Local(a) = app[a].ino
        /\ Len(copy) = app[a].n
        /\ IsPrefixOf(copy, app[a].src)
    /\ app[a].at = "closing" =>
        /\ app[a].wrote /\ app[a].ino = Local(a)
        /\ copy # <<>>
        /\ IsPrefixOf(app[a].sent, copy)

Right(a) ==
    /\ HasFd(a) => app[a].fd # NoFd /\ Local(a) # NoIno /\ EntryRight(a)
    /\ CopyRight(a)
    /\ app[a].at = "opening" /\ app[a].fd = NoFd => app[a].n = 0
    /\ app[a].at = "creating" => cache[Home[a]][app[a].path] = NoEntry
    /\ app[a].at = "closing" => app[a].last
    /\ app[a].at = "renaming" => app[a].path # app[a].to

\* What an operation has begun with stays out of the others' hands.
Apart(a, b) ==
    a # b /\ Home[a] = Home[b] =>
        /\ HasFd(a) /\ HasFd(b) =>
            /\ app[a].fd # app[b].fd
            /\ Local(a) # Local(b)
            /\ app[a].path # app[b].path
        /\ app[a].at \in {"opening", "creating"} /\ HasFile(b) =>
            app[b].path # app[a].path /\ Local(b) # app[a].ino
        /\ app[a].at = "renaming" /\ HasFile(b) =>
            app[b].path # app[a].path /\ app[b].path # app[a].to

PairInv ==
    /\ \A a \in App : Right(a)
    /\ \A a, b \in App : Apart(a, b)

\* Nobody has posted wiscOPSem without having waited for it.
SemsAgree == \A c \in Client : opSem[c] = clientSem[c]

SessionInv == StateInv /\ SemsAgree /\ InodesApart /\ PairInv

(***************************************************************************)
(* It implies the invariant that the runs check.                           *)
(***************************************************************************)
LEMMA SessionInvIInv == SessionInv => IInv
  <1> SUFFICES ASSUME SessionInv PROVE IInv
    OBVIOUS
  <1>1. TypeOK /\ OneLibraryCall /\ InodesApart
    BY StateInvType, SemInvOne DEF SessionInv, StateInv
  <1>2. FilesApart
    <2> SUFFICES ASSUME NEW a \in App, HasFd(a)
                 PROVE  /\ app[a].fd # NoFd
                        /\ Local(a) # NoIno
                        /\ \A b \in App : HasFd(b) /\ Home[a] = Home[b] /\ a # b =>
                            /\ app[a].fd # app[b].fd
                            /\ Local(a) # Local(b)
                            /\ app[a].path # app[b].path
      BY DEF FilesApart
    <2>1. Right(a) /\ \A b \in App : Apart(a, b)
      BY DEF SessionInv, PairInv
    <2>2. QED
      BY <2>1 DEF Right, Apart
  <1>3. EntriesRight
    BY DEF SessionInv, PairInv, Right, EntryRight, EntriesRight
  <1>4. CopiesRight
    BY DEF SessionInv, PairInv, Right, CopyRight, CopiesRight
  <1>5. QED
    BY <1>1, <1>2, <1>3, <1>4 DEF IInv

LEMMA SessionInvInit == Init => SessionInv
  <1> SUFFICES ASSUME Init PROVE SessionInv
    OBVIOUS
  <1>1. StateInv
    BY StateInvInit
  <1>2. SemsAgree /\ InodesApart
    BY DEF Init, SemsAgree, InodesApart
  <1>3. \A a \in App : app[a].at = "idle"
    BY DEF Init, Idle
  <1>4. PairInv
    BY <1>3 DEF PairInv, Right, Apart, HasFd, HasFile, CopyRight
  <1>5. QED
    BY <1>1, <1>2, <1>4 DEF SessionInv

(***************************************************************************)
(* Facts about the invariant.                                              *)
(***************************************************************************)

\* One operation at a time, in the words of a and b.
LEMMA Alone ==
    ASSUME SemInv, NEW a \in App, NEW b \in App, a # b, Home[a] = Home[b], InLibrary(a)
    PROVE  ~InLibrary(b)
  <1>1. Home[a] \in Client
    BY HomeAssumption
  <1>2. Inside(Home[a], a)
    BY DEF Inside
  <1>3. InLibrary(b) => Inside(Home[a], b)
    BY DEF Inside
  <1>4. QED
    BY <1>1, <1>2, <1>3 DEF SemInv

\* When clientSem can be had, nobody is in the library.
LEMMA NobodyInside ==
    ASSUME SemInv, NEW c \in Client, clientSem[c] > 0, NEW b \in App, Home[b] = c
    PROVE  ~InLibrary(b)
  <1>1. clientSem[c] # 0
    BY DEF SemInv
  <1>2. QED
    BY <1>1 DEF SemInv, Inside

\* The local copy of an open file is one.
LEMMA LocalType2 ==
    ASSUME StateType, NEW a \in App, HasFd(a), Local(a) # NoIno
    PROVE  Local(a) \in Copy /\ app[a].fd \in Fd
  <1>1. app[a].fd \in Fd \cup {NoFd} /\ Home[a] \in Client
    BY HomeAssumption, AppFields DEF StateType, HasFd
  <1>2. app[a].fd # NoFd
    BY DEF Local
  <1>3. QED
    BY <1>1, <1>2 DEF StateType, FileType, Local

(***************************************************************************)
(* What a step leaves alone of application b: its call, and what of the    *)
(* rows of its client its call depends on.                                 *)
(***************************************************************************)
Same(b) ==
    /\ app'[b] = app[b]
    /\ HasFd(b) => /\ Local(b)' = Local(b)
                   /\ cache'[Home[b]][app[b].path] = cache[Home[b]][app[b].path]
                   /\ InLibrary(b) =>
                        local'[Home[b]][Local(b)] = local[Home[b]][Local(b)]
    /\ app[b].at = "creating" =>
         cache'[Home[b]][app[b].path] = cache[Home[b]][app[b].path]

LEMMA SameRight ==
    ASSUME NEW b \in App, Right(b), Same(b)
    PROVE  Right(b)'
  <1>1. /\ HasFd(b)' <=> HasFd(b)
        /\ HasFile(b)' <=> HasFile(b)
        /\ app'[b] = app[b]
    BY DEF Same, HasFd, HasFile
  <1>2. CASE ~HasFd(b)
    <2>1. CopyRight(b)'
      BY <1>1, <1>2 DEF CopyRight, HasFd, HasFile
    <2>2. QED
      BY <1>1, <1>2, <2>1 DEF Right, Same
  <1>3. CASE HasFd(b)
    <2>1. /\ Local(b)' = Local(b)
          /\ cache'[Home[b]][app[b].path] = cache[Home[b]][app[b].path]
          /\ InLibrary(b) => local'[Home[b]][Local(b)] = local[Home[b]][Local(b)]
      BY <1>3 DEF Same
    <2>2. EntryRight(b)'
      BY <1>1, <1>3, <2>1 DEF EntryRight, Right
    <2>3. CopyRight(b)'
      BY <1>1, <1>3, <2>1 DEF CopyRight, Right, InLibrary
    <2>4. QED
      BY <1>1, <1>3, <2>1, <2>2, <2>3 DEF Right
  <1>4. QED
    BY <1>2, <1>3

LEMMA SameApart ==
    ASSUME NEW b \in App, NEW d \in App, Apart(b, d), Same(b), Same(d)
    PROVE  Apart(b, d)'
  <1>1. /\ app'[b] = app[b] /\ app'[d] = app[d]
        /\ HasFd(b)' <=> HasFd(b)
        /\ HasFd(d)' <=> HasFd(d)
        /\ HasFile(d)' <=> HasFile(d)
        /\ HasFd(b) => Local(b)' = Local(b)
        /\ HasFd(d) => Local(d)' = Local(d)
        /\ HasFile(d) => HasFd(d)
    BY DEF Same, HasFd, HasFile
  <1>2. QED
    BY <1>1 DEF Apart

\* A step that leaves everybody alone.
LEMMA AllSame ==
    ASSUME PairInv, \A b \in App : Same(b)
    PROVE  PairInv'
  BY SameRight, SameApart DEF PairInv

Kept(a) == \A b \in App : b # a => Same(b)

\* A step of application a that leaves the others alone.
LEMMA PairsStep ==
    ASSUME PairInv, NEW a \in App, Kept(a), Right(a)',
           \A b \in App : b # a => Apart(a, b)' /\ Apart(b, a)'
    PROVE  PairInv'
  <1>1. \A b \in App : Right(b)'
    BY SameRight DEF PairInv, Kept
  <1>2. ASSUME NEW b \in App, NEW d \in App PROVE Apart(b, d)'
    <2>1. CASE b = d
      BY <2>1 DEF Apart
    <2>2. CASE b # d /\ (b = a \/ d = a)
      BY <2>2
    <2>3. CASE b # a /\ d # a
      BY <2>3, SameApart DEF PairInv, Kept
    <2>4. QED
      BY <2>1, <2>2, <2>3
  <1>3. QED
    BY <1>1, <1>2 DEF PairInv

(***************************************************************************)
(* The kinds of step, by what becomes of the call.                         *)
(***************************************************************************)

\* The call ends, and the application has no file.
LEMMA ReturnsPairs ==
    ASSUME PairInv, NEW a \in App, Kept(a), app'[a] = Idle
    PROVE  PairInv'
  <1>1. ~HasFd(a)' /\ ~HasFile(a)' /\ app'[a].at = "idle"
    BY DEF HasFd, HasFile, Idle
  <1>2. Right(a)'
    BY <1>1 DEF Right, CopyRight
  <1>3. ASSUME NEW b \in App, b # a PROVE Apart(a, b)' /\ Apart(b, a)'
    BY <1>1 DEF Apart
  <1>4. QED
    BY <1>2, <1>3, PairsStep

\* A call begins.
LEMMA BeginsPairs ==
    ASSUME PairInv, NEW a \in App, Kept(a), Right(a)', ~HasFd(a)',
           \A b \in App : b # a => Apart(a, b)'
    PROVE  PairInv'
  <1>1. ~HasFile(a)'
    BY DEF HasFd
  <1>2. ASSUME NEW b \in App, b # a PROVE Apart(b, a)'
    BY <1>1 DEF Apart
  <1>3. QED
    BY <1>2, PairsStep

\* The application keeps its file.
LEMMA StaysPairs ==
    ASSUME PairInv, SemInv, NEW a \in App, Kept(a), Right(a)', HasFd(a), HasFd(a)',
           app'[a].path = app[a].path, app'[a].fd = app[a].fd, Local(a)' = Local(a),
           HasFile(a)' => HasFile(a) \/ InLibrary(a),
           app'[a].at = "opening" => app[a].at = "opening" /\ app'[a].ino = app[a].ino
    PROVE  PairInv'
  <1>1. app'[a].at \notin {"creating", "renaming"}
    BY DEF HasFd, HasFile
  <1>2. ASSUME NEW b \in App, b # a PROVE Apart(a, b)' /\ Apart(b, a)'
    <2>1. /\ app'[b] = app[b]
          /\ HasFd(b)' <=> HasFd(b)
          /\ HasFile(b)' <=> HasFile(b)
          /\ HasFd(b) => Local(b)' = Local(b)
          /\ HasFile(b) => HasFd(b)
      BY <1>2 DEF Kept, Same, HasFd, HasFile
    <2>2. Apart(a, b) /\ Apart(b, a)
      BY DEF PairInv
    <2>3. Home[a] = Home[b] /\ InLibrary(a) => ~InLibrary(b)
      BY <1>2, Alone
    <2>4. Apart(a, b)'
      BY <1>1, <2>1, <2>2 DEF Apart
    <2>5. Apart(b, a)'
      BY <2>1, <2>2, <2>3 DEF Apart, InLibrary
    <2>6. QED
      BY <2>4, <2>5
  <1>3. QED
    BY <1>2, PairsStep

\* The application gets the descriptor f, which was free.
LEMMA AcquiresPairs ==
    ASSUME PairInv, SemInv, NEW a \in App, Kept(a), Right(a)', HasFd(a)',
           app[a].at \in {"opening", "creating"},
           app'[a].at = "opening" => app'[a].ino = app[a].ino,
           app'[a].path = app[a].path, Local(a)' = app[a].ino,
           file[Home[a]][app'[a].fd] = NoIno
    PROVE  PairInv'
  <1>1. app'[a].at \notin {"creating", "renaming"}
    BY DEF HasFd, HasFile
  <1>2. ASSUME NEW b \in App, b # a PROVE Apart(a, b)' /\ Apart(b, a)'
    <2>1. /\ app'[b] = app[b]
          /\ HasFd(b)' <=> HasFd(b)
          /\ HasFile(b)' <=> HasFile(b)
          /\ HasFd(b) => Local(b)' = Local(b)
      BY <1>2 DEF Kept, Same, HasFd, HasFile
    <2>2. CASE Home[a] # Home[b]
      BY <2>2 DEF Apart
    <2>3. CASE Home[a] = Home[b]
      <3>1. ~InLibrary(b)
        BY <1>2, <2>3, Alone DEF InLibrary
      <3>2. HasFd(b) => HasFile(b) /\ Local(b) # NoIno /\ app[b].fd # NoFd
        BY <3>1 DEF HasFd, InLibrary, PairInv, Right
      <3>3. HasFd(b) => app[b].fd # app'[a].fd
        BY <2>3, <3>2 DEF Local
      <3>4. HasFd(b) => app[b].path # app[a].path /\ Local(b) # app[a].ino
        BY <1>2, <2>3, <3>2 DEF PairInv, Apart
      <3>5. HasFile(b) => HasFd(b)
        BY DEF HasFd
      <3>6. Apart(a, b)'
        BY <1>1, <2>1, <3>3, <3>4, <3>5 DEF Apart
      <3>7. Apart(b, a)'
        BY <2>1, <3>1, <3>3, <3>4 DEF Apart, InLibrary
      <3>8. QED
        BY <3>6, <3>7
    <2>4. QED
      BY <2>2, <2>3
  <1>3. QED
    BY <1>2, PairsStep

\* The other applications, when the step leaves the rows of all clients alone.
LEMMA RowsKept ==
    ASSUME NEW a \in App, UNCHANGED <<cache, local, file>>,
           \A b \in App : b # a => app'[b] = app[b]
    PROVE  Kept(a)
  BY DEF Kept, Same, Local

\* And when it leaves the rows of the other clients alone.
LEMMA OtherClients ==
    ASSUME NEW b \in App, app'[b] = app[b],
           cache'[Home[b]] = cache[Home[b]], local'[Home[b]] = local[Home[b]],
           file'[Home[b]] = file[Home[b]]
    PROVE  Same(b)
  BY DEF Same, Local

(***************************************************************************)
(* wiscAFS_open.                                                           *)
(***************************************************************************)
LEMMA OpenFilePairs ==
    ASSUME Private, StateType, PairInv, NEW a \in App, NEW p \in Path, OpenFile(a, p)
    PROVE  PairInv' /\ Kept(a)
  <1> DEFINE k == [at |-> "opening", path |-> p, ino |-> dir[p],
                   src |-> data[dir[p]], fd |-> NoFd, n |-> 0]
  <1>1. /\ app'[a] = k
        /\ \A b \in App : b # a => app'[b] = app[b]
    BY DEF OpenFile, StateType, AppType
  <1>2. Kept(a)
    BY <1>1, RowsKept DEF OpenFile
  <1>3. ~HasFd(a)'
    BY <1>1 DEF HasFd, HasFile
  <1>4. Right(a)'
    BY <1>1, <1>3 DEF Right, CopyRight
  <1>5. ASSUME NEW b \in App, b # a PROVE Apart(a, b)'
    <2>1. ~InUse(Home[a], p, dir[p])
      BY DEF OpenFile, Private
    <2>2. Home[b] = Home[a] /\ HasFile(b) => app[b].path # p /\ Local(b) # dir[p]
      BY <2>1 DEF InUse
    <2>3. HasFile(b)' => HasFile(b) /\ app'[b].path = app[b].path /\ Local(b)' = Local(b)
      BY <1>2, <1>5 DEF Kept, Same, HasFile, HasFd
    <2>4. QED
      BY <1>1, <1>3, <2>2, <2>3 DEF Apart
  <1>6. QED
    BY <1>2, <1>3, <1>4, <1>5, BeginsPairs

LEMMA OpenLocalCopyPairs ==
    ASSUME StateType, SemInv, PairInv, NEW a \in App, OpenLocalCopy(a)
    PROVE  PairInv' /\ Kept(a)
  <1> DEFINE c == Home[a]
             i == app[a].ino
             p == app[a].path
  <1>1. /\ c \in Client /\ app[a] \in OpeningApp /\ p \in Path
        /\ i \in Ino /\ i \in Copy /\ i # NoIno /\ app[a].src \in File
    BY HomeAssumption, NilAssumption, AppKinds, AppFields
       DEF OpenLocalCopy, StateType, Copy
  <1>2. PICK f \in Fd : /\ file[c][f] = NoIno
                        /\ file' = [file EXCEPT ![c][f] = i]
                        /\ app' = [app EXCEPT ![a].fd = f]
    BY DEF OpenLocalCopy
  <1>3. /\ app'[a].at = "opening" /\ app'[a].path = p /\ app'[a].ino = i
        /\ app'[a].src = app[a].src /\ app'[a].n = app[a].n /\ app'[a].fd = f
    BY <1>1, <1>2 DEF OpeningApp, StateType, AppType
  <1>4. /\ \A b \in App : b # a => app'[b] = app[b]
        /\ \A d \in Client : d # c =>
             cache'[d] = cache[d] /\ local'[d] = local[d] /\ file'[d] = file[d]
        /\ file'[c][f] = i
        /\ \A g \in Fd : g # f => file'[c][g] = file[c][g]
        /\ cache'[c][p] = Clean(i)
        /\ \A q \in Path : q # p => cache'[c][q] = cache[c][q]
        /\ local'[c][i] = <<>>
        /\ \A j \in Copy : j # i => local'[c][j] = local[c][j]
    BY <1>1, <1>2 DEF OpenLocalCopy, StateType, AppType, FileType, CacheType, LocalType
  <1>5. f # NoFd /\ Local(a)' = i /\ HasFd(a)'
    BY <1>3, <1>4, NilAssumption DEF Local, HasFd
  <1>6. Kept(a)
    <2> SUFFICES ASSUME NEW b \in App, b # a PROVE Same(b)
      BY DEF Kept
    <2>1. CASE Home[b] # c
      BY <1>4, <2>1, HomeAssumption, OtherClients
    <2>2. CASE Home[b] = c
      <3>1. ~InLibrary(b)
        BY <2>2, Alone DEF OpenLocalCopy, InLibrary
      <3>2. HasFd(b) => HasFile(b) /\ Local(b) # NoIno /\ app[b].fd # NoFd
        BY <3>1 DEF HasFd, InLibrary, PairInv, Right
      <3>3. HasFd(b) => app[b].path # p /\ app[b].path \in Path /\ app[b].fd \in Fd
        BY <2>2, <3>2, LocalType2, AppFields DEF PairInv, Apart, OpenLocalCopy, StateType
      <3>4. HasFd(b) => app[b].fd # f
        BY <1>2, <2>2, <3>2 DEF Local
      <3>5. HasFd(b) => Local(b)' = Local(b)
        BY <1>4, <2>2, <3>3, <3>4 DEF Local
      <3>6. QED
        BY <1>4, <2>2, <3>1, <3>3, <3>5 DEF Same, InLibrary
    <2>3. QED
      BY <2>1, <2>2
  <1>7. Right(a)'
    <2>1. EntryRight(a)'
      BY <1>3, <1>4, <1>5 DEF EntryRight, Clean
    <2>2. CopyRight(a)'
      <3>1. app[a].n = 0
        BY DEF OpenLocalCopy, PairInv, Right
      <3>2. IsPrefixOf(<<>>, app[a].src)
        BY <1>1 DEF IsPrefixOf, File
      <3>3. QED
        BY <1>3, <1>4, <1>5, <3>1, <3>2 DEF CopyRight
    <2>3. QED
      BY <1>1, <1>3, <1>5, <2>1, <2>2 DEF Right
  <1>8. QED
    BY <1>2, <1>3, <1>5, <1>6, <1>7, AcquiresPairs DEF OpenLocalCopy

\* One more chunk at the end of a copy.
LEMMA NextChunk ==
    ASSUME NEW s \in File, NEW src \in File, IsPrefixOf(s, src), Len(s) < Len(src)
    PROVE  LET t == WriteAt(s, Len(s) + 1, src[Len(s) + 1]) IN
           Len(t) = Len(s) + 1 /\ IsPrefixOf(t, src)
  <1> DEFINE n == Len(s) + 1
             t == WriteAt(s, n, src[n])
  <1>1. Len(s) \in Nat /\ Len(src) \in Nat
    BY DEF File
  <1>2. n \in Nat /\ n > Len(s)
    BY <1>1
  <1>3. t = [j \in 1 .. n |-> IF j = n THEN src[n] ELSE IF j \in 1 .. Len(s) THEN s[j] ELSE Hole]
    BY <1>2 DEF WriteAt
  <1>4. src[n] \in Chunk \cup {Hole}
    BY <1>1 DEF File
  <1>5. t \in File
    BY <1>2, <1>4, WriteAtType
  <1>6. Len(t) = n
    BY <1>2, <1>3, <1>5 DEF File
  <1>7. \A j \in 1 .. n : t[j] = src[j]
    <2>1. ASSUME NEW j \in 1 .. n PROVE t[j] = src[j]
      <3>1. j = n \/ j \in 1 .. Len(s)
        BY <1>1
      <3>2. QED
        BY <1>3, <3>1 DEF IsPrefixOf
    <2>2. QED
      BY <2>1
  <1>8. QED
    BY <1>1, <1>2, <1>6, <1>7 DEF IsPrefixOf

\* The other applications do not see a write to a's copy.
LEMMA CopyKept ==
    ASSUME StateType, PairInv, NEW a \in App, HasFd(a), UNCHANGED <<cache, file>>,
           \A b \in App : b # a => app'[b] = app[b],
           NEW s, local' = [local EXCEPT ![Home[a]][Local(a)] = s]
    PROVE  Kept(a)
  <1> SUFFICES ASSUME NEW b \in App, b # a PROVE Same(b)
    BY DEF Kept
  <1>1. Home[a] \in Client /\ Local(a) \in Copy
    BY HomeAssumption, LocalType2 DEF PairInv, Right
  <1>2. /\ \A d \in Client : d # Home[a] => local'[d] = local[d]
        /\ \A j \in Copy : j # Local(a) => local'[Home[a]][j] = local[Home[a]][j]
    BY <1>1 DEF StateType, LocalType
  <1>3. CASE Home[b] # Home[a]
    BY <1>2, <1>3, HomeAssumption, OtherClients
  <1>4. CASE Home[b] = Home[a]
    <2>1. HasFd(b) => Local(b) # Local(a) /\ Local(b) \in Copy
      BY <1>4, LocalType2 DEF PairInv, Apart, Right
    <2>2. Local(b)' = Local(b)
      BY DEF Local
    <2>3. QED
      BY <1>2, <1>4, <2>1, <2>2 DEF Same
  <1>5. QED
    BY <1>3, <1>4

LEMMA StoreMessagePairs ==
    ASSUME StateType, SemInv, PairInv, NEW a \in App, StoreMessage(a)
    PROVE  PairInv' /\ Kept(a)
  <1> DEFINE c == Home[a]
             i == Local(a)
             copy == local[c][i]
             n == app[a].n
             src == app[a].src
             s == WriteAt(copy, n + 1, src[n + 1])
  <1>1. HasFd(a) /\ app[a].at = "opening" /\ app[a].fd # NoFd
    BY DEF HasFd, StoreMessage
  <1>2. /\ app[a] \in OpeningApp /\ src \in File /\ n \in Nat /\ n < Len(src)
        /\ c \in Client /\ i \in Copy /\ copy \in File
    <2>1. i \in Copy /\ c \in Client
      BY <1>1, HomeAssumption, LocalType2 DEF PairInv, Right
    <2>2. QED
      BY <1>1, <2>1, AppKinds, AppFields DEF StoreMessage, StateType, LocalType
  <1>3. EntryRight(a) /\ i = app[a].ino /\ Len(copy) = n /\ IsPrefixOf(copy, src)
    BY <1>1 DEF PairInv, Right, CopyRight
  <1>4. /\ app'[a].at = "opening" /\ app'[a].path = app[a].path /\ app'[a].fd = app[a].fd
        /\ app'[a].ino = app[a].ino /\ app'[a].src = src /\ app'[a].n = n + 1
        /\ \A b \in App : b # a => app'[b] = app[b]
    BY <1>2 DEF StoreMessage, OpeningApp, StateType, AppType
  <1>5. local' = [local EXCEPT ![c][i] = s] /\ UNCHANGED <<cache, file>>
    BY DEF StoreMessage
  <1>6. Local(a)' = i /\ local'[c][i] = s
    BY <1>2, <1>4, <1>5 DEF Local, StateType, LocalType
  <1>7. Len(s) = n + 1 /\ IsPrefixOf(s, src)
    BY <1>2, <1>3, NextChunk
  <1> HIDE DEF s
  <1>8. Kept(a)
    BY <1>1, <1>4, <1>5, CopyKept
  <1>9. HasFd(a)' /\ ~HasFile(a)'
    BY <1>1, <1>4 DEF HasFd, HasFile
  <1>10. Right(a)'
    <2>1. EntryRight(a)'
      BY <1>1, <1>3, <1>4, <1>5, <1>6 DEF EntryRight
    <2>2. CopyRight(a)'
      BY <1>3, <1>4, <1>6, <1>7 DEF CopyRight
    <2>3. app'[a].fd # NoFd /\ Local(a)' # NoIno
      BY <1>1, <1>4, <1>6 DEF PairInv, Right
    <2>4. QED
      BY <1>4, <2>1, <2>2, <2>3 DEF Right
  <1>11. QED
    BY <1>1, <1>4, <1>6, <1>8, <1>9, <1>10, StaysPairs

LEMMA EndOpenPairs ==
    ASSUME StateType, SemInv, PairInv, NEW a \in App, EndOpen(a)
    PROVE  PairInv' /\ Kept(a)
  <1>1. HasFd(a) /\ app[a].at = "opening" /\ app[a].fd # NoFd /\ InLibrary(a)
    BY DEF HasFd, EndOpen, InLibrary
  <1>2. /\ app'[a] = [at |-> "open", path |-> app[a].path, fd |-> app[a].fd,
                      wrote |-> FALSE]
        /\ \A b \in App : b # a => app'[b] = app[b]
        /\ UNCHANGED <<cache, local, file>>
    BY DEF EndOpen, StateType, AppType
  <1>3. Kept(a)
    BY <1>2, RowsKept
  <1>4. HasFd(a)' /\ Local(a)' = Local(a)
    BY <1>2 DEF HasFd, HasFile, Local
  <1>5. Right(a)'
    <2>1. EntryRight(a) /\ Local(a) # NoIno
      BY <1>1 DEF PairInv, Right
    <2>2. ~cache[Home[a]][app[a].path].dirty
      BY <1>1, <2>1 DEF EntryRight
    <2>3. EntryRight(a)'
      <3>1. cache[Home[a]][app[a].path].dirty \in BOOLEAN
        <4>1. app[a].path \in Path /\ Home[a] \in Client
          BY <1>1, AppFields, HomeAssumption DEF StateType
        <4>2. cache[Home[a]][app[a].path] \in Entry
          BY <4>1, CleanType DEF StateType, CacheType
        <4>3. QED
          BY <4>2 DEF Entry
      <3>2. cache[Home[a]][app[a].path].dirty = FALSE
        BY <2>2, <3>1
      <3>3. cache'[Home[a]][app[a].path].dirty = FALSE
        BY <1>2, <3>2
      <3>4. cache'[Home[a]][app[a].path].ino = Local(a)'
        BY <1>2, <1>4, <2>1 DEF EntryRight
      <3>5. app'[a].at = "open" /\ app'[a].path = app[a].path /\ app'[a].wrote = FALSE
        BY <1>2
      <3>6. QED
        BY <3>3, <3>4, <3>5 DEF EntryRight
    <2>4. CopyRight(a)'
      BY <1>2 DEF CopyRight
    <2>5. QED
      BY <1>1, <1>2, <1>4, <2>1, <2>3, <2>4 DEF Right
  <1>6. QED
    BY <1>1, <1>2, <1>3, <1>4, <1>5, StaysPairs

\* An open or a create that fails.
LEMMA GivesUpPairs ==
    ASSUME StateType, PairInv, NEW a \in App,
           OpenNoCopy(a) \/ StoreFails(a) \/ CreateNoCopy(a)
    PROVE  PairInv' /\ Kept(a)
  <1>1. /\ app'[a] = Idle
        /\ \A b \in App : b # a => app'[b] = app[b]
        /\ UNCHANGED <<cache, local, file>>
    BY DEF OpenNoCopy, StoreFails, CreateNoCopy, StateType, AppType
  <1>2. QED
    BY <1>1, RowsKept, ReturnsPairs

(***************************************************************************)
(* wiscAFS_create.                                                         *)
(***************************************************************************)
LEMMA BeginCreatePairs ==
    ASSUME StateType, PairInv, NEW a \in App, NEW p \in Path, NEW i \in Copy, NEW s,
           Creating(a, p, i, s), UNCHANGED <<cache, local, file>>,
           cache[Home[a]][p] = NoEntry, ~InUse(Home[a], p, i)
    PROVE  PairInv' /\ Kept(a)
  <1>1. /\ app'[a] = [at |-> "creating", path |-> p, ino |-> i, src |-> s]
        /\ \A b \in App : b # a => app'[b] = app[b]
    BY DEF Creating, StateType, AppType
  <1>2. Kept(a)
    BY <1>1, RowsKept
  <1>3. ~HasFd(a)'
    BY <1>1 DEF HasFd, HasFile
  <1>4. Right(a)'
    BY <1>1, <1>3 DEF Right, CopyRight
  <1>5. ASSUME NEW b \in App, b # a PROVE Apart(a, b)'
    <2>1. Home[b] = Home[a] /\ HasFile(b) => app[b].path # p /\ Local(b) # i
      BY DEF InUse
    <2>2. HasFile(b)' => HasFile(b) /\ app'[b].path = app[b].path /\ Local(b)' = Local(b)
      BY <1>2, <1>5 DEF Kept, Same, HasFile, HasFd
    <2>3. QED
      BY <1>1, <1>3, <2>1, <2>2 DEF Apart
  <1>6. QED
    BY <1>2, <1>3, <1>4, <1>5, BeginsPairs

LEMMA CreatePairs ==
    ASSUME Private, StateType, PairInv, NEW a \in App, NEW p \in Path,
           \/ CreateFile(a, p)
           \/ \E truncating \in BOOLEAN : CreateOverExisting(a, p, truncating)
           \/ CreateRefused(a, p)
    PROVE  PairInv' /\ Kept(a)
  <1>1. cache[Home[a]][p] = NoEntry /\ UNCHANGED <<cache, local, file>>
    BY DEF CreateFile, CreateOverExisting, CreateRefused, Exists, LooksNew
  <1>2. CASE CreateFile(a, p)
    <2>1. PICK i \in Ino : ~InUse(Home[a], p, i) /\ Creating(a, p, i, <<>>)
      BY <1>2 DEF CreateFile, Private
    <2>2. i \in Copy
      BY DEF Copy
    <2>3. QED
      BY <1>1, <2>1, <2>2, BeginCreatePairs
  <1>3. ASSUME NEW truncating \in BOOLEAN, CreateOverExisting(a, p, truncating)
        PROVE  PairInv' /\ Kept(a)
    <2>1. dir[p] \in Copy /\ ~InUse(Home[a], p, dir[p])
      BY <1>3 DEF CreateOverExisting, Private, StateType, StoreType, Copy
    <2>2. \E s : Creating(a, p, dir[p], s)
      BY <1>3 DEF CreateOverExisting
    <2>3. QED
      BY <1>1, <2>1, <2>2, BeginCreatePairs
  <1>4. CASE CreateRefused(a, p)
    <2>1. ~InUse(Home[a], p, Zero) /\ Zero \in Copy /\ Creating(a, p, Zero, <<>>)
      BY <1>4 DEF CreateRefused, Private, Copy
    <2>2. QED
      BY <1>1, <2>1, BeginCreatePairs
  <1>5. QED
    BY <1>2, <1>3, <1>4

LEMMA EndCreatePairs ==
    ASSUME StateType, SemInv, PairInv, NEW a \in App, EndCreate(a)
    PROVE  PairInv' /\ Kept(a)
  <1> DEFINE c == Home[a]
             i == app[a].ino
             p == app[a].path
  <1>1. /\ c \in Client /\ p \in Path /\ i \in Copy /\ i # NoIno /\ app[a].at = "creating"
    BY HomeAssumption, NilAssumption, AppFields DEF EndCreate, StateType, Copy
  <1>2. PICK f \in Fd : /\ file[c][f] = NoIno
                        /\ file' = [file EXCEPT ![c][f] = i]
                        /\ app' = [app EXCEPT ![a] = [at |-> "open", path |-> p,
                                                      fd |-> f, wrote |-> FALSE]]
    BY DEF EndCreate
  <1>3. /\ app'[a] = [at |-> "open", path |-> p, fd |-> f, wrote |-> FALSE]
        /\ \A b \in App : b # a => app'[b] = app[b]
    BY <1>2 DEF StateType, AppType
  <1>4. cache[c][p] = NoEntry
    BY <1>1 DEF PairInv, Right
  <1>5. /\ \A d \in Client : d # c =>
             cache'[d] = cache[d] /\ local'[d] = local[d] /\ file'[d] = file[d]
        /\ file'[c][f] = i
        /\ \A g \in Fd : g # f => file'[c][g] = file[c][g]
    BY <1>1, <1>2 DEF EndCreate, StateType, FileType, CacheType, LocalType
  <1>6. /\ cache'[c][p] = Clean(i)
        /\ \A q \in Path : q # p => cache'[c][q] = cache[c][q]
    BY <1>1, <1>4 DEF EndCreate, Added, StateType, CacheType
  <1>7. f # NoFd /\ Local(a)' = i /\ HasFd(a)'
    BY <1>3, <1>5, NilAssumption DEF Local, HasFd, HasFile
  <1>8. Kept(a)
    <2> SUFFICES ASSUME NEW b \in App, b # a PROVE Same(b)
      BY DEF Kept
    <2>1. CASE Home[b] # c
      BY <1>3, <1>5, <2>1, HomeAssumption, OtherClients
    <2>2. CASE Home[b] = c
      <3>1. ~InLibrary(b)
        BY <1>1, <2>2, Alone DEF InLibrary
      <3>2. HasFd(b) => HasFile(b) /\ Local(b) # NoIno /\ app[b].fd # NoFd
        BY <3>1 DEF HasFd, InLibrary, PairInv, Right
      <3>3. HasFd(b) => app[b].path # p /\ app[b].path \in Path /\ app[b].fd \in Fd
        BY <1>1, <2>2, <3>2, LocalType2, AppFields DEF PairInv, Apart, StateType
      <3>4. HasFd(b) => app[b].fd # f
        BY <1>2, <2>2, <3>2 DEF Local
      <3>5. HasFd(b) => Local(b)' = Local(b)
        BY <1>3, <1>5, <2>2, <3>3, <3>4 DEF Local
      <3>6. QED
        BY <1>3, <1>6, <2>2, <3>1, <3>3, <3>5 DEF Same, InLibrary
    <2>3. QED
      BY <2>1, <2>2
  <1>9. Right(a)'
    <2>1. EntryRight(a)'
      <3>1. cache'[c][p].ino = i /\ cache'[c][p].dirty = FALSE
        BY <1>6 DEF Clean
      <3>2. /\ app'[a].at = "open" /\ app'[a].path = p /\ app'[a].wrote = FALSE
        BY <1>3
      <3>3. QED
        BY <1>7, <3>1, <3>2 DEF EntryRight
    <2>2. CopyRight(a)'
      BY <1>3 DEF CopyRight
    <2>3. QED
      BY <1>1, <1>3, <1>7, <2>1, <2>2 DEF Right
  <1>10. QED
    BY <1>1, <1>2, <1>3, <1>7, <1>8, <1>9, AcquiresPairs

(***************************************************************************)
(* wiscAFS_write and wiscAFS_read.                                         *)
(***************************************************************************)

\* A write that changes the call, and the copy at most.
LEMMA WrittenPairs ==
    ASSUME StateType, SemInv, PairInv, NEW a \in App, Kept(a), app[a].at = "open",
           app'[a] = [at |-> "written", path |-> app[a].path, fd |-> app[a].fd,
                      wrote |-> TRUE],
           UNCHANGED <<cache, file>>
    PROVE  PairInv' /\ Kept(a)
  <1>1. HasFd(a) /\ HasFile(a)
    BY DEF HasFd, HasFile
  <1>2. HasFd(a)' /\ Local(a)' = Local(a)
    BY DEF HasFd, HasFile, Local
  <1>3. Right(a)'
    <2>1. EntryRight(a) /\ Local(a) # NoIno /\ app[a].fd # NoFd
      BY <1>1 DEF PairInv, Right
    <2>2. EntryRight(a)'
      BY <1>2, <2>1 DEF EntryRight
    <2>3. CopyRight(a)'
      BY DEF CopyRight
    <2>4. QED
      BY <1>2, <2>1, <2>2, <2>3 DEF Right
  <1>4. QED
    BY <1>1, <1>2, <1>3, StaysPairs

LEMMA PWritePairs ==
    ASSUME StateType, SemInv, PairInv, NEW a \in App, NEW n \in 1 .. MaxLen,
           NEW ch \in Chunk, PWrite(a, n, ch)
    PROVE  PairInv' /\ Kept(a)
  <1>1. HasFd(a) /\ app[a].at = "open" /\ app[a] \in OpenApp
    BY AppKinds DEF HasFd, HasFile, PWrite, StateType
  <1>2. Local(a) # NoIno
    BY <1>1 DEF PairInv, Right
  <1>3. /\ app' = [app EXCEPT ![a] = [app[a] EXCEPT !.at = "written", !.wrote = TRUE]]
        /\ local' = [local EXCEPT ![Home[a]][Local(a)] =
                       WriteAt(local[Home[a]][Local(a)], n, ch)]
        /\ UNCHANGED <<cache, file>>
    BY <1>2 DEF PWrite
  <1>4. /\ app'[a] = [at |-> "written", path |-> app[a].path, fd |-> app[a].fd,
                      wrote |-> TRUE]
        /\ \A b \in App : b # a => app'[b] = app[b]
    BY <1>1, <1>3, OpenAppWrote DEF StateType, AppType
  <1>5. Kept(a)
    BY <1>1, <1>3, <1>4, CopyKept
  <1>6. QED
    BY <1>1, <1>3, <1>4, <1>5, WrittenPairs

LEMMA PWriteFailsPairs ==
    ASSUME StateType, SemInv, PairInv, NEW a \in App, PWriteFails(a)
    PROVE  PairInv' /\ Kept(a)
  <1>1. app[a].at = "open" /\ app[a] \in OpenApp
    BY AppKinds DEF PWriteFails, StateType
  <1>2. /\ app' = [app EXCEPT ![a] = [app[a] EXCEPT !.at = "written", !.wrote = TRUE]]
        /\ UNCHANGED <<cache, local, file>>
    BY DEF PWriteFails
  <1>3. /\ app'[a] = [at |-> "written", path |-> app[a].path, fd |-> app[a].fd,
                      wrote |-> TRUE]
        /\ \A b \in App : b # a => app'[b] = app[b]
    BY <1>1, <1>2, OpenAppWrote DEF StateType, AppType
  <1>4. Kept(a)
    BY <1>2, <1>3, RowsKept
  <1>5. QED
    BY <1>1, <1>2, <1>3, <1>4, WrittenPairs

LEMMA WriteFilePairs ==
    ASSUME StateType, SemInv, PairInv, NEW a \in App, WriteFile(a)
    PROVE  PairInv' /\ Kept(a)
  <1> DEFINE c == Home[a]
             p == app[a].path
             e == cache[c][p]
  <1>1. /\ HasFd(a) /\ HasFile(a) /\ app[a].at = "written" /\ app[a] \in OpenApp
        /\ c \in Client /\ p \in Path /\ app[a].wrote = TRUE
    <2>1. HasFd(a) /\ HasFile(a) /\ app[a].at = "written" /\ app[a] \in OpenApp
      BY AppKinds DEF HasFd, HasFile, WriteFile, StateType
    <2>2. app[a].wrote /\ app[a].wrote \in BOOLEAN
      BY <2>1, AppFields DEF PairInv, Right, EntryRight, StateType
    <2>3. QED
      BY <2>1, <2>2, HomeAssumption, AppFields DEF StateType
  <1>2. /\ Local(a) # NoIno /\ app[a].fd # NoFd /\ e.ino = Local(a) /\ e # NoEntry
        /\ e \in [ino : Copy, dirty : BOOLEAN]
    <2>1. Local(a) # NoIno /\ app[a].fd # NoFd /\ e.ino = Local(a)
      BY <1>1 DEF PairInv, Right, EntryRight
    <2>2. e # NoEntry
      BY <2>1 DEF NoEntry
    <2>3. e \in RealEntry
      BY <1>1 DEF StateType, CacheType
    <2>4. QED
      BY <2>1, <2>2, <2>3, CleanType
  <1>3. /\ app' = [app EXCEPT ![a] = [app[a] EXCEPT !.at = "open"]]
        /\ cache' = [cache EXCEPT ![c][p] = [e EXCEPT !.dirty = TRUE]]
        /\ UNCHANGED <<local, file>>
    BY <1>2 DEF WriteFile
  <1>4. /\ app'[a] = [at |-> "open", path |-> p, fd |-> app[a].fd,
                      wrote |-> app[a].wrote]
        /\ \A b \in App : b # a => app'[b] = app[b]
    BY <1>1, <1>3, OpenAppAt DEF StateType, AppType
  <1>5. /\ \A d \in Client : d # c => cache'[d] = cache[d]
        /\ \A q \in Path : q # p => cache'[c][q] = cache[c][q]
        /\ cache'[c][p] = [e EXCEPT !.dirty = TRUE]
    BY <1>1, <1>3 DEF StateType, CacheType
  <1>6. cache'[c][p].ino = Local(a) /\ cache'[c][p].dirty = TRUE
    BY <1>2, <1>5
  <1>7. HasFd(a)' /\ Local(a)' = Local(a)
    BY <1>3, <1>4 DEF HasFd, HasFile, Local
  <1>8. Kept(a)
    <2> SUFFICES ASSUME NEW b \in App, b # a PROVE Same(b)
      BY DEF Kept
    <2>1. CASE Home[b] # c
      BY <1>3, <1>4, <1>5, <2>1, HomeAssumption, OtherClients
    <2>2. CASE Home[b] = c
      <3>1. HasFd(b) => app[b].path # p
        BY <1>1, <2>2 DEF PairInv, Apart
      <3>2. app[b].at = "creating" => app[b].path # p
        BY <1>1, <2>2 DEF PairInv, Apart
      <3>3. HasFd(b) \/ app[b].at = "creating" => app[b].path \in Path
        BY AppFields DEF StateType, HasFd
      <3>4. QED
        BY <1>3, <1>4, <1>5, <2>2, <3>1, <3>2, <3>3 DEF Same, Local
    <2>3. QED
      BY <2>1, <2>2
  <1>9. Right(a)'
    <2>1. app'[a].at = "open" /\ app'[a].path = p /\ app'[a].wrote = app[a].wrote
      BY <1>4
    <2>2. app'[a].wrote = TRUE
      BY <1>1, <2>1
    <2>3. EntryRight(a)'
      <3> HIDE DEF p, c
      <3>1. QED
        BY <1>6, <1>7, <2>1, <2>2 DEF EntryRight, c
    <2>4. CopyRight(a)'
      BY <1>4 DEF CopyRight
    <2>5. QED
      BY <1>2, <1>4, <1>7, <2>3, <2>4 DEF Right
  <1>10. QED
    BY <1>1, <1>4, <1>7, <1>8, <1>9, StaysPairs

\* No application of this kind has the descriptor -1.
LEMMA NoBadFd ==
    ASSUME PairInv, NEW a \in App PROVE ~ReadBadFd(a)
  BY DEF ReadBadFd, PairInv, Right, HasFd, HasFile

(***************************************************************************)
(* wiscAFS_flush and wiscAFS_release.                                      *)
(***************************************************************************)
LEMMA LastClose == ASSUME Private, NEW last \in MayBeLast PROVE last = TRUE
  BY DEF MayBeLast, Private

LEMMA ReturnsTruePairs ==
    ASSUME StateType, PairInv, NEW a \in App, HasFile(a), Return(a, TRUE),
           UNCHANGED <<cache, local>>
    PROVE  PairInv' /\ app'[a] = Idle /\ Kept(a)
  <1>1. HasFd(a) /\ Home[a] \in Client /\ app[a].fd \in Fd /\ app[a].fd # NoFd
    BY HomeAssumption, LocalType2 DEF HasFd, PairInv, Right
  <1>2. /\ app' = [app EXCEPT ![a] = Idle]
        /\ file' = [file EXCEPT ![Home[a]][app[a].fd] = NoIno]
    BY <1>1 DEF Return
  <1>3. app'[a] = Idle /\ \A b \in App : b # a => app'[b] = app[b]
    BY <1>2 DEF StateType, AppType
  <1>4. /\ \A d \in Client : d # Home[a] => file'[d] = file[d]
        /\ \A g \in Fd : g # app[a].fd => file'[Home[a]][g] = file[Home[a]][g]
    BY <1>1, <1>2 DEF StateType, FileType
  <1>5. Kept(a)
    <2> SUFFICES ASSUME NEW b \in App, b # a PROVE Same(b)
      BY DEF Kept
    <2>1. CASE Home[b] # Home[a]
      BY <1>3, <1>4, <2>1, HomeAssumption, OtherClients
    <2>2. CASE Home[b] = Home[a]
      <3>1. HasFd(b) => app[b].fd # app[a].fd /\ app[b].fd \in Fd
        BY <1>1, <2>2, LocalType2 DEF PairInv, Apart, Right
      <3>2. HasFd(b) => Local(b)' = Local(b)
        BY <1>3, <1>4, <2>2, <3>1 DEF Local
      <3>3. QED
        BY <1>3, <3>2 DEF Same
    <2>3. QED
      BY <2>1, <2>2
  <1>6. QED
    BY <1>3, <1>5, ReturnsPairs

LEMMA CloseReturnsPairs ==
    ASSUME Private, StateType, PairInv, NEW a \in App, NEW last \in MayBeLast,
           \/ CloseUnsent(a, last) \/ CloseNoCopy(a, last)
           \/ EndClose(a) \/ SendFails(a) \/ CloseLost(a)
    PROVE  PairInv' /\ app'[a] = Idle /\ Kept(a)
  <1>1. HasFile(a) /\ UNCHANGED <<cache, local>>
    BY DEF CloseUnsent, CloseNoCopy, EndClose, SendFails, CloseLost, HasFile
  <1>2. Return(a, TRUE)
    <2>1. CASE CloseUnsent(a, last) \/ CloseNoCopy(a, last)
      BY <2>1, LastClose DEF CloseUnsent, CloseNoCopy
    <2>2. CASE EndClose(a) \/ SendFails(a) \/ CloseLost(a)
      <3>1. app[a].at = "closing" /\ Return(a, app[a].last)
        BY <2>2 DEF EndClose, SendFails, CloseLost
      <3>2. app[a].last /\ app[a].last \in BOOLEAN
        BY <3>1, AppFields DEF PairInv, Right, StateType
      <3>3. app[a].last = TRUE
        BY <3>2
      <3>4. QED
        BY <3>1, <3>3
    <2>3. QED
      BY <2>1, <2>2
  <1>3. QED
    BY <1>1, <1>2, ReturnsTruePairs

LEMMA CloseFilePairs ==
    ASSUME Private, StateType, SemInv, PairInv, NEW a \in App, NEW last \in MayBeLast,
           CloseFile(a, last)
    PROVE  PairInv' /\ Kept(a)
  <1> DEFINE e == cache[Home[a]][app[a].path]
             copy == local[Home[a]][Local(a)]
  <1>1. HasFd(a) /\ HasFile(a) /\ app[a].at = "open" /\ app[a].wrote \in BOOLEAN
    BY AppFields DEF CloseFile, HasFd, HasFile, StateType
  <1>2. /\ e.ino = Local(a) /\ e.dirty = app[a].wrote
        /\ Local(a) # NoIno /\ app[a].fd # NoFd
    BY <1>1 DEF PairInv, Right, EntryRight
  <1>3. e.dirty /\ local[Home[a]][e.ino] # <<>>
    BY DEF CloseFile, NothingToSend
  <1>4. app[a].wrote = TRUE /\ copy # <<>>
    BY <1>1, <1>2, <1>3
  <1>5. copy \in File
    BY <1>1, <1>2, HomeAssumption, LocalType2 DEF StateType, LocalType
  <1>6. /\ app'[a] = [at |-> "closing", path |-> app[a].path, fd |-> app[a].fd,
                      wrote |-> app[a].wrote, last |-> last, ino |-> e.ino,
                      sent |-> <<>>]
        /\ \A b \in App : b # a => app'[b] = app[b]
        /\ UNCHANGED <<cache, local, file>>
    BY DEF CloseFile, StateType, AppType
  <1>7. Kept(a)
    BY <1>6, RowsKept
  <1>8. HasFd(a)' /\ Local(a)' = Local(a)
    BY <1>6 DEF HasFd, HasFile, Local
  <1>9. Right(a)'
    <2>1. EntryRight(a)'
      BY <1>2, <1>6, <1>8 DEF EntryRight
    <2>2. IsPrefixOf(<<>>, copy)
      BY <1>5 DEF IsPrefixOf, File
    <2>3. CopyRight(a)'
      BY <1>2, <1>4, <1>6, <1>8, <2>2 DEF CopyRight
    <2>4. app'[a].last
      <3>1. last
        BY LastClose
      <3>2. app'[a].last = last
        BY <1>6
      <3>3. QED
        BY <3>1, <3>2
    <2>5. QED
      BY <1>2, <1>6, <1>8, <2>1, <2>3, <2>4 DEF Right
  <1>10. QED
    BY <1>1, <1>6, <1>7, <1>8, <1>9, StaysPairs

LEMMA SendMessagePairs ==
    ASSUME StateType, SemInv, PairInv, NEW a \in App, SendMessage(a)
    PROVE  PairInv' /\ Kept(a)
  <1> DEFINE r == app[a]
             copy == local[Home[a]][r.ino]
             sent == Append(r.sent, copy[Len(r.sent) + 1])
  <1>1. HasFd(a) /\ HasFile(a) /\ r.at = "closing" /\ r \in ClosingApp /\ r.sent \in File
    BY AppKinds, AppFields DEF SendMessage, HasFd, HasFile, StateType
  <1>2. /\ r.ino = Local(a) /\ r.wrote /\ r.last /\ copy # <<>>
        /\ IsPrefixOf(r.sent, copy)
        /\ EntryRight(a) /\ Local(a) # NoIno /\ r.fd # NoFd
    BY <1>1 DEF PairInv, Right, CopyRight
  <1>3. /\ app'[a] = [r EXCEPT !.sent = sent]
        /\ \A b \in App : b # a => app'[b] = app[b]
        /\ UNCHANGED <<cache, local, file>>
    BY DEF SendMessage, StateType, AppType
  <1>4. /\ app'[a].at = "closing" /\ app'[a].path = r.path /\ app'[a].fd = r.fd
        /\ app'[a].wrote = r.wrote /\ app'[a].last = r.last /\ app'[a].ino = r.ino
        /\ app'[a].sent = sent
    <2>1. \A x : [r EXCEPT !.sent = x]
                  = [at |-> "closing", path |-> r.path, fd |-> r.fd,
                     wrote |-> r.wrote, last |-> r.last, ino |-> r.ino, sent |-> x]
      <3> HIDE DEF r
      <3>1. QED
        BY <1>1 DEF ClosingApp
    <2> HIDE DEF r, sent
    <2>2. app'[a] = [at |-> "closing", path |-> r.path, fd |-> r.fd,
                     wrote |-> r.wrote, last |-> r.last, ino |-> r.ino, sent |-> sent]
      BY <1>3, <2>1
    <2>3. QED
      BY <2>2
  <1>5. IsPrefixOf(sent, copy)
    <2>1. copy \in File /\ Len(r.sent) < Len(copy)
      BY <1>1, <1>2, HomeAssumption, LocalType2 DEF StateType, LocalType, SendMessage
    <2>2. copy[Len(r.sent) + 1] \in Chunk \cup {Hole}
      BY <1>1, <2>1 DEF File
    <2>3. /\ Len(sent) = Len(r.sent) + 1
          /\ sent[Len(r.sent) + 1] = copy[Len(r.sent) + 1]
          /\ \A j \in 1 .. Len(r.sent) : sent[j] = r.sent[j]
      BY <1>1, <2>2 DEF File
    <2>4. Len(copy) \in Nat /\ Len(r.sent) \in Nat
      BY <1>1, <2>1 DEF File
    <2> HIDE DEF sent, copy, r
    <2>5. \A j \in 1 .. Len(sent) : j = Len(r.sent) + 1 \/ j \in 1 .. Len(r.sent)
      BY <2>3, <2>4
    <2>6. QED
      BY <1>2, <2>1, <2>3, <2>4, <2>5 DEF IsPrefixOf
  <1>6. Kept(a)
    BY <1>3, RowsKept
  <1>7. HasFd(a)' /\ Local(a)' = Local(a)
    BY <1>3, <1>4 DEF HasFd, HasFile, Local
  <1>8. Right(a)'
    <2>1. EntryRight(a)'
      <3> DEFINE e == cache[Home[a]][r.path]
      <3>1. e.ino = Local(a) /\ e.dirty = r.wrote
        BY <1>1, <1>2 DEF EntryRight
      <3>2. cache'[Home[a]][app'[a].path] = e
        BY <1>3, <1>4
      <3> HIDE DEF e
      <3>3. QED
        BY <1>4, <1>7, <3>1, <3>2 DEF EntryRight
    <2>2. CopyRight(a)'
      BY <1>2, <1>3, <1>4, <1>5, <1>7 DEF CopyRight
    <2>3. QED
      BY <1>2, <1>4, <1>7, <2>1, <2>2 DEF Right
  <1>9. QED
    BY <1>1, <1>4, <1>6, <1>7, <1>8, StaysPairs

(***************************************************************************)
(* wiscAFS_rename, wiscAFS_unlink, wiscAFS_truncate.                       *)
(***************************************************************************)

\* With clientSem free, the entries of paths that are not open are nobody's.
LEMMA EntriesKept ==
    ASSUME StateType, SemInv, NEW c \in Client, clientSem[c] > 0,
           UNCHANGED <<local, file>>,
           \A d \in Client : d # c => cache'[d] = cache[d],
           NEW S, \A q \in Path \ S : cache'[c][q] = cache[c][q],
           \A q \in S : ~OpenOn(c, q),
           NEW b \in App, app'[b] = app[b]
    PROVE  Same(b)
  <1>1. CASE Home[b] # c
    BY <1>1, HomeAssumption, OtherClients
  <1>2. CASE Home[b] = c
    <2>1. app[b].at # "creating" /\ (HasFd(b) => HasFile(b))
      BY <1>2, NobodyInside DEF InLibrary, HasFd
    <2>2. HasFd(b) => app[b].path \in Path \ S
      BY <1>2, <2>1, AppFields DEF OpenOn, StateType
    <2>3. QED
      BY <1>2, <2>1, <2>2 DEF Same, Local
  <1>3. QED
    BY <1>1, <1>2

LEMMA BeginRenamePairs ==
    ASSUME Private, StateType, SemInv, PairInv, NEW a \in App, NEW p \in Path,
           NEW q \in Path, RenameFile(a, p, q) \/ RenameDirectory(a, p, q)
    PROVE  PairInv' /\ Kept(a)
  <1> DEFINE c == Home[a]
  <1>1. /\ c \in Client /\ clientSem[c] > 0 /\ ~OpenOn(c, p) /\ ~OpenOn(c, q)
        /\ UNCHANGED <<local, file>>
        /\ app' = [app EXCEPT ![a] = [at |-> "renaming", path |-> p, to |-> q]]
    BY HomeAssumption
       DEF RenameFile, RenameDirectory, MayRename, SemWait, SemsFree, Private
  <1>2. /\ app'[a] = [at |-> "renaming", path |-> p, to |-> q]
        /\ \A b \in App : b # a => app'[b] = app[b]
    BY <1>1 DEF StateType, AppType
  <1>3. /\ \A d \in Client : d # c => cache'[d] = cache[d]
        /\ \A r \in Path \ {p, q} : cache'[c][r] = cache[c][r]
    <2>1. CASE RenameDirectory(a, p, q)
      BY <2>1 DEF RenameDirectory
    <2>2. CASE RenameFile(a, p, q)
      <3>1. cache[c] \in [Path -> RealEntry]
        BY <1>1 DEF StateType, CacheType
      <3>2. \A r \in Path \ {p, q} : Renamed(cache[c], p, q)[r] = cache[c][r]
        BY <3>1 DEF Renamed, Added
      <3>3. cache' = [cache EXCEPT ![c] = Renamed(cache[c], p, q)]
        BY <2>2 DEF RenameFile
      <3>4. QED
        BY <1>1, <3>2, <3>3 DEF StateType, CacheType
    <2>3. QED
      BY <2>1, <2>2
  <1>4. Kept(a)
    <2> DEFINE S == {p, q}
    <2>1. \A r \in Path \ S : cache'[c][r] = cache[c][r]
      BY <1>3
    <2>2. \A r \in S : ~OpenOn(c, r)
      BY <1>1
    <2> HIDE DEF S
    <2>3. QED
      BY <1>1, <1>2, <1>3, <2>1, <2>2, EntriesKept DEF Kept
  <1>5. ~HasFd(a)'
    BY <1>2 DEF HasFd, HasFile
  <1>6. Right(a)'
    <2>1. p # q
      BY DEF RenameFile, RenameDirectory, MayRename
    <2>2. QED
      BY <1>2, <1>5, <2>1 DEF Right, CopyRight
  <1>7. ASSUME NEW b \in App, b # a PROVE Apart(a, b)'
    <2>1. Home[b] = c /\ HasFile(b) => app[b].path # p /\ app[b].path # q
      BY <1>1 DEF OpenOn
    <2>2. HasFile(b)' => HasFile(b) /\ app'[b] = app[b]
      BY <1>2, <1>7 DEF HasFile
    <2>3. QED
      BY <1>2, <1>5, <2>1, <2>2 DEF Apart
  <1>8. QED
    BY <1>4, <1>5, <1>6, <1>7, BeginsPairs

\* No open file has a path that is being renamed.
LEMMA NothingMoves ==
    ASSUME PairInv, NEW a \in App, app[a].at = "renaming", Moved(a)
    PROVE  app'[a] = Idle /\ \A b \in App : b # a => app'[b] = app[b]
  <1>1. app'[a] = Idle
    BY DEF Moved
  <1>2. ASSUME NEW b \in App, b # a PROVE app'[b] = app[b]
    <2>1. ~(Home[b] = Home[a] /\ HasFile(b) /\ app[b].path = app[a].path)
      BY <1>2 DEF PairInv, Apart
    <2>2. QED
      BY <1>2, <2>1 DEF Moved
  <1>3. QED
    BY <1>1, <1>2

LEMMA RenameEndsPairs ==
    ASSUME StateType, PairInv, NEW a \in App, EndRename(a) \/ RenameLost(a)
    PROVE  /\ PairInv' /\ Kept(a)
           /\ app'[a] = Idle /\ \A b \in App : b # a => app'[b] = app[b]
  <1>1. /\ app[a].at = "renaming" /\ UNCHANGED <<cache, local, file>>
        /\ Moved(a) \/ app' = [app EXCEPT ![a] = Idle]
    BY DEF EndRename, RenameLost
  <1>2. app'[a] = Idle /\ \A b \in App : b # a => app'[b] = app[b]
    BY <1>1, NothingMoves DEF StateType, AppType
  <1>3. QED
    BY <1>1, <1>2, RowsKept, ReturnsPairs

LEMMA DeletePairs ==
    ASSUME StateType, SemInv, PairInv, NEW a \in App, NEW p \in Path,
           DeleteFile(a, p) \/ DeleteLost(a, p)
    PROVE  PairInv' /\ Kept(a)
  <1> DEFINE c == Home[a]
             S == {p}
  <1>1. /\ c \in Client /\ clientSem[c] > 0 /\ \A q \in S : ~OpenOn(c, q)
        /\ UNCHANGED <<local, file, app>>
        /\ cache' = [cache EXCEPT ![c][p] = NoEntry]
    BY HomeAssumption DEF DeleteFile, DeleteLost, SemsFree
  <1>2. /\ \A d \in Client : d # c => cache'[d] = cache[d]
        /\ \A q \in Path \ S : cache'[c][q] = cache[c][q]
    BY <1>1 DEF StateType, CacheType
  <1> HIDE DEF S
  <1>3. \A b \in App : Same(b)
    BY <1>1, <1>2, EntriesKept
  <1>4. QED
    BY <1>3, AllSame DEF Kept

LEMMA TruncateFilePairs ==
    ASSUME StateType, SemInv, SemsAgree, PairInv, NEW c \in Client, NEW p \in Path,
           NEW n \in 0 .. MaxLen, TruncateFile(c, p, n)
    PROVE  PairInv' /\ \A b \in App : Same(b)
  <1>1. /\ clientSem[c] > 0 /\ UNCHANGED <<cache, file, app>>
        /\ \A d \in Client : d # c => local'[d] = local[d]
    BY DEF TruncateFile, SemsAgree, StateType, LocalType
  <1>2. ASSUME NEW b \in App PROVE Same(b)
    <2>1. CASE Home[b] # c
      BY <1>1, <2>1, HomeAssumption, OtherClients
    <2>2. CASE Home[b] = c
      <3>1. ~InLibrary(b)
        BY <1>1, <2>2, NobodyInside
      <3>2. QED
        BY <1>1, <3>1 DEF Same, Local
    <2>3. QED
      BY <2>1, <2>2
  <1>3. QED
    BY <1>2, AllSame

(***************************************************************************)
(* A client crashes.                                                       *)
(***************************************************************************)
LEMMA CrashPairs ==
    ASSUME StateType, PairInv, NEW c \in Client, Crash(c)
    PROVE  /\ PairInv'
           /\ \A a \in App : IF Home[a] = c THEN app'[a] = Idle ELSE Same(a)
  <1>1. /\ \A a \in App : app'[a] = IF Home[a] = c THEN Idle ELSE app[a]
        /\ \A d \in Client : d # c =>
             cache'[d] = cache[d] /\ local'[d] = local[d] /\ file'[d] = file[d]
    BY DEF Crash, StateType, CacheType, FileType
  <1>2. \A a \in App : Home[a] # c => Same(a)
    BY <1>1, HomeAssumption, OtherClients
  <1>3. \A a \in App : Home[a] = c => app'[a].at = "idle"
    BY <1>1 DEF Idle
  <1>4. ASSUME NEW a \in App PROVE Right(a)'
    <2>1. CASE Home[a] # c
      BY <1>2, <2>1, SameRight DEF PairInv
    <2>2. CASE Home[a] = c
      BY <1>3, <2>2 DEF Right, CopyRight, HasFd, HasFile
    <2>3. QED
      BY <2>1, <2>2
  <1>5. ASSUME NEW a \in App, NEW b \in App PROVE Apart(a, b)'
    <2>1. CASE Home[a] # c /\ Home[b] # c
      BY <1>2, <2>1, SameApart DEF PairInv
    <2>2. CASE Home[a] # Home[b]
      BY <2>2 DEF Apart
    <2>3. CASE Home[a] = c /\ Home[b] = c
      BY <1>3, <2>3 DEF Apart, HasFd, HasFile
    <2>4. QED
      BY <2>1, <2>2, <2>3
  <1>6. QED
    BY <1>1, <1>2, <1>4, <1>5 DEF PairInv

(***************************************************************************)
(* The server's inodes.                                                    *)
(***************************************************************************)
LEMMA FreshApart ==
    ASSUME StateType, InodesApart, NEW p \in Path, NEW i \in Ino, FreeIno(i),
           dir' = [dir EXCEPT ![p] = i]
    PROVE  InodesApart'
  BY DEF StateType, StoreType, InodesApart, FreeIno

LEMMA PublishApart ==
    ASSUME StateType, InodesApart, NEW p \in Path, NEW s, Publish(p, s)
    PROVE  InodesApart'
  <1>1. CASE UNCHANGED server
    BY <1>1 DEF InodesApart, server
  <1>2. CASE \E i \in Ino : FreeIno(i) /\ dir' = [dir EXCEPT ![p] = i]
    BY <1>2, FreshApart
  <1>3. QED
    BY <1>1, <1>2 DEF Publish

LEMMA ApplicationApart ==
    ASSUME StateType, InodesApart, NEW a \in App, Proceed(a) \/ Fail(a) \/ Operation(a)
    PROVE  InodesApart'
  <1>1. CASE dir' = dir
    BY <1>1 DEF InodesApart
  <1>2. CASE \E p \in Path : CreateFile(a, p) \/ CreateLost(a, p)
    BY <1>2, FreshApart DEF CreateFile, CreateLost
  <1>3. CASE EndClose(a) \/ SendFails(a)
    <2>1. app[a].path \in Path /\ Publish(app[a].path, app[a].sent)
      BY <1>3, AppFields DEF EndClose, SendFails, StateType, HasFile
    <2>2. QED
      BY <2>1, PublishApart
  <1>4. CASE \E p \in Path : DeleteFile(a, p)
    BY <1>4 DEF DeleteFile, InodesApart, StateType, StoreType
  <1>5. CASE EndRename(a)
    <2>1. app[a].path \in Path /\ app[a].to \in Path
      BY <1>5, AppFields DEF EndRename, StateType
    <2>2. \/ dir' = dir
          \/ dir' = [dir EXCEPT ![app[a].to] = dir[app[a].path], ![app[a].path] = NoIno]
      BY <1>5 DEF EndRename
    <2>3. QED
      BY <2>1, <2>2 DEF InodesApart, StateType, StoreType
  <1>6. QED
    <2>1. CASE Proceed(a)
      BY <1>1, <1>3, <1>5, <2>1 DEF Proceed, OpenLocalCopy, OpenNoCopy, StoreMessage,
         EndOpen, EndCreate, CreateNoCopy, WriteFile, SendMessage, server
    <2>2. CASE Fail(a)
      BY <1>1, <1>3, <2>2 DEF Fail, StoreFails, CloseLost, RenameLost, server
    <2>3. CASE Operation(a)
      BY <1>1, <1>2, <1>4, <2>3 DEF Operation, OpenFile, OpenVanished,
         CreateOverExisting, CreateRefused, DeleteLost, RenameFile, RenameDirectory,
         PWriteFails, PWrite, ReadBadFd, CloseUnsent, CloseFile, CloseNoCopy, server
    <2>4. QED
      BY <2>1, <2>2, <2>3

(***************************************************************************)
(* The semaphores.                                                         *)
(***************************************************************************)
LEMMA ApplicationSems ==
    ASSUME SemInv, SemsAgree, NEW a \in App, ~ReadBadFd(a),
           Proceed(a) \/ Fail(a) \/ Operation(a)
    PROVE  SemsAgree'
  <1>1. SemWait(Home[a]) \/ SemPost(Home[a]) \/ UNCHANGED sems
    <2>1. CASE Proceed(a)
      BY <2>1 DEF Proceed, OpenLocalCopy, OpenNoCopy, StoreMessage, EndOpen, EndCreate,
         CreateNoCopy, WriteFile, SendMessage, EndClose, EndRename
    <2>2. CASE Fail(a)
      BY <2>2 DEF Fail, StoreFails, SendFails, CloseLost, RenameLost
    <2>3. CASE Operation(a)
      BY <2>3 DEF Operation, OpenFile, OpenVanished, CreateFile, CreateOverExisting,
         CreateRefused, CreateLost, DeleteFile, DeleteLost, RenameFile,
         RenameDirectory, PWriteFails, PWrite, CloseUnsent, CloseFile, CloseNoCopy
    <2>4. QED
      BY <2>1, <2>2, <2>3
  <1>2. Home[a] \in Client
    BY HomeAssumption
  <1>3. QED
    BY <1>1, <1>2 DEF SemWait, SemPost, sems, SemsAgree, SemInv

(***************************************************************************)
(* The theorem.                                                            *)
(***************************************************************************)
LEMMA ApplicationPairs ==
    ASSUME Private, StateType, SemInv, PairInv, NEW a \in App,
           Proceed(a) \/ Fail(a) \/ Operation(a)
    PROVE  PairInv' /\ Kept(a)
  <1>1. TRUE \in MayBeLast
    BY DEF MayBeLast
  <1>2. CASE Proceed(a)
    <2>1. CASE OpenLocalCopy(a) \/ OpenNoCopy(a) \/ StoreMessage(a) \/ EndOpen(a)
      BY <2>1, OpenLocalCopyPairs, GivesUpPairs, StoreMessagePairs, EndOpenPairs
    <2>2. CASE EndCreate(a) \/ CreateNoCopy(a) \/ WriteFile(a)
      BY <2>2, EndCreatePairs, GivesUpPairs, WriteFilePairs
    <2>3. CASE EndClose(a) \/ EndRename(a)
      BY <1>1, <2>3, CloseReturnsPairs, RenameEndsPairs
    <2>4. CASE SendMessage(a)
      BY <2>4, SendMessagePairs
    <2>5. QED
      BY <1>2, <2>1, <2>2, <2>3, <2>4 DEF Proceed
  <1>3. CASE Fail(a)
    BY <1>1, <1>3, GivesUpPairs, CloseReturnsPairs, RenameEndsPairs DEF Fail
  <1>4. CASE \E p \in Path :
                \/ OpenFile(a, p)
                \/ CreateFile(a, p)
                \/ \E truncating \in BOOLEAN : CreateOverExisting(a, p, truncating)
                \/ CreateRefused(a, p)
    BY <1>4, OpenFilePairs, CreatePairs
  <1>5. CASE \E p \in Path :
                \/ DeleteFile(a, p)
                \/ DeleteLost(a, p)
                \/ \E q \in Path : RenameFile(a, p, q) \/ RenameDirectory(a, p, q)
    BY <1>5, DeletePairs, BeginRenamePairs
  <1>6. CASE \E p \in Path : OpenVanished(a, p)
    BY <1>6 DEF OpenVanished, Private
  <1>7. CASE \E p \in Path : CreateLost(a, p)
    <2>1. UNCHANGED <<cache, local, file, app>>
      BY <1>7 DEF CreateLost
    <2>2. \A b \in App : Same(b)
      BY <2>1 DEF Same, Local
    <2>3. QED
      BY <2>2, AllSame DEF Kept
  <1>8. CASE \/ PWriteFails(a)
             \/ \E n \in 1 .. MaxLen, ch \in Chunk : PWrite(a, n, ch)
             \/ ReadBadFd(a)
    BY <1>8, PWritePairs, PWriteFailsPairs, NoBadFd
  <1>9. CASE \E last \in MayBeLast :
                CloseUnsent(a, last) \/ CloseFile(a, last) \/ CloseNoCopy(a, last)
    BY <1>9, CloseReturnsPairs, CloseFilePairs
  <1>10. QED
    BY <1>2, <1>3, <1>4, <1>5, <1>6, <1>7, <1>8, <1>9 DEF Operation

LEMMA SessionInvStep == Private /\ SessionInv /\ [Next]_vars => SessionInv'
  <1> SUFFICES ASSUME Private, SessionInv, [Next]_vars PROVE SessionInv'
    OBVIOUS
  <1>1. StateInv' /\ StateType /\ SemInv /\ SemsAgree /\ InodesApart /\ PairInv
    BY StateInvStep DEF SessionInv, StateInv
  <1>2. ASSUME NEW a \in App, Proceed(a) \/ Fail(a) \/ Operation(a)
        PROVE  SemsAgree' /\ InodesApart' /\ PairInv'
    BY <1>1, <1>2, NoBadFd, ApplicationSems, ApplicationApart, ApplicationPairs
  <1>3. ASSUME NEW c \in Client, Crash(c) PROVE SemsAgree' /\ InodesApart' /\ PairInv'
    <2>1. SemsAgree'
      BY <1>1, <1>3 DEF Crash, SemsAgree, SemInv
    <2>2. InodesApart'
      <3>1. CASE UNCHANGED server
        BY <1>1, <3>1 DEF InodesApart, server
      <3>2. CASE \E a \in App : app[a].at = "closing" /\ Publish(app[a].path, app[a].sent)
        <4>1. \A a \in App : app[a].at = "closing" => app[a].path \in Path
          BY <1>1, AppFields DEF StateType, HasFile
        <4>2. QED
          BY <1>1, <3>2, <4>1, PublishApart
      <3>3. QED
        BY <1>3, <3>1, <3>2 DEF Crash
    <2>3. QED
      BY <1>1, <1>3, <2>1, <2>2, CrashPairs
  <1>4. ASSUME NEW c \in Client, NEW p \in Path, NEW n \in 0 .. MaxLen,
               TruncateFile(c, p, n)
        PROVE  SemsAgree' /\ InodesApart' /\ PairInv'
    <2>1. SemsAgree' /\ InodesApart'
      BY <1>1, <1>4 DEF TruncateFile, SemsAgree, InodesApart, server, sems
    <2>2. QED
      BY <1>1, <1>4, <2>1, TruncateFilePairs
  <1>5. CASE UNCHANGED vars
    <2>1. SemsAgree' /\ InodesApart' /\ UNCHANGED <<cache, local, file, app>>
      BY <1>1, <1>5 DEF vars, SemsAgree, InodesApart
    <2>2. \A b \in App : Same(b)
      BY <2>1 DEF Same, Local
    <2>3. QED
      BY <1>1, <2>1, <2>2, AllSame DEF SessionInv
  <1>6. QED
    BY <1>1, <1>2, <1>3, <1>4, <1>5 DEF Next, SessionInv

\* As long as files are not shared on a client, opens find their file and
\* descriptors are closed once, whatever else fails, the open files of a client
\* have paths, descriptors and local copies of their own; the cache leads from
\* the path of each to its copy, marked dirty if and only if its application
\* has written; and a stream in progress is the front part of its file.
THEOREM SessionsRight == ASSUME Private PROVE Spec => []IInv
  <1>1. SessionInv /\ [Next]_vars => SessionInv'
    BY SessionInvStep
  <1>2. QED
    BY <1>1, SessionInvInit, SessionInvIInv, PTL DEF Spec

(***************************************************************************)
(* How far an operation is from its end.                                   *)
(***************************************************************************)
StepsLeft(a) ==
    CASE app[a].at = "opening"  -> Len(app[a].src) - app[a].n
                                     + (IF app[a].fd = NoFd THEN 2 ELSE 1)
      [] app[a].at = "closing"  -> Len(local[Home[a]][app[a].ino])
                                     - Len(app[a].sent) + 1
      [] app[a].at \in {"creating", "renaming"} -> 1
      [] OTHER                  -> 0

\* An operation has so many steps left.  A step of its own, also one that
\* fails, brings it nearer to its end, and no other step takes it further away.
Nearer(a) ==
    /\ StepsLeft(a) \in Nat
    /\ IF Proceed(a) \/ Fail(a) THEN StepsLeft(a)' < StepsLeft(a)
                                ELSE StepsLeft(a)' <= StepsLeft(a)

LEMMA StreamFacts ==
    ASSUME StateType, PairInv, NEW a \in App
    PROVE  /\ app[a].at = "opening" =>
                /\ Len(app[a].src) \in Nat /\ app[a].n \in Nat
                /\ app[a].n <= Len(app[a].src)
           /\ app[a].at = "closing" =>
                /\ app[a].ino = Local(a) /\ app[a].ino \in Copy /\ app[a].sent \in File
                /\ Len(local[Home[a]][app[a].ino]) \in Nat /\ Len(app[a].sent) \in Nat
                /\ Len(app[a].sent) <= Len(local[Home[a]][app[a].ino])
  <1>1. Right(a) /\ CopyRight(a) /\ Home[a] \in Client
    BY HomeAssumption DEF PairInv, Right
  <1>2. ASSUME app[a].at = "opening"
        PROVE  /\ Len(app[a].src) \in Nat /\ app[a].n \in Nat
               /\ app[a].n <= Len(app[a].src)
    <2>1. app[a].src \in File /\ app[a].n \in Nat
      BY <1>2, AppFields DEF StateType
    <2>2. Len(app[a].src) \in Nat
      BY <2>1 DEF File
    <2>3. CASE app[a].fd = NoFd
      BY <1>1, <1>2, <2>1, <2>2, <2>3 DEF Right
    <2>4. CASE app[a].fd # NoFd
      BY <1>1, <1>2, <2>1, <2>2, <2>4 DEF CopyRight, IsPrefixOf
    <2>5. QED
      BY <2>1, <2>2, <2>3, <2>4
  <1>3. ASSUME app[a].at = "closing"
        PROVE  /\ app[a].ino = Local(a) /\ app[a].ino \in Copy /\ app[a].sent \in File
               /\ Len(local[Home[a]][app[a].ino]) \in Nat /\ Len(app[a].sent) \in Nat
               /\ Len(app[a].sent) <= Len(local[Home[a]][app[a].ino])
    <2>1. app[a].sent \in File /\ app[a].ino \in Copy
      BY <1>3, AppFields DEF StateType
    <2>2. local[Home[a]][app[a].ino] \in File
      BY <1>1, <2>1 DEF StateType, LocalType
    <2>3. app[a].ino = Local(a) /\ IsPrefixOf(app[a].sent, local[Home[a]][Local(a)])
      BY <1>1, <1>3 DEF CopyRight
    <2>4. QED
      BY <2>1, <2>2, <2>3 DEF IsPrefixOf, File
  <1>4. QED
    BY <1>2, <1>3

LEMMA StepsLeftType ==
    ASSUME StateType, PairInv, NEW a \in App
    PROVE  StepsLeft(a) \in Nat /\ (InLibrary(a) => StepsLeft(a) > 0)
  <1>1. CASE app[a].at = "opening"
    <2>1. StepsLeft(a) = Len(app[a].src) - app[a].n + (IF app[a].fd = NoFd THEN 2 ELSE 1)
      BY <1>1 DEF StepsLeft
    <2>2. QED
      BY <1>1, <2>1, StreamFacts
  <1>2. CASE app[a].at = "closing"
    <2>1. StepsLeft(a) = Len(local[Home[a]][app[a].ino]) - Len(app[a].sent) + 1
      BY <1>2 DEF StepsLeft
    <2> DEFINE n == Len(local[Home[a]][app[a].ino])
               m == Len(app[a].sent)
    <2>2. n \in Nat /\ m \in Nat /\ m <= n
      BY <1>2, StreamFacts
    <2>3. StepsLeft(a) = n - m + 1
      BY <2>1
    <2> HIDE DEF n, m
    <2>4. QED
      BY <2>2, <2>3
  <1>3. CASE app[a].at \in {"creating", "renaming"}
    <2>1. StepsLeft(a) = 1
      BY <1>3 DEF StepsLeft
    <2>2. QED
      BY <2>1
  <1>4. CASE app[a].at \notin {"opening", "closing", "creating", "renaming"}
    <2>1. StepsLeft(a) = 0 /\ ~InLibrary(a)
      BY <1>4 DEF StepsLeft, InLibrary
    <2>2. QED
      BY <2>1
  <1>5. QED
    BY <1>1, <1>2, <1>3, <1>4

\* The steps of the operation itself.
LEMMA OwnStepIsNearer ==
    ASSUME Private, StateType, PairInv, NEW a \in App, InLibrary(a),
           Proceed(a) \/ Fail(a)
    PROVE  StepsLeft(a)' < StepsLeft(a)
  <1>1. StepsLeft(a) \in Nat /\ StepsLeft(a) > 0
    BY StepsLeftType
  <1>2. ASSUME app'[a].at \in {"idle", "open"} PROVE StepsLeft(a)' < StepsLeft(a)
    <2>1. StepsLeft(a)' = 0
      BY <1>2 DEF StepsLeft
    <2>2. QED
      BY <1>1, <2>1
  <1>3. CASE OpenLocalCopy(a)
    <2>1. app[a].at = "opening" /\ app[a].fd = NoFd /\ app[a] \in OpeningApp
      BY <1>3, AppKinds DEF OpenLocalCopy, StateType
    <2>2. PICK f \in Fd : app' = [app EXCEPT ![a].fd = f]
      BY <1>3 DEF OpenLocalCopy
    <2>3. app'[a] = [app[a] EXCEPT !.fd = f]
      BY <2>2 DEF StateType, AppType
    <2>4. /\ app'[a].at = "opening" /\ app'[a].fd = f
          /\ app'[a].src = app[a].src /\ app'[a].n = app[a].n
      BY <2>1, <2>3 DEF OpeningApp
    <2>5. f # NoFd
      BY NilAssumption
    <2>6. StepsLeft(a) = Len(app[a].src) - app[a].n + 2
      BY <2>1 DEF StepsLeft
    <2>7. StepsLeft(a)' = Len(app[a].src) - app[a].n + 1
      BY <2>4, <2>5 DEF StepsLeft
    <2>8. QED
      BY <2>1, <2>6, <2>7, StreamFacts
  <1>4. CASE StoreMessage(a)
    <2>1. app[a].at = "opening" /\ app[a].fd # NoFd /\ app[a] \in OpeningApp
      BY <1>4, AppKinds DEF StoreMessage, StateType
    <2>2. app'[a] = [app[a] EXCEPT !.n = app[a].n + 1]
      BY <1>4 DEF StoreMessage, StateType, AppType
    <2>3. /\ app'[a].at = "opening" /\ app'[a].fd = app[a].fd
          /\ app'[a].src = app[a].src /\ app'[a].n = app[a].n + 1
      BY <2>1, <2>2 DEF OpeningApp
    <2>4. StepsLeft(a) = Len(app[a].src) - app[a].n + 1
      BY <2>1 DEF StepsLeft
    <2>5. StepsLeft(a)' = Len(app[a].src) - (app[a].n + 1) + 1
      BY <2>1, <2>3 DEF StepsLeft
    <2>6. QED
      BY <2>1, <2>4, <2>5, StreamFacts
  <1>5. CASE SendMessage(a)
    <2> DEFINE copy == local[Home[a]][app[a].ino]
               sent == Append(app[a].sent, copy[Len(app[a].sent) + 1])
    <2>1. app[a].at = "closing" /\ app[a] \in ClosingApp /\ app[a].sent \in File
      BY <1>5, AppKinds, AppFields DEF SendMessage, StateType
    <2>2. app'[a] = [app[a] EXCEPT !.sent = sent] /\ local' = local
      BY <1>5 DEF SendMessage, StateType, AppType
    <2>3. Len(sent) = Len(app[a].sent) + 1
      BY <2>1 DEF File
    <2> HIDE DEF sent
    <2>4. app'[a].at = "closing" /\ app'[a].ino = app[a].ino /\ app'[a].sent = sent
      BY <2>1, <2>2 DEF ClosingApp
    <2>5. StepsLeft(a) = Len(copy) - Len(app[a].sent) + 1
      BY <2>1 DEF StepsLeft
    <2>6. StepsLeft(a)' = Len(copy) - Len(sent) + 1
      BY <2>2, <2>4 DEF StepsLeft
    <2> DEFINE n == Len(copy)
               m == Len(app[a].sent)
    <2>7. n \in Nat /\ m \in Nat
      BY <2>1, StreamFacts
    <2>8. StepsLeft(a) = n - m + 1 /\ StepsLeft(a)' = n - (m + 1) + 1
      BY <2>3, <2>5, <2>6
    <2> HIDE DEF n, m
    <2>9. QED
      BY <2>7, <2>8
  <1>6. CASE OpenNoCopy(a) \/ StoreFails(a) \/ CreateNoCopy(a)
    <2>1. app'[a] = Idle
      BY <1>6 DEF OpenNoCopy, StoreFails, CreateNoCopy, StateType, AppType
    <2>2. QED
      BY <1>2, <2>1 DEF Idle
  <1>7. CASE EndOpen(a)
    <2>1. app'[a].at = "open"
      BY <1>7 DEF EndOpen, StateType, AppType
    <2>2. QED
      BY <1>2, <2>1
  <1>8. CASE EndCreate(a)
    <2>1. app'[a].at = "open"
      BY <1>8 DEF EndCreate, StateType, AppType
    <2>2. QED
      BY <1>2, <2>1
  <1>9. CASE EndClose(a) \/ SendFails(a) \/ CloseLost(a)
    <2>1. TRUE \in MayBeLast
      BY DEF MayBeLast
    <2>2. app'[a] = Idle
      BY <1>9, <2>1, CloseReturnsPairs
    <2>3. QED
      BY <1>2, <2>2 DEF Idle
  <1>10. CASE EndRename(a) \/ RenameLost(a)
    <2>1. app'[a] = Idle
      BY <1>10, RenameEndsPairs
    <2>2. QED
      BY <1>2, <2>1 DEF Idle
  <1>11. ~WriteFile(a)
    BY DEF WriteFile, InLibrary
  <1>12. QED
    BY <1>3, <1>4, <1>5, <1>6, <1>7, <1>8, <1>9, <1>10, <1>11 DEF Proceed, Fail

\* The steps of the others.
LEMMA SameSteps ==
    ASSUME StateType, PairInv, NEW b \in App, Same(b), InLibrary(b)
    PROVE  StepsLeft(b)' = StepsLeft(b)
  <1>1. app'[b] = app[b]
    BY DEF Same
  <1>2. CASE app[b].at = "closing"
    <2>1. app[b].ino = Local(b) /\ HasFd(b)
      BY <1>2, StreamFacts DEF HasFd, HasFile
    <2>2. local'[Home[b]][app[b].ino] = local[Home[b]][app[b].ino]
      BY <2>1 DEF Same
    <2>3. QED
      BY <1>1, <1>2, <2>2 DEF StepsLeft
  <1>3. CASE app[b].at # "closing"
    BY <1>1, <1>3 DEF StepsLeft
  <1>4. QED
    BY <1>2, <1>3

LEMMA OtherStepsKeepNear ==
    ASSUME Private, SessionInv, Next, NEW b \in App, InLibrary(b),
           ~(Proceed(b) \/ Fail(b))
    PROVE  StepsLeft(b)' <= StepsLeft(b)
  <1>1. StateType /\ SemInv /\ SemsAgree /\ PairInv
    BY DEF SessionInv, StateInv
  <1>2. StepsLeft(b) \in Nat
    BY <1>1, StepsLeftType
  <1>3. ASSUME Same(b) PROVE StepsLeft(b)' <= StepsLeft(b)
    BY <1>1, <1>2, <1>3, SameSteps
  <1>4. ASSUME NEW a \in App, Proceed(a) \/ Fail(a) \/ Operation(a)
        PROVE  StepsLeft(b)' <= StepsLeft(b)
    <2>1. ~Operation(b)
      BY DEF InLibrary, Operation, OpenFile, OpenVanished, CreateFile,
         CreateOverExisting, CreateRefused, CreateLost, DeleteFile, DeleteLost,
         RenameFile, RenameDirectory, MayRename, PWriteFails, PWrite, ReadBadFd,
         CloseUnsent, CloseFile, CloseNoCopy
    <2>2. a # b
      BY <1>4, <2>1
    <2>3. Same(b)
      BY <1>1, <1>4, <2>2, ApplicationPairs DEF Kept
    <2>4. QED
      BY <1>3, <2>3
  <1>5. ASSUME NEW c \in Client, Crash(c) PROVE StepsLeft(b)' <= StepsLeft(b)
    <2>1. CASE Home[b] = c
      <3>1. app'[b] = Idle
        BY <1>1, <1>5, <2>1, CrashPairs
      <3>2. StepsLeft(b)' = 0
        BY <3>1 DEF StepsLeft, Idle
      <3>3. QED
        BY <1>2, <3>2
    <2>2. CASE Home[b] # c
      BY <1>1, <1>3, <1>5, <2>2, CrashPairs
    <2>3. QED
      BY <2>1, <2>2
  <1>6. ASSUME NEW c \in Client, NEW p \in Path, NEW n \in 0 .. MaxLen,
               TruncateFile(c, p, n)
        PROVE  StepsLeft(b)' <= StepsLeft(b)
    BY <1>1, <1>3, <1>6, TruncateFilePairs
  <1>7. QED
    BY <1>4, <1>5, <1>6 DEF Next

\* An operation that has begun is a bounded number of its own steps away from
\* its return, and nothing that happens meanwhile makes them more: nobody can
\* make the local copy longer that a close is uploading, neither with a write,
\* which takes no semaphore, nor with a truncation, which does not take
\* clientSem.
THEOREM OperationsComeOut ==
    ASSUME Private
    PROVE  Spec => [][\A a \in App : InLibrary(a) => Nearer(a)]_vars
  <1>1. SessionInv /\ [Next]_vars => SessionInv'
    BY SessionInvStep
  <1>2. SessionInv /\ [Next]_vars => [\A a \in App : InLibrary(a) => Nearer(a)]_vars
    BY StepsLeftType, OwnStepIsNearer, OtherStepsKeepNear DEF Nearer, SessionInv, StateInv
  <1>3. QED
    BY <1>1, <1>2, SessionInvInit, PTL DEF Spec

(***************************************************************************)
(* What is written is written back.  When no truncation and no failure of  *)
(* a disk interferes, a copy that has been written to is not empty.        *)
(***************************************************************************)
NoEmptying == Faults \cap {"truncate", "disk"} = {}

Copied(a) == local[Home[a]][Local(a)]

WriteInv == \A a \in App : HasFile(a) /\ app[a].wrote => Copied(a) # <<>>

\* A step that leaves the call of b alone, and its copy.
CopySame(b) == app'[b] = app[b] /\ (HasFile(b) => Copied(b)' = Copied(b))

LEMMA WriteKept ==
    ASSUME WriteInv, NEW a \in App, \A b \in App : b # a => CopySame(b),
           HasFile(a)' /\ app'[a].wrote => Copied(a)' # <<>>
    PROVE  WriteInv'
  <1> SUFFICES ASSUME NEW b \in App, HasFile(b)', app'[b].wrote
               PROVE  Copied(b)' # <<>>
    BY DEF WriteInv
  <1>1. CASE b = a
    BY <1>1
  <1>2. CASE b # a
    BY <1>2 DEF CopySame, WriteInv, HasFile
  <1>3. QED
    BY <1>1, <1>2

\* The copies stay as they are, and the descriptors.
LEMMA CopySameRows ==
    ASSUME NEW b \in App, UNCHANGED <<local, file>>, app'[b] = app[b]
    PROVE  CopySame(b)
  BY DEF CopySame, Copied, Local

LEMMA CopySameClient ==
    ASSUME NEW b \in App, app'[b] = app[b], local'[Home[b]] = local[Home[b]],
           file'[Home[b]] = file[Home[b]]
    PROVE  CopySame(b)
  BY DEF CopySame, Copied, Local

\* A copy that is written to is not empty.
LEMMA WriteAtNotEmpty ==
    ASSUME NEW s \in File, NEW k \in Nat \ {0}, NEW c \in Chunk \cup {Hole}
    PROVE  WriteAt(s, k, c) # <<>>
  <1>1. Len(s) \in Nat
    BY DEF File
  <1>2. 1 \in DOMAIN WriteAt(s, k, c)
    BY <1>1 DEF WriteAt
  <1>3. QED
    BY <1>2

\* The others do not see that a local copy is emptied for an open or a create.
LEMMA AcquiresCopies ==
    ASSUME StateType, SemInv, PairInv, NEW a \in App,
           OpenLocalCopy(a) \/ EndCreate(a)
    PROVE  /\ \A b \in App : b # a => CopySame(b)
           /\ HasFile(a)' => app'[a].wrote = FALSE
  <1> DEFINE c == Home[a]
             i == app[a].ino
  <1>1. c \in Client /\ i \in Copy /\ app[a].at \in {"opening", "creating"}
    BY HomeAssumption, AppFields DEF OpenLocalCopy, EndCreate, StateType, Copy
  <1>2. PICK f \in Fd : file[c][f] = NoIno /\ file' = [file EXCEPT ![c][f] = i]
    BY DEF OpenLocalCopy, EndCreate
  <1>3. /\ \A b \in App : b # a => app'[b] = app[b]
        /\ HasFile(a)' => app'[a].wrote = FALSE
    <2>1. CASE OpenLocalCopy(a)
      <3>1. app[a] \in OpeningApp
        BY <2>1, AppKinds DEF OpenLocalCopy, StateType
      <3>2. \A b \in App : b # a => app'[b] = app[b]
        BY <2>1 DEF OpenLocalCopy, StateType, AppType
      <3>3. app'[a].at = "opening"
        BY <2>1, <3>1 DEF OpenLocalCopy, StateType, AppType, OpeningApp
      <3>4. QED
        BY <3>2, <3>3 DEF HasFile
    <2>2. CASE EndCreate(a)
      BY <2>2 DEF EndCreate, StateType, AppType
    <2>3. QED
      BY <2>1, <2>2
  <1>4. \E s : local' = [local EXCEPT ![c][i] = s]
    BY DEF OpenLocalCopy, EndCreate
  <1>5. /\ \A d \in Client : d # c => local'[d] = local[d] /\ file'[d] = file[d]
        /\ \A g \in Fd : g # f => file'[c][g] = file[c][g]
        /\ \A j \in Copy : j # i => local'[c][j] = local[c][j]
    BY <1>1, <1>2, <1>4 DEF StateType, LocalType, FileType
  <1>6. ASSUME NEW b \in App, b # a PROVE CopySame(b)
    <2>1. CASE Home[b] # c
      BY <1>3, <1>5, <1>6, <2>1, HomeAssumption, CopySameClient
    <2>2. CASE Home[b] = c
      <3>1. HasFile(b) => Local(b) # NoIno /\ app[b].fd # NoFd /\ HasFd(b)
        BY DEF HasFd, PairInv, Right
      <3>2. HasFile(b) => app[b].fd # f
        BY <1>2, <2>2, <3>1 DEF Local
      <3>3. HasFile(b) => app[b].fd \in Fd /\ Local(b) \in Copy /\ Local(b) # i
        BY <1>1, <1>6, <2>2, <3>1, LocalType2 DEF PairInv, Apart
      <3>4. HasFile(b) => Local(b)' = Local(b)
        BY <1>3, <1>5, <1>6, <2>2, <3>2, <3>3 DEF Local
      <3>5. QED
        BY <1>3, <1>5, <1>6, <2>2, <3>3, <3>4 DEF CopySame, Copied
    <2>3. QED
      BY <2>1, <2>2
  <1>7. QED
    BY <1>3, <1>6

\* A chunk is written to the copy of a.
LEMMA WriteCopies ==
    ASSUME StateType, PairInv, NEW a \in App, HasFd(a), UNCHANGED file,
           \A b \in App : b # a => app'[b] = app[b], app'[a].fd = app[a].fd,
           NEW k \in Nat \ {0}, NEW ch \in Chunk \cup {Hole},
           local' = [local EXCEPT ![Home[a]][Local(a)] =
                       WriteAt(local[Home[a]][Local(a)], k, ch)]
    PROVE  /\ \A b \in App : b # a => CopySame(b)
           /\ Copied(a)' = WriteAt(Copied(a), k, ch) /\ Copied(a)' # <<>>
           /\ Copied(a) \in File
  <1> DEFINE c == Home[a]
             i == Local(a)
             s == WriteAt(local[c][i], k, ch)
  <1>1. c \in Client /\ i \in Copy /\ local[c][i] \in File
    <2>1. c \in Client /\ i \in Copy
      BY HomeAssumption, LocalType2 DEF PairInv, Right
    <2>2. QED
      BY <2>1 DEF StateType, LocalType
  <1>2. s # <<>>
    BY <1>1, WriteAtNotEmpty
  <1> HIDE DEF s
  <1>3. local' = [local EXCEPT ![c][i] = s]
    BY DEF s
  <1>4. /\ local'[c][i] = s
        /\ \A d \in Client : d # c => local'[d] = local[d]
        /\ \A j \in Copy : j # i => local'[c][j] = local[c][j]
    BY <1>1, <1>3 DEF StateType, LocalType
  <1>5. Local(a)' = Local(a)
    BY DEF Local
  <1>6. ASSUME NEW b \in App, b # a PROVE CopySame(b)
    <2>1. CASE Home[b] # c
      BY <1>4, <1>6, <2>1, HomeAssumption, CopySameClient
    <2>2. CASE Home[b] = c
      <3>1. HasFile(b) => HasFd(b) /\ Local(b) # NoIno
        BY DEF HasFd, PairInv, Right
      <3>2. HasFile(b) => Local(b) # i /\ Local(b) \in Copy
        BY <1>6, <2>2, <3>1, LocalType2 DEF PairInv, Apart
      <3>3. Local(b)' = Local(b) /\ (HasFile(b)' <=> HasFile(b))
        BY <1>6 DEF Local, HasFile
      <3>4. QED
        BY <1>4, <1>6, <2>2, <3>2, <3>3 DEF CopySame, Copied
    <2>3. QED
      BY <2>1, <2>2
  <1>7. Copied(a)' = s
    BY <1>4, <1>5 DEF Copied
  <1>8. QED
    BY <1>1, <1>2, <1>6, <1>7 DEF s, Copied

\* A call begins or ends with nothing written, and no copy changes.
LEMMA NothingWritten ==
    ASSUME StateType, WriteInv, NEW a \in App, UNCHANGED <<local, file>>,
           \A b \in App : b # a => app'[b] = app[b],
           HasFile(a)' => app'[a].wrote = FALSE
    PROVE  WriteInv'
  <1>1. ASSUME NEW b \in App, b # a PROVE CopySame(b)
    BY <1>1, CopySameRows
  <1>2. QED
    BY <1>1, WriteKept

\* The application goes on with its file.
LEMMA NothingNew ==
    ASSUME StateType, WriteInv, NEW a \in App, UNCHANGED <<local, file>>,
           \A b \in App : b # a => app'[b] = app[b], HasFile(a),
           app'[a].wrote = app[a].wrote, app'[a].fd = app[a].fd
    PROVE  WriteInv'
  <1>1. ASSUME NEW b \in App, b # a PROVE CopySame(b)
    BY <1>1, CopySameRows
  <1>2. Copied(a)' = Copied(a)
    BY DEF Copied, Local
  <1>3. QED
    BY <1>1, <1>2, WriteKept DEF WriteInv

\* A close that returns.
LEMMA CloseCopies ==
    ASSUME Private, StateType, PairInv, NEW a \in App,
           \/ \E last \in MayBeLast : CloseUnsent(a, last) \/ CloseNoCopy(a, last)
           \/ EndClose(a) \/ SendFails(a) \/ CloseLost(a)
    PROVE  app'[a] = Idle /\ \A b \in App : b # a => CopySame(b)
  <1>1. TRUE \in MayBeLast
    BY DEF MayBeLast
  <1>2. app'[a] = Idle /\ Kept(a)
    BY <1>1, CloseReturnsPairs
  <1>3. UNCHANGED local
    BY DEF CloseUnsent, CloseNoCopy, EndClose, SendFails, CloseLost
  <1>4. ASSUME NEW b \in App, b # a PROVE CopySame(b)
    BY <1>2, <1>3, <1>4 DEF Kept, Same, CopySame, Copied, HasFile, HasFd
  <1>5. QED
    BY <1>2, <1>4

LEMMA CloseWrite ==
    ASSUME Private, StateType, PairInv, WriteInv, NEW a \in App,
           \/ \E last \in MayBeLast : CloseUnsent(a, last) \/ CloseNoCopy(a, last)
           \/ EndClose(a) \/ SendFails(a) \/ CloseLost(a)
    PROVE  WriteInv'
  <1>1. app'[a] = Idle /\ \A b \in App : b # a => CopySame(b)
    BY CloseCopies
  <1>2. ~HasFile(a)'
    BY <1>1 DEF HasFile, Idle
  <1>3. QED
    BY <1>1, <1>2, WriteKept

LEMMA ProceedWrite ==
    ASSUME Private, StateType, SemInv, PairInv, WriteInv, NEW a \in App, Proceed(a)
    PROVE  WriteInv'
  <1>1. CASE OpenLocalCopy(a) \/ EndCreate(a)
    BY <1>1, AcquiresCopies, WriteKept
  <1>2. CASE OpenNoCopy(a) \/ CreateNoCopy(a) \/ EndOpen(a)
    <2>1. /\ UNCHANGED <<local, file>>
          /\ \A b \in App : b # a => app'[b] = app[b]
          /\ app'[a] = Idle \/ app'[a].wrote = FALSE
      BY <1>2 DEF OpenNoCopy, CreateNoCopy, EndOpen, StateType, AppType
    <2>2. HasFile(a)' => app'[a].wrote = FALSE
      BY <2>1 DEF HasFile, Idle
    <2>3. QED
      BY <2>1, <2>2, NothingWritten
  <1>3. CASE EndRename(a)
    <2>1. /\ UNCHANGED <<local, file>> /\ app'[a] = Idle
          /\ \A b \in App : b # a => app'[b] = app[b]
      BY <1>3, RenameEndsPairs DEF EndRename
    <2>2. ~HasFile(a)'
      BY <2>1 DEF HasFile, Idle
    <2>3. QED
      BY <2>1, <2>2, NothingWritten
  <1>4. CASE StoreMessage(a)
    <2>1. /\ app[a] \in OpeningApp /\ HasFd(a) /\ app[a].n \in Nat
          /\ app[a].src \in File /\ app[a].n < Len(app[a].src)
      BY <1>4, AppKinds, AppFields DEF StoreMessage, StateType, HasFd
    <2>2. app[a].n + 1 \in Nat \ {0} /\ app[a].src[app[a].n + 1] \in Chunk \cup {Hole}
      BY <2>1 DEF File
    <2>3. /\ app'[a].fd = app[a].fd
          /\ \A b \in App : b # a => app'[b] = app[b]
      BY <1>4, <2>1 DEF StoreMessage, StateType, AppType, OpeningApp
    <2>4. UNCHANGED file /\ local' = [local EXCEPT ![Home[a]][Local(a)] =
                            WriteAt(local[Home[a]][Local(a)], app[a].n + 1,
                                    app[a].src[app[a].n + 1])]
      BY <1>4 DEF StoreMessage
    <2>5. QED
      BY <2>1, <2>2, <2>3, <2>4, WriteCopies, WriteKept
  <1>5. CASE WriteFile(a)
    <2>1. HasFile(a) /\ app[a] \in OpenApp
      BY <1>5, AppKinds DEF WriteFile, HasFile, StateType
    <2>2. app' = [app EXCEPT ![a] = [app[a] EXCEPT !.at = "open"]]
      BY <1>5 DEF WriteFile
    <2>3. /\ app'[a] = [at |-> "open", path |-> app[a].path, fd |-> app[a].fd,
                        wrote |-> app[a].wrote]
          /\ \A b \in App : b # a => app'[b] = app[b]
      BY <2>1, <2>2, OpenAppAt DEF StateType, AppType
    <2>4. app'[a].wrote = app[a].wrote /\ app'[a].fd = app[a].fd
      BY <2>3
    <2>5. QED
      BY <1>5, <2>1, <2>3, <2>4, NothingNew DEF WriteFile
  <1>6. CASE SendMessage(a)
    <2>1. HasFile(a) /\ app[a] \in ClosingApp
      BY <1>6, AppKinds DEF SendMessage, HasFile, StateType
    <2>2. /\ app'[a].wrote = app[a].wrote /\ app'[a].fd = app[a].fd
          /\ \A b \in App : b # a => app'[b] = app[b]
      BY <1>6, <2>1 DEF SendMessage, StateType, AppType, ClosingApp
    <2>3. QED
      BY <1>6, <2>1, <2>2, NothingNew DEF SendMessage
  <1>7. CASE EndClose(a)
    BY <1>7, CloseWrite
  <1>8. QED
    BY <1>1, <1>2, <1>3, <1>4, <1>5, <1>6, <1>7 DEF Proceed

LEMMA FailWrite ==
    ASSUME Private, StateType, SemInv, PairInv, WriteInv, NEW a \in App, Fail(a)
    PROVE  WriteInv'
  <1>1. CASE StoreFails(a)
    <2>1. /\ UNCHANGED <<local, file>> /\ app'[a] = Idle
          /\ \A b \in App : b # a => app'[b] = app[b]
      BY <1>1 DEF StoreFails, StateType, AppType
    <2>2. ~HasFile(a)'
      BY <2>1 DEF HasFile, Idle
    <2>3. QED
      BY <2>1, <2>2, NothingWritten
  <1>2. CASE RenameLost(a)
    <2>1. /\ UNCHANGED <<local, file>> /\ app'[a] = Idle
          /\ \A b \in App : b # a => app'[b] = app[b]
      BY <1>2, RenameEndsPairs DEF RenameLost
    <2>2. ~HasFile(a)'
      BY <2>1 DEF HasFile, Idle
    <2>3. QED
      BY <2>1, <2>2, NothingWritten
  <1>3. CASE SendFails(a) \/ CloseLost(a)
    BY <1>3, CloseWrite
  <1>4. QED
    BY <1>1, <1>2, <1>3 DEF Fail

LEMMA OperationWrite ==
    ASSUME Private, NoEmptying, StateType, SemInv, PairInv, WriteInv, NEW a \in App,
           Operation(a)
    PROVE  WriteInv'
  <1>1. CASE \E p \in Path :
                \/ OpenFile(a, p)
                \/ CreateFile(a, p)
                \/ \E truncating \in BOOLEAN : CreateOverExisting(a, p, truncating)
                \/ CreateRefused(a, p)
                \/ \E q \in Path : RenameFile(a, p, q) \/ RenameDirectory(a, p, q)
    <2>1. /\ UNCHANGED <<local, file>>
          /\ \A b \in App : b # a => app'[b] = app[b]
          /\ app'[a].at \in {"opening", "creating", "renaming"}
      BY <1>1 DEF OpenFile, CreateFile, CreateOverExisting, CreateRefused, Creating,
         RenameFile, RenameDirectory, MayRename, StateType, AppType
    <2>2. ~HasFile(a)'
      BY <2>1 DEF HasFile
    <2>3. QED
      BY <2>1, <2>2, NothingWritten
  <1>2. CASE \/ \E p \in Path : CreateLost(a, p) \/ DeleteFile(a, p) \/ DeleteLost(a, p)
             \/ ReadBadFd(a)
    <2>1. UNCHANGED <<local, file, app>>
      BY <1>2 DEF CreateLost, DeleteFile, DeleteLost, ReadBadFd
    <2>2. QED
      BY <2>1 DEF WriteInv, Copied, Local, HasFile
  <1>3. CASE \E p \in Path : OpenVanished(a, p)
    BY <1>3 DEF OpenVanished, Private
  <1>4. CASE PWriteFails(a)
    BY <1>4 DEF PWriteFails, NoEmptying
  <1>5. ASSUME NEW n \in 1 .. MaxLen, NEW ch \in Chunk, PWrite(a, n, ch)
        PROVE  WriteInv'
    <2>1. HasFd(a) /\ Local(a) # NoIno /\ app[a] \in OpenApp
      BY <1>5, AppKinds DEF PWrite, HasFd, HasFile, PairInv, Right, StateType
    <2>2. /\ app' = [app EXCEPT ![a] = [app[a] EXCEPT !.at = "written", !.wrote = TRUE]]
          /\ local' = [local EXCEPT ![Home[a]][Local(a)] =
                         WriteAt(local[Home[a]][Local(a)], n, ch)]
          /\ UNCHANGED file
      BY <1>5, <2>1 DEF PWrite
    <2>3. /\ app'[a].fd = app[a].fd
          /\ \A b \in App : b # a => app'[b] = app[b]
      BY <2>1, <2>2, OpenAppWrote DEF StateType, AppType
    <2>4. n \in Nat \ {0} /\ ch \in Chunk \cup {Hole}
      BY BoundAssumption
    <2>5. QED
      BY <2>1, <2>2, <2>3, <2>4, WriteCopies, WriteKept
  <1>6. ASSUME NEW last \in MayBeLast, CloseUnsent(a, last) \/ CloseNoCopy(a, last)
        PROVE  WriteInv'
    BY <1>6, CloseWrite
  <1>7. ASSUME NEW last \in MayBeLast, CloseFile(a, last) PROVE WriteInv'
    <2>1. HasFile(a)
      BY <1>7 DEF CloseFile, HasFile
    <2>2. /\ app'[a].wrote = app[a].wrote /\ app'[a].fd = app[a].fd
          /\ \A b \in App : b # a => app'[b] = app[b]
      BY <1>7 DEF CloseFile, StateType, AppType
    <2>3. QED
      BY <1>7, <2>1, <2>2, NothingNew DEF CloseFile
  <1>8. QED
    BY <1>1, <1>2, <1>3, <1>4, <1>5, <1>6, <1>7 DEF Operation

LEMMA WriteInvStep ==
    Private /\ NoEmptying /\ SessionInv /\ WriteInv /\ [Next]_vars => WriteInv'
  <1> SUFFICES ASSUME Private, NoEmptying, SessionInv, WriteInv, [Next]_vars
               PROVE  WriteInv'
    OBVIOUS
  <1>1. StateType /\ SemInv /\ PairInv
    BY DEF SessionInv, StateInv
  <1>2. ASSUME NEW a \in App, Proceed(a) \/ Fail(a) \/ Operation(a) PROVE WriteInv'
    BY <1>1, <1>2, ProceedWrite, FailWrite, OperationWrite
  <1>3. ASSUME NEW c \in Client, Crash(c) PROVE WriteInv'
    <2>1. /\ \A b \in App : app'[b] = IF Home[b] = c THEN Idle ELSE app[b]
          /\ \A d \in Client : d # c => local'[d] = local[d] /\ file'[d] = file[d]
      BY <1>1, <1>3 DEF Crash, StateType, FileType
    <2>2. \A b \in App : Home[b] # c => CopySame(b)
      BY <2>1, HomeAssumption, CopySameClient
    <2>3. \A b \in App : Home[b] = c => ~HasFile(b)'
      BY <2>1 DEF HasFile, Idle
    <2>4. QED
      BY <2>2, <2>3 DEF WriteInv, CopySame, HasFile
  <1>4. ASSUME NEW c \in Client, NEW p \in Path, NEW n \in 0 .. MaxLen,
               TruncateFile(c, p, n)
        PROVE  WriteInv'
    BY <1>4 DEF TruncateFile, NoEmptying
  <1>5. CASE UNCHANGED vars
    BY <1>5 DEF vars, WriteInv, Copied, Local, HasFile
  <1>6. QED
    BY <1>2, <1>3, <1>4, <1>5 DEF Next

\* Sequences of one length, one the front part of the other.
LEMMA PrefixWhole ==
    ASSUME NEW s \in File, NEW t \in File, IsPrefixOf(s, t), Len(s) >= Len(t)
    PROVE  s = t
  <1>1. Len(s) = Len(t)
    BY DEF IsPrefixOf, File
  <1>2. \A j \in 1 .. Len(s) : s[j] = t[j]
    BY DEF IsPrefixOf
  <1>3. QED
    BY <1>1, <1>2 DEF File

\* The step of the next theorem.
LEMMA CloseWritesBack ==
    ASSUME Private, SessionInv, WriteInv, NEW a \in App, NEW last \in BOOLEAN,
           CloseUnsent(a, last) \/ EndClose(a), app[a].wrote
    PROVE  /\ dir'[app[a].path] # NoIno
           /\ data'[dir'[app[a].path]] = local[Home[a]][Local(a)]
  <1> DEFINE copy == local[Home[a]][Local(a)]
             p == app[a].path
  <1>1. StateType /\ PairInv /\ HasFile(a) /\ HasFd(a)
    BY DEF SessionInv, StateInv, CloseUnsent, EndClose, HasFile, HasFd
  <1>2. copy # <<>> /\ p \in Path /\ copy \in File
    <2>1. Local(a) \in Copy /\ Home[a] \in Client
      BY <1>1, HomeAssumption, LocalType2 DEF PairInv, Right
    <2>2. QED
      BY <1>1, <2>1, AppFields DEF WriteInv, Copied, StateType, LocalType
  <1>3. ~CloseUnsent(a, last)
    <2> SUFFICES ASSUME CloseUnsent(a, last) PROVE FALSE
      OBVIOUS
    <2>1. app[a].at = "open" /\ NothingToSend(cache[Home[a]][p], local[Home[a]])
      BY DEF CloseUnsent
    <2>2. cache[Home[a]][p].ino = Local(a) /\ cache[Home[a]][p].dirty = app[a].wrote
      BY <1>1, <2>1 DEF PairInv, Right, EntryRight
    <2>3. cache[Home[a]][p].dirty
      BY <2>2
    <2>4. QED
      BY <1>2, <2>1, <2>2, <2>3 DEF NothingToSend
  <1>4. /\ app[a].at = "closing" /\ Len(app[a].sent) >= Len(local[Home[a]][app[a].ino])
        /\ Publish(p, app[a].sent)
    BY <1>3 DEF EndClose
  <1>5. app[a].ino = Local(a) /\ IsPrefixOf(app[a].sent, copy) /\ app[a].sent \in File
    BY <1>1, <1>4, AppFields DEF PairInv, Right, CopyRight, StateType
  <1>6. app[a].sent = copy
    BY <1>2, <1>4, <1>5, PrefixWhole
  <1>7. PICK i \in Ino : dir' = [dir EXCEPT ![p] = i] /\ data' = [data EXCEPT ![i] = copy]
    BY <1>2, <1>4, <1>6 DEF Publish
  <1>8. QED
    BY <1>1, <1>2, <1>7, NilAssumption DEF StateType, StoreType

\* Under the same assumptions, and if no truncation and no failure of a disk
\* interferes and the server does not go away in the middle of a stream, a close
\* that returns success has left on the server what its application had in its
\* copy: the cache's dirty mark, the copy it leads to and the chunks of the
\* stream have stayed right all the way from the write.
THEOREM WritesReachServer ==
    ASSUME Private, NoEmptying, "down" \notin Faults PROVE Spec => WritesWrittenBack
  <1> DEFINE Back == \A a \in App, last \in BOOLEAN :
                       /\ CloseUnsent(a, last) \/ EndClose(a) \/ CloseLost(a)
                       /\ app[a].wrote
                       => /\ dir'[app[a].path] # NoIno
                          /\ data'[dir'[app[a].path]] = local[Home[a]][Local(a)]
             WInv == SessionInv /\ WriteInv
  <1>1. Init => WInv
    <2>1. Init => WriteInv
      BY DEF Init, WriteInv, HasFile, Idle
    <2>2. QED
      BY <2>1, SessionInvInit
  <1>2. WInv /\ [Next]_vars => WInv'
    BY SessionInvStep, WriteInvStep
  <1>3. WInv /\ [Next]_vars => [Back]_vars
    <2>1. \A a \in App : ~CloseLost(a)
      BY DEF CloseLost
    <2>2. QED
      BY <2>1, CloseWritesBack
  <1>4. Spec => [][Back]_vars
    BY <1>1, <1>2, <1>3, PTL DEF Spec
  <1>5. QED
    BY <1>4 DEF WritesWrittenBack
=============================================================================
