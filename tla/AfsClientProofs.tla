--------------------------- MODULE AfsClientProofs ---------------------------
(***************************************************************************)
(* Theorems about AfsClient, for every value of its constants.             *)
(***************************************************************************)
EXTENDS AfsClient, TLAPS

Calls == {Idle} \cup OpeningApp \cup CreatingApp \cup OpenApp \cup ClosingApp
           \cup RenamingApp

(***************************************************************************)
(* Lemmas about the operators.                                             *)
(***************************************************************************)

\* A write keeps a file a file.
LEMMA WriteAtType ==
    ASSUME NEW s \in File, NEW k \in Nat \ {0}, NEW c \in Chunk \cup {Hole}
    PROVE  WriteAt(s, k, c) \in File
  <1> DEFINE n == IF k > Len(s) THEN k ELSE Len(s)
  <1>1. n \in Nat /\ Len(s) \in Nat
    BY DEF File
  <1>2. \A j \in 1 .. n :
          (IF j = k THEN c ELSE IF j \in 1 .. Len(s) THEN s[j] ELSE Hole)
              \in Chunk \cup {Hole}
    BY DEF File
  <1>3. WriteAt(s, k, c) \in [1 .. n -> Chunk \cup {Hole}]
    BY <1>2 DEF WriteAt
  <1>4. QED
    BY <1>1, <1>3 DEF File

\* So does a truncation.
LEMMA ResizedType ==
    ASSUME NEW s \in File, NEW n \in Nat
    PROVE  Resized(s, n) \in File
  <1>1. \A j \in 1 .. n :
          (IF j \in 1 .. Len(s) THEN s[j] ELSE Hole) \in Chunk \cup {Hole}
    BY DEF File
  <1>2. Resized(s, n) \in [1 .. n -> Chunk \cup {Hole}]
    BY <1>1 DEF Resized
  <1>3. QED
    BY <1>2 DEF File

\* What the server sends as a C string is a file.
LEMMA CStringsType ==
    ASSUME NEW s \in File
    PROVE  CStrings(s) \subseteq File
  <1> DEFINE zeros == {k \in DOMAIN s : s[k] = Hole}
  <1>1. \A k \in DOMAIN s : SubSeq(s, 1, k - 1) \in File
    BY DEF File
  <1>2. \A ch \in Chunk : Append(s, ch) \in File
    BY DEF File
  <1>3. CASE s = <<>>
    BY <1>3 DEF CStrings
  <1>4. CASE s # <<>> /\ zeros # {}
    <2>1. CStrings(s) =
            {SubSeq(s, 1, k - 1) : k \in {l \in zeros : \A m \in zeros : l <= m}}
      BY <1>4 DEF CStrings
    <2>2. QED
      BY <1>1, <2>1
  <1>5. CASE s # <<>> /\ zeros = {}
    <2>1. CStrings(s) \subseteq {s} \cup {Append(s, ch) : ch \in Chunk}
      BY <1>5 DEF CStrings
    <2>2. QED
      BY <1>2, <2>1
  <1>6. QED
    BY <1>3, <1>4, <1>5

(***************************************************************************)
(* The calls of the applications.                                          *)
(***************************************************************************)
AppType == app \in [App -> Calls]

\* The kinds of call are told apart by at.
LEMMA AppKinds ==
    ASSUME AppType, NEW a \in App
    PROVE  /\ app[a] \in Calls
           /\ app[a].at = "idle" => app[a] = Idle
           /\ app[a].at = "opening" => app[a] \in OpeningApp
           /\ app[a].at = "creating" => app[a] \in CreatingApp
           /\ app[a].at \in {"open", "written"} => app[a] \in OpenApp
           /\ app[a].at = "closing" => app[a] \in ClosingApp
           /\ app[a].at = "renaming" => app[a] \in RenamingApp
           /\ app[a].at \in {"idle", "opening", "creating", "open", "written",
                             "closing", "renaming"}
  <1>1. app[a] \in Calls
    BY DEF AppType
  <1>2. QED
    BY <1>1 DEF Calls, Idle, OpeningApp, CreatingApp, OpenApp, ClosingApp, RenamingApp

LEMMA AppFields ==
    ASSUME AppType, NEW a \in App
    PROVE  /\ HasFile(a) => app[a].path \in Path /\ app[a].fd \in Fd \cup {NoFd}
                            /\ app[a].wrote \in BOOLEAN
           /\ app[a].at = "opening" =>
                /\ app[a].path \in Path /\ app[a].ino \in Ino /\ app[a].src \in File
                /\ app[a].fd \in Fd \cup {NoFd} /\ app[a].n \in Nat
           /\ app[a].at = "creating" =>
                app[a].path \in Path /\ app[a].ino \in Copy /\ app[a].src \in File
           /\ app[a].at = "closing" =>
                app[a].last \in BOOLEAN /\ app[a].ino \in Copy /\ app[a].sent \in File
           /\ app[a].at = "renaming" => app[a].path \in Path /\ app[a].to \in Path
  <1>1. HasFile(a) => app[a] \in OpenApp \/ app[a] \in ClosingApp
    BY AppKinds DEF HasFile
  <1>2. QED
    BY <1>1, AppKinds DEF OpenApp, ClosingApp, OpeningApp, CreatingApp, RenamingApp

\* The call of application a becomes k.
Turns(a, k) ==
    /\ k \in Calls
    /\ app' = [app EXCEPT ![a] = k]

LEMMA TurnsTo ==
    ASSUME AppType, NEW a \in App, NEW k, Turns(a, k)
    PROVE  /\ AppType'
           /\ app'[a] = k
           /\ \A b \in App : b # a => app'[b] = app[b]
  BY DEF AppType, Turns

(***************************************************************************)
(* The semaphores: one operation of a client at a time is in the library.  *)
(***************************************************************************)
Inside(c, a) == Home[a] = c /\ InLibrary(a)

SemInv ==
    /\ opSem \in [Client -> Nat]
    /\ clientSem \in [Client -> {0, 1}]
    /\ \A c \in Client :
        /\ opSem[c] + (1 - clientSem[c]) <= MaxSem
        /\ \A a, b \in App : Inside(c, a) /\ Inside(c, b) => a = b
        /\ clientSem[c] = 0 <=> \E a \in App : Inside(c, a)

LEMMA SemInvOne == SemInv => OneLibraryCall
  <1> SUFFICES ASSUME SemInv, NEW c \in Client
               PROVE  LET inside == {a \in App : Home[a] = c /\ InLibrary(a)} IN
                      /\ \A a, b \in inside : a = b
                      /\ clientSem[c] = 0 <=> inside # {}
    BY DEF OneLibraryCall
  <1> DEFINE inside == {a \in App : Home[a] = c /\ InLibrary(a)}
  <1>1. \A a \in App : a \in inside <=> Inside(c, a)
    BY DEF Inside
  <1>2. QED
    BY <1>1 DEF SemInv

\* What a step of application a may do: enter the library, leave it, or
\* neither, and then post wiscOPSem at most.
Moves(a) ==
    LET c == Home[a] IN
    /\ \A b \in App : b # a => (InLibrary(b)' <=> InLibrary(b))
    /\ \/ ~InLibrary(a) /\ InLibrary(a)' /\ SemWait(c)
       \/ InLibrary(a) /\ ~InLibrary(a)' /\ SemPost(c)
       \/ /\ InLibrary(a)' <=> InLibrary(a)
          /\ UNCHANGED clientSem
          /\ \/ UNCHANGED opSem
             \/ /\ opSem[c] + (1 - clientSem[c]) < MaxSem
                /\ opSem' = [opSem EXCEPT ![c] = @ + 1]

LEMMA MovesSemInv ==
    ASSUME SemInv, NEW a \in App, Moves(a)
    PROVE  SemInv'
  <1> DEFINE c == Home[a]
  <1>1. c \in Client
    BY HomeAssumption
  <1>2. \A d \in Client, b \in App : b # a => (Inside(d, b)' <=> Inside(d, b))
    BY DEF Moves, Inside
  <1>3. \A d \in Client : d # c => ~Inside(d, a) /\ ~Inside(d, a)'
    BY DEF Inside
  <1>4. CASE ~InLibrary(a) /\ InLibrary(a)' /\ SemWait(c)
    <2>1. ~Inside(c, a) /\ Inside(c, a)'
      BY <1>4 DEF Inside
    <2>2. /\ clientSem[c] = 1 /\ opSem[c] > 0
          /\ opSem' = [opSem EXCEPT ![c] = @ - 1]
          /\ clientSem' = [clientSem EXCEPT ![c] = @ - 1]
      BY <1>1, <1>4 DEF SemWait, SemsFree, SemInv
    <2>3. /\ opSem' \in [Client -> Nat] /\ clientSem' \in [Client -> {0, 1}]
          /\ clientSem'[c] = 0 /\ opSem'[c] = opSem[c] - 1
          /\ \A d \in Client : d # c =>
                opSem'[d] = opSem[d] /\ clientSem'[d] = clientSem[d]
      BY <1>1, <2>2 DEF SemInv
    <2>4. \A b \in App : ~Inside(c, b)
      BY <1>1, <2>2 DEF SemInv
    <2>5. ASSUME NEW d \in Client
          PROVE  /\ opSem'[d] + (1 - clientSem'[d]) <= MaxSem
                 /\ \A x, y \in App : Inside(d, x)' /\ Inside(d, y)' => x = y
                 /\ clientSem'[d] = 0 <=> \E x \in App : Inside(d, x)'
      <3>1. CASE d = c
        <4>1. opSem[c] \in Nat /\ MaxSem \in Nat /\ opSem[c] + (1 - clientSem[c]) <= MaxSem
          BY <1>1, BoundAssumption DEF SemInv
        <4>2. opSem'[d] + (1 - clientSem'[d]) <= MaxSem
          BY <3>1, <4>1, <2>2, <2>3
        <4>3. QED
          BY <3>1, <4>2, <1>1, <1>2, <2>1, <2>3, <2>4
      <3>2. CASE d # c
        <4>1. /\ opSem[d] + (1 - clientSem[d]) <= MaxSem
              /\ \A x, y \in App : Inside(d, x) /\ Inside(d, y) => x = y
              /\ clientSem[d] = 0 <=> \E x \in App : Inside(d, x)
          BY DEF SemInv
        <4>2. \A x \in App : Inside(d, x)' <=> Inside(d, x)
          BY <1>2, <1>3, <3>2
        <4>3. QED
          BY <2>3, <3>2, <4>1, <4>2
      <3>3. QED
        BY <3>1, <3>2
    <2>6. QED
      BY <2>3, <2>5 DEF SemInv
  <1>5. CASE InLibrary(a) /\ ~InLibrary(a)' /\ SemPost(c)
    <2>1. Inside(c, a) /\ ~Inside(c, a)'
      BY <1>5 DEF Inside
    <2>2. /\ clientSem[c] = 0
          /\ \A b \in App : Inside(c, b) => b = a
      BY <1>1, <2>1 DEF SemInv
    <2>3. /\ opSem' \in [Client -> Nat] /\ clientSem' \in [Client -> {0, 1}]
          /\ clientSem'[c] = 1 /\ opSem'[c] = opSem[c] + 1
          /\ \A d \in Client : d # c =>
                opSem'[d] = opSem[d] /\ clientSem'[d] = clientSem[d]
      BY <1>1, <1>5, <2>2 DEF SemPost, SemInv
    <2>4. ASSUME NEW d \in Client
          PROVE  /\ opSem'[d] + (1 - clientSem'[d]) <= MaxSem
                 /\ \A x, y \in App : Inside(d, x)' /\ Inside(d, y)' => x = y
                 /\ clientSem'[d] = 0 <=> \E x \in App : Inside(d, x)'
      <3>1. CASE d = c
        <4>1. opSem[c] \in Nat /\ MaxSem \in Nat /\ opSem[c] + (1 - clientSem[c]) <= MaxSem
          BY <1>1, BoundAssumption DEF SemInv
        <4>2. opSem'[d] + (1 - clientSem'[d]) <= MaxSem
          BY <3>1, <4>1, <2>2, <2>3
        <4>3. QED
          BY <3>1, <4>2, <1>1, <1>2, <2>1, <2>2, <2>3
      <3>2. CASE d # c
        <4>1. /\ opSem[d] + (1 - clientSem[d]) <= MaxSem
              /\ \A x, y \in App : Inside(d, x) /\ Inside(d, y) => x = y
              /\ clientSem[d] = 0 <=> \E x \in App : Inside(d, x)
          BY DEF SemInv
        <4>2. \A x \in App : Inside(d, x)' <=> Inside(d, x)
          BY <1>2, <1>3, <3>2
        <4>3. QED
          BY <2>3, <3>2, <4>1, <4>2
      <3>3. QED
        BY <3>1, <3>2
    <2>5. QED
      BY <2>3, <2>4 DEF SemInv
  <1>6. CASE /\ InLibrary(a)' <=> InLibrary(a)
             /\ UNCHANGED clientSem
             /\ \/ UNCHANGED opSem
                \/ /\ opSem[c] + (1 - clientSem[c]) < MaxSem
                   /\ opSem' = [opSem EXCEPT ![c] = @ + 1]
    <2>1. \A d \in Client, x \in App : Inside(d, x)' <=> Inside(d, x)
      BY <1>2, <1>6 DEF Inside
    <2>2. /\ opSem' \in [Client -> Nat]
          /\ \A d \in Client : opSem'[d] + (1 - clientSem[d]) <= MaxSem
      <3>1. opSem[c] \in Nat /\ clientSem[c] \in {0, 1} /\ MaxSem \in Nat
        BY <1>1, BoundAssumption DEF SemInv
      <3>2. QED
        BY <1>1, <1>6, <3>1 DEF SemInv
    <2>3. QED
      BY <1>6, <2>1, <2>2 DEF SemInv
  <1>7. QED
    BY <1>4, <1>5, <1>6 DEF Moves

(***************************************************************************)
(* The types of the other variables.  A path of the cache has no entry, or *)
(* one that names a local copy.                                            *)
(***************************************************************************)
RealEntry == {NoEntry} \cup [ino : Copy, dirty : BOOLEAN]

StoreType == dir \in [Path -> Ino \cup {NoIno}] /\ data \in [Ino -> File]
CacheType == cache \in [Client -> [Path -> RealEntry]]
LocalType == local \in [Client -> [Copy -> File]]
FileType  == file \in [Client -> [Fd -> Copy \cup {NoIno}]]

StateType == AppType /\ StoreType /\ CacheType /\ LocalType /\ FileType

LEMMA CleanType ==
    /\ NoEntry \in RealEntry
    /\ \A i \in Copy : Clean(i) \in RealEntry /\ Clean(i) # NoEntry
    /\ Clean(NoIno) = NoEntry
    /\ \A e \in RealEntry :
        /\ e \in Entry
        /\ e.dirty => e # NoEntry
        /\ e # NoEntry => e.ino \in Copy /\ e \in [ino : Copy, dirty : BOOLEAN]
        /\ e.ino \in Copy \cup {NoIno}
  <1>1. NoIno \notin Copy
    BY NilAssumption DEF Copy
  <1>2. \A i \in Copy : Clean(i) \in RealEntry /\ Clean(i) # NoEntry
    BY <1>1 DEF NoEntry, RealEntry, Clean
  <1>3. ASSUME NEW e \in RealEntry
        PROVE  /\ e \in Entry
               /\ e.dirty => e # NoEntry
               /\ e # NoEntry => e.ino \in Copy /\ e \in [ino : Copy, dirty : BOOLEAN]
               /\ e.ino \in Copy \cup {NoIno}
    <2>1. CASE e = NoEntry
      BY <2>1 DEF NoEntry, Entry
    <2>2. CASE e \in [ino : Copy, dirty : BOOLEAN]
      BY <1>1, <2>2 DEF NoEntry, Entry
    <2>3. QED
      BY <2>1, <2>2 DEF RealEntry
  <1>4. NoEntry \in RealEntry /\ Clean(NoIno) = NoEntry
    BY DEF NoEntry, RealEntry, Clean
  <1>5. QED
    BY <1>2, <1>3, <1>4

LEMMA CacheSet ==
    ASSUME CacheType, NEW c \in Client, NEW p \in Path, NEW e \in RealEntry
    PROVE  [cache EXCEPT ![c][p] = e] \in [Client -> [Path -> RealEntry]]
  BY DEF CacheType

LEMMA CacheSetAll ==
    ASSUME CacheType, NEW c \in Client, NEW es \in [Path -> RealEntry]
    PROVE  [cache EXCEPT ![c] = es] \in [Client -> [Path -> RealEntry]]
  BY DEF CacheType

LEMMA FileSet ==
    ASSUME FileType, NEW c \in Client, NEW f \in Fd, NEW i \in Copy \cup {NoIno}
    PROVE  [file EXCEPT ![c][f] = i] \in [Client -> [Fd -> Copy \cup {NoIno}]]
  BY DEF FileType

LEMMA LocalSet ==
    ASSUME LocalType, NEW c \in Client, NEW i, NEW s, i \in Copy => s \in File
    PROVE  [local EXCEPT ![c][i] = s] \in [Client -> [Copy -> File]]
  <1> DEFINE row == [local[c] EXCEPT ![i] = s]
  <1>1. local[c] \in [Copy -> File]
    BY DEF LocalType
  <1>2. row \in [Copy -> File]
    BY <1>1
  <1>3. [local EXCEPT ![c][i] = s] = [local EXCEPT ![c] = row]
    OBVIOUS
  <1> HIDE DEF row
  <1>4. QED
    BY <1>2, <1>3 DEF LocalType

LEMMA StorePut ==
    ASSUME StoreType, NEW p \in Path, NEW i \in Ino, NEW s \in File,
           dir' = [dir EXCEPT ![p] = i], data' = [data EXCEPT ![i] = s]
    PROVE  StoreType'
  BY DEF StoreType

(***************************************************************************)
(* A step of application a, by what it does with the semaphores.           *)
(***************************************************************************)
InSide == {"opening", "creating", "closing", "renaming"}

LEMMA Enters ==
    ASSUME AppType, NEW a \in App, NEW k, Turns(a, k), SemWait(Home[a]),
           app[a].at \notin InSide, k.at \in InSide
    PROVE  AppType' /\ Moves(a)
  BY TurnsTo DEF Moves, InLibrary, InSide

LEMMA Leaves ==
    ASSUME AppType, NEW a \in App, NEW k, Turns(a, k), SemPost(Home[a]),
           app[a].at \in InSide, k.at \notin InSide
    PROVE  AppType' /\ Moves(a)
  BY TurnsTo DEF Moves, InLibrary, InSide

LEMMA Stays ==
    ASSUME AppType, NEW a \in App, NEW k, Turns(a, k), UNCHANGED sems,
           app[a].at \in InSide <=> k.at \in InSide
    PROVE  AppType' /\ Moves(a)
  BY TurnsTo DEF Moves, InLibrary, InSide, sems

LEMMA StaysOut ==
    ASSUME AppType, NEW a \in App, UNCHANGED <<sems, app>>
    PROVE  AppType' /\ Moves(a)
  BY DEF Moves, InLibrary, sems, AppType

(***************************************************************************)
(* wiscAFS_open.                                                           *)
(***************************************************************************)
LEMMA OpenFileStep ==
    ASSUME StateType, NEW a \in App, NEW p \in Path, OpenFile(a, p)
    PROVE  StateType' /\ Moves(a)
  <1> DEFINE k == [at |-> "opening", path |-> p, ino |-> dir[p],
                   src |-> data[dir[p]], fd |-> NoFd, n |-> 0]
  <1>1. k \in OpeningApp
    <2>1. dir[p] \in Ino /\ data[dir[p]] \in File
      BY DEF OpenFile, StateType, StoreType
    <2>2. QED
      BY <2>1 DEF OpeningApp
  <1>2. Turns(a, k)
    BY <1>1 DEF OpenFile, Turns, Calls
  <1>3. AppType' /\ Moves(a)
    BY <1>2, Enters DEF StateType, OpenFile, InSide
  <1>4. QED
    BY <1>3 DEF StateType, StoreType, CacheType, LocalType, FileType, OpenFile, server

LEMMA OpenLocalCopyStep ==
    ASSUME StateType, NEW a \in App, OpenLocalCopy(a)
    PROVE  StateType' /\ Moves(a)
  <1> DEFINE c == Home[a]
  <1>1. /\ c \in Client /\ app[a] \in OpeningApp
        /\ app[a].path \in Path /\ app[a].ino \in Ino
    BY HomeAssumption, AppKinds, AppFields DEF OpenLocalCopy, StateType
  <1>2. PICK f \in Fd : /\ file' = [file EXCEPT ![c][f] = app[a].ino]
                        /\ app' = [app EXCEPT ![a].fd = f]
    BY DEF OpenLocalCopy
  <1> DEFINE k == [app[a] EXCEPT !.fd = f]
  <1>3. k \in OpeningApp /\ k.at = "opening"
    BY <1>1 DEF OpeningApp
  <1>4. Turns(a, k)
    BY <1>2, <1>3 DEF Turns, Calls
  <1>5. AppType' /\ Moves(a)
    BY <1>3, <1>4, Stays DEF StateType, OpenLocalCopy, InSide
  <1>6. FileType'
    BY <1>1, <1>2, FileSet DEF StateType, FileType, Copy
  <1>7. CacheType'
    <2>1. Clean(app[a].ino) \in RealEntry
      BY <1>1, CleanType DEF Copy
    <2>2. QED
      BY <1>1, <2>1, CacheSet DEF StateType, CacheType, OpenLocalCopy
  <1>8. LocalType'
    <2>1. <<>> \in File
      BY DEF File
    <2>2. local' = [local EXCEPT ![c][app[a].ino] = <<>>]
      BY DEF OpenLocalCopy
    <2>3. QED
      BY <1>1, <2>1, <2>2, LocalSet DEF StateType, LocalType
  <1>9. QED
    BY <1>5, <1>6, <1>7, <1>8 DEF StateType, StoreType, OpenLocalCopy, server

LEMMA StoreMessageStep ==
    ASSUME StateType, NEW a \in App, StoreMessage(a)
    PROVE  StateType' /\ Moves(a)
  <1> DEFINE c == Home[a]
             i == Local(a)
             s == WriteAt(local[c][i], app[a].n + 1, app[a].src[app[a].n + 1])
             k == [app[a] EXCEPT !.n = @ + 1]
  <1>1. /\ c \in Client /\ app[a] \in OpeningApp
        /\ app[a].n \in Nat /\ app[a].src \in File /\ app[a].n < Len(app[a].src)
    BY HomeAssumption, AppKinds, AppFields DEF StoreMessage, StateType
  <1>2. k \in OpeningApp /\ k.at = "opening"
    BY <1>1 DEF OpeningApp
  <1>3. Turns(a, k)
    BY <1>2 DEF Turns, Calls, StoreMessage
  <1>4. AppType' /\ Moves(a)
    BY <1>2, <1>3, Stays DEF StateType, StoreMessage, InSide
  <1>5. i \in Copy => s \in File
    <2>1. app[a].n + 1 \in Nat \ {0} /\ app[a].src[app[a].n + 1] \in Chunk \cup {Hole}
      BY <1>1 DEF File
    <2>2. i \in Copy => local[c][i] \in File
      BY <1>1 DEF StateType, LocalType
    <2>3. QED
      BY <2>1, <2>2, WriteAtType
  <1>6. local' = [local EXCEPT ![c][i] = s]
    BY DEF StoreMessage
  <1> HIDE DEF i, s
  <1>7. LocalType'
    BY <1>1, <1>5, <1>6, LocalSet DEF StateType, LocalType
  <1>8. QED
    BY <1>4, <1>7 DEF StateType, StoreType, CacheType, FileType, StoreMessage, server

LEMMA OpenEndsStep ==
    ASSUME StateType, NEW a \in App, EndOpen(a) \/ OpenNoCopy(a) \/ StoreFails(a)
    PROVE  StateType' /\ Moves(a)
  <1>1. /\ app[a].at = "opening" /\ SemPost(Home[a])
        /\ UNCHANGED <<server, cache, local, file>>
        /\ \/ app' = [app EXCEPT ![a] = Idle]
           \/ app' = [app EXCEPT ![a] = [at |-> "open", path |-> app[a].path,
                                        fd |-> app[a].fd, wrote |-> FALSE]]
    BY DEF EndOpen, OpenNoCopy, StoreFails
  <1>2. app[a].path \in Path /\ app[a].fd \in Fd \cup {NoFd}
    BY <1>1, AppFields DEF StateType
  <1> DEFINE k == [at |-> "open", path |-> app[a].path, fd |-> app[a].fd,
                   wrote |-> FALSE]
  <1>3. (Turns(a, Idle) /\ Idle.at \notin InSide) \/ (Turns(a, k) /\ k.at \notin InSide)
    <2>1. k \in OpenApp
      BY <1>2 DEF OpenApp
    <2>2. QED
      BY <1>1, <2>1 DEF Turns, Calls, Idle, InSide
  <1>4. AppType' /\ Moves(a)
    BY <1>1, <1>3, Leaves DEF StateType, InSide
  <1>5. QED
    BY <1>1, <1>4 DEF StateType, StoreType, CacheType, LocalType, FileType, server

LEMMA OpenVanishedStep ==
    ASSUME StateType, NEW a \in App, NEW p \in Path, OpenVanished(a, p)
    PROVE  StateType' /\ Moves(a)
  <1>1. PICK f \in {NoFd} \cup Fd :
          app' = [app EXCEPT ![a] = [at |-> "open", path |-> p, fd |-> f,
                                     wrote |-> FALSE]]
    BY DEF OpenVanished
  <1> DEFINE k == [at |-> "open", path |-> p, fd |-> f, wrote |-> FALSE]
  <1>2. Turns(a, k) /\ k.at \notin InSide
    BY <1>1 DEF Turns, Calls, OpenApp, InSide
  <1>3. AppType' /\ Moves(a)
    BY <1>2, Stays DEF StateType, OpenVanished, InSide
  <1>4. QED
    BY <1>3 DEF StateType, StoreType, CacheType, LocalType, FileType, OpenVanished, server

(***************************************************************************)
(* wiscAFS_create.                                                         *)
(***************************************************************************)
LEMMA BeginCreate ==
    ASSUME StateType, NEW a \in App, NEW p \in Path, NEW i \in Copy, NEW s \in File,
           app[a].at = "idle", SemWait(Home[a]), Creating(a, p, i, s),
           StoreType', UNCHANGED <<cache, local, file>>
    PROVE  StateType' /\ Moves(a)
  <1> DEFINE k == [at |-> "creating", path |-> p, ino |-> i, src |-> s]
  <1>1. k \in CreatingApp
    BY DEF CreatingApp
  <1>2. Turns(a, k)
    BY <1>1 DEF Turns, Calls, Creating
  <1>3. AppType' /\ Moves(a)
    BY <1>2, Enters DEF StateType, InSide
  <1>4. QED
    BY <1>3 DEF StateType, CacheType, LocalType, FileType

LEMMA EmptyFile == <<>> \in File
  BY DEF File

LEMMA CreateFileStep ==
    ASSUME StateType, NEW a \in App, NEW p \in Path, CreateFile(a, p)
    PROVE  StateType' /\ Moves(a)
  <1>1. PICK i \in Ino : /\ dir' = [dir EXCEPT ![p] = i]
                         /\ data' = [data EXCEPT ![i] = <<>>]
                         /\ Creating(a, p, i, <<>>)
    BY DEF CreateFile
  <1>2. StoreType'
    BY <1>1, EmptyFile, StorePut DEF StateType
  <1>3. i \in Copy
    BY DEF Copy
  <1>4. QED
    BY <1>1, <1>2, <1>3, EmptyFile, BeginCreate DEF CreateFile

LEMMA CreateOverExistingStep ==
    ASSUME StateType, NEW a \in App, NEW p \in Path, NEW truncating \in BOOLEAN,
           CreateOverExisting(a, p, truncating)
    PROVE  StateType' /\ Moves(a)
  <1>1. dir[p] \in Ino /\ dir[p] \in Copy
    BY DEF CreateOverExisting, StateType, StoreType, Copy
  <1>2. CASE truncating
    <2>1. dir' = dir /\ data' = [data EXCEPT ![dir[p]] = <<>>]
          /\ Creating(a, p, dir[p], <<>>)
      BY <1>2 DEF CreateOverExisting
    <2>2. StoreType'
      BY <1>1, <2>1, EmptyFile DEF StateType, StoreType
    <2>3. QED
      BY <1>1, <2>1, <2>2, EmptyFile, BeginCreate DEF CreateOverExisting
  <1>3. CASE ~truncating
    <2>1. dir' = dir /\ data' = data
          /\ \E s \in CStrings(data[dir[p]]) : Creating(a, p, dir[p], s)
      BY <1>3 DEF CreateOverExisting
    <2>2. data[dir[p]] \in File
      BY <1>1 DEF StateType, StoreType
    <2>3. PICK s \in File : Creating(a, p, dir[p], s)
      BY <2>1, <2>2, CStringsType
    <2>4. StoreType'
      BY <2>1 DEF StateType, StoreType
    <2>5. QED
      BY <1>1, <2>3, <2>4, BeginCreate DEF CreateOverExisting
  <1>4. QED
    BY <1>2, <1>3

LEMMA CreateRefusedStep ==
    ASSUME StateType, NEW a \in App, NEW p \in Path, CreateRefused(a, p)
    PROVE  StateType' /\ Moves(a)
  <1>1. Zero \in Copy
    BY DEF Copy
  <1>2. StoreType'
    BY DEF StateType, StoreType, CreateRefused, server
  <1>3. QED
    BY <1>1, <1>2, EmptyFile, BeginCreate DEF CreateRefused

LEMMA CreateLostStep ==
    ASSUME StateType, NEW a \in App, NEW p \in Path, CreateLost(a, p)
    PROVE  StateType' /\ Moves(a)
  <1>1. PICK i \in Ino : /\ dir' = [dir EXCEPT ![p] = i]
                         /\ data' = [data EXCEPT ![i] = <<>>]
    BY DEF CreateLost
  <1>2. StoreType'
    BY <1>1, EmptyFile, StorePut DEF StateType
  <1>3. AppType' /\ Moves(a)
    BY StaysOut DEF StateType, CreateLost
  <1>4. QED
    BY <1>2, <1>3 DEF StateType, CacheType, LocalType, FileType, CreateLost

LEMMA EndCreateStep ==
    ASSUME StateType, NEW a \in App, EndCreate(a)
    PROVE  StateType' /\ Moves(a)
  <1> DEFINE c == Home[a]
             p == app[a].path
             i == app[a].ino
  <1>1. c \in Client /\ p \in Path /\ i \in Copy /\ app[a].src \in File
    BY HomeAssumption, AppFields DEF EndCreate, StateType
  <1>2. PICK f \in Fd :
          /\ file' = [file EXCEPT ![c][f] = i]
          /\ app' = [app EXCEPT ![a] = [at |-> "open", path |-> p, fd |-> f,
                                        wrote |-> FALSE]]
    BY DEF EndCreate
  <1> DEFINE k == [at |-> "open", path |-> p, fd |-> f, wrote |-> FALSE]
  <1>3. k \in OpenApp
    BY <1>1 DEF OpenApp
  <1>4. Turns(a, k) /\ k.at \notin InSide
    BY <1>2, <1>3 DEF Turns, Calls, InSide
  <1>5. AppType' /\ Moves(a)
    BY <1>4, Leaves DEF StateType, EndCreate, InSide
  <1>6. FileType'
    BY <1>1, <1>2, FileSet DEF StateType, FileType
  <1>7. LocalType'
    BY <1>1, LocalSet DEF StateType, LocalType, EndCreate
  <1>8. CacheType'
    <2>1. Clean(i) \in RealEntry /\ cache[c] \in [Path -> RealEntry]
      BY <1>1, CleanType DEF StateType, CacheType
    <2>2. Added(cache[c], p, Clean(i)) \in [Path -> RealEntry]
      BY <2>1 DEF Added
    <2>3. QED
      BY <1>1, <2>2, CacheSetAll DEF EndCreate, StateType, CacheType
  <1>9. QED
    BY <1>5, <1>6, <1>7, <1>8 DEF StateType, StoreType, EndCreate, server

LEMMA CreateNoCopyStep ==
    ASSUME StateType, NEW a \in App, CreateNoCopy(a)
    PROVE  StateType' /\ Moves(a)
  <1>1. Turns(a, Idle) /\ Idle.at \notin InSide
    BY DEF CreateNoCopy, Turns, Calls, Idle, InSide
  <1>2. AppType' /\ Moves(a)
    BY <1>1, Leaves DEF StateType, CreateNoCopy, InSide
  <1>3. QED
    BY <1>2 DEF StateType, StoreType, CacheType, LocalType, FileType, CreateNoCopy, server

(***************************************************************************)
(* wiscAFS_write and wiscAFS_read.                                         *)
(***************************************************************************)

\* A call of an application that has its file open, and then still has it.
LEMMA WritingStep ==
    ASSUME StateType, NEW a \in App, NEW to \in {"open", "written"}, NEW w \in BOOLEAN,
           app[a].at \in {"open", "written"}, UNCHANGED sems,
           app' = [app EXCEPT ![a] = [at |-> to, path |-> app[a].path,
                                      fd |-> app[a].fd, wrote |-> w]]
    PROVE  AppType' /\ Moves(a)
  <1> DEFINE k == [at |-> to, path |-> app[a].path, fd |-> app[a].fd, wrote |-> w]
  <1>1. app[a] \in OpenApp
    BY AppKinds DEF StateType
  <1>2. k \in OpenApp
    BY <1>1 DEF OpenApp
  <1>3. Turns(a, k)
    BY <1>2 DEF Turns, Calls
  <1>4. QED
    BY <1>3, Stays DEF StateType, InSide

LEMMA OpenAppAt ==
    ASSUME NEW r \in OpenApp
    PROVE  \A to : [r EXCEPT !.at = to]
                     = [at |-> to, path |-> r.path, fd |-> r.fd, wrote |-> r.wrote]
  BY DEF OpenApp

LEMMA OpenAppWrote ==
    ASSUME NEW r \in OpenApp
    PROVE  [r EXCEPT !.at = "written", !.wrote = TRUE]
             = [at |-> "written", path |-> r.path, fd |-> r.fd, wrote |-> TRUE]
  <1> DEFINE q == [r EXCEPT !.at = "written"]
  <1>1. q = [at |-> "written", path |-> r.path, fd |-> r.fd, wrote |-> r.wrote]
    BY OpenAppAt
  <1>2. [q EXCEPT !.wrote = TRUE]
          = [at |-> "written", path |-> r.path, fd |-> r.fd, wrote |-> TRUE]
    <2>1. q \in OpenApp
      BY <1>1 DEF OpenApp
    <2>2. q.path = r.path /\ q.fd = r.fd /\ q.at = "written"
      BY <1>1
    <2> HIDE DEF q
    <2>3. \A w : [q EXCEPT !.wrote = w]
                  = [at |-> q.at, path |-> q.path, fd |-> q.fd, wrote |-> w]
      BY <2>1 DEF OpenApp
    <2>4. QED
      BY <2>2, <2>3
  <1>3. QED
    BY <1>2

LEMMA PWriteStep ==
    ASSUME StateType, NEW a \in App, NEW n \in 1 .. MaxLen, NEW ch \in Chunk,
           PWrite(a, n, ch)
    PROVE  StateType' /\ Moves(a)
  <1> DEFINE c == Home[a]
             i == Local(a)
             s == WriteAt(local[c][i], n, ch)
  <1>1. c \in Client /\ app[a] \in OpenApp /\ app[a].wrote \in BOOLEAN
    BY HomeAssumption, AppKinds, AppFields DEF PWrite, StateType, HasFile
  <1>2. \E w \in BOOLEAN :
          app' = [app EXCEPT ![a] = [at |-> "written", path |-> app[a].path,
                                     fd |-> app[a].fd, wrote |-> w]]
    <2>1. CASE i = NoIno
      <3>1. app' = [app EXCEPT ![a] = [app[a] EXCEPT !.at = "written"]]
        BY <2>1 DEF PWrite
      <3>2. QED
        BY <1>1, <3>1, OpenAppAt
    <2>2. CASE i # NoIno
      <3>1. app' = [app EXCEPT ![a] = [app[a] EXCEPT !.at = "written", !.wrote = TRUE]]
        BY <2>2 DEF PWrite
      <3>2. QED
        BY <1>1, <3>1, OpenAppWrote
    <2>3. QED
      BY <2>1, <2>2
  <1>3. AppType' /\ Moves(a)
    BY <1>2, WritingStep DEF PWrite
  <1>4. local' = local \/ local' = [local EXCEPT ![c][i] = s]
    BY DEF PWrite
  <1>5. i \in Copy => s \in File
    <2>1. n \in Nat \ {0}
      BY BoundAssumption
    <2>2. i \in Copy => local[c][i] \in File
      BY <1>1 DEF StateType, LocalType
    <2>3. QED
      BY <2>1, <2>2, WriteAtType
  <1> HIDE DEF i, s
  <1>6. LocalType'
    <2>1. CASE local' = local
      BY <2>1 DEF StateType, LocalType
    <2>2. CASE local' = [local EXCEPT ![c][i] = s]
      BY <1>1, <1>5, <2>2, LocalSet DEF StateType, LocalType
    <2>3. QED
      BY <1>4, <2>1, <2>2
  <1>7. QED
    BY <1>3, <1>6 DEF StateType, StoreType, CacheType, FileType, PWrite, server

LEMMA PWriteFailsStep ==
    ASSUME StateType, NEW a \in App, PWriteFails(a)
    PROVE  StateType' /\ Moves(a)
  <1>1. app[a] \in OpenApp
    BY AppKinds DEF PWriteFails, StateType
  <1>2. app' = [app EXCEPT ![a] = [app[a] EXCEPT !.at = "written", !.wrote = TRUE]]
    BY DEF PWriteFails
  <1>3. app' = [app EXCEPT ![a] = [at |-> "written", path |-> app[a].path,
                                   fd |-> app[a].fd, wrote |-> TRUE]]
    BY <1>1, <1>2, OpenAppWrote
  <1>4. AppType' /\ Moves(a)
    BY <1>3, WritingStep DEF PWriteFails
  <1>5. QED
    BY <1>4 DEF StateType, StoreType, CacheType, LocalType, FileType, PWriteFails, server

LEMMA WriteFileStep ==
    ASSUME StateType, NEW a \in App, WriteFile(a)
    PROVE  StateType' /\ Moves(a)
  <1> DEFINE c == Home[a]
             p == app[a].path
             e == cache[c][p]
  <1>1. /\ c \in Client /\ app[a] \in OpenApp /\ app[a].wrote \in BOOLEAN
        /\ p \in Path /\ e \in RealEntry
    BY HomeAssumption, AppKinds, AppFields DEF WriteFile, StateType, HasFile, CacheType
  <1>2. app' = [app EXCEPT ![a] = [app[a] EXCEPT !.at = "open"]]
    BY DEF WriteFile
  <1>3. app' = [app EXCEPT ![a] = [at |-> "open", path |-> app[a].path,
                                   fd |-> app[a].fd, wrote |-> app[a].wrote]]
    BY <1>1, <1>2, OpenAppAt
  <1>4. AppType' /\ Moves(a)
    BY <1>1, <1>3, WritingStep DEF WriteFile
  <1>5. CacheType'
    <2>1. CASE e = NoEntry
      BY <2>1 DEF WriteFile, StateType, CacheType
    <2>2. CASE e # NoEntry
      <3>1. [e EXCEPT !.dirty = TRUE] \in RealEntry
        <4>1. e \in [ino : Copy, dirty : BOOLEAN]
          BY <1>1, <2>2, CleanType
        <4>2. [e EXCEPT !.dirty = TRUE] \in [ino : Copy, dirty : BOOLEAN]
          BY <4>1
        <4>3. QED
          BY <4>2 DEF RealEntry
      <3>2. cache' = [cache EXCEPT ![c][p] = [e EXCEPT !.dirty = TRUE]]
        BY <2>2 DEF WriteFile
      <3> HIDE DEF e
      <3>3. QED
        BY <1>1, <3>1, <3>2, CacheSet DEF StateType, CacheType
    <2>3. QED
      BY <2>1, <2>2
  <1>6. QED
    BY <1>4, <1>5 DEF StateType, StoreType, LocalType, FileType, WriteFile, server

LEMMA ReadBadFdStep ==
    ASSUME StateType, NEW a \in App, ReadBadFd(a)
    PROVE  StateType' /\ Moves(a)
  <1>1. AppType' /\ Moves(a)
    BY DEF StateType, ReadBadFd, AppType, Moves, InLibrary
  <1>2. QED
    BY <1>1 DEF StateType, StoreType, CacheType, LocalType, FileType, ReadBadFd, server

(***************************************************************************)
(* wiscAFS_flush and wiscAFS_release.                                      *)
(***************************************************************************)
LEMMA LastType == ASSUME NEW last \in MayBeLast PROVE last \in BOOLEAN
  BY DEF MayBeLast

\* What Return makes of the call and of the descriptors.
LEMMA ReturnStep ==
    ASSUME StateType, NEW a \in App, HasFile(a), NEW last \in BOOLEAN, Return(a, last)
    PROVE  /\ FileType'
           /\ \E k : Turns(a, k) /\ k.at \notin InSide
  <1> DEFINE k == [at |-> "open", path |-> app[a].path, fd |-> app[a].fd,
                   wrote |-> FALSE]
  <1>1. /\ Home[a] \in Client /\ app[a].path \in Path
        /\ app[a].fd \in Fd \cup {NoFd}
    BY HomeAssumption, AppFields DEF StateType
  <1>2. k \in OpenApp /\ k.at \notin InSide
    BY <1>1 DEF OpenApp, InSide
  <1>3. Idle \in Calls /\ Idle.at \notin InSide
    BY DEF Calls, Idle, InSide
  <1>4. CASE last
    <2>1. Turns(a, Idle)
      BY <1>3, <1>4 DEF Return, Turns
    <2>2. \/ file' = file
          \/ app[a].fd \in Fd /\ file' = [file EXCEPT ![Home[a]][app[a].fd] = NoIno]
      <3>1. file' = IF app[a].fd = NoFd THEN file
                    ELSE [file EXCEPT ![Home[a]][app[a].fd] = NoIno]
        BY <1>4 DEF Return
      <3>2. QED
        BY <1>1, <3>1
    <2>3. FileType'
      <3>1. CASE file' = file
        BY <3>1 DEF StateType, FileType
      <3>2. CASE app[a].fd \in Fd /\ file' = [file EXCEPT ![Home[a]][app[a].fd] = NoIno]
        BY <1>1, <3>2, FileSet DEF StateType, FileType
      <3>3. QED
        BY <2>2, <3>1, <3>2
    <2>4. QED
      BY <1>3, <2>1, <2>3
  <1>5. CASE ~last
    <2>1. app' = [app EXCEPT ![a] = k] /\ file' = file
      BY <1>5 DEF Return
    <2>2. Turns(a, k)
      BY <1>2, <2>1 DEF Turns, Calls
    <2>3. FileType'
      BY <2>1 DEF StateType, FileType
    <2>4. QED
      BY <1>2, <2>2, <2>3
  <1>6. QED
    BY <1>4, <1>5

LEMMA CloseUnsentStep ==
    ASSUME StateType, NEW a \in App, NEW last \in BOOLEAN,
           CloseUnsent(a, last) \/ CloseNoCopy(a, last)
    PROVE  StateType' /\ Moves(a)
  <1>1. /\ app[a].at = "open" /\ HasFile(a) /\ Return(a, last)
        /\ UNCHANGED <<server, cache, local, sems>>
    BY DEF CloseUnsent, CloseNoCopy, HasFile
  <1>2. FileType' /\ \E k : Turns(a, k) /\ k.at \notin InSide
    BY <1>1, ReturnStep
  <1>3. AppType' /\ Moves(a)
    BY <1>1, <1>2, Stays DEF StateType, InSide
  <1>4. QED
    BY <1>1, <1>2, <1>3 DEF StateType, StoreType, CacheType, LocalType, server

LEMMA CloseFileStep ==
    ASSUME StateType, NEW a \in App, NEW last \in BOOLEAN, CloseFile(a, last)
    PROVE  StateType' /\ Moves(a)
  <1> DEFINE e == cache[Home[a]][app[a].path]
             k == [at |-> "closing", path |-> app[a].path, fd |-> app[a].fd,
                   wrote |-> app[a].wrote, last |-> last, ino |-> e.ino,
                   sent |-> <<>>]
  <1>1. /\ Home[a] \in Client /\ app[a].path \in Path
        /\ app[a].fd \in Fd \cup {NoFd} /\ app[a].wrote \in BOOLEAN
    BY HomeAssumption, AppFields DEF StateType, CloseFile, HasFile
  <1>2. e \in RealEntry
    BY <1>1 DEF StateType, CacheType
  <1>3. e.dirty
    BY DEF CloseFile, NothingToSend
  <1>4. e.ino \in Copy
    BY <1>2, <1>3, CleanType
  <1>5. k \in ClosingApp
    BY <1>1, <1>4, EmptyFile DEF ClosingApp
  <1>6. Turns(a, k) /\ k.at \in InSide
    BY <1>5 DEF CloseFile, Turns, Calls, InSide
  <1>7. AppType' /\ Moves(a)
    BY <1>6, Enters DEF StateType, CloseFile, InSide
  <1>8. QED
    BY <1>7 DEF StateType, StoreType, CacheType, LocalType, FileType, CloseFile, server

LEMMA SendMessageStep ==
    ASSUME StateType, NEW a \in App, SendMessage(a)
    PROVE  StateType' /\ Moves(a)
  <1> DEFINE copy == local[Home[a]][app[a].ino]
             r == app[a]
             sent == Append(r.sent, copy[Len(r.sent) + 1])
             k == [at |-> "closing", path |-> r.path, fd |-> r.fd,
                   wrote |-> r.wrote, last |-> r.last, ino |-> r.ino, sent |-> sent]
  <1>1. /\ r \in ClosingApp /\ Home[a] \in Client
        /\ r.ino \in Copy /\ r.sent \in File
    BY HomeAssumption, AppKinds, AppFields DEF SendMessage, StateType
  <1>2. sent \in File
    <2>1. copy \in File /\ Len(r.sent) < Len(copy)
      BY <1>1 DEF StateType, LocalType, SendMessage
    <2>2. copy[Len(r.sent) + 1] \in Chunk \cup {Hole}
      BY <1>1, <2>1 DEF File
    <2>3. QED
      BY <1>1, <2>2 DEF File
  <1>3. \A s : [r EXCEPT !.sent = s]
                = [at |-> "closing", path |-> r.path, fd |-> r.fd,
                   wrote |-> r.wrote, last |-> r.last, ino |-> r.ino, sent |-> s]
    <2> HIDE DEF r
    <2>1. QED
      BY <1>1 DEF ClosingApp
  <1>4. app' = [app EXCEPT ![a] = [r EXCEPT !.sent = sent]]
    BY DEF SendMessage
  <1>5. k \in ClosingApp
    BY <1>1, <1>2 DEF ClosingApp
  <1>6. Turns(a, k) /\ k.at \in InSide
    BY <1>3, <1>4, <1>5 DEF Turns, Calls, InSide
  <1>7. AppType' /\ Moves(a)
    BY <1>6, Stays DEF StateType, SendMessage, InSide
  <1>8. QED
    BY <1>7 DEF StateType, StoreType, CacheType, LocalType, FileType, SendMessage, server

LEMMA PublishStep ==
    ASSUME StateType, NEW p \in Path, NEW s \in File, Publish(p, s)
    PROVE  StoreType'
  <1>1. CASE UNCHANGED server
    BY <1>1 DEF StateType, StoreType, server
  <1>2. CASE \E i \in Ino : dir' = [dir EXCEPT ![p] = i] /\ data' = [data EXCEPT ![i] = s]
    BY <1>2, StorePut DEF StateType
  <1>3. QED
    BY <1>1, <1>2 DEF Publish

LEMMA CloseEndsStep ==
    ASSUME StateType, NEW a \in App, EndClose(a) \/ SendFails(a) \/ CloseLost(a)
    PROVE  StateType' /\ Moves(a)
  <1>1. /\ app[a].at = "closing" /\ HasFile(a) /\ Return(a, app[a].last)
        /\ SemPost(Home[a]) /\ UNCHANGED <<cache, local>>
        /\ Publish(app[a].path, app[a].sent) \/ UNCHANGED server
    BY DEF EndClose, SendFails, CloseLost, HasFile
  <1>2. app[a].path \in Path /\ app[a].last \in BOOLEAN /\ app[a].sent \in File
    BY <1>1, AppFields DEF StateType
  <1>3. FileType' /\ \E k : Turns(a, k) /\ k.at \notin InSide
    BY <1>1, <1>2, ReturnStep
  <1>4. AppType' /\ Moves(a)
    BY <1>1, <1>3, Leaves DEF StateType, InSide
  <1>5. StoreType'
    <2>1. CASE UNCHANGED server
      BY <2>1 DEF StateType, StoreType, server
    <2>2. QED
      BY <1>1, <1>2, <2>1, PublishStep
  <1>6. QED
    BY <1>1, <1>3, <1>4, <1>5 DEF StateType, CacheType, LocalType

(***************************************************************************)
(* wiscAFS_rename, wiscAFS_unlink, wiscAFS_truncate.                       *)
(***************************************************************************)
LEMMA BeginRenameStep ==
    ASSUME StateType, NEW a \in App, NEW p \in Path, NEW q \in Path,
           RenameFile(a, p, q) \/ RenameDirectory(a, p, q)
    PROVE  StateType' /\ Moves(a)
  <1> DEFINE c == Home[a]
             k == [at |-> "renaming", path |-> p, to |-> q]
  <1>1. /\ app[a].at = "idle" /\ SemWait(c)
        /\ app' = [app EXCEPT ![a] = k]
        /\ UNCHANGED <<server, local, file>>
        /\ cache' = cache \/ cache' = [cache EXCEPT ![c] = Renamed(cache[c], p, q)]
    BY DEF RenameFile, RenameDirectory, MayRename
  <1>2. k \in RenamingApp
    BY DEF RenamingApp
  <1>3. Turns(a, k) /\ k.at \in InSide
    BY <1>1, <1>2 DEF Turns, Calls, InSide
  <1>4. AppType' /\ Moves(a)
    BY <1>1, <1>3, Enters DEF StateType, InSide
  <1>5. CacheType'
    <2>1. c \in Client /\ cache[c] \in [Path -> RealEntry] /\ NoEntry \in RealEntry
      BY HomeAssumption, CleanType DEF StateType, CacheType
    <2>2. Renamed(cache[c], p, q) \in [Path -> RealEntry]
      BY <2>1 DEF Renamed, Added
    <2>3. CASE cache' = cache
      BY <2>3 DEF StateType, CacheType
    <2>4. CASE cache' = [cache EXCEPT ![c] = Renamed(cache[c], p, q)]
      BY <2>1, <2>2, <2>4, CacheSetAll DEF StateType, CacheType
    <2>5. QED
      BY <1>1, <2>3, <2>4
  <1>6. QED
    BY <1>1, <1>4, <1>5 DEF StateType, StoreType, LocalType, FileType, server

\* A rename that has succeeded gives open files another path, and no more.
LEMMA MovedStep ==
    ASSUME StateType, NEW a \in App, app[a].at = "renaming", Moved(a),
           SemPost(Home[a])
    PROVE  AppType' /\ Moves(a)
  <1>1. app[a].to \in Path
    BY AppFields DEF StateType
  <1>2. app'[a] = Idle
    BY DEF Moved
  <1>3. ASSUME NEW b \in App, b # a
        PROVE  app'[b] \in Calls /\ app'[b].at = app[b].at
    <2>1. CASE app'[b] = app[b]
      BY <2>1, AppKinds DEF StateType
    <2>2. CASE HasFile(b) /\ app'[b] = [app[b] EXCEPT !.path = app[a].to]
      <3>1. app[b] \in OpenApp \/ app[b] \in ClosingApp
        BY <2>2, AppKinds DEF StateType, HasFile
      <3>2. CASE app[b] \in OpenApp
        <4>1. app'[b] \in OpenApp /\ app'[b].at = app[b].at
          BY <1>1, <2>2, <3>2 DEF OpenApp
        <4>2. QED
          BY <4>1 DEF Calls
      <3>3. CASE app[b] \in ClosingApp
        <4>1. app'[b] \in ClosingApp /\ app'[b].at = app[b].at
          BY <1>1, <2>2, <3>3 DEF ClosingApp
        <4>2. QED
          BY <4>1 DEF Calls
      <3>4. QED
        BY <3>1, <3>2, <3>3
    <2>3. QED
      BY <1>3, <2>1, <2>2 DEF Moved
  <1>4. Idle \in Calls /\ Idle.at \notin InSide
    BY DEF Calls, Idle, InSide
  <1>5. AppType'
    BY <1>2, <1>3, <1>4 DEF Moved, AppType
  <1>6. QED
    BY <1>2, <1>3, <1>4, <1>5 DEF Moves, InLibrary, InSide

LEMMA RenameEndsStep ==
    ASSUME StateType, NEW a \in App, EndRename(a) \/ RenameLost(a)
    PROVE  StateType' /\ Moves(a)
  <1>1. /\ app[a].at = "renaming" /\ SemPost(Home[a])
        /\ UNCHANGED <<data, cache, local, file>>
        /\ Moved(a) \/ app' = [app EXCEPT ![a] = Idle]
        /\ \/ dir' = dir
           \/ dir' = [dir EXCEPT ![app[a].to] = dir[app[a].path], ![app[a].path] = NoIno]
    BY DEF EndRename, RenameLost, server
  <1>2. app[a].path \in Path /\ app[a].to \in Path
    BY <1>1, AppFields DEF StateType
  <1>3. AppType' /\ Moves(a)
    <2>1. CASE Moved(a)
      BY <1>1, <2>1, MovedStep
    <2>2. CASE app' = [app EXCEPT ![a] = Idle]
      <3>1. Turns(a, Idle) /\ Idle.at \notin InSide
        BY <2>2 DEF Turns, Calls, Idle, InSide
      <3>2. QED
        BY <1>1, <3>1, Leaves DEF StateType, InSide
    <2>3. QED
      BY <1>1, <2>1, <2>2
  <1>4. StoreType'
    BY <1>1, <1>2 DEF StateType, StoreType
  <1>5. QED
    BY <1>1, <1>3, <1>4 DEF StateType, CacheType, LocalType, FileType

LEMMA DeleteStep ==
    ASSUME StateType, NEW a \in App, NEW p \in Path, DeleteFile(a, p) \/ DeleteLost(a, p)
    PROVE  StateType' /\ Moves(a)
  <1>1. /\ UNCHANGED <<data, local, file, sems, app>>
        /\ cache' = [cache EXCEPT ![Home[a]][p] = NoEntry]
        /\ dir' = dir \/ dir' = [dir EXCEPT ![p] = NoIno]
    BY DEF DeleteFile, DeleteLost, server
  <1>2. AppType' /\ Moves(a)
    BY <1>1, StaysOut DEF StateType
  <1>3. CacheType'
    BY <1>1, HomeAssumption, CleanType, CacheSet DEF StateType, CacheType
  <1>4. StoreType'
    BY <1>1 DEF StateType, StoreType
  <1>5. QED
    BY <1>1, <1>2, <1>3, <1>4 DEF StateType, LocalType, FileType

LEMMA TruncateFileStep ==
    ASSUME StateType, NEW c \in Client, NEW p \in Path, NEW n \in 0 .. MaxLen,
           TruncateFile(c, p, n)
    PROVE  StateType' /\ UNCHANGED <<sems, app>>
  <1>1. cache[c][p].ino \in Copy
    BY CleanType DEF TruncateFile, StateType, CacheType
  <1>2. Resized(local[c][cache[c][p].ino], n) \in File
    BY <1>1, BoundAssumption, ResizedType DEF StateType, LocalType
  <1>3. LocalType'
    BY <1>1, <1>2, LocalSet DEF TruncateFile, StateType, LocalType
  <1>4. QED
    BY <1>3 DEF TruncateFile, StateType, AppType, StoreType, CacheType, FileType,
       server, sems

(***************************************************************************)
(* A client crashes.                                                       *)
(***************************************************************************)
LEMMA ReloadedType ==
    ASSUME NEW es \in [Path -> RealEntry]
    PROVE  Reloaded(es) \subseteq [Path -> RealEntry]
  <1>1. \A p \in Path : Clean(es[p].ino) \in RealEntry
    <2>1. \A p \in Path : es[p].ino \in Copy \cup {NoIno}
      BY CleanType
    <2>2. QED
      BY <2>1, CleanType
  <1>2. QED
    BY <1>1, CleanType DEF Reloaded

LEMMA CrashStep ==
    ASSUME StateType, SemInv, NEW c \in Client, Crash(c)
    PROVE  StateType' /\ SemInv'
  <1>1. /\ app' = [a \in App |-> IF Home[a] = c THEN Idle ELSE app[a]]
        /\ opSem' = [opSem EXCEPT ![c] = 1]
        /\ clientSem' = [clientSem EXCEPT ![c] = 1]
        /\ file' = [file EXCEPT ![c] = [f \in Fd |-> NoIno]]
        /\ local' = local
    BY DEF Crash
  <1>2. AppType'
    BY <1>1 DEF StateType, AppType, Calls
  <1>3. FileType' /\ LocalType'
    BY <1>1 DEF StateType, FileType, LocalType
  <1>4. CacheType'
    <2>1. cache[c] \in [Path -> RealEntry]
      BY DEF StateType, CacheType
    <2>2. PICK es \in Reloaded(cache[c]) : cache' = [cache EXCEPT ![c] = es]
      BY DEF Crash
    <2>3. es \in [Path -> RealEntry]
      BY <2>1, <2>2, ReloadedType
    <2>4. QED
      BY <2>2, <2>3, CacheSetAll DEF StateType, CacheType
  <1>5. StoreType'
    <2>1. CASE UNCHANGED server
      BY <2>1 DEF StateType, StoreType, server
    <2>2. CASE \E a \in App : app[a].at = "closing" /\ Publish(app[a].path, app[a].sent)
      <3>1. PICK a \in App : app[a].at = "closing" /\ Publish(app[a].path, app[a].sent)
        BY <2>2
      <3>2. app[a].path \in Path /\ app[a].sent \in File
        BY <3>1, AppFields DEF StateType, HasFile
      <3>3. QED
        BY <3>1, <3>2, PublishStep
    <2>3. QED
      BY <2>1, <2>2 DEF Crash
  <1>6. SemInv'
    <2>1. \A a \in App : ~Inside(c, a)'
      BY <1>1 DEF Inside, InLibrary, Idle
    <2>2. \A d \in Client, a \in App : d # c => (Inside(d, a)' <=> Inside(d, a))
      BY <1>1 DEF Inside, InLibrary
    <2>3. opSem' \in [Client -> Nat] /\ clientSem' \in [Client -> {0, 1}]
      BY <1>1 DEF SemInv
    <2>4. ASSUME NEW d \in Client
          PROVE  /\ opSem'[d] + (1 - clientSem'[d]) <= MaxSem
                 /\ \A a, b \in App : Inside(d, a)' /\ Inside(d, b)' => a = b
                 /\ clientSem'[d] = 0 <=> \E a \in App : Inside(d, a)'
      <3>1. CASE d = c
        <4>1. opSem'[d] = 1 /\ clientSem'[d] = 1
          BY <1>1, <3>1 DEF SemInv
        <4>2. opSem'[d] + (1 - clientSem'[d]) <= MaxSem
          BY <4>1, BoundAssumption
        <4>3. QED
          BY <2>1, <3>1, <4>1, <4>2
      <3>2. CASE d # c
        <4>1. opSem'[d] = opSem[d] /\ clientSem'[d] = clientSem[d]
          BY <1>1, <3>2 DEF SemInv
        <4>2. /\ opSem[d] + (1 - clientSem[d]) <= MaxSem
              /\ \A a, b \in App : Inside(d, a) /\ Inside(d, b) => a = b
              /\ clientSem[d] = 0 <=> \E a \in App : Inside(d, a)
          BY DEF SemInv
        <4>3. \A a \in App : Inside(d, a)' <=> Inside(d, a)
          BY <2>2, <3>2
        <4>4. QED
          BY <4>1, <4>2, <4>3
      <3>3. QED
        BY <3>1, <3>2
    <2>5. QED
      BY <2>3, <2>4 DEF SemInv
  <1>7. QED
    BY <1>2, <1>3, <1>4, <1>5, <1>6 DEF StateType

(***************************************************************************)
(* The theorems that hold whatever may go wrong.                           *)
(***************************************************************************)
StateInv == StateType /\ SemInv

LEMMA StateInvInit == Init => StateInv
  <1> SUFFICES ASSUME Init PROVE StateInv
    OBVIOUS
  <1>1. StateType
    <2>1. AppType
      BY DEF Init, AppType, Calls
    <2>2. StoreType /\ LocalType
      BY EmptyFile DEF Init, StoreType, LocalType
    <2>3. CacheType /\ FileType
      BY CleanType DEF Init, CacheType, FileType
    <2>4. QED
      BY <2>1, <2>2, <2>3 DEF StateType
  <1>2. SemInv
    <2>1. /\ opSem \in [Client -> Nat] /\ clientSem \in [Client -> {0, 1}]
          /\ \A c \in Client : opSem[c] = 1 /\ clientSem[c] = 1
      BY DEF Init
    <2>2. \A c \in Client, a \in App : ~Inside(c, a)
      BY DEF Init, Inside, InLibrary, Idle
    <2>3. \A c \in Client : opSem[c] + (1 - clientSem[c]) <= MaxSem
      BY <2>1, BoundAssumption
    <2>4. QED
      BY <2>1, <2>2, <2>3 DEF SemInv
  <1>3. QED
    BY <1>1, <1>2 DEF StateInv

LEMMA ApplicationStep ==
    ASSUME StateType, NEW a \in App, Proceed(a) \/ Fail(a) \/ Operation(a)
    PROVE  StateType' /\ Moves(a)
  <1>1. CASE Proceed(a)
    BY <1>1, OpenLocalCopyStep, OpenEndsStep, StoreMessageStep, EndCreateStep,
       CreateNoCopyStep, WriteFileStep, SendMessageStep, CloseEndsStep, RenameEndsStep
       DEF Proceed
  <1>2. CASE Fail(a)
    BY <1>2, OpenEndsStep, CloseEndsStep, RenameEndsStep DEF Fail
  <1>3. CASE \E p \in Path :
                \/ OpenFile(a, p)
                \/ OpenVanished(a, p)
                \/ CreateFile(a, p)
                \/ \E truncating \in BOOLEAN : CreateOverExisting(a, p, truncating)
                \/ CreateRefused(a, p)
                \/ CreateLost(a, p)
    BY <1>3, OpenFileStep, OpenVanishedStep, CreateFileStep, CreateOverExistingStep,
       CreateRefusedStep, CreateLostStep
  <1>4. CASE \E p \in Path :
                \/ DeleteFile(a, p)
                \/ DeleteLost(a, p)
                \/ \E q \in Path : RenameFile(a, p, q) \/ RenameDirectory(a, p, q)
    BY <1>4, DeleteStep, BeginRenameStep
  <1>5. CASE \/ PWriteFails(a)
             \/ \E n \in 1 .. MaxLen, ch \in Chunk : PWrite(a, n, ch)
             \/ ReadBadFd(a)
    BY <1>5, PWriteStep, PWriteFailsStep, ReadBadFdStep
  <1>6. CASE \E last \in MayBeLast :
                CloseUnsent(a, last) \/ CloseFile(a, last) \/ CloseNoCopy(a, last)
    BY <1>6, LastType, CloseUnsentStep, CloseFileStep
  <1>7. QED
    BY <1>1, <1>2, <1>3, <1>4, <1>5, <1>6 DEF Operation

LEMMA StateInvStep == StateInv /\ [Next]_vars => StateInv'
  <1> SUFFICES ASSUME StateInv, [Next]_vars PROVE StateInv'
    OBVIOUS
  <1>1. ASSUME NEW a \in App, Proceed(a) \/ Fail(a) \/ Operation(a) PROVE StateInv'
    BY <1>1, ApplicationStep, MovesSemInv DEF StateInv
  <1>2. ASSUME NEW c \in Client, Crash(c) PROVE StateInv'
    BY <1>2, CrashStep DEF StateInv
  <1>3. ASSUME NEW c \in Client, NEW p \in Path, NEW n \in 0 .. MaxLen,
               TruncateFile(c, p, n)
        PROVE  StateInv'
    <2>1. StateType' /\ UNCHANGED <<sems, app>>
      BY <1>3, TruncateFileStep DEF StateInv
    <2>2. QED
      BY <2>1 DEF StateInv, SemInv, Inside, InLibrary, sems
  <1>4. CASE UNCHANGED vars
    BY <1>4 DEF vars, StateInv, StateType, AppType, StoreType, CacheType, LocalType,
       FileType, SemInv, Inside, InLibrary
  <1>5. QED
    BY <1>1, <1>2, <1>3, <1>4 DEF Next

LEMMA StateInvType == StateInv => TypeOK
  <1> SUFFICES ASSUME StateInv PROVE TypeOK
    OBVIOUS
  <1>1. /\ dir \in [Path -> Ino \cup {NoIno}] /\ data \in [Ino -> File]
        /\ local \in [Client -> [Copy -> File]]
        /\ file \in [Client -> [Fd -> Copy \cup {NoIno}]]
        /\ app \in [App -> Calls]
    BY DEF StateInv, StateType, StoreType, LocalType, FileType, AppType
  <1>2. cache \in [Client -> [Path -> Entry]]
    BY CleanType DEF StateInv, StateType, CacheType
  <1>3. opSem \in [Client -> 0 .. MaxSem]
    <2>1. \A c \in Client : opSem[c] \in 0 .. MaxSem
      BY BoundAssumption DEF StateInv, SemInv
    <2>2. QED
      BY <2>1 DEF StateInv, SemInv
  <1>4. QED
    BY <1>1, <1>2, <1>3 DEF TypeOK, Calls, StateInv, SemInv

\* Every reachable state has its type, and an entry of the cache always names
\* a local copy, whatever faults may happen.
THEOREM TypeCorrect == Spec => []TypeOK
  BY StateInvInit, StateInvStep, StateInvType, PTL DEF Spec

\* clientSem admits one operation at a time to the library of a client and is
\* posted on every path out of it, whatever faults may happen: lost streams,
\* local copies that cannot be opened, written or read, crashes, and reads that
\* post wiscOPSem without having waited for it.
THEOREM OneCallAtATime == Spec => []OneLibraryCall
  <1>1. StateInv => OneLibraryCall
    BY SemInvOne DEF StateInv
  <1>2. QED
    BY <1>1, StateInvInit, StateInvStep, PTL DEF Spec
=============================================================================
