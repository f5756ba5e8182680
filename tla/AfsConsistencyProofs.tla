------------------------ MODULE AfsConsistencyProofs ------------------------
(***************************************************************************)
(* AfsClient implements CloseToOpen when files are not shared on a client, *)
(* opens find their file and descriptors are closed once.                  *)
(***************************************************************************)
EXTENDS AfsSessionProofs

Session(p, s, m) == [path |-> p, contents |-> s, modified |-> m]

(***************************************************************************)
(* What an application is in the abstract specification.                   *)
(***************************************************************************)
LEMMA SessionIs ==
    ASSUME NEW a \in App
    PROVE  /\ app[a].at \in {"idle", "renaming"} => SessionOf(a) = NoIno
           /\ app[a].at \in {"opening", "creating"} =>
                SessionOf(a) = Session(app[a].path, app[a].src, FALSE)
           /\ HasFile(a) => SessionOf(a) = Session(app[a].path, Copied(a), app[a].wrote)
  BY DEF SessionOf, HasFile, Session, Copied

LEMMA SessionIsNext ==
    ASSUME NEW a \in App
    PROVE  /\ app'[a].at \in {"idle", "renaming"} => SessionOf(a)' = NoIno
           /\ app'[a].at \in {"opening", "creating"} =>
                SessionOf(a)' = Session(app'[a].path, app'[a].src, FALSE)
           /\ HasFile(a)' =>
                SessionOf(a)' = Session(app'[a].path, Copied(a)', app'[a].wrote)
  BY DEF SessionOf, HasFile, Session, Copied

\* The session of b is as it was.
LEMMA SessionSame ==
    ASSUME AppType, NEW b \in App, CopySame(b)
    PROVE  SessionOf(b)' = SessionOf(b)
  <1>1. app'[b] = app[b] /\ (HasFile(b)' <=> HasFile(b))
    BY DEF CopySame, HasFile
  <1>2. CASE HasFile(b)
    BY <1>1, <1>2, SessionIs, SessionIsNext DEF CopySame
  <1>3. CASE ~HasFile(b)
    <2>1. app[b].at \in {"idle", "renaming", "opening", "creating"}
      BY <1>3, AppKinds DEF HasFile
    <2>2. QED
      BY <1>1, <2>1, SessionIs, SessionIsNext
  <1>4. QED
    BY <1>2, <1>3

\* An open file is not Nil, and has a type.
LEMMA SessionType ==
    ASSUME StateType, PairInv, NEW a \in App, HasFile(a)
    PROVE  /\ app[a].path \in Path /\ Copied(a) \in File /\ app[a].wrote \in BOOLEAN
           /\ SessionOf(a) = Session(app[a].path, Copied(a), app[a].wrote)
           /\ SessionOf(a) # NoIno
  <1>1. Local(a) \in Copy /\ Home[a] \in Client
    BY HomeAssumption, LocalType2 DEF HasFd, PairInv, Right
  <1>2. app[a].path \in Path /\ Copied(a) \in File /\ app[a].wrote \in BOOLEAN
    BY <1>1, AppFields DEF StateType, LocalType, Copied
  <1>3. SessionOf(a) = Session(app[a].path, Copied(a), app[a].wrote)
    BY SessionIs
  <1>4. Session(app[a].path, Copied(a), app[a].wrote)
          \in [path : Path, contents : File, modified : BOOLEAN]
    BY <1>2 DEF Session
  <1>5. QED
    BY <1>2, <1>3, <1>4, NoFileAssumption DEF File

LEMMA OpeningType ==
    ASSUME StateType, NEW a \in App, app[a].at \in {"opening", "creating"}
    PROVE  /\ app[a].path \in Path /\ app[a].src \in File
           /\ SessionOf(a) = Session(app[a].path, app[a].src, FALSE)
           /\ SessionOf(a) # NoIno
  <1>1. app[a].path \in Path /\ app[a].src \in File
    BY AppFields DEF StateType
  <1>2. SessionOf(a) = Session(app[a].path, app[a].src, FALSE)
    BY SessionIs
  <1>3. Session(app[a].path, app[a].src, FALSE)
          \in [path : Path, contents : File, modified : BOOLEAN]
    BY <1>1 DEF Session
  <1>4. QED
    BY <1>1, <1>2, <1>3, NoFileAssumption DEF File

(***************************************************************************)
(* The server's files in the abstract specification.                       *)
(***************************************************************************)
LEMMA StoreIs ==
    ASSUME StateType, NEW p \in Path
    PROVE  /\ dir[p] = NoIno <=> StoreOf[p] = NoIno
           /\ dir[p] # NoIno => dir[p] \in Ino /\ StoreOf[p] = data[dir[p]]
                                /\ StoreOf[p] \in File
  <1>1. dir[p] # NoIno => dir[p] \in Ino /\ data[dir[p]] \in File
    BY DEF StateType, StoreType
  <1>2. NoIno \notin File
    BY NoFileAssumption DEF File
  <1>3. QED
    BY <1>1, <1>2 DEF StoreOf

\* A file with a new inode, or a truncated one, is put at p.
LEMMA StorePuts ==
    ASSUME StateType, NEW p \in Path, NEW i \in Ino, NEW s,
           dir' = [dir EXCEPT ![p] = i], data' = [data EXCEPT ![i] = s],
           \A q \in Path : q # p => dir[q] # i
    PROVE  StoreOf' = [StoreOf EXCEPT ![p] = s]
  <1>1. ASSUME NEW q \in Path
        PROVE  (IF dir'[q] = NoIno THEN NoIno ELSE data'[dir'[q]])
                 = IF q = p THEN s ELSE IF dir[q] = NoIno THEN NoIno ELSE data[dir[q]]
    <2>1. CASE q = p
      BY <2>1, NilAssumption DEF StateType, StoreType
    <2>2. CASE q # p
      <3>1. dir'[q] = dir[q] /\ dir[q] # i
        BY <2>2 DEF StateType, StoreType
      <3>2. dir[q] = NoIno \/ data'[dir[q]] = data[dir[q]]
        BY <3>1 DEF StateType, StoreType
      <3>3. QED
        BY <2>2, <3>1, <3>2
    <2>3. QED
      BY <2>1, <2>2
  <1>2. QED
    BY <1>1 DEF StoreOf

LEMMA StoreSame ==
    ASSUME UNCHANGED server PROVE StoreOf' = StoreOf
  BY DEF server, StoreOf

\* What a publication does to the files.
LEMMA StorePublishes ==
    ASSUME StateType, NEW p \in Path, NEW s, Publish(p, s)
    PROVE  StoreOf' = IF s = <<>> THEN StoreOf ELSE [StoreOf EXCEPT ![p] = s]
  <1>1. CASE s = <<>>
    BY <1>1, StoreSame DEF Publish
  <1>2. CASE s # <<>>
    <2>1. PICK i \in Ino : /\ FreeIno(i)
                           /\ dir' = [dir EXCEPT ![p] = i]
                           /\ data' = [data EXCEPT ![i] = s]
      BY <1>2 DEF Publish
    <2>2. \A q \in Path : q # p => dir[q] # i
      BY <2>1 DEF FreeIno
    <2>3. QED
      BY <1>2, <2>1, <2>2, StorePuts
  <1>3. QED
    BY <1>1, <1>2

LEMMA FrontPart ==
    ASSUME NEW s \in File, NEW t \in File, IsPrefixOf(s, t), s # <<>>
    PROVE  s \in Consistency!FrontParts(t)
  <1>1. Len(s) \in 1 .. Len(t)
    BY DEF IsPrefixOf, File
  <1>2. s = SubSeq(t, 1, Len(s))
    BY <1>1 DEF IsPrefixOf, File
  <1>3. QED
    BY <1>1, <1>2 DEF Consistency!FrontParts

(***************************************************************************)
(* The actions of the abstract specification, in the words of this one.    *)
(***************************************************************************)
Others(a) == \A b \in App : b # a => SessionOf(b)' = SessionOf(b)

Quiet == StoreOf' = StoreOf /\ \A b \in App : SessionOf(b)' = SessionOf(b)

sessions == [a \in App |-> SessionOf(a)]

LEMMA SessionsAre ==
    /\ \A a \in App : sessions[a] = SessionOf(a)
    /\ \A a \in App : sessions'[a] = SessionOf(a)'
  BY DEF sessions

LEMMA SessionStep ==
    ASSUME NEW a \in App, Others(a), NEW v, SessionOf(a)' = v
    PROVE  sessions' = [sessions EXCEPT ![a] = v]
  BY DEF Others, sessions

LEMMA QuietStep ==
    ASSUME Quiet PROVE UNCHANGED Consistency!vars
  BY DEF Quiet, Consistency!vars

LEMMA AbstractOpen ==
    ASSUME NEW a \in App, NEW p \in Path, Others(a), SessionOf(a) = NoIno,
           StoreOf[p] # NoIno, SessionOf(a)' = Session(p, StoreOf[p], FALSE),
           StoreOf' = StoreOf
    PROVE  Consistency!Next
  <1>1. sessions' = [sessions EXCEPT ![a] = Session(p, StoreOf[p], FALSE)]
    BY SessionStep
  <1>2. Consistency!Open(a, p)
    BY <1>1, SessionsAre DEF Consistency!Open, Consistency!Opened, Session, sessions
  <1>3. QED
    BY <1>2 DEF Consistency!Next

\* The creates.
LEMMA AbstractCreate ==
    ASSUME NEW a \in App, NEW p \in Path, Others(a), SessionOf(a) = NoIno,
           NEW s, SessionOf(a)' = Session(p, s, FALSE),
           \/ /\ StoreOf[p] = NoIno /\ s = <<>>
              /\ StoreOf' = [StoreOf EXCEPT ![p] = <<>>]
           \/ /\ "late" \in Faults /\ StoreOf[p] # NoIno /\ s = <<>>
              /\ StoreOf' = [StoreOf EXCEPT ![p] = <<>>]
           \/ /\ "late" \in Faults /\ StoreOf[p] # NoIno /\ StoreOf' = StoreOf
              /\ s \in {<<>>, StoreOf[p]} \cup Consistency!FrontParts(StoreOf[p])
                         \cup {Append(StoreOf[p], ch) : ch \in Chunk}
           \/ "refused" \in Faults /\ s = <<>> /\ StoreOf' = StoreOf
    PROVE  Consistency!Next
  <1>1. sessions' = [sessions EXCEPT ![a] = Session(p, s, FALSE)]
    BY SessionStep
  <1>2. sessions[a] = NoIno
    BY SessionsAre
  <1>3. \/ Consistency!Create(a, p) \/ Consistency!CreateOver(a, p)
        \/ Consistency!CreateFound(a, p) \/ Consistency!CreateRefused(a, p)
    BY <1>1, <1>2 DEF Consistency!Create, Consistency!CreateOver,
       Consistency!CreateFound, Consistency!CreateRefused, Consistency!Opened, Session,
       sessions
  <1>4. QED
    BY <1>3 DEF Consistency!Next

LEMMA AbstractCreateLost ==
    ASSUME NEW p \in Path, "lost" \in Faults, StoreOf[p] = NoIno,
           StoreOf' = [StoreOf EXCEPT ![p] = <<>>],
           \A b \in App : SessionOf(b)' = SessionOf(b)
    PROVE  Consistency!Next
  BY DEF Consistency!CreateLost, Consistency!Next

\* The closes.
LEMMA AbstractClose ==
    ASSUME NEW a \in App, NEW p \in Path, NEW s, NEW m \in BOOLEAN,
           SessionOf(a) = Session(p, s, m), SessionOf(a) # NoIno,
           Others(a), SessionOf(a)' = NoIno,
           \/ ~m /\ StoreOf' = StoreOf
           \/ m /\ StoreOf' = [StoreOf EXCEPT ![p] = s]
           \/ "truncate" \in Faults /\ s = <<>> /\ StoreOf' = StoreOf
           \/ Faults \cap {"down", "disk"} # {} /\ StoreOf' = StoreOf
           \/ /\ "disk" \in Faults /\ m
              /\ \E t \in Consistency!FrontParts(s) : StoreOf' = [StoreOf EXCEPT ![p] = t]
    PROVE  Consistency!Next
  <1>1. sessions' = [sessions EXCEPT ![a] = NoIno]
    BY SessionStep
  <1>2. /\ sessions[a] # NoIno /\ sessions[a].path = p /\ sessions[a].contents = s
        /\ sessions[a].modified = m
    BY SessionsAre DEF Session
  <1>3. \/ Consistency!Close(a) \/ Consistency!CloseEmpty(a)
        \/ Consistency!CloseLost(a) \/ Consistency!CloseCut(a)
    <2>1. CASE ~m /\ StoreOf' = StoreOf
      BY <1>1, <1>2, <2>1 DEF Consistency!Close, sessions
    <2>2. CASE m /\ StoreOf' = [StoreOf EXCEPT ![p] = s]
      BY <1>1, <1>2, <2>2 DEF Consistency!Close, sessions
    <2>3. CASE "truncate" \in Faults /\ s = <<>> /\ StoreOf' = StoreOf
      BY <1>1, <1>2, <2>3 DEF Consistency!CloseEmpty, sessions
    <2>4. CASE Faults \cap {"down", "disk"} # {} /\ StoreOf' = StoreOf
      BY <1>1, <1>2, <2>4 DEF Consistency!CloseLost, sessions
    <2>5. CASE /\ "disk" \in Faults /\ m
               /\ \E t \in Consistency!FrontParts(s) : StoreOf' = [StoreOf EXCEPT ![p] = t]
      BY <1>1, <1>2, <2>5 DEF Consistency!CloseCut, sessions
    <2>6. QED
      BY <2>1, <2>2, <2>3, <2>4, <2>5
  <1>4. QED
    BY <1>3 DEF Consistency!Next

\* Both specifications write to files alike.
LEMMA SameData ==
    /\ \A s, k, ch : Consistency!WriteAt(s, k, ch) = WriteAt(s, k, ch)
    /\ \A s, n : Consistency!Resized(s, n) = Resized(s, n)
  BY DEF WriteAt, Consistency!WriteAt, Resized, Consistency!Resized

\* A session's contents change.
LEMMA AbstractChange ==
    ASSUME NEW a \in App, NEW p \in Path, NEW s, NEW m \in BOOLEAN,
           SessionOf(a) = Session(p, s, m), SessionOf(a) # NoIno,
           Others(a), StoreOf' = StoreOf, NEW t, NEW l \in BOOLEAN,
           SessionOf(a)' = Session(p, t, l),
           \/ l /\ \E k \in 1 .. MaxLen, ch \in Chunk : t = WriteAt(s, k, ch)
           \/ "disk" \in Faults /\ l /\ t = s
           \/ "truncate" \in Faults /\ l = m /\ \E n \in 0 .. MaxLen : t = Resized(s, n)
           \/ "down" \in Faults /\ ~m /\ ~l /\ t \in Consistency!FrontParts(s)
    PROVE  Consistency!Next
  <1>1. /\ sessions' = [sessions EXCEPT ![a] = Session(p, t, l)]
        /\ sessions[a] = Session(p, s, m) /\ sessions[a] # NoIno
    BY SessionStep, SessionsAre
  <1>2. \A x : [Session(p, s, m) EXCEPT !.contents = x] = Session(p, x, m)
    BY DEF Session
  <1>3. \A x, y : [Session(p, x, m) EXCEPT !.modified = y] = Session(p, x, y)
    BY DEF Session
  <1>4. Session(p, s, m).contents = s /\ Session(p, s, m).modified = m
    BY DEF Session
  <1> HIDE DEF Session
  <1>5. CASE l /\ \E k \in 1 .. MaxLen, ch \in Chunk : t = WriteAt(s, k, ch)
    <2>1. PICK k \in 1 .. MaxLen, ch \in Chunk : t = WriteAt(s, k, ch)
      BY <1>5
    <2>2. [Session(p, s, m) EXCEPT !.contents = t, !.modified = TRUE] = Session(p, t, TRUE)
      BY <1>2, <1>3
    <2>3. l = TRUE
      BY <1>5
    <2>4. sessions[a].contents = s /\ Consistency!WriteAt(s, k, ch) = t
      BY <1>1, <1>4, <2>1, SameData
    <2>5. sessions' = [sessions EXCEPT
            ![a].contents = Consistency!WriteAt(sessions[a].contents, k, ch),
            ![a].modified = TRUE]
      BY <1>1, <2>2, <2>3, <2>4
    <2>6. Consistency!Write(a, k, ch)
      BY <1>1, <2>5 DEF Consistency!Write, sessions
    <2>7. QED
      BY <2>6 DEF Consistency!Next
  <1>6. CASE "disk" \in Faults /\ l /\ t = s
    <2>1. [Session(p, s, m) EXCEPT !.modified = TRUE] = Session(p, t, TRUE) /\ l = TRUE
      BY <1>3, <1>6
    <2>2. sessions' = [sessions EXCEPT ![a].modified = TRUE]
      BY <1>1, <2>1
    <2>3. Consistency!WriteFails(a)
      BY <1>1, <1>6, <2>2 DEF Consistency!WriteFails, sessions
    <2>4. QED
      BY <2>3 DEF Consistency!Next
  <1>7. CASE "truncate" \in Faults /\ l = m /\ \E n \in 0 .. MaxLen : t = Resized(s, n)
    <2>1. PICK n \in 0 .. MaxLen : t = Resized(s, n)
      BY <1>7
    <2>2. sessions[a].contents = s /\ Consistency!Resized(s, n) = t
      BY <1>1, <1>4, <2>1, SameData
    <2>3. [Session(p, s, m) EXCEPT !.contents = t] = Session(p, t, l)
      BY <1>2, <1>7
    <2>4. sessions' = [sessions EXCEPT
            ![a].contents = Consistency!Resized(sessions[a].contents, n)]
      BY <1>1, <2>2, <2>3
    <2>5. Consistency!Truncate(a, n)
      BY <1>1, <1>7, <2>4 DEF Consistency!Truncate, sessions
    <2>6. QED
      BY <2>5 DEF Consistency!Next
  <1>8. CASE "down" \in Faults /\ ~m /\ ~l /\ t \in Consistency!FrontParts(s)
    <2>1. [Session(p, s, m) EXCEPT !.contents = t] = Session(p, t, l)
      <3>1. l = m
        BY <1>8
      <3>2. QED
        BY <1>2, <3>1
    <2>2. sessions' = [sessions EXCEPT ![a].contents = t]
      BY <1>1, <2>1
    <2>3. ~sessions[a].modified /\ sessions[a].contents = s
      <3>1. sessions[a].modified = m
        BY <1>1, <1>4
      <3>2. QED
        BY <1>1, <1>4, <1>8, <3>1
    <2>4. Consistency!OpenCut(a)
      BY <1>1, <1>8, <2>2, <2>3 DEF Consistency!OpenCut, sessions
    <2>5. QED
      BY <2>4 DEF Consistency!Next
  <1>9. QED
    BY <1>5, <1>6, <1>7, <1>8

\* The names.
LEMMA AbstractNames ==
    ASSUME \A b \in App : SessionOf(b)' = SessionOf(b), NEW p \in Path,
           \/ StoreOf' = [StoreOf EXCEPT ![p] = NoIno]
           \/ \E q \in Path : /\ p # q /\ StoreOf[p] # NoIno
                              /\ StoreOf' = [StoreOf EXCEPT ![q] = StoreOf[p], ![p] = NoIno]
    PROVE  Consistency!Next
  <1>1. CASE StoreOf' = [StoreOf EXCEPT ![p] = NoIno]
    BY <1>1 DEF Consistency!Delete, Consistency!Next
  <1>2. CASE \E q \in Path : /\ p # q /\ StoreOf[p] # NoIno
                             /\ StoreOf' = [StoreOf EXCEPT ![q] = StoreOf[p], ![p] = NoIno]
    BY <1>2 DEF Consistency!Rename, Consistency!Next
  <1>3. QED
    BY <1>1, <1>2

LEMMA AbstractCrash ==
    ASSUME NEW c \in Client, "crash" \in Faults,
           \A a \in App : SessionOf(a)' = IF Home[a] = c THEN NoIno ELSE SessionOf(a),
           \/ StoreOf' = StoreOf
           \/ \E a \in App, p \in Path, s \in File :
                /\ Home[a] = c /\ SessionOf(a) # NoIno
                /\ SessionOf(a) = Session(p, s, TRUE)
                /\ \E t \in Consistency!FrontParts(s) : StoreOf' = [StoreOf EXCEPT ![p] = t]
    PROVE  Consistency!Next
  <1>1. sessions' = [a \in App |-> IF Home[a] = c THEN NoIno ELSE sessions[a]]
    BY DEF sessions
  <1>2. Consistency!Crash(c)
    <2>1. CASE StoreOf' = StoreOf
      BY <1>1, <2>1 DEF Consistency!Crash, sessions
    <2>2. CASE \E a \in App, p \in Path, s \in File :
                 /\ Home[a] = c /\ SessionOf(a) # NoIno
                 /\ SessionOf(a) = Session(p, s, TRUE)
                 /\ \E t \in Consistency!FrontParts(s) :
                      StoreOf' = [StoreOf EXCEPT ![p] = t]
      <3>1. PICK a \in App, p \in Path, s \in File :
              /\ Home[a] = c /\ SessionOf(a) # NoIno
              /\ SessionOf(a) = Session(p, s, TRUE)
              /\ \E t \in Consistency!FrontParts(s) : StoreOf' = [StoreOf EXCEPT ![p] = t]
        BY <2>2
      <3>2. /\ sessions[a] # NoIno /\ sessions[a].modified
            /\ sessions[a].contents = s /\ sessions[a].path = p
        BY <3>1 DEF sessions, Session
      <3>3. QED
        BY <1>1, <3>1, <3>2 DEF Consistency!Crash, sessions
    <2>3. QED
      BY <2>1, <2>2
  <1>3. QED
    BY <1>2 DEF Consistency!Next
(***************************************************************************)
(* The steps of the clients: each is a step of the abstract specification, *)
(* or Quiet.                                                               *)
(***************************************************************************)
LEMMA OthersSame ==
    ASSUME StateType, NEW a \in App, \A b \in App : b # a => CopySame(b)
    PROVE  Others(a)
  BY SessionSame DEF Others, StateType

LEMMA OthersRows ==
    ASSUME StateType, NEW a \in App, UNCHANGED <<local, file>>,
           \A b \in App : b # a => app'[b] = app[b]
    PROVE  Others(a)
  <1>1. ASSUME NEW b \in App, b # a PROVE CopySame(b)
    BY <1>1, CopySameRows
  <1>2. QED
    BY <1>1, OthersSame

LEMMA AllQuiet ==
    ASSUME NEW a \in App, Others(a), SessionOf(a)' = SessionOf(a), UNCHANGED server
    PROVE  Quiet
  BY StoreSame DEF Others, Quiet

LEMMA NoSession ==
    ASSUME NEW a \in App, app'[a] = Idle PROVE SessionOf(a)' = NoIno
  <1>1. app'[a].at = "idle"
    BY DEF Idle
  <1>2. QED
    BY <1>1, SessionIsNext

\* The steps of an open.
LEMMA OpenFileMaps ==
    ASSUME StateType, NEW a \in App, NEW p \in Path, OpenFile(a, p)
    PROVE  Consistency!Next
  <1>1. /\ app'[a] = [at |-> "opening", path |-> p, ino |-> dir[p],
                      src |-> data[dir[p]], fd |-> NoFd, n |-> 0]
        /\ \A b \in App : b # a => app'[b] = app[b]
        /\ UNCHANGED <<server, local, file>> /\ app[a].at = "idle" /\ dir[p] # NoIno
    BY DEF OpenFile, StateType, AppType
  <1>2. SessionOf(a) = NoIno
    BY <1>1, SessionIs
  <1>3. StoreOf[p] = data[dir[p]] /\ StoreOf[p] # NoIno
    BY <1>1, StoreIs
  <1>4. app'[a].at = "opening" /\ app'[a].path = p /\ app'[a].src = data[dir[p]]
    BY <1>1
  <1>5. SessionOf(a)' = Session(p, StoreOf[p], FALSE)
    BY <1>3, <1>4, SessionIsNext
  <1>6. StoreOf' = StoreOf /\ Others(a)
    BY <1>1, StoreSame, OthersRows
  <1>7. QED
    BY <1>2, <1>3, <1>5, <1>6, AbstractOpen

LEMMA OpenLocalCopyMaps ==
    ASSUME StateType, SemInv, PairInv, NEW a \in App, OpenLocalCopy(a)
    PROVE  Quiet
  <1>1. Others(a)
    BY AcquiresCopies, OthersSame
  <1>2. app[a].at = "opening" /\ app[a] \in OpeningApp /\ UNCHANGED server
    BY AppKinds DEF OpenLocalCopy, StateType
  <1>3. app'[a].at = "opening" /\ app'[a].path = app[a].path /\ app'[a].src = app[a].src
    BY <1>2 DEF OpenLocalCopy, StateType, AppType, OpeningApp
  <1>4. SessionOf(a)' = SessionOf(a)
    BY <1>2, <1>3, SessionIs, SessionIsNext
  <1>5. QED
    BY <1>1, <1>2, <1>4, AllQuiet

LEMMA StoreMessageMaps ==
    ASSUME StateType, PairInv, NEW a \in App, StoreMessage(a)
    PROVE  Quiet
  <1>1. /\ app[a] \in OpeningApp /\ HasFd(a) /\ app[a].n \in Nat
        /\ app[a].src \in File /\ app[a].n < Len(app[a].src) /\ app[a].at = "opening"
        /\ UNCHANGED <<server, file>>
    BY AppKinds, AppFields DEF StoreMessage, StateType, HasFd
  <1>2. app[a].n + 1 \in Nat \ {0} /\ app[a].src[app[a].n + 1] \in Chunk \cup {Hole}
    BY <1>1 DEF File
  <1>3. /\ app'[a].fd = app[a].fd /\ app'[a].at = "opening"
        /\ app'[a].path = app[a].path /\ app'[a].src = app[a].src
        /\ \A b \in App : b # a => app'[b] = app[b]
    BY <1>1 DEF StoreMessage, StateType, AppType, OpeningApp
  <1>4. local' = [local EXCEPT ![Home[a]][Local(a)] =
                    WriteAt(local[Home[a]][Local(a)], app[a].n + 1,
                            app[a].src[app[a].n + 1])]
    BY DEF StoreMessage
  <1>5. Others(a)
    BY <1>1, <1>2, <1>3, <1>4, WriteCopies, OthersSame
  <1>6. SessionOf(a)' = SessionOf(a)
    BY <1>1, <1>3, SessionIs, SessionIsNext
  <1>7. QED
    BY <1>1, <1>5, <1>6, AllQuiet

LEMMA EndOpenMaps ==
    ASSUME StateType, PairInv, NEW a \in App, EndOpen(a)
    PROVE  Consistency!Next \/ Quiet
  <1> DEFINE src == app[a].src
             p == app[a].path
             copy == Copied(a)
  <1>1. /\ app'[a] = [at |-> "open", path |-> p, fd |-> app[a].fd, wrote |-> FALSE]
        /\ \A b \in App : b # a => app'[b] = app[b]
        /\ UNCHANGED <<server, local, file>> /\ app[a].at = "opening"
        /\ app[a].fd # NoFd /\ HasFd(a)
    BY DEF EndOpen, StateType, AppType, HasFd
  <1>2. Others(a) /\ StoreOf' = StoreOf
    BY <1>1, OthersRows, StoreSame
  <1>3. /\ p \in Path /\ src \in File /\ SessionOf(a) = Session(p, src, FALSE)
        /\ SessionOf(a) # NoIno /\ app[a].n \in Nat
    BY <1>1, OpeningType, AppFields DEF StateType
  <1>4. Len(copy) = app[a].n /\ IsPrefixOf(copy, src)
    BY <1>1 DEF PairInv, Right, CopyRight, Copied
  <1>5. copy \in File
    <2>1. Local(a) \in Copy /\ Home[a] \in Client
      BY <1>1, HomeAssumption, LocalType2 DEF PairInv, Right
    <2>2. QED
      BY <2>1 DEF StateType, LocalType, Copied
  <1>6. SessionOf(a)' = Session(p, copy, FALSE)
    <2>1. HasFile(a)' /\ app'[a].path = p /\ app'[a].wrote = FALSE
      BY <1>1 DEF HasFile
    <2>2. Copied(a)' = copy
      BY <1>1 DEF Copied, Local
    <2>3. QED
      BY <2>1, <2>2, SessionIsNext
  <1>7. CASE app[a].n = Len(src)
    <2>1. copy = src
      <3>1. Len(copy) >= Len(src)
        BY <1>3, <1>4, <1>7 DEF File
      <3>2. QED
        BY <1>3, <1>4, <1>5, <3>1, PrefixWhole
    <2>2. SessionOf(a)' = SessionOf(a)
      BY <1>3, <1>6, <2>1
    <2>3. QED
      BY <1>1, <1>2, <2>2, AllQuiet
  <1>8. CASE "down" \in Faults /\ app[a].n > 0
    <2>1. copy # <<>>
      BY <1>4, <1>8
    <2>2. copy \in Consistency!FrontParts(src)
      BY <1>3, <1>4, <1>5, <2>1, FrontPart
    <2> HIDE DEF src, p, copy
    <2>3. Consistency!Next
      BY <1>2, <1>3, <1>6, <1>8, <2>2, AbstractChange
    <2>4. QED
      BY <2>3
  <1>9. QED
    BY <1>7, <1>8 DEF EndOpen, DownloadEnded

\* An open or a create that fails.
LEMMA GivesUpMaps ==
    ASSUME StateType, NEW a \in App, OpenNoCopy(a) \/ StoreFails(a) \/ CreateNoCopy(a)
    PROVE  Consistency!Next
  <1>1. /\ app'[a] = Idle /\ \A b \in App : b # a => app'[b] = app[b]
        /\ UNCHANGED <<server, local, file>> /\ "disk" \in Faults
        /\ app[a].at \in {"opening", "creating"}
    BY DEF OpenNoCopy, StoreFails, CreateNoCopy, StateType, AppType
  <1>2. Others(a) /\ StoreOf' = StoreOf
    BY <1>1, OthersRows, StoreSame
  <1>3. /\ app[a].path \in Path /\ SessionOf(a) = Session(app[a].path, app[a].src, FALSE)
        /\ SessionOf(a) # NoIno
    BY <1>1, OpeningType
  <1>4. SessionOf(a)' = NoIno
    BY <1>1, NoSession
  <1>5. Faults \cap {"down", "disk"} # {}
    BY <1>1
  <1>6. QED
    BY <1>2, <1>3, <1>4, <1>5, AbstractClose

\* The steps of a create.
LEMMA CreatingMaps ==
    ASSUME StateType, NEW a \in App, app[a].at = "idle", NEW p, NEW i, NEW s,
           Creating(a, p, i, s), UNCHANGED <<local, file>>
    PROVE  Others(a) /\ SessionOf(a) = NoIno /\ SessionOf(a)' = Session(p, s, FALSE)
  <1>1. /\ app'[a] = [at |-> "creating", path |-> p, ino |-> i, src |-> s]
        /\ \A b \in App : b # a => app'[b] = app[b]
    BY DEF Creating, StateType, AppType
  <1>2. app'[a].at = "creating" /\ app'[a].path = p /\ app'[a].src = s
    BY <1>1
  <1>3. QED
    BY <1>1, <1>2, OthersRows, SessionIs, SessionIsNext

LEMMA CStringKinds ==
    ASSUME NEW s \in File, NEW t \in CStrings(s)
    PROVE  t \in {<<>>, s} \cup Consistency!FrontParts(s)
                    \cup {Append(s, ch) : ch \in Chunk}
  <1> DEFINE zeros == {k \in DOMAIN s : s[k] = Hole}
  <1>1. CASE s = <<>> \/ zeros = {}
    BY <1>1 DEF CStrings
  <1>2. CASE s # <<>> /\ zeros # {}
    <2>1. PICK k \in zeros : t = SubSeq(s, 1, k - 1)
      BY <1>2 DEF CStrings
    <2>2. k \in 1 .. Len(s) /\ Len(s) \in Nat
      BY DEF File
    <2>3. CASE k = 1
      BY <2>1, <2>3 DEF File
    <2>4. CASE k # 1
      <3>1. k - 1 \in 1 .. Len(s)
        BY <2>2, <2>4
      <3>2. QED
        BY <2>1, <3>1 DEF Consistency!FrontParts
    <2>5. QED
      BY <2>3, <2>4
  <1>3. QED
    BY <1>1, <1>2

LEMMA CreateMaps ==
    ASSUME StateType, InodesApart, NEW a \in App, NEW p \in Path,
           \/ CreateFile(a, p)
           \/ \E truncating \in BOOLEAN : CreateOverExisting(a, p, truncating)
           \/ CreateRefused(a, p)
    PROVE  Consistency!Next
  <1>1. app[a].at = "idle" /\ UNCHANGED <<local, file>>
    BY DEF CreateFile, CreateOverExisting, CreateRefused
  <1>2. CASE CreateFile(a, p)
    <2>1. PICK i \in Ino : /\ FreeIno(i) /\ dir' = [dir EXCEPT ![p] = i]
                           /\ data' = [data EXCEPT ![i] = <<>>]
                           /\ Creating(a, p, i, <<>>)
      BY <1>2 DEF CreateFile
    <2>2. StoreOf' = [StoreOf EXCEPT ![p] = <<>>]
      BY <2>1, StorePuts DEF FreeIno
    <2>3. StoreOf[p] = NoIno
      BY <1>2, StoreIs DEF CreateFile, Exists
    <2>4. /\ Others(a) /\ SessionOf(a) = NoIno
          /\ SessionOf(a)' = Session(p, <<>>, FALSE)
      BY <1>1, <2>1, CreatingMaps
    <2>5. QED
      BY <2>2, <2>3, <2>4, AbstractCreate
  <1>3. ASSUME NEW truncating \in BOOLEAN, CreateOverExisting(a, p, truncating)
        PROVE  Consistency!Next
    <2>1. /\ dir[p] \in Ino /\ StoreOf[p] = data[dir[p]] /\ StoreOf[p] # NoIno
          /\ StoreOf[p] \in File /\ "late" \in Faults /\ dir' = dir
      BY <1>3, StoreIs DEF CreateOverExisting
    <2>2. CASE truncating
      <3>1. /\ data' = [data EXCEPT ![dir[p]] = <<>>] /\ Creating(a, p, dir[p], <<>>)
        BY <1>3, <2>2 DEF CreateOverExisting
      <3>2. dir' = [dir EXCEPT ![p] = dir[p]]
        BY <2>1 DEF StateType, StoreType
      <3>3. \A q \in Path : q # p => dir[q] # dir[p]
        BY <2>1, NilAssumption DEF InodesApart
      <3>4. StoreOf' = [StoreOf EXCEPT ![p] = <<>>]
        BY <2>1, <3>1, <3>2, <3>3, StorePuts
      <3>5. /\ Others(a) /\ SessionOf(a) = NoIno
            /\ SessionOf(a)' = Session(p, <<>>, FALSE)
        BY <1>1, <3>1, CreatingMaps
      <3>6. QED
        BY <2>1, <3>4, <3>5, AbstractCreate
    <2>3. CASE ~truncating
      <3>1. PICK s \in CStrings(data[dir[p]]) : Creating(a, p, dir[p], s)
        BY <1>3, <2>3 DEF CreateOverExisting
      <3>2. UNCHANGED server
        BY <1>3, <2>3 DEF CreateOverExisting, server
      <3>3. s \in {<<>>, StoreOf[p]} \cup Consistency!FrontParts(StoreOf[p])
                    \cup {Append(StoreOf[p], ch) : ch \in Chunk}
        BY <2>1, <3>1, CStringKinds
      <3>4. StoreOf' = StoreOf
        BY <3>2, StoreSame
      <3>5. /\ Others(a) /\ SessionOf(a) = NoIno
            /\ SessionOf(a)' = Session(p, s, FALSE)
        BY <1>1, <3>1, CreatingMaps
      <3>6. QED
        BY <2>1, <3>3, <3>4, <3>5, AbstractCreate
    <2>4. QED
      BY <2>2, <2>3
  <1>4. CASE CreateRefused(a, p)
    <2>1. Creating(a, p, Zero, <<>>) /\ UNCHANGED server /\ "refused" \in Faults
      BY <1>4 DEF CreateRefused
    <2>2. /\ Others(a) /\ SessionOf(a) = NoIno
          /\ SessionOf(a)' = Session(p, <<>>, FALSE)
      BY <1>1, <2>1, CreatingMaps
    <2>3. StoreOf' = StoreOf
      BY <2>1, StoreSame
    <2>4. QED
      BY <2>1, <2>2, <2>3, AbstractCreate
  <1>5. QED
    BY <1>2, <1>3, <1>4

LEMMA CreateLostMaps ==
    ASSUME StateType, NEW a \in App, NEW p \in Path, CreateLost(a, p)
    PROVE  Consistency!Next
  <1>1. PICK i \in Ino : /\ FreeIno(i) /\ dir' = [dir EXCEPT ![p] = i]
                         /\ data' = [data EXCEPT ![i] = <<>>]
    BY DEF CreateLost
  <1>2. StoreOf' = [StoreOf EXCEPT ![p] = <<>>]
    BY <1>1, StorePuts DEF FreeIno
  <1>3. StoreOf[p] = NoIno /\ "lost" \in Faults /\ UNCHANGED <<local, file, app>>
    BY StoreIs DEF CreateLost, Exists
  <1>4. \A b \in App : SessionOf(b)' = SessionOf(b)
    BY <1>3, CopySameRows, SessionSame DEF StateType
  <1>5. QED
    BY <1>2, <1>3, <1>4, AbstractCreateLost

LEMMA EndCreateMaps ==
    ASSUME StateType, SemInv, PairInv, NEW a \in App, EndCreate(a)
    PROVE  Quiet
  <1> DEFINE c == Home[a]
             i == app[a].ino
  <1>1. c \in Client /\ i \in Copy /\ app[a].at = "creating"
    BY HomeAssumption, AppFields DEF EndCreate, StateType
  <1>2. PICK f \in Fd : /\ file' = [file EXCEPT ![c][f] = i]
                        /\ app' = [app EXCEPT ![a] = [at |-> "open", path |-> app[a].path,
                                                      fd |-> f, wrote |-> FALSE]]
    BY DEF EndCreate
  <1>3. app'[a] = [at |-> "open", path |-> app[a].path, fd |-> f, wrote |-> FALSE]
    BY <1>2 DEF StateType, AppType
  <1>4. file'[c][f] = i /\ local'[c][i] = app[a].src /\ f # NoFd
    BY <1>1, <1>2, NilAssumption DEF EndCreate, StateType, FileType, LocalType
  <1>5. Copied(a)' = app[a].src
    BY <1>3, <1>4 DEF Copied, Local
  <1>6. HasFile(a)' /\ app'[a].path = app[a].path /\ app'[a].wrote = FALSE
    BY <1>3 DEF HasFile
  <1>7. SessionOf(a)' = SessionOf(a)
    BY <1>1, <1>5, <1>6, SessionIs, SessionIsNext
  <1>8. Others(a) /\ UNCHANGED server
    BY AcquiresCopies, OthersSame DEF EndCreate
  <1>9. QED
    BY <1>7, <1>8, AllQuiet

\* The steps of a write.
LEMMA PWriteMaps ==
    ASSUME StateType, PairInv, NEW a \in App, NEW k \in 1 .. MaxLen, NEW ch \in Chunk,
           PWrite(a, k, ch)
    PROVE  Consistency!Next
  <1>1. HasFile(a) /\ HasFd(a) /\ Local(a) # NoIno /\ app[a] \in OpenApp
    BY AppKinds DEF PWrite, HasFd, HasFile, PairInv, Right, StateType
  <1>2. /\ app' = [app EXCEPT ![a] = [app[a] EXCEPT !.at = "written", !.wrote = TRUE]]
        /\ local' = [local EXCEPT ![Home[a]][Local(a)] =
                       WriteAt(local[Home[a]][Local(a)], k, ch)]
        /\ UNCHANGED <<server, file>>
    BY <1>1 DEF PWrite
  <1>3. /\ app'[a] = [at |-> "written", path |-> app[a].path, fd |-> app[a].fd,
                      wrote |-> TRUE]
        /\ \A b \in App : b # a => app'[b] = app[b]
    BY <1>1, <1>2, OpenAppWrote DEF StateType, AppType
  <1>4. app'[a].fd = app[a].fd /\ app'[a].path = app[a].path /\ app'[a].wrote = TRUE
    BY <1>3
  <1>5. k \in Nat \ {0} /\ ch \in Chunk \cup {Hole}
    BY BoundAssumption
  <1>6. Others(a) /\ Copied(a)' = WriteAt(Copied(a), k, ch)
    BY <1>1, <1>2, <1>3, <1>4, <1>5, WriteCopies, OthersSame
  <1>7. HasFile(a)'
    BY <1>3 DEF HasFile
  <1>8. SessionOf(a)' = Session(app[a].path, WriteAt(Copied(a), k, ch), TRUE)
    BY <1>4, <1>6, <1>7, SessionIsNext
  <1>9. /\ app[a].path \in Path /\ app[a].wrote \in BOOLEAN
        /\ SessionOf(a) = Session(app[a].path, Copied(a), app[a].wrote)
        /\ SessionOf(a) # NoIno
    BY <1>1, SessionType
  <1>10. StoreOf' = StoreOf
    BY <1>2, StoreSame
  <1>11. QED
    BY <1>6, <1>8, <1>9, <1>10, AbstractChange

LEMMA PWriteFailsMaps ==
    ASSUME StateType, PairInv, NEW a \in App, PWriteFails(a)
    PROVE  Consistency!Next
  <1>1. HasFile(a) /\ app[a] \in OpenApp /\ UNCHANGED <<server, local, file>>
    BY AppKinds DEF PWriteFails, HasFile, StateType
  <1>2. app' = [app EXCEPT ![a] = [app[a] EXCEPT !.at = "written", !.wrote = TRUE]]
    BY DEF PWriteFails
  <1>3. /\ app'[a] = [at |-> "written", path |-> app[a].path, fd |-> app[a].fd,
                      wrote |-> TRUE]
        /\ \A b \in App : b # a => app'[b] = app[b]
    BY <1>1, <1>2, OpenAppWrote DEF StateType, AppType
  <1>4. /\ app'[a].fd = app[a].fd /\ app'[a].path = app[a].path /\ app'[a].wrote = TRUE
        /\ HasFile(a)'
    BY <1>3 DEF HasFile
  <1>5. Copied(a)' = Copied(a)
    BY <1>1, <1>4 DEF Copied, Local
  <1>6. SessionOf(a)' = Session(app[a].path, Copied(a), TRUE)
    BY <1>4, <1>5, SessionIsNext
  <1>7. /\ app[a].path \in Path /\ app[a].wrote \in BOOLEAN
        /\ SessionOf(a) = Session(app[a].path, Copied(a), app[a].wrote)
        /\ SessionOf(a) # NoIno
    BY <1>1, SessionType
  <1>8. StoreOf' = StoreOf /\ Others(a) /\ "disk" \in Faults
    BY <1>1, <1>3, StoreSame, OthersRows DEF PWriteFails
  <1>9. QED
    BY <1>6, <1>7, <1>8, AbstractChange

\* The application goes on with its file as it is.
LEMMA GoesOn ==
    ASSUME StateType, NEW a \in App, HasFile(a), HasFile(a)',
           \A b \in App : b # a => app'[b] = app[b], UNCHANGED <<server, local, file>>,
           app'[a].path = app[a].path, app'[a].fd = app[a].fd,
           app'[a].wrote = app[a].wrote
    PROVE  Quiet
  <1>1. Copied(a)' = Copied(a)
    BY DEF Copied, Local
  <1>2. SessionOf(a)' = SessionOf(a)
    BY <1>1, SessionIs, SessionIsNext
  <1>3. QED
    BY <1>2, OthersRows, AllQuiet

LEMMA GoesOnMaps ==
    ASSUME StateType, NEW a \in App,
           \/ WriteFile(a) \/ SendMessage(a)
           \/ \E last \in MayBeLast : CloseFile(a, last)
    PROVE  Quiet
  <1>1. CASE WriteFile(a)
    <2>1. HasFile(a) /\ app[a] \in OpenApp /\ UNCHANGED <<server, local, file>>
      BY <1>1, AppKinds DEF WriteFile, HasFile, StateType
    <2>2. app' = [app EXCEPT ![a] = [app[a] EXCEPT !.at = "open"]]
      BY <1>1 DEF WriteFile
    <2>3. /\ app'[a] = [at |-> "open", path |-> app[a].path, fd |-> app[a].fd,
                        wrote |-> app[a].wrote]
          /\ \A b \in App : b # a => app'[b] = app[b]
      BY <2>1, <2>2, OpenAppAt DEF StateType, AppType
    <2>4. /\ HasFile(a)' /\ app'[a].path = app[a].path /\ app'[a].fd = app[a].fd
          /\ app'[a].wrote = app[a].wrote
      BY <2>3 DEF HasFile
    <2>5. QED
      BY <2>1, <2>3, <2>4, GoesOn
  <1>2. CASE SendMessage(a)
    <2>1. HasFile(a) /\ app[a] \in ClosingApp /\ UNCHANGED <<server, local, file>>
      BY <1>2, AppKinds DEF SendMessage, HasFile, StateType
    <2>2. /\ app'[a].wrote = app[a].wrote /\ app'[a].fd = app[a].fd
          /\ app'[a].path = app[a].path /\ app'[a].at = "closing"
          /\ \A b \in App : b # a => app'[b] = app[b]
      BY <1>2, <2>1 DEF SendMessage, StateType, AppType, ClosingApp
    <2>3. HasFile(a)'
      BY <2>2 DEF HasFile
    <2>4. QED
      BY <2>1, <2>2, <2>3, GoesOn
  <1>3. ASSUME NEW last \in MayBeLast, CloseFile(a, last) PROVE Quiet
    <2>1. HasFile(a) /\ UNCHANGED <<server, local, file>>
      BY <1>3 DEF CloseFile, HasFile
    <2>2. /\ app'[a].wrote = app[a].wrote /\ app'[a].fd = app[a].fd
          /\ app'[a].path = app[a].path /\ app'[a].at = "closing"
          /\ \A b \in App : b # a => app'[b] = app[b]
      BY <1>3 DEF CloseFile, StateType, AppType
    <2>3. HasFile(a)'
      BY <2>2 DEF HasFile
    <2>4. QED
      BY <2>1, <2>2, <2>3, GoesOn
  <1>4. QED
    BY <1>1, <1>2, <1>3

\* The closes that return.  An upload has sent the front part of the copy.
LEMMA CloseEnds ==
    ASSUME Private, StateType, PairInv, NEW a \in App,
           \/ \E last \in MayBeLast : CloseUnsent(a, last) \/ CloseNoCopy(a, last)
           \/ EndClose(a) \/ SendFails(a) \/ CloseLost(a)
    PROVE  /\ Others(a) /\ SessionOf(a)' = NoIno
           /\ app[a].path \in Path /\ Copied(a) \in File /\ app[a].wrote \in BOOLEAN
           /\ SessionOf(a) = Session(app[a].path, Copied(a), app[a].wrote)
           /\ SessionOf(a) # NoIno
  <1>1. app'[a] = Idle /\ \A b \in App : b # a => CopySame(b)
    BY CloseCopies
  <1>2. HasFile(a)
    BY DEF CloseUnsent, CloseNoCopy, EndClose, SendFails, CloseLost, HasFile
  <1>3. QED
    BY <1>1, <1>2, NoSession, OthersSame, SessionType

LEMMA Uploads ==
    ASSUME StateType, PairInv, NEW a \in App, app[a].at = "closing"
    PROVE  /\ app[a].wrote = TRUE /\ app[a].ino = Local(a) /\ Copied(a) # <<>>
           /\ app[a].sent \in File /\ IsPrefixOf(app[a].sent, Copied(a))
  <1>1. app[a].wrote \in BOOLEAN /\ app[a].sent \in File
    BY AppFields DEF StateType, HasFile
  <1>2. /\ app[a].wrote /\ app[a].ino = Local(a) /\ Copied(a) # <<>>
        /\ IsPrefixOf(app[a].sent, Copied(a))
    BY DEF PairInv, Right, CopyRight, Copied
  <1>3. app[a].wrote = TRUE
    BY <1>1, <1>2
  <1>4. QED
    BY <1>1, <1>2, <1>3

LEMMA CloseUnsentMaps ==
    ASSUME Private, NoEmptying => WriteInv, StateType, PairInv, NEW a \in App,
           NEW last \in MayBeLast, CloseUnsent(a, last)
    PROVE  Consistency!Next
  <1> DEFINE p == app[a].path
             copy == Copied(a)
             e == cache[Home[a]][p]
  <1>1. /\ Others(a) /\ SessionOf(a)' = NoIno /\ p \in Path /\ app[a].wrote \in BOOLEAN
        /\ SessionOf(a) = Session(p, copy, app[a].wrote) /\ SessionOf(a) # NoIno
    BY CloseEnds
  <1>2. StoreOf' = StoreOf
    BY StoreSame DEF CloseUnsent
  <1>3. app[a].wrote => copy = <<>>
    <2>1. app[a].at = "open" /\ NothingToSend(e, local[Home[a]])
      BY DEF CloseUnsent
    <2>2. e.ino = Local(a) /\ e.dirty = app[a].wrote
      BY <2>1 DEF PairInv, Right, EntryRight, HasFd, HasFile
    <2>3. ~e.dirty \/ local[Home[a]][e.ino] = <<>>
      BY <2>1 DEF NothingToSend
    <2>4. ASSUME app[a].wrote PROVE copy = <<>>
      <3>1. e.dirty
        BY <2>2, <2>4
      <3>2. QED
        BY <2>2, <2>3, <3>1 DEF Copied
    <2>5. QED
      BY <2>4
  <1>4. app[a].wrote /\ NoEmptying => copy # <<>>
    <2>1. HasFile(a)
      BY DEF CloseUnsent, HasFile
    <2>2. QED
      BY <2>1 DEF WriteInv
  <1> HIDE DEF p, copy, e
  <1>5. CASE ~app[a].wrote
    BY <1>1, <1>2, <1>5, AbstractClose
  <1>6. CASE app[a].wrote
    <2>1. copy = <<>> /\ ("truncate" \in Faults \/ "disk" \in Faults)
      BY <1>3, <1>4, <1>6 DEF NoEmptying
    <2>2. CASE "truncate" \in Faults
      BY <1>1, <1>2, <2>1, <2>2, AbstractClose
    <2>3. CASE "disk" \in Faults
      <3>1. Faults \cap {"down", "disk"} # {}
        BY <2>3
      <3>2. QED
        BY <1>1, <1>2, <3>1, AbstractClose
    <2>4. QED
      BY <2>1, <2>2, <2>3
  <1>7. QED
    BY <1>5, <1>6

LEMMA CloseFailsMaps ==
    ASSUME Private, StateType, PairInv, NEW a \in App,
           \/ \E last \in MayBeLast : CloseNoCopy(a, last)
           \/ CloseLost(a)
    PROVE  Consistency!Next
  <1>1. /\ Others(a) /\ SessionOf(a)' = NoIno
        /\ app[a].path \in Path /\ app[a].wrote \in BOOLEAN
        /\ SessionOf(a) = Session(app[a].path, Copied(a), app[a].wrote)
        /\ SessionOf(a) # NoIno
    BY CloseEnds
  <1>2. StoreOf' = StoreOf /\ Faults \cap {"down", "disk"} # {}
    BY StoreSame DEF CloseNoCopy, CloseLost
  <1>3. QED
    BY <1>1, <1>2, AbstractClose

LEMMA EndCloseMaps ==
    ASSUME Private, StateType, PairInv, NEW a \in App, EndClose(a) \/ SendFails(a)
    PROVE  Consistency!Next
  <1> DEFINE p == app[a].path
             copy == Copied(a)
             sent == app[a].sent
  <1>1. /\ Others(a) /\ SessionOf(a)' = NoIno /\ p \in Path /\ copy \in File
        /\ SessionOf(a) = Session(p, copy, app[a].wrote) /\ SessionOf(a) # NoIno
    BY CloseEnds
  <1>2. app[a].at = "closing" /\ Publish(p, sent)
    BY DEF EndClose, SendFails
  <1>3. /\ app[a].wrote = TRUE /\ app[a].ino = Local(a) /\ copy # <<>>
        /\ sent \in File /\ IsPrefixOf(sent, copy)
    BY <1>2, Uploads
  <1>4. StoreOf' = IF sent = <<>> THEN StoreOf ELSE [StoreOf EXCEPT ![p] = sent]
    BY <1>1, <1>2, StorePublishes
  <1>5. SessionOf(a) = Session(p, copy, TRUE)
    BY <1>1, <1>3
  <1>6. EndClose(a) => sent = copy
    <2>1. EndClose(a) => Len(sent) >= Len(copy)
      BY <1>3 DEF EndClose, Copied
    <2>2. QED
      BY <1>1, <1>3, <2>1, PrefixWhole
  <1>7. sent # <<>> => sent \in Consistency!FrontParts(copy)
    BY <1>1, <1>3, FrontPart
  <1>8. SendFails(a) => "disk" \in Faults
    BY DEF SendFails
  <1> HIDE DEF p, copy, sent
  <1>9. CASE EndClose(a)
    <2>1. StoreOf' = [StoreOf EXCEPT ![p] = copy]
      BY <1>3, <1>4, <1>6, <1>9
    <2>2. QED
      BY <1>1, <1>5, <2>1, AbstractClose
  <1>10. CASE SendFails(a) /\ sent = <<>>
    <2>1. StoreOf' = StoreOf /\ Faults \cap {"down", "disk"} # {}
      BY <1>4, <1>8, <1>10
    <2>2. QED
      BY <1>1, <1>5, <2>1, AbstractClose
  <1>11. CASE SendFails(a) /\ sent # <<>>
    <2>1. /\ "disk" \in Faults
          /\ \E t \in Consistency!FrontParts(copy) : StoreOf' = [StoreOf EXCEPT ![p] = t]
      BY <1>4, <1>7, <1>8, <1>11
    <2>2. QED
      BY <1>1, <1>5, <2>1, AbstractClose
  <1>12. QED
    BY <1>9, <1>10, <1>11

\* The names.
LEMMA BeginRenameMaps ==
    ASSUME StateType, NEW a \in App, NEW p \in Path, NEW q \in Path,
           RenameFile(a, p, q) \/ RenameDirectory(a, p, q)
    PROVE  Quiet
  <1>1. /\ app[a].at = "idle" /\ UNCHANGED <<server, local, file>>
        /\ app' = [app EXCEPT ![a] = [at |-> "renaming", path |-> p, to |-> q]]
    BY DEF RenameFile, RenameDirectory, MayRename
  <1>2. /\ app'[a] = [at |-> "renaming", path |-> p, to |-> q]
        /\ \A b \in App : b # a => app'[b] = app[b]
    BY <1>1 DEF StateType, AppType
  <1>3. app'[a].at = "renaming"
    BY <1>2
  <1>4. SessionOf(a)' = SessionOf(a)
    BY <1>1, <1>3, SessionIs, SessionIsNext
  <1>5. QED
    BY <1>1, <1>2, <1>4, OthersRows, AllQuiet

LEMMA RenameEndsMaps ==
    ASSUME StateType, PairInv, NEW a \in App, EndRename(a) \/ RenameLost(a)
    PROVE  Consistency!Next \/ Quiet
  <1> DEFINE p == app[a].path
             q == app[a].to
  <1>1. app'[a] = Idle /\ \A b \in App : b # a => app'[b] = app[b]
    BY RenameEndsPairs
  <1>2. /\ app[a].at = "renaming" /\ UNCHANGED <<data, local, file>>
        /\ \/ dir' = dir
           \/ dir[p] # NoIno /\ dir' = [dir EXCEPT ![q] = dir[p], ![p] = NoIno]
    BY DEF EndRename, RenameLost, server
  <1>3. p \in Path /\ q \in Path /\ p # q
    BY <1>2, AppFields DEF StateType, PairInv, Right
  <1>4. Others(a) /\ SessionOf(a)' = SessionOf(a)
    BY <1>1, <1>2, OthersRows, NoSession, SessionIs
  <1>5. \A b \in App : SessionOf(b)' = SessionOf(b)
    BY <1>4 DEF Others
  <1>6. CASE dir' = dir
    BY <1>2, <1>4, <1>6, AllQuiet DEF server
  <1>7. CASE dir[p] # NoIno /\ dir' = [dir EXCEPT ![q] = dir[p], ![p] = NoIno]
    <2>1. StoreOf[p] # NoIno
      BY <1>3, <1>7, StoreIs
    <2>2. StoreOf' = [StoreOf EXCEPT ![q] = StoreOf[p], ![p] = NoIno]
      <3>1. ASSUME NEW r \in Path
            PROVE  (IF dir'[r] = NoIno THEN NoIno ELSE data'[dir'[r]])
                     = IF r = p THEN NoIno ELSE IF r = q THEN data[dir[p]]
                       ELSE IF dir[r] = NoIno THEN NoIno ELSE data[dir[r]]
        BY <1>2, <1>3, <1>7 DEF StateType, StoreType
      <3>2. StoreOf[p] = data[dir[p]]
        BY <1>3, <1>7, StoreIs
      <3>3. QED
        BY <1>3, <3>1, <3>2 DEF StoreOf
    <2> HIDE DEF p, q
    <2>3. Consistency!Next
      BY <1>3, <1>5, <2>1, <2>2, AbstractNames
    <2>4. QED
      BY <2>3
  <1>8. QED
    BY <1>2, <1>6, <1>7

LEMMA DeleteMaps ==
    ASSUME StateType, NEW a \in App, NEW p \in Path, DeleteFile(a, p) \/ DeleteLost(a, p)
    PROVE  Consistency!Next \/ Quiet
  <1>1. UNCHANGED <<data, local, file, app>>
    BY DEF DeleteFile, DeleteLost, server
  <1>2. \A b \in App : SessionOf(b)' = SessionOf(b)
    BY <1>1, CopySameRows, SessionSame DEF StateType
  <1>3. CASE DeleteFile(a, p)
    <2>1. dir' = [dir EXCEPT ![p] = NoIno]
      BY <1>3 DEF DeleteFile
    <2>2. ASSUME NEW r \in Path
          PROVE  (IF dir'[r] = NoIno THEN NoIno ELSE data'[dir'[r]])
                   = IF r = p THEN NoIno ELSE IF dir[r] = NoIno THEN NoIno
                     ELSE data[dir[r]]
      BY <1>1, <2>1 DEF StateType, StoreType
    <2>3. StoreOf' = [StoreOf EXCEPT ![p] = NoIno]
      BY <2>2 DEF StoreOf
    <2>4. QED
      BY <1>2, <2>3, AbstractNames
  <1>4. CASE DeleteLost(a, p)
    BY <1>2, <1>4, StoreSame DEF DeleteLost, Quiet
  <1>5. QED
    BY <1>3, <1>4

\* The copy that a truncation changes is open in at most one application.
LEMMA TruncateMaps ==
    ASSUME StateType, PairInv, NEW c \in Client, NEW p \in Path, NEW n \in 0 .. MaxLen,
           TruncateFile(c, p, n)
    PROVE  Consistency!Next \/ Quiet
  <1> DEFINE i == cache[c][p].ino
             s == Resized(local[c][i], n)
  <1>1. /\ UNCHANGED <<server, file, app>> /\ local' = [local EXCEPT ![c][i] = s]
        /\ "truncate" \in Faults
    BY DEF TruncateFile
  <1> HIDE DEF s
  <1>2. /\ \A d \in Client : d # c => local'[d] = local[d]
        /\ \A j \in Copy : j # i => local'[c][j] = local[c][j]
        /\ i \in Copy => local'[c][i] = s
    BY <1>1 DEF StateType, LocalType
  <1>3. \A b \in App : /\ HasFile(b) => HasFd(b) /\ Local(b) \in Copy /\ Home[b] \in Client
                       /\ Local(b)' = Local(b)
    BY <1>1, HomeAssumption, LocalType2 DEF HasFd, PairInv, Right, Local
  <1>4. ASSUME NEW b \in App, ~(HasFile(b) /\ Home[b] = c /\ Local(b) = i)
        PROVE  SessionOf(b)' = SessionOf(b)
    <2>1. CopySame(b)
      BY <1>1, <1>2, <1>3, <1>4 DEF CopySame, Copied
    <2>2. QED
      BY <2>1, SessionSame DEF StateType
  <1>5. StoreOf' = StoreOf
    BY <1>1, StoreSame
  <1>6. CASE \E a \in App : HasFile(a) /\ Home[a] = c /\ Local(a) = i
    <2>1. PICK a \in App : HasFile(a) /\ Home[a] = c /\ Local(a) = i
      BY <1>6
    <2>2. Others(a)
      <3>1. ASSUME NEW b \in App, b # a
            PROVE  ~(HasFile(b) /\ Home[b] = c /\ Local(b) = i)
        BY <1>3, <2>1, <3>1 DEF PairInv, Apart
      <3>2. QED
        BY <1>4, <3>1 DEF Others
    <2>3. /\ app[a].path \in Path /\ app[a].wrote \in BOOLEAN
          /\ SessionOf(a) = Session(app[a].path, Copied(a), app[a].wrote)
          /\ SessionOf(a) # NoIno
      BY <2>1, SessionType
    <2>4. Copied(a)' = Resized(Copied(a), n)
      BY <1>2, <1>3, <2>1 DEF Copied, s
    <2>5. SessionOf(a)' = Session(app[a].path, Resized(Copied(a), n), app[a].wrote)
      <3>1. HasFile(a)' /\ app' = app
        BY <1>1, <2>1 DEF HasFile
      <3>2. QED
        BY <2>4, <3>1, SessionIsNext
    <2>6. Consistency!Next
      BY <1>1, <1>5, <2>2, <2>3, <2>5, AbstractChange
    <2>7. QED
      BY <2>6
  <1>7. CASE ~\E a \in App : HasFile(a) /\ Home[a] = c /\ Local(a) = i
    BY <1>4, <1>5, <1>7 DEF Quiet
  <1>8. QED
    BY <1>6, <1>7

LEMMA CrashMaps ==
    ASSUME StateType, PairInv, NEW c \in Client, Crash(c)
    PROVE  Consistency!Next
  <1>1. /\ "crash" \in Faults
        /\ \A a \in App : app'[a] = IF Home[a] = c THEN Idle ELSE app[a]
        /\ \A d \in Client : d # c => local'[d] = local[d] /\ file'[d] = file[d]
    BY DEF Crash, StateType, FileType
  <1>2. ASSUME NEW a \in App
        PROVE  SessionOf(a)' = IF Home[a] = c THEN NoIno ELSE SessionOf(a)
    <2>1. CASE Home[a] = c
      BY <1>1, <2>1, NoSession
    <2>2. CASE Home[a] # c
      <3>1. CopySame(a)
        BY <1>1, <2>2, HomeAssumption, CopySameClient
      <3>2. QED
        BY <2>2, <3>1, SessionSame DEF StateType
    <2>3. QED
      BY <2>1, <2>2
  <1>3. CASE UNCHANGED server
    BY <1>1, <1>2, <1>3, StoreSame, AbstractCrash
  <1>4. ASSUME NEW a \in App, Home[a] = c, app[a].at = "closing",
               Publish(app[a].path, app[a].sent)
        PROVE  Consistency!Next
    <2> DEFINE p == app[a].path
               copy == Copied(a)
               sent == app[a].sent
    <2>1. HasFile(a)
      BY <1>4 DEF HasFile
    <2>2. /\ p \in Path /\ copy \in File /\ SessionOf(a) = Session(p, copy, app[a].wrote)
          /\ SessionOf(a) # NoIno
      BY <2>1, SessionType
    <2>3. app[a].wrote = TRUE /\ sent \in File /\ IsPrefixOf(sent, copy)
      BY <1>4, Uploads
    <2>4. SessionOf(a) = Session(p, copy, TRUE)
      BY <2>2, <2>3
    <2>5. StoreOf' = IF sent = <<>> THEN StoreOf ELSE [StoreOf EXCEPT ![p] = sent]
      BY <1>4, <2>2, StorePublishes
    <2>6. sent # <<>> => sent \in Consistency!FrontParts(copy)
      BY <2>2, <2>3, FrontPart
    <2> HIDE DEF p, copy, sent
    <2>7. CASE sent = <<>>
      BY <1>1, <1>2, <2>5, <2>7, AbstractCrash
    <2>8. CASE sent # <<>>
      <3>1. \E t \in Consistency!FrontParts(copy) : StoreOf' = [StoreOf EXCEPT ![p] = t]
        BY <2>5, <2>6, <2>8
      <3>2. \E b \in App, r \in Path, s \in File :
              /\ Home[b] = c /\ SessionOf(b) # NoIno
              /\ SessionOf(b) = Session(r, s, TRUE)
              /\ \E t \in Consistency!FrontParts(s) : StoreOf' = [StoreOf EXCEPT ![r] = t]
        BY <1>4, <2>2, <2>4, <3>1
      <3>3. QED
        BY <1>1, <1>2, <3>2, AbstractCrash
    <2>9. QED
      BY <2>7, <2>8
  <1>5. QED
    BY <1>3, <1>4 DEF Crash

(***************************************************************************)
(* The steps together.                                                     *)
(***************************************************************************)
LEMMA ApplicationMaps ==
    ASSUME Private, SessionInv, NoEmptying => WriteInv, NEW a \in App,
           Proceed(a) \/ Fail(a) \/ Operation(a)
    PROVE  Consistency!Next \/ Quiet
  <1>1. StateType /\ SemInv /\ PairInv /\ InodesApart
    BY DEF SessionInv, StateInv
  <1>2. CASE Proceed(a)
    BY <1>1, <1>2, OpenLocalCopyMaps, GivesUpMaps, StoreMessageMaps, EndOpenMaps,
       EndCreateMaps, GoesOnMaps, EndCloseMaps, RenameEndsMaps DEF Proceed
  <1>3. CASE Fail(a)
    BY <1>1, <1>3, GivesUpMaps, EndCloseMaps, CloseFailsMaps, RenameEndsMaps DEF Fail
  <1>4. CASE Operation(a)
    <2>1. ASSUME NEW p \in Path, OpenVanished(a, p) PROVE FALSE
      BY <2>1 DEF OpenVanished, Private
    <2>2. ~ReadBadFd(a)
      BY <1>1, NoBadFd
    <2>3. CASE \E p \in Path :
                  \/ OpenFile(a, p) \/ CreateFile(a, p) \/ CreateRefused(a, p)
                  \/ \E truncating \in BOOLEAN : CreateOverExisting(a, p, truncating)
                  \/ CreateLost(a, p) \/ DeleteFile(a, p) \/ DeleteLost(a, p)
                  \/ \E q \in Path : RenameFile(a, p, q) \/ RenameDirectory(a, p, q)
      BY <1>1, <2>3, OpenFileMaps, CreateMaps, CreateLostMaps, DeleteMaps,
         BeginRenameMaps
    <2>4. CASE \/ PWriteFails(a)
               \/ \E k \in 1 .. MaxLen, ch \in Chunk : PWrite(a, k, ch)
      BY <1>1, <2>4, PWriteMaps, PWriteFailsMaps
    <2>5. CASE \E last \in MayBeLast :
                  CloseUnsent(a, last) \/ CloseFile(a, last) \/ CloseNoCopy(a, last)
      BY <1>1, <2>5, CloseUnsentMaps, GoesOnMaps, CloseFailsMaps
    <2>6. QED
      BY <1>4, <2>1, <2>2, <2>3, <2>4, <2>5 DEF Operation
  <1>5. QED
    BY <1>2, <1>3, <1>4

ConsistencyInv == SessionInv /\ (NoEmptying => WriteInv)

LEMMA StepMaps ==
    ASSUME Private, ConsistencyInv, [Next]_vars
    PROVE  [Consistency!Next]_(Consistency!vars)
  <1>1. SessionInv /\ StateType /\ PairInv /\ (NoEmptying => WriteInv)
    BY DEF ConsistencyInv, SessionInv, StateInv
  <1>2. ASSUME NEW a \in App, Proceed(a) \/ Fail(a) \/ Operation(a)
        PROVE  Consistency!Next \/ Quiet
    BY <1>1, <1>2, ApplicationMaps
  <1>3. ASSUME NEW c \in Client, Crash(c) PROVE Consistency!Next
    BY <1>1, <1>3, CrashMaps
  <1>4. ASSUME NEW c \in Client, NEW p \in Path, NEW n \in 0 .. MaxLen,
               TruncateFile(c, p, n)
        PROVE  Consistency!Next \/ Quiet
    BY <1>1, <1>4, TruncateMaps
  <1>5. ASSUME UNCHANGED vars PROVE Quiet
    <2>1. UNCHANGED <<server, local, file, app>>
      BY <1>5 DEF vars, server
    <2>2. \A b \in App : SessionOf(b)' = SessionOf(b)
      BY <1>1, <2>1, CopySameRows, SessionSame DEF StateType
    <2>3. QED
      BY <2>1, <2>2, StoreSame DEF Quiet
  <1>6. Consistency!Next \/ Quiet
    BY <1>2, <1>3, <1>4, <1>5 DEF Next
  <1>7. QED
    BY <1>6, QuietStep

LEMMA InitMaps == Init => Consistency!Init
  <1> SUFFICES ASSUME Init PROVE Consistency!Init
    OBVIOUS
  <1>1. \A a \in App : app[a].at = "idle"
    BY DEF Init, Idle
  <1>2. \A a \in App : SessionOf(a) = NoIno
    BY <1>1, SessionIs
  <1>3. StoreOf = [p \in Path |-> NoIno]
    BY DEF Init, StoreOf
  <1>4. QED
    BY <1>2, <1>3 DEF Consistency!Init

\* The clients and the server implement close-to-open consistency, whatever
\* fails of "down", "crash", "truncate", "late", "refused", "lost" and "disk", and
\* at the price CloseToOpen names for each, as long as no client opens a file
\* twice, moves an open one, finds none behind an open or closes a descriptor
\* twice: an application has what it opened and wrote, all of it goes back at one
\* moment, and nothing else changes a file.
THEOREM ClientsImplementCloseToOpen ==
    ASSUME Private PROVE Spec => ImplementsCloseToOpen
  <1>1. Init => ConsistencyInv
    <2>1. Init => WriteInv
      BY DEF Init, WriteInv, HasFile, Idle
    <2>2. QED
      BY <2>1, SessionInvInit DEF ConsistencyInv
  <1>2. ConsistencyInv /\ [Next]_vars => ConsistencyInv'
    BY SessionInvStep, WriteInvStep DEF ConsistencyInv, NoEmptying
  <1>3. ConsistencyInv /\ [Next]_vars => [Consistency!Next]_(Consistency!vars)
    BY StepMaps
  <1>4. QED
    BY <1>1, <1>2, <1>3, InitMaps, PTL DEF Spec, ImplementsCloseToOpen, Consistency!Spec

=============================================================================
