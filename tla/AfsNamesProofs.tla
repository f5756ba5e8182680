--------------------------- MODULE AfsNamesProofs ---------------------------
(***************************************************************************)
(* Theorems about AfsNames, for every value of its constants.              *)
(***************************************************************************)
EXTENDS AfsNames, TLAPS

Calls == {Idle} \cup UploadCall \cup UnlinkCall \cup ListingCall \cup CutCall

Files == [Name -> File \cup {None}]

\* The parts of TypeOK.
TreeType ==
    /\ dir  \in [Dir -> Id \cup {None}]
    /\ file \in [Id -> Files]
    /\ temp \in [Id -> Files]

CallType == call \in [Client -> Calls]

LEMMA TypeParts ==
    TypeOK <=> TreeType /\ CallType /\ answer \in Answer \cup {None}
  BY DEF TypeOK, TreeType, CallType, Calls, Files

(***************************************************************************)
(* The calls in progress.                                                  *)
(***************************************************************************)

\* The kinds of call are told apart by at.
LEMMA CallKinds ==
    ASSUME CallType, NEW c \in Client
    PROVE  /\ call[c] \in Calls
           /\ call[c].at = "idle" => call[c] = Idle
           /\ call[c].at = "upload" => call[c] \in UploadCall
           /\ call[c].at = "unlink" => call[c] \in UnlinkCall
           /\ call[c].at = "listing" => call[c] \in ListingCall
           /\ call[c].at = "cut" => call[c] \in CutCall
           /\ call[c].at \in {"idle", "upload", "unlink", "listing", "cut"}
  <1>1. call[c] \in Calls
    BY DEF CallType
  <1>2. QED
    BY <1>1 DEF Calls, Idle, UploadCall, UnlinkCall, ListingCall, CutCall

LEMMA ListingInEntry ==
    ASSUME NEW fs, NEW ts
    PROVE  Listing(fs, ts) \subseteq Entry
  BY DEF Listing

\* A listing sees what there is now, every other call nothing.
LEMMA SeenFields ==
    ASSUME CallType, NEW c \in Client
    PROVE  /\ Seen(call[c]) \in Calls
           /\ Seen(call[c]).at = call[c].at
           /\ call[c].at # "listing" => Seen(call[c]) = call[c]
           /\ call[c].at = "listing" =>
                /\ Seen(call[c]).dir = call[c].dir
                /\ Seen(call[c]).id = call[c].id
                /\ Seen(call[c]).cursor = call[c].cursor
                /\ Seen(call[c]).sent = call[c].sent
                /\ Seen(call[c]).ever =
                     call[c].ever \cup Listing(file'[call[c].id], temp'[call[c].id])
                /\ Seen(call[c]).always =
                     call[c].always \cap Listing(file'[call[c].id], temp'[call[c].id])
  <1>1. CASE call[c].at # "listing"
    BY <1>1, CallKinds DEF Seen
  <1>2. CASE call[c].at = "listing"
    <2> DEFINE now == Listing(file'[call[c].id], temp'[call[c].id])
               s1 == [call[c] EXCEPT !.ever = @ \cup now]
               s2 == [s1 EXCEPT !.always = @ \cap now]
    <2>1. call[c] \in ListingCall /\ now \subseteq Entry
      BY <1>2, CallKinds, ListingInEntry
    <2>2. Seen(call[c]) = s2
      BY <1>2 DEF Seen
    <2> HIDE DEF now
    <2>3. /\ s1 \in ListingCall
          /\ s1.at = call[c].at /\ s1.dir = call[c].dir /\ s1.id = call[c].id
          /\ s1.cursor = call[c].cursor /\ s1.sent = call[c].sent
          /\ s1.ever = call[c].ever \cup now /\ s1.always = call[c].always
      BY <2>1 DEF ListingCall
    <2> HIDE DEF s1
    <2>4. /\ s2 \in ListingCall
          /\ s2.at = s1.at /\ s2.dir = s1.dir /\ s2.id = s1.id
          /\ s2.cursor = s1.cursor /\ s2.sent = s1.sent
          /\ s2.ever = s1.ever /\ s2.always = s1.always \cap now
      BY <2>1, <2>3 DEF ListingCall
    <2> HIDE DEF s2
    <2>5. QED
      BY <1>2, <2>2, <2>3, <2>4 DEF Calls, now
  <1>3. QED
    BY <1>1, <1>2

(***************************************************************************)
(* The inductive invariant: its part about the calls.                      *)
(***************************************************************************)

\* IInv but for the answer, on which nothing depends.
Inv ==
    /\ TreeType
    /\ CallType
    /\ DirsNamed
    /\ TempsFull
    /\ UploadsApart
    /\ UploadsInPlace
    /\ ListingsSound

LEMMA InvParts ==
    IInv <=> Inv /\ answer \in Answer \cup {None}
  BY TypeParts DEF IInv, Inv

\* What the upload of client b relies on stays as it is.
PlaceKept(b) ==
    "moved" \notin Faults /\ call[b].at = "upload" =>
        /\ dir'[call[b].dir] = dir[call[b].dir]
        /\ temp'[call[b].id][call[b].name] = temp[call[b].id][call[b].name]

\* The call of client b ends, has published, or goes on.
GoesOn(b) ==
    \/ call'[b].at \in {"idle", "cut"}
    \/ /\ call[b].at \in {"upload", "unlink"}
       /\ call'[b].at = "unlink"
       /\ call'[b].dir = call[b].dir
       /\ call'[b].name = call[b].name
    \/ call'[b] = Seen(call[b]) /\ PlaceKept(b)

\* The call of client b is a new one, for which the invariants hold.
Begins(b) ==
    /\ call'[b].at \in {"upload", "listing"}
    /\ call'[b].at = "upload" =>
        /\ \A a \in Client :
            a # b /\ call'[a].at \in {"upload", "unlink"}
                => <<call'[a].dir, call'[a].name>> # <<call'[b].dir, call'[b].name>>
        /\ "moved" \notin Faults =>
            /\ dir'[call'[b].dir] = call'[b].id
            /\ temp'[call'[b].id][call'[b].name] = [mode |-> Full, by |-> b]
    /\ call'[b].at = "listing" =>
        /\ call'[b].sent \subseteq call'[b].ever
        /\ call'[b].always \subseteq Listing(file'[call'[b].id], temp'[call'[b].id])
        /\ Listing(file'[call'[b].id], temp'[call'[b].id]) \subseteq call'[b].ever
        /\ \A x \in call'[b].always :
            Place[x] <= call'[b].cursor => x \in call'[b].sent

LEMMA CallsGoOn ==
    ASSUME Inv, CallType', \A b \in Client : GoesOn(b) \/ Begins(b)
    PROVE  UploadsApart' /\ UploadsInPlace' /\ ListingsSound'
  <1>0. CallType
    BY DEF Inv
  <1>1. ASSUME NEW b \in Client, call'[b].at \in {"upload", "unlink"}, ~Begins(b)
        PROVE  /\ call[b].at \in {"upload", "unlink"}
               /\ call'[b].dir = call[b].dir
               /\ call'[b].name = call[b].name
    BY <1>0, <1>1, SeenFields DEF GoesOn
  <1>2. UploadsApart'
    <2>1. SUFFICES ASSUME NEW a \in Client, NEW b \in Client, a # b,
                          call'[a].at \in {"upload", "unlink"},
                          call'[b].at \in {"upload", "unlink"}
                   PROVE  <<call'[a].dir, call'[a].name>> # <<call'[b].dir, call'[b].name>>
      BY DEF UploadsApart
    <2>2. CASE Begins(a) \/ Begins(b)
      BY <2>1, <2>2 DEF Begins
    <2>3. CASE ~Begins(a) /\ ~Begins(b)
      BY <1>1, <2>1, <2>3 DEF Inv, UploadsApart
    <2>4. QED
      BY <2>2, <2>3
  <1>3. UploadsInPlace'
    <2>1. SUFFICES ASSUME "moved" \notin Faults, NEW b \in Client, call'[b].at = "upload"
                   PROVE  /\ dir'[call'[b].dir] = call'[b].id
                          /\ temp'[call'[b].id][call'[b].name] = [mode |-> Full, by |-> b]
      BY DEF UploadsInPlace
    <2>2. CASE Begins(b)
      BY <2>1, <2>2 DEF Begins
    <2>3. CASE GoesOn(b)
      <3>1. call'[b] = call[b] /\ PlaceKept(b)
        BY <1>0, <2>1, <2>3, SeenFields DEF GoesOn
      <3>2. QED
        BY <2>1, <3>1 DEF Inv, UploadsInPlace, PlaceKept
    <2>4. QED
      BY <2>2, <2>3
  <1>4. ListingsSound'
    <2>1. SUFFICES ASSUME NEW b \in Client, call'[b].at = "listing"
                   PROVE  /\ call'[b].sent \subseteq call'[b].ever
                          /\ call'[b].always \subseteq
                               Listing(file'[call'[b].id], temp'[call'[b].id])
                          /\ Listing(file'[call'[b].id], temp'[call'[b].id])
                               \subseteq call'[b].ever
                          /\ \A x \in call'[b].always :
                               Place[x] <= call'[b].cursor => x \in call'[b].sent
      BY DEF ListingsSound
    <2>2. CASE Begins(b)
      BY <2>1, <2>2 DEF Begins
    <2>3. CASE GoesOn(b)
      <3>1. call'[b] = Seen(call[b]) /\ call[b].at = "listing"
        BY <1>0, <2>1, <2>3, SeenFields DEF GoesOn
      <3>2. /\ call'[b].id = call[b].id
            /\ call'[b].cursor = call[b].cursor
            /\ call'[b].sent = call[b].sent
            /\ call'[b].ever =
                 call[b].ever \cup Listing(file'[call[b].id], temp'[call[b].id])
            /\ call'[b].always =
                 call[b].always \cap Listing(file'[call[b].id], temp'[call[b].id])
        BY <1>0, <3>1, SeenFields
      <3>3. /\ call[b].sent \subseteq call[b].ever
            /\ \A x \in call[b].always :
                 Place[x] <= call[b].cursor => x \in call[b].sent
        BY <3>1 DEF Inv, ListingsSound
      <3>4. QED
        BY <3>2, <3>3
    <2>4. QED
      BY <2>2, <2>3
  <1>5. QED
    BY <1>2, <1>3, <1>4

LEMMA OthersGoOn ==
    ASSUME CallType, Others
    PROVE  CallType' /\ \A b \in Client : call'[b] = Seen(call[b])
  BY SeenFields DEF Others, CallType

LEMMA BecomesGoOn ==
    ASSUME CallType, NEW c \in Client, NEW k \in Calls, Becomes(c, k)
    PROVE  /\ CallType'
           /\ call'[c] = k
           /\ \A b \in Client : b # c => call'[b] = Seen(call[b])
  BY SeenFields DEF Becomes, CallType

LEMMA InitInv == Init => IInv
  <1>1. SUFFICES ASSUME Init PROVE IInv
    OBVIOUS
  <1>2. TreeType /\ CallType /\ answer \in Answer \cup {None}
    BY <1>1 DEF Init, TreeType, CallType, Calls, Files, NoFiles
  <1>3. \A c \in Client : call[c].at = "idle"
    BY <1>1 DEF Init, Idle
  <1>4. DirsNamed /\ TempsFull
    BY <1>1 DEF Init, DirsNamed, TempsFull, IsEmpty, NoFiles
  <1>5. UploadsApart /\ UploadsInPlace /\ ListingsSound
    BY <1>3 DEF UploadsApart, UploadsInPlace, ListingsSound
  <1>6. QED
    BY <1>2, <1>4, <1>5, InvParts DEF Inv

(***************************************************************************)
(* Its part about the tree, and what uploads rely on.                      *)
(***************************************************************************)
TreeGoesOn ==
    /\ TreeType'
    /\ DirsNamed'
    /\ TempsFull'
    /\ \A b \in Client : PlaceKept(b)

\* Without "moved" the directory of an upload has its name and is not empty.
LEMMA UploadPlace ==
    ASSUME Inv, "moved" \notin Faults, NEW b \in Client, call[b].at = "upload"
    PROVE  /\ call[b].dir \in Dir /\ call[b].name \in Name /\ call[b].id \in Id
           /\ dir[call[b].dir] = call[b].id
           /\ ~IsEmpty(call[b].id)
           /\ Uploading(call[b].dir)
  <1>1. call[b].dir \in Dir /\ call[b].name \in Name /\ call[b].id \in Id
    BY CallKinds DEF Inv, UploadCall
  <1>2. /\ dir[call[b].dir] = call[b].id
        /\ temp[call[b].id][call[b].name] = [mode |-> Full, by |-> b]
    BY DEF Inv, UploadsInPlace
  <1>3. temp[call[b].id][call[b].name] # None
    BY <1>2, NoneAssumption, ModeAssumption
  <1>4. QED
    BY <1>1, <1>2, <1>3 DEF IsEmpty, NoFiles, Uploading

LEMMA SameTree ==
    ASSUME Inv, UNCHANGED tree
    PROVE  TreeGoesOn
  BY DEF Inv, tree, TreeGoesOn, TreeType, DirsNamed, TempsFull, IsEmpty, PlaceKept

LEMMA MkdirTree ==
    ASSUME Inv, NEW d \in Dir, mkdir(d)
    PROVE  TreeGoesOn
  <1>1. PICK i \in Id : FreeId(i) /\ dir' = [dir EXCEPT ![d] = i]
    BY DEF mkdir
  <1>2. /\ dir[d] = None /\ file' = file /\ temp' = temp
        /\ dir'[d] = i /\ \A e \in Dir : e # d => dir'[e] = dir[e]
    BY <1>1 DEF mkdir, Inv, TreeType
  <1>3. TreeType'
    BY <1>1, <1>2 DEF Inv, TreeType
  <1>4. DirsNamed'
    BY <1>1, <1>2, NoneAssumption DEF Inv, DirsNamed, IsEmpty, FreeId
  <1>5. TempsFull'
    BY <1>2 DEF Inv, TempsFull
  <1>6. ASSUME NEW b \in Client PROVE PlaceKept(b)
    BY <1>2, UploadPlace, NoneAssumption DEF PlaceKept
  <1>7. QED
    BY <1>3, <1>4, <1>5, <1>6 DEF TreeGoesOn

LEMMA RmdirTree ==
    ASSUME Inv, NEW d \in Dir, rmdir(d)
    PROVE  TreeGoesOn
  <1>1. /\ dir[d] \in Id /\ IsEmpty(dir[d])
        /\ file' = file /\ temp' = temp
        /\ dir'[d] = None /\ \A e \in Dir : e # d => dir'[e] = dir[e]
    BY DEF rmdir, Removable, Vacant, Inv, TreeType
  <1>2. TreeType'
    BY <1>1 DEF rmdir, Inv, TreeType
  <1>3. DirsNamed'
    BY <1>1 DEF Inv, DirsNamed, IsEmpty
  <1>4. TempsFull'
    BY <1>1 DEF Inv, TempsFull
  <1>5. ASSUME NEW b \in Client PROVE PlaceKept(b)
    BY <1>1, UploadPlace DEF PlaceKept
  <1>6. QED
    BY <1>2, <1>3, <1>4, <1>5 DEF TreeGoesOn

LEMMA RenameDirTree ==
    ASSUME Inv, NEW d \in Dir, NEW e \in Dir, d # e, renameDir(d, e),
           "moved" \in Faults \/ (~Uploading(d) /\ ~Uploading(e))
    PROVE  TreeGoesOn
  <1>1. /\ dir[d] \in Id
        /\ \A i \in Id : dir[e] = i => IsEmpty(i)
        /\ file' = file /\ temp' = temp
        /\ dir'[d] = None /\ dir'[e] = dir[d]
        /\ \A x \in Dir : x # d /\ x # e => dir'[x] = dir[x]
    BY DEF renameDir, Vacant, Inv, TreeType
  <1>2. TreeType'
    BY <1>1 DEF renameDir, Inv, TreeType
  <1>3. DirsNamed'
    <2>1. ASSUME NEW x \in Dir, NEW y \in Dir, dir'[x] # None, dir'[x] = dir'[y]
          PROVE  x = y
      BY <1>1, <2>1 DEF Inv, DirsNamed
    <2>2. ASSUME NEW i \in Id, \A x \in Dir : dir'[x] # i
          PROVE  IsEmpty(i)
      <3>1. \A x \in Dir : x # e => dir[x] # i
        BY <1>1, <2>2
      <3>2. QED
        BY <1>1, <3>1 DEF Inv, DirsNamed
    <2>3. QED
      BY <1>1, <2>1, <2>2 DEF DirsNamed, IsEmpty
  <1>4. TempsFull'
    BY <1>1 DEF Inv, TempsFull
  <1>5. ASSUME NEW b \in Client PROVE PlaceKept(b)
    BY <1>1, UploadPlace DEF PlaceKept
  <1>6. QED
    BY <1>2, <1>3, <1>4, <1>5 DEF TreeGoesOn

\* Files change in directories that have a name.
LEMMA FileTree ==
    ASSUME Inv, UNCHANGED <<dir, temp>>, file' \in [Id -> Files],
           \A i \in Id : (\A d \in Dir : dir[d] # i) => file'[i] = file[i]
    PROVE  TreeGoesOn
  BY DEF Inv, TreeGoesOn, TreeType, DirsNamed, TempsFull, IsEmpty, PlaceKept

LEMMA PutTree ==
    ASSUME Inv, NEW d \in Dir, NEW n \in Name, NEW f \in File \cup {None},
           put(d, n, f)
    PROVE  TreeGoesOn
  <1>1. file' = [file EXCEPT ![dir[d]][n] = f] /\ dir[d] \in Id
    BY DEF put, Inv, TreeType
  <1>2. file' \in [Id -> Files]
    BY <1>1 DEF Inv, TreeType, Files
  <1>3. \A i \in Id : i # dir[d] => file'[i] = file[i]
    BY <1>1 DEF Inv, TreeType
  <1>4. QED
    BY <1>2, <1>3, FileTree DEF put

LEMMA RenameFileTree ==
    ASSUME Inv, NEW d \in Dir, NEW n \in Name, NEW e \in Dir, NEW k \in Name,
           renameFile(d, n, e, k)
    PROVE  TreeGoesOn
  <1> DEFINE f1 == [file EXCEPT ![dir[e]][k] = file[dir[d]][n]]
  <1>1. dir[d] \in Id /\ dir[e] \in Id
    BY DEF renameFile, Has, Inv, TreeType
  <1>2. file' = [f1 EXCEPT ![dir[d]][n] = None]
    BY DEF renameFile
  <1>3. f1 \in [Id -> Files] /\ \A i \in Id : i # dir[e] => f1[i] = file[i]
    BY <1>1 DEF Inv, TreeType, Files
  <1> HIDE DEF f1
  <1>4. file' \in [Id -> Files] /\ \A i \in Id : i # dir[d] => file'[i] = f1[i]
    BY <1>1, <1>2, <1>3 DEF Files
  <1>5. QED
    BY <1>3, <1>4, FileTree DEF renameFile

(***************************************************************************)
(* The steps.                                                              *)
(***************************************************************************)
LEMMA InvFrom ==
    ASSUME Inv, TreeGoesOn, CallType', \A b \in Client : GoesOn(b) \/ Begins(b)
    PROVE  Inv'
  BY CallsGoOn DEF Inv, TreeGoesOn

LEMMA OthersInv ==
    ASSUME Inv, TreeGoesOn, Others
    PROVE  Inv'
  BY OthersGoOn, InvFrom DEF Inv, GoesOn, TreeGoesOn

LEMMA SameInv ==
    ASSUME Inv, UNCHANGED <<tree, call>>
    PROVE  Inv'
  BY DEF Inv, tree, TreeType, CallType, DirsNamed, TempsFull, IsEmpty, UploadsApart,
         UploadsInPlace, ListingsSound

\* The stream of client c is over.
LEMMA IdleInv ==
    ASSUME Inv, UNCHANGED tree, NEW c \in Client, Becomes(c, Idle)
    PROVE  Inv'
  <1>1. Idle \in Calls /\ Idle.at = "idle"
    BY DEF Calls, Idle
  <1>2. /\ CallType' /\ call'[c] = Idle
        /\ \A b \in Client : b # c => call'[b] = Seen(call[b])
    BY <1>1, BecomesGoOn DEF Inv
  <1>3. \A b \in Client : GoesOn(b)
    BY <1>1, <1>2, SameTree DEF GoesOn, TreeGoesOn
  <1>4. QED
    BY <1>2, <1>3, SameTree, InvFrom

LEMMA DirOperationInv ==
    ASSUME Inv, NEW c \in Client, NEW d \in Dir,
           \/ CreateDir(c, d) \/ RemoveDir(c, d)
           \/ \E e \in Dir : RenameDir(c, d, e)
           \/ GetAttrDir(c, d) \/ OpenDir(c, d)
    PROVE  Inv'
  <1>1. CASE UNCHANGED <<tree, call>>
    BY <1>1, SameInv
  <1>2. CASE mkdir(d) /\ Others
    BY <1>2, MkdirTree, OthersInv
  <1>3. CASE rmdir(d) /\ Others
    BY <1>3, RmdirTree, OthersInv
  <1>4. ASSUME NEW e \in Dir, RenameDir(c, d, e) PROVE Inv'
    <2>1. CASE renameDir(d, e) /\ Others
      BY <1>4, <2>1, RenameDirTree, OthersInv DEF RenameDir
    <2>2. QED
      BY <1>1, <1>4, <2>1 DEF RenameDir, Refused
  <1>5. QED
    BY <1>1, <1>2, <1>3, <1>4 DEF CreateDir, RemoveDir, GetAttrDir, OpenDir, Refused

LEMMA FileOperationInv ==
    ASSUME Inv, NEW c \in Client, NEW d \in Dir, NEW n \in Name,
           \/ \E m \in Mode : CreateFile(c, d, n, m) \/ Chmod(c, d, n, m)
           \/ \E e \in Dir, k \in Name : RenameFile(c, d, n, e, k)
           \/ DeleteFile(c, d, n)
           \/ GetAttr(c, d, n) \/ GetAttrCached(c, d, n) \/ AccessFile(c, d, n)
    PROVE  Inv'
  <1>1. CASE UNCHANGED <<tree, call>>
    BY <1>1, SameInv
  <1>2. ASSUME NEW f \in File \cup {None}, put(d, n, f), Others PROVE Inv'
    BY <1>2, PutTree, OthersInv
  <1>3. ASSUME Has(d, n) PROVE file[dir[d]][n] \in File
    BY <1>3 DEF Has, Inv, TreeType, Files
  <1>4. ASSUME NEW m \in Mode, CreateFile(c, d, n, m) PROVE Inv'
    <2>1. CASE put(d, n, [mode |-> m, by |-> c]) /\ Others
      <3>1. [mode |-> m, by |-> c] \in File
        BY DEF File
      <3>2. QED
        BY <1>2, <2>1, <3>1
    <2>2. CASE Has(d, n) /\ put(d, n, [file[dir[d]][n] EXCEPT !.by = c]) /\ Others
      <3>1. [file[dir[d]][n] EXCEPT !.by = c] \in File
        BY <1>3, <2>2 DEF File
      <3>2. QED
        BY <1>2, <2>2, <3>1
    <2>3. CASE UNCHANGED tree /\ Others
      BY <2>3, SameTree, OthersInv
    <2>4. CASE Refused("create", <<d, n>>)
      BY <1>1, <2>4 DEF Refused
    <2>5. QED
      BY <1>4, <2>1, <2>2, <2>3, <2>4 DEF CreateFile
  <1>5. ASSUME NEW m \in Mode, Chmod(c, d, n, m) PROVE Inv'
    <2>1. CASE Has(d, n) /\ put(d, n, [file[dir[d]][n] EXCEPT !.mode = m]) /\ Others
      <3>1. [file[dir[d]][n] EXCEPT !.mode = m] \in File
        BY <1>3, <2>1 DEF File
      <3>2. QED
        BY <1>2, <2>1, <3>1
    <2>2. QED
      BY <1>1, <1>5, <2>1 DEF Chmod, Refused
  <1>6. ASSUME NEW e \in Dir, NEW k \in Name, RenameFile(c, d, n, e, k) PROVE Inv'
    <2>1. CASE renameFile(d, n, e, k) /\ Others
      BY <2>1, RenameFileTree, OthersInv
    <2>2. QED
      BY <1>1, <1>6, <2>1 DEF RenameFile, Refused
  <1>7. CASE DeleteFile(c, d, n)
    BY <1>1, <1>2, <1>7 DEF DeleteFile, Refused
  <1>8. QED
    BY <1>1, <1>4, <1>5, <1>6, <1>7 DEF GetAttr, GetAttrCached, AccessFile

LEMMA CloseFileInv ==
    ASSUME Inv, NEW c \in Client, NEW d \in Dir, NEW n \in Name, CloseFile(c, d, n)
    PROVE  Inv'
  <1> DEFINE i == dir[d]
             f == [mode |-> Full, by |-> c]
             k == [at |-> "upload", dir |-> d, name |-> n, id |-> dir[d]]
  <1>1. i \in Id /\ f \in File /\ f.mode = Full /\ ~Overlaps(d, n)
    BY ModeAssumption DEF CloseFile, Inv, TreeType, File
  <1>2. /\ temp' = [temp EXCEPT ![i][n] = f]
        /\ dir' = dir /\ file' = file
        /\ Becomes(c, k)
    BY DEF CloseFile
  <1>3. k \in Calls /\ k.at = "upload" /\ k.dir = d /\ k.name = n /\ k.id = i
    BY <1>1 DEF Calls, UploadCall
  <1>4. /\ CallType' /\ call'[c] = k
        /\ \A b \in Client : b # c => call'[b] = Seen(call[b])
    BY <1>2, <1>3, BecomesGoOn DEF Inv
  <1> HIDE DEF k, f
  <1>5. /\ temp' \in [Id -> Files]
        /\ temp'[i][n] = f
        /\ \A j \in Id : \A x \in Name :
             <<j, x>> # <<i, n>> => temp'[j][x] = temp[j][x]
        /\ \A j \in Id : j # i => temp'[j] = temp[j]
    BY <1>1, <1>2 DEF Inv, TreeType, Files
  <1>6. ASSUME NEW b \in Client PROVE PlaceKept(b)
    <2>1. SUFFICES ASSUME "moved" \notin Faults, call[b].at = "upload"
                   PROVE  temp'[call[b].id][call[b].name] = temp[call[b].id][call[b].name]
      BY <1>2 DEF PlaceKept
    <2>2. <<call[b].id, call[b].name>> # <<i, n>>
      BY <1>1, <2>1 DEF Overlaps
    <2>3. QED
      BY <1>5, <2>1, <2>2, UploadPlace
  <1>7. TreeGoesOn
    <2>1. TreeType'
      BY <1>2, <1>5 DEF Inv, TreeType
    <2>2. DirsNamed'
      BY <1>2, <1>5 DEF Inv, DirsNamed, IsEmpty
    <2>3. TempsFull'
      BY <1>1, <1>5 DEF Inv, TempsFull
    <2>4. QED
      BY <1>6, <2>1, <2>2, <2>3 DEF TreeGoesOn
  <1>8. Begins(c)
    <2>1. ASSUME NEW a \in Client, a # c, call'[a].at \in {"upload", "unlink"}
          PROVE  <<call'[a].dir, call'[a].name>> # <<d, n>>
      <3>1. call'[a] = call[a]
        BY <1>4, <2>1, SeenFields DEF Inv
      <3>2. QED
        BY <1>1, <2>1, <3>1 DEF Overlaps
    <2>2. QED
      BY <1>1, <1>2, <1>3, <1>4, <1>5, <2>1 DEF Begins, f
  <1>9. \A b \in Client : b # c => GoesOn(b)
    BY <1>4, <1>6 DEF GoesOn
  <1>10. QED
    BY <1>4, <1>7, <1>8, <1>9, InvFrom

LEMMA EndUploadInv ==
    ASSUME Inv, NEW c \in Client, EndUpload(c)
    PROVE  Inv'
  <1> DEFINE d == call[c].dir
             n == call[c].name
             i == dir[d]
             k == [at |-> "unlink", dir |-> d, name |-> n]
  <1>1. call[c].at = "upload" /\ d \in Dir /\ n \in Name
    BY CallKinds DEF EndUpload, Inv, UploadCall
  <1>2. CASE i = None \/ temp[i][n] = None
    BY <1>2, IdleInv DEF EndUpload
  <1>3. CASE i # None /\ temp[i][n] # None
    <2>1. /\ file' = [file EXCEPT ![i][n] = temp[i][n]]
          /\ temp' = [temp EXCEPT ![i][n] = None]
          /\ dir' = dir
          /\ Becomes(c, k)
      BY <1>3 DEF EndUpload
    <2>2. i \in Id /\ temp[i][n] \in File
      BY <1>1, <1>3 DEF Inv, TreeType, Files
    <2>3. k \in Calls /\ k.at = "unlink" /\ k.dir = d /\ k.name = n
      BY <1>1 DEF Calls, UnlinkCall
    <2>4. /\ CallType' /\ call'[c] = k
          /\ \A b \in Client : b # c => call'[b] = Seen(call[b])
      BY <2>1, <2>3, BecomesGoOn DEF Inv
    <2> HIDE DEF k
    <2>5. /\ file' \in [Id -> Files] /\ temp' \in [Id -> Files]
          /\ \A j \in Id : \A x \in Name :
               <<j, x>> # <<i, n>> => temp'[j][x] = temp[j][x]
          /\ temp'[i][n] = None
          /\ \A j \in Id : j # i => temp'[j] = temp[j] /\ file'[j] = file[j]
      BY <1>1, <2>1, <2>2 DEF Inv, TreeType, Files
    <2>6. ASSUME NEW b \in Client, b # c PROVE PlaceKept(b)
      <3>1. SUFFICES ASSUME "moved" \notin Faults, call[b].at = "upload"
                     PROVE  temp'[call[b].id][call[b].name] = temp[call[b].id][call[b].name]
        BY <2>1, <2>6 DEF PlaceKept
      <3>2. /\ call[b].dir \in Dir /\ call[b].name \in Name /\ call[b].id \in Id
            /\ dir[call[b].dir] = call[b].id
        BY <3>1, UploadPlace
      <3>3. <<call[b].dir, call[b].name>> # <<d, n>>
        BY <1>1, <2>6, <3>1 DEF Inv, UploadsApart
      <3>4. <<call[b].id, call[b].name>> # <<i, n>>
        BY <1>1, <2>2, <3>2, <3>3, NoneAssumption DEF Inv, DirsNamed
      <3>5. QED
        BY <2>5, <3>2, <3>4
    <2>7. TreeType' /\ DirsNamed' /\ TempsFull'
      <3>1. TreeType'
        BY <2>1, <2>5 DEF Inv, TreeType
      <3>2. DirsNamed'
        BY <1>1, <2>1, <2>5 DEF Inv, DirsNamed, IsEmpty
      <3>3. TempsFull'
        BY <2>5 DEF Inv, TempsFull
      <3>4. QED
        BY <3>1, <3>2, <3>3
    <2>8. \A b \in Client : GoesOn(b)
      BY <1>1, <2>3, <2>4, <2>6 DEF GoesOn
    <2>9. UploadsApart' /\ UploadsInPlace' /\ ListingsSound'
      BY <2>4, <2>8, CallsGoOn
    <2>10. QED
      BY <2>4, <2>7, <2>9 DEF Inv
  <1>4. QED
    BY <1>2, <1>3

LEMMA UnlinkTempInv ==
    ASSUME Inv, NEW c \in Client, UnlinkTemp(c)
    PROVE  Inv'
  <1> DEFINE d == call[c].dir
             n == call[c].name
             i == dir[d]
  <1>1. call[c].at = "unlink" /\ d \in Dir /\ n \in Name /\ Becomes(c, Idle)
    BY CallKinds DEF UnlinkTemp, Inv, UnlinkCall
  <1>2. CASE i = None
    BY <1>1, <1>2, IdleInv DEF UnlinkTemp, tree
  <1>3. CASE i # None
    <2>1. temp' = [temp EXCEPT ![i][n] = None] /\ dir' = dir /\ file' = file /\ i \in Id
      BY <1>1, <1>3 DEF UnlinkTemp, Inv, TreeType
    <2>2. /\ temp' \in [Id -> Files]
          /\ \A j \in Id : \A x \in Name :
               <<j, x>> # <<i, n>> => temp'[j][x] = temp[j][x]
          /\ temp'[i][n] = None
          /\ \A j \in Id : j # i => temp'[j] = temp[j]
      BY <1>1, <2>1 DEF Inv, TreeType, Files
    <2>3. ASSUME NEW b \in Client PROVE PlaceKept(b)
      <3>1. SUFFICES ASSUME "moved" \notin Faults, call[b].at = "upload"
                     PROVE  temp'[call[b].id][call[b].name] = temp[call[b].id][call[b].name]
        BY <2>1 DEF PlaceKept
      <3>2. /\ call[b].dir \in Dir /\ call[b].name \in Name /\ call[b].id \in Id
            /\ dir[call[b].dir] = call[b].id
        BY <3>1, UploadPlace
      <3>3. <<call[b].dir, call[b].name>> # <<d, n>>
        BY <1>1, <3>1 DEF Inv, UploadsApart
      <3>4. <<call[b].id, call[b].name>> # <<i, n>>
        BY <1>1, <2>1, <3>2, <3>3, NoneAssumption DEF Inv, DirsNamed
      <3>5. QED
        BY <2>2, <3>2, <3>4
    <2>4. TreeGoesOn
      <3>1. TreeType'
        BY <2>1, <2>2 DEF Inv, TreeType
      <3>2. DirsNamed'
        BY <1>1, <2>1, <2>2 DEF Inv, DirsNamed, IsEmpty
      <3>3. TempsFull'
        BY <2>2 DEF Inv, TempsFull
      <3>4. QED
        BY <2>3, <3>1, <3>2, <3>3 DEF TreeGoesOn
    <2>5. Idle \in Calls /\ Idle.at = "idle"
      BY DEF Calls, Idle
    <2>6. /\ CallType' /\ call'[c] = Idle
          /\ \A b \in Client : b # c => call'[b] = Seen(call[b])
      BY <1>1, <2>5, BecomesGoOn DEF Inv
    <2>7. \A b \in Client : GoesOn(b)
      BY <2>3, <2>5, <2>6 DEF GoesOn
    <2>8. QED
      BY <2>4, <2>6, <2>7, InvFrom
  <1>4. QED
    BY <1>2, <1>3

LEMMA ReadDirInv ==
    ASSUME Inv, NEW c \in Client, NEW d \in Dir, ReadDir(c, d)
    PROVE  Inv'
  <1>1. CASE dir[d] = None
    BY <1>1, SameInv DEF ReadDir
  <1>2. CASE dir[d] # None
    <2> DEFINE now == Listing(file[dir[d]], temp[dir[d]])
               k == [at |-> "listing", dir |-> d, id |-> dir[d], cursor |-> 0,
                     sent |-> {}, ever |-> now, always |-> now]
    <2>1. Becomes(c, k) /\ UNCHANGED tree /\ dir[d] \in Id
      BY <1>2 DEF ReadDir, Inv, TreeType
    <2>2. /\ k \in Calls
          /\ k.at = "listing" /\ k.id = dir[d] /\ k.cursor = 0 /\ k.sent = {}
          /\ k.ever = now /\ k.always = now
      BY <2>1, ListingInEntry DEF Calls, ListingCall
    <2> HIDE DEF k
    <2>3. /\ CallType' /\ call'[c] = k
          /\ \A b \in Client : b # c => call'[b] = Seen(call[b])
      BY <2>1, <2>2, BecomesGoOn DEF Inv
    <2>4. \A x \in Entry : ~(Place[x] <= 0)
      BY PlaceAssumption
    <2>5. Begins(c)
      BY <2>1, <2>2, <2>3, <2>4, ListingInEntry DEF Begins, tree
    <2>6. \A b \in Client : b # c => GoesOn(b)
      BY <2>1, <2>3, SameTree DEF GoesOn, TreeGoesOn
    <2>7. QED
      BY <2>1, <2>3, <2>5, <2>6, SameTree, InvFrom
  <1>3. QED
    BY <1>1, <1>2

LEMMA SendEntryInv ==
    ASSUME Inv, NEW c \in Client, SendEntry(c)
    PROVE  Inv'
  <1> DEFINE now == Listing(file[call[c].id], temp[call[c].id])
  <1>1. PICK x \in Left(call[c]) :
          /\ \A y \in Left(call[c]) : Place[x] <= Place[y]
          /\ call' = [call EXCEPT ![c].cursor = Place[x], ![c].sent = @ \cup {x}]
    BY DEF SendEntry
  <1>2. UNCHANGED tree /\ call[c] \in ListingCall /\ call[c].at = "listing"
    BY CallKinds DEF SendEntry, Inv
  <1>3. x \in now /\ x \in Entry /\ Place[x] \in Nat /\ call[c].cursor \in Nat
    BY <1>1, <1>2, ListingInEntry, PlaceAssumption DEF Left, ListingCall
  <1> DEFINE k1 == [call[c] EXCEPT !.cursor = Place[x]]
             k == [k1 EXCEPT !.sent = @ \cup {x}]
  <1>4. call' = [call EXCEPT ![c] = k]
    BY <1>1, <1>2 DEF Inv, CallType
  <1>5. /\ k1 \in ListingCall /\ k1.at = "listing"
        /\ k1.id = call[c].id /\ k1.cursor = Place[x] /\ k1.sent = call[c].sent
        /\ k1.ever = call[c].ever /\ k1.always = call[c].always
    BY <1>2, <1>3 DEF ListingCall
  <1> HIDE DEF k1
  <1>6. /\ k \in ListingCall /\ k.at = "listing"
        /\ k.id = k1.id /\ k.cursor = k1.cursor /\ k.sent = k1.sent \cup {x}
        /\ k.ever = k1.ever /\ k.always = k1.always
    BY <1>3, <1>5 DEF ListingCall
  <1> HIDE DEF k
  <1>7. CallType' /\ call'[c] = k /\ \A b \in Client : b # c => call'[b] = call[b]
    BY <1>4, <1>6 DEF Inv, CallType, Calls
  <1>8. /\ call[c].sent \subseteq call[c].ever
        /\ call[c].always \subseteq now /\ now \subseteq call[c].ever
        /\ \A y \in call[c].always : Place[y] <= call[c].cursor => y \in call[c].sent
    BY <1>2 DEF Inv, ListingsSound
  <1>9. ASSUME NEW y \in call[c].always, Place[y] <= Place[x]
        PROVE  y \in k.sent
    <2>1. y \in now /\ y \in Entry /\ Place[y] \in Nat
      BY <1>8, ListingInEntry, PlaceAssumption
    <2>2. CASE Place[y] <= call[c].cursor
      BY <1>5, <1>6, <1>8, <2>2
    <2>3. CASE ~(Place[y] <= call[c].cursor)
      <3>1. y \in Left(call[c])
        BY <1>3, <2>1, <2>3 DEF Left
      <3>2. Place[y] = Place[x]
        BY <1>1, <1>3, <1>9, <2>1, <3>1
      <3>3. y = x
        BY <1>3, <2>1, <3>2, PlaceAssumption
      <3>4. QED
        BY <1>6, <3>3
    <2>4. QED
      BY <2>2, <2>3
  <1>10. UploadsApart' /\ UploadsInPlace'
    BY <1>2, <1>6, <1>7 DEF Inv, UploadsApart, UploadsInPlace, tree
  <1>11. ListingsSound'
    <2>1. ASSUME NEW b \in Client, b # c, call'[b].at = "listing"
          PROVE  /\ call'[b].sent \subseteq call'[b].ever
                 /\ call'[b].always \subseteq
                      Listing(file'[call'[b].id], temp'[call'[b].id])
                 /\ Listing(file'[call'[b].id], temp'[call'[b].id]) \subseteq call'[b].ever
                 /\ \A y \in call'[b].always :
                      Place[y] <= call'[b].cursor => y \in call'[b].sent
      BY <1>2, <1>7, <2>1 DEF Inv, ListingsSound, tree
    <2>2. /\ k.sent \subseteq k.ever
          /\ k.always \subseteq Listing(file'[k.id], temp'[k.id])
          /\ Listing(file'[k.id], temp'[k.id]) \subseteq k.ever
          /\ \A y \in k.always : Place[y] <= k.cursor => y \in k.sent
      BY <1>2, <1>3, <1>5, <1>6, <1>8, <1>9 DEF tree
    <2>3. QED
      BY <1>7, <2>1, <2>2 DEF ListingsSound
  <1>12. QED
    BY <1>2, <1>7, <1>10, <1>11, SameTree DEF Inv, TreeGoesOn

LEMMA CrashInv ==
    ASSUME Inv, Crash
    PROVE  Inv'
  <1>1. UNCHANGED tree /\ call' = [c \in Client |-> Cut(call[c])]
    BY DEF Crash
  <1>2. ASSUME NEW c \in Client
        PROVE  call'[c] \in Calls /\ (call'[c].at \in {"idle", "cut"})
    <2>1. CASE call[c].at = "upload"
      <3>1. call'[c] = [at |-> "cut", op |-> "close", path |-> <<call[c].dir, call[c].name>>]
        BY <1>1, <2>1 DEF Cut
      <3>2. call[c].dir \in Dir /\ call[c].name \in Name
        BY <2>1, CallKinds DEF Inv, UploadCall
      <3>3. QED
        BY <3>1, <3>2 DEF Calls, CutCall, Path
    <2>2. CASE call[c].at = "listing"
      <3>1. call'[c] = [at |-> "cut", op |-> "readdir", path |-> call[c].dir]
        BY <1>1, <2>2 DEF Cut
      <3>2. call[c].dir \in Dir
        BY <2>2, CallKinds DEF Inv, ListingCall
      <3>3. QED
        BY <3>1, <3>2 DEF Calls, CutCall
    <2>3. CASE call[c].at = "unlink"
      BY <1>1, <2>3 DEF Cut, Calls, Idle
    <2>4. CASE call[c].at \in {"idle", "cut"}
      BY <1>1, <2>4, CallKinds DEF Cut, Inv
    <2>5. QED
      BY <2>1, <2>2, <2>3, <2>4, CallKinds DEF Inv
  <1>3. CallType' /\ \A c \in Client : GoesOn(c)
    BY <1>1, <1>2 DEF CallType, GoesOn
  <1>4. QED
    BY <1>1, <1>3, SameTree, InvFrom

LEMMA ProceedInv ==
    ASSUME Inv, NEW c \in Client, Proceed(c)
    PROVE  Inv'
  <1>1. CASE UNCHANGED tree /\ Becomes(c, Idle)
    BY <1>1, IdleInv
  <1>2. QED
    BY <1>1, EndUploadInv, UnlinkTempInv, SendEntryInv
       DEF Proceed, WriteFails, EndListing, CutListing, CutReturns

LEMMA OperationInv ==
    ASSUME Inv, NEW c \in Client, Operation(c)
    PROVE  Inv'
  <1>1. ASSUME NEW d \in Dir, NEW n \in Name, CloseRefused(c, d, n) PROVE Inv'
    BY <1>1, SameInv DEF CloseRefused
  <1>2. QED
    BY <1>1, DirOperationInv, FileOperationInv, CloseFileInv, ReadDirInv DEF Operation

LEMMA InvStep ==
    ASSUME Inv, [Next]_vars
    PROVE  Inv'
  <1>1. CASE UNCHANGED vars
    BY <1>1, SameInv DEF vars, tree
  <1>2. QED
    BY <1>1, ProceedInv, OperationInv, CrashInv DEF Next

(***************************************************************************)
(* What operations say.                                                    *)
(***************************************************************************)
LEMMA SaysType ==
    ASSUME NEW op \in Op, NEW at \in Dir \cup Path,
           NEW said \in Mode \cup {"ok", "error", "directory"}, Says(op, at, said)
    PROVE  answer' \in Answer
  BY DEF Says, Answer

LEMMA ReportsType ==
    ASSUME NEW op \in Op, NEW at \in Dir \cup Path, Reports(op, at)
    PROVE  answer' \in Answer
  <1>1. PICK said \in {"ok", "error"} : Says(op, at, said)
    BY DEF Reports
  <1>2. QED
    BY <1>1, SaysType

LEMMA RefusedType ==
    ASSUME NEW op \in Op, NEW at \in Dir \cup Path, Refused(op, at)
    PROVE  answer' \in Answer
  BY SaysType DEF Refused

LEMMA AnswerType ==
    ASSUME Inv, answer \in Answer \cup {None}, [Next]_vars
    PROVE  answer' \in Answer \cup {None}
  <1>1. ASSUME NEW c \in Client, Proceed(c) PROVE answer' \in Answer \cup {None}
    <2>1. CASE UNCHANGED answer
      BY <2>1
    <2>2. CASE EndUpload(c) \/ WriteFails(c)
      <3>1. call[c].dir \in Dir /\ call[c].name \in Name
        BY <2>2, CallKinds DEF EndUpload, WriteFails, Inv, UploadCall
      <3>2. <<call[c].dir, call[c].name>> \in Dir \cup Path /\ "close" \in Op
        BY <3>1 DEF Path, Op
      <3>3. QED
        BY <2>2, <3>2, SaysType DEF EndUpload, WriteFails
    <2>3. CASE EndListing(c) \/ CutListing(c)
      <3>1. call[c].dir \in Dir \cup Path /\ "readdir" \in Op
        BY <2>3, CallKinds DEF EndListing, CutListing, Inv, ListingCall, Op
      <3>2. QED
        BY <2>3, <3>1, SaysType DEF EndListing, CutListing
    <2>4. CASE CutReturns(c)
      <3>1. call[c].op \in Op /\ call[c].path \in Dir \cup Path
        BY <2>4, CallKinds DEF CutReturns, Inv, CutCall, Op
      <3>2. PICK said \in {"ok", "error"} : Says(call[c].op, call[c].path, said)
        BY <2>4 DEF CutReturns
      <3>3. QED
        BY <3>1, <3>2, SaysType
    <2>5. QED
      BY <1>1, <2>1, <2>2, <2>3, <2>4 DEF Proceed, UnlinkTemp, SendEntry
  <1>2. ASSUME NEW c \in Client, NEW d \in Dir,
               \/ CreateDir(c, d) \/ RemoveDir(c, d)
               \/ \E e \in Dir : RenameDir(c, d, e)
               \/ GetAttrDir(c, d) \/ OpenDir(c, d) \/ ReadDir(c, d)
        PROVE  answer' \in Answer \cup {None}
    <2>1. d \in Dir \cup Path
      OBVIOUS
    <2>2. {"mkdir", "rmdir", "rename", "getattr", "opendir", "readdir"} \subseteq Op
      BY DEF Op
    <2>3. QED
      BY <1>2, <2>1, <2>2, SaysType, ReportsType, RefusedType
         DEF CreateDir, RemoveDir, RenameDir, GetAttrDir, OpenDir, ReadDir
  <1>3. ASSUME NEW c \in Client, NEW d \in Dir, NEW n \in Name,
               \/ \E m \in Mode : CreateFile(c, d, n, m) \/ Chmod(c, d, n, m)
               \/ \E e \in Dir, k \in Name : RenameFile(c, d, n, e, k)
               \/ DeleteFile(c, d, n)
               \/ GetAttr(c, d, n) \/ GetAttrCached(c, d, n) \/ AccessFile(c, d, n)
               \/ CloseFile(c, d, n) \/ CloseRefused(c, d, n)
        PROVE  answer' \in Answer \cup {None}
    <2>1. <<d, n>> \in Dir \cup Path
      BY DEF Path
    <2>2. {"create", "chmod", "rename", "unlink", "getattr", "access", "close"} \subseteq Op
      BY DEF Op
    <2>3. ASSUME GetAttr(c, d, n) \/ GetAttrCached(c, d, n)
          PROVE  answer' \in Answer
      <3>1. Has(d, n) => file[dir[d]][n].mode \in Mode
        BY DEF Has, Inv, TreeType, Files, File
      <3>2. QED
        BY <2>1, <2>2, <2>3, <3>1, SaysType, ModeAssumption DEF GetAttr, GetAttrCached
    <2>4. ASSUME AccessFile(c, d, n) \/ CloseFile(c, d, n) \/ CloseRefused(c, d, n)
          PROVE  answer' \in Answer \cup {None}
      BY <2>1, <2>2, <2>4, SaysType DEF AccessFile, CloseFile, CloseRefused
    <2>5. ASSUME NEW m \in Mode, CreateFile(c, d, n, m) \/ Chmod(c, d, n, m)
          PROVE  answer' \in Answer
      BY <2>1, <2>2, <2>5, SaysType, ReportsType, RefusedType DEF CreateFile, Chmod
    <2>6. ASSUME DeleteFile(c, d, n) \/ \E e \in Dir, k \in Name : RenameFile(c, d, n, e, k)
          PROVE  answer' \in Answer
      BY <2>1, <2>2, <2>6, SaysType, ReportsType, RefusedType DEF DeleteFile, RenameFile
    <2>7. QED
      BY <1>3, <2>3, <2>4, <2>5, <2>6
  <1>4. QED
    BY <1>1, <1>2, <1>3 DEF Next, Operation, Crash, vars

(***************************************************************************)
(* Theorems: the invariant, and what it says of listings and uploads.      *)
(***************************************************************************)

\* The inductive invariant of the handlers for names: types, directories that
\* lose nothing, uploads that do not meet, and listings that miss nothing,
\* whichever faults happen.
THEOREM NamesInvariant == Spec => []IInv
  <1>1. IInv /\ [Next]_vars => IInv'
    BY InvParts, InvStep, AnswerType DEF Inv, IInv, TypeOK, TreeType, CallType, Calls,
       Files, DirsNamed, TempsFull, UploadsApart, UploadsInPlace, ListingsSound, IsEmpty
  <1>2. QED
    BY <1>1, InitInv, PTL DEF Spec

\* The tree of names alone: a directory has one name, and one that has lost its
\* name holds no file, nor what an upload has left behind (rename, rmdir).
THEOREM NoFileIsLost == Spec => []DirsNamed
  <1>1. IInv => DirsNamed
    BY DEF IInv
  <1>2. QED
    BY <1>1, NamesInvariant, PTL

\* Unless a directory is renamed under it, CloseFile's rename publishes its own
\* temporary file, whatever other clients do.
THEOREM UploadsStayInPlace == Spec => []UploadsInPlace
  <1>1. IInv => UploadsInPlace
    BY DEF IInv
  <1>2. QED
    BY <1>1, NamesInvariant, PTL

LEMMA WholeAtEnd ==
    ASSUME Inv, NEW c \in Client, EndListing(c)
    PROVE  /\ call[c].always \subseteq call[c].sent
           /\ call[c].sent \subseteq call[c].ever
  <1>1. call[c].at = "listing" /\ Left(call[c]) = {} /\ call[c] \in ListingCall
    BY CallKinds DEF EndListing, Inv
  <1>2. /\ call[c].sent \subseteq call[c].ever
        /\ call[c].always \subseteq Listing(file[call[c].id], temp[call[c].id])
        /\ \A x \in call[c].always : Place[x] <= call[c].cursor => x \in call[c].sent
    BY <1>1 DEF Inv, ListingsSound
  <1>3. ASSUME NEW x \in call[c].always PROVE x \in call[c].sent
    <2>1. x \in Listing(file[call[c].id], temp[call[c].id]) /\ x \in Entry
      BY <1>2, ListingInEntry
    <2>2. ~(Place[x] > call[c].cursor)
      BY <1>1, <2>1 DEF Left
    <2>3. Place[x] \in Nat /\ call[c].cursor \in Nat
      BY <1>1, <2>1, PlaceAssumption DEF ListingCall
    <2>4. QED
      BY <1>2, <2>2, <2>3
  <1>4. QED
    BY <1>2, <1>3

\* A listing that ends has every entry that was there all the time, and none
\* that never was, while other clients create, rename and delete (ReadDir).
THEOREM ListingsAreWhole == Spec => ListingWhole
  <1>1. IInv /\ [Next]_vars =>
          [\A c \in Client : EndListing(c) =>
             /\ call[c].always \subseteq call[c].sent
             /\ call[c].sent \subseteq call[c].ever]_vars
    BY InvParts, WholeAtEnd
  <1>2. QED
    BY <1>1, NamesInvariant, PTL DEF Spec, ListingWhole

(***************************************************************************)
(* The refinement.                                                         *)
(***************************************************************************)

\* Streams are cut by crashes.
CutsCrashed == \A c \in Client : call[c].at = "cut" => "crash" \in Faults

LEMMA CutsStep ==
    ASSUME Inv, CutsCrashed, [Next]_vars
    PROVE  CutsCrashed'
  <1>1. SUFFICES ASSUME NEW b \in Client, call'[b].at = "cut", "crash" \notin Faults
                 PROVE  call[b].at = "cut"
    BY DEF CutsCrashed
  <1>2. CallType
    BY DEF Inv
  <1>3. CASE UNCHANGED call
    BY <1>1, <1>3
  <1>4. CASE Others
    BY <1>1, <1>2, <1>4, OthersGoOn, SeenFields
  <1>5. ASSUME NEW c \in Client, NEW k, Becomes(c, k), k.at # "cut"
        PROVE  call[b].at = "cut"
    BY <1>1, <1>2, <1>5, SeenFields DEF Becomes, CallType
  <1>6. ASSUME NEW c \in Client, SendEntry(c) PROVE call[b].at = "cut"
    BY <1>1, <1>6, SendEntryInv, CallKinds DEF SendEntry, Inv, CallType, ListingCall
  <1>7. ASSUME NEW c \in Client, Proceed(c) PROVE call[b].at = "cut"
    BY <1>5, <1>6, <1>7 DEF Proceed, EndUpload, UnlinkTemp, WriteFails, EndListing,
       CutListing, CutReturns, Idle
  <1>8. ASSUME NEW c \in Client, Operation(c) PROVE call[b].at = "cut"
    <2>1. ASSUME NEW d \in Dir,
                 \/ CreateDir(c, d) \/ RemoveDir(c, d)
                 \/ \E e \in Dir : RenameDir(c, d, e)
                 \/ GetAttrDir(c, d) \/ OpenDir(c, d)
          PROVE  UNCHANGED call \/ Others
      BY <2>1 DEF CreateDir, RemoveDir, RenameDir, GetAttrDir, OpenDir, Refused
    <2>2. ASSUME NEW d \in Dir, NEW n \in Name,
                 \/ \E m \in Mode : CreateFile(c, d, n, m) \/ Chmod(c, d, n, m)
                 \/ \E e \in Dir, k \in Name : RenameFile(c, d, n, e, k)
                 \/ DeleteFile(c, d, n)
                 \/ GetAttr(c, d, n) \/ GetAttrCached(c, d, n) \/ AccessFile(c, d, n)
                 \/ CloseRefused(c, d, n)
          PROVE  UNCHANGED call \/ Others
      BY <2>2 DEF CreateFile, Chmod, RenameFile, DeleteFile, GetAttr, GetAttrCached,
         AccessFile, CloseRefused, Refused
    <2>3. ASSUME NEW d \in Dir, ReadDir(c, d) PROVE call[b].at = "cut"
      BY <1>3, <1>5, <2>3 DEF ReadDir
    <2>4. ASSUME NEW d \in Dir, NEW n \in Name, CloseFile(c, d, n)
          PROVE  call[b].at = "cut"
      BY <1>5, <2>4 DEF CloseFile
    <2>5. QED
      BY <1>3, <1>4, <1>8, <2>1, <2>2, <2>3, <2>4 DEF Operation
  <1>9. QED
    BY <1>1, <1>3, <1>7, <1>8 DEF Next, Crash, vars

LEMMA OnDir ==
    ASSUME NEW d \in Dir,
           \/ Names!Mkdir(d) \/ Names!Rmdir(d)
           \/ \E e \in Dir \ {d} : Names!RenameDir(d, e)
           \/ Names!GetAttrDir(d) \/ Names!Granted("opendir", d) \/ Names!Listed(d)
           \/ Names!LostOnDir(d)
    PROVE  Names!Next
  BY DEF Names!Next

LEMMA OnFile ==
    ASSUME NEW d \in Dir, NEW n \in Name,
           \/ \E e \in Dir, k \in Name : Names!RenameFile(d, n, e, k)
           \/ \E m \in Mode : Names!Chmod(d, n, m)
           \/ \E c \in Client, m \in Mode :
                Names!Create(c, d, n, m) \/ Names!LostOnFile(c, d, n, m)
           \/ \E c \in Client : Names!Close(c, d, n)
           \/ Names!Unlink(d, n) \/ Names!GetAttr(d, n)
           \/ Names!Granted("access", <<d, n>>)
           \/ Names!CloseRefused(d, n) \/ Names!CloseGone(d, n) \/ Names!CloseOther(d, n)
    PROVE  Names!Next
  BY DEF Names!Next

LEMMA DirOperationMaps ==
    ASSUME Inv, NEW c \in Client, NEW d \in Dir,
           \/ CreateDir(c, d) \/ RemoveDir(c, d)
           \/ \E e \in Dir : RenameDir(c, d, e)
           \/ GetAttrDir(c, d) \/ OpenDir(c, d)
    PROVE  Names!Next
  <1>1. CASE CreateDir(c, d)
    <2>1. ASSUME mkdir(d) PROVE Names!MakeDir(d)
      BY <2>1 DEF mkdir, FreeId, Names!MakeDir
    <2>2. CASE mkdir(d) /\ Reports("mkdir", d)
      <3>1. Says("mkdir", d, "ok") \/ ("lost" \in Faults /\ Says("mkdir", d, "error"))
        BY <2>2 DEF Reports
      <3>2. Names!Mkdir(d) \/ Names!LostOnDir(d)
        BY <2>1, <2>2, <3>1 DEF Says, Names!Mkdir, Names!LostOnDir, Names!Says
      <3>3. QED
        BY <3>2, OnDir
    <2>3. CASE (dir[d] # None \/ "lost" \in Faults) /\ Refused("mkdir", d)
      <3>1. Names!Mkdir(d) \/ Names!LostOnDir(d)
        BY <2>3 DEF Refused, Says, tree, Names!Mkdir, Names!LostOnDir, Names!Refused,
           Names!Says, Names!tree
      <3>2. QED
        BY <3>1, OnDir
    <2>4. QED
      BY <1>1, <2>2, <2>3 DEF CreateDir
  <1>2. CASE RemoveDir(c, d)
    <2>1. ASSUME rmdir(d) PROVE Names!RemoveDir(d)
      BY <2>1 DEF rmdir, Removable, Vacant, IsEmpty, NoFiles, Inv, TreeType,
         Names!RemoveDir, Names!NoFiles
    <2>2. CASE rmdir(d) /\ Reports("rmdir", d)
      <3>1. Says("rmdir", d, "ok") \/ ("lost" \in Faults /\ Says("rmdir", d, "error"))
        BY <2>2 DEF Reports
      <3>2. Names!Rmdir(d) \/ Names!LostOnDir(d)
        BY <2>1, <2>2, <3>1 DEF Says, Names!Rmdir, Names!LostOnDir, Names!Says
      <3>3. QED
        BY <3>2, OnDir
    <2>3. CASE Refused("rmdir", d)
      <3>1. Names!Rmdir(d)
        BY <2>3 DEF Refused, Says, tree, Names!Rmdir, Names!Refused, Names!Says, Names!tree
      <3>2. QED
        BY <3>1, OnDir
    <2>4. QED
      BY <1>2, <2>2, <2>3 DEF RemoveDir
  <1>3. ASSUME NEW e \in Dir, RenameDir(c, d, e) PROVE Names!Next
    <2>1. e \in Dir \ {d}
      BY <1>3 DEF RenameDir
    <2>2. CASE renameDir(d, e) /\ Says("rename", d, "ok")
      <3>1. Names!RenameDir(d, e)
        BY <2>2 DEF renameDir, Vacant, IsEmpty, NoFiles, Says, Names!RenameDir,
           Names!MoveDir, Names!NoFiles, Names!Says
      <3>2. QED
        BY <2>1, <3>1, OnDir
    <2>3. CASE (dir[d] = None \/ ~Vacant(e)) /\ Refused("rename", d)
      <3>1. dir[d] = None \/ dir[e] # None
        BY <2>3, NoneAssumption DEF Vacant
      <3>2. Names!RenameDir(d, e)
        BY <2>3, <3>1 DEF Refused, Says, tree, Names!RenameDir, Names!Refused, Names!Says,
           Names!tree
      <3>3. QED
        BY <2>1, <3>2, OnDir
    <2>4. CASE "lost" \in Faults /\ Says("rename", d, "ok") /\ UNCHANGED <<tree, call>>
      <3>1. Names!LostOnDir(d)
        BY <2>4 DEF Says, tree, Names!LostOnDir, Names!Granted, Names!Says, Names!tree
      <3>2. QED
        BY <3>1, OnDir
    <2>5. QED
      BY <1>3, <2>2, <2>3, <2>4 DEF RenameDir
  <1>4. CASE GetAttrDir(c, d)
    <2>1. Names!GetAttrDir(d) \/ Names!LostOnDir(d)
      BY <1>4 DEF GetAttrDir, Says, tree, Names!GetAttrDir, Names!LostOnDir,
         Names!Refused, Names!Says, Names!tree
    <2>2. QED
      BY <2>1, OnDir
  <1>5. CASE OpenDir(c, d)
    <2>1. Names!Granted("opendir", d)
      BY <1>5 DEF OpenDir, Says, tree, Names!Granted, Names!Says, Names!tree
    <2>2. QED
      BY <2>1, OnDir
  <1>6. QED
    BY <1>1, <1>2, <1>3, <1>4, <1>5

LEMMA FileOperationMaps ==
    ASSUME Inv, NEW c \in Client, NEW d \in Dir, NEW n \in Name,
           \/ \E m \in Mode : CreateFile(c, d, n, m) \/ Chmod(c, d, n, m)
           \/ \E e \in Dir, k \in Name : RenameFile(c, d, n, e, k)
           \/ DeleteFile(c, d, n)
           \/ GetAttr(c, d, n) \/ GetAttrCached(c, d, n) \/ AccessFile(c, d, n)
           \/ CloseRefused(c, d, n)
    PROVE  Names!Next
  <1>1. ASSUME NEW f, put(d, n, f) PROVE Names!Put(d, n, f)
    BY <1>1 DEF put, Names!Put
  <1>2. ASSUME NEW m \in Mode, CreateFile(c, d, n, m) PROVE Names!Next
    <2>1. CASE "lost" \in Faults /\ Refused("create", <<d, n>>)
      <3>1. Names!LostOnFile(c, d, n, m)
        BY <2>1 DEF Refused, Says, tree, Names!LostOnFile, Names!Refused, Names!Says,
           Names!tree
      <3>2. QED
        BY <3>1, OnFile
    <2>2. CASE ~("lost" \in Faults /\ Refused("create", <<d, n>>))
      <3>1. Names!Created(c, d, n, m)
        BY <1>1, <1>2, <2>2 DEF CreateFile, Has, tree, Names!Created, Names!Has, Names!tree
      <3>2. \/ Says("create", <<d, n>>, "ok")
            \/ "lost" \in Faults /\ Says("create", <<d, n>>, "error")
        BY <1>2, <2>2 DEF CreateFile, Reports
      <3>3. Names!Create(c, d, n, m) \/ Names!LostOnFile(c, d, n, m)
        BY <3>1, <3>2 DEF Says, Names!Create, Names!LostOnFile, Names!Says
      <3>4. QED
        BY <3>3, OnFile
    <2>3. QED
      BY <2>1, <2>2
  <1>3. ASSUME NEW m \in Mode, Chmod(c, d, n, m) PROVE Names!Next
    <2>1. Names!Chmod(d, n, m) \/ Names!LostOnFile(c, d, n, m)
      BY <1>1, <1>3 DEF Chmod, Has, Refused, Says, tree, Names!Chmod, Names!LostOnFile,
         Names!Granted, Names!Refused, Names!Has, Names!Says, Names!tree
    <2>2. QED
      BY <2>1, OnFile
  <1>4. ASSUME NEW e \in Dir, NEW k \in Name, RenameFile(c, d, n, e, k) PROVE Names!Next
    <2>1. Names!RenameFile(d, n, e, k) \/ Names!LostOnFile(c, d, n, Full)
      BY <1>4 DEF RenameFile, renameFile, Has, Refused, Says, tree, Names!RenameFile,
         Names!MoveFile, Names!LostOnFile, Names!Granted, Names!Refused, Names!Has,
         Names!Says, Names!tree
    <2>2. QED
      BY <2>1, OnFile, ModeAssumption
  <1>5. CASE DeleteFile(c, d, n)
    <2>1. CASE Has(d, n) /\ put(d, n, None) /\ Reports("unlink", <<d, n>>)
      <3>1. \/ Says("unlink", <<d, n>>, "ok")
            \/ "lost" \in Faults /\ Says("unlink", <<d, n>>, "error")
        BY <2>1 DEF Reports
      <3>2. Names!Unlink(d, n) \/ Names!LostOnFile(c, d, n, Full)
        BY <1>1, <2>1, <3>1 DEF Has, Says, Names!Unlink, Names!LostOnFile, Names!Has,
           Names!Says
      <3>3. QED
        BY <3>2, OnFile, ModeAssumption
    <2>2. CASE (~Has(d, n) \/ "lost" \in Faults) /\ Refused("unlink", <<d, n>>)
      <3>1. Names!Unlink(d, n) \/ Names!LostOnFile(c, d, n, Full)
        BY <2>2 DEF Has, Refused, Says, tree, Names!Unlink, Names!LostOnFile,
           Names!Refused, Names!Has, Names!Says, Names!tree
      <3>2. QED
        BY <3>1, OnFile, ModeAssumption
    <2>3. QED
      BY <1>5, <2>1, <2>2 DEF DeleteFile
  <1>6. CASE GetAttr(c, d, n) \/ GetAttrCached(c, d, n)
    <2>1. Names!GetAttr(d, n) \/ Names!LostOnFile(c, d, n, Full)
      BY <1>6 DEF GetAttr, GetAttrCached, Has, Says, tree, Names!GetAttr,
         Names!LostOnFile, Names!Refused, Names!Has, Names!Says, Names!tree
    <2>2. QED
      BY <2>1, OnFile, ModeAssumption
  <1>7. CASE AccessFile(c, d, n)
    <2>1. Names!Granted("access", <<d, n>>)
      BY <1>7 DEF AccessFile, Says, tree, Names!Granted, Names!Says, Names!tree
    <2>2. QED
      BY <2>1, OnFile
  <1>8. CASE CloseRefused(c, d, n)
    <2>1. Names!Close(c, d, n) \/ Names!CloseRefused(d, n)
      BY <1>8 DEF CloseRefused, Says, tree, Names!Close, Names!CloseRefused,
         Names!Refused, Names!Says, Names!tree
    <2>2. QED
      BY <2>1, OnFile
  <1>9. QED
    BY <1>2, <1>3, <1>4, <1>5, <1>6, <1>7, <1>8

\* The rename of CloseFile is where an upload changes the tree.
LEMMA EndUploadMaps ==
    ASSUME Inv, NEW c \in Client, EndUpload(c)
    PROVE  Names!Next
  <1> DEFINE d == call[c].dir
             n == call[c].name
             i == dir[d]
  <1>1. /\ call[c].at = "upload" /\ d \in Dir /\ n \in Name
        /\ Says("close", <<d, n>>, "ok")
    BY CallKinds DEF EndUpload, Inv, UploadCall
  <1>2. CASE "moved" \notin Faults
    <2>1. i \in Id /\ temp[i][n] = [mode |-> Full, by |-> c]
      BY <1>1, <1>2, UploadPlace DEF Inv, UploadsInPlace
    <2>2. i # None /\ temp[i][n] # None
      BY <2>1, NoneAssumption, ModeAssumption
    <2>3. dir' = dir /\ file' = [file EXCEPT ![i][n] = temp[i][n]]
      BY <2>2 DEF EndUpload
    <2>4. Names!Put(d, n, [mode |-> Full, by |-> c])
      BY <2>1, <2>2, <2>3 DEF Names!Put
    <2>5. Names!Close(c, d, n)
      BY <1>1, <2>4 DEF Says, Names!Close, Names!Says
    <2>6. QED
      BY <1>1, <2>5, OnFile
  <1>3. CASE "moved" \in Faults /\ i # None /\ temp[i][n] # None
    <2>1. i \in Id /\ temp[i][n] \in File /\ temp[i][n].mode = Full
      BY <1>1, <1>3 DEF Inv, TreeType, Files, TempsFull
    <2>2. PICK b \in Client : temp[i][n] = [mode |-> Full, by |-> b]
      BY <2>1 DEF File
    <2>3. dir' = dir /\ file' = [file EXCEPT ![i][n] = temp[i][n]]
      BY <1>3 DEF EndUpload
    <2>4. Names!Put(d, n, [mode |-> Full, by |-> b])
      BY <1>3, <2>2, <2>3 DEF Names!Put
    <2>5. Names!CloseOther(d, n)
      BY <1>1, <1>3, <2>4 DEF Says, Names!CloseOther, Names!Says
    <2>6. QED
      BY <1>1, <2>5, OnFile
  <1>4. CASE "moved" \in Faults /\ (i = None \/ temp[i][n] = None)
    <2>1. UNCHANGED tree
      BY <1>4 DEF EndUpload
    <2>2. Names!CloseGone(d, n)
      BY <1>1, <1>4, <2>1 DEF Says, tree, Names!CloseGone, Names!Says, Names!tree
    <2>3. QED
      BY <1>1, <2>2, OnFile
  <1>5. QED
    BY <1>2, <1>3, <1>4

LEMMA ProceedMaps ==
    ASSUME Inv, CutsCrashed, NEW c \in Client, Proceed(c)
    PROVE  Names!Next \/ UNCHANGED Names!vars
  <1>1. CASE UnlinkTemp(c) \/ SendEntry(c)
    BY <1>1 DEF UnlinkTemp, SendEntry, tree, Names!vars
  <1>2. CASE WriteFails(c)
    <2>1. call[c].dir \in Dir /\ call[c].name \in Name
      BY <1>2, CallKinds DEF WriteFails, Inv, UploadCall
    <2>2. Names!CloseGone(call[c].dir, call[c].name)
      BY <1>2 DEF WriteFails, Says, tree, Names!CloseGone, Names!Says, Names!tree
    <2>3. QED
      BY <2>1, <2>2, OnFile
  <1>3. CASE EndListing(c) \/ CutListing(c)
    <2>1. call[c].dir \in Dir
      BY <1>3, CallKinds DEF EndListing, CutListing, Inv, ListingCall
    <2>2. Names!Listed(call[c].dir)
      BY <1>3 DEF EndListing, CutListing, Says, tree, Names!Listed, Names!Granted,
         Names!Says, Names!tree
    <2>3. QED
      BY <2>1, <2>2, OnDir
  <1>4. CASE CutReturns(c)
    <2>1. call[c] \in CutCall /\ "crash" \in Faults
      BY <1>4, CallKinds DEF CutReturns, Inv, CutsCrashed
    <2>2. CASE call[c].op = "close"
      <3>1. PICK d \in Dir, n \in Name : call[c].path = <<d, n>>
        BY <2>1, <2>2 DEF CutCall, Path
      <3>2. Names!CloseGone(d, n)
        BY <1>4, <2>1, <2>2, <3>1 DEF CutReturns, Says, tree, Names!CloseGone, Names!Says,
           Names!tree
      <3>3. QED
        BY <3>2, OnFile
    <2>3. CASE call[c].op = "readdir"
      <3>1. call[c].path \in Dir
        BY <2>1, <2>3 DEF CutCall
      <3>2. Names!Listed(call[c].path)
        BY <1>4, <2>3 DEF CutReturns, Says, tree, Names!Listed, Names!Granted, Names!Says,
           Names!tree
      <3>3. QED
        BY <3>1, <3>2, OnDir
    <2>4. QED
      BY <2>1, <2>2, <2>3 DEF CutCall
  <1>5. QED
    BY <1>1, <1>2, <1>3, <1>4, EndUploadMaps DEF Proceed

LEMMA OperationMaps ==
    ASSUME Inv, NEW c \in Client, Operation(c)
    PROVE  Names!Next \/ UNCHANGED Names!vars
  <1>1. ASSUME NEW d \in Dir, ReadDir(c, d) PROVE Names!Next \/ UNCHANGED Names!vars
    <2>1. CASE dir[d] = None
      <3>1. Names!Listed(d)
        BY <1>1, <2>1 DEF ReadDir, Says, tree, Names!Listed, Names!Refused,
           Names!Granted, Names!Says, Names!tree
      <3>2. QED
        BY <3>1, OnDir
    <2>2. CASE dir[d] # None
      BY <1>1, <2>2 DEF ReadDir, tree, Names!vars
    <2>3. QED
      BY <2>1, <2>2
  <1>2. ASSUME NEW d \in Dir, NEW n \in Name, CloseFile(c, d, n)
        PROVE  UNCHANGED Names!vars
    BY <1>2 DEF CloseFile, Names!vars
  <1>3. QED
    BY <1>1, <1>2, DirOperationMaps, FileOperationMaps DEF Operation

\* The handlers for names, with uploads and listings in several steps, promise
\* what Namespace says: every operation changes the tree at one instant, and
\* says what it found at that instant, but for what the faults weaken.
THEOREM NamesAreANamespace == Spec => ImplementsNamespace
  <1>1. Init => Names!Init
    BY DEF Init, NoFiles, Names!Init, Names!NoFiles
  <1>2. Init => CutsCrashed
    BY DEF Init, Idle, CutsCrashed
  <1>3. IInv /\ CutsCrashed /\ [Next]_vars => CutsCrashed'
    BY InvParts, CutsStep
  <1>4. IInv /\ CutsCrashed /\ [Next]_vars => [Names!Next]_(Names!vars)
    <2>1. SUFFICES ASSUME Inv, CutsCrashed, [Next]_vars
                   PROVE  Names!Next \/ UNCHANGED Names!vars
      BY InvParts
    <2>2. CASE Crash \/ UNCHANGED vars
      BY <2>2 DEF Crash, vars, tree, Names!vars
    <2>3. QED
      BY <2>1, <2>2, ProceedMaps, OperationMaps DEF Next
  <1>5. QED
    BY <1>1, <1>2, <1>3, <1>4, NamesInvariant, PTL DEF Spec, ImplementsNamespace, Names!Spec
=============================================================================
