----------------------------- MODULE CloseToOpen -----------------------------
(***************************************************************************)
(* What wiscAFS promises the applications of all its clients: close-to-    *)
(* open consistency, with the last writer winning (report.pdf, section 1). *)
(* An open gives an application a private copy of the file; a close puts   *)
(* the copy back, all at once, provided the application has written to it. *)
(*                                                                         *)
(* Weakened lists what may go wrong, and each weakened promise is an       *)
(* action of its own:                                                      *)
(*   "crash"    a client crashes;                                          *)
(*   "down"     the server goes away in the middle of a stream;            *)
(*   "truncate" truncate(), which does not count as a write;               *)
(*   "late"     a create that finds a file of another client;              *)
(*   "refused"  a create that the server refuses;                          *)
(*   "lost"     a call that is answered with an error;                     *)
(*   "disk"     a client's disk, with the copies on it, fails.             *)
(***************************************************************************)
EXTENDS FileData

CONSTANTS
    Path,      \* the path names
    App,       \* the applications, each with at most one open file
    Client,    \* the machines they run on
    Home,      \* application -> its machine
    Chunk,     \* what applications write
    MaxLen,    \* bound of the model: the length of a file
    Nil,       \* no file, no session
    Weakened

VARIABLES
    store,     \* path -> the contents of the file, or Nil
    session    \* application -> its open file, or Nil

vars == <<store, session>>

Init ==
    /\ store   = [p \in Path |-> Nil]
    /\ session = [a \in App |-> Nil]

Opened(p, s) == [path |-> p, contents |-> s, modified |-> FALSE]

Open(a, p) ==
    /\ session[a] = Nil
    /\ store[p] # Nil
    /\ session' = [session EXCEPT ![a] = Opened(p, store[p])]
    /\ UNCHANGED store

Create(a, p) ==
    /\ session[a] = Nil
    /\ store[p] = Nil
    /\ session' = [session EXCEPT ![a] = Opened(p, <<>>)]
    /\ store'   = [store EXCEPT ![p] = <<>>]

Write(a, k, ch) ==
    /\ session[a] # Nil
    /\ session' = [session EXCEPT ![a].contents = WriteAt(@, k, ch),
                                 ![a].modified = TRUE]
    /\ UNCHANGED store

Close(a) ==
    /\ session[a] # Nil
    /\ session' = [session EXCEPT ![a] = Nil]
    /\ store' = IF session[a].modified
                THEN [store EXCEPT ![session[a].path] = session[a].contents]
                ELSE store

Delete(p) ==
    /\ store' = [store EXCEPT ![p] = Nil]
    /\ UNCHANGED session

Rename(p, q) ==
    /\ store[p] # Nil
    /\ store' = [store EXCEPT ![q] = store[p], ![p] = Nil]
    /\ UNCHANGED session

-----------------------------------------------------------------------------
FrontParts(s) == {SubSeq(s, 1, n) : n \in 1 .. Len(s)}

\* The server goes away: an application may have received only the front part
\* of the file it opened, or what it closes is lost.
OpenCut(a) ==
    /\ "down" \in Weakened
    /\ session[a] # Nil
    /\ ~session[a].modified
    /\ \E s \in FrontParts(session[a].contents) :
        session' = [session EXCEPT ![a].contents = s]
    /\ UNCHANGED store

CloseLost(a) ==
    /\ Weakened \cap {"down", "disk"} # {}
    /\ session[a] # Nil
    /\ session' = [session EXCEPT ![a] = Nil]
    /\ UNCHANGED store

\* A truncation is seen by the application that has the file open, but only a
\* write makes its close put the file back, and a close never puts back an
\* empty file.
Truncate(a, n) ==
    /\ "truncate" \in Weakened
    /\ session[a] # Nil
    /\ session' = [session EXCEPT ![a].contents = Resized(@, n)]
    /\ UNCHANGED store

CloseEmpty(a) ==
    /\ "truncate" \in Weakened
    /\ session[a] # Nil
    /\ session[a].contents = <<>>
    /\ session' = [session EXCEPT ![a] = Nil]
    /\ UNCHANGED store

\* A client crashes: its sessions end, and one that was being put back may
\* leave its front part in the store.
Crash(c) ==
    /\ "crash" \in Weakened
    /\ session' = [a \in App |-> IF Home[a] = c THEN Nil ELSE session[a]]
    /\ \/ UNCHANGED store
       \/ \E a \in App :
            /\ Home[a] = c
            /\ session[a] # Nil
            /\ session[a].modified
            /\ \E s \in FrontParts(session[a].contents) :
                store' = [store EXCEPT ![session[a].path] = s]

(***************************************************************************)
(* A create is not exclusive.  It may find a file, which it empties or     *)
(* gives to the application, up to a zero in it or with rubbish behind it; *)
(* and one that is refused gives the application a new file all the same,  *)
(* whose close replaces the file that is there.                            *)
(***************************************************************************)
CreateOver(a, p) ==
    /\ "late" \in Weakened
    /\ session[a] = Nil
    /\ store[p] # Nil
    /\ session' = [session EXCEPT ![a] = Opened(p, <<>>)]
    /\ store'   = [store EXCEPT ![p] = <<>>]

CreateFound(a, p) ==
    /\ "late" \in Weakened
    /\ session[a] = Nil
    /\ store[p] # Nil
    /\ \E s \in {<<>>, store[p]} \cup FrontParts(store[p])
                 \cup {Append(store[p], ch) : ch \in Chunk} :
            session' = [session EXCEPT ![a] = Opened(p, s)]
    /\ UNCHANGED store

CreateRefused(a, p) ==
    /\ "refused" \in Weakened
    /\ session[a] = Nil
    /\ session' = [session EXCEPT ![a] = Opened(p, <<>>)]
    /\ UNCHANGED store

\* A create fails, and the file is there.
CreateLost(p) ==
    /\ "lost" \in Weakened
    /\ store[p] = Nil
    /\ store' = [store EXCEPT ![p] = <<>>]
    /\ UNCHANGED session

\* A write fails and counts as one, and a close that fails puts back the front
\* part of the file.
WriteFails(a) ==
    /\ "disk" \in Weakened
    /\ session[a] # Nil
    /\ session' = [session EXCEPT ![a].modified = TRUE]
    /\ UNCHANGED store

CloseCut(a) ==
    /\ "disk" \in Weakened
    /\ session[a] # Nil
    /\ session[a].modified
    /\ \E s \in FrontParts(session[a].contents) :
        store' = [store EXCEPT ![session[a].path] = s]
    /\ session' = [session EXCEPT ![a] = Nil]

-----------------------------------------------------------------------------
Next ==
    \/ \E a \in App :
        \/ \E p \in Path : Open(a, p) \/ Create(a, p)
        \/ \E p \in Path : CreateOver(a, p) \/ CreateFound(a, p) \/ CreateRefused(a, p)
        \/ \E k \in 1 .. MaxLen, ch \in Chunk : Write(a, k, ch)
        \/ \E n \in 0 .. MaxLen : Truncate(a, n)
        \/ Close(a)
        \/ CloseEmpty(a)
        \/ CloseLost(a)
        \/ OpenCut(a)
        \/ WriteFails(a)
        \/ CloseCut(a)
    \/ \E p \in Path : CreateLost(p)
    \/ \E p \in Path : Delete(p) \/ \E q \in Path : p # q /\ Rename(p, q)
    \/ \E c \in Client : Crash(c)

Spec == Init /\ [][Next]_vars
=============================================================================
