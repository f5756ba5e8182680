------------------------------ MODULE FileStore ------------------------------
(***************************************************************************)
(* What the wiscAFS server promises its clients, with all the streaming    *)
(* left out: a map from paths to file contents in which an upload replaces *)
(* a file at one instant, and a download returns the contents the file had *)
(* at one instant.  This is the server's half of the close-to-open model   *)
(* that report.pdf, section 1, claims for the system.                      *)
(***************************************************************************)

CONSTANTS
    Path,      \* the path names
    Client,    \* the callers, each with at most one download under way
    Value,     \* the contents clients upload
    Empty,     \* the contents of a newly created file
    Nil        \* "no such file", "no download under way", "no answer";
               \* neither a Value nor Empty

VARIABLES
    store,     \* path -> contents, or Nil when the path does not exist
    view,      \* client -> the contents its download in progress will return
    reply      \* client -> what its last download returned

vars == <<store, view, reply>>

Init ==
    /\ store = [p \in Path |-> Nil]
    /\ view  = [k \in Client |-> Nil]
    /\ reply = [k \in Client |-> Nil]

(***************************************************************************)
(* Writes: each one is a single change of store.                           *)
(***************************************************************************)
Upload(p, v) ==
    /\ store' = [store EXCEPT ![p] = v]
    /\ UNCHANGED <<view, reply>>

Create(p) ==
    /\ store[p] = Nil
    /\ Upload(p, Empty)

Delete(p) ==
    /\ store[p] # Nil
    /\ Upload(p, Nil)

Rename(p, q) ==
    /\ store[p] # Nil
    /\ store' = [store EXCEPT ![q] = store[p], ![p] = Nil]
    /\ UNCHANGED <<view, reply>>

(***************************************************************************)
(* Downloads: the contents are chosen when the download begins, and        *)
(* nothing that happens before it ends can change them.                    *)
(***************************************************************************)
BeginDownload(k, p) ==
    /\ view[k] = Nil
    /\ store[p] # Nil
    /\ view'  = [view EXCEPT ![k] = store[p]]
    /\ reply' = [reply EXCEPT ![k] = Nil]
    /\ UNCHANGED store

RefuseDownload(k) ==
    /\ view[k] = Nil
    /\ reply' = [reply EXCEPT ![k] = Nil]
    /\ UNCHANGED <<store, view>>

EndDownload(k) ==
    /\ view[k] # Nil
    /\ reply' = [reply EXCEPT ![k] = view[k]]
    /\ view'  = [view EXCEPT ![k] = Nil]
    /\ UNCHANGED store

\* A restart of the server ends the downloads in progress without an answer.
Restart ==
    /\ view' = [k \in Client |-> Nil]
    /\ UNCHANGED <<store, reply>>

Next ==
    \/ \E p \in Path :
        \/ \E v \in Value : Upload(p, v)
        \/ Create(p)
        \/ Delete(p)
        \/ \E q \in Path : p # q /\ Rename(p, q)
    \/ \E k \in Client :
        \/ \E p \in Path : BeginDownload(k, p)
        \/ RefuseDownload(k)
        \/ EndDownload(k)
    \/ Restart

Spec == Init /\ [][Next]_vars
=============================================================================
