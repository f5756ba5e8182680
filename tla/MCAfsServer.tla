----------------------------- MODULE MCAfsServer -----------------------------
(* Small instances of AfsServer for TLC. *)
EXTENDS AfsServer, TLC

CONSTANTS p1, p2, t1, t2, t3, i1, i2, i3, i4, i5, f1, f2, f3, a, b, c, d

MCContent == {<<a, b>>, <<c>>}
MCContentLong == {<<a, b>>, <<c, d>>}
MCContentSame == {<<a, a>>}
MCContentShort == {<<a, a>>, <<a>>}

SymFiles == Permutations(Ino) \cup Permutations(Fd)
SymAll   == SymFiles \cup Permutations(Thread) \cup Permutations(Path)

(***************************************************************************)
(* Two states are the same for the run of all faults when they differ only *)
(* in the data of free inodes, which nobody can read before they are       *)
(* emptied, and in the answers of OpenFile calls that have returned.       *)
(***************************************************************************)
LiveView == <<
    dir, tmp, file, off, call,
    [i \in Ino |-> IF FreeIno(i) THEN <<>> ELSE data[i]],
    [t \in Thread |-> IF call[t].op = "get" THEN got[t] ELSE NoReply]
>>
=============================================================================
