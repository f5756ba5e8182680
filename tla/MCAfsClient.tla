----------------------------- MODULE MCAfsClient -----------------------------
(* Small instances of AfsClient for TLC. *)
EXTENDS AfsClient, TLC

CONSTANTS c1, c2, a1, a2, a3, p1, p2, i1, i2, i3, i4, f1, f2, x, y

\* a1 and a2 run on c1, a3 on c2.
MCHome == [a \in App |-> IF a = a3 THEN c2 ELSE c1]

Sym == Permutations(Path) \cup Permutations(Ino) \cup Permutations(Fd)
         \cup Permutations(Chunk) \cup Permutations({a1, a2})

(***************************************************************************)
(* Two states are the same when they differ only in the data of inodes     *)
(* that no path of the server has, in local copies that no descriptor      *)
(* leads to, all of which are emptied before they are read, and, when no   *)
(* file is truncated, in the entries of paths that nobody has open, of     *)
(* which only their presence matters then.  (This is not so if a file is   *)
(* renamed while it is open.)                                              *)
(***************************************************************************)
LiveEntry(c, p) ==
    IF \/ "truncate" \in Faults
       \/ cache[c][p] = NoEntry
       \/ \E a \in App : Home[a] = c /\ HasFd(a) /\ app[a].path = p
    THEN cache[c][p]
    ELSE [cached |-> TRUE]

LiveView == <<
    dir, file, opSem, clientSem, app,
    [c \in Client |-> [p \in Path |-> LiveEntry(c, p)]],
    [i \in Ino |-> IF FreeIno(i) THEN <<>> ELSE data[i]],
    [c \in Client |-> [i \in Copy |->
        IF \E a \in App : Home[a] = c /\ HasFd(a) /\ Local(a) = i
        THEN local[c][i] ELSE <<>>]]
>>

(***************************************************************************)
(* For OperationsReturn: two states are the same when they differ only in  *)
(* what files hold (not in how much), in what applications have written,   *)
(* and in copies that no descriptor, entry or upload leads to, none of     *)
(* which the guard of a step looks at when no create is "late".  The       *)
(* fairness of one application is the same whatever the names of inodes,   *)
(* descriptors and paths are, which LiveSym exchanges; it leaves the       *)
(* applications themselves alone.                                          *)
(***************************************************************************)
LiveSym == Permutations(Path) \cup Permutations(Ino) \cup Permutations(Fd)

Reached(c, i) ==
    \/ \E p \in Path : cache[c][p].ino = i
    \/ \E f \in Fd : file[c][f] = i
    \/ \E a \in App : Home[a] = c /\ app[a].at = "closing" /\ app[a].ino = i

LengthsOf(k) ==
    CASE k.at \in {"opening", "creating"} -> [k EXCEPT !.src = Len(@)]
      [] k.at = "closing" -> [k EXCEPT !.sent = Len(@), !.wrote = TRUE]
      [] k.at \in {"open", "written"} -> [k EXCEPT !.wrote = TRUE]
      [] OTHER -> k

LengthView == <<
    dir, file, opSem, clientSem, cache,
    [a \in App |-> LengthsOf(app[a])],
    [i \in Ino |-> IF FreeIno(i) THEN 0 ELSE Len(data[i])],
    [c \in Client |-> [i \in Copy |->
        IF Reached(c, i) THEN Len(local[c][i]) ELSE 0]]
>>
=============================================================================
