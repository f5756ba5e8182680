------------------------------ MODULE FileData ------------------------------
(***************************************************************************)
(* What files hold.  A file is a sequence of chunks, one for each          *)
(* 1024-byte message of a stream; the server keeps one for every file, and *)
(* a client one for every file it has opened.                              *)
(***************************************************************************)
EXTENDS Naturals, Sequences

CONSTANT Hole      \* the zeros of a part of a file nobody wrote

\* write() at chunk k of a file: it overwrites, extends, or leaves a hole.
WriteAt(s, k, c) ==
    [j \in 1 .. (IF k > Len(s) THEN k ELSE Len(s)) |->
        IF j = k THEN c ELSE IF j \in 1 .. Len(s) THEN s[j] ELSE Hole]

\* truncate() to n chunks: it cuts, or extends with a hole.
Resized(s, n) == [j \in 1 .. n |-> IF j \in 1 .. Len(s) THEN s[j] ELSE Hole]

\* s is the front part of c.
IsPrefixOf(s, c) == Len(s) <= Len(c) /\ \A j \in 1 .. Len(s) : s[j] = c[j]
=============================================================================
