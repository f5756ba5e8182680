----------------------------- MODULE MCAfsNames -----------------------------
(* Small instances of AfsNames for TLC. *)
EXTENDS AfsNames, TLC

CONSTANTS Own, c1, c2, d1, d2, d3, n1, n2, i1, i2

\* n1.ttmmpp comes before n1.
MCPlace ==
    [x \in Entry |-> (IF x[1] = n1 THEN 0 ELSE 2) + (IF x[2] = "temp" THEN 1 ELSE 2)]

Sym == Permutations(Client) \cup Permutations(Dir) \cup Permutations(Id)

\* No step depends on what an operation has said to its caller.
NoAnswer == <<dir, file, temp, call>>
=============================================================================
