---------------------------- MODULE ParserProofs ----------------------------
(***************************************************************************)
(* That config_init reads a file as ConfFile says it is to be read: the    *)
(* parser, which goes through the lines once and knows no more than the    *)
(* section, the name and the queue so far, ends with an entry for each     *)
(* injection of the file, with the last value of each option, in the order *)
(* of their first lines.  The proof is by induction over the number of     *)
(* lines that have been read.                                              *)
(***************************************************************************)
EXTENDS ErrInj, WellFoundedInduction, TLAPS

(***************************************************************************)
(* Induction over the natural numbers, for sets.                           *)
(***************************************************************************)
LEMMA SetInduction ==
    ASSUME NEW S \in SUBSET Nat, 0 \in S, \A n \in S : n + 1 \in S
    PROVE  S = Nat
<1> DEFINE Less == OpToRel(<, Nat)
           Rest == Nat \ S
<1>1. IsWellFoundedOn(Less, Nat)
  BY NatLessThanWellFounded
<1>2. SUFFICES ASSUME Rest # {} PROVE FALSE
  OBVIOUS
<1>3. Rest \subseteq Nat
  OBVIOUS
<1>4. \A x, y \in Nat : x < y => <<x, y>> \in Less
  BY DEF OpToRel
<1> HIDE DEF Less
<1>5. \E x \in Rest : \A y \in Rest : ~(<<y, x>> \in Less)
  <2> HIDE DEF Rest
  <2>1. QED
    BY <1>1, <1>2, <1>3, WFMin
<1>6. PICK x \in Rest : \A y \in Rest : ~(<<y, x>> \in Less)
  BY <1>5
<1>7. x # 0 /\ x - 1 \in Nat /\ x - 1 < x
  OBVIOUS
<1>8. x - 1 \in Rest
  BY <1>7
<1>9. QED
  BY <1>4, <1>6, <1>7, <1>8

LEMMA UpTo ==
    ASSUME NEW N \in Nat, NEW S, 0 \in S,
           \A n \in 0 .. (N - 1) : n \in S => n + 1 \in S
    PROVE  \A n \in 0 .. N : n \in S
<1> DEFINE T == {n \in Nat : n <= N => n \in S}
<1>1. 0 \in T /\ \A n \in T : n + 1 \in T
  OBVIOUS
<1>2. T = Nat
  <2> HIDE DEF T
  <2>1. T \in SUBSET Nat
    BY DEF T
  <2>2. QED
    BY <1>1, <2>1, SetInduction
<1>3. QED
  BY <1>2

(***************************************************************************)
(* The greatest and the least of some lines.                               *)
(***************************************************************************)
LEMMA MaxIs ==
    ASSUME NEW S \in SUBSET Int, NEW x \in S, \A y \in S : y <= x
    PROVE  Max(S) = x
<1> DEFINE m == CHOOSE z \in S : \A y \in S : z >= y
<1>1. \E z \in S : \A y \in S : z >= y
  OBVIOUS
<1>2. m \in S /\ \A y \in S : m >= y
  BY <1>1
<1>3. m = x
  <2> HIDE DEF m
  <2>1. m \in Int /\ x \in Int
    BY <1>2
  <2>2. QED
    BY <1>2, <2>1
<1>4. QED
  BY <1>3 DEF Max

LEMMA MinIs ==
    ASSUME NEW S \in SUBSET Int, NEW x \in S, \A y \in S : x <= y
    PROVE  Min(S) = x
<1> DEFINE m == CHOOSE z \in S : \A y \in S : z =< y
<1>1. \E z \in S : \A y \in S : z =< y
  OBVIOUS
<1>2. m \in S /\ \A y \in S : m =< y
  BY <1>1
<1>3. m = x
  <2> HIDE DEF m
  <2>1. m \in Int /\ x \in Int
    BY <1>2
  <2>2. QED
    BY <1>2, <2>1
<1>4. QED
  BY <1>3 DEF Min

LEMMA Greatest ==
    ASSUME NEW N \in Nat, NEW S \in SUBSET (0 .. N), S # {}
    PROVE  Max(S) \in S /\ \A y \in S : y <= Max(S)
<1> DEFINE Has(n) == \A T \in SUBSET (0 .. n) :
                        T # {} => \E x \in T : \A y \in T : y <= x
           G == {n \in 0 .. N : Has(n)}
<1>1. 0 \in G
  <2>1. \A T \in SUBSET (0 .. 0) : \A y \in T : y = 0
    OBVIOUS
  <2>2. ASSUME NEW T \in SUBSET (0 .. 0), T # {}
        PROVE  \E x \in T : \A y \in T : y <= x
    <3>1. PICK x \in T : TRUE
      BY <2>2
    <3>2. QED
      BY <2>1, <3>1
  <2>3. QED
    BY <2>2
<1>2. ASSUME NEW n \in 0 .. (N - 1), n \in G PROVE n + 1 \in G
  <2> SUFFICES ASSUME NEW T \in SUBSET (0 .. (n + 1)), T # {}
               PROVE  \E x \in T : \A y \in T : y <= x
    OBVIOUS
  <2>1. CASE n + 1 \in T
    BY <2>1
  <2>2. CASE n + 1 \notin T
    <3>1. T \in SUBSET (0 .. n)
      BY <2>2
    <3>2. QED
      BY <1>2, <3>1
  <2>3. QED
    BY <2>1, <2>2
<1>3. N \in G
  <2> HIDE DEF G
  <2>1. QED
    BY <1>1, <1>2, UpTo
<1>4. PICK x \in S : \A y \in S : y <= x
  BY <1>3
<1>5. Max(S) = x
  BY <1>4, MaxIs
<1>6. QED
  BY <1>4, <1>5

LEMMA Least ==
    ASSUME NEW N \in Nat, NEW S \in SUBSET (0 .. N), S # {}
    PROVE  Min(S) \in S /\ \A y \in S : Min(S) <= y
<1> DEFINE Has(n) == \A T \in SUBSET (0 .. n) :
                        T # {} => \E x \in T : \A y \in T : x <= y
           G == {n \in 0 .. N : Has(n)}
<1>1. 0 \in G
  <2>1. \A T \in SUBSET (0 .. 0) : \A y \in T : y = 0
    OBVIOUS
  <2>2. ASSUME NEW T \in SUBSET (0 .. 0), T # {}
        PROVE  \E x \in T : \A y \in T : x <= y
    <3>1. PICK x \in T : TRUE
      BY <2>2
    <3>2. QED
      BY <2>1, <3>1
  <2>3. QED
    BY <2>2
<1>2. ASSUME NEW n \in 0 .. (N - 1), n \in G PROVE n + 1 \in G
  <2> SUFFICES ASSUME NEW T \in SUBSET (0 .. (n + 1)), T # {}
               PROVE  \E x \in T : \A y \in T : x <= y
    OBVIOUS
  <2> DEFINE U == T \cap (0 .. n)
  <2>1. CASE U = {}
    <3>1. \A y \in T : y = n + 1
      BY <2>1
    <3>2. PICK x \in T : TRUE
      OBVIOUS
    <3>3. QED
      BY <3>1, <3>2
  <2>2. CASE U # {}
    <3>1. PICK x \in U : \A y \in U : x <= y
      BY <1>2, <2>2
    <3>2. \A y \in T : y \in U \/ y = n + 1
      OBVIOUS
    <3>3. QED
      BY <3>1, <3>2
  <2>3. QED
    BY <2>1, <2>2
<1>3. N \in G
  <2> HIDE DEF G
  <2>1. QED
    BY <1>1, <1>2, UpTo
<1>4. PICK x \in S : \A y \in S : x <= y
  BY <1>3
<1>5. Min(S) = x
  BY <1>4, MinIs
<1>6. QED
  BY <1>4, <1>5
-----------------------------------------------------------------------------
(***************************************************************************)
(* What the parser knows after each line.                                  *)
(***************************************************************************)
Start == [section |-> "", name |-> "", queue |-> <<>>]

After(f, g) == [n \in 0 .. Len(f) |->
                    IF n = 0 THEN Start ELSE ini_parse_line(g[n - 1], f[n])]

Known(f) == CHOOSE g : g = After(f, g)

LEMMA KnownExists ==
    ASSUME NEW f, NEW N \in Nat, Len(f) = N
    PROVE  \E g : g = After(f, g)
<1> DEFINE Upto(n, g) ==
               g = [m \in 0 .. n |->
                       IF m = 0 THEN Start ELSE ini_parse_line(g[m - 1], f[m])]
           G == {n \in 0 .. N : \E g : Upto(n, g)}
<1>1. 0 \in G
  <2>1. Upto(0, [m \in 0 .. 0 |-> Start])
    OBVIOUS
  <2> HIDE DEF Upto
  <2>2. QED
    BY <2>1
<1>2. ASSUME NEW n \in 0 .. (N - 1), n \in G PROVE n + 1 \in G
  <2>1. PICK g : Upto(n, g)
    BY <1>2
  <2> DEFINE more(m) == IF m <= n THEN g[m] ELSE ini_parse_line(g[n], f[n + 1])
             h == [m \in 0 .. (n + 1) |-> more(m)]
             k == [m \in 0 .. (n + 1) |->
                       IF m = 0 THEN Start ELSE ini_parse_line(h[m - 1], f[m])]
  <2>2. ASSUME NEW m \in 0 .. (n + 1) PROVE h[m] = k[m]
    <3>1. CASE m = 0
      BY <2>1, <3>1
    <3>2. CASE m \in 1 .. n
      BY <2>1, <3>2
    <3>3. CASE m = n + 1
      BY <2>1, <3>3
    <3>4. QED
      BY <3>1, <3>2, <3>3
  <2>3. h = k
    BY <2>2
  <2>4. Upto(n + 1, h)
    BY <2>3
  <2> HIDE DEF Upto
  <2>5. QED
    BY <2>4
<1>3. N \in G
  <2> HIDE DEF G
  <2>1. \A n \in 0 .. (N - 1) : n \in G => n + 1 \in G
    BY <1>2
  <2>2. \A n \in 0 .. N : n \in G
    BY <1>1, <2>1, UpTo
  <2>3. QED
    BY <2>2
<1>4. QED
  BY <1>3 DEF After

\* The parser goes through the file line by line.
LEMMA LineByLine ==
    ASSUME NEW f, Len(f) \in Nat
    PROVE  /\ ini_parse(f) = Known(f)[Len(f)].queue
           /\ Known(f)[0] = Start
           /\ \A n \in 1 .. Len(f) :
                Known(f)[n] = ini_parse_line(Known(f)[n - 1], f[n])
<1>1. ini_parse(f) = Known(f)[Len(f)].queue
  BY DEF ini_parse, Known, After, Start
<1>2. Known(f) = After(f, Known(f))
  BY KnownExists DEF Known
<1>3. QED
  BY <1>1, <1>2 DEF After
-----------------------------------------------------------------------------
(***************************************************************************)
(* Sections and names, from one line to the next.                          *)
(***************************************************************************)
Readable(f) ==
    /\ Len(f) \in Nat
    /\ DOMAIN f = 1 .. Len(f)
    /\ \A i \in DOMAIN f : Line(f[i])

Settles(line) == ~line.indented /\ line.sort \in {"section", "option"}

LEMMA BaseStep ==
    ASSUME NEW f, NEW n \in Nat
    PROVE  /\ n > 0 /\ Settles(f[n]) => Base(f, n) = n
           /\ n > 0 /\ ~Settles(f[n]) => Base(f, n) = Base(f, n - 1)
           /\ Base(f, 0) = 0
           /\ Base(f, n) \in 0 .. n
<1> DEFINE Bases(m) == {0} \cup {j \in 1 .. m : Settles(f[j])}
<1>1. \A m \in Nat : Base(f, m) = Max(Bases(m))
  BY DEF Base, Settles
<1>2. n > 0 /\ Settles(f[n]) => Base(f, n) = n
  <2> SUFFICES ASSUME n > 0, Settles(f[n]) PROVE Base(f, n) = n
    OBVIOUS
  <2>1. Bases(n) \in SUBSET Int /\ n \in Bases(n) /\ \A y \in Bases(n) : y <= n
    OBVIOUS
  <2> HIDE DEF Bases
  <2>2. QED
    BY <1>1, <2>1, MaxIs
<1>3. n > 0 /\ ~Settles(f[n]) => Base(f, n) = Base(f, n - 1)
  <2> SUFFICES ASSUME n > 0, ~Settles(f[n]) PROVE Base(f, n) = Base(f, n - 1)
    OBVIOUS
  <2>1. Bases(n) = Bases(n - 1) /\ n - 1 \in Nat
    OBVIOUS
  <2> HIDE DEF Bases
  <2>2. QED
    BY <1>1, <2>1
<1>4. Base(f, 0) = 0
  <2>1. Bases(0) \in SUBSET Int /\ 0 \in Bases(0) /\ \A y \in Bases(0) : y <= 0
    OBVIOUS
  <2> HIDE DEF Bases
  <2>2. QED
    BY <1>1, <2>1, MaxIs
<1>5. Base(f, n) \in 0 .. n
  <2>1. Bases(n) \in SUBSET (0 .. n) /\ 0 \in Bases(n)
    OBVIOUS
  <2> HIDE DEF Bases
  <2>2. Max(Bases(n)) \in Bases(n)
    BY <2>1, Greatest
  <2>3. QED
    BY <1>1, <2>1, <2>2
<1>6. QED
  BY <1>2, <1>3, <1>4, <1>5

\* The options that NameAt chooses from.
NamedUpTo(f, i) ==
    {j \in DOMAIN f : /\ Base(f, i) <= j /\ j <= i
                      /\ f[j].sort = "option" /\ f[j].key # ""}

LEMMA NamedLines ==
    ASSUME NEW f, Readable(f), NEW i \in Nat
    PROVE  /\ NamedUpTo(f, i) \in SUBSET (1 .. Len(f))
           /\ NamedUpTo(f, i) \in SUBSET (1 .. i)
           /\ \A j \in 1 .. Len(f) :
                j \in NamedUpTo(f, i) <=>
                    /\ Base(f, i) <= j /\ j <= i
                    /\ f[j].sort = "option" /\ f[j].key # ""
<1> DEFINE D == DOMAIN f
           b == Base(f, i)
           option(j) == f[j].sort = "option" /\ f[j].key # ""
           S == NamedUpTo(f, i)
<1>1. D = 1 .. Len(f) /\ Len(f) \in Nat
  BY DEF Readable
<1>2. S = {j \in D : b <= j /\ j <= i /\ option(j)}
  BY DEF NamedUpTo
<1>3. b \in Nat
  BY BaseStep
<1> HIDE DEF D, b, option, S
<1>4. S \in SUBSET (1 .. Len(f)) /\ S \in SUBSET (1 .. i)
  BY <1>1, <1>2, <1>3
<1>5. \A j \in 1 .. Len(f) : j \in S <=> b <= j /\ j <= i /\ option(j)
  BY <1>1, <1>2
<1>6. QED
  BY <1>4, <1>5 DEF S, b, option

LEMMA NameFound ==
    ASSUME NEW f, Readable(f), NEW n \in 0 .. Len(f)
    PROVE  /\ NamedUpTo(f, n) = {} => NameAt(f, n) = ""
           /\ NamedUpTo(f, n) # {} =>
                /\ NameAt(f, n) = f[Min(NamedUpTo(f, n))].key
                /\ NameAt(f, n) # ""
                /\ Min(NamedUpTo(f, n)) \in NamedUpTo(f, n)
                /\ \A j \in NamedUpTo(f, n) : Min(NamedUpTo(f, n)) <= j
<1> DEFINE S == NamedUpTo(f, n)
<1>1. NameAt(f, n) = IF S = {} THEN "" ELSE f[Min(S)].key
  BY DEF NameAt, NamedUpTo
<1>2. ASSUME S # {} PROVE Min(S) \in S /\ \A j \in S : Min(S) <= j
  <2>1. Len(f) \in Nat /\ n \in Nat
    BY DEF Readable
  <2>2. S \in SUBSET (1 .. Len(f))
    BY <2>1, NamedLines
  <2>3. S \in SUBSET (0 .. Len(f))
    BY <2>2
  <2> HIDE DEF S
  <2>4. QED
    BY <1>2, <2>1, <2>3, Least
<1>3. \A j \in S : f[j].key # ""
  BY DEF NamedUpTo
<1> HIDE DEF S
<1>4. QED
  BY <1>1, <1>2, <1>3 DEF S

LEMMA NameStep ==
    ASSUME NEW f, Readable(f), NEW n \in 1 .. Len(f)
    PROVE  /\ f[n].sort = "section" /\ ~f[n].indented => NameAt(f, n) = ""
           /\ f[n].sort = "option" /\ ~f[n].indented => NameAt(f, n) = f[n].key
           /\ f[n].sort = "option" /\ f[n].indented =>
                NameAt(f, n) = IF NameAt(f, n - 1) # "" THEN NameAt(f, n - 1)
                               ELSE f[n].key
           /\ f[n].sort = "other" \/ (f[n].sort = "section" /\ f[n].indented) =>
                 NameAt(f, n) = NameAt(f, n - 1)
<1> DEFINE S(m) == NamedUpTo(f, m)
<1>1. /\ Len(f) \in Nat /\ n \in Nat /\ n - 1 \in Nat
      /\ n - 1 \in 0 .. Len(f) /\ n \in 0 .. Len(f)
      /\ DOMAIN f = 1 .. Len(f)
  BY DEF Readable
<1>2. /\ S(n) = {} => NameAt(f, n) = ""
      /\ S(n) # {} => NameAt(f, n) = f[Min(S(n))].key /\ Min(S(n)) \in S(n)
  BY <1>1, NameFound
<1>3. /\ S(n - 1) = {} => NameAt(f, n - 1) = ""
      /\ S(n - 1) # {} => /\ NameAt(f, n - 1) = f[Min(S(n - 1))].key
                          /\ NameAt(f, n - 1) # ""
                          /\ Min(S(n - 1)) \in S(n - 1)
                          /\ \A j \in S(n - 1) : Min(S(n - 1)) <= j
  BY <1>1, NameFound
<1>4. ASSUME Settles(f[n])
      PROVE  S(n) = IF f[n].sort = "option" /\ f[n].key # "" THEN {n} ELSE {}
  <2>1. Base(f, n) = n
    BY <1>1, <1>4, BaseStep
  <2>2. \A j \in 1 .. Len(f) : n <= j /\ j <= n <=> j = n
    BY <1>1
  <2>3. \A j \in 1 .. Len(f) : j \in S(n) <=>
            j = n /\ f[n].sort = "option" /\ f[n].key # ""
    <3>1. \A j \in 1 .. Len(f) :
            j \in S(n) <=> /\ Base(f, n) <= j /\ j <= n
                           /\ f[j].sort = "option" /\ f[j].key # ""
      BY <1>1, NamedLines
    <3> HIDE DEF S
    <3>2. QED
      BY <2>1, <2>2, <3>1
  <2>4. S(n) \in SUBSET (1 .. Len(f))
    BY <1>1, NamedLines
  <2> HIDE DEF S
  <2>5. QED
    BY <2>3, <2>4
<1>5. ASSUME ~Settles(f[n])
      PROVE  S(n) = S(n - 1) \cup
                    (IF f[n].sort = "option" /\ f[n].key # "" THEN {n} ELSE {})
  <2>1. Base(f, n) = Base(f, n - 1) /\ Base(f, n - 1) \in 0 .. (n - 1)
    BY <1>1, <1>5, BaseStep
  <2>2. /\ \A j \in 1 .. Len(f) : j <= n <=> j <= n - 1 \/ j = n
        /\ Base(f, n) <= n /\ ~(n <= n - 1)
    BY <1>1, <2>1
  <2>3. \A j \in 1 .. Len(f) : j \in S(n) <=>
            j \in S(n - 1) \/ (j = n /\ f[n].sort = "option" /\ f[n].key # "")
    <3>1. /\ \A j \in 1 .. Len(f) :
                j \in S(n) <=> /\ Base(f, n) <= j /\ j <= n
                               /\ f[j].sort = "option" /\ f[j].key # ""
          /\ \A j \in 1 .. Len(f) :
                j \in S(n - 1) <=> /\ Base(f, n - 1) <= j /\ j <= n - 1
                                   /\ f[j].sort = "option" /\ f[j].key # ""
      BY <1>1, NamedLines
    <3> HIDE DEF S
    <3>2. QED
      BY <2>1, <2>2, <3>1
  <2>4. S(n) \in SUBSET (1 .. Len(f)) /\ S(n - 1) \in SUBSET (1 .. Len(f))
    BY <1>1, NamedLines
  <2> HIDE DEF S
  <2>5. QED
    BY <2>3, <2>4
<1>6. \A j \in S(n - 1) : j \in Int /\ j <= n
  <2>1. S(n - 1) \in SUBSET (1 .. (n - 1))
    BY <1>1, NamedLines
  <2> HIDE DEF S
  <2>2. QED
    BY <1>1, <2>1
<1> HIDE DEF S
<1>7. ASSUME f[n].sort = "section", ~f[n].indented PROVE NameAt(f, n) = ""
  BY <1>2, <1>4, <1>7 DEF Settles
<1>8. ASSUME f[n].sort = "option", ~f[n].indented PROVE NameAt(f, n) = f[n].key
  BY <1>2, <1>4, <1>8 DEF Settles
<1>9. ASSUME \/ f[n].sort = "other"
             \/ f[n].sort = "section" /\ f[n].indented
      PROVE  NameAt(f, n) = NameAt(f, n - 1)
  <2>1. S(n) = S(n - 1)
    BY <1>5, <1>9 DEF Settles
  <2>2. CASE S(n - 1) = {}
    BY <1>2, <1>3, <2>1, <2>2
  <2>3. CASE S(n - 1) # {}
    <3>1. NameAt(f, n) = f[Min(S(n))].key
      BY <1>2, <2>1, <2>3
    <3>2. NameAt(f, n - 1) = f[Min(S(n - 1))].key
      BY <1>3, <2>3
    <3>3. QED
      BY <2>1, <3>1, <3>2
  <2>4. QED
    BY <2>2, <2>3
<1>10. ASSUME f[n].sort = "option", f[n].indented
       PROVE  NameAt(f, n) = IF NameAt(f, n - 1) # "" THEN NameAt(f, n - 1)
                             ELSE f[n].key
  <2>1. S(n) = S(n - 1) \cup (IF f[n].key # "" THEN {n} ELSE {})
    BY <1>5, <1>10 DEF Settles
  <2>2. CASE S(n - 1) = {}
    BY <1>2, <1>3, <2>1, <2>2
  <2>3. CASE S(n - 1) # {}
    <3> DEFINE first == Min(S(n - 1))
    <3>1. first \in S(n - 1) /\ \A j \in S(n - 1) : first <= j
      BY <1>3, <2>3
    <3> HIDE DEF first
    <3>2. first <= n
      BY <1>6, <3>1
    <3>3. \A j \in S(n) : j \in S(n - 1) \/ j = n
      BY <2>1
    <3>4. n \in Int
      BY <1>1
    <3>5. first \in S(n)
      BY <2>1, <3>1
    <3>6. /\ first \in S(n) /\ S(n) \in SUBSET Int
          /\ \A j \in S(n) : first <= j
      BY <1>6, <3>1, <3>2, <3>3, <3>4, <3>5
    <3>7. Min(S(n)) = first
      BY <3>6, MinIs
    <3>8. QED
      BY <1>2, <1>3, <2>3, <3>6, <3>7 DEF first
  <2>4. QED
    BY <2>2, <2>3
<1>11. QED
  BY <1>7, <1>8, <1>9, <1>10

(***************************************************************************)
(* What each sort of line does to the name.                                *)
(***************************************************************************)
Opens(f, n) == f[n].sort = "section" /\ ~Continues(f, n)
Sets(f, n)  == Continues(f, n) \/ f[n].sort = "option"

LEMMA NameKept ==
    ASSUME NEW f, Readable(f), NEW n \in 1 .. Len(f)
    PROVE  /\ Continues(f, n) => NameAt(f, n) = NameAt(f, n - 1)
           /\ Opens(f, n) => NameAt(f, n) = ""
           /\ f[n].sort = "option" /\ ~Continues(f, n) => NameAt(f, n) = f[n].key
           /\ f[n].sort = "other" => NameAt(f, n) = NameAt(f, n - 1)
<1>1. f[n].sort \in {"section", "option", "other"} /\ f[n].indented \in BOOLEAN
  BY DEF Readable, Line
<1>2. Continues(f, n) <=> f[n].indented /\ NameAt(f, n - 1) # ""
  BY DEF Continues
<1>3. NameAt(f, n - 1) # "" \/ NameAt(f, n - 1) = ""
  OBVIOUS
<1>4. /\ f[n].sort = "section" /\ ~f[n].indented => NameAt(f, n) = ""
      /\ f[n].sort = "option" /\ ~f[n].indented => NameAt(f, n) = f[n].key
      /\ f[n].sort = "option" /\ f[n].indented =>
            NameAt(f, n) = IF NameAt(f, n - 1) # "" THEN NameAt(f, n - 1)
                           ELSE f[n].key
      /\ f[n].sort = "other" \/ (f[n].sort = "section" /\ f[n].indented) =>
            NameAt(f, n) = NameAt(f, n - 1)
  BY NameStep
<1>5. Continues(f, n) => NameAt(f, n) = NameAt(f, n - 1)
  <2> SUFFICES ASSUME Continues(f, n) PROVE NameAt(f, n) = NameAt(f, n - 1)
    OBVIOUS
  <2>1. f[n].indented /\ NameAt(f, n - 1) # ""
    BY <1>2
  <2>2. CASE f[n].sort = "option"
    BY <1>4, <2>1, <2>2
  <2>3. CASE f[n].sort # "option"
    BY <1>1, <1>4, <2>1, <2>3
  <2>4. QED
    BY <2>2, <2>3
<1>6. Opens(f, n) => NameAt(f, n) = ""
  <2> SUFFICES ASSUME Opens(f, n) PROVE NameAt(f, n) = ""
    OBVIOUS
  <2>1. f[n].sort = "section" /\ (~f[n].indented \/ NameAt(f, n - 1) = "")
    BY <1>2 DEF Opens
  <2>2. QED
    BY <1>1, <1>4, <2>1
<1>7. f[n].sort = "option" /\ ~Continues(f, n) => NameAt(f, n) = f[n].key
  BY <1>1, <1>2, <1>4
<1>8. f[n].sort = "other" => NameAt(f, n) = NameAt(f, n - 1)
  BY <1>4
<1>9. QED
  BY <1>5, <1>6, <1>7, <1>8

LEMMA HeaderStep ==
    ASSUME NEW f, NEW n \in Nat
    PROVE  /\ Opens(f, n) /\ n > 0 => HeaderAt(f, n) = n
           /\ ~Opens(f, n) /\ n > 0 => HeaderAt(f, n) = HeaderAt(f, n - 1)
           /\ HeaderAt(f, 0) = 0
<1> DEFINE Headers(m) == {0} \cup {j \in 1 .. m : Opens(f, j)}
<1>1. \A m \in Nat : HeaderAt(f, m) = Max(Headers(m))
  BY DEF HeaderAt, Opens
<1>2. Opens(f, n) /\ n > 0 => HeaderAt(f, n) = n
  <2> SUFFICES ASSUME Opens(f, n), n > 0 PROVE HeaderAt(f, n) = n
    OBVIOUS
  <2>1. Headers(n) \in SUBSET Int /\ n \in Headers(n)
        /\ \A y \in Headers(n) : y <= n
    OBVIOUS
  <2> HIDE DEF Headers
  <2>2. QED
    BY <1>1, <2>1, MaxIs
<1>3. ~Opens(f, n) /\ n > 0 => HeaderAt(f, n) = HeaderAt(f, n - 1)
  <2> SUFFICES ASSUME ~Opens(f, n), n > 0
               PROVE  HeaderAt(f, n) = HeaderAt(f, n - 1)
    OBVIOUS
  <2>1. Headers(n) = Headers(n - 1) /\ n - 1 \in Nat
    OBVIOUS
  <2> HIDE DEF Headers
  <2>2. QED
    BY <1>1, <2>1
<1>4. HeaderAt(f, 0) = 0
  <2>1. Headers(0) \in SUBSET Int /\ 0 \in Headers(0)
        /\ \A y \in Headers(0) : y <= 0
    OBVIOUS
  <2> HIDE DEF Headers
  <2>2. QED
    BY <1>1, <2>1, MaxIs
<1>5. QED
  BY <1>2, <1>3, <1>4

LEMMA SectionStep ==
    ASSUME NEW f, NEW n \in Nat \ {0}
    PROVE  /\ Opens(f, n) => SectionAt(f, n) = f[n].name
           /\ ~Opens(f, n) => SectionAt(f, n) = SectionAt(f, n - 1)
           /\ SectionAt(f, 0) = ""
<1>1. HeaderAt(f, 0) = 0
  BY HeaderStep
<1>2. Opens(f, n) => HeaderAt(f, n) = n /\ n # 0
  BY HeaderStep
<1>3. ~Opens(f, n) => HeaderAt(f, n) = HeaderAt(f, n - 1)
  BY HeaderStep
<1>4. QED
  BY <1>1, <1>2, <1>3 DEF SectionAt
-----------------------------------------------------------------------------
(***************************************************************************)
(* The parser's variables section and prev_name say what they should, and  *)
(* the handler is called with the section, key and text of the line.       *)
(***************************************************************************)
State(s) == s = [section |-> s.section, name |-> s.name, queue |-> s.queue]

Agrees(f, n, s) ==
    /\ State(s)
    /\ s.section = SectionAt(f, n)
    /\ s.name = NameAt(f, n)

LEMMA ReadLine ==
    ASSUME NEW f, Readable(f), NEW n \in 1 .. Len(f), NEW s,
           Agrees(f, n - 1, s)
    PROVE  LET r == ini_parse_line(s, f[n])
           IN  /\ Agrees(f, n, r)
               /\ r.queue = IF Sets(f, n)
                            THEN conf_option_handler(s.queue, SectionAt(f, n),
                                     KeyAt(f, n), TextAt(f, n))
                            ELSE s.queue
<1> DEFINE line == f[n]
           r == ini_parse_line(s, line)
<1>1. /\ line.sort \in {"section", "option", "other"}
      /\ line.indented \in BOOLEAN
      /\ n \in Nat \ {0}
  BY DEF Readable, Line
<1>2. Continues(f, n) <=> line.indented /\ s.name # ""
  BY DEF Continues, Agrees
<1>3. CASE Continues(f, n)
  <2>1. r = [section |-> s.section, name |-> s.name,
             queue |-> conf_option_handler(s.queue, s.section, s.name, line.text)]
    BY <1>2, <1>3 DEF ini_parse_line, Agrees, State
  <2>2. SectionAt(f, n) = s.section
    BY <1>1, <1>3, SectionStep DEF Opens, Agrees
  <2>3. NameAt(f, n) = s.name
    BY <1>3, NameKept DEF Agrees
  <2>4. KeyAt(f, n) = s.name /\ TextAt(f, n) = line.text
    BY <1>3 DEF KeyAt, TextAt, Agrees
  <2>5. /\ r.section = s.section /\ r.name = s.name /\ State(r)
        /\ r.queue = conf_option_handler(s.queue, s.section, s.name, line.text)
    BY <2>1 DEF State
  <2> HIDE DEF r
  <2>6. QED
    BY <1>3, <2>2, <2>3, <2>4, <2>5 DEF Agrees, Sets, r
<1>4. CASE Opens(f, n)
  <2>1. r = [section |-> line.name, name |-> "", queue |-> s.queue]
    BY <1>2, <1>4 DEF ini_parse_line, Agrees, State, Opens
  <2>2. SectionAt(f, n) = line.name /\ NameAt(f, n) = "" /\ ~Sets(f, n)
    BY <1>1, <1>4, SectionStep, NameKept DEF Opens, Sets
  <2>3. r.section = line.name /\ r.name = "" /\ r.queue = s.queue /\ State(r)
    <3> HIDE DEF line, r
    <3>1. r.section = line.name /\ r.name = "" /\ r.queue = s.queue
      BY <2>1
    <3>2. QED
      BY <2>1, <3>1 DEF State
  <2> HIDE DEF r
  <2>4. QED
    BY <2>2, <2>3 DEF Agrees, r
<1>5. CASE line.sort = "option" /\ ~Continues(f, n)
  <2>1. r = [section |-> s.section, name |-> line.key,
             queue |-> conf_option_handler(s.queue, s.section, line.key,
                                           line.value)]
    BY <1>2, <1>5 DEF ini_parse_line, Agrees, State
  <2>2. SectionAt(f, n) = s.section
    BY <1>1, <1>5, SectionStep DEF Opens, Agrees
  <2>3. NameAt(f, n) = line.key
    BY <1>5, NameKept
  <2>4. KeyAt(f, n) = line.key /\ TextAt(f, n) = line.value
    BY <1>5 DEF KeyAt, TextAt
  <2>5. /\ r.section = s.section /\ r.name = line.key /\ State(r)
        /\ r.queue = conf_option_handler(s.queue, s.section, line.key, line.value)
    BY <2>1 DEF State
  <2> HIDE DEF r
  <2>6. QED
    BY <1>5, <2>2, <2>3, <2>4, <2>5 DEF Agrees, Sets, r
<1>6. CASE line.sort = "other" /\ ~Continues(f, n)
  <2>1. r = s
    BY <1>2, <1>6 DEF ini_parse_line
  <2>2. SectionAt(f, n) = SectionAt(f, n - 1) /\ ~Sets(f, n)
    BY <1>1, <1>6, SectionStep DEF Opens, Sets
  <2>3. NameAt(f, n) = NameAt(f, n - 1)
    BY <1>6, NameKept
  <2> HIDE DEF r
  <2>4. QED
    BY <2>1, <2>2, <2>3 DEF Agrees, r
<1>7. QED
  BY <1>1, <1>3, <1>4, <1>5, <1>6 DEF Opens

LEMMA StartAgrees == ASSUME NEW f, Readable(f) PROVE Agrees(f, 0, Start)
<1>1. SectionAt(f, 0) = ""
  <2>1. HeaderAt(f, 0) = 0
    BY HeaderStep
  <2>2. QED
    BY <2>1 DEF SectionAt
<1>2. NameAt(f, 0) = ""
  <2>1. NamedUpTo(f, 0) \in SUBSET (1 .. 0)
    BY NamedLines
  <2>2. 0 \in 0 .. Len(f)
    BY DEF Readable
  <2>3. NamedUpTo(f, 0) = {} => NameAt(f, 0) = ""
    BY <2>2, NameFound
  <2> HIDE DEF NamedUpTo
  <2>4. NamedUpTo(f, 0) = {}
    BY <2>1
  <2>5. QED
    BY <2>3, <2>4
<1>3. QED
  BY <1>1, <1>2 DEF Agrees, State, Start
-----------------------------------------------------------------------------
(***************************************************************************)
(* The handler: an entry with one option set, in its place or at the end.  *)
(***************************************************************************)
OptionKeys == {"path_regexp", "op_regexp", "probability", "duration"}

Default(key) == IF key \in {"path_regexp", "op_regexp"} THEN NULL ELSE 0

Fits(key, value) ==
    /\ key = "path_regexp" => value \in SUBSET Path
    /\ key = "op_regexp" => value \in SUBSET Op
    /\ key \in {"probability", "duration"} => value \in int

With(e, key, value) ==
    IF key \in OptionKeys THEN [e EXCEPT ![key] = Stored(key, value)] ELSE e

LEMMA Limits ==
    /\ Width \in Nat
    /\ MaxProbability \in Nat /\ MaxProbability < Width
    /\ MaxNsec \in Nat /\ MaxNsec < Width
<1> DEFINE half == Width \div 2
<1>1. Width \in Nat /\ half \in Nat /\ half <= Width
  BY NumbersAssumption
<1>2. MaxProbability \in 0 .. (half - 1) /\ MaxNsec \in 0 .. (half - 1)
  BY NumbersAssumption
<1> HIDE DEF half
<1>3. QED
  BY <1>1, <1>2

\* The range of an int, and of the unsigned int it is stored in.
LEMMA Numbers ==
    ASSUME NEW n \in int
    PROVE  /\ Width \in Nat
           /\ Unsigned(n) \in 0 .. (Width - 1)
           /\ 0 \in int
           /\ Unsigned(0) = 0
           /\ n \in (MaxProbability - Width) .. (Width - 1)
           /\ n \in (MaxNsec + 1 - Width) .. (Width - 1)
<1> DEFINE half == Width \div 2
<1>1. /\ Width \in Nat /\ half \in Nat /\ half + half <= Width
      /\ MaxProbability \in 0 .. (half - 1) /\ MaxNsec \in 0 .. (half - 1)
  BY NumbersAssumption
<1>2. n \in -half .. (half - 1) /\ (0 \in int <=> 0 \in -half .. (half - 1))
  BY DEF int
<1> HIDE DEF half
<1>3. n \in Int /\ Width > 0 /\ half > 0
  BY <1>1, <1>2
<1>4. Unsigned(n) \in 0 .. (Width - 1) /\ Unsigned(0) = 0
  BY <1>1, <1>3 DEF Unsigned
<1>5. QED
  BY <1>1, <1>2, <1>3, <1>4

LEMMA StoredFits ==
    ASSUME NEW key \in OptionKeys, NEW value, Fits(key, value)
    PROVE  /\ key = "path_regexp" => Stored(key, value) \in {NULL} \cup SUBSET Path
           /\ key = "op_regexp" => Stored(key, value) \in {NULL} \cup SUBSET Op
           /\ key \in {"probability", "duration"} =>
                Stored(key, value) \in 0 .. Width - 1
BY Numbers DEF Fits, Stored

LEMMA SetOption ==
    ASSUME NEW e \in Entry, NEW key, NEW value, Fits(key, value)
    PROVE  /\ With(e, key, value) \in Entry
           /\ With(e, key, value).type = e.type
           /\ \A k \in OptionKeys :
                With(e, key, value)[k] = IF k = key THEN Stored(key, value) ELSE e[k]
<1>1. CASE key \notin OptionKeys
  BY <1>1 DEF With
<1>2. CASE key = "path_regexp"
  BY <1>2, StoredFits DEF With, Entry, OptionKeys
<1>3. CASE key = "op_regexp"
  BY <1>3, StoredFits DEF With, Entry, OptionKeys
<1>4. CASE key = "probability"
  BY <1>4, StoredFits DEF With, Entry, OptionKeys
<1>5. CASE key = "duration"
  BY <1>5, StoredFits DEF With, Entry, OptionKeys
<1>6. QED
  BY <1>1, <1>2, <1>3, <1>4, <1>5 DEF OptionKeys

LEMMA FreshEntry ==
    ASSUME NEW t \in InjType
    PROVE  /\ NewEntry(t) \in Entry
           /\ NewEntry(t).type = t
           /\ \A k \in OptionKeys : NewEntry(t)[k] = Default(k)
<1>1. Width \in Nat /\ 0 \in 0 .. Width - 1
  BY NumbersAssumption
<1>2. QED
  BY <1>1 DEF NewEntry, Entry, OptionKeys, Default

LEMMA QueueFacts ==
    ASSUME NEW q \in Queue
    PROVE  /\ Len(q) \in Nat
           /\ DOMAIN q = 1 .. Len(q)
           /\ \A i \in 1 .. Len(q) : q[i] \in Entry
BY DEF Queue

LEMMA EntryKeys == ASSUME NEW e \in Entry PROVE DOMAIN e \ {"type"} = OptionKeys
BY DEF Entry, OptionKeys

\* No two entries are for the same injection.
OneEach(q) == \A i, j \in 1 .. Len(q) : q[i].type = q[j].type => i = j

LEMMA HandleKnown ==
    ASSUME NEW q \in Queue, OneEach(q), NEW section \in InjType, NEW key,
           NEW text, NEW i \in 1 .. Len(q), q[i].type = section
    PROVE  conf_option_handler(q, section, key, text)
               = [q EXCEPT ![i] = With(q[i], key, ReadAs(key, text))]
<1> DEFINE at == CHOOSE j \in DOMAIN q : q[j].type = section
<1>1. Len(q) \in Nat /\ DOMAIN q = 1 .. Len(q) /\ q[i] \in Entry
  BY QueueFacts
<1>2. at = i
  <2>1. at \in DOMAIN q /\ q[at].type = section
    BY <1>1
  <2> HIDE DEF at
  <2>2. QED
    BY <1>1, <2>1 DEF OneEach
<1>3. conf_option_handler(q, section, key, text) =
        IF key \notin DOMAIN q[at] \ {"type"} THEN q
        ELSE [q EXCEPT ![at][key] = Stored(key, ReadAs(key, text))]
  BY <1>1 DEF conf_option_handler
<1> HIDE DEF at
<1>4. DOMAIN q[i] \ {"type"} = OptionKeys
  BY <1>1, EntryKeys
<1>5. CASE key \in OptionKeys
  BY <1>2, <1>3, <1>4, <1>5 DEF With
<1>6. CASE key \notin OptionKeys
  <2>1. q = [q EXCEPT ![i] = q[i]]
    <3>1. q \in [1 .. Len(q) -> Entry]
      BY <1>1 DEF Queue
    <3>2. QED
      BY <3>1
  <2>2. QED
    BY <1>2, <1>3, <1>4, <1>6, <2>1 DEF With
<1>7. QED
  BY <1>5, <1>6

LEMMA HandleNew ==
    ASSUME NEW q \in Queue, NEW section \in InjType, NEW key, NEW text,
           \A i \in 1 .. Len(q) : q[i].type # section
    PROVE  conf_option_handler(q, section, key, text)
               = Append(q, With(NewEntry(section), key, ReadAs(key, text)))
<1> DEFINE e == NewEntry(section)
           queue == Append(q, e)
           at == CHOOSE j \in DOMAIN queue : queue[j].type = section
           last == Len(q) + 1
<1>1. Len(q) \in Nat /\ DOMAIN q = 1 .. Len(q)
  BY QueueFacts
<1>2. e \in Entry /\ e.type = section
  BY FreshEntry
<1>3. /\ DOMAIN queue = 1 .. last
      /\ queue[last] = e
      /\ \A i \in 1 .. Len(q) : queue[i] = q[i]
  <2> HIDE DEF e
  <2>1. q \in Seq(Entry)
    BY DEF Queue
  <2>2. QED
    BY <1>1, <1>2, <2>1
<1>4. conf_option_handler(q, section, key, text) =
        IF key \notin DOMAIN queue[at] \ {"type"} THEN queue
        ELSE [queue EXCEPT ![at][key] = Stored(key, ReadAs(key, text))]
  <2>1. ~(\E i \in DOMAIN q : q[i].type = section) /\ ~(section \notin InjType)
    BY <1>1
  <2> DEFINE found == IF \E i \in DOMAIN q : q[i].type = section THEN q ELSE queue
             spot(x) == CHOOSE j \in DOMAIN x : x[j].type = section
             set(x) == IF key \notin DOMAIN x[spot(x)] \ {"type"} THEN x
                       ELSE [x EXCEPT ![spot(x)][key] = Stored(key, ReadAs(key, text))]
  <2>2. conf_option_handler(q, section, key, text)
            = IF section \notin InjType THEN q ELSE set(found)
    BY DEF conf_option_handler
  <2>3. found = queue
    BY <2>1
  <2> HIDE DEF set, found
  <2>4. conf_option_handler(q, section, key, text) = set(queue)
    BY <2>1, <2>2, <2>3
  <2>5. QED
    BY <2>4 DEF set
<1> HIDE DEF e
<1>5. at = last
  <2>1. \E j \in DOMAIN queue : queue[j].type = section
    BY <1>1, <1>2, <1>3
  <2>2. at \in DOMAIN queue /\ queue[at].type = section
    BY <2>1
  <2> HIDE DEF at, queue
  <2>3. QED
    BY <1>1, <1>3, <2>2
<1>6. DOMAIN queue[at] \ {"type"} = OptionKeys
  BY <1>2, <1>3, <1>5, EntryKeys
<1>7. [queue EXCEPT ![last] = With(e, key, ReadAs(key, text))]
        = Append(q, With(e, key, ReadAs(key, text)))
  <2> DEFINE w == With(e, key, ReadAs(key, text))
             L == [queue EXCEPT ![last] = w]
             R == Append(q, w)
  <2> HIDE DEF w
  <2>1. /\ DOMAIN R = 1 .. last
        /\ R[last] = w
        /\ \A i \in 1 .. Len(q) : R[i] = q[i]
    <3>1. q \in Seq(Entry \cup {w})
      BY DEF Queue
    <3>2. QED
      BY <1>1, <3>1
  <2>2. DOMAIN L = 1 .. last /\ \A i \in 1 .. last : L[i] = R[i]
    <3> HIDE DEF R, queue
    <3>1. QED
      BY <1>1, <1>3, <2>1
  <2>3. L = R
    <3>1. R = [i \in 1 .. last |-> R[i]]
      <4>1. R \in Seq(Entry \cup {w})
        BY DEF Queue
      <4> HIDE DEF R
      <4>2. QED
        BY <2>1, <4>1
    <3>2. L = [i \in 1 .. last |-> L[i]]
      <4> HIDE DEF queue, R
      <4>1. QED
        BY <1>3
    <3> HIDE DEF L, R
    <3>3. QED
      BY <2>2, <3>1, <3>2
  <2>4. QED
    BY <2>3 DEF w
<1> HIDE DEF at
<1>8. CASE key \in OptionKeys
  <2> HIDE DEF queue
  <2>1. conf_option_handler(q, section, key, text)
            = [queue EXCEPT ![last] = [queue[last] EXCEPT ![key] = Stored(key, ReadAs(key, text))]]
    BY <1>4, <1>5, <1>6, <1>8
  <2>2. QED
    BY <1>3, <1>7, <1>8, <2>1 DEF With, e
<1>9. CASE key \notin OptionKeys
  BY <1>4, <1>6, <1>9 DEF With, e
<1>10. QED
  BY <1>8, <1>9
-----------------------------------------------------------------------------
(***************************************************************************)
(* The queue after n lines: an entry for each injection with a line among  *)
(* them, in the order of the first of these lines, and in each option the  *)
(* value of the last line that sets it.                                    *)
(***************************************************************************)
\* The value that a line gives to its option.
ValueAt(f, i) == ReadAs(KeyAt(f, i), TextAt(f, i))

Above(f, t, n) == {i \in LinesOf(f, t) : i <= n}

LastValue(f, t, n, k, v) ==
    /\ (\A l \in Above(f, t, n) : KeyAt(f, l) # k) => v = Default(k)
    /\ \A l \in Above(f, t, n) :
        KeyAt(f, l) = k /\ (\A m \in Above(f, t, n) : KeyAt(f, m) = k => m <= l)
            => v = Stored(k, ValueAt(f, l))

Entered(f, n, q) ==
    \A t \in InjType :
        (\E i \in 1 .. Len(q) : q[i].type = t) <=> Above(f, t, n) # {}

InOrder(f, n, q) ==
    \A i, j \in 1 .. Len(q) : i < j =>
        \E x \in Above(f, q[i].type, n) : \A y \in Above(f, q[j].type, n) : x < y

Values(f, n, q) ==
    \A i \in 1 .. Len(q) : \A k \in OptionKeys :
        LastValue(f, q[i].type, n, k, q[i][k])

Built(f, n, q) ==
    /\ q \in Queue
    /\ Entered(f, n, q)
    /\ InOrder(f, n, q)
    /\ Values(f, n, q)

LEMMA AboveStep ==
    ASSUME NEW f, Readable(f), NEW n \in 1 .. Len(f), NEW t
    PROVE  /\ Above(f, t, n - 1) \subseteq 1 .. (n - 1)
           /\ Above(f, t, n) =
                IF Sets(f, n) /\ SectionAt(f, n) = t
                THEN Above(f, t, n - 1) \cup {n} ELSE Above(f, t, n - 1)
<1>1. /\ n \in Nat
      /\ SettingLines(f) = {i \in 1 .. Len(f) : Sets(f, i)}
  BY DEF Readable, SettingLines, Sets
<1>2. LinesOf(f, t) =
        {i \in 1 .. Len(f) : Sets(f, i) /\ SectionAt(f, i) = t}
  BY <1>1 DEF LinesOf
<1>3. Len(f) \in Nat
  BY DEF Readable
<1>4. QED
  BY <1>1, <1>2, <1>3 DEF Above

\* The keys of the handler, with values of their types.
LEMMA ValueFits ==
    ASSUME NEW f, Readable(f), NEW n \in 1 .. Len(f), Sets(f, n)
    PROVE  Fits(KeyAt(f, n), ValueAt(f, n))
<1>1. Line(f[n])
  BY DEF Readable
<1>2. TextAt(f, n) \in Text
  BY <1>1 DEF TextAt, Sets, Line
<1>3. QED
  BY <1>2 DEF ValueAt, ReadAs, Fits, Text

LEMMA LastValueStep ==
    ASSUME NEW f, Readable(f), NEW n \in 1 .. Len(f), Sets(f, n),
           NEW t, SectionAt(f, n) = t, NEW k, NEW v,
           LastValue(f, t, n - 1, k, v)
    PROVE  LastValue(f, t, n, k,
                     IF k = KeyAt(f, n) THEN Stored(k, ValueAt(f, n)) ELSE v)
<1>1. /\ Above(f, t, n - 1) \subseteq 1 .. (n - 1)
      /\ Above(f, t, n) = Above(f, t, n - 1) \cup {n}
      /\ n \in Nat
  BY AboveStep DEF Readable
<1>2. CASE k = KeyAt(f, n)
  <2>1. ASSUME NEW l \in Above(f, t, n),
               \A m \in Above(f, t, n) : KeyAt(f, m) = k => m <= l
        PROVE  l = n
    <3>1. n <= l /\ (l = n \/ l \in 1 .. (n - 1))
      BY <1>1, <1>2, <2>1
    <3>2. QED
      BY <1>1, <3>1
  <2>2. n \in Above(f, t, n)
    BY <1>1
  <2>3. QED
    BY <1>2, <2>1, <2>2 DEF LastValue
<1>3. CASE k # KeyAt(f, n)
  <2>1. \A l \in Above(f, t, n) : KeyAt(f, l) = k => l \in Above(f, t, n - 1)
    BY <1>1, <1>3
  <2>2. \A l \in Above(f, t, n - 1) : l \in Above(f, t, n)
    BY <1>1
  <2>3. QED
    BY <1>3, <2>1, <2>2 DEF LastValue
<1>4. QED
  BY <1>2, <1>3

LEMMA LastValueKept ==
    ASSUME NEW f, Readable(f), NEW n \in 1 .. Len(f), NEW t,
           ~Sets(f, n) \/ SectionAt(f, n) # t
    PROVE  /\ Above(f, t, n) = Above(f, t, n - 1)
           /\ \A k, v : LastValue(f, t, n - 1, k, v) => LastValue(f, t, n, k, v)
<1>1. Above(f, t, n) = Above(f, t, n - 1)
  BY AboveStep
<1>2. QED
  BY <1>1 DEF LastValue

LEMMA BuiltDistinct ==
    ASSUME NEW f, Readable(f), NEW n \in 0 .. Len(f), NEW q, Built(f, n, q)
    PROVE  OneEach(q)
<1>1. /\ Len(q) \in Nat
      /\ \A t : Above(f, t, n) \subseteq Nat
  BY QueueFacts DEF Built, Above, LinesOf, SettingLines, Readable
<1>2. ASSUME NEW i \in 1 .. Len(q), NEW j \in 1 .. Len(q), i < j,
             q[i].type = q[j].type
      PROVE  FALSE
  <2>1. PICK x \in Above(f, q[i].type, n) :
            \A y \in Above(f, q[j].type, n) : x < y
    BY <1>2 DEF Built, InOrder
  <2>2. x < x /\ x \in Nat
    BY <1>1, <1>2, <2>1
  <2>3. QED
    BY <2>2
<1>3. ASSUME NEW i \in 1 .. Len(q), NEW j \in 1 .. Len(q), q[i].type = q[j].type
      PROVE  i = j
  BY <1>1, <1>2, <1>3
<1>4. QED
  BY <1>3 DEF OneEach

LEMMA EntryTypes == ASSUME NEW e \in Entry PROVE e.type \in InjType
BY DEF Entry

LEMMA BuiltKept ==
    ASSUME NEW f, Readable(f), NEW n \in 1 .. Len(f), NEW q, Built(f, n - 1, q),
           ~Sets(f, n) \/ SectionAt(f, n) \notin InjType
    PROVE  Built(f, n, q)
<1>1. q \in Queue /\ \A i \in 1 .. Len(q) : q[i].type \in InjType
  BY QueueFacts, EntryTypes DEF Built
<1>2. \A t \in InjType :
        /\ Above(f, t, n) = Above(f, t, n - 1)
        /\ \A k, v : LastValue(f, t, n - 1, k, v) => LastValue(f, t, n, k, v)
  BY LastValueKept
<1>3. Entered(f, n, q)
  BY <1>2 DEF Built, Entered
<1>4. InOrder(f, n, q)
  BY <1>1, <1>2 DEF Built, InOrder
<1>5. Values(f, n, q)
  BY <1>1, <1>2 DEF Built, Values
<1>6. QED
  BY <1>1, <1>3, <1>4, <1>5 DEF Built

\* One more line for an injection that has its entry.
LEMMA BuiltKnown ==
    ASSUME NEW f, Readable(f), NEW n \in 1 .. Len(f), Sets(f, n),
           NEW t \in InjType, SectionAt(f, n) = t,
           NEW q, Built(f, n - 1, q), NEW at \in 1 .. Len(q), q[at].type = t
    PROVE  Built(f, n, [q EXCEPT ![at] = With(q[at], KeyAt(f, n), ValueAt(f, n))])
<1> DEFINE key == KeyAt(f, n)
           value == ValueAt(f, n)
           e == With(q[at], key, value)
           r == [q EXCEPT ![at] = e]
<1>1. /\ q \in Queue /\ n \in Nat
      /\ Len(q) \in Nat /\ DOMAIN q = 1 .. Len(q)
      /\ \A i \in 1 .. Len(q) : q[i] \in Entry /\ q[i].type \in InjType
  BY QueueFacts, EntryTypes DEF Built, Readable
<1>2. /\ e \in Entry
      /\ e.type = t
      /\ \A k \in OptionKeys : e[k] = IF k = key THEN Stored(k, value) ELSE q[at][k]
  <2>1. q[at] \in Entry /\ Fits(key, value)
    BY <1>1, ValueFits
  <2> HIDE DEF key, value
  <2>2. QED
    BY <2>1, SetOption
<1> HIDE DEF e
<1>3. /\ r \in Queue
      /\ Len(r) = Len(q)
      /\ r[at] = e
      /\ \A i \in 1 .. Len(q) : i # at => r[i] = q[i]
  <2>1. q \in Seq(Entry)
    BY <1>1 DEF Queue
  <2>2. QED
    BY <1>1, <1>2, <2>1 DEF Queue
<1>4. OneEach(q)
  <2>1. n - 1 \in 0 .. Len(f)
    BY DEF Readable
  <2>2. QED
    BY <2>1, BuiltDistinct
<1> HIDE DEF r
<1>5. \A i \in 1 .. Len(q) : r[i].type = q[i].type /\ (q[i].type = t => i = at)
  BY <1>2, <1>3, <1>4 DEF OneEach
<1>6. /\ Above(f, t, n) = Above(f, t, n - 1) \cup {n}
      /\ \A u : u # t => Above(f, u, n) = Above(f, u, n - 1)
      /\ \A u : Above(f, u, n - 1) \subseteq 1 .. (n - 1)
  BY AboveStep
<1>7. Entered(f, n, r)
  <2>1. \A u \in InjType :
            (\E i \in 1 .. Len(r) : r[i].type = u)
                <=> (\E i \in 1 .. Len(q) : q[i].type = u)
    BY <1>3, <1>5
  <2>2. \A u \in InjType : u # t =>
            (Above(f, u, n) # {} <=> Above(f, u, n - 1) # {})
    BY <1>6
  <2>3. Above(f, t, n) # {} /\ Above(f, t, n - 1) # {}
    BY <1>6 DEF Built, Entered
  <2>4. QED
    BY <2>1, <2>2, <2>3 DEF Built, Entered
<1>8. InOrder(f, n, r)
  <2> SUFFICES ASSUME NEW i \in 1 .. Len(q), NEW j \in 1 .. Len(q), i < j
               PROVE  \E x \in Above(f, q[i].type, n) :
                        \A y \in Above(f, q[j].type, n) : x < y
    BY <1>3, <1>5 DEF InOrder
  <2>1. PICK x \in Above(f, q[i].type, n - 1) :
            \A y \in Above(f, q[j].type, n - 1) : x < y
    BY DEF Built, InOrder
  <2>2. x \in Above(f, q[i].type, n) /\ x \in 1 .. (n - 1) /\ x < n
    BY <1>1, <1>6
  <2>3. \A y \in Above(f, q[j].type, n) :
            y \in Above(f, q[j].type, n - 1) \/ y = n
    BY <1>6
  <2>4. QED
    BY <2>1, <2>2, <2>3
<1>9. Values(f, n, r)
  <2> SUFFICES ASSUME NEW i \in 1 .. Len(q), NEW k \in OptionKeys
               PROVE  LastValue(f, q[i].type, n, k, r[i][k])
    BY <1>3, <1>5 DEF Values
  <2>1. LastValue(f, q[i].type, n - 1, k, q[i][k])
    BY DEF Built, Values
  <2>2. CASE i = at
    <3>1. r[i][k] = IF k = key THEN Stored(k, value) ELSE q[i][k]
      BY <1>2, <1>3, <2>2
    <3>2. q[i].type = t
      BY <2>2
    <3>3. QED
      BY <2>1, <3>1, <3>2, LastValueStep
  <2>3. CASE i # at
    <3>1. r[i] = q[i] /\ q[i].type # t
      BY <1>3, <1>5, <2>3
    <3>2. QED
      BY <2>1, <3>1, LastValueKept
  <2>4. QED
    BY <2>2, <2>3
<1>10. QED
  BY <1>3, <1>7, <1>8, <1>9 DEF Built, r, e

\* The first line for an injection.
LEMMA BuiltNew ==
    ASSUME NEW f, Readable(f), NEW n \in 1 .. Len(f), Sets(f, n),
           NEW t \in InjType, SectionAt(f, n) = t,
           NEW q, Built(f, n - 1, q), \A i \in 1 .. Len(q) : q[i].type # t
    PROVE  Built(f, n, Append(q, With(NewEntry(t), KeyAt(f, n), ValueAt(f, n))))
<1> DEFINE key == KeyAt(f, n)
           value == ValueAt(f, n)
           e == With(NewEntry(t), key, value)
           r == Append(q, e)
           last == Len(q) + 1
<1>1. /\ q \in Queue /\ n \in Nat
      /\ Len(q) \in Nat /\ DOMAIN q = 1 .. Len(q)
      /\ \A i \in 1 .. Len(q) : q[i] \in Entry /\ q[i].type \in InjType
  BY QueueFacts, EntryTypes DEF Built, Readable
<1>2. /\ e \in Entry
      /\ e.type = t
      /\ \A k \in OptionKeys : e[k] = IF k = key THEN Stored(k, value) ELSE Default(k)
  <2>1. /\ NewEntry(t) \in Entry /\ NewEntry(t).type = t
        /\ \A k \in OptionKeys : NewEntry(t)[k] = Default(k)
        /\ Fits(key, value)
    BY FreshEntry, ValueFits
  <2> HIDE DEF key, value
  <2>2. QED
    BY <2>1, SetOption
<1> HIDE DEF e
<1>3. /\ r \in Queue
      /\ Len(r) = last
      /\ r[last] = e
      /\ \A i \in 1 .. Len(q) : r[i] = q[i]
  <2>1. q \in Seq(Entry)
    BY <1>1 DEF Queue
  <2>2. QED
    BY <1>1, <1>2, <2>1 DEF Queue
<1> HIDE DEF r
<1>4. \A i \in 1 .. Len(r) : i \in 1 .. Len(q) \/ i = last
  BY <1>1, <1>3
<1>5. /\ Above(f, t, n) = Above(f, t, n - 1) \cup {n}
      /\ \A u : u # t => Above(f, u, n) = Above(f, u, n - 1)
      /\ \A u : Above(f, u, n - 1) \subseteq 1 .. (n - 1)
  BY AboveStep
<1>6. Above(f, t, n - 1) = {}
  BY DEF Built, Entered
<1>7. Entered(f, n, r)
  <2>1. \A u \in InjType :
            (\E i \in 1 .. Len(r) : r[i].type = u)
                <=> (\E i \in 1 .. Len(q) : q[i].type = u) \/ u = t
    <3>1. last \in 1 .. Len(r) /\ \A i \in 1 .. Len(q) : i \in 1 .. Len(r)
      BY <1>1, <1>3
    <3>2. QED
      BY <1>2, <1>3, <1>4, <3>1
  <2>2. \A u \in InjType : u # t =>
            (Above(f, u, n) # {} <=> Above(f, u, n - 1) # {})
    BY <1>5
  <2>3. Above(f, t, n) # {}
    BY <1>5
  <2>4. QED
    BY <2>1, <2>2, <2>3 DEF Built, Entered
<1>8. InOrder(f, n, r)
  <2> SUFFICES ASSUME NEW i \in 1 .. Len(r), NEW j \in 1 .. Len(r), i < j
               PROVE  \E x \in Above(f, r[i].type, n) :
                        \A y \in Above(f, r[j].type, n) : x < y
    BY DEF InOrder
  <2>1. i \in 1 .. Len(q) /\ (j \in 1 .. Len(q) \/ j = last)
    BY <1>1, <1>3, <1>4
  <2>2. /\ r[i] = q[i] /\ q[i].type # t
        /\ Above(f, q[i].type, n) = Above(f, q[i].type, n - 1)
        /\ Above(f, q[i].type, n) \subseteq 1 .. (n - 1)
    BY <1>3, <1>5, <2>1
  <2>3. CASE j \in 1 .. Len(q)
    <3>1. /\ r[j] = q[j] /\ q[j].type # t
          /\ Above(f, q[j].type, n) = Above(f, q[j].type, n - 1)
      BY <1>3, <1>5, <2>3
    <3>2. QED
      BY <2>1, <2>2, <2>3, <3>1 DEF Built, InOrder
  <2>4. CASE j = last
    <3>1. r[j].type = t /\ Above(f, t, n) = {n}
      BY <1>2, <1>3, <1>5, <1>6, <2>4
    <3>2. Above(f, q[i].type, n) # {}
      BY <1>1, <2>1, <2>2 DEF Built, Entered
    <3>3. PICK x \in Above(f, q[i].type, n) : TRUE
      BY <3>2
    <3>4. x < n
      BY <1>1, <2>2, <3>3
    <3>5. QED
      BY <2>2, <3>1, <3>3, <3>4
  <2>5. QED
    BY <2>1, <2>3, <2>4
<1>9. Values(f, n, r)
  <2> SUFFICES ASSUME NEW i \in 1 .. Len(r), NEW k \in OptionKeys
               PROVE  LastValue(f, r[i].type, n, k, r[i][k])
    BY DEF Values
  <2>1. CASE i \in 1 .. Len(q)
    <3>1. r[i] = q[i] /\ q[i].type # t
      BY <1>3, <2>1
    <3>2. LastValue(f, q[i].type, n - 1, k, q[i][k])
      BY <2>1 DEF Built, Values
    <3>3. QED
      BY <3>1, <3>2, LastValueKept
  <2>2. CASE i = last
    <3>1. LastValue(f, t, n - 1, k, Default(k))
      BY <1>6 DEF LastValue
    <3>2. r[i].type = t
          /\ r[i][k] = IF k = key THEN Stored(k, value) ELSE Default(k)
      BY <1>2, <1>3, <2>2
    <3>3. QED
      BY <3>1, <3>2, LastValueStep
  <2>3. QED
    BY <1>4, <2>1, <2>2
<1>10. QED
  BY <1>3, <1>7, <1>8, <1>9 DEF Built, r, e

LEMMA BuiltStep ==
    ASSUME NEW f, Readable(f), NEW n \in 1 .. Len(f), NEW q, Built(f, n - 1, q)
    PROVE  Built(f, n, IF Sets(f, n)
                       THEN conf_option_handler(q, SectionAt(f, n), KeyAt(f, n),
                                                TextAt(f, n))
                       ELSE q)
<1>1. CASE ~Sets(f, n)
  BY <1>1, BuiltKept
<1>2. CASE Sets(f, n) /\ SectionAt(f, n) \notin InjType
  <2>1. conf_option_handler(q, SectionAt(f, n), KeyAt(f, n), TextAt(f, n)) = q
    BY <1>2 DEF conf_option_handler
  <2>2. QED
    BY <1>2, <2>1, BuiltKept
<1>3. CASE Sets(f, n) /\ SectionAt(f, n) \in InjType
  <2> DEFINE t == SectionAt(f, n)
             k == KeyAt(f, n)
             x == TextAt(f, n)
             v == ReadAs(k, x)
  <2>1. q \in Queue /\ OneEach(q) /\ t \in InjType
    <3>1. n - 1 \in 0 .. Len(f)
      BY DEF Readable
    <3>2. QED
      BY <1>3, <3>1, BuiltDistinct DEF Built
  <2>2. /\ \A i \in 1 .. Len(q) : q[i].type = t =>
                Built(f, n, [q EXCEPT ![i] = With(q[i], k, v)])
        /\ (\A i \in 1 .. Len(q) : q[i].type # t) =>
                Built(f, n, Append(q, With(NewEntry(t), k, v)))
    BY <1>3, <2>1, BuiltKnown, BuiltNew DEF ValueAt
  <2> HIDE DEF t, k, x
  <2>3. CASE \E i \in 1 .. Len(q) : q[i].type = t
    <3>1. PICK i \in 1 .. Len(q) : q[i].type = t
      BY <2>3
    <3>2. conf_option_handler(q, t, k, x) = [q EXCEPT ![i] = With(q[i], k, v)]
      BY <2>1, <3>1, HandleKnown
    <3>3. QED
      BY <1>3, <2>2, <3>1, <3>2 DEF t, k, x
  <2>4. CASE \A i \in 1 .. Len(q) : q[i].type # t
    <3>1. conf_option_handler(q, t, k, x) = Append(q, With(NewEntry(t), k, v))
      BY <2>1, <2>4, HandleNew
    <3>2. QED
      BY <1>3, <2>2, <2>4, <3>1 DEF t, k, x
  <2>5. QED
    BY <2>3, <2>4
<1>4. QED
  BY <1>1, <1>2, <1>3

LEMMA BuiltEmpty == ASSUME NEW f, Readable(f) PROVE Built(f, 0, <<>>)
<1>1. /\ <<>> \in Queue /\ Len(<<>>) = 0
      /\ \A i \in 1 .. 0 : FALSE
  BY DEF Queue
<1>2. \A t : Above(f, t, 0) = {}
  BY DEF Above, LinesOf, SettingLines, Readable
<1>3. QED
  BY <1>1, <1>2 DEF Built, Entered, InOrder, Values

\* The induction over the lines.
LEMMA AllRead ==
    ASSUME NEW f, Readable(f)
    PROVE  Built(f, Len(f), ini_parse(f))
<1> DEFINE N == Len(f)
           s(n) == Known(f)[n]
           Right(n) == Agrees(f, n, s(n)) /\ Built(f, n, s(n).queue)
           G == {n \in 0 .. N : Right(n)}
<1>1. N \in Nat
  BY DEF Readable
<1>2. /\ ini_parse(f) = s(N).queue
      /\ s(0) = Start
      /\ \A n \in 1 .. N : s(n) = ini_parse_line(s(n - 1), f[n])
  BY <1>1, LineByLine
<1>3. Right(0)
  <2>1. Start.queue = <<>>
    BY DEF Start
  <2>2. QED
    BY <1>2, <2>1, StartAgrees, BuiltEmpty
<1>4. ASSUME NEW n \in 0 .. (N - 1), Right(n) PROVE Right(n + 1)
  <2> DEFINE m == n + 1
             next == s(m)
  <2>1. m \in 1 .. N /\ m - 1 = n
    BY <1>1
  <2>2. next = ini_parse_line(s(n), f[m])
    BY <1>2, <2>1
  <2> HIDE DEF m, s
  <2>3. Agrees(f, m - 1, s(n)) /\ Built(f, m - 1, s(n).queue)
    BY <1>4, <2>1
  <2>4. /\ Agrees(f, m, next)
        /\ next.queue = IF Sets(f, m)
                        THEN conf_option_handler(s(n).queue, SectionAt(f, m),
                                 KeyAt(f, m), TextAt(f, m))
                        ELSE s(n).queue
    BY <2>1, <2>2, <2>3, ReadLine
  <2>5. Built(f, m, next.queue)
    BY <2>1, <2>3, <2>4, BuiltStep
  <2>6. QED
    BY <2>4, <2>5 DEF m
<1> HIDE DEF s
<1>5. 0 \in G /\ \A n \in 0 .. (N - 1) : n \in G => n + 1 \in G
  <2> HIDE DEF Right
  <2>1. \A n \in 0 .. (N - 1) : n + 1 \in 0 .. N
    BY <1>1
  <2>2. QED
    BY <1>1, <1>3, <1>4, <2>1
<1>6. N \in G
  <2> HIDE DEF G, N
  <2>1. \A n \in 0 .. N : n \in G
    BY <1>1, <1>5, UpTo
  <2>2. QED
    BY <1>1, <2>1
<1>7. QED
  BY <1>2, <1>6
-----------------------------------------------------------------------------
(***************************************************************************)
(* The settings of the queue are the ones of the file.                     *)
(***************************************************************************)
LEMMA LinesWithin ==
    ASSUME NEW f, Readable(f), NEW t
    PROVE  /\ Len(f) \in Nat
           /\ LinesOf(f, t) \in SUBSET (1 .. Len(f))
           /\ LinesOf(f, t) \in SUBSET (0 .. Len(f))
           /\ Above(f, t, Len(f)) = LinesOf(f, t)
BY DEF Readable, Above, LinesOf, SettingLines

LEMMA SettingIs ==
    ASSUME NEW f, Readable(f), NEW t, NEW k \in OptionKeys
    PROVE  LET last == Setting(f, t, k, Default(k))
           IN  /\ Fits(k, last) \/ last = Default(k)
               /\ \A v : LastValue(f, t, Len(f), k, v) => v = Stored(k, last)
<1> DEFINE at == {i \in LinesOf(f, t) : KeyAt(f, i) = k}
<1>1. /\ Len(f) \in Nat
      /\ LinesOf(f, t) \in SUBSET (0 .. Len(f))
      /\ Above(f, t, Len(f)) = LinesOf(f, t)
  BY LinesWithin
<1>2. CASE at = {}
  <2>1. Setting(f, t, k, Default(k)) = Default(k)
    BY <1>2 DEF Setting
  <2>2. Stored(k, Default(k)) = Default(k)
    BY NumbersAssumption DEF Stored, Default, Unsigned, OptionKeys
  <2>3. \A l \in LinesOf(f, t) : KeyAt(f, l) # k
    BY <1>2
  <2>4. QED
    BY <1>1, <2>1, <2>2, <2>3 DEF LastValue
<1>3. CASE at # {}
  <2> DEFINE top == Max(at)
  <2>1. top \in at /\ \A y \in at : y <= top
    <3>1. at \in SUBSET (0 .. Len(f))
      BY <1>1
    <3> HIDE DEF at
    <3>2. QED
      BY <1>1, <1>3, <3>1, Greatest
  <2>2. Setting(f, t, k, Default(k)) = ValueAt(f, top)
    <3>1. Setting(f, t, k, Default(k)) = ReadAs(k, TextAt(f, top))
      BY <1>3 DEF Setting
    <3>2. KeyAt(f, top) = k
      BY <2>1
    <3>3. QED
      BY <3>1, <3>2 DEF ValueAt
  <2> HIDE DEF top
  <2>3. Fits(k, ValueAt(f, top))
    <3>1. top \in 1 .. Len(f) /\ Sets(f, top)
      BY <2>1 DEF LinesOf, SettingLines, Sets, Readable
    <3>2. KeyAt(f, top) = k
      BY <2>1
    <3>3. QED
      BY <3>1, <3>2, ValueFits
  <2>4. /\ top \in LinesOf(f, t) /\ KeyAt(f, top) = k
        /\ \A m \in LinesOf(f, t) : KeyAt(f, m) = k => m <= top
    BY <2>1
  <2>5. QED
    BY <1>1, <2>2, <2>3, <2>4 DEF LastValue
<1>4. QED
  BY <1>2, <1>3

\* What a file says of an injection.
Told(f, t) ==
    [path_regexp |-> Setting(f, t, "path_regexp", NULL),
     op_regexp   |-> Setting(f, t, "op_regexp", NULL),
     probability |-> Setting(f, t, "probability", 0),
     duration    |-> Setting(f, t, "duration", 0),
     place       |-> Min(LinesOf(f, t))]

LEMMA FileMeans ==
    ASSUME NEW f, f \notin {Absent, Unreadable}
    PROVE  Meaning(f) = [t \in {u \in InjType : LinesOf(f, u) # {}} |-> Told(f, t)]
BY DEF Meaning, Told

LEMMA ToldFields ==
    ASSUME NEW f, NEW t
    PROVE  /\ \A k \in OptionKeys : Told(f, t)[k] = Setting(f, t, k, Default(k))
           /\ Told(f, t).path_regexp = Setting(f, t, "path_regexp", NULL)
           /\ Told(f, t).op_regexp = Setting(f, t, "op_regexp", NULL)
           /\ Told(f, t).probability = Setting(f, t, "probability", 0)
           /\ Told(f, t).duration = Setting(f, t, "duration", 0)
           /\ Told(f, t).place = Min(LinesOf(f, t))
BY DEF Told, OptionKeys, Default

LEMMA EntryIsWritten ==
    ASSUME NEW f, Readable(f), NEW e \in Entry, NEW conf,
           conf[e.type] = Told(f, e.type),
           \A k \in OptionKeys : LastValue(f, e.type, Len(f), k, e[k])
    PROVE  e = Written(e.type, conf)
<1> DEFINE t == e.type
           says(k) == Setting(f, t, k, Default(k))
<1>1. \A k \in OptionKeys : e[k] = Stored(k, says(k))
  BY SettingIs
<1>2. /\ e.path_regexp = says("path_regexp")
      /\ e.op_regexp = says("op_regexp")
      /\ e.probability = Unsigned(says("probability"))
      /\ e.duration = Unsigned(says("duration"))
  <2> HIDE DEF says
  <2>1. QED
    BY <1>1 DEF OptionKeys, Stored
<1>3. /\ conf[t].path_regexp = says("path_regexp")
      /\ conf[t].op_regexp = says("op_regexp")
      /\ conf[t].probability = says("probability")
      /\ conf[t].duration = says("duration")
  BY ToldFields DEF Default
<1>4. e = [type |-> t, path_regexp |-> e.path_regexp, op_regexp |-> e.op_regexp,
           probability |-> e.probability, duration |-> e.duration]
  BY DEF Entry
<1> HIDE DEF says, t
<1>5. QED
  BY <1>2, <1>3, <1>4 DEF Written, t

LEMMA FileIsRead ==
    ASSUME NEW f, Readable(f), f \notin {Absent, Unreadable}
    PROVE  ini_parse(f) \in Queue /\ QueueSays(ini_parse(f), Meaning(f))
<1> DEFINE q == ini_parse(f)
           conf == Meaning(f)
           N == Len(f)
<1>1. Built(f, N, q)
  BY AllRead
<1> HIDE DEF q, N
<1>2. /\ q \in Queue
      /\ Len(q) \in Nat /\ DOMAIN q = 1 .. Len(q)
      /\ \A i \in 1 .. Len(q) : q[i] \in Entry /\ q[i].type \in InjType
  BY <1>1, QueueFacts, EntryTypes DEF Built
<1>3. \A t : Above(f, t, N) = LinesOf(f, t)
  BY LinesWithin DEF N
<1>4. /\ DOMAIN conf = {u \in InjType : LinesOf(f, u) # {}}
      /\ \A t \in DOMAIN conf : conf[t] = Told(f, t)
  BY FileMeans
<1> HIDE DEF conf
<1>5. \A t \in InjType :
        (\E i \in 1 .. Len(q) : q[i].type = t) <=> t \in DOMAIN conf
  BY <1>1, <1>3, <1>4 DEF Built, Entered
<1>6. {q[i].type : i \in DOMAIN q} = DOMAIN conf
  <2>1. \A i \in DOMAIN q : q[i].type \in DOMAIN conf
    BY <1>2, <1>5
  <2>2. \A t \in DOMAIN conf : \E i \in DOMAIN q : q[i].type = t
    BY <1>2, <1>4, <1>5
  <2>3. QED
    BY <2>1, <2>2
<1>7. ASSUME NEW i \in DOMAIN q PROVE q[i] = Written(q[i].type, conf)
  <2>1. q[i] \in Entry /\ conf[q[i].type] = Told(f, q[i].type)
    BY <1>2, <1>4, <1>6
  <2>2. \A k \in OptionKeys : LastValue(f, q[i].type, Len(f), k, q[i][k])
    BY <1>1, <1>2 DEF Built, Values, N
  <2>3. QED
    BY <2>1, <2>2, EntryIsWritten
<1>8. ASSUME NEW i \in DOMAIN q, NEW j \in DOMAIN q, i < j
      PROVE  conf[q[i].type].place < conf[q[j].type].place
  <2> DEFINE I == LinesOf(f, q[i].type)
             J == LinesOf(f, q[j].type)
  <2>1. PICK x \in I : \A y \in J : x < y
    <3>1. i \in 1 .. Len(q) /\ j \in 1 .. Len(q)
      BY <1>2
    <3>2. \E x \in Above(f, q[i].type, N) : \A y \in Above(f, q[j].type, N) : x < y
      BY <1>1, <1>8, <3>1 DEF Built, InOrder
    <3>3. QED
      BY <1>3, <3>2
  <2>2. /\ N \in Nat /\ I \in SUBSET (0 .. N) /\ J \in SUBSET (0 .. N)
        /\ I # {} /\ J # {}
    <3>1. N \in Nat /\ I \in SUBSET (0 .. N) /\ J \in SUBSET (0 .. N)
      BY LinesWithin DEF N
    <3>2. I # {} /\ J # {}
      BY <1>4, <1>6
    <3>3. QED
      BY <3>1, <3>2
  <2>3. conf[q[i].type].place = Min(I) /\ conf[q[j].type].place = Min(J)
    BY <1>4, <1>6, ToldFields
  <2> HIDE DEF I, J
  <2>4. Min(I) <= x /\ Min(I) \in I /\ Min(J) \in J
    BY <2>1, <2>2, Least
  <2>5. x < Min(J) /\ x \in Nat /\ Min(I) \in Nat /\ Min(J) \in Nat
    <3>1. x < Min(J)
      BY <2>1, <2>4
    <3>2. \A y \in 0 .. N : y \in Nat
      BY <2>2
    <3>3. QED
      BY <2>1, <2>2, <2>4, <3>1, <3>2
  <2>6. QED
    BY <2>3, <2>4, <2>5
<1>9. QED
  BY <1>2, <1>6, <1>7, <1>8 DEF QueueSays, q, conf

(***************************************************************************)
(* For each contents of the file, config_init returns a queue that says    *)
(* what the file says, or none if the file cannot be read.                 *)
(***************************************************************************)
ParserRight ==
    \A f \in File :
        IF f = Unreadable THEN ConfigInitOf[f] = NULL
        ELSE /\ ConfigInitOf[f] \in Queue \ {NULL}
             /\ QueueSays(ConfigInitOf[f], Says[f])

LEMMA FilesReadable ==
    ASSUME NEW f \in File \ {Absent, Unreadable}
    PROVE  Readable(f)
<1>1. f \in Seq({f[i] : i \in DOMAIN f}) /\ \A i \in DOMAIN f : Line(f[i])
  BY FileAssumption
<1>2. Len(f) \in Nat /\ DOMAIN f = 1 .. Len(f)
  BY <1>1
<1>3. QED
  BY <1>1, <1>2 DEF Readable

LEMMA NothingSaid ==
    ASSUME NEW f \in {Absent, Unreadable}
    PROVE  Meaning(f) = [t \in {} |-> Told(<<>>, t)]
<1>1. \A u : LinesOf(<<>>, u) = {}
  BY DEF LinesOf, SettingLines
<1>2. Meaning(f) = [t \in {u \in InjType : LinesOf(<<>>, u) # {}} |-> Told(<<>>, t)]
  BY DEF Meaning, Told
<1>3. {u \in InjType : LinesOf(<<>>, u) # {}} = {}
  BY <1>1
<1>4. QED
  BY <1>2, <1>3

\* The parser and the handler (conf.c:97-241, unreliablefs_errinj.c:289-338) do
\* what the file says, for files of any length and with anything wrong in them:
\* repeated and unknown sections, unclosed headers, unknown and missing names,
\* indented lines of any sort below options and headers, negative numbers.
THEOREM ParserIsRight == ParserRight
<1> SUFFICES ASSUME NEW f \in File
             PROVE  IF f = Unreadable THEN ConfigInitOf[f] = NULL
                    ELSE /\ ConfigInitOf[f] \in Queue \ {NULL}
                         /\ QueueSays(ConfigInitOf[f], Says[f])
  BY DEF ParserRight
<1>1. ConfigInitOf[f] = config_init(f) /\ Says[f] = Meaning(f)
  BY DEF ConfigInitOf, Says
<1>2. NULL \notin Queue /\ Absent # Unreadable
  BY QueueAssumption, FileAssumption
<1>3. CASE f = Unreadable
  BY <1>1, <1>2, <1>3 DEF config_init
<1>4. CASE f = Absent
  <2>1. config_init(f) = <<>>
    BY <1>2, <1>4 DEF config_init
  <2>2. DOMAIN Meaning(f) = {}
    BY <1>4, NothingSaid
  <2>3. <<>> \in Queue /\ DOMAIN <<>> = {}
    BY DEF Queue
  <2>4. QueueSays(<<>>, Meaning(f))
    BY <2>2, <2>3 DEF QueueSays
  <2>5. QED
    BY <1>1, <1>2, <1>4, <2>1, <2>3, <2>4
<1>5. CASE f \notin {Absent, Unreadable}
  <2>1. config_init(f) = ini_parse(f)
    BY <1>5 DEF config_init
  <2>2. ini_parse(f) \in Queue /\ QueueSays(ini_parse(f), Meaning(f))
    BY <1>5, FilesReadable, FileIsRead
  <2>3. QED
    BY <1>1, <1>2, <1>5, <2>1, <2>2
<1>6. QED
  BY <1>3, <1>4, <1>5

\* The numbers of a file, as Injector reads them, are ints.
LEMMA NumbersSaid ==
    ASSUME NEW f \in File, NEW t \in DOMAIN Says[f]
    PROVE  /\ Says[f][t].probability \in (MaxProbability - Width) .. (Width - 1)
           /\ Says[f][t].duration \in (MaxNsec + 1 - Width) .. (Width - 1)
           /\ Says[f][t].place \in Nat
<1>1. Says[f] = Meaning(f)
  BY DEF Says
<1>2. CASE f \in {Absent, Unreadable}
  BY <1>1, <1>2, NothingSaid
<1>3. CASE f \notin {Absent, Unreadable}
  <2>1. Readable(f)
    BY <1>3, FilesReadable
  <2>2. Says[f][t] = Told(f, t) /\ LinesOf(f, t) # {}
    BY <1>1, <1>3, FileMeans
  <2>3. Says[f][t].place \in Nat
    <3>1. Min(LinesOf(f, t)) \in Nat
      <4> DEFINE S == LinesOf(f, t)
                 N == Len(f)
      <4>1. N \in Nat /\ S \in SUBSET (0 .. N) /\ S # {}
        BY <2>1, <2>2, LinesWithin
      <4> HIDE DEF S, N
      <4>2. Min(S) \in S
        BY <4>1, Least
      <4>3. QED
        BY <4>1, <4>2 DEF S
    <3>2. QED
      BY <2>2, <3>1, ToldFields
  <2>4. Setting(f, t, "probability", 0) \in int /\ Setting(f, t, "duration", 0) \in int
    <3>1. 0 \in int
      BY NumbersAssumption DEF int
    <3>2. /\ Default("probability") = 0 /\ Default("duration") = 0
          /\ "probability" \in OptionKeys /\ "duration" \in OptionKeys
      BY DEF Default, OptionKeys
    <3>3. QED
      BY <2>1, <3>1, <3>2, SettingIs DEF Fits
  <2>5. QED
    BY <2>2, <2>3, <2>4, ToldFields, Numbers
<1>4. QED
  BY <1>2, <1>3

LEMMA NothingFreed == ASSUME NEW f \in File PROVE ConfigInitOf[f] # Freed
BY ParserIsRight, QueueAssumption DEF ParserRight
=============================================================================
