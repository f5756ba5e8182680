------------------------------ MODULE ConfFile ------------------------------
(***************************************************************************)
(* The configuration file of the error injection, unreliablefs.conf, and   *)
(* what it says, independently of the order in which a parser reads it.    *)
(*                                                                         *)
(* A file is a sequence of lines, as fgets() returns them; blank lines and *)
(* comments are left out.  A line is a record of                           *)
(*   sort      "section" ("[errinj_name]"), "option" ("key = value"), or   *)
(*             "other": a header without its bracket, a line without "="   *)
(*   indented  whether it begins with white space                          *)
(*   text      all of the line, white space around it removed              *)
(* and of name (a section), or of key and value (an option).  Names and    *)
(* keys are strings; value and text are what the options make of them: a   *)
(* text is [paths, ops, number], the strings that it matches as a regular  *)
(* expression, {} if regcomp() refuses it, and what atoi() makes of it.    *)
(***************************************************************************)
EXTENDS Integers, Sequences, FiniteSetsExt

CONSTANTS NULL,         \* no regular expression, no queue
          Absent,       \* there is no configuration file
          Unreadable    \* there is one, and fopen() fails on it

(* The injections, without their prefix "errinj_". *)
InjType == {"errno", "kill_caller", "noop", "slowdown"}

\* A text as the value of an option.
ReadAs(key, text) ==
    CASE key = "path_regexp" -> text.paths
      [] key = "op_regexp"   -> text.ops
      [] key \in {"probability", "duration"} -> text.number

Matched(regexp, x) == regexp # NULL => x \in regexp
-----------------------------------------------------------------------------
(***************************************************************************)
(* The meaning of a file, by positions.  The last line that is not         *)
(* indented and is a header or an option (Base) settles which name is      *)
(* continued below it: its own; if it has none, that of the first indented *)
(* option below it with a key; if there is none either, no name.           *)
(***************************************************************************)
Base(f, i) ==
    Max({0} \cup {j \in 1 .. i : ~f[j].indented
                                 /\ f[j].sort \in {"section", "option"}})

NameAt(f, i) ==
    LET named == {j \in DOMAIN f : /\ Base(f, i) <= j /\ j <= i
                                   /\ f[j].sort = "option" /\ f[j].key # ""}
    IN  IF named = {} THEN "" ELSE f[Min(named)].key

(***************************************************************************)
(* An indented line below a name gives that option a new value, its text,  *)
(* whatever it looks like: it is no option and no header of its own.       *)
(***************************************************************************)
Continues(f, i) == f[i].indented /\ NameAt(f, i - 1) # ""

\* The lines that set an option.
SettingLines(f) ==
    {i \in DOMAIN f : Continues(f, i) \/ f[i].sort = "option"}

TextAt(f, i) == IF Continues(f, i) THEN f[i].text ELSE f[i].value
KeyAt(f, i)  == IF Continues(f, i) THEN NameAt(f, i - 1) ELSE f[i].key

\* A line belongs to the last section above it.
HeaderAt(f, i) ==
    Max({0} \cup {j \in 1 .. i : f[j].sort = "section" /\ ~Continues(f, j)})

SectionAt(f, i) == IF HeaderAt(f, i) = 0 THEN "" ELSE f[HeaderAt(f, i)].name

LinesOf(f, t) == {i \in SettingLines(f) : SectionAt(f, i) = t}

\* The last line that sets an option counts.
Setting(f, t, key, default) ==
    LET at == {i \in LinesOf(f, t) : KeyAt(f, i) = key}
    IN  IF at = {} THEN default ELSE ReadAs(key, TextAt(f, Max(at)))

(***************************************************************************)
(* The injections a file configures, with their options and the place      *)
(* where they first occur.                                                 *)
(***************************************************************************)
Meaning(f) ==
    LET lines == IF f \in {Absent, Unreadable} THEN <<>> ELSE f
    IN  [t \in {u \in InjType : LinesOf(lines, u) # {}} |->
            [path_regexp |-> Setting(lines, t, "path_regexp", NULL),
             op_regexp   |-> Setting(lines, t, "op_regexp", NULL),
             probability |-> Setting(lines, t, "probability", 0),
             duration    |-> Setting(lines, t, "duration", 0),
             place       |-> Min(LinesOf(lines, t))]]
=============================================================================
