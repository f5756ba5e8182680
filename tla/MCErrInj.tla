------------------------------ MODULE MCErrInj ------------------------------
(* A small instance of ErrInj for TLC. *)
EXTENDS ErrInj

CONSTANTS p1, cfile, c1, c2

\* Texts: a number, a regular expression for paths or for operations, others.
Number(n) == [paths |-> {}, ops |-> {}, number |-> n]
Paths(p)  == [paths |-> p, ops |-> {}, number |-> 0]
Ops(o)    == [paths |-> {}, ops |-> o, number |-> 0]
Words     == Number(0)

\* Lines: "[errinj_name]", "key = value", "text", and any of them indented.
Header(name)   == [sort |-> "section", name |-> name, text |-> Words,
                   indented |-> FALSE]
Option(k, v)   == [sort |-> "option", key |-> k, value |-> v, text |-> Words,
                   indented |-> FALSE]
Other(text)    == [sort |-> "other", text |-> text, indented |-> FALSE]
Indented(line) == [line EXCEPT !.indented = TRUE]

(***************************************************************************)
(* Contents of the configuration file.  The first decides between two      *)
(* injections; the second repeats a section, with a duration that is too   *)
(* long in the end and a negative probability; in the fourth and the fifth *)
(* lines are not what they look like.                                      *)
(***************************************************************************)
NoopThenErrno == <<
    Header("noop"), Option("path_regexp", Paths({p1})),
    Option("probability", Number(1)),
    Header("errno"), Option("op_regexp", Ops({"fsync"})),
    Option("probability", Number(MaxProbability))>>

SlowThenKill == <<
    Header("slowdown"), Option("probability", Number(-1)),
    Option("duration", Number(1)),
    Header("kill_caller"), Option("op_regexp", Ops({"fsync"}))>>

SlowTwice == <<
    Header("slowdown"), Option("duration", Number(1)),
    Header("noop"), Option("op_regexp", Words),
    Header("slowdown"), Option("duration", Number(MaxNsec + 1))>>

Sloppy == <<
    Option("probability", Number(MaxProbability)),
    Header("errno"), Option("op_regexp", Ops({"fallocate"})),
    Indented(Option("probability", Number(MaxProbability))),
    Other(Words), Option("probability", Number(1)),
    Header("unknown"), Option("probability", Number(MaxProbability)),
    Indented(Header("noop")), Header("noop"),
    Indented(Option("path_regexp", Paths({cfile}))), Option("color", Words),
    Option("", Words), Indented(Option("op_regexp", Ops({"fsync"})))>>

\* "100", a path and a header, each indented below an option.
Continued == <<
    Indented(Header("noop")), Indented(Option("op_regexp", Words)),
    Indented(Other(Ops({"fsync"}))), Option("probability", Words),
    Indented(Other(Number(MaxProbability))),
    Header("errno"), Option("path_regexp", Words), Other(Words),
    Indented(Other(Paths({p1}))),
    Header("kill_caller"), Option("probability", Number(MaxProbability)),
    Indented(Header("slowdown")), Option("op_regexp", Ops({"fallocate"}))>>

MCFile == {NoopThenErrno, SlowThenKill, SlowTwice, Sloppy, Continued, Absent,
           Unreadable}

\* A file that configures one injection, which is never to happen.
Never == <<Header("noop"), Option("probability", Number(0))>>

MCNever == {Never, Absent}
=============================================================================
