------------------------------ MODULE Injector ------------------------------
(***************************************************************************)
(* What the error injection promises (unreliablefs.conf.5): a file         *)
(* operation is decided by one configuration, the contents the file had    *)
(* when it was last loaded, as if the decision took no time.               *)
(*                                                                         *)
(* The manual's own rules are those with AtZero FALSE and PastEnd empty:   *)
(* an injection of probability 0 never happens, and a random errno is one  *)
(* that the operation supports.                                            *)
(***************************************************************************)
EXTENDS ConfFile

CONSTANTS Caller, Op, Path,
          Hooked,          \* the operations that ask the error injection
          ConfPath,        \* the path of the configuration file
          File,            \* the contents it may have
          Says,            \* contents -> what they mean (Meaning of ConfFile)
          Table,           \* operation -> its table of errno values
          PastEnd,         \* errnos there may be besides those of the table
          AtZero,          \* whether injections of probability 0 happen
          MaxProbability,  \* 100 per cent
          MaxNsec          \* the longest duration of a slowdown

VARIABLES
    file,      \* the contents of the configuration file
    loaded,    \* the contents that are in force
    request,   \* caller -> its operation and what was decided about it
    killed     \* the processes that were killed

vars == <<file, loaded, request, killed>>

Concerned(conf, op, path) ==
    {t \in DOMAIN conf : Matched(conf[t].path_regexp, path)
                         /\ Matched(conf[t].op_regexp, op)}

Possible(conf, op, path) ==
    {t \in Concerned(conf, op, path) : AtZero \/ conf[t].probability # 0}

\* A negative number is a huge unsigned one.
Certain(conf) ==
    {t \in DOMAIN conf : conf[t].probability \notin 0 .. (MaxProbability - 1)}

(***************************************************************************)
(* What the injections that happen make of an operation: of noop and       *)
(* errno, the one that comes last in the file decides.                     *)
(***************************************************************************)
Verdicts(conf, fired, op) ==
    LET last(t, u) == /\ t \in fired
                      /\ u \in fired => conf[u].place < conf[t].place
    IN  CASE last("noop", "errno") -> {"noop"}
          [] last("errno", "noop") -> {Table[op]} \cup PastEnd
          [] OTHER                 -> {"pass"}

Slow(conf, fired) ==
    "slowdown" \in fired /\ conf["slowdown"].duration \in 0 .. MaxNsec

Idle(answer) == [phase |-> "idle", answer |-> answer]
Answer(result, done) == [result |-> result, done |-> done]

Init ==
    /\ file \in File
    /\ loaded = file
    /\ request = [c \in Caller |-> Idle(NULL)]
    /\ killed = {}

Edit ==
    /\ file' \in File
    /\ UNCHANGED <<loaded, request, killed>>

Ask(c, op, path) ==
    /\ request[c].phase = "idle"
    /\ c \notin killed
    /\ request' = [request EXCEPT ![c] =
           IF op \in Hooked
           THEN [phase |-> "asked", op |-> op, path |-> path]
           ELSE [phase |-> "ruled", op |-> op, rule |-> "pass", slow |-> FALSE]]
    /\ UNCHANGED <<file, loaded, killed>>

Ruled(c, rule, slow) ==
    request' = [request EXCEPT ![c] =
        [phase |-> "ruled", op |-> @.op, rule |-> rule, slow |-> slow]]

\* An operation on the configuration file loads it and is left alone.
Load(c) ==
    /\ request[c].phase = "asked"
    /\ request[c].path = ConfPath
    /\ loaded' = file
    /\ Ruled(c, "pass", FALSE)
    /\ UNCHANGED <<file, killed>>

Decide(c) ==
    LET r    == request[c]
        conf == Says[loaded]
    IN  /\ r.phase = "asked"
        /\ r.path # ConfPath
        /\ \E fired \in SUBSET Possible(conf, r.op, r.path) :
            /\ Certain(conf) \cap Concerned(conf, r.op, r.path) \subseteq fired
            /\ \E rule \in Verdicts(conf, fired, r.op) :
                    Ruled(c, rule, Slow(conf, fired))
            /\ killed' = IF "kill_caller" \in fired THEN killed \cup {c}
                                                    ELSE killed
        /\ UNCHANGED <<file, loaded>>

(***************************************************************************)
(* The answer: an operation is carried out exactly if it was let pass,     *)
(* whether or not its caller is still alive.                               *)
(***************************************************************************)
Reply(c) ==
    /\ request[c].phase = "ruled"
    /\ request' = [request EXCEPT ![c] = Idle(
           CASE @.rule = "pass" -> Answer("system", TRUE)
             [] @.rule = "noop" -> Answer("success", FALSE)
             [] OTHER           -> Answer(@.rule, FALSE))]
    /\ UNCHANGED <<file, loaded, killed>>

\* fallocate() with a mode is refused, if it was let pass.
RefuseFallocate(c) ==
    /\ request[c].phase = "ruled"
    /\ request[c].op = "fallocate"
    /\ request[c].rule = "pass"
    /\ request' = [request EXCEPT ![c] = Idle(Answer("EOPNOTSUPP", FALSE))]
    /\ UNCHANGED <<file, loaded, killed>>

Next ==
    \/ Edit
    \/ \E c \in Caller :
        \/ \E op \in Op, path \in Path : Ask(c, op, path)
        \/ Load(c)
        \/ Decide(c)
        \/ Reply(c)
        \/ RefuseFallocate(c)

Spec == Init /\ [][Next]_vars
=============================================================================
