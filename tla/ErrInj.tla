------------------------------- MODULE ErrInj -------------------------------
(***************************************************************************)
(* The error injection (unreliablefs_errinj.c, conf.c) and the file        *)
(* operations that ask it (unreliablefs_ops.c), run by the threads of the  *)
(* FUSE library.  A thread asks error_inject(), which walks the queue of   *)
(* injections under conf.mutex, and then either answers as it was told or  *)
(* passes the operation on to the file system below.                       *)
(***************************************************************************)
EXTENDS ConfFile

CONSTANTS
    Caller,          \* the processes that use the file system
    Op, Path,        \* the operations and paths they use
    ConfPath,        \* conf.config_path
    File,            \* the contents the configuration file may have
    Nobody,          \* the mutex is free
    Freed,           \* conf.errors after config_delete
    PastEnd,         \* what arr[ARRAY_SIZE(arr)] may be: "pass" stands for 0
    MaxProbability,  \* MAX_PROBABLITY, 100 in the code
    MaxNsec,         \* the longest tv_nsec that nanosleep() takes
    Width            \* 2^32: the range of an unsigned int

ASSUME NobodyAssumption == Nobody \notin Caller
ASSUME NumbersAssumption ==
    /\ Width \in Nat
    /\ MaxProbability \in 0 .. (Width \div 2 - 1)
    /\ MaxNsec \in 0 .. (Width \div 2 - 1)

VARIABLES
    file,      \* the contents of the configuration file
    errors,    \* conf.errors: the queue, NULL or Freed
    mutex,     \* conf.mutex: who holds it
    call,      \* caller -> where its operation is, or its last answer
    killed,    \* the processes that were killed
    loaded     \* history: the contents config_init read last

vars == <<file, errors, mutex, call, killed, loaded>>

(***************************************************************************)
(* The operations of the FUSE table that unreliablefs_ops.c serves.  All   *)
(* others (open, read, write, release, ...) are served by wiscAFS_ops.cc,  *)
(* which does not ask for errors.                                          *)
(***************************************************************************)
Hooked == {"readlink", "mknod", "symlink", "link", "statfs", "fsync",
           "setxattr", "listxattr", "removexattr", "releasedir", "fsyncdir",
           "lock", "ioctl", "flock", "fallocate", "utimens"}

(***************************************************************************)
(* The table of unreliablefs_errno_linux.h (without the prefix "errno_")   *)
(* that the errno of an operation is drawn from.                           *)
(***************************************************************************)
ErrnoTable(op) ==
    CASE op = "releasedir"            -> "close"
      [] op \in {"fsync", "fsyncdir"} -> "fsync"
      [] op = "lock"                  -> "fcntl"
      [] op = "utimens"               -> "utimensat"
      [] OTHER                        -> op

(***************************************************************************)
(* An errno stands for the table it is in.  rand_range(0, n) is one of     *)
(* 0 .. n, so that the element may be the one behind the table.            *)
(***************************************************************************)
op_random_errno(op) == {ErrnoTable(op)} \cup PastEnd

Errno == {ErrnoTable(op) : op \in Op} \cup PastEnd

\* No errno is -ERRNO_NOOP.
ASSUME ErrnoAssumption == "noop" \notin Errno

rand_range(min, max) == min .. max
-----------------------------------------------------------------------------
(***************************************************************************)
(* Reading the configuration.                                              *)
(***************************************************************************)
Entry == [type : InjType, path_regexp : {NULL} \cup SUBSET Path,
          op_regexp : {NULL} \cup SUBSET Op,
          probability : 0 .. Width - 1, duration : 0 .. Width - 1]

Queue == Seq(Entry)

\* A pointer to nothing, or to what was freed, is no queue.
ASSUME QueueAssumption ==
    /\ NULL \notin Queue
    /\ Freed \notin Queue
    /\ Freed # NULL

NewEntry(type) == [type |-> type, path_regexp |-> NULL, op_regexp |-> NULL,
                   probability |-> 0, duration |-> 0]

\* Deliberately wrong: a negative number stays negative.
Unsigned_Signed(n) == n

Unsigned(n) == n % Width

Stored(key, value) ==
    IF key \in {"probability", "duration"} THEN Unsigned(value) ELSE value

(***************************************************************************)
(* One option of one section.  There is one entry for a type, made by the  *)
(* first option of its sections, even by one whose key is not known.       *)
(***************************************************************************)
conf_option_handler(q, section, key, text) ==
    LET known == \E i \in DOMAIN q : q[i].type = section
        queue == IF known THEN q ELSE Append(q, NewEntry(section))
        at    == CHOOSE i \in DOMAIN queue : queue[i].type = section
    IN  IF section \notin InjType THEN q
        ELSE IF key \notin DOMAIN queue[at] \ {"type"} THEN queue
        ELSE [queue EXCEPT ![at][key] = Stored(key, ReadAs(key, text))]

\* Deliberately wrong: an indented header is taken for a header.
ini_parse_line_HeaderFirst(s, line) ==
    LET continued == line.indented /\ s.name # ""
    IN  CASE line.sort = "section" ->
                [s EXCEPT !.section = line.name, !.name = ""]
          [] continued /\ line.sort # "section" ->
                [s EXCEPT !.queue = conf_option_handler(@, s.section, s.name,
                                                        line.text)]
          [] ~continued /\ line.sort = "option" ->
                [s EXCEPT !.name = line.key,
                          !.queue = conf_option_handler(@, s.section, line.key,
                                                        line.value)]
          [] OTHER -> s

(***************************************************************************)
(* ini_parse_stream's variables section, prev_name and user, after a line. *)
(* Whether the line continues the option above is looked at first.         *)
(***************************************************************************)
ini_parse_line(s, line) ==
    LET continued == line.indented /\ s.name # ""
    IN  CASE continued ->
                [s EXCEPT !.queue = conf_option_handler(@, s.section, s.name,
                                                        line.text)]
          [] ~continued /\ line.sort = "section" ->
                [s EXCEPT !.section = line.name, !.name = ""]
          [] ~continued /\ line.sort = "option" ->
                [s EXCEPT !.name = line.key,
                          !.queue = conf_option_handler(@, s.section, line.key,
                                                        line.value)]
          [] OTHER -> s

\* What is known when n lines have been read.
ini_parse(lines) ==
    LET state[n \in 0 .. Len(lines)] ==
            IF n = 0 THEN [section |-> "", name |-> "", queue |-> <<>>]
            ELSE ini_parse_line(state[n - 1], lines[n])
    IN  state[Len(lines)].queue

config_init(f) ==
    CASE f = Absent     -> <<>>
      [] f = Unreadable -> NULL
      [] OTHER          -> ini_parse(f)

\* config_init as a function, which TLC evaluates once.
ConfigInitOf == [f \in File |-> config_init(f)]

Says == [f \in File |-> Meaning(f)]

(***************************************************************************)
(* The lines of a file.  A number is an int, as atoi() returns it: at      *)
(* least -2^31 and less than 2^31.                                         *)
(***************************************************************************)
int == -(Width \div 2) .. (Width \div 2 - 1)

Text == [paths : SUBSET Path, ops : SUBSET Op, number : int]

Line(l) ==
    /\ l.sort \in {"section", "option", "other"}
    /\ l.indented \in BOOLEAN
    /\ l.text \in Text
    /\ l.sort = "option" => l.value \in Text

ASSUME FileAssumption ==
    /\ Absent # Unreadable
    /\ \A f \in File \ {Absent, Unreadable} :
        /\ f \in Seq({f[i] : i \in DOMAIN f})
        /\ \A i \in DOMAIN f : Line(f[i])

is_regex_matched(regexp, string) == Matched(regexp, string)
-----------------------------------------------------------------------------
Idle(answer) == [pc |-> "idle", answer |-> answer]
Answer(result, done) == [result |-> result, done |-> done]

Init ==
    /\ file \in File
    /\ errors = ConfigInitOf[file]
    /\ loaded = file
    /\ mutex = Nobody
    /\ call = [c \in Caller |-> Idle(NULL)]
    /\ killed = {}

\* Somebody changes the file, below the mount point.
EditFile ==
    /\ file' \in File
    /\ UNCHANGED <<errors, mutex, call, killed, loaded>>

(***************************************************************************)
(* A process calls an operation.  path is what the operation passes to     *)
(* error_inject(): the old path of a link, the target of a symlink.  at is *)
(* the position of TAILQ_FOREACH.                                          *)
(***************************************************************************)
Call(c, op, path) ==
    /\ call[c].pc = "idle"
    /\ c \notin killed
    /\ call' = [call EXCEPT ![c] =
           [pc |-> IF op \in Hooked THEN "lock" ELSE "decided", op |-> op,
            path |-> path, at |-> 1, rc |-> "pass", slow |-> FALSE]]
    /\ UNCHANGED <<file, errors, mutex, killed, loaded>>

\* Deliberately wrong: the walk of the queue does not wait for the mutex.
Lock_NoWait(c) ==
    /\ call[c].pc = "lock"
    /\ mutex' = c
    /\ call' = [call EXCEPT ![c].pc =
           CASE call[c].path = ConfPath -> "delete"
             [] call[c].path # ConfPath /\ errors = NULL -> "unlock"
             [] OTHER -> "inject"]
    /\ UNCHANGED <<file, errors, killed, loaded>>

\* pthread_mutex_lock, and the two ways past the walk of the queue.
Lock(c) ==
    /\ call[c].pc = "lock"
    /\ mutex = Nobody
    /\ mutex' = c
    /\ call' = [call EXCEPT ![c].pc =
           CASE call[c].path = ConfPath -> "delete"
             [] call[c].path # ConfPath /\ errors = NULL -> "unlock"
             [] OTHER -> "inject"]
    /\ UNCHANGED <<file, errors, killed, loaded>>

ConfigDelete(c) ==
    /\ call[c].pc = "delete"
    /\ errors' = IF errors = NULL THEN NULL ELSE Freed
    /\ call' = [call EXCEPT ![c].pc = "init"]
    /\ UNCHANGED <<file, mutex, killed, loaded>>

\* Deliberately wrong: a return instead of the goto to the unlock.
ConfigInit_Return(c) ==
    /\ call[c].pc = "init"
    /\ errors' = ConfigInitOf[file]
    /\ loaded' = file
    /\ call' = [call EXCEPT ![c].pc = "decided"]
    /\ UNCHANGED <<file, mutex, killed>>

ConfigInit(c) ==
    /\ call[c].pc = "init"
    /\ errors' = ConfigInitOf[file]
    /\ loaded' = file
    /\ call' = [call EXCEPT ![c].pc = "unlock"]
    /\ UNCHANGED <<file, mutex, killed>>

(***************************************************************************)
(* One turn of the loop.                                                   *)
(***************************************************************************)
Current(c) == errors[call[c].at]

InLoop(c) ==
    /\ call[c].pc = "inject"
    /\ errors \notin {NULL, Freed}
    /\ call[c].at <= Len(errors)

Applies(c, p) ==
    /\ p <= Current(c).probability
    /\ is_regex_matched(Current(c).path_regexp, call[c].path)
    /\ is_regex_matched(Current(c).op_regexp, call[c].op)

Triggered(c, type) ==
    /\ InLoop(c)
    /\ Current(c).type = type
    /\ \E p \in rand_range(0, MaxProbability) : Applies(c, p)

Advance(c, rc) ==
    call' = [call EXCEPT ![c].pc = "inject", ![c].at = @ + 1, ![c].rc = rc]

NotTriggered(c) ==
    /\ InLoop(c)
    /\ \E p \in rand_range(0, MaxProbability) : ~Applies(c, p)
    /\ Advance(c, call[c].rc)
    /\ UNCHANGED <<file, errors, mutex, killed, loaded>>

\* Deliberately wrong: the break leaves the loop and not only the switch.
InjectNoop_LeavesLoop(c) ==
    /\ Triggered(c, "noop")
    /\ call' = [call EXCEPT ![c].pc = "unlock", ![c].rc = "noop"]
    /\ UNCHANGED <<file, errors, mutex, killed, loaded>>

InjectNoop(c) ==
    /\ Triggered(c, "noop")
    /\ Advance(c, "noop")
    /\ UNCHANGED <<file, errors, mutex, killed, loaded>>

InjectErrno(c) ==
    /\ Triggered(c, "errno")
    /\ \E rc \in op_random_errno(call[c].op) : Advance(c, rc)
    /\ UNCHANGED <<file, errors, mutex, killed, loaded>>

KillCaller(c) ==
    /\ Triggered(c, "kill_caller")
    /\ killed' = killed \cup {c}
    /\ Advance(c, call[c].rc)
    /\ UNCHANGED <<file, errors, mutex, loaded>>

(***************************************************************************)
(* The thread sleeps with the mutex locked.  A duration of a second or     *)
(* more is not a tv_nsec: nanosleep() fails, and there is no slowdown.     *)
(***************************************************************************)
Slowdown(c) ==
    /\ Triggered(c, "slowdown")
    /\ IF Current(c).duration <= MaxNsec
       THEN call' = [call EXCEPT ![c].pc = "sleep"]
       ELSE Advance(c, call[c].rc)
    /\ UNCHANGED <<file, errors, mutex, killed, loaded>>

Wake(c) ==
    /\ call[c].pc = "sleep"
    /\ call' = [call EXCEPT ![c].pc = "inject", ![c].at = @ + 1,
                            ![c].slow = TRUE]
    /\ UNCHANGED <<file, errors, mutex, killed, loaded>>

Unlock(c) ==
    /\ \/ call[c].pc = "unlock"
       \/ /\ call[c].pc = "inject"
          /\ errors \notin {NULL, Freed}
          /\ call[c].at > Len(errors)
    /\ mutex' = Nobody
    /\ call' = [call EXCEPT ![c].pc = "decided"]
    /\ UNCHANGED <<file, errors, killed, loaded>>
-----------------------------------------------------------------------------
(***************************************************************************)
(* The operation after its call of error_inject().                         *)
(***************************************************************************)
Decided(c, rcs) == call[c].pc = "decided" /\ call[c].rc \in rcs

Return(c, result, done) ==
    /\ call' = [call EXCEPT ![c] = Idle(Answer(result, done))]
    /\ UNCHANGED <<file, errors, mutex, killed, loaded>>

ReturnNoop(c)  == Decided(c, {"noop"}) /\ Return(c, "success", FALSE)
ReturnErrno(c) == Decided(c, Errno \ {"pass"}) /\ Return(c, call[c].rc, FALSE)

\* The system call of the operation, or what wiscAFS_ops.cc does instead; the
\* answer is what comes back from it.
SystemCall(c) == Decided(c, {"pass"}) /\ Return(c, "system", TRUE)

\* fallocate() is not passed on when it has a mode.
RefuseFallocate(c) ==
    /\ Decided(c, {"pass"})
    /\ call[c].op = "fallocate"
    /\ Return(c, "EOPNOTSUPP", FALSE)

Proceed(c) ==
    \/ ConfigDelete(c) \/ ConfigInit(c)
    \/ NotTriggered(c) \/ InjectNoop(c) \/ InjectErrno(c) \/ KillCaller(c)
    \/ Slowdown(c) \/ Wake(c)
    \/ Unlock(c)
    \/ ReturnNoop(c) \/ ReturnErrno(c) \/ SystemCall(c) \/ RefuseFallocate(c)

Next ==
    \/ EditFile
    \/ \E c \in Caller :
        \/ \E op \in Op, path \in Path : Call(c, op, path)
        \/ Lock(c)
        \/ Proceed(c)

Spec == Init /\ [][Next]_vars

\* The threads run.  Nothing is assumed of who gets a free mutex.
FairSpec == Spec /\ \A c \in Caller : WF_vars(Proceed(c))
-----------------------------------------------------------------------------
RC     == Errno \cup {"pass", "noop"}
Result == Errno \cup {"success", "system", "EOPNOTSUPP"}

CallType ==
    [pc : {"idle"}, answer : {NULL} \cup [result : Result, done : BOOLEAN]]
    \cup
    [pc : {"lock", "delete", "init", "inject", "sleep", "unlock", "decided"},
     op : Op, path : Path, at : Nat \ {0}, rc : RC, slow : BOOLEAN]

TypeOK ==
    /\ file \in File
    /\ errors \in Queue \cup {NULL, Freed}
    /\ mutex \in Caller \cup {Nobody}
    /\ call \in [Caller -> CallType]
    /\ killed \subseteq Caller
    /\ loaded \in File

RequestOf(r) ==
    CASE r.pc = "idle" -> [phase |-> "idle", answer |-> r.answer]
      [] r.pc \in {"unlock", "decided"} ->
            [phase |-> "ruled", op |-> r.op, rule |-> r.rc, slow |-> r.slow]
      [] OTHER -> [phase |-> "asked", op |-> r.op, path |-> r.path]

Request == [c \in Caller |-> RequestOf(call[c])]

\* A kill is part of the decision, which is taken when the walk is over.
Killed == {c \in killed : call[c].pc \in {"idle", "unlock", "decided"}}

\* What the code keeps of the manual's rules, and the manual's own.
Rules == INSTANCE Injector WITH
    Table   <- [op \in Op |-> ErrnoTable(op)],
    AtZero  <- TRUE,
    request <- Request,
    killed  <- Killed

Manual == INSTANCE Injector WITH
    Table   <- [op \in Op |-> ErrnoTable(op)],
    AtZero  <- FALSE,
    PastEnd <- {},
    request <- Request,
    killed  <- Killed

(***************************************************************************)
(* A thread walks or replaces the queue only while it holds the mutex, and *)
(* what it walks is a queue: nobody has freed it or is about to            *)
(* (unreliablefs_errinj.c:173-184, and 226-233, where the walk sleeps).    *)
(***************************************************************************)
HolderInside ==
    \A c \in Caller :
        call[c].pc \in {"delete", "init", "inject", "sleep", "unlock"} =>
            mutex = c

QueueLive ==
    \A c \in Caller :
        call[c].pc \in {"inject", "sleep"} => errors \notin {NULL, Freed}

WalkProtected == HolderInside /\ QueueLive

(***************************************************************************)
(* Between reloads, the queue says what the loaded file says: an entry for *)
(* each section with an option in it, with the last value of each option,  *)
(* in the order of their first options, by which noop and errno are told   *)
(* apart.  Parser and handler (conf.c:97-241, errinj.c:289-338) are not    *)
(* confused by repeated sections, unclosed headers, unknown names, and     *)
(* indented lines, which are values of the option above whatever they look *)
(* like.                                                                   *)
(***************************************************************************)
Written(type, conf) ==
    [type |-> type,
     path_regexp |-> conf[type].path_regexp,
     op_regexp   |-> conf[type].op_regexp,
     probability |-> Unsigned(conf[type].probability),
     duration    |-> Unsigned(conf[type].duration)]

QueueSays(queue, conf) ==
    /\ {queue[i].type : i \in DOMAIN queue} = DOMAIN conf
    /\ \A i \in DOMAIN queue : queue[i] = Written(queue[i].type, conf)
    /\ \A i, j \in DOMAIN queue :
        i < j => conf[queue[i].type].place < conf[queue[j].type].place

QueueInForce ==
    errors # Freed =>
        IF loaded = Unreadable THEN errors = NULL
        ELSE errors # NULL /\ QueueSays(errors, Says[loaded])

(***************************************************************************)
(* Every operation is decided by one configuration, as Injector says, and  *)
(* carried out, answered or delayed accordingly, whatever is reloaded, who *)
(* sleeps and who is killed in the meantime.  These are not the manual's   *)
(* rules: an injection of probability 0 may happen, and an errno may be    *)
(* read behind its table.                                                  *)
(***************************************************************************)
ImplementsInjector == Rules!Spec

(***************************************************************************)
(* The same by the manual's own rules: "Probability equal to 0 means that  *)
(* error injection will never happen" (unreliablefs.conf.5:55), and an     *)
(* errno is one of the supported ones (35-36).  But the random number is   *)
(* compared by <= and may be 0 (errinj.c:185-186), and the random index    *)
(* may be the size of the table (errinj.c:26).                             *)
(***************************************************************************)
ImplementsManual == Manual!Spec

(***************************************************************************)
(* Every way out of error_inject() unlocks the mutex: the reload, the      *)
(* missing queue, and the end of the loop, after sleeps and kills.         *)
(***************************************************************************)
MutexComesFree == (mutex # Nobody) ~> (mutex = Nobody)
=============================================================================
