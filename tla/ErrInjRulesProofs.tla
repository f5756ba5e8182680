------------------------- MODULE ErrInjRulesProofs -------------------------
(***************************************************************************)
(* That ErrInj implements Injector: the walk of the queue, entry by entry  *)
(* and with its kills and sleeps, is the decision of Injector, which takes *)
(* no time.  The invariant says what a thread has made of the part of the  *)
(* queue it has seen: there is a set of injections that happened, and what *)
(* the thread has noted down is what Injector makes of them.               *)
(***************************************************************************)
EXTENDS ErrInjProofs

Loads == errors \in {Freed, ConfigInitOf[loaded]}

Concern(c) == Rules!Concerned(Says[loaded], call[c].op, call[c].path)

Before(c) == {errors[i].type : i \in 1 .. (call[c].at - 1)}

Fired(c, fired) ==
    /\ fired \subseteq Concern(c)
    /\ fired \subseteq Before(c)
    /\ Rules!Certain(Says[loaded]) \cap Concern(c) \cap Before(c) \subseteq fired
    /\ call[c].rc \in Rules!Verdicts(Says[loaded], fired, call[c].op)
    /\ call[c].slow = Rules!Slow(Says[loaded], fired)
    /\ c \in killed <=> "kill_caller" \in fired

Untouched(c) ==
    /\ call[c].at = 1
    /\ call[c].rc = "pass"
    /\ call[c].slow = FALSE
    /\ c \notin killed

RuleOf(c) ==
    /\ call[c].pc \in {"lock", "delete", "init"} => Untouched(c)
    /\ call[c].pc \in {"delete", "init"} => call[c].path = ConfPath
    /\ call[c].pc \in {"inject", "sleep"} =>
           /\ call[c].path # ConfPath
           /\ call[c].at <= Len(errors) + 1
           /\ \E fired \in SUBSET InjType : Fired(c, fired)
    /\ call[c].pc = "sleep" =>
           /\ call[c].at <= Len(errors)
           /\ Current(c).type = "slowdown"
           /\ Says[loaded]["slowdown"].duration \in 0 .. MaxNsec
           /\ "slowdown" \in Concern(c)

RuleInv ==
    /\ WalkInv
    /\ killed \subseteq Caller
    /\ loaded \in File
    /\ Loads
    /\ \A c \in Caller : RuleOf(c)

(***************************************************************************)
(* The mapping: what a step does to one call, it does to its request.      *)
(***************************************************************************)
LEMMA RequestMoves ==
    ASSUME CallOK, NEW c \in Caller, NEW r, call' = [call EXCEPT ![c] = r]
    PROVE  /\ call'[c] = r
           /\ \A d \in Caller : d # c => call'[d] = call[d]
           /\ Request' = [Request EXCEPT ![c] = RequestOf(r)]
<1>1. /\ call'[c] = r
      /\ \A d \in Caller : d # c => call'[d] = call[d]
  BY DEF CallOK
<1>2. Request' = [d \in Caller |-> IF d = c THEN RequestOf(r)
                                   ELSE RequestOf(call[d])]
  BY <1>1 DEF Request
<1>3. QED
  BY <1>1, <1>2 DEF Request

LEMMA RequestStays ==
    ASSUME CallOK, NEW c \in Caller, NEW r, call' = [call EXCEPT ![c] = r],
           RequestOf(r) = RequestOf(call[c])
    PROVE  Request' = Request
<1>1. Request' = [Request EXCEPT ![c] = RequestOf(r)]
  BY RequestMoves
<1>2. Request[c] = RequestOf(r)
  BY DEF Request
<1>3. QED
  BY <1>1, <1>2 DEF Request
-----------------------------------------------------------------------------
(***************************************************************************)
(* One more injection in the set of those that happen.                     *)
(***************************************************************************)
LEMMA VerdictsSame ==
    ASSUME NEW conf, NEW op, NEW fired, NEW t, t \notin {"noop", "errno"}
    PROVE  Rules!Verdicts(conf, fired \cup {t}, op)
               = Rules!Verdicts(conf, fired, op)
BY DEF Rules!Verdicts

LEMMA VerdictsNoop ==
    ASSUME NEW conf, NEW op, NEW fired,
           "errno" \in fired => /\ conf["noop"].place \in Nat
                                /\ conf["errno"].place \in Nat
                                /\ conf["errno"].place < conf["noop"].place
    PROVE  "noop" \in Rules!Verdicts(conf, fired \cup {"noop"}, op)
<1> DEFINE both == fired \cup {"noop"}
           last(t, u) == /\ t \in both
                         /\ u \in both => conf[u].place < conf[t].place
<1>1. last("noop", "errno") /\ ~last("errno", "noop")
  <2>1. "errno" \in both <=> "errno" \in fired
    OBVIOUS
  <2>2. "noop" \in both
    OBVIOUS
  <2> HIDE DEF both
  <2>3. QED
    BY <2>1, <2>2
<1>2. Rules!Verdicts(conf, both, op) = {"noop"}
  BY <1>1 DEF Rules!Verdicts
<1>3. QED
  BY <1>2

LEMMA VerdictsErrno ==
    ASSUME NEW conf, NEW op \in Op, NEW fired,
           "noop" \in fired => /\ conf["noop"].place \in Nat
                               /\ conf["errno"].place \in Nat
                               /\ conf["noop"].place < conf["errno"].place
    PROVE  op_random_errno(op) \subseteq
               Rules!Verdicts(conf, fired \cup {"errno"}, op)
<1> DEFINE both == fired \cup {"errno"}
           last(t, u) == /\ t \in both
                         /\ u \in both => conf[u].place < conf[t].place
<1>1. last("errno", "noop") /\ ~last("noop", "errno")
  <2>1. "noop" \in both <=> "noop" \in fired
    OBVIOUS
  <2>2. "errno" \in both
    OBVIOUS
  <2> HIDE DEF both
  <2>3. QED
    BY <2>1, <2>2
<1>2. Rules!Verdicts(conf, both, op) = {ErrnoTable(op)} \cup PastEnd
  BY <1>1 DEF Rules!Verdicts
<1>3. QED
  BY <1>2 DEF op_random_errno

LEMMA VerdictsNone ==
    ASSUME NEW conf, NEW op
    PROVE  "pass" \in Rules!Verdicts(conf, {}, op)
BY DEF Rules!Verdicts

LEMMA SlowSame ==
    ASSUME NEW conf, NEW fired, NEW t, t # "slowdown"
    PROVE  Rules!Slow(conf, fired \cup {t}) = Rules!Slow(conf, fired)
BY DEF Rules!Slow

(***************************************************************************)
(* A negative number of the file is a huge one in the queue.               *)
(***************************************************************************)
LEMMA UnsignedLimit ==
    ASSUME NEW limit \in Nat, limit <= Width,
           NEW n \in (limit - Width) .. (Width - 1)
    PROVE  /\ Unsigned(n) \in Nat
           /\ Unsigned(n) < limit <=> n \in 0 .. (limit - 1)
<1>1. Width \in Nat /\ limit \in Nat /\ n \in Int
  BY Limits
<1>2. CASE n >= 0
  <2>1. n % Width = n
    BY <1>1, <1>2
  <2>2. QED
    BY <1>1, <1>2, <2>1 DEF Unsigned
<1>3. CASE n < 0
  <2>1. n % Width = n + Width
    BY <1>1, <1>3
  <2>2. QED
    BY <1>1, <1>3, <2>1 DEF Unsigned
<1>4. QED
  BY <1>1, <1>2, <1>3

-----------------------------------------------------------------------------
(***************************************************************************)
(* The queue that is in force, entry by entry.                             *)
(***************************************************************************)
LEMMA QueueInForceFacts ==
    ASSUME RuleInv, errors \notin {NULL, Freed}
    PROVE  /\ errors \in Queue
           /\ QueueSays(errors, Says[loaded])
<1>1. errors = ConfigInitOf[loaded] /\ loaded \in File
  BY DEF RuleInv, Loads
<1>2. QED
  BY <1>1, ParserIsRight DEF ParserRight

LEMMA EntryFacts ==
    ASSUME RuleInv, errors \notin {NULL, Freed},
           NEW at \in 1 .. Len(errors)
    PROVE  /\ errors[at].type \in DOMAIN Says[loaded]
           /\ errors[at].type \in InjType
           /\ errors[at] = Written(errors[at].type, Says[loaded])
           /\ \A i \in 1 .. (at - 1) :
                /\ errors[i].type \in DOMAIN Says[loaded]
                /\ errors[i].type # errors[at].type
                /\ Says[loaded][errors[i].type].place \in Nat
                /\ Says[loaded][errors[at].type].place \in Nat
                /\ Says[loaded][errors[i].type].place
                        < Says[loaded][errors[at].type].place
<1> DEFINE conf == Says[loaded]
<1>1. errors \in Queue /\ QueueSays(errors, conf)
  BY QueueInForceFacts
<1>2. DOMAIN errors = 1 .. Len(errors) /\ at \in DOMAIN errors
  BY <1>1 DEF Queue
<1>3. errors[at].type \in InjType
  <2>1. errors[at] \in Entry
    BY <1>1, <1>2, QueueFacts
  <2>2. QED
    BY <2>1, EntryTypes
<1>4. \A t \in DOMAIN conf : conf[t].place \in Nat
  BY NumbersSaid DEF RuleInv
<1> HIDE DEF conf
<1>5. errors[at].type \in DOMAIN conf
  BY <1>1, <1>2 DEF QueueSays
<1>6. errors[at] = Written(errors[at].type, conf)
  BY <1>1, <1>2 DEF QueueSays
<1>7. ASSUME NEW i \in 1 .. (at - 1)
      PROVE  /\ errors[i].type \in DOMAIN conf
             /\ conf[errors[i].type].place < conf[errors[at].type].place
  <2>1. i \in DOMAIN errors /\ i < at
    BY <1>2
  <2>2. QED
    BY <1>1, <1>2, <2>1 DEF QueueSays
<1>8. ASSUME NEW i \in 1 .. (at - 1)
      PROVE  /\ errors[i].type # errors[at].type
             /\ conf[errors[i].type].place \in Nat
             /\ conf[errors[at].type].place \in Nat
  BY <1>4, <1>5, <1>7
<1>9. QED
  BY <1>3, <1>5, <1>6, <1>7, <1>8 DEF conf

(***************************************************************************)
(* A turn of the walk: the entry it is at is one more that happened, or    *)
(* one that did not and that is not a certain one.                         *)
(***************************************************************************)
LEMMA WalkOn ==
    ASSUME RuleInv, NEW c \in Caller, NEW fired, NEW more,
           Fired(c, fired), fired \subseteq more,
           call[c].at \in 1 .. Len(errors),
           more \subseteq fired \cup {Current(c).type},
           Current(c).type \in more => Current(c).type \in Concern(c),
           Current(c).type \in Rules!Certain(Says[loaded]) \cap Concern(c)
               => Current(c).type \in more,
           UNCHANGED <<errors, loaded>>,
           call'[c].op = call[c].op, call'[c].path = call[c].path,
           call'[c].at = call[c].at + 1,
           call'[c].rc \in Rules!Verdicts(Says[loaded], more, call[c].op),
           call'[c].slow = Rules!Slow(Says[loaded], more),
           c \in killed' <=> "kill_caller" \in more
    PROVE  Fired(c, more)'
<1>1. Concern(c)' = Concern(c)
  BY DEF Concern
<1>2. Before(c)' = Before(c) \cup {Current(c).type}
  <2>1. Before(c)' = {errors[i].type : i \in 1 .. call[c].at}
    BY DEF Before
  <2>2. 1 .. call[c].at = (1 .. (call[c].at - 1)) \cup {call[c].at}
    OBVIOUS
  <2>3. QED
    BY <2>1, <2>2 DEF Before, Current
<1>3. more \subseteq Concern(c)' /\ more \subseteq Before(c)'
  BY <1>1, <1>2 DEF Fired
<1>4. Rules!Certain(Says[loaded]) \cap Concern(c)' \cap Before(c)' \subseteq more
  BY <1>1, <1>2 DEF Fired
<1>5. QED
  BY <1>3, <1>4 DEF Fired

(***************************************************************************)
(* The other threads: one that is in its walk holds the mutex, so that the *)
(* queue it walks stays as it is.                                          *)
(***************************************************************************)
LEMMA OthersStay ==
    ASSUME RuleInv, NEW c \in Caller, NEW d \in Caller, d # c,
           call'[d] = call[d], d \in killed' <=> d \in killed,
           UNCHANGED <<errors, loaded>> \/ call[c].pc \in Inside
    PROVE  RuleOf(d)'
<1>1. RuleOf(d)
  BY DEF RuleInv
<1>2. CASE UNCHANGED <<errors, loaded>>
  <2>1. Concern(d)' = Concern(d) /\ Before(d)' = Before(d)
    BY <1>2 DEF Concern, Before
  <2>2. Current(d)' = Current(d)
    BY <1>2 DEF Current
  <2>3. \A fired : Fired(d, fired)' <=> Fired(d, fired)
    BY <1>2, <2>1 DEF Fired
  <2>4. Untouched(d)' <=> Untouched(d)
    BY DEF Untouched
  <2>5. QED
    BY <1>1, <1>2, <2>1, <2>2, <2>3, <2>4 DEF RuleOf
<1>3. CASE call[c].pc \in Inside
  <2>1. call[d].pc \notin Inside
    BY <1>3 DEF RuleInv, WalkInv, HolderInside, Inside
  <2>2. Untouched(d)' <=> Untouched(d)
    BY DEF Untouched
  <2>3. QED
    BY <1>1, <2>1, <2>2 DEF RuleOf, Inside
<1>4. QED
  BY <1>2, <1>3

LEMMA RuleFrame ==
    ASSUME RuleInv, [Next]_vars, NEW c \in Caller, NEW r,
           call' = [call EXCEPT ![c] = r], RuleOf(c)', Loads',
           killed' \in {killed, killed \cup {c}}, loaded' \in File,
           UNCHANGED <<errors, loaded>> \/ call[c].pc \in Inside
    PROVE  RuleInv'
<1>1. WalkInv'
  BY WalkStep DEF RuleInv
<1>2. ASSUME NEW d \in Caller, d # c PROVE RuleOf(d)'
  <2>1. call'[d] = call[d]
    BY <1>2 DEF RuleInv, WalkInv, CallOK
  <2>2. d \in killed' <=> d \in killed
    BY <1>2
  <2>3. QED
    BY <1>2, <2>1, <2>2, OthersStay
<1>3. killed' \subseteq Caller
  BY DEF RuleInv
<1>4. \A d \in Caller : RuleOf(d)'
  BY <1>2
<1>5. QED
  BY <1>1, <1>3, <1>4 DEF RuleInv

\* A call that is where no rule is asked for.
LEMMA RuleFree ==
    ASSUME NEW c \in Caller,
           call[c].pc \notin {"lock", "delete", "init", "inject", "sleep"}
    PROVE  RuleOf(c)
BY DEF RuleOf
-----------------------------------------------------------------------------
(***************************************************************************)
(* A turn that does not sleep.                                             *)
(***************************************************************************)
LEMMA TurnKeepsRule ==
    ASSUME RuleInv, [Next]_vars, NEW c \in Caller, NEW rc,
           InLoop(c), Advance(c, rc), UNCHANGED <<errors, loaded>>,
           killed' \in {killed, killed \cup {c}},
           NEW fired \in SUBSET InjType, Fired(c, fired),
           NEW more \in SUBSET InjType,
           fired \subseteq more, more \subseteq fired \cup {Current(c).type},
           Current(c).type \in more => Current(c).type \in Concern(c),
           Current(c).type \in Rules!Certain(Says[loaded]) \cap Concern(c)
               => Current(c).type \in more,
           rc \in Rules!Verdicts(Says[loaded], more, call[c].op),
           call[c].slow = Rules!Slow(Says[loaded], more),
           c \in killed' <=> "kill_caller" \in more
    PROVE  RuleInv'
<1> DEFINE r == [call[c] EXCEPT !.pc = "inject", !.at = @ + 1, !.rc = rc]
<1>1. call[c] \in Busy
  BY BusyCall DEF InLoop, RuleInv, WalkInv
<1>2. /\ r.pc = "inject" /\ r.at = call[c].at + 1 /\ r.rc = rc
      /\ r.op = call[c].op /\ r.path = call[c].path /\ r.slow = call[c].slow
  <2>1. /\ r.pc = "inject" /\ r.at = call[c].at + 1 /\ r.rc = rc
        /\ r.op = call[c].op /\ r.path = call[c].path
    BY <1>1 DEF Busy
  <2>2. r.slow = call[c].slow
    BY <1>1 DEF Busy
  <2>3. QED
    BY <2>1, <2>2
<1>3. call' = [call EXCEPT ![c] = r]
  BY DEF Advance, RuleInv, WalkInv, CallOK
<1> HIDE DEF r
<1>4. call'[c] = r
  BY <1>3 DEF RuleInv, WalkInv, CallOK
<1>5. call[c].at \in 1 .. Len(errors) /\ Len(errors) \in Nat
  BY <1>1 DEF InLoop, Busy
<1>6. Fired(c, more)'
  BY <1>2, <1>4, <1>5, WalkOn
<1>7. RuleOf(c)'
  <2>1. call[c].path # ConfPath
    BY DEF RuleInv, RuleOf, InLoop
  <2>2. QED
    BY <1>2, <1>4, <1>5, <1>6, <2>1 DEF RuleOf
<1>8. Loads' /\ loaded' \in File
  BY DEF RuleInv, Loads
<1>9. QED
  BY <1>3, <1>7, <1>8, RuleFrame

(***************************************************************************)
(* The entry a thread is at: whether it may and must happen is what        *)
(* Injector says, and it comes after those the thread has seen.            *)
(***************************************************************************)
LEMMA TurnFacts ==
    ASSUME RuleInv, NEW c \in Caller, InLoop(c)
    PROVE  /\ Current(c).type \in InjType
           /\ Current(c).type \notin Before(c)
           /\ \A u \in Before(c) :
                /\ Says[loaded][u].place \in Nat
                /\ Says[loaded][Current(c).type].place \in Nat
                /\ Says[loaded][u].place < Says[loaded][Current(c).type].place
           /\ \A p \in rand_range(0, MaxProbability) :
                IF Applies(c, p) THEN Current(c).type \in Concern(c)
                ELSE Current(c).type
                         \notin Rules!Certain(Says[loaded]) \cap Concern(c)
           /\ Current(c).duration <= MaxNsec
                  <=> Says[loaded][Current(c).type].duration \in 0 .. MaxNsec
<1> DEFINE conf == Says[loaded]
           t == Current(c).type
<1>1. call[c].at \in 1 .. Len(errors) /\ errors \notin {NULL, Freed}
  BY BusyCall DEF InLoop, Busy, RuleInv, WalkInv
<1>2. /\ t \in DOMAIN conf /\ t \in InjType
      /\ Current(c) = Written(t, conf)
  BY <1>1, EntryFacts DEF Current
<1>3. ASSUME NEW u \in Before(c)
      PROVE  /\ u # t
             /\ conf[u].place \in Nat /\ conf[t].place \in Nat
             /\ conf[u].place < conf[t].place
  <2>1. PICK i \in 1 .. (call[c].at - 1) : u = errors[i].type
    BY <1>3 DEF Before
  <2>2. QED
    BY <1>1, <2>1, EntryFacts DEF Current
<1>4. /\ conf[t].probability \in (MaxProbability - Width) .. (Width - 1)
      /\ conf[t].duration \in (MaxNsec + 1 - Width) .. (Width - 1)
  BY <1>2, NumbersSaid DEF RuleInv
<1> HIDE DEF conf, t
<1>5. /\ Current(c).path_regexp = conf[t].path_regexp
      /\ Current(c).op_regexp = conf[t].op_regexp
      /\ Current(c).probability = Unsigned(conf[t].probability)
      /\ Current(c).duration = Unsigned(conf[t].duration)
  BY <1>2 DEF Written
<1>6. ASSUME NEW p \in rand_range(0, MaxProbability)
      PROVE  IF Applies(c, p) THEN t \in Rules!Concerned(conf, call[c].op, call[c].path)
             ELSE t \notin Rules!Certain(conf)
                           \cap Rules!Concerned(conf, call[c].op, call[c].path)
  <2>1. p \in Nat /\ p <= MaxProbability
    BY Limits DEF rand_range
  <2>2. t \in Rules!Concerned(conf, call[c].op, call[c].path)
            <=> /\ is_regex_matched(Current(c).path_regexp, call[c].path)
                /\ is_regex_matched(Current(c).op_regexp, call[c].op)
    BY <1>2, <1>5
    DEF Rules!Concerned, Rules!Matched, is_regex_matched, Matched
  <2>3. /\ Unsigned(conf[t].probability) \in Nat
        /\ Unsigned(conf[t].probability) < MaxProbability
               <=> conf[t].probability \in 0 .. (MaxProbability - 1)
    BY <1>4, Limits, UnsignedLimit
  <2>4. t \in Rules!Certain(conf) => p <= Current(c).probability
    BY <1>5, <2>1, <2>3, Limits DEF Rules!Certain
  <2>5. QED
    BY <2>2, <2>4 DEF Applies
<1>7. Current(c).duration <= MaxNsec <=> conf[t].duration \in 0 .. MaxNsec
  <2> DEFINE limit == MaxNsec + 1
  <2>1. limit \in Nat /\ limit <= Width
    BY Limits
  <2>2. conf[t].duration \in (limit - Width) .. (Width - 1)
    BY <1>4, Limits
  <2>3. limit - 1 = MaxNsec
    BY Limits
  <2> HIDE DEF limit
  <2>4. /\ Unsigned(conf[t].duration) \in Nat
        /\ Unsigned(conf[t].duration) < limit
               <=> conf[t].duration \in 0 .. (limit - 1)
    BY <2>1, <2>2, UnsignedLimit
  <2>5. QED
    BY <1>5, <2>1, <2>3, <2>4, Limits
<1>8. t \notin Before(c)
  BY <1>3
<1>9. QED
  BY <1>2, <1>3, <1>6, <1>7, <1>8 DEF conf, t, Concern
-----------------------------------------------------------------------------
(***************************************************************************)
(* The invariant, action by action.                                        *)
(***************************************************************************)
LEMMA RuleInit == Init => RuleInv
<1> SUFFICES ASSUME Init PROVE RuleInv
  OBVIOUS
<1>1. WalkInv
  BY WalkInit
<1>2. \A c \in Caller : call[c].pc = "idle"
  BY DEF Init, Idle
<1>3. \A c \in Caller : RuleOf(c)
  BY <1>2 DEF RuleOf
<1>4. QED
  BY <1>1, <1>3 DEF Init, RuleInv, Loads

LEMMA RuleEdit ==
    ASSUME RuleInv, [Next]_vars, UNCHANGED <<errors, call, killed, loaded>>
    PROVE  RuleInv'
<1>1. WalkInv'
  BY WalkStep DEF RuleInv
<1>2. Loads'
  BY DEF RuleInv, Loads
<1>3. ASSUME NEW c \in Caller PROVE RuleOf(c)'
  <2>1. /\ Concern(c)' = Concern(c) /\ Before(c)' = Before(c)
        /\ Current(c)' = Current(c)
    BY DEF Concern, Before, Current
  <2>2. \A fired : Fired(c, fired)' <=> Fired(c, fired)
    BY <2>1 DEF Fired
  <2>3. Untouched(c)' <=> Untouched(c)
    BY DEF Untouched
  <2>4. RuleOf(c)
    BY DEF RuleInv
  <2>5. QED
    BY <2>1, <2>2, <2>3, <2>4 DEF RuleOf
<1>4. QED
  BY <1>1, <1>2, <1>3 DEF RuleInv

LEMMA RuleCall ==
    ASSUME RuleInv, [Next]_vars, NEW c \in Caller, NEW op \in Op,
           NEW path \in Path, Call(c, op, path)
    PROVE  RuleInv'
<1> DEFINE pc == IF op \in Hooked THEN "lock" ELSE "decided"
           r == [pc |-> pc, op |-> op, path |-> path, at |-> 1, rc |-> "pass",
                 slow |-> FALSE]
<1>1. call' = [call EXCEPT ![c] = r] /\ UNCHANGED <<errors, loaded, killed>>
  BY DEF Call
<1>2. /\ r.pc \in {"lock", "decided"} /\ r.at = 1 /\ r.rc = "pass"
      /\ r.slow = FALSE
  OBVIOUS
<1> HIDE DEF r, pc
<1>3. call'[c] = r /\ c \notin killed'
  BY <1>1 DEF RuleInv, WalkInv, CallOK, Call
<1>4. RuleOf(c)'
  BY <1>2, <1>3 DEF RuleOf, Untouched
<1>5. Loads' /\ loaded' \in File
  BY <1>1 DEF RuleInv, Loads
<1>6. QED
  BY <1>1, <1>4, <1>5, RuleFrame

\* An answered call, or one that is past its walk.
LEMMA RuleLeaves ==
    ASSUME RuleInv, [Next]_vars, NEW c \in Caller, NEW r,
           call' = [call EXCEPT ![c] = r], r.pc \in {"idle", "decided"},
           UNCHANGED <<errors, killed, loaded>>
    PROVE  RuleInv'
<1>1. call'[c] = r
  BY DEF RuleInv, WalkInv, CallOK
<1>2. RuleOf(c)'
  BY <1>1 DEF RuleOf
<1>3. Loads' /\ loaded' \in File
  BY DEF RuleInv, Loads
<1>4. QED
  BY <1>2, <1>3, RuleFrame

LEMMA RuleLock ==
    ASSUME RuleInv, [Next]_vars, NEW c \in Caller, Lock(c)
    PROVE  RuleInv'
<1> DEFINE pc == CASE call[c].path = ConfPath -> "delete"
                   [] call[c].path # ConfPath /\ errors = NULL -> "unlock"
                   [] OTHER -> "inject"
           r == [call[c] EXCEPT !.pc = pc]
<1>1. /\ pc \in {"delete", "unlock", "inject"}
      /\ pc = "inject" => errors # NULL /\ call[c].path # ConfPath
      /\ pc = "delete" => call[c].path = ConfPath
  OBVIOUS
<1>2. call[c] \in Busy
  BY BusyCall DEF Lock, RuleInv, WalkInv
<1>3. call' = [call EXCEPT ![c] = r] /\ UNCHANGED <<errors, killed, loaded>>
  BY DEF Lock, RuleInv, WalkInv, CallOK
<1> HIDE DEF pc
<1>4. /\ r.pc = pc /\ r.at = call[c].at /\ r.rc = call[c].rc
      /\ r.op = call[c].op /\ r.path = call[c].path
  BY <1>2 DEF Busy
<1>5. r.slow = call[c].slow
  BY <1>2 DEF Busy
<1> HIDE DEF r
<1>6. call'[c] = r
  BY <1>3 DEF RuleInv, WalkInv, CallOK
<1>7. /\ call[c].at = 1 /\ call[c].rc = "pass" /\ call[c].slow = FALSE
      /\ c \notin killed
  BY DEF Lock, RuleInv, RuleOf, Untouched
<1>8. CASE pc = "inject"
  <2>1. errors \notin {NULL, Freed}
    BY <1>1, <1>8, FreeMutex DEF Lock, RuleInv
  <2>2. Len(errors) \in Nat
    BY <2>1, QueueInForceFacts DEF Queue
  <2>3. Before(c)' = {}
    <3>1. 1 .. (call'[c].at - 1) = {}
      BY <1>4, <1>6, <1>7
    <3>2. QED
      BY <3>1 DEF Before
  <2>4. Rules!Slow(Says[loaded], {}) = FALSE
    BY DEF Rules!Slow
  <2>5. Fired(c, {})'
    BY <1>3, <1>4, <1>5, <1>6, <1>7, <2>3, <2>4, VerdictsNone DEF Fired
  <2>6. RuleOf(c)'
    BY <1>1, <1>3, <1>4, <1>6, <1>7, <1>8, <2>2, <2>5 DEF RuleOf
  <2>7. QED
    BY <1>3, <2>6, RuleFrame DEF RuleInv, Loads
<1>9. CASE pc # "inject"
  <2>1. Untouched(c)'
    BY <1>3, <1>4, <1>5, <1>6, <1>7 DEF Untouched
  <2>2. RuleOf(c)'
    BY <1>1, <1>4, <1>6, <1>9, <2>1 DEF RuleOf
  <2>3. QED
    BY <1>3, <2>2, RuleFrame DEF RuleInv, Loads
<1>10. QED
  BY <1>8, <1>9

LEMMA RuleDelete ==
    ASSUME RuleInv, [Next]_vars, NEW c \in Caller, ConfigDelete(c)
    PROVE  RuleInv'
<1> DEFINE r == [call[c] EXCEPT !.pc = "init"]
<1>1. call[c] \in Busy
  BY BusyCall DEF ConfigDelete, RuleInv, WalkInv
<1>2. call' = [call EXCEPT ![c] = r] /\ UNCHANGED <<killed, loaded>>
  BY DEF ConfigDelete, RuleInv, WalkInv, CallOK
<1>3. /\ r.pc = "init" /\ r.at = call[c].at /\ r.rc = call[c].rc
      /\ r.path = call[c].path
  BY <1>1 DEF Busy
<1>4. r.slow = call[c].slow
  BY <1>1 DEF Busy
<1> HIDE DEF r
<1>5. call'[c] = r
  BY <1>2 DEF RuleInv, WalkInv, CallOK
<1>6. Untouched(c) /\ call[c].path = ConfPath
  BY DEF ConfigDelete, RuleInv, RuleOf
<1>7. RuleOf(c)'
  BY <1>2, <1>3, <1>4, <1>5, <1>6 DEF RuleOf, Untouched
<1>8. Loads'
  BY <1>2 DEF ConfigDelete, RuleInv, Loads
<1>9. call[c].pc \in Inside
  BY DEF ConfigDelete, Inside
<1>10. QED
  BY <1>2, <1>7, <1>8, <1>9, RuleFrame DEF RuleInv

LEMMA RuleReload ==
    ASSUME RuleInv, [Next]_vars, NEW c \in Caller, ConfigInit(c)
    PROVE  RuleInv'
<1> DEFINE r == [call[c] EXCEPT !.pc = "unlock"]
<1>1. call[c] \in Busy
  BY BusyCall DEF ConfigInit, RuleInv, WalkInv
<1>2. call' = [call EXCEPT ![c] = r] /\ killed' = killed
  BY DEF ConfigInit, RuleInv, WalkInv, CallOK
<1>3. r.pc = "unlock"
  BY <1>1 DEF Busy
<1> HIDE DEF r
<1>4. call'[c] = r
  BY <1>2 DEF RuleInv, WalkInv, CallOK
<1>5. RuleOf(c)'
  BY <1>3, <1>4 DEF RuleOf
<1>6. Loads' /\ loaded' \in File
  BY DEF ConfigInit, RuleInv, WalkInv, Loads
<1>7. call[c].pc \in Inside
  BY DEF ConfigInit, Inside
<1>8. QED
  BY <1>2, <1>5, <1>6, <1>7, RuleFrame

LEMMA RuleUnlock ==
    ASSUME RuleInv, [Next]_vars, NEW c \in Caller, Unlock(c)
    PROVE  RuleInv'
<1> DEFINE r == [call[c] EXCEPT !.pc = "decided"]
<1>1. call[c] \in Busy
  BY BusyCall DEF Unlock, RuleInv, WalkInv
<1>2. call' = [call EXCEPT ![c] = r] /\ UNCHANGED <<errors, killed, loaded>>
  BY DEF Unlock, RuleInv, WalkInv, CallOK
<1>3. r.pc = "decided"
  BY <1>1 DEF Busy
<1> HIDE DEF r
<1>4. QED
  BY <1>2, <1>3, RuleLeaves

LEMMA RuleReturn ==
    ASSUME RuleInv, [Next]_vars, NEW c \in Caller, NEW result, NEW done,
           Return(c, result, done)
    PROVE  RuleInv'
<1>1. Idle(Answer(result, done)).pc = "idle"
  BY DEF Idle
<1>2. QED
  BY <1>1, RuleLeaves DEF Return

(***************************************************************************)
(* The turns of the walk.                                                  *)
(***************************************************************************)
LEMMA WalkFacts ==
    ASSUME RuleInv, NEW c \in Caller, call[c].pc \in {"inject", "sleep"}
    PROVE  \E fired \in SUBSET InjType : Fired(c, fired)
BY DEF RuleInv, RuleOf

LEMMA RuleNotTriggered ==
    ASSUME RuleInv, [Next]_vars, NEW c \in Caller, NotTriggered(c)
    PROVE  RuleInv'
<1>1. InLoop(c) /\ Advance(c, call[c].rc)
      /\ UNCHANGED <<errors, killed, loaded>>
  BY DEF NotTriggered
<1>2. PICK fired \in SUBSET InjType : Fired(c, fired)
  BY <1>1, WalkFacts DEF InLoop
<1>3. PICK p \in rand_range(0, MaxProbability) : ~Applies(c, p)
  BY DEF NotTriggered
<1>4. /\ Current(c).type \notin Before(c)
      /\ Current(c).type \notin Rules!Certain(Says[loaded]) \cap Concern(c)
  BY <1>1, <1>3, TurnFacts
<1>5. /\ Current(c).type \notin fired
      /\ call[c].rc \in Rules!Verdicts(Says[loaded], fired, call[c].op)
      /\ c \in killed <=> "kill_caller" \in fired
  BY <1>2, <1>4 DEF Fired
<1>6. call[c].slow = Rules!Slow(Says[loaded], fired)
  BY <1>2 DEF Fired
<1>7. QED
  BY <1>1, <1>2, <1>4, <1>5, <1>6, TurnKeepsRule

(***************************************************************************)
(* The entry of a triggered injection, and what happened before it.        *)
(***************************************************************************)
LEMMA TriggeredFacts ==
    ASSUME RuleInv, NEW c \in Caller, NEW t, Triggered(c, t),
           NEW fired, Fired(c, fired)
    PROVE  /\ InLoop(c)
           /\ t \in InjType /\ t = Current(c).type
           /\ t \in Concern(c) /\ t \notin fired
           /\ \A u \in fired :
                /\ Says[loaded][u].place \in Nat
                /\ Says[loaded][t].place \in Nat
                /\ Says[loaded][u].place < Says[loaded][t].place
<1>1. InLoop(c) /\ t = Current(c).type
  BY DEF Triggered
<1>2. PICK p \in rand_range(0, MaxProbability) : Applies(c, p)
  BY DEF Triggered
<1>3. fired \subseteq Before(c)
  BY DEF Fired
<1>4. QED
  BY <1>1, <1>2, <1>3, TurnFacts

LEMMA RuleNoop ==
    ASSUME RuleInv, [Next]_vars, NEW c \in Caller, InjectNoop(c)
    PROVE  RuleInv'
<1>1. Triggered(c, "noop") /\ Advance(c, "noop")
      /\ UNCHANGED <<errors, killed, loaded>>
  BY DEF InjectNoop
<1>2. PICK fired \in SUBSET InjType : Fired(c, fired)
  BY <1>1, WalkFacts DEF Triggered, InLoop
<1>3. /\ InLoop(c) /\ "noop" = Current(c).type /\ "noop" \in Concern(c)
      /\ "noop" \in InjType
      /\ \A u \in fired :
            /\ Says[loaded][u].place \in Nat
            /\ Says[loaded]["noop"].place \in Nat
            /\ Says[loaded][u].place < Says[loaded]["noop"].place
  BY <1>1, <1>2, TriggeredFacts
<1> DEFINE more == fired \cup {"noop"}
<1>4. "noop" \in Rules!Verdicts(Says[loaded], more, call[c].op)
  BY <1>3, VerdictsNoop
<1>5. Rules!Slow(Says[loaded], more) = Rules!Slow(Says[loaded], fired)
  BY SlowSame
<1>6. /\ more \in SUBSET InjType /\ fired \subseteq more
      /\ Current(c).type \in more /\ more \subseteq fired \cup {Current(c).type}
      /\ "kill_caller" \in more <=> "kill_caller" \in fired
  BY <1>3
<1> HIDE DEF more
<1>7. call[c].slow = Rules!Slow(Says[loaded], more)
  BY <1>2, <1>5 DEF Fired
<1>8. c \in killed' <=> "kill_caller" \in more
  BY <1>1, <1>2, <1>6 DEF Fired
<1>9. Current(c).type \in Concern(c)
  BY <1>3
<1>10. QED
  BY <1>1, <1>2, <1>3, <1>4, <1>6, <1>7, <1>8, <1>9, TurnKeepsRule

LEMMA RuleErrno ==
    ASSUME RuleInv, [Next]_vars, NEW c \in Caller, InjectErrno(c)
    PROVE  RuleInv'
<1>1. Triggered(c, "errno") /\ UNCHANGED <<errors, killed, loaded>>
  BY DEF InjectErrno
<1>2. PICK rc \in op_random_errno(call[c].op) : Advance(c, rc)
  BY DEF InjectErrno
<1>3. PICK fired \in SUBSET InjType : Fired(c, fired)
  BY <1>1, WalkFacts DEF Triggered, InLoop
<1>4. /\ InLoop(c) /\ "errno" = Current(c).type /\ "errno" \in Concern(c)
      /\ "errno" \in InjType
      /\ \A u \in fired :
            /\ Says[loaded][u].place \in Nat
            /\ Says[loaded]["errno"].place \in Nat
            /\ Says[loaded][u].place < Says[loaded]["errno"].place
  BY <1>1, <1>3, TriggeredFacts
<1>5. call[c].op \in Op
  BY <1>4, BusyCall DEF InLoop, RuleInv, WalkInv, Busy
<1> DEFINE more == fired \cup {"errno"}
<1>6. rc \in Rules!Verdicts(Says[loaded], more, call[c].op)
  BY <1>2, <1>4, <1>5, VerdictsErrno
<1>7. Rules!Slow(Says[loaded], more) = Rules!Slow(Says[loaded], fired)
  BY SlowSame
<1>8. /\ more \in SUBSET InjType /\ fired \subseteq more
      /\ Current(c).type \in more /\ more \subseteq fired \cup {Current(c).type}
      /\ "kill_caller" \in more <=> "kill_caller" \in fired
  BY <1>4
<1> HIDE DEF more
<1>9. call[c].slow = Rules!Slow(Says[loaded], more)
  BY <1>3, <1>7 DEF Fired
<1>10. c \in killed' <=> "kill_caller" \in more
  BY <1>1, <1>3, <1>8 DEF Fired
<1>11. Current(c).type \in Concern(c)
  BY <1>4
<1>12. QED
  BY <1>1, <1>2, <1>3, <1>4, <1>6, <1>8, <1>9, <1>10, <1>11, TurnKeepsRule

LEMMA RuleKill ==
    ASSUME RuleInv, [Next]_vars, NEW c \in Caller, KillCaller(c)
    PROVE  RuleInv'
<1>1. Triggered(c, "kill_caller") /\ Advance(c, call[c].rc)
      /\ UNCHANGED <<errors, loaded>> /\ killed' = killed \cup {c}
  BY DEF KillCaller
<1>2. PICK fired \in SUBSET InjType : Fired(c, fired)
  BY <1>1, WalkFacts DEF Triggered, InLoop
<1>3. /\ InLoop(c) /\ "kill_caller" = Current(c).type
      /\ "kill_caller" \in Concern(c) /\ "kill_caller" \in InjType
  BY <1>1, <1>2, TriggeredFacts
<1> DEFINE more == fired \cup {"kill_caller"}
<1>4. Rules!Verdicts(Says[loaded], more, call[c].op)
          = Rules!Verdicts(Says[loaded], fired, call[c].op)
  BY VerdictsSame
<1>5. Rules!Slow(Says[loaded], more) = Rules!Slow(Says[loaded], fired)
  BY SlowSame
<1>6. /\ more \in SUBSET InjType /\ fired \subseteq more
      /\ Current(c).type \in more /\ more \subseteq fired \cup {Current(c).type}
      /\ "kill_caller" \in more
  BY <1>3
<1> HIDE DEF more
<1>7. call[c].slow = Rules!Slow(Says[loaded], more)
  BY <1>2, <1>5 DEF Fired
<1>8. call[c].rc \in Rules!Verdicts(Says[loaded], more, call[c].op)
  BY <1>2, <1>4 DEF Fired
<1>9. c \in killed' <=> "kill_caller" \in more
  BY <1>1, <1>6
<1>10. Current(c).type \in Concern(c)
  BY <1>3
<1>11. QED
  BY <1>1, <1>2, <1>3, <1>6, <1>7, <1>8, <1>9, <1>10, TurnKeepsRule

\* A slowdown that is too long for nanosleep() happens, and delays nothing.
LEMMA RuleNoSleep ==
    ASSUME RuleInv, [Next]_vars, NEW c \in Caller, Slowdown(c),
           ~(Current(c).duration <= MaxNsec)
    PROVE  RuleInv'
<1>1. Triggered(c, "slowdown") /\ Advance(c, call[c].rc)
      /\ UNCHANGED <<errors, killed, loaded>>
  BY DEF Slowdown
<1>2. PICK fired \in SUBSET InjType : Fired(c, fired)
  BY <1>1, WalkFacts DEF Triggered, InLoop
<1>3. /\ InLoop(c) /\ "slowdown" = Current(c).type
      /\ "slowdown" \in Concern(c) /\ "slowdown" \in InjType
      /\ "slowdown" \notin fired
  BY <1>1, <1>2, TriggeredFacts
<1> DEFINE more == fired \cup {"slowdown"}
<1>4. Rules!Verdicts(Says[loaded], more, call[c].op)
          = Rules!Verdicts(Says[loaded], fired, call[c].op)
  BY VerdictsSame
<1>5. Says[loaded]["slowdown"].duration \notin 0 .. MaxNsec
  BY <1>3, TurnFacts
<1>6. /\ Rules!Slow(Says[loaded], more) = FALSE
      /\ Rules!Slow(Says[loaded], fired) = FALSE
  BY <1>3, <1>5 DEF Rules!Slow
<1>7. /\ more \in SUBSET InjType /\ fired \subseteq more
      /\ Current(c).type \in more /\ more \subseteq fired \cup {Current(c).type}
      /\ "kill_caller" \in more <=> "kill_caller" \in fired
  BY <1>3
<1> HIDE DEF more
<1>8. call[c].slow = Rules!Slow(Says[loaded], more)
  BY <1>2, <1>6 DEF Fired
<1>9. call[c].rc \in Rules!Verdicts(Says[loaded], more, call[c].op)
  BY <1>2, <1>4 DEF Fired
<1>10. c \in killed' <=> "kill_caller" \in more
  BY <1>1, <1>2, <1>7 DEF Fired
<1>11. Current(c).type \in Concern(c)
  BY <1>3
<1>12. QED
  BY <1>1, <1>2, <1>3, <1>7, <1>8, <1>9, <1>10, <1>11, TurnKeepsRule

LEMMA RuleSleep ==
    ASSUME RuleInv, [Next]_vars, NEW c \in Caller, Slowdown(c),
           Current(c).duration <= MaxNsec
    PROVE  RuleInv'
<1>1. Triggered(c, "slowdown") /\ UNCHANGED <<errors, killed, loaded>>
      /\ call' = [call EXCEPT ![c].pc = "sleep"]
  BY DEF Slowdown
<1>2. PICK fired \in SUBSET InjType : Fired(c, fired)
  BY <1>1, WalkFacts DEF Triggered, InLoop
<1>3. /\ InLoop(c) /\ "slowdown" = Current(c).type /\ "slowdown" \in Concern(c)
  BY <1>1, <1>2, TriggeredFacts
<1>4. Says[loaded]["slowdown"].duration \in 0 .. MaxNsec
  BY <1>3, TurnFacts
<1> DEFINE r == [call[c] EXCEPT !.pc = "sleep"]
<1>5. call[c] \in Busy
  BY <1>3, BusyCall DEF InLoop, RuleInv, WalkInv
<1>6. call' = [call EXCEPT ![c] = r]
  BY <1>1 DEF RuleInv, WalkInv, CallOK
<1>7. /\ r.pc = "sleep" /\ r.at = call[c].at /\ r.rc = call[c].rc
      /\ r.op = call[c].op /\ r.path = call[c].path
  BY <1>5 DEF Busy
<1>8. r.slow = call[c].slow
  BY <1>5 DEF Busy
<1> HIDE DEF r
<1>9. call'[c] = r
  BY <1>6 DEF RuleInv, WalkInv, CallOK
<1>10. /\ Concern(c)' = Concern(c) /\ Before(c)' = Before(c)
       /\ Current(c)' = Current(c)
  BY <1>1, <1>7, <1>9 DEF Concern, Before, Current
<1>11. Fired(c, fired)'
  BY <1>1, <1>2, <1>7, <1>8, <1>9, <1>10 DEF Fired
<1>12. /\ call[c].path # ConfPath
       /\ call[c].at <= Len(errors) + 1 /\ call[c].at <= Len(errors)
  BY <1>3 DEF InLoop, RuleInv, RuleOf
<1>13. RuleOf(c)'
  BY <1>1, <1>3, <1>4, <1>7, <1>9, <1>10, <1>11, <1>12 DEF RuleOf
<1>14. Loads' /\ loaded' \in File
  BY <1>1 DEF RuleInv, Loads
<1>15. QED
  BY <1>1, <1>6, <1>13, <1>14, RuleFrame

LEMMA RuleWake ==
    ASSUME RuleInv, [Next]_vars, NEW c \in Caller, Wake(c)
    PROVE  RuleInv'
<1>1. call[c].pc = "sleep" /\ UNCHANGED <<errors, killed, loaded>>
  BY DEF Wake
<1>2. PICK fired \in SUBSET InjType : Fired(c, fired)
  BY <1>1, WalkFacts
<1>3. /\ call[c].path # ConfPath /\ call[c].at <= Len(errors)
      /\ Current(c).type = "slowdown" /\ "slowdown" \in Concern(c)
      /\ Says[loaded]["slowdown"].duration \in 0 .. MaxNsec
  BY <1>1 DEF RuleInv, RuleOf
<1> DEFINE r == [call[c] EXCEPT !.pc = "inject", !.at = @ + 1, !.slow = TRUE]
<1>4. call[c] \in Busy
  BY <1>1, BusyCall DEF RuleInv, WalkInv
<1>5. call' = [call EXCEPT ![c] = r]
  BY DEF Wake, RuleInv, WalkInv, CallOK
<1>6. /\ r.pc = "inject" /\ r.at = call[c].at + 1 /\ r.rc = call[c].rc
      /\ r.op = call[c].op /\ r.path = call[c].path
  BY <1>4 DEF Busy
<1>7. r.slow = TRUE
  BY <1>4 DEF Busy
<1> HIDE DEF r
<1>8. call'[c] = r
  BY <1>5 DEF RuleInv, WalkInv, CallOK
<1>9. Len(errors) \in Nat /\ call[c].at \in 1 .. Len(errors)
  <2>1. errors \notin {NULL, Freed}
    BY <1>1 DEF RuleInv, WalkInv, QueueLive
  <2>2. Len(errors) \in Nat
    BY <2>1, QueueInForceFacts DEF Queue
  <2>3. QED
    BY <1>3, <1>4, <2>2 DEF Busy
<1> DEFINE more == fired \cup {"slowdown"}
<1>10. Rules!Verdicts(Says[loaded], more, call[c].op)
           = Rules!Verdicts(Says[loaded], fired, call[c].op)
  BY VerdictsSame
<1>11. Rules!Slow(Says[loaded], more) = TRUE
  BY <1>3 DEF Rules!Slow
<1>12. /\ more \in SUBSET InjType /\ fired \subseteq more
       /\ Current(c).type \in more /\ more \subseteq fired \cup {Current(c).type}
       /\ "kill_caller" \in more <=> "kill_caller" \in fired
  BY <1>3 DEF InjType
<1> HIDE DEF more
<1>13. call'[c].rc \in Rules!Verdicts(Says[loaded], more, call[c].op)
  BY <1>2, <1>6, <1>8, <1>10 DEF Fired
<1>14. c \in killed' <=> "kill_caller" \in more
  BY <1>1, <1>2, <1>12 DEF Fired
<1>15. Fired(c, more)'
  BY <1>1, <1>2, <1>3, <1>6, <1>7, <1>8, <1>9, <1>11, <1>12, <1>13, <1>14, WalkOn
<1>16. RuleOf(c)'
  BY <1>1, <1>3, <1>6, <1>8, <1>9, <1>12, <1>15 DEF RuleOf
<1>17. Loads' /\ loaded' \in File
  BY <1>1 DEF RuleInv, Loads
<1>18. QED
  BY <1>1, <1>5, <1>16, <1>17, RuleFrame

LEMMA RuleStep == RuleInv /\ [Next]_vars => RuleInv'
<1> SUFFICES ASSUME RuleInv, [Next]_vars PROVE RuleInv'
  OBVIOUS
<1>1. CASE EditFile
  BY <1>1, RuleEdit DEF EditFile
<1>2. CASE UNCHANGED vars
  BY <1>2, RuleEdit DEF vars
<1>3. ASSUME NEW c \in Caller, NEW op \in Op, NEW path \in Path,
             Call(c, op, path)
      PROVE  RuleInv'
  BY <1>3, RuleCall
<1>4. ASSUME NEW c \in Caller, Lock(c) PROVE RuleInv'
  BY <1>4, RuleLock
<1>5. ASSUME NEW c \in Caller, Proceed(c) PROVE RuleInv'
  <2>1. CASE ConfigDelete(c)
    BY <2>1, RuleDelete
  <2>2. CASE ConfigInit(c)
    BY <2>2, RuleReload
  <2>3. CASE NotTriggered(c)
    BY <2>3, RuleNotTriggered
  <2>4. CASE InjectNoop(c)
    BY <2>4, RuleNoop
  <2>5. CASE InjectErrno(c)
    BY <2>5, RuleErrno
  <2>6. CASE KillCaller(c)
    BY <2>6, RuleKill
  <2>7. CASE Slowdown(c)
    BY <2>7, RuleSleep, RuleNoSleep
  <2>8. CASE Wake(c)
    BY <2>8, RuleWake
  <2>9. CASE Unlock(c)
    BY <2>9, RuleUnlock
  <2>10. CASE ReturnNoop(c) \/ ReturnErrno(c) \/ SystemCall(c)
              \/ RefuseFallocate(c)
    BY <2>10, RuleReturn
    DEF ReturnNoop, ReturnErrno, SystemCall, RefuseFallocate
  <2>11. QED
    BY <1>5, <2>1, <2>2, <2>3, <2>4, <2>5, <2>6, <2>7, <2>8, <2>9, <2>10
    DEF Proceed
<1>6. QED
  BY <1>1, <1>2, <1>3, <1>4, <1>5 DEF Next
-----------------------------------------------------------------------------
(***************************************************************************)
(* The refinement, step by step.                                           *)
(***************************************************************************)
Asking == {"lock", "delete", "init", "inject", "sleep"}

LEMMA RequestAsked ==
    ASSUME NEW r, r.pc \in Asking
    PROVE  RequestOf(r) = [phase |-> "asked", op |-> r.op, path |-> r.path]
BY DEF RequestOf, Asking

LEMMA RequestRuled ==
    ASSUME NEW r, r.pc \in {"unlock", "decided"}
    PROVE  RequestOf(r) = [phase |-> "ruled", op |-> r.op, rule |-> r.rc,
                           slow |-> r.slow]
BY DEF RequestOf

LEMMA RequestIdle ==
    ASSUME NEW r, r.pc = "idle"
    PROVE  RequestOf(r) = [phase |-> "idle", answer |-> r.answer]
BY DEF RequestOf

LEMMA KilledMoves ==
    ASSUME CallOK, NEW c \in Caller, NEW r, call' = [call EXCEPT ![c] = r],
           killed \subseteq Caller, killed' \in {killed, killed \cup {c}}
    PROVE  /\ r.pc \in Asking /\ call[c].pc \in Asking => Killed' = Killed
           /\ r.pc \notin Asking /\ c \in killed' /\ r \in CallType
                  => Killed' = Killed \cup {c}
           /\ c \notin killed' => Killed' = Killed
           /\ r.pc \notin Asking /\ call[c].pc \notin Asking
              /\ r \in CallType /\ killed' = killed => Killed' = Killed
<1> DEFINE done == {"idle", "unlock", "decided"}
<1>1. /\ call'[c] = r
      /\ \A d \in Caller : d # c => call'[d] = call[d]
  BY DEF CallOK
<1>2. \A d : d # c => (d \in killed' <=> d \in killed)
  OBVIOUS
<1>3. \A d : d # c => (d \in Killed' <=> d \in Killed)
  BY <1>1, <1>2 DEF Killed
<1>4. c \in Killed' <=> c \in killed' /\ r.pc \in done
  BY <1>1 DEF Killed
<1>5. c \in Killed <=> c \in killed /\ call[c].pc \in done
  BY DEF Killed
<1>6. \A s \in CallType : s.pc \in done <=> s.pc \notin Asking
  BY DEF CallType, Asking
<1>7. call[c] \in CallType
  BY DEF CallOK
<1>8. \A s : s.pc \in Asking => s.pc \notin done
  BY DEF Asking
<1> HIDE DEF done
<1>9. r.pc \in Asking /\ call[c].pc \in Asking => Killed' = Killed
  BY <1>3, <1>4, <1>5, <1>8 DEF Killed
<1>10. r.pc \notin Asking /\ c \in killed' /\ r \in CallType
           => Killed' = Killed \cup {c}
  BY <1>3, <1>4, <1>6
<1>11. c \notin killed' => Killed' = Killed
  BY <1>3, <1>4, <1>5
<1>12. r.pc \notin Asking /\ call[c].pc \notin Asking
           /\ r \in CallType /\ killed' = killed => Killed' = Killed
  BY <1>3, <1>4, <1>5, <1>6, <1>7
<1>13. QED
  BY <1>9, <1>10, <1>11, <1>12

\* A step of a thread whose decision is not taken yet, and is not taken here.
LEMMA AskedStays ==
    ASSUME CallOK, NEW c \in Caller, NEW r, call' = [call EXCEPT ![c] = r],
           killed \subseteq Caller, killed' \in {killed, killed \cup {c}},
           call[c].pc \in Asking, r.pc \in Asking,
           r.op = call[c].op, r.path = call[c].path,
           UNCHANGED <<file, loaded>>
    PROVE  UNCHANGED Rules!vars
<1>1. Request' = Request
  BY RequestStays, RequestAsked
<1>2. Killed' = Killed
  BY KilledMoves
<1>3. QED
  BY <1>1, <1>2 DEF Rules!vars

LEMMA RefineInit == Init => Rules!Init
<1> SUFFICES ASSUME Init PROVE Rules!Init
  OBVIOUS
<1>1. \A c \in Caller : RequestOf(call[c]) = Rules!Idle(NULL)
  BY RequestIdle DEF Init, Idle, Rules!Idle
<1>2. Request = [c \in Caller |-> Rules!Idle(NULL)]
  BY <1>1 DEF Request
<1>3. Killed = {}
  BY DEF Init, Killed
<1>4. QED
  BY <1>2, <1>3 DEF Init, Rules!Init

LEMMA RefineCall ==
    ASSUME RuleInv, NEW c \in Caller, NEW op \in Op, NEW path \in Path,
           Call(c, op, path)
    PROVE  Rules!Ask(c, op, path)
<1> DEFINE pc == IF op \in Hooked THEN "lock" ELSE "decided"
           r == [pc |-> pc, op |-> op, path |-> path, at |-> 1, rc |-> "pass",
                 slow |-> FALSE]
           q == IF op \in Hooked
                THEN [phase |-> "asked", op |-> op, path |-> path]
                ELSE [phase |-> "ruled", op |-> op, rule |-> "pass",
                      slow |-> FALSE]
<1>1. CallOK /\ killed \subseteq Caller
  BY DEF RuleInv, WalkInv
<1>2. call' = [call EXCEPT ![c] = r] /\ UNCHANGED <<file, killed, loaded>>
      /\ c \notin killed
  BY DEF Call
<1>3. RequestOf(r) = q
  BY DEF RequestOf
<1>4. Request[c].phase = "idle"
  <2>1. call[c].pc = "idle"
    BY DEF Call
  <2>2. QED
    BY <2>1, RequestIdle DEF Request
<1> HIDE DEF r, q
<1>5. Request' = [Request EXCEPT ![c] = q]
  BY <1>1, <1>2, <1>3, RequestMoves
<1>6. Killed' = Killed
  BY <1>1, <1>2, KilledMoves
<1>7. c \notin Killed
  BY <1>2 DEF Killed
<1>8. QED
  BY <1>2, <1>4, <1>5, <1>6, <1>7 DEF Rules!Ask, q

(***************************************************************************)
(* A walk that is over is the decision of Injector.                        *)
(***************************************************************************)
LEMMA DecisionTaken ==
    ASSUME RuleInv, NEW c \in Caller, NEW r \in CallType, NEW fired,
           call' = [call EXCEPT ![c] = r],
           UNCHANGED <<file, killed, loaded>>,
           call[c].pc \in Asking, r.pc \in {"unlock", "decided"},
           r.op = call[c].op, r.rc = call[c].rc, r.slow = call[c].slow,
           call[c].path # ConfPath, Fired(c, fired),
           DOMAIN Says[loaded] \subseteq Before(c)
    PROVE  Rules!Decide(c)
<1>1. CallOK /\ killed \subseteq Caller
  BY DEF RuleInv, WalkInv
<1>2. Request[c] = [phase |-> "asked", op |-> call[c].op, path |-> call[c].path]
  BY RequestAsked DEF Request
<1>3. RequestOf(r) = [phase |-> "ruled", op |-> Request[c].op,
                      rule |-> call[c].rc, slow |-> call[c].slow]
  BY <1>2, RequestRuled
<1>4. Request' = [Request EXCEPT ![c] = RequestOf(r)]
  BY <1>1, RequestMoves
<1>5. Rules!Ruled(c, call[c].rc, call[c].slow)
  BY <1>3, <1>4 DEF Rules!Ruled
<1>6. Killed' = IF "kill_caller" \in fired THEN Killed \cup {c} ELSE Killed
  <2>1. r.pc \notin Asking
    BY DEF Asking
  <2>2. c \in killed <=> "kill_caller" \in fired
    BY DEF Fired
  <2>3. QED
    BY <1>1, <2>1, <2>2, KilledMoves
<1>7. Concern(c) \subseteq DOMAIN Says[loaded]
  BY DEF Concern, Rules!Concerned
<1>8. /\ fired \in SUBSET Rules!Concerned(Says[loaded], Request[c].op, Request[c].path)
      /\ Rules!Certain(Says[loaded])
            \cap Rules!Concerned(Says[loaded], Request[c].op, Request[c].path)
            \subseteq fired
  BY <1>2, <1>7 DEF Fired, Concern
<1>9. fired \in SUBSET Rules!Possible(Says[loaded], Request[c].op, Request[c].path)
  BY <1>8 DEF Rules!Possible
<1>10. /\ call[c].rc \in Rules!Verdicts(Says[loaded], fired, Request[c].op)
      /\ call[c].slow = Rules!Slow(Says[loaded], fired)
  BY <1>2 DEF Fired
<1>11. Request[c].phase = "asked" /\ Request[c].path # ConfPath
  BY <1>2
<1>12. QED
  BY <1>5, <1>6, <1>8, <1>9, <1>10, <1>11 DEF Rules!Decide

LEMMA RefineLock ==
    ASSUME RuleInv, NEW c \in Caller, Lock(c)
    PROVE  Rules!Decide(c) \/ UNCHANGED Rules!vars
<1> DEFINE pc == CASE call[c].path = ConfPath -> "delete"
                   [] call[c].path # ConfPath /\ errors = NULL -> "unlock"
                   [] OTHER -> "inject"
           r == [call[c] EXCEPT !.pc = pc]
<1>1. /\ pc \in {"delete", "unlock", "inject"}
      /\ pc = "unlock" => errors = NULL /\ call[c].path # ConfPath
  OBVIOUS
<1>2. call[c] \in Busy /\ CallOK /\ killed \subseteq Caller
  BY BusyCall DEF Lock, RuleInv, WalkInv
<1>3. call' = [call EXCEPT ![c] = r] /\ UNCHANGED <<file, killed, loaded>>
  BY <1>2 DEF Lock, CallOK
<1>4. r \in Busy
  <2> HIDE DEF pc
  <2>1. QED
    BY <1>1, <1>2, SMT DEF Busy
<1> HIDE DEF pc
<1>5. /\ r.pc = pc /\ r.rc = call[c].rc
      /\ r.op = call[c].op /\ r.path = call[c].path
  BY <1>2 DEF Busy
<1>6. r.slow = call[c].slow
  BY <1>2 DEF Busy
<1> HIDE DEF r
<1>7. call[c].pc \in Asking /\ Untouched(c)
  BY DEF Lock, Asking, RuleInv, RuleOf
<1>8. CASE pc # "unlock"
  <2>1. r.pc \in Asking
    BY <1>1, <1>5, <1>8 DEF Asking
  <2>2. QED
    BY <1>2, <1>3, <1>5, <1>7, <2>1, AskedStays
<1>9. CASE pc = "unlock"
  <2>1. loaded = Unreadable
    BY <1>1, <1>9, QueueAssumption, ParserIsRight
    DEF RuleInv, Loads, ParserRight, Queue
  <2>2. DOMAIN Says[loaded] = {}
    BY <2>1, NothingSaid DEF Says, RuleInv
  <2>3. Concern(c) = {}
    BY <2>2 DEF Concern, Rules!Concerned
  <2>4. Rules!Slow(Says[loaded], {}) = FALSE
    BY DEF Rules!Slow
  <2>5. Fired(c, {})
    BY <1>7, <2>3, <2>4, VerdictsNone DEF Fired, Untouched
  <2>6. r \in CallType
    BY <1>4 DEF Busy, CallType
  <2>7. QED
    BY <1>1, <1>3, <1>5, <1>6, <1>7, <1>9, <2>2, <2>5, <2>6, DecisionTaken
<1>10. QED
  BY <1>8, <1>9

LEMMA RefineReload ==
    ASSUME RuleInv, NEW c \in Caller, ConfigInit(c)
    PROVE  Rules!Load(c)
<1> DEFINE r == [call[c] EXCEPT !.pc = "unlock"]
<1>1. call[c] \in Busy /\ CallOK /\ killed \subseteq Caller
  BY BusyCall DEF ConfigInit, RuleInv, WalkInv
<1>2. call' = [call EXCEPT ![c] = r] /\ loaded' = file
      /\ UNCHANGED <<file, killed>>
  BY <1>1 DEF ConfigInit, CallOK
<1>3. /\ r.pc = "unlock" /\ r.rc = call[c].rc /\ r.op = call[c].op
  BY <1>1 DEF Busy
<1>4. r.slow = call[c].slow
  BY <1>1 DEF Busy
<1> HIDE DEF r
<1>5. /\ call[c].rc = "pass" /\ call[c].slow = FALSE /\ c \notin killed
      /\ call[c].path = ConfPath /\ call[c].pc \in Asking
  BY DEF ConfigInit, RuleInv, RuleOf, Untouched, Asking
<1>6. Request[c] = [phase |-> "asked", op |-> call[c].op, path |-> call[c].path]
  BY <1>5, RequestAsked DEF Request
<1>7. RequestOf(r) = [phase |-> "ruled", op |-> Request[c].op,
                      rule |-> "pass", slow |-> FALSE]
  BY <1>3, <1>4, <1>5, <1>6, RequestRuled
<1>8. Request' = [Request EXCEPT ![c] = RequestOf(r)]
  BY <1>1, <1>2, RequestMoves
<1>9. Rules!Ruled(c, "pass", FALSE)
  BY <1>7, <1>8 DEF Rules!Ruled
<1>10. Killed' = Killed
  BY <1>1, <1>2, <1>5, KilledMoves
<1>11. Request[c].phase = "asked" /\ Request[c].path = ConfPath
  BY <1>5, <1>6
<1>12. QED
  BY <1>2, <1>9, <1>10, <1>11 DEF Rules!Load

LEMMA RefineUnlock ==
    ASSUME RuleInv, NEW c \in Caller, Unlock(c)
    PROVE  Rules!Decide(c) \/ UNCHANGED Rules!vars
<1> DEFINE r == [call[c] EXCEPT !.pc = "decided"]
<1>1. call[c] \in Busy /\ CallOK /\ killed \subseteq Caller
  BY BusyCall DEF Unlock, RuleInv, WalkInv
<1>2. call' = [call EXCEPT ![c] = r] /\ UNCHANGED <<file, killed, loaded>>
  BY <1>1 DEF Unlock, CallOK
<1>3. r \in Busy
  BY <1>1, SMT DEF Busy
<1>4. /\ r.pc = "decided" /\ r.rc = call[c].rc /\ r.op = call[c].op
  BY <1>1 DEF Busy
<1>5. r.slow = call[c].slow
  BY <1>1 DEF Busy
<1> HIDE DEF r
<1>6. r \in CallType
  BY <1>3 DEF Busy, CallType
<1>7. CASE call[c].pc = "unlock"
  <2>1. RequestOf(r) = RequestOf(call[c])
    BY <1>4, <1>5, <1>7, RequestRuled
  <2>2. Request' = Request
    BY <1>1, <1>2, <2>1, RequestStays
  <2>3. r.pc \notin Asking /\ call[c].pc \notin Asking
    BY <1>4, <1>7 DEF Asking
  <2>4. Killed' = Killed
    BY <1>1, <1>2, <1>6, <2>3, KilledMoves
  <2>5. QED
    BY <1>2, <2>2, <2>4 DEF Rules!vars
<1>8. CASE /\ call[c].pc = "inject" /\ errors \notin {NULL, Freed}
           /\ call[c].at > Len(errors)
  <2>1. /\ call[c].path # ConfPath /\ call[c].at <= Len(errors) + 1
        /\ \E fired \in SUBSET InjType : Fired(c, fired)
    BY <1>8 DEF RuleInv, RuleOf
  <2>2. PICK fired \in SUBSET InjType : Fired(c, fired)
    BY <2>1
  <2>3. errors \in Queue /\ QueueSays(errors, Says[loaded])
    BY <1>8, QueueInForceFacts
  <2>4. DOMAIN errors = 1 .. Len(errors) /\ Len(errors) \in Nat
    BY <2>3 DEF Queue
  <2>5. call[c].at - 1 = Len(errors)
    BY <1>1, <1>8, <2>1, <2>4 DEF Busy
  <2>6. Before(c) = DOMAIN Says[loaded]
    BY <2>3, <2>4, <2>5 DEF Before, QueueSays
  <2>7. call[c].pc \in Asking
    BY <1>8 DEF Asking
  <2>8. QED
    BY <1>2, <1>4, <1>5, <1>6, <2>1, <2>2, <2>6, <2>7, DecisionTaken
<1>9. QED
  BY <1>7, <1>8 DEF Unlock

(***************************************************************************)
(* The turns of the walk, and the freeing of the queue, are not seen.      *)
(***************************************************************************)
LEMMA RefineTurn ==
    ASSUME RuleInv, NEW c \in Caller, NEW rc, InLoop(c), Advance(c, rc),
           killed' \in {killed, killed \cup {c}}, UNCHANGED <<file, loaded>>
    PROVE  UNCHANGED Rules!vars
<1> DEFINE r == [call[c] EXCEPT !.pc = "inject", !.at = @ + 1, !.rc = rc]
<1>1. call[c] \in Busy /\ CallOK /\ killed \subseteq Caller
  BY BusyCall DEF InLoop, RuleInv, WalkInv
<1>2. call' = [call EXCEPT ![c] = r]
  BY <1>1 DEF Advance, CallOK
<1>3. r.pc = "inject" /\ r.op = call[c].op /\ r.path = call[c].path
  BY <1>1 DEF Busy
<1> HIDE DEF r
<1>4. call[c].pc \in Asking /\ r.pc \in Asking
  BY <1>3 DEF InLoop, Asking
<1>5. QED
  BY <1>1, <1>2, <1>3, <1>4, AskedStays

LEMMA RefineWake ==
    ASSUME RuleInv, NEW c \in Caller, Wake(c) PROVE UNCHANGED Rules!vars
<1> DEFINE r == [call[c] EXCEPT !.pc = "inject", !.at = @ + 1, !.slow = TRUE]
<1>1. call[c] \in Busy /\ CallOK /\ killed \subseteq Caller
  BY BusyCall DEF Wake, RuleInv, WalkInv
<1>2. call' = [call EXCEPT ![c] = r] /\ UNCHANGED <<file, killed, loaded>>
  BY <1>1 DEF Wake, CallOK
<1>3. r.pc = "inject" /\ r.op = call[c].op /\ r.path = call[c].path
  BY <1>1 DEF Busy
<1> HIDE DEF r
<1>4. call[c].pc \in Asking /\ r.pc \in Asking
  BY <1>3 DEF Wake, Asking
<1>5. QED
  BY <1>1, <1>2, <1>3, <1>4, AskedStays

LEMMA RefineMove ==
    ASSUME RuleInv, NEW c \in Caller, NEW pc \in Asking,
           call[c].pc \in Asking, call' = [call EXCEPT ![c].pc = pc],
           UNCHANGED <<file, killed, loaded>>
    PROVE  UNCHANGED Rules!vars
<1> DEFINE r == [call[c] EXCEPT !.pc = pc]
<1>1. call[c] \in Busy /\ CallOK /\ killed \subseteq Caller
  BY BusyCall DEF Asking, RuleInv, WalkInv
<1>2. call' = [call EXCEPT ![c] = r]
  BY <1>1 DEF CallOK
<1>3. r.pc = pc /\ r.op = call[c].op /\ r.path = call[c].path
  BY <1>1 DEF Busy
<1> HIDE DEF r
<1>4. QED
  BY <1>1, <1>2, <1>3, AskedStays

(***************************************************************************)
(* The answers.                                                            *)
(***************************************************************************)
LEMMA RefineReturn ==
    ASSUME RuleInv, NEW c \in Caller, NEW result \in Result, NEW done \in BOOLEAN,
           call[c].pc = "decided", Return(c, result, done)
    PROVE  /\ Request[c].phase = "ruled" /\ Request[c].rule = call[c].rc
           /\ Request[c].op = call[c].op
           /\ Request' = [Request EXCEPT ![c] =
                              Rules!Idle(Rules!Answer(result, done))]
           /\ UNCHANGED <<file, loaded, Killed>>
<1> DEFINE r == Idle(Answer(result, done))
<1>1. CallOK /\ killed \subseteq Caller
  BY DEF RuleInv, WalkInv
<1>2. call' = [call EXCEPT ![c] = r] /\ UNCHANGED <<file, killed, loaded>>
  BY DEF Return
<1>3. r \in CallType /\ r.pc = "idle"
  BY IdleType
<1>4. r.answer = Rules!Answer(result, done)
  BY DEF Idle, Answer, Rules!Answer
<1> HIDE DEF r
<1>5. RequestOf(r) = Rules!Idle(Rules!Answer(result, done))
  BY <1>3, <1>4, RequestIdle DEF Rules!Idle
<1>6. Request' = [Request EXCEPT ![c] = RequestOf(r)]
  BY <1>1, <1>2, RequestMoves
<1>7. r.pc \notin Asking /\ call[c].pc \notin Asking
  BY <1>3 DEF Asking
<1>8. Killed' = Killed
  BY <1>1, <1>2, <1>3, <1>7, KilledMoves
<1>9. Request[c] = [phase |-> "ruled", op |-> call[c].op,
                    rule |-> call[c].rc, slow |-> call[c].slow]
  BY RequestRuled DEF Request
<1>10. /\ Request[c].phase = "ruled" /\ Request[c].rule = call[c].rc
       /\ Request[c].op = call[c].op
  BY <1>9
<1>11. QED
  BY <1>2, <1>5, <1>6, <1>8, <1>10

Answered(c) ==
    CASE Request[c].rule = "pass" -> Rules!Answer("system", TRUE)
      [] Request[c].rule = "noop" -> Rules!Answer("success", FALSE)
      [] OTHER                    -> Rules!Answer(Request[c].rule, FALSE)

LEMMA RefineReply ==
    ASSUME RuleInv, NEW c \in Caller,
           ReturnNoop(c) \/ ReturnErrno(c) \/ SystemCall(c)
    PROVE  Rules!Reply(c)
<1>1. CASE ReturnNoop(c)
  <2>1. call[c].pc = "decided" /\ call[c].rc = "noop"
        /\ Return(c, "success", FALSE) /\ "success" \in Result
    BY <1>1 DEF ReturnNoop, Decided, Result
  <2>2. /\ Request[c].phase = "ruled" /\ Request[c].rule = call[c].rc
        /\ Request' = [Request EXCEPT ![c] =
                           Rules!Idle(Rules!Answer("success", FALSE))]
        /\ UNCHANGED <<file, loaded, Killed>>
    BY <2>1, RefineReturn
  <2>3. Answered(c) = Rules!Answer("success", FALSE)
    BY <2>1, <2>2 DEF Answered
  <2>4. QED
    BY <2>2, <2>3 DEF Rules!Reply, Answered
<1>2. CASE ReturnErrno(c)
  <2>1. call[c].pc = "decided" /\ call[c].rc \in Errno \ {"pass", "noop"}
        /\ Return(c, call[c].rc, FALSE) /\ call[c].rc \in Result
    BY <1>2, ErrnoAssumption DEF ReturnErrno, Decided, Result
  <2>2. /\ Request[c].phase = "ruled" /\ Request[c].rule = call[c].rc
        /\ Request' = [Request EXCEPT ![c] =
                           Rules!Idle(Rules!Answer(call[c].rc, FALSE))]
        /\ UNCHANGED <<file, loaded, Killed>>
    BY <2>1, RefineReturn
  <2>3. Answered(c) = Rules!Answer(call[c].rc, FALSE)
    BY <2>1, <2>2 DEF Answered
  <2>4. QED
    BY <2>2, <2>3 DEF Rules!Reply, Answered
<1>3. CASE SystemCall(c)
  <2>1. call[c].pc = "decided" /\ call[c].rc = "pass"
        /\ Return(c, "system", TRUE) /\ "system" \in Result
    BY <1>3 DEF SystemCall, Decided, Result
  <2>2. /\ Request[c].phase = "ruled" /\ Request[c].rule = call[c].rc
        /\ Request' = [Request EXCEPT ![c] =
                           Rules!Idle(Rules!Answer("system", TRUE))]
        /\ UNCHANGED <<file, loaded, Killed>>
    BY <2>1, RefineReturn
  <2>3. Answered(c) = Rules!Answer("system", TRUE)
    BY <2>1, <2>2 DEF Answered
  <2>4. QED
    BY <2>2, <2>3 DEF Rules!Reply, Answered
<1>4. QED
  BY <1>1, <1>2, <1>3

LEMMA RefineRefusal ==
    ASSUME RuleInv, NEW c \in Caller, RefuseFallocate(c)
    PROVE  Rules!RefuseFallocate(c)
<1>1. call[c].pc = "decided" /\ call[c].rc = "pass" /\ call[c].op = "fallocate"
      /\ Return(c, "EOPNOTSUPP", FALSE) /\ "EOPNOTSUPP" \in Result
  BY DEF RefuseFallocate, Decided, Result
<1>2. /\ Request[c].phase = "ruled" /\ Request[c].rule = "pass"
      /\ Request[c].op = "fallocate"
      /\ Request' = [Request EXCEPT ![c] =
                         Rules!Idle(Rules!Answer("EOPNOTSUPP", FALSE))]
      /\ UNCHANGED <<file, loaded, Killed>>
  BY <1>1, RefineReturn
<1>3. QED
  BY <1>2 DEF Rules!RefuseFallocate

(***************************************************************************)
(* One step per action of Next.                                            *)
(***************************************************************************)
LEMMA RefineStep ==
    RuleInv /\ [Next]_vars => [Rules!Next]_(Rules!vars)
<1> SUFFICES ASSUME RuleInv, [Next]_vars
             PROVE  Rules!Next \/ UNCHANGED Rules!vars
  OBVIOUS
<1>1. CASE EditFile
  <2>1. UNCHANGED <<Request, Killed>>
    BY <1>1 DEF EditFile, Request, Killed
  <2>2. Rules!Edit
    BY <1>1, <2>1 DEF EditFile, Rules!Edit
  <2>3. QED
    BY <2>2 DEF Rules!Next
<1>2. CASE UNCHANGED vars
  BY <1>2 DEF vars, Rules!vars, Request, Killed
<1>3. ASSUME NEW c \in Caller, NEW op \in Op, NEW path \in Path,
             Call(c, op, path)
      PROVE  Rules!Next
  BY <1>3, RefineCall DEF Rules!Next
<1>4. ASSUME NEW c \in Caller, Lock(c)
      PROVE  Rules!Next \/ UNCHANGED Rules!vars
  BY <1>4, RefineLock DEF Rules!Next
<1>5. ASSUME NEW c \in Caller, Proceed(c)
      PROVE  Rules!Next \/ UNCHANGED Rules!vars
  <2>1. CASE ConfigDelete(c)
    <3>1. "init" \in Asking /\ call[c].pc \in Asking
      BY <2>1 DEF ConfigDelete, Asking
    <3>2. QED
      BY <2>1, <3>1, RefineMove DEF ConfigDelete
  <2>2. CASE ConfigInit(c)
    BY <2>2, RefineReload DEF Rules!Next
  <2>3. CASE NotTriggered(c)
    BY <2>3, RefineTurn DEF NotTriggered
  <2>4. CASE InjectNoop(c)
    BY <2>4, RefineTurn DEF InjectNoop, Triggered
  <2>5. CASE InjectErrno(c)
    BY <2>5, RefineTurn DEF InjectErrno, Triggered
  <2>6. CASE KillCaller(c)
    BY <2>6, RefineTurn DEF KillCaller, Triggered
  <2>7. CASE Slowdown(c)
    <3>1. InLoop(c) /\ UNCHANGED <<file, killed, loaded>>
      BY <2>7 DEF Slowdown, Triggered
    <3>2. CASE Advance(c, call[c].rc)
      BY <3>1, <3>2, RefineTurn
    <3>3. CASE call' = [call EXCEPT ![c].pc = "sleep"]
      <4>1. "sleep" \in Asking /\ call[c].pc \in Asking
        BY <3>1 DEF InLoop, Asking
      <4>2. QED
        BY <3>1, <3>3, <4>1, RefineMove
    <3>4. QED
      BY <2>7, <3>2, <3>3 DEF Slowdown
  <2>8. CASE Wake(c)
    BY <2>8, RefineWake
  <2>9. CASE Unlock(c)
    BY <2>9, RefineUnlock DEF Rules!Next
  <2>10. CASE ReturnNoop(c) \/ ReturnErrno(c) \/ SystemCall(c)
    BY <2>10, RefineReply DEF Rules!Next
  <2>11. CASE RefuseFallocate(c)
    BY <2>11, RefineRefusal DEF Rules!Next
  <2>12. QED
    BY <1>5, <2>1, <2>2, <2>3, <2>4, <2>5, <2>6, <2>7, <2>8, <2>9, <2>10,
       <2>11 DEF Proceed
<1>6. QED
  BY <1>1, <1>2, <1>3, <1>4, <1>5 DEF Next

(***************************************************************************)
(* error_inject() implements the rules of the manual: however its walk     *)
(* interleaves with other operations, edits and reloads of the file, what  *)
(* comes out of it is the decision by one configuration, and the operation *)
(* does what was decided (unreliablefs_errinj.c:162-240,                   *)
(* unreliablefs_ops.c).                                                    *)
(***************************************************************************)
THEOREM InjectionFollowsRules == Spec => ImplementsInjector
<1>1. Init => RuleInv
  BY RuleInit
<1>2. RuleInv /\ [Next]_vars => RuleInv'
  BY RuleStep
<1>3. Init => Rules!Init
  BY RefineInit
<1>4. RuleInv /\ [Next]_vars => [Rules!Next]_(Rules!vars)
  BY RefineStep
<1>5. QED
  BY <1>1, <1>2, <1>3, <1>4, PTL DEF Spec, ImplementsInjector, Rules!Spec

(***************************************************************************)
(* Where the departures do not show, the manual is kept: if no file that   *)
(* is loaded configures a probability of 0 and nothing is read behind the  *)
(* tables of errnos, every operation is decided by the rules of Manual.    *)
(* What Rules concedes besides them comes from these two points and from   *)
(* no third (unreliablefs_errinj.c:185-186 and 26).                        *)
(***************************************************************************)
THEOREM ManualIsKept ==
    ASSUME PastEnd = {},
           \A f \in File : \A t \in DOMAIN Says[f] : Says[f][t].probability # 0
    PROVE  Spec => ImplementsManual
<1>1. Init => RuleInv
  BY RuleInit
<1>2. RuleInv /\ [Next]_vars => RuleInv'
  BY RuleStep
<1>3. Init => Manual!Init
  BY RefineInit DEF Rules!Init, Manual!Init, Rules!Idle, Manual!Idle
<1>4. ASSUME RuleInv, NEW c \in Caller, Rules!Decide(c) PROVE Manual!Decide(c)
  <2>1. loaded \in File
    BY <1>4 DEF RuleInv
  <2> DEFINE conf == Says[loaded]
             r == Request[c]
  <2>2. \A t \in DOMAIN conf : conf[t].probability # 0
    BY <2>1
  <2> HIDE DEF conf, r
  <2>3. /\ Manual!Concerned(conf, r.op, r.path) = Rules!Concerned(conf, r.op, r.path)
        /\ Rules!Concerned(conf, r.op, r.path) \subseteq DOMAIN conf
    BY DEF Rules!Concerned, Manual!Concerned, Rules!Matched, Manual!Matched
  <2>4. Manual!Possible(conf, r.op, r.path) = Rules!Concerned(conf, r.op, r.path)
    <3>1. \A t \in Rules!Concerned(conf, r.op, r.path) : conf[t].probability # 0
      BY <2>2, <2>3
    <3>2. QED
      BY <2>3, <3>1 DEF Manual!Possible
  <2>5. Rules!Possible(conf, r.op, r.path) = Rules!Concerned(conf, r.op, r.path)
    BY DEF Rules!Possible
  <2>6. Manual!Certain(conf) = Rules!Certain(conf)
    BY DEF Manual!Certain, Rules!Certain
  <2>7. \A fired : /\ Manual!Slow(conf, fired) = Rules!Slow(conf, fired)
                   /\ Manual!Verdicts(conf, fired, r.op)
                        = Rules!Verdicts(conf, fired, r.op)
    BY DEF Manual!Slow, Rules!Slow, Manual!Verdicts, Rules!Verdicts
  <2>8. \A rule, slow : Manual!Ruled(c, rule, slow) <=> Rules!Ruled(c, rule, slow)
    BY DEF Manual!Ruled, Rules!Ruled
  <2>9. PICK fired \in SUBSET Rules!Possible(conf, r.op, r.path) :
            /\ Rules!Certain(conf) \cap Rules!Concerned(conf, r.op, r.path)
                    \subseteq fired
            /\ \E rule \in Rules!Verdicts(conf, fired, r.op) :
                    Rules!Ruled(c, rule, Rules!Slow(conf, fired))
            /\ Killed' = IF "kill_caller" \in fired THEN Killed \cup {c} ELSE Killed
    BY <1>4 DEF Rules!Decide, conf, r
  <2>10. /\ r.phase = "asked" /\ r.path # ConfPath
         /\ UNCHANGED <<file, loaded>>
    BY <1>4 DEF Rules!Decide, r
  <2>11. /\ fired \in SUBSET Manual!Possible(conf, r.op, r.path)
         /\ Manual!Certain(conf) \cap Manual!Concerned(conf, r.op, r.path)
                \subseteq fired
         /\ \E rule \in Manual!Verdicts(conf, fired, r.op) :
                Manual!Ruled(c, rule, Manual!Slow(conf, fired))
    BY <2>3, <2>4, <2>5, <2>6, <2>7, <2>8, <2>9
  <2>12. QED
    BY <2>9, <2>10, <2>11 DEF Manual!Decide, conf, r
<1>5. RuleInv /\ [Rules!Next]_(Rules!vars) => [Manual!Next]_(Manual!vars)
  <2> SUFFICES ASSUME RuleInv, [Rules!Next]_(Rules!vars)
               PROVE  [Manual!Next]_(Manual!vars)
    OBVIOUS
  <2>1. CASE Rules!Edit
    BY <2>1 DEF Rules!Edit, Manual!Edit, Manual!Next
  <2>2. ASSUME NEW c \in Caller, NEW op \in Op, NEW path \in Path,
               Rules!Ask(c, op, path)
        PROVE  Manual!Next
    BY <2>2 DEF Rules!Ask, Manual!Ask, Manual!Next
  <2>3. ASSUME NEW c \in Caller, Rules!Load(c) PROVE Manual!Next
    BY <2>3 DEF Rules!Load, Manual!Load, Rules!Ruled, Manual!Ruled, Manual!Next
  <2>4. ASSUME NEW c \in Caller, Rules!Decide(c) PROVE Manual!Next
    BY <1>4, <2>4 DEF Manual!Next
  <2>5. ASSUME NEW c \in Caller, Rules!Reply(c) PROVE Manual!Next
    BY <2>5 DEF Rules!Reply, Manual!Reply, Rules!Idle, Manual!Idle,
       Rules!Answer, Manual!Answer, Manual!Next
  <2>6. ASSUME NEW c \in Caller, Rules!RefuseFallocate(c) PROVE Manual!Next
    BY <2>6 DEF Rules!RefuseFallocate, Manual!RefuseFallocate, Rules!Idle,
       Manual!Idle, Rules!Answer, Manual!Answer, Manual!Next
  <2>7. CASE UNCHANGED Rules!vars
    BY <2>7 DEF Rules!vars, Manual!vars
  <2>8. QED
    BY <2>1, <2>2, <2>3, <2>4, <2>5, <2>6, <2>7 DEF Rules!Next
<1>6. RuleInv /\ [Next]_vars => [Manual!Next]_(Manual!vars)
  BY <1>5, RefineStep
<1>7. QED
  BY <1>1, <1>2, <1>3, <1>6, PTL DEF Spec, ImplementsManual, Manual!Spec

(***************************************************************************)
(* Between reloads the queue is the reading of the file it was loaded      *)
(* from: nothing changes an entry, and a reload puts a whole queue in the  *)
(* place of the one it frees (unreliablefs_errinj.c:98-160, 181-184).      *)
(***************************************************************************)
THEOREM QueueStaysInForce == Spec => []QueueInForce
<1>1. Init => RuleInv
  BY RuleInit
<1>2. RuleInv /\ [Next]_vars => RuleInv'
  BY RuleStep
<1>3. RuleInv => QueueInForce
  <2> SUFFICES ASSUME RuleInv, errors # Freed PROVE QueueInForce
    BY DEF QueueInForce
  <2>1. errors = ConfigInitOf[loaded] /\ loaded \in File
    BY DEF RuleInv, Loads
  <2>2. loaded = Unreadable => errors = NULL
    BY <2>1, ParserIsRight DEF ParserRight
  <2>3. loaded # Unreadable
            => errors # NULL /\ QueueSays(errors, Says[loaded])
    BY <2>1, ParserIsRight DEF ParserRight
  <2>4. QED
    BY <2>2, <2>3 DEF QueueInForce
<1>4. QED
  BY <1>1, <1>2, <1>3, PTL DEF Spec

MutexOK == mutex \in Caller \cup {Nobody}

(***************************************************************************)
(* Type correctness: the answers, the verdicts and the numbers in force    *)
(* are what the operations can return and an unsigned int can hold.        *)
(***************************************************************************)
THEOREM InjectorTypes == Spec => []TypeOK
<1>1. Init => RuleInv /\ MutexOK
  BY RuleInit DEF Init, MutexOK
<1>2. RuleInv /\ MutexOK /\ [Next]_vars => RuleInv' /\ MutexOK'
  <2> SUFFICES ASSUME RuleInv, MutexOK, [Next]_vars
               PROVE  RuleInv' /\ MutexOK'
    OBVIOUS
  <2>1. RuleInv'
    BY RuleStep
  <2>2. MutexOK'
    BY DEF MutexOK, Next, vars, Proceed, EditFile, Call, Lock, ConfigDelete,
           ConfigInit, NotTriggered, InjectNoop, InjectErrno, KillCaller, Slowdown,
           Wake, Unlock, ReturnNoop, ReturnErrno, SystemCall, RefuseFallocate, Return
  <2>3. QED
    BY <2>1, <2>2
<1>3. RuleInv /\ MutexOK => TypeOK
  <2> SUFFICES ASSUME RuleInv, MutexOK PROVE TypeOK
    OBVIOUS
  <2>1. errors \in Queue \cup {NULL, Freed}
    BY ParserIsRight DEF RuleInv, Loads, ParserRight
  <2>2. QED
    BY <2>1 DEF RuleInv, WalkInv, CallOK, MutexOK, TypeOK
<1>4. QED
  BY <1>1, <1>2, <1>3, PTL DEF Spec
-----------------------------------------------------------------------------
(***************************************************************************)
(* How long the mutex is held: the steps that a thread inside              *)
(* error_inject() has before its unlock, at most.  For an entry there are  *)
(* two, if the thread sleeps.                                              *)
(***************************************************************************)
StepsLeft(c) ==
    CASE call[c].pc = "delete" -> 2
      [] call[c].pc = "init"   -> 1
      [] call[c].pc = "inject" -> 2 * (Len(errors) + 1 - call[c].at)
      [] call[c].pc = "sleep"  -> 2 * (Len(errors) + 1 - call[c].at) - 1
      [] OTHER                 -> 0

\* What the thread has to do next, and nobody can keep it from.
Ready(c) ==
    \/ call[c].pc \in {"delete", "init", "sleep", "unlock"}
    \/ InLoop(c) /\ \E p \in rand_range(0, MaxProbability) : ~Applies(c, p)
    \/ \E type \in InjType : Triggered(c, type)
    \/ /\ call[c].pc = "inject"
       /\ errors \notin {NULL, Freed}
       /\ call[c].at > Len(errors)

Held == mutex # Nobody => mutex \in Caller /\ call[mutex].pc \in Inside

HoldInv == RuleInv /\ Held

\* What a step makes of the mutex, and of the way to its unlock.
Nearer(c) ==
    IF Proceed(c) THEN \/ mutex' = Nobody
                       \/ mutex' = c /\ StepsLeft(c)' < StepsLeft(c)
    ELSE mutex' = c /\ StepsLeft(c)' = StepsLeft(c)

LEMMA HolderFacts ==
    ASSUME HoldInv, NEW c \in Caller, mutex = c
    PROVE  /\ call[c] \in Busy /\ call[c].pc \in Inside
           /\ call[c].pc \in {"inject", "sleep"} =>
                /\ errors \notin {NULL, Freed} /\ Len(errors) \in Nat
                /\ call[c].at \in Nat \ {0} /\ call[c].at <= Len(errors) + 1
           /\ call[c].pc = "sleep" => call[c].at <= Len(errors)
           /\ \A d \in Caller : d # c => call[d].pc \notin Inside
<1>1. RuleInv /\ WalkInv /\ CallOK /\ RuleOf(c)
  BY DEF HoldInv, RuleInv, WalkInv
<1>2. call[c].pc \in Inside
  BY NobodyAssumption DEF HoldInv, Held
<1>3. call[c] \in Busy
  BY <1>1, <1>2, BusyCall DEF Inside
<1>4. ASSUME call[c].pc \in {"inject", "sleep"}
      PROVE  /\ errors \notin {NULL, Freed} /\ Len(errors) \in Nat
             /\ call[c].at \in Nat \ {0} /\ call[c].at <= Len(errors) + 1
             /\ call[c].pc = "sleep" => call[c].at <= Len(errors)
  <2>1. errors \notin {NULL, Freed}
    BY <1>1, <1>4 DEF WalkInv, QueueLive
  <2>2. errors \in Queue
    BY <1>1, <2>1, QueueInForceFacts
  <2>3. Len(errors) \in Nat
    BY <2>2 DEF Queue
  <2>4. call[c].at \in Nat \ {0}
    BY <1>3 DEF Busy
  <2>5. QED
    BY <1>1, <1>4, <2>1, <2>3, <2>4 DEF RuleOf
<1>5. \A d \in Caller : d # c => call[d].pc \notin Inside
  BY <1>1 DEF WalkInv, HolderInside, Inside
<1>6. QED
  BY <1>2, <1>3, <1>4, <1>5

\* A turn of the loop, and the return of nanosleep(), go on to the next entry.
LEMMA TurnIsNearer ==
    ASSUME HoldInv, NEW c \in Caller, mutex = c, mutex' = mutex, errors' = errors,
           call[c].pc \in {"inject", "sleep"},
           call'[c].pc = "inject", call'[c].at = call[c].at + 1
    PROVE  mutex' = c /\ StepsLeft(c)' < StepsLeft(c)
<1>1. Len(errors) \in Nat /\ call[c].at \in Nat
  BY HolderFacts
<1>2. StepsLeft(c)' = 2 * (Len(errors) + 1 - (call[c].at + 1))
  BY DEF StepsLeft
<1>3. StepsLeft(c) >= 2 * (Len(errors) + 1 - call[c].at) - 1
  BY <1>1 DEF StepsLeft
<1>4. StepsLeft(c) \in Int
  BY <1>1 DEF StepsLeft
<1>5. QED
  BY <1>1, <1>2, <1>3, <1>4

LEMMA AdvanceFields ==
    ASSUME NEW c \in Caller, CallOK, call[c] \in Busy, NEW rc, Advance(c, rc)
    PROVE  call'[c].pc = "inject" /\ call'[c].at = call[c].at + 1
<1> DEFINE y == [call[c] EXCEPT !.pc = "inject", !.at = @ + 1, !.rc = rc]
<1>1. call'[c] = y
  BY DEF Advance, CallOK
<1>2. y.pc = "inject" /\ y.at = call[c].at + 1
  BY DEF Busy
<1>3. QED
  BY <1>1, <1>2

\* Every step of the thread that holds the mutex.
LEMMA HolderStep ==
    ASSUME HoldInv, NEW c \in Caller, mutex = c, Proceed(c)
    PROVE  mutex' = Nobody \/ (mutex' = c /\ StepsLeft(c)' < StepsLeft(c))
<1>1. call[c] \in Busy /\ call[c].pc \in Inside /\ CallOK
  BY HolderFacts DEF HoldInv, RuleInv, WalkInv
<1>2. CASE ConfigDelete(c)
  <2>1. call[c].pc = "delete" /\ call'[c].pc = "init" /\ mutex' = c
    BY <1>1, <1>2 DEF ConfigDelete, CallOK, Busy
  <2>2. QED
    BY <2>1 DEF StepsLeft
<1>3. CASE ConfigInit(c)
  <2>1. call[c].pc = "init" /\ call'[c].pc = "unlock" /\ mutex' = c
    BY <1>1, <1>3 DEF ConfigInit, CallOK, Busy
  <2>2. QED
    BY <2>1 DEF StepsLeft
<1>4. ASSUME InLoop(c), UNCHANGED <<mutex, errors>>, NEW rc, Advance(c, rc)
      PROVE  mutex' = c /\ StepsLeft(c)' < StepsLeft(c)
  BY <1>1, <1>4, AdvanceFields, TurnIsNearer DEF InLoop
<1>5. CASE NotTriggered(c) \/ InjectNoop(c) \/ InjectErrno(c) \/ KillCaller(c)
  BY <1>4, <1>5 DEF NotTriggered, InjectNoop, InjectErrno, KillCaller, Triggered
<1>6. CASE Slowdown(c)
  <2>1. InLoop(c) /\ mutex' = c /\ UNCHANGED <<mutex, errors>>
    BY <1>6 DEF Slowdown, Triggered
  <2>2. CASE call' = [call EXCEPT ![c].pc = "sleep"]
    <3>1. call'[c].pc = "sleep" /\ call'[c].at = call[c].at
      BY <1>1, <2>2 DEF CallOK, Busy
    <3>2. call[c].pc = "inject" /\ Len(errors) \in Nat /\ call[c].at \in Nat
      BY <2>1, HolderFacts DEF InLoop
    <3>3. QED
      BY <2>1, <3>1, <3>2 DEF StepsLeft
  <2>3. QED
    BY <1>4, <1>6, <2>1, <2>2 DEF Slowdown
<1>7. CASE Wake(c)
  <2> DEFINE y == [call[c] EXCEPT !.pc = "inject", !.at = @ + 1, !.slow = TRUE]
  <2>1. call'[c] = y
    BY <1>1, <1>7 DEF Wake, CallOK
  <2>2. y.pc = "inject" /\ y.at = call[c].at + 1
    BY <1>1 DEF Busy
  <2> HIDE DEF y
  <2>3. QED
    BY <1>7, <2>1, <2>2, TurnIsNearer DEF Wake
<1>8. CASE Unlock(c)
  BY <1>8 DEF Unlock
<1>9. QED
  BY <1>1, <1>2, <1>3, <1>5, <1>6, <1>7, <1>8
  DEF Proceed, ReturnNoop, ReturnErrno, SystemCall, RefuseFallocate, Decided, Inside

\* A step of anybody else: it is outside, and changes neither queue nor mutex.
LEMMA StrangerStep ==
    ASSUME HoldInv, NEW c \in Caller, mutex = c, [Next]_vars, ~Proceed(c)
    PROVE  mutex' = c /\ call'[c] = call[c] /\ StepsLeft(c)' = StepsLeft(c)
<1>1. /\ call[c].pc \in Inside /\ CallOK /\ mutex # Nobody
      /\ \A d \in Caller : d # c => call[d].pc \notin Inside
  BY HolderFacts, NobodyAssumption DEF HoldInv, RuleInv, WalkInv
<1>2. CASE EditFile \/ UNCHANGED vars
  BY <1>2 DEF EditFile, vars, StepsLeft
<1>3. ASSUME NEW d \in Caller, d # c, NEW r, call' = [call EXCEPT ![d] = r],
             UNCHANGED <<errors, mutex>>
      PROVE  mutex' = c /\ call'[c] = call[c] /\ StepsLeft(c)' = StepsLeft(c)
  <2>1. call'[c] = call[c]
    BY <1>1, <1>3 DEF CallOK
  <2>2. QED
    BY <1>3, <2>1 DEF StepsLeft
<1>4. ASSUME NEW d \in Caller, NEW op \in Op, NEW path \in Path, Call(d, op, path)
      PROVE  mutex' = c /\ call'[c] = call[c] /\ StepsLeft(c)' = StepsLeft(c)
  <2>1. d # c
    BY <1>1, <1>4 DEF Call, Inside
  <2>2. \E r : call' = [call EXCEPT ![d] = r]
    BY <1>4 DEF Call
  <2>3. QED
    BY <1>3, <1>4, <2>1, <2>2 DEF Call
<1>5. ASSUME NEW d \in Caller, Lock(d) PROVE FALSE
  BY <1>1, <1>5 DEF Lock
<1>6. ASSUME NEW d \in Caller, Proceed(d)
      PROVE  mutex' = c /\ call'[c] = call[c] /\ StepsLeft(c)' = StepsLeft(c)
  <2>1. d # c /\ call[d].pc \notin Inside
    BY <1>1, <1>6
  <2>2. \/ ReturnNoop(d) \/ ReturnErrno(d) \/ SystemCall(d) \/ RefuseFallocate(d)
    BY <1>6, <2>1 DEF Proceed, Inside, ConfigDelete, ConfigInit, NotTriggered,
       InjectNoop, InjectErrno, KillCaller, Slowdown, Triggered, InLoop, Wake, Unlock
  <2>3. \E r : call' = [call EXCEPT ![d] = r]
    BY <2>2 DEF ReturnNoop, ReturnErrno, SystemCall, RefuseFallocate, Return
  <2>4. QED
    BY <1>3, <2>1, <2>2, <2>3
    DEF ReturnNoop, ReturnErrno, SystemCall, RefuseFallocate, Return
<1>7. QED
  BY <1>2, <1>4, <1>5, <1>6 DEF Next

\* The thread that has locked the mutex stays inside until it unlocks it.
LEMMA HoldStep == HoldInv /\ [Next]_vars => HoldInv'
<1> SUFFICES ASSUME HoldInv, [Next]_vars PROVE HoldInv'
  OBVIOUS
<1>1. RuleInv' /\ RuleInv /\ CallOK
  BY RuleStep DEF HoldInv, RuleInv, WalkInv
<1>2. CASE mutex = Nobody
  <2>1. ASSUME mutex' # Nobody PROVE \E c \in Caller : Lock(c)
    <3>1. \A d \in Caller : call[d].pc \notin Inside
      BY <1>1, <1>2, FreeMutex DEF RuleInv
    <3>2. ~EditFile /\ ~UNCHANGED vars
      BY <1>2, <2>1 DEF EditFile, vars
    <3>3. ASSUME NEW d \in Caller PROVE ~Proceed(d)
      BY <1>2, <2>1, <3>1 DEF Proceed, Inside, ConfigDelete, ConfigInit, NotTriggered,
         InjectNoop, InjectErrno, KillCaller, Slowdown, Triggered, InLoop, Wake, Unlock,
         ReturnNoop, ReturnErrno, SystemCall, RefuseFallocate, Return
    <3>4. ASSUME NEW d \in Caller, NEW op \in Op, NEW path \in Path
          PROVE  ~Call(d, op, path)
      BY <1>2, <2>1 DEF Call
    <3>5. QED
      BY <3>2, <3>3, <3>4 DEF Next
  <2>2. ASSUME NEW c \in Caller, Lock(c)
        PROVE  mutex' = c /\ call'[c].pc \in Inside
    <3>1. call[c] \in Busy
      BY <1>1, <2>2, BusyCall DEF Lock
    <3>2. call'[c].pc \in {"delete", "unlock", "inject"}
      BY <1>1, <2>2, <3>1 DEF Lock, CallOK, Busy
    <3>3. QED
      BY <2>2, <3>2 DEF Lock, Inside
  <2>3. QED
    BY <1>1, <2>1, <2>2 DEF HoldInv, Held
<1>3. CASE mutex # Nobody
  <2>1. PICK c \in Caller : mutex = c /\ call[c].pc \in Inside
    BY <1>3 DEF HoldInv, Held
  <2>2. CASE ~Proceed(c)
    BY <1>1, <2>1, <2>2, StrangerStep DEF HoldInv, Held
  <2>3. CASE Proceed(c) /\ mutex' # Nobody
    <3>1. mutex' = c /\ mutex' = mutex
      BY <2>1, <2>3, HolderStep
    <3>2. call[c] \in Busy /\ ~Unlock(c)
      BY <2>1, <2>3, HolderFacts DEF Unlock
    <3>3. call'[c].pc \in Inside
      <4>1. CASE ConfigDelete(c) \/ ConfigInit(c)
        BY <1>1, <3>2, <4>1 DEF ConfigDelete, ConfigInit, CallOK, Busy, Inside
      <4>2. ASSUME NEW rc, Advance(c, rc) PROVE call'[c].pc \in Inside
        BY <1>1, <3>2, <4>2, AdvanceFields DEF Inside
      <4>3. CASE Slowdown(c)
        BY <1>1, <3>2, <4>2, <4>3 DEF Slowdown, CallOK, Busy, Inside
      <4>4. CASE Wake(c)
        <5> DEFINE y == [call[c] EXCEPT !.pc = "inject", !.at = @ + 1, !.slow = TRUE]
        <5>1. call'[c] = y
          BY <1>1, <4>4 DEF Wake, CallOK
        <5>2. y.pc = "inject"
          BY <3>2 DEF Busy
        <5> HIDE DEF y
        <5>3. QED
          BY <5>1, <5>2 DEF Inside
      <4>5. QED
        BY <2>1, <2>3, <3>2, <4>1, <4>2, <4>3, <4>4
        DEF Proceed, NotTriggered, InjectNoop, InjectErrno, KillCaller, ReturnNoop,
            ReturnErrno, SystemCall, RefuseFallocate, Decided, Inside
    <3>4. QED
      BY <1>1, <3>1, <3>3 DEF HoldInv, Held
  <2>4. QED
    BY <1>1, <2>2, <2>3 DEF HoldInv, Held
<1>4. QED
  BY <1>2, <1>3

LEMMA HolderReady ==
    ASSUME HoldInv, NEW c \in Caller, mutex = c
    PROVE  StepsLeft(c) \in Nat /\ Ready(c)
<1>1. /\ call[c].pc \in Inside
      /\ call[c].pc \in {"inject", "sleep"} =>
            /\ errors \notin {NULL, Freed} /\ Len(errors) \in Nat
            /\ call[c].at \in Nat \ {0} /\ call[c].at <= Len(errors) + 1
      /\ call[c].pc = "sleep" => call[c].at <= Len(errors)
  BY HolderFacts
<1>2. StepsLeft(c) \in Nat
  <2>1. CASE call[c].pc \in {"delete", "init", "unlock"}
    BY <2>1 DEF StepsLeft
  <2>2. CASE call[c].pc = "inject"
    BY <1>1, <2>2 DEF StepsLeft
  <2>3. CASE call[c].pc = "sleep"
    BY <1>1, <2>3 DEF StepsLeft
  <2>4. QED
    BY <1>1, <2>1, <2>2, <2>3 DEF Inside
<1>3. ASSUME InLoop(c) PROVE Ready(c)
  <2>1. 0 \in rand_range(0, MaxProbability)
    BY NumbersAssumption DEF rand_range
  <2>2. call[c].at \in 1 .. Len(errors)
    BY <1>1, <1>3 DEF InLoop
  <2>3. Current(c).type \in InjType
    BY <1>3, <2>2, EntryFacts DEF HoldInv, InLoop, Current
  <2>4. QED
    BY <1>3, <2>1, <2>3 DEF Ready, Triggered
<1>4. Ready(c)
  BY <1>1, <1>3 DEF Ready, InLoop, Inside
<1>5. QED
  BY <1>2, <1>4

(***************************************************************************)
(* The mutex belongs to a thread that is between its lock and its unlock:  *)
(* no way through error_inject() leaves with it.  The thread has a bounded *)
(* number of steps to the unlock, and it waits for nobody in any of them.  *)
(***************************************************************************)
THEOREM HolderIsReady ==
    Spec => [](\A c \in Caller : mutex = c =>
                  call[c].pc \in Inside /\ StepsLeft(c) \in Nat /\ Ready(c))
<1>1. Init => HoldInv
  BY RuleInit DEF Init, HoldInv, Held
<1>2. HoldInv =>
        \A c \in Caller : mutex = c =>
            call[c].pc \in Inside /\ StepsLeft(c) \in Nat /\ Ready(c)
  BY HolderFacts, HolderReady
<1>3. QED
  BY <1>1, <1>2, HoldStep, PTL DEF Spec

(***************************************************************************)
(* Each step of the thread that holds the mutex unlocks it or brings it    *)
(* nearer to that, and nobody else takes it further away: no reload makes  *)
(* the queue longer that it walks, or sends it back to the first entry.    *)
(***************************************************************************)
THEOREM HolderComesOut ==
    Spec => [][\A c \in Caller : mutex = c => Nearer(c)]_vars
<1>1. Init => HoldInv
  BY RuleInit DEF Init, HoldInv, Held
<1>2. HoldInv /\ [Next]_vars => [\A c \in Caller : mutex = c => Nearer(c)]_vars
  BY HolderStep, StrangerStep DEF Nearer
<1>3. QED
  BY <1>1, <1>2, HoldStep, PTL DEF Spec
=============================================================================
