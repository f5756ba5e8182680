---------------------------- MODULE ErrInjProofs ----------------------------
(***************************************************************************)
(* Theorems about ErrInj.  WalkProtected is not inductive: that a thread   *)
(* which locks the mutex finds a queue, and not a freed one, takes that    *)
(* the queue is freed only while another thread is inside.                 *)
(***************************************************************************)
EXTENDS ParserProofs

Busy == [pc : {"lock", "delete", "init", "inject", "sleep", "unlock", "decided"},
         op : Op, path : Path, at : Nat \ {0}, rc : RC, slow : BOOLEAN]

Inside == {"delete", "init", "inject", "sleep", "unlock"}

CallOK == call \in [Caller -> CallType]

FreedInside == errors = Freed => \E c \in Caller : call[c].pc = "init"

WalkInv ==
    /\ file \in File
    /\ CallOK
    /\ HolderInside
    /\ QueueLive
    /\ FreedInside

(***************************************************************************)
(* A call that is not idle has all the fields of one in progress.          *)
(***************************************************************************)
LEMMA BusyCall ==
    ASSUME CallOK, NEW c \in Caller, call[c].pc # "idle"
    PROVE  call[c] \in Busy
BY DEF CallOK, CallType, Busy

LEMMA IdleType ==
    ASSUME NEW result \in Result, NEW done \in BOOLEAN
    PROVE  /\ Idle(Answer(result, done)) \in CallType
           /\ Idle(Answer(result, done)).pc = "idle"
BY SMT DEF Idle, Answer, CallType

(***************************************************************************)
(* A thread outside error_inject() that stays outside: its call, and what  *)
(* it does after it (unreliablefs_ops.c).                                  *)
(***************************************************************************)
LEMMA OutsideStep ==
    ASSUME WalkInv, NEW c \in Caller, NEW r \in CallType,
           call[c].pc \notin Inside, r.pc \notin Inside,
           call' = [call EXCEPT ![c] = r],
           UNCHANGED <<file, errors, mutex>>
    PROVE  WalkInv'
<1>1. CallOK'
  BY DEF WalkInv, CallOK
<1>2. \A d \in Caller : call'[d].pc \in Inside => call[d].pc = call'[d].pc
  BY DEF WalkInv, CallOK
<1>3. HolderInside' /\ QueueLive'
  BY <1>2 DEF WalkInv, HolderInside, QueueLive, Inside
<1>4. FreedInside'
  <2>1. SUFFICES ASSUME NEW d \in Caller, call[d].pc = "init"
                 PROVE  call'[d].pc = "init"
    BY DEF WalkInv, FreedInside
  <2>2. d # c
    BY <2>1 DEF Inside
  <2>3. QED
    BY <2>1, <2>2 DEF WalkInv, CallOK
<1>5. QED
  BY <1>1, <1>3, <1>4 DEF WalkInv

(***************************************************************************)
(* A turn of the loop: the thread goes on walking, or sleeps.              *)
(***************************************************************************)
LEMMA LoopStep ==
    ASSUME WalkInv, NEW c \in Caller, NEW r \in Busy,
           call[c].pc \in {"inject", "sleep"}, r.pc \in {"inject", "sleep"},
           call' = [call EXCEPT ![c] = r],
           UNCHANGED <<file, errors, mutex>>
    PROVE  WalkInv'
<1>1. CallOK'
  BY DEF WalkInv, CallOK, CallType, Busy
<1>2. \A d \in Caller : d # c => call'[d] = call[d]
  BY DEF WalkInv, CallOK
<1>3. call'[c] = r
  BY DEF WalkInv, CallOK
<1>4. mutex = c /\ errors \notin {NULL, Freed}
  BY DEF WalkInv, HolderInside, QueueLive
<1>5. HolderInside' /\ QueueLive' /\ FreedInside'
  BY <1>2, <1>3, <1>4 DEF WalkInv, HolderInside, QueueLive, FreedInside
<1>6. QED
  BY <1>1, <1>5 DEF WalkInv

(***************************************************************************)
(* Nobody but the holder of the mutex is inside, and nobody is when it is  *)
(* free; then the queue has not been freed.                                *)
(***************************************************************************)
LEMMA FreeMutex ==
    ASSUME WalkInv, mutex = Nobody
    PROVE  /\ \A d \in Caller : call[d].pc \notin Inside
           /\ errors # Freed
<1>1. \A d \in Caller : call[d].pc \notin Inside
  BY NobodyAssumption DEF WalkInv, HolderInside, Inside
<1>2. QED
  BY <1>1 DEF WalkInv, FreedInside, Inside

LEMMA WalkInit == Init => WalkInv
<1> SUFFICES ASSUME Init PROVE WalkInv
  OBVIOUS
<1>1. \A c \in Caller : call[c] = Idle(NULL) /\ call[c].pc = "idle"
  BY DEF Init, Idle
<1>2. Idle(NULL) \in CallType
  BY SMT DEF Idle, CallType
<1>3. CallOK
  BY <1>2 DEF Init, CallOK
<1>4. errors # Freed
  BY NothingFreed DEF Init
<1>5. QED
  BY <1>1, <1>3, <1>4
  DEF Init, WalkInv, HolderInside, QueueLive, FreedInside

LEMMA LockStep == ASSUME WalkInv, NEW c \in Caller, Lock(c) PROVE WalkInv'
<1> DEFINE pc == CASE call[c].path = ConfPath -> "delete"
                   [] call[c].path # ConfPath /\ errors = NULL -> "unlock"
                   [] OTHER -> "inject"
           r == [call[c] EXCEPT !.pc = pc]
<1>1. /\ pc \in {"delete", "unlock", "inject"}
      /\ pc = "inject" => errors # NULL
  OBVIOUS
<1>2. r \in Busy /\ r.pc = pc
  <2> HIDE DEF pc
  <2>1. call[c] \in Busy
    BY BusyCall DEF Lock, WalkInv
  <2>2. QED
    BY <1>1, <2>1, SMT DEF Busy
<1>3. call' = [call EXCEPT ![c] = r] /\ mutex' = c
  BY DEF Lock, WalkInv, CallOK
<1> HIDE DEF pc, r
<1>4. CallOK'
  BY <1>2, <1>3 DEF WalkInv, CallOK, CallType, Busy
<1>5. /\ call'[c] = r
      /\ \A d \in Caller : d # c => call'[d] = call[d]
  BY <1>3 DEF WalkInv, CallOK
<1>6. errors' = errors /\ file' = file /\ mutex = Nobody
  BY DEF Lock
<1>7. HolderInside' /\ QueueLive' /\ FreedInside'
  BY <1>1, <1>2, <1>3, <1>5, <1>6, FreeMutex
  DEF HolderInside, QueueLive, FreedInside, Inside
<1>8. QED
  BY <1>4, <1>6, <1>7 DEF WalkInv

LEMMA DeleteStep ==
    ASSUME WalkInv, NEW c \in Caller, ConfigDelete(c) PROVE WalkInv'
<1>1. call[c] \in Busy
  BY BusyCall DEF ConfigDelete, WalkInv
<1> DEFINE r == [call[c] EXCEPT !.pc = "init"]
<1>2. r \in Busy /\ r.pc = "init"
  BY <1>1, SMT DEF Busy
<1>3. call' = [call EXCEPT ![c] = r]
  BY DEF ConfigDelete, WalkInv, CallOK
<1> HIDE DEF r
<1>4. CallOK'
  BY <1>2, <1>3 DEF WalkInv, CallOK, CallType, Busy
<1>5. /\ call'[c].pc = "init"
      /\ \A d \in Caller : d # c => call'[d] = call[d]
  BY <1>2, <1>3 DEF WalkInv, CallOK
<1>6. mutex = c /\ mutex' = mutex /\ file' = file
  BY DEF ConfigDelete, WalkInv, HolderInside
<1>7. \A d \in Caller : d # c => call[d].pc \notin Inside
  BY <1>6 DEF WalkInv, HolderInside, Inside
<1>8. HolderInside' /\ QueueLive' /\ FreedInside'
  BY <1>5, <1>6, <1>7 DEF HolderInside, QueueLive, FreedInside, Inside
<1>9. QED
  BY <1>4, <1>6, <1>8 DEF WalkInv

LEMMA ReloadStep ==
    ASSUME WalkInv, NEW c \in Caller, ConfigInit(c) PROVE WalkInv'
<1>1. call[c] \in Busy
  BY BusyCall DEF ConfigInit, WalkInv
<1> DEFINE r == [call[c] EXCEPT !.pc = "unlock"]
<1>2. r \in Busy /\ r.pc = "unlock"
  BY <1>1, SMT DEF Busy
<1>3. call' = [call EXCEPT ![c] = r]
  BY DEF ConfigInit, WalkInv, CallOK
<1> HIDE DEF r
<1>4. CallOK'
  BY <1>2, <1>3 DEF WalkInv, CallOK, CallType, Busy
<1>5. /\ call'[c].pc = "unlock"
      /\ \A d \in Caller : d # c => call'[d] = call[d]
  BY <1>2, <1>3 DEF WalkInv, CallOK
<1>6. mutex = c /\ mutex' = mutex /\ file' = file
  BY DEF ConfigInit, WalkInv, HolderInside
<1>7. \A d \in Caller : d # c => call[d].pc \notin Inside
  BY <1>6 DEF WalkInv, HolderInside, Inside
<1>8. errors' # Freed
  BY NothingFreed DEF ConfigInit, WalkInv
<1>9. HolderInside' /\ QueueLive' /\ FreedInside'
  BY <1>5, <1>6, <1>7, <1>8 DEF HolderInside, QueueLive, FreedInside, Inside
<1>10. QED
  BY <1>4, <1>6, <1>9 DEF WalkInv

LEMMA UnlockStep == ASSUME WalkInv, NEW c \in Caller, Unlock(c) PROVE WalkInv'
<1>1. call[c] \in Busy /\ call[c].pc \in {"inject", "unlock"}
  BY BusyCall DEF Unlock, WalkInv
<1> DEFINE r == [call[c] EXCEPT !.pc = "decided"]
<1>2. r \in Busy /\ r.pc = "decided"
  BY <1>1, SMT DEF Busy
<1>3. call' = [call EXCEPT ![c] = r]
  BY DEF Unlock, WalkInv, CallOK
<1> HIDE DEF r
<1>4. CallOK'
  BY <1>2, <1>3 DEF WalkInv, CallOK, CallType, Busy
<1>5. /\ call'[c].pc = "decided"
      /\ \A d \in Caller : d # c => call'[d] = call[d]
  BY <1>2, <1>3 DEF WalkInv, CallOK
<1>6. mutex = c /\ errors' = errors /\ file' = file
  BY <1>1 DEF Unlock, WalkInv, HolderInside
<1>7. \A d \in Caller : d # c => call[d].pc \notin Inside
  BY <1>6 DEF WalkInv, HolderInside, Inside
<1>8. errors # Freed
  BY <1>1, <1>7 DEF WalkInv, FreedInside, Inside
<1>9. HolderInside' /\ QueueLive' /\ FreedInside'
  BY <1>5, <1>6, <1>7, <1>8 DEF HolderInside, QueueLive, FreedInside, Inside
<1>10. QED
  BY <1>4, <1>6, <1>9 DEF WalkInv

(***************************************************************************)
(* The turns of the loop change pc, at, rc and slow of their own call.     *)
(***************************************************************************)
LEMMA AdvancedFields ==
    ASSUME NEW x \in Busy, NEW at \in Nat \ {0}, NEW rc \in RC
    PROVE  /\ [x EXCEPT !.pc = "inject", !.at = at, !.rc = rc] \in Busy
           /\ [x EXCEPT !.pc = "inject", !.at = at, !.rc = rc].pc = "inject"
<1> DEFINE y == [x EXCEPT !.pc = "inject"]
           z == [y EXCEPT !.at = at]
<1>1. y \in Busy /\ y.pc = "inject"
  BY SMT DEF Busy
<1> HIDE DEF y
<1>2. z \in Busy /\ z.pc = "inject"
  BY <1>1, SMT DEF Busy
<1> HIDE DEF z
<1>3. [z EXCEPT !.rc = rc] \in Busy /\ [z EXCEPT !.rc = rc].pc = "inject"
  BY <1>2, SMT DEF Busy
<1>4. QED
  BY <1>3 DEF y, z

LEMMA WokenFields ==
    ASSUME NEW x \in Busy, NEW at \in Nat \ {0}, NEW slow \in BOOLEAN
    PROVE  /\ [x EXCEPT !.pc = "inject", !.at = at, !.slow = slow] \in Busy
           /\ [x EXCEPT !.pc = "inject", !.at = at, !.slow = slow].pc = "inject"
<1> DEFINE y == [x EXCEPT !.pc = "inject"]
           z == [y EXCEPT !.at = at]
<1>1. y \in Busy /\ y.pc = "inject"
  BY SMT DEF Busy
<1> HIDE DEF y
<1>2. z \in Busy /\ z.pc = "inject"
  BY <1>1, SMT DEF Busy
<1> HIDE DEF z
<1>3. [z EXCEPT !.slow = slow] \in Busy
  BY <1>2, SMT DEF Busy
<1>4. [z EXCEPT !.slow = slow].pc = "inject"
  BY <1>2, SMT DEF Busy
<1>5. QED
  BY <1>3, <1>4 DEF y, z

LEMMA AdvanceStep ==
    ASSUME WalkInv, NEW c \in Caller, NEW rc \in RC, InLoop(c),
           Advance(c, rc), UNCHANGED <<file, errors, mutex>>
    PROVE  WalkInv'
<1>1. call[c] \in Busy /\ call[c].pc = "inject"
  BY BusyCall DEF InLoop, WalkInv
<1> DEFINE r == [call[c] EXCEPT !.pc = "inject", !.at = @ + 1, !.rc = rc]
<1>2. r \in Busy /\ r.pc = "inject"
  <2>1. call[c].at + 1 \in Nat \ {0}
    BY <1>1 DEF Busy
  <2>2. QED
    BY <1>1, <2>1, AdvancedFields
<1>3. call' = [call EXCEPT ![c] = r]
  BY DEF Advance, WalkInv, CallOK
<1> HIDE DEF r
<1>4. QED
  BY <1>1, <1>2, <1>3, LoopStep

LEMMA WakeStep == ASSUME WalkInv, NEW c \in Caller, Wake(c) PROVE WalkInv'
<1>1. call[c] \in Busy /\ call[c].pc = "sleep"
  BY BusyCall DEF Wake, WalkInv
<1> DEFINE r == [call[c] EXCEPT !.pc = "inject", !.at = @ + 1, !.slow = TRUE]
<1>2. r \in Busy /\ r.pc = "inject"
  <2>1. call[c].at + 1 \in Nat \ {0}
    BY <1>1 DEF Busy
  <2>2. QED
    BY <1>1, <2>1, WokenFields
<1>3. call' = [call EXCEPT ![c] = r] /\ UNCHANGED <<file, errors, mutex>>
  BY DEF Wake, WalkInv, CallOK
<1> HIDE DEF r
<1>4. QED
  BY <1>1, <1>2, <1>3, LoopStep

LEMMA SlowdownStep ==
    ASSUME WalkInv, NEW c \in Caller, Slowdown(c) PROVE WalkInv'
<1>1. call[c] \in Busy /\ call[c].pc = "inject"
  BY BusyCall DEF Slowdown, Triggered, InLoop, WalkInv
<1> DEFINE r == [call[c] EXCEPT !.pc = "sleep"]
<1>2. r \in Busy /\ r.pc = "sleep"
  BY <1>1, SMT DEF Busy
<1>3. CASE call' = [call EXCEPT ![c].pc = "sleep"]
  <2>1. call' = [call EXCEPT ![c] = r] /\ UNCHANGED <<file, errors, mutex>>
    BY <1>3 DEF Slowdown, WalkInv, CallOK
  <2> HIDE DEF r
  <2>2. QED
    BY <1>1, <1>2, <2>1, LoopStep
<1>4. CASE Advance(c, call[c].rc)
  <2>1. call[c].rc \in RC
    BY <1>1 DEF Busy
  <2>2. QED
    BY <1>4, <2>1, AdvanceStep DEF Slowdown, Triggered
<1>5. QED
  BY <1>3, <1>4 DEF Slowdown

LEMMA ReturnStep ==
    ASSUME WalkInv, NEW c \in Caller, NEW result \in Result, NEW done \in BOOLEAN,
           call[c].pc = "decided", Return(c, result, done)
    PROVE  WalkInv'
<1> DEFINE r == Idle(Answer(result, done))
<1>1. r \in CallType /\ r.pc = "idle"
  BY IdleType
<1>2. call' = [call EXCEPT ![c] = r] /\ UNCHANGED <<file, errors, mutex>>
  BY DEF Return
<1> HIDE DEF r
<1>3. QED
  BY <1>1, <1>2, OutsideStep DEF Inside

LEMMA CallBegins ==
    ASSUME WalkInv, NEW c \in Caller, NEW op \in Op, NEW path \in Path,
           Call(c, op, path)
    PROVE  WalkInv'
<1> DEFINE pc == IF op \in Hooked THEN "lock" ELSE "decided"
           r == [pc |-> pc, op |-> op, path |-> path, at |-> 1, rc |-> "pass",
                 slow |-> FALSE]
<1>1. pc \in {"lock", "decided"}
  OBVIOUS
<1>2. r \in CallType /\ r.pc \in {"lock", "decided"}
  <2> HIDE DEF pc
  <2>1. "pass" \in RC
    BY DEF RC
  <2>2. r \in Busy
    BY <1>1, <2>1 DEF Busy
  <2>3. QED
    BY <1>1, <2>2 DEF CallType, Busy
<1>3. call' = [call EXCEPT ![c] = r] /\ UNCHANGED <<file, errors, mutex>>
  BY DEF Call
<1>4. call[c].pc \notin Inside
  BY DEF Call, Inside
<1> HIDE DEF r, pc
<1>5. QED
  BY <1>2, <1>3, <1>4, OutsideStep DEF Inside

(***************************************************************************)
(* One step per action of Next.                                            *)
(***************************************************************************)
LEMMA WalkStep == WalkInv /\ [Next]_vars => WalkInv'
<1> SUFFICES ASSUME WalkInv, [Next]_vars PROVE WalkInv'
  OBVIOUS
<1>1. CASE EditFile
  BY <1>1 DEF EditFile, WalkInv, CallOK, HolderInside, QueueLive, FreedInside
<1>2. CASE UNCHANGED vars
  BY <1>2 DEF vars, WalkInv, CallOK, HolderInside, QueueLive, FreedInside
<1>3. ASSUME NEW c \in Caller, NEW op \in Op, NEW path \in Path,
             Call(c, op, path)
      PROVE  WalkInv'
  BY <1>3, CallBegins
<1>4. ASSUME NEW c \in Caller, Lock(c) PROVE WalkInv'
  BY <1>4, LockStep
<1>5. ASSUME NEW c \in Caller, Proceed(c) PROVE WalkInv'
  <2>1. CASE ConfigDelete(c)
    BY <2>1, DeleteStep
  <2>2. CASE ConfigInit(c)
    BY <2>2, ReloadStep
  <2>3. CASE NotTriggered(c)
    <3>1. call[c].rc \in RC
      BY <2>3, BusyCall DEF NotTriggered, InLoop, WalkInv, Busy
    <3>2. QED
      BY <2>3, <3>1, AdvanceStep DEF NotTriggered
  <2>4. CASE InjectNoop(c)
    BY <2>4, AdvanceStep DEF InjectNoop, Triggered, RC
  <2>5. CASE InjectErrno(c)
    <3>1. call[c].op \in Op
      BY <2>5, BusyCall DEF InjectErrno, Triggered, InLoop, WalkInv, Busy
    <3>2. op_random_errno(call[c].op) \subseteq RC
      BY <3>1 DEF op_random_errno, RC, Errno
    <3>3. QED
      BY <2>5, <3>2, AdvanceStep DEF InjectErrno, Triggered
  <2>6. CASE KillCaller(c)
    <3>1. call[c].rc \in RC
      BY <2>6, BusyCall DEF KillCaller, Triggered, InLoop, WalkInv, Busy
    <3>2. QED
      BY <2>6, <3>1, AdvanceStep DEF KillCaller, Triggered
  <2>7. CASE Slowdown(c)
    BY <2>7, SlowdownStep
  <2>8. CASE Wake(c)
    BY <2>8, WakeStep
  <2>9. CASE Unlock(c)
    BY <2>9, UnlockStep
  <2>10. CASE ReturnNoop(c)
    BY <2>10, ReturnStep DEF ReturnNoop, Decided, Result
  <2>11. CASE ReturnErrno(c)
    <3>1. call[c].rc \in Result
      BY <2>11 DEF ReturnErrno, Decided, Result
    <3>2. QED
      BY <2>11, <3>1, ReturnStep DEF ReturnErrno, Decided
  <2>12. CASE SystemCall(c)
    BY <2>12, ReturnStep DEF SystemCall, Decided, Result
  <2>13. CASE RefuseFallocate(c)
    BY <2>13, ReturnStep DEF RefuseFallocate, Decided, Result
  <2>14. QED
    BY <1>5, <2>1, <2>2, <2>3, <2>4, <2>5, <2>6, <2>7, <2>8, <2>9, <2>10,
       <2>11, <2>12, <2>13 DEF Proceed
<1>6. QED
  BY <1>1, <1>2, <1>3, <1>4, <1>5 DEF Next

(***************************************************************************)
(* The mutex protects the queue: whoever is between the lock and the       *)
(* unlock of error_inject() holds it, and the queue a thread walks, also   *)
(* while it sleeps, has not been freed by a reload                         *)
(* (unreliablefs_errinj.c:173-238).                                        *)
(***************************************************************************)
THEOREM WalkIsProtected == Spec => []WalkProtected
<1>1. WalkInv => WalkProtected
  BY DEF WalkInv, WalkProtected
<1>2. QED
  BY WalkInit, WalkStep, <1>1, PTL DEF Spec
=============================================================================
