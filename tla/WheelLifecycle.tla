--------------------------- MODULE WheelLifecycle ---------------------------
(***************************************************************************)
(* The life cycle of the timing wheel of src/timer.c: init, start, stop,   *)
(* close and the worker's way in and out, over the lock as glibc keeps it. *)
(* ti_start unlocks twice, ti_close of a manager that is not initialised   *)
(* never, and ti_stop kills the worker while it may wait for the lock.     *)
(* A signal is delivered as it is sent.  What the calls and the worker do  *)
(* to timers is TimerWheel's.                                              *)
(***************************************************************************)
EXTENDS GlibcRwLock, FiniteSets

CONSTANTS
  Caller, Worker,   \* threads
  LockBound         \* bound on the damage to the reader count: no start past it

ASSUME LifecycleAssumption ==
  /\ IsFiniteSet(Caller) /\ IsFiniteSet(Worker)
  /\ Caller \cap Worker = {} /\ Nobody \notin Caller \cup Worker
  /\ LockBound \in Nat

VARIABLES
  lock,
  init_flag, start_flag, pid,
  ending,           \* caller -> what it ends: "stop", "close" or "none"
  target,           \* caller -> the worker that it joins or kills, or Nobody
  detached,         \* the running workers that nobody can join
  at,               \* thread -> where it is: a worker that has "ended" can still
                    \*   be joined, one at "none" does not exist
  damage,           \* ghost: what the calls have ruined of "lock" and "pid"
  fault

vars == <<lock, init_flag, start_flag, pid, ending, target, detached, at, damage, fault>>
flags == <<init_flag, start_flag, pid>>
threads == <<target, detached>>

Thread == Caller \cup Worker

Init ==
  /\ lock = Unlocked
  /\ init_flag = FALSE /\ start_flag = FALSE /\ pid = Nobody
  /\ ending = [c \in Caller |-> "none"] /\ target = [c \in Caller |-> Nobody]
  /\ detached = {}
  /\ at = [t \in Thread |-> IF t \in Caller THEN "out" ELSE "none"]
  /\ damage = {} /\ fault = "none"

Goes(t, there) == at' = [at EXCEPT ![t] = there]

-----------------------------------------------------------------------------
(* The lock, for callers and workers alike. *)

(* pthread_rwlock_wrlock; its error for a thread that holds the lock is    *)
(* ignored.                                                                *)
WrLock(t) ==
  /\ at[t] = "want"
  /\ \/ lock.owner = t /\ Goes(t, "in") /\ UNCHANGED lock
     \/ /\ lock.owner # t /\ ~lock.wrlocked
        /\ IF MayWrite(Claimed(lock))
             THEN Goes(t, "in") /\ lock' = [Claimed(lock) EXCEPT !.owner = t]
             ELSE Goes(t, "claimed") /\ lock' = Claimed(lock)
  /\ UNCHANGED <<flags, ending, threads, damage, fault>>

WrGranted(t) ==
  /\ at[t] = "claimed" /\ MayWrite(lock)
  /\ lock' = [lock EXCEPT !.owner = t]
  /\ Goes(t, "in")
  /\ UNCHANGED <<flags, ending, threads, damage, fault>>

RdLock(t) ==
  /\ at[t] = "wantread"
  /\ lock' = IF lock.owner = t THEN lock ELSE RdEntered(lock)
  /\ Goes(t, IF lock.owner = t \/ MayRead(lock') THEN "reading" ELSE "waiting")
  /\ UNCHANGED <<flags, ending, threads, damage, fault>>

RdGranted(t) ==
  /\ at[t] = "waiting" /\ MayRead(lock)
  /\ Goes(t, "reading")
  /\ UNCHANGED <<lock, flags, ending, threads, damage, fault>>

Unlock(t) == lock' = Released(lock, t)

Readers == {t \in Thread : at[t] \in {"waiting", "reading"}}

-----------------------------------------------------------------------------
(* Callers. *)
Return(c) == Goes(c, "out") /\ Unlock(c)

(* A call goes for the lock; which one it is shows once it has it.         *)
Call(c) ==
  /\ at[c] = "out"
  /\ \E there \in {"want", "wantread"} : Goes(c, there)
  /\ UNCHANGED <<lock, flags, ending, threads, damage, fault>>

(* ti_enable, ti_disable *)
TiEnable(c) ==
  /\ at[c] = "reading"
  /\ Return(c)
  /\ UNCHANGED <<flags, ending, threads, damage, fault>>

TiInit(c) ==
  /\ at[c] = "in"
  /\ init_flag' = TRUE
  /\ Return(c)
  /\ UNCHANGED <<start_flag, pid, ending, threads, damage, fault>>

\* An early return that keeps the lock.
TiUseLocked(c) ==
  /\ at[c] = "in"
  /\ Goes(c, "out")
  /\ UNCHANGED <<lock, flags, ending, threads, damage, fault>>

(* ti_add, ti_del; and a ti_start or ti_stop that finds nothing to do.      *)
TiUse(c) ==
  /\ at[c] = "in"
  /\ Return(c)
  /\ UNCHANGED <<flags, ending, threads, damage, fault>>

Gone == {"none", "ended"}

(* The first unlock of ti_start, of either type. *)
TiStart(c, w) ==
  /\ at[c] = "in" /\ ~start_flag
  /\ lock.readers \in -LockBound .. LockBound
  /\ at[w] \in Gone /\ w \notin {target[d] : d \in Caller}
  /\ start_flag' = TRUE /\ pid' = w
  /\ \/ detached' = detached /\ at' = [at EXCEPT ![w] = "begin", ![c] = "join"]
     \/ detached' = detached \cup {w} /\ at' = [at EXCEPT ![w] = "begin", ![c] = "again"]
  /\ Unlock(c)
  /\ damage' = damage \cup IF \E v \in Worker : at[v] = "end2" THEN {"pid"} ELSE {}
  /\ UNCHANGED <<init_flag, ending, target, fault>>

NoThread(id) == id \notin {w \in Worker : at[w] # "none"}
Joinable(w)  == w \notin detached /\ \A d \in Caller : at[d] = "joining" => target[d] # w

(* pthread_join(p->pid), read after the unlock; it refuses a worker that   *)
(* was started since and cannot be joined.                                 *)
Join(c) ==
  /\ at[c] = "join"
  /\ \/ NoThread(pid) /\ fault' = "no thread" /\ UNCHANGED <<at, target>>
     \/ ~NoThread(pid) /\ ~Joinable(pid) /\ Goes(c, "again") /\ UNCHANGED <<target, fault>>
     \/ /\ ~NoThread(pid) /\ Joinable(pid)
        /\ Goes(c, "joining") /\ target' = [target EXCEPT ![c] = pid] /\ UNCHANGED fault
  /\ UNCHANGED <<lock, flags, ending, detached, damage>>

\* The end of a join that is not noted.
JoinedStill(c) ==
  /\ at[c] = "joining" /\ at[target[c]] = "ended"
  /\ at' = [at EXCEPT ![c] = "again", ![target[c]] = "none"]
  /\ UNCHANGED <<lock, flags, ending, threads, damage, fault>>

Joined(c) ==
  /\ at[c] = "joining" /\ at[target[c]] = "ended"
  /\ at' = [at EXCEPT ![c] = "again", ![target[c]] = "none"]
  /\ target' = [target EXCEPT ![c] = Nobody]
  /\ UNCHANGED <<lock, flags, ending, detached, damage, fault>>

(* The second unlock of ti_start. *)
UnlockAgain(c) ==
  /\ at[c] = "again"
  /\ Return(c)
  /\ damage' = damage \cup {"lock"}
  /\ UNCHANGED <<flags, ending, threads, fault>>

TiStop(c) ==
  /\ at[c] = "in" /\ start_flag
  /\ start_flag' = FALSE
  /\ Goes(c, "sleep") /\ ending' = [ending EXCEPT ![c] = "stop"]
  /\ UNCHANGED <<lock, init_flag, pid, threads, damage, fault>>

TiClose(c) ==
  /\ at[c] = "in" /\ init_flag
  /\ start_flag' = FALSE
  /\ Goes(c, IF start_flag THEN "sleep" ELSE "stopped")
  /\ ending' = [ending EXCEPT ![c] = "close"]
  /\ UNCHANGED <<lock, init_flag, pid, threads, damage, fault>>

(* The early return that keeps the lock. *)
TiCloseUninit(c) ==
  /\ at[c] = "in" /\ ~init_flag
  /\ Goes(c, "out")
  /\ damage' = damage \cup {"lock"}
  /\ UNCHANGED <<lock, flags, ending, threads, fault>>

\* A stop that trusts the worker to leave by itself.
TestPidTrusting(c) ==
  /\ at[c] = "sleep" /\ \A w \in Worker : at[w] # "begin"
  /\ Goes(c, "stopped")
  /\ UNCHANGED <<lock, flags, ending, threads, damage, fault>>

(* After the sleep, which is enough for a new worker to get started: the   *)
(* first look at pid ...                                                   *)
TestPid(c) ==
  /\ at[c] = "sleep" /\ \A w \in Worker : at[w] # "begin"
  /\ Goes(c, IF pid = Nobody THEN "stopped" ELSE "load")
  /\ UNCHANGED <<lock, flags, ending, threads, damage, fault>>

(* ... the second, for pthread_kill ...                                    *)
LoadPid(c) ==
  /\ at[c] = "load"
  /\ IF pid = Nobody
       THEN fault' = "no thread" /\ UNCHANGED <<at, target>>
       ELSE /\ Goes(c, "kill") /\ target' = [target EXCEPT ![c] = pid]
            /\ UNCHANGED fault
  /\ UNCHANGED <<lock, flags, ending, detached, damage>>

(* What remains of a thread that ends. *)
Remains(w) == IF w \in detached THEN "none" ELSE "ended"

(* ... the signal, which nothing comes of if the worker has ended ...      *)
Kill(c) ==
  /\ at[c] = "kill"
  /\ IF at[target[c]] = "none"
       THEN fault' = "no thread" /\ UNCHANGED <<at, target>>
       ELSE /\ at' = [at EXCEPT ![c] = "clear", ![target[c]] = Remains(target[c])]
            /\ target' = [target EXCEPT ![c] = Nobody]
            /\ UNCHANGED fault
  /\ detached' = detached \ {target[c]}
  /\ damage' = damage \cup IF target[c] \in Readers THEN {"lock"} ELSE {}
  /\ UNCHANGED <<lock, flags, ending>>

\* A stop that leaves pid as it is.
ClearPidNever(c) ==
  /\ at[c] = "clear"
  /\ Goes(c, "stopped")
  /\ UNCHANGED <<lock, flags, ending, threads, damage, fault>>

(* ... and the store.                                                      *)
ClearPid(c) ==
  /\ at[c] = "clear"
  /\ pid' = Nobody /\ Goes(c, "stopped")
  /\ UNCHANGED <<lock, init_flag, start_flag, ending, threads, damage, fault>>

(* The end of ti_stop and of ti_close. *)
Stopped(c) ==
  /\ at[c] = "stopped"
  /\ init_flag' = (init_flag /\ ending[c] # "close")
  /\ ending' = [ending EXCEPT ![c] = "none"]
  /\ Return(c)
  /\ UNCHANGED <<start_flag, pid, threads, damage, fault>>

-----------------------------------------------------------------------------
(* The worker: entry. *)
Begin(w) ==
  /\ at[w] = "begin"
  /\ Goes(w, IF init_flag THEN "loop" ELSE "end")
  /\ UNCHANGED <<lock, flags, ending, threads, damage, fault>>

Loop(w) ==
  /\ at[w] = "loop"
  /\ Goes(w, IF start_flag THEN "walk" ELSE "end")
  /\ UNCHANGED <<lock, flags, ending, threads, damage, fault>>

(* No timer to serve any more, a repeating one, or a single-shot one.      *)
Walk(w) ==
  /\ at[w] = "walk"
  /\ \E there \in {"read", "want", "wantread"} : Goes(w, there)
  /\ UNCHANGED <<lock, flags, ending, threads, damage, fault>>

\* A refusal of del_and_add that keeps the lock.
ServedLocked(w) ==
  /\ at[w] \in {"in", "reading"}
  /\ Goes(w, "walk")
  /\ UNCHANGED <<lock, flags, ending, threads, damage, fault>>

(* del_and_add, or the removal of a single-shot timer. *)
Served(w) ==
  /\ at[w] \in {"in", "reading"}
  /\ Unlock(w) /\ Goes(w, "walk")
  /\ UNCHANGED <<flags, ending, threads, damage, fault>>

(* The next slot, or the fifth late read. *)
Read(w) ==
  /\ at[w] = "read"
  /\ \E there \in {"loop", "end"} : Goes(w, there)
  /\ UNCHANGED <<lock, flags, ending, threads, damage, fault>>

End(w) ==
  /\ at[w] = "end"
  /\ start_flag' = FALSE /\ Goes(w, "end2")
  /\ UNCHANGED <<lock, init_flag, pid, ending, threads, damage, fault>>

EndPid(w) ==
  /\ at[w] = "end2"
  /\ pid' = Nobody /\ Goes(w, Remains(w)) /\ detached' = detached \ {w}
  /\ UNCHANGED <<lock, init_flag, start_flag, ending, target, damage, fault>>

-----------------------------------------------------------------------------
Locking(t) == WrLock(t) \/ WrGranted(t) \/ RdLock(t) \/ RdGranted(t)

Body(c) ==
  \/ TiEnable(c) \/ TiInit(c) \/ TiUse(c)
  \/ (\E w \in Worker : TiStart(c, w))
  \/ Join(c) \/ Joined(c) \/ UnlockAgain(c)
  \/ TiStop(c) \/ TiClose(c) \/ TiCloseUninit(c)
  \/ TestPid(c) \/ LoadPid(c) \/ Kill(c) \/ ClearPid(c) \/ Stopped(c)

Serve(w) ==
  Begin(w) \/ Loop(w) \/ Walk(w) \/ Served(w) \/ Read(w) \/ End(w) \/ EndPid(w)

(* Nothing is said of what follows a fault. *)
Going == fault = "none"

Next ==
  /\ Going
  /\ \/ \E c \in Caller : Call(c) \/ Body(c)
     \/ \E w \in Worker : Serve(w)
     \/ \E t \in Thread : Locking(t)

(***************************************************************************)
(* Threads are scheduled, and a thread for which the lock is free time and *)
(* again gets it.  Nobody need ever call.                                  *)
(***************************************************************************)
Spec == Init /\ [][Next]_vars
FairSpec ==
  /\ Spec
  /\ \A c \in Caller : WF_vars(Going /\ Body(c))
  /\ \A w \in Worker : WF_vars(Going /\ Serve(w))
  /\ \A t \in Thread : SF_vars(Going /\ Locking(t))

-----------------------------------------------------------------------------
Inside == {"in", "sleep", "load", "kill", "clear", "stopped"}
CallerPlace == Inside \cup {"out", "want", "claimed", "wantread", "waiting", "reading",
                            "join", "joining", "again"}
WorkerPlace == {"none", "ended", "begin", "loop", "walk", "want", "claimed", "in",
                "wantread", "waiting", "reading", "read", "end", "end2"}

(* target is set just while a caller joins or kills. *)
TypeOK ==
  /\ lock \in [readers : Int, wrphase : BOOLEAN, wrlocked : BOOLEAN, owner : Thread \cup {Nobody}]
  /\ init_flag \in BOOLEAN /\ start_flag \in BOOLEAN /\ pid \in Worker \cup {Nobody}
  /\ ending \in [Caller -> {"none", "stop", "close"}]
  /\ target \in [Caller -> Worker \cup {Nobody}] /\ detached \subseteq Worker
  /\ at \in [Thread -> CallerPlace \cup WorkerPlace]
  /\ \A c \in Caller : at[c] \in CallerPlace /\ (target[c] # Nobody <=> at[c] \in {"joining", "kill"})
  /\ \A w \in Worker : at[w] \in WorkerPlace
  /\ damage \subseteq {"lock", "pid"} /\ fault \in {"none", "no thread"}

Writers == {t \in Thread : at[t] \in Inside}
Claims  == {t \in Thread : at[t] \in Inside \cup {"claimed"}}

(***************************************************************************)
(* Three things damage the lock: the second unlock of a start, the close   *)
(* of a manager that is not initialised, and the kill of a worker that     *)
(* waits for, or has, the lock for reading.  Before the first of them the  *)
(* lock is right about its users, and a writer is alone.                   *)
(***************************************************************************)
Intact ==
  "lock" \notin damage =>
    /\ lock.readers = Cardinality(Readers)
    /\ lock.wrlocked = (Claims # {})
    /\ \A t \in Thread : lock.owner = t <=> t \in Writers
    /\ \A t \in Writers, u \in Thread : u # t => at[u] \notin Inside \cup {"reading"}

(* pid names a thread that has ended only until the stop that killed it    *)
(* clears pid.  And while the lock works, a kill meets an ended thread     *)
(* only if that cleared pid itself since the stop read it.                 *)
PidAlive ==
  /\ pid # Nobody /\ at[pid] \in Gone => \E c \in Caller : at[c] = "clear"
  /\ "lock" \notin damage =>
       \A c \in Caller : at[c] = "kill" /\ at[target[c]] \in Gone => pid = Nobody

(* A start that comes between the two stores of a worker that ends loses   *)
(* the pid of the new one, which no stop ends any more.  Short of that,    *)
(* and as long as the lock works, the only worker is the one pid names.    *)
WorkerKnown == damage = {} => \A w \in Worker : at[w] \notin Gone => pid = w

InCall(c) == at[c] \in {"want", "claimed", "wantread", "waiting"}

Undone == "lock" \in damage \/ fault # "none"

(* Until the lock is damaged a call that writes gets it, unless readers    *)
(* that overlap keep it for ever: the lock prefers them.                   *)
Writing(c) == at[c] \in {"want", "claimed"}
ReturnsUndamaged ==
  []<>(Readers = {}) => \A c \in Caller : Writing(c) ~> (~Writing(c) \/ Undone)

(* A call gets the lock.                                                   *)
Returns == \A c \in Caller : InCall(c) ~> (~InCall(c) \/ fault # "none")
=============================================================================
