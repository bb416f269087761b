------------------------ MODULE WheelLifecycleProofs ------------------------
(***************************************************************************)
(* Theorems about the life cycle of the timing wheel, for any number of    *)
(* callers and workers.                                                    *)
(***************************************************************************)
EXTENDS WheelLifecycle, FiniteSetTheorems, TLAPS

LockType ==
  lock \in [readers : Int, wrphase : BOOLEAN, wrlocked : BOOLEAN, owner : Thread \cup {Nobody}]

(* The lock stays a lock, whoever does what with it.                       *)
LEMMA LockOps ==
  ASSUME LockType, NEW t \in Thread
  PROVE  LET L == [readers : Int, wrphase : BOOLEAN, wrlocked : BOOLEAN, owner : Thread \cup {Nobody}]
         IN  /\ Claimed(lock) \in L
             /\ [lock EXCEPT !.owner = t] \in L
             /\ [Claimed(lock) EXCEPT !.owner = t] \in L
             /\ RdEntered(lock) \in L
             /\ Released(lock, t) \in L
<1> DEFINE L == [readers : Int, wrphase : BOOLEAN, wrlocked : BOOLEAN, owner : Thread \cup {Nobody}]
<1>0. lock.readers \in Int /\ lock.readers + 1 \in Int /\ lock.readers - 1 \in Int
  BY DEF LockType
<1>1. \A p, q : p \in Int /\ q \in BOOLEAN =>
        [lock EXCEPT !.readers = p, !.wrphase = q] \in L
  BY DEF LockType
<1>2. Claimed(lock) \in L /\ [Claimed(lock) EXCEPT !.owner = t] \in L
  BY DEF Claimed, LockType
<1>3. [lock EXCEPT !.owner = t] \in L
  BY DEF LockType
<1>4. RdEntered(lock) \in L
  <2>1. (lock.wrphase /\ lock.wrlocked) \in BOOLEAN
    BY Zenon
  <2> QED
    BY <1>0, <1>1, <2>1 DEF RdEntered
<1>5. WrUnlocked(lock) \in L
  BY DEF WrUnlocked, LockType
<1>6. RdUnlocked(lock) \in L
  <2>1. (lock.wrphase \/ (lock.readers = 1 /\ lock.wrlocked)) \in BOOLEAN
    BY Zenon
  <2> QED
    BY <1>0, <1>1, <2>1 DEF RdUnlocked
<1> QED
  BY <1>2, <1>3, <1>4, <1>5, <1>6 DEF Released

(***************************************************************************)
(* Where the threads are, and what pid and target say of it.               *)
(***************************************************************************)
PidShown == pid # Nobody /\ at[pid] \in Gone => \E c \in Caller : at[c] = "clear"

Places ==
  /\ pid \in Worker \cup {Nobody}
  /\ target \in [Caller -> Worker \cup {Nobody}] /\ detached \subseteq Worker
  /\ at \in [Thread -> CallerPlace \cup WorkerPlace]
  /\ \A c \in Caller : /\ at[c] \in CallerPlace
                       /\ target[c] # Nobody <=> at[c] \in {"joining", "kill"}
  /\ \A w \in Worker : at[w] \in WorkerPlace
  /\ PidShown

Rest ==
  /\ init_flag \in BOOLEAN /\ start_flag \in BOOLEAN
  /\ ending \in [Caller -> {"none", "stop", "close"}]
  /\ damage \subseteq {"lock", "pid"} /\ fault \in {"none", "no thread"}

LifeInv == LockType /\ Places /\ Rest

LEMMA LifeInit == Init => LifeInv
<1> SUFFICES ASSUME Init PROVE LifeInv
  OBVIOUS
<1>1. LockType
  BY DEF Init, LockType, Unlocked
<1>2. Places
  BY LifecycleAssumption DEF Init, Places, PidShown, Thread, CallerPlace, WorkerPlace, Inside
<1>3. Rest
  BY DEF Init, Rest
<1> QED
  BY <1>1, <1>2, <1>3 DEF LifeInv

(* A thread that goes to another place of its own, neither away nor to a   *)
(* join or a kill, disturbs nothing.                                       *)
LEMMA CallerGoes ==
  ASSUME Places, NEW c \in Caller, at[c] \notin {"joining", "kill", "clear"},
         NEW there \in CallerPlace \ {"joining", "kill"}, Goes(c, there),
         pid' = pid, target' = target, detached' = detached
  PROVE  Places'
<1>1. c \in Thread /\ c \notin Worker /\ pid # c
  BY LifecycleAssumption DEF Thread, Places
<1>2. at'[c] = there /\ \A u \in Thread : u # c => at'[u] = at[u]
  BY <1>1 DEF Goes, Places
<1>3. PidShown'
  <2>1. SUFFICES ASSUME pid # Nobody, at'[pid] \in Gone PROVE \E d \in Caller : at'[d] = "clear"
    BY DEF PidShown
  <2>2. at[pid] \in Gone
    BY <1>1, <1>2, <2>1 DEF Places, Thread
  <2>3. PICK d \in Caller : at[d] = "clear"
    BY <2>1, <2>2 DEF Places, PidShown
  <2>. QED
    BY <1>2, <2>3 DEF Thread
<1>4. at' \in [Thread -> CallerPlace \cup WorkerPlace]
  BY <1>1 DEF Goes, Places
<1>. QED
  BY <1>1, <1>2, <1>3, <1>4, LifecycleAssumption DEF Places, Thread

LEMMA WorkerGoes ==
  ASSUME Places, NEW w \in Worker,
         NEW there \in WorkerPlace \ Gone, Goes(w, there),
         pid' = pid, target' = target, detached' = detached
  PROVE  Places'
<1>1. w \in Thread /\ w \notin Caller
  BY LifecycleAssumption DEF Thread
<1>2. at'[w] = there /\ \A u \in Thread : u # w => at'[u] = at[u]
  BY <1>1 DEF Goes, Places
<1>3. PidShown'
  BY <1>1, <1>2, LifecycleAssumption DEF Places, PidShown, Thread
<1>4. at' \in [Thread -> CallerPlace \cup WorkerPlace]
  BY <1>1 DEF Goes, Places
<1>. QED
  BY <1>1, <1>2, <1>3, <1>4, LifecycleAssumption DEF Places, Thread

LEMMA PlacesOfLocking ==
  ASSUME Places, NEW t \in Thread, Locking(t)
  PROVE  Places'
<1>1. PICK there \in {"in", "claimed", "reading", "waiting"} : Goes(t, there)
  BY DEF Locking, WrLock, WrGranted, RdLock, RdGranted
<1>2. /\ at[t] \notin {"joining", "kill", "clear"}
      /\ pid' = pid /\ target' = target /\ detached' = detached
  BY DEF Locking, WrLock, WrGranted, RdLock, RdGranted, flags, threads
<1>3. there \in CallerPlace \ {"joining", "kill"} /\ there \in WorkerPlace \ Gone
  BY DEF CallerPlace, WorkerPlace, Inside, Gone
<1> QED
  BY <1>1, <1>2, <1>3, CallerGoes, WorkerGoes DEF Thread

LEMMA PlacesOfServe ==
  ASSUME Places, NEW w \in Worker, Serve(w)
  PROVE  Places'
<1>1. CASE EndPid(w)
  <2>1. /\ w \in Thread /\ w \notin Caller /\ pid' = Nobody /\ target' = target
        /\ detached' \subseteq Worker
    BY <1>1, LifecycleAssumption DEF EndPid, Thread, Places
  <2>2. Remains(w) \in WorkerPlace
    BY DEF Remains, WorkerPlace
  <2>3. PidShown'
    BY <2>1 DEF PidShown
  <2> QED
    BY <1>1, <2>1, <2>2, <2>3 DEF EndPid, Goes, Places, Thread
<1>2. CASE ~EndPid(w)
  <2>1. PICK there \in {"loop", "end", "walk", "read", "want", "wantread", "end2"} :
          Goes(w, there)
    BY <1>2 DEF Serve, Begin, Loop, Walk, Served, Read, End
  <2>2. pid' = pid /\ target' = target /\ detached' = detached
    BY <1>2 DEF Serve, Begin, Loop, Walk, Served, Read, End, flags, threads
  <2>3. there \in WorkerPlace \ Gone
    BY DEF WorkerPlace, Gone
  <2> QED
    BY <2>1, <2>2, <2>3, WorkerGoes
<1> QED
  BY <1>1, <1>2

(* A start, whichever worker it takes.                                     *)
LEMMA PlacesOfStart ==
  ASSUME Places, NEW c \in Caller, NEW w \in Worker, TiStart(c, w)
  PROVE  Places'
<1>1. PICK there \in {"join", "again"} : at' = [at EXCEPT ![w] = "begin", ![c] = there]
  BY DEF TiStart
<1>2. at[c] = "in" /\ pid' = w /\ target' = target /\ detached' \subseteq Worker
  BY DEF TiStart, Places
<1>3. w \in Thread /\ c \in Thread /\ w \notin Caller /\ c \notin Worker /\ w # c
  BY LifecycleAssumption DEF Thread
<1>4. there \in CallerPlace /\ there \notin {"joining", "kill"} /\ "begin" \in WorkerPlace
  BY DEF CallerPlace, WorkerPlace
<1>5. /\ at' \in [Thread -> CallerPlace \cup WorkerPlace]
      /\ at'[w] = "begin" /\ at'[c] = there
      /\ \A t \in Thread \ {c, w} : at'[t] = at[t]
  BY <1>1, <1>3, <1>4 DEF Places
<1>6. PidShown'
  BY <1>2, <1>5 DEF PidShown, Gone
<1>7. \A d \in Caller : at'[d] \in CallerPlace /\ (target[d] # Nobody <=> at'[d] \in {"joining", "kill"})
  BY <1>2, <1>3, <1>4, <1>5 DEF Places, Thread
<1>8. \A v \in Worker : at'[v] \in WorkerPlace
  BY <1>3, <1>4, <1>5 DEF Places, Thread
<1> QED
  BY <1>2, <1>5, <1>6, <1>7, <1>8 DEF Places

(* A caller and a worker that has ended, or does so, part.                 *)
LEMMA Parting ==
  ASSUME Places, NEW c \in Caller, NEW w \in Worker,
         NEW there \in CallerPlace \ {"joining", "kill"}, NEW place \in Gone,
         at[w] \in Gone \/ there = "clear", at[c] # "clear",
         at' = [at EXCEPT ![c] = there, ![w] = place],
         target' = [target EXCEPT ![c] = Nobody], detached' \subseteq Worker, pid' = pid
  PROVE  Places'
<1>1. w \in Thread /\ c \in Thread /\ w \notin Caller /\ c \notin Worker /\ w # c
  BY LifecycleAssumption DEF Thread
<1>2. place \in WorkerPlace
  BY DEF Gone, WorkerPlace
<1>3. /\ at' \in [Thread -> CallerPlace \cup WorkerPlace]
      /\ at'[w] = place /\ at'[c] = there
      /\ \A t \in Thread \ {c, w} : at'[t] = at[t]
  BY <1>1, <1>2 DEF Places
<1>4. PidShown'
  <2>1. SUFFICES ASSUME pid # Nobody, at'[pid] \in Gone, there # "clear"
                 PROVE  \E d \in Caller : at'[d] = "clear"
    BY <1>1, <1>3 DEF PidShown
  <2>2. at[pid] \in Gone
    BY <1>1, <1>3, <2>1 DEF Places, Thread
  <2>3. PICK d \in Caller : at[d] = "clear"
    BY <2>1, <2>2 DEF Places, PidShown
  <2>4. d # c /\ d # w /\ d \in Thread
    BY <1>1, <2>3 DEF Thread
  <2>. QED
    BY <1>3, <2>3, <2>4
<1>5. target' \in [Caller -> Worker \cup {Nobody}]
  BY DEF Places
<1>6. \A d \in Caller : at'[d] \in CallerPlace /\ (target'[d] # Nobody <=> at'[d] \in {"joining", "kill"})
  BY <1>1, <1>3 DEF Places, Thread
<1>7. \A v \in Worker : at'[v] \in WorkerPlace
  BY <1>1, <1>2, <1>3 DEF Places, Thread
<1> QED
  BY <1>3, <1>4, <1>5, <1>6, <1>7 DEF Places

LEMMA PlacesOfCaller ==
  ASSUME Places, NEW c \in Caller, Call(c) \/ Body(c)
  PROVE  Places'
<1> DEFINE Simple == \/ Call(c) \/ TiEnable(c) \/ TiInit(c) \/ TiUse(c) \/ UnlockAgain(c)
                     \/ TiStop(c) \/ TiClose(c) \/ TiCloseUninit(c) \/ TestPid(c) \/ Stopped(c)
<1>0. c \in Thread /\ c \notin Worker /\ c # Nobody /\ Worker \subseteq Thread
  BY LifecycleAssumption DEF Thread
<1>1. CASE Simple
  <2>1. PICK there \in {"want", "wantread", "out", "sleep", "stopped", "load"} : Goes(c, there)
    BY <1>1 DEF Call, TiEnable, TiInit, TiUse, UnlockAgain, Return,
                TiStop, TiClose, TiCloseUninit, TestPid, Stopped
  <2>2. pid' = pid /\ target' = target /\ detached' = detached
    BY <1>1 DEF Call, TiEnable, TiInit, TiUse, UnlockAgain, flags, threads,
                TiStop, TiClose, TiCloseUninit, TestPid, Stopped
  <2>3. at[c] \notin {"joining", "kill", "clear"}
    BY <1>1 DEF Call, TiEnable, TiInit, TiUse, UnlockAgain,
                TiStop, TiClose, TiCloseUninit, TestPid, Stopped
  <2>4. there \in CallerPlace \ {"joining", "kill"}
    BY DEF CallerPlace, Inside
  <2> QED
    BY <2>1, <2>2, <2>3, <2>4, CallerGoes
<1>2. ASSUME NEW w \in Worker, TiStart(c, w) PROVE Places'
  BY <1>2, PlacesOfStart
<1>3. CASE Join(c) \/ LoadPid(c)
  <2>0. at[c] \in {"join", "load"} /\ detached' = detached /\ pid' = pid
    BY <1>3 DEF Join, LoadPid, flags
  <2>1. CASE UNCHANGED <<at, target>>
    BY <2>0, <2>1 DEF Places, PidShown
  <2>2. CASE Goes(c, "again") /\ UNCHANGED target
    BY <2>0, <2>2, CallerGoes DEF CallerPlace
  <2>3. ASSUME NEW there \in {"joining", "kill"}, pid \in Worker,
               Goes(c, there), target' = [target EXCEPT ![c] = pid]
        PROVE  Places'
    <3>1. at'[c] = there /\ \A u \in Thread : u # c => at'[u] = at[u]
      BY <1>0, <2>3 DEF Goes, Places
    <3>2. there \in CallerPlace
      BY DEF CallerPlace, Inside
    <3>3. at' \in [Thread -> CallerPlace \cup WorkerPlace]
      BY <1>0, <2>3, <3>2 DEF Goes, Places
    <3>4. PidShown'
      <4>1. at'[pid] = at[pid]
        BY <1>0, <2>3, <3>1
      <4>2. \A d \in Caller : at[d] = "clear" => at'[d] = "clear"
        BY <2>0, <3>1 DEF Thread
      <4>. QED
        BY <2>0, <4>1, <4>2 DEF Places, PidShown
    <3>5. pid # Nobody
      BY <2>3, LifecycleAssumption
    <3>6. \A d \in Caller : at'[d] \in CallerPlace /\ (target'[d] # Nobody <=> at'[d] \in {"joining", "kill"})
      BY <2>3, <3>1, <3>2, <3>5 DEF Places, Thread
    <3>7. \A v \in Worker : at'[v] \in WorkerPlace
      BY <1>0, <3>1 DEF Places
    <3>8. target' \in [Caller -> Worker \cup {Nobody}]
      BY <2>3 DEF Places
    <3> QED
      BY <2>0, <3>3, <3>4, <3>6, <3>7, <3>8 DEF Places
  <2>4. \/ UNCHANGED <<at, target>>
        \/ Goes(c, "again") /\ UNCHANGED target
        \/ \E there \in {"joining", "kill"} : /\ pid \in Worker
                                             /\ Goes(c, there) /\ target' = [target EXCEPT ![c] = pid]
    BY <1>3 DEF Join, LoadPid, NoThread, Places
  <2> QED
    BY <2>1, <2>2, <2>3, <2>4
<1>4. CASE Joined(c)
  <2>1. /\ at[c] = "joining" /\ at[target[c]] = "ended"
        /\ at' = [at EXCEPT ![c] = "again", ![target[c]] = "none"]
        /\ target' = [target EXCEPT ![c] = Nobody] /\ pid' = pid /\ detached' = detached
    BY <1>4 DEF Joined, flags
  <2>2. target[c] \in Worker
    BY <2>1 DEF Places
  <2>3. "again" \in CallerPlace \ {"joining", "kill"} /\ "none" \in Gone /\ "ended" \in Gone
    BY DEF CallerPlace, Gone
  <2>4. detached' \subseteq Worker
    BY <2>1 DEF Places
  <2> QED
    BY <2>1, <2>2, <2>3, <2>4, Parting
<1>5. CASE Kill(c)
  <2>1. at[c] = "kill" /\ pid' = pid /\ detached' = detached \ {target[c]}
    BY <1>5 DEF Kill, flags
  <2>2. target[c] \in Worker /\ detached' \subseteq Worker
    BY <2>1 DEF Places
  <2>3. CASE at[target[c]] = "none"
    BY <1>5, <2>1, <2>2, <2>3 DEF Kill, Places, PidShown
  <2>4. CASE at[target[c]] # "none"
    <3>1. /\ at' = [at EXCEPT ![c] = "clear", ![target[c]] = Remains(target[c])]
          /\ target' = [target EXCEPT ![c] = Nobody]
      BY <1>5, <2>4 DEF Kill
    <3>2. "clear" \in CallerPlace \ {"joining", "kill"} /\ Remains(target[c]) \in Gone
      BY DEF CallerPlace, Inside, Gone, Remains
    <3> QED
      BY <2>1, <2>2, <3>1, <3>2, Parting
  <2> QED
    BY <2>3, <2>4
<1>6. CASE ClearPid(c)
  <2>1. Goes(c, "stopped") /\ pid' = Nobody /\ at[c] = "clear" /\ target' = target /\ detached' = detached
    BY <1>6 DEF ClearPid, threads
  <2>2. at'[c] = "stopped" /\ \A u \in Thread : u # c => at'[u] = at[u]
    BY <1>0, <2>1 DEF Goes, Places
  <2>3. "stopped" \in CallerPlace
    BY DEF CallerPlace, Inside
  <2>4. at' \in [Thread -> CallerPlace \cup WorkerPlace]
    BY <1>0, <2>1, <2>3 DEF Goes, Places
  <2>5. PidShown'
    BY <2>1 DEF PidShown
  <2> QED
    BY <1>0, <2>1, <2>2, <2>3, <2>4, <2>5 DEF Places, Thread
<1> QED
  BY <1>1, <1>2, <1>3, <1>4, <1>5, <1>6 DEF Body

LEMMA LockStep == LockType /\ [Next]_vars => LockType'
<1> SUFFICES ASSUME LockType, [Next]_vars PROVE LockType'
  OBVIOUS
<1> DEFINE L == [readers : Int, wrphase : BOOLEAN, wrlocked : BOOLEAN, owner : Thread \cup {Nobody}]
<1>1. SUFFICES lock' \in L
  BY DEF LockType
<1>2. CASE lock' = lock
  BY <1>2 DEF LockType
<1>3. ASSUME NEW t \in Thread, Unlock(t) PROVE lock' \in L
  BY <1>3, LockOps DEF Unlock
<1>4. ASSUME NEW t \in Thread, Locking(t) PROVE lock' \in L
  BY <1>2, <1>4, LockOps DEF Locking, WrLock, WrGranted, RdLock, RdGranted
<1>5. ASSUME NEW c \in Caller, Call(c) \/ Body(c) PROVE lock' \in L
  <2>1. Unlock(c) \/ lock' = lock
    BY <1>5 DEF Call, Body, TiEnable, TiInit, TiUse, TiStart, Join, Joined, UnlockAgain, Return,
                TiStop, TiClose, TiCloseUninit, TestPid, LoadPid, Kill, ClearPid, Stopped
  <2> QED
    BY <1>2, <1>3, <2>1 DEF Thread
<1>6. ASSUME NEW w \in Worker, Serve(w) PROVE lock' \in L
  <2>1. Unlock(w) \/ lock' = lock
    BY <1>6 DEF Serve, Begin, Loop, Walk, Served, Read, End, EndPid
  <2> QED
    BY <1>2, <1>3, <2>1 DEF Thread
<1> QED
  BY <1>2, <1>4, <1>5, <1>6 DEF Next, vars

LEMMA RestStep == Rest /\ [Next]_vars => Rest'
<1> SUFFICES ASSUME Rest, [Next]_vars PROVE Rest'
  OBVIOUS
<1> USE DEF Rest, flags
<1>1. CASE UNCHANGED vars
  BY <1>1 DEF vars
<1>2. ASSUME NEW c \in Caller, Call(c) PROVE Rest'
  BY <1>2 DEF Call
<1>3. ASSUME NEW c \in Caller, Body(c) PROVE Rest'
  <2>1. CASE TiEnable(c) \/ TiInit(c) \/ TiUse(c)
    BY <2>1 DEF TiEnable, TiInit, TiUse
  <2>2. ASSUME NEW w \in Worker, TiStart(c, w) PROVE Rest'
    BY <2>2 DEF TiStart
  <2>3. CASE Join(c) \/ Joined(c) \/ UnlockAgain(c)
    BY <2>3 DEF Join, Joined, UnlockAgain
  <2>4. CASE TiStop(c) \/ TiClose(c) \/ TiCloseUninit(c)
    BY <2>4 DEF TiStop, TiClose, TiCloseUninit
  <2>5. CASE TestPid(c) \/ LoadPid(c) \/ Kill(c) \/ ClearPid(c) \/ Stopped(c)
    BY <2>5 DEF TestPid, LoadPid, Kill, ClearPid, Stopped
  <2> QED
    BY <1>3, <2>1, <2>2, <2>3, <2>4, <2>5 DEF Body
<1>4. ASSUME NEW w \in Worker, Serve(w) PROVE Rest'
  BY <1>4 DEF Serve, Begin, Loop, Walk, Served, Read, End, EndPid
<1>5. ASSUME NEW t \in Thread, Locking(t) PROVE Rest'
  BY <1>5 DEF Locking, WrLock, WrGranted, RdLock, RdGranted
<1> QED
  BY <1>1, <1>2, <1>3, <1>4, <1>5 DEF Next

LEMMA LifeStep == LifeInv /\ [Next]_vars => LifeInv'
<1> SUFFICES ASSUME LifeInv, [Next]_vars PROVE Places'
  BY LockStep, RestStep DEF LifeInv
<1> Places
  BY DEF LifeInv
<1>1. CASE UNCHANGED vars
  BY <1>1 DEF vars, Places, PidShown
<1>2. CASE Next
  BY <1>2, PlacesOfCaller, PlacesOfServe, PlacesOfLocking DEF Next
<1> QED
  BY <1>1, <1>2

(* The inductive invariant of the life cycle.                              *)
THEOREM LifeInvariant == Spec => []LifeInv
  BY LifeInit, LifeStep, PTL DEF Spec

(* Every flag, counter and place keeps its type, and a caller that joins   *)
(* or kills has a worker to join or kill.                                  *)
THEOREM LifeTypeCorrect == Spec => []TypeOK
<1>1. LifeInv => TypeOK
  BY DEF LifeInv, LockType, Places, Rest, TypeOK
<1> QED
  BY <1>1, LifeInvariant, PTL

-----------------------------------------------------------------------------
(***************************************************************************)
(* The lock, before it is damaged.  Intact is not inductive: that a writer *)
(* is alone rests on the phases of the lock, which say whose turn it is.   *)
(***************************************************************************)
At(places) == {t \in Thread : at[t] \in places}
Waits   == {"waiting", "reading"}
Holds   == Inside \cup {"claimed"}

LockRight ==
  /\ lock.readers = Cardinality(At(Waits))
  /\ lock.wrlocked <=> At(Holds) # {}
  /\ \A t, u \in At(Holds) : t = u
  /\ \A t \in Thread : lock.owner = t <=> at[t] \in Inside
  /\ At(Inside) # {} => lock.wrphase
  /\ At({"reading"}) # {} => ~ lock.wrphase

LockInv == "lock" \notin damage => LockRight

LEMMA AtFinite ==
  ASSUME NEW places
  PROVE  IsFiniteSet(At(places)) /\ Cardinality(At(places)) \in Nat
<1>1. IsFiniteSet(Thread)
  BY LifecycleAssumption, FS_Union DEF Thread
<1>2. IsFiniteSet(At(places))
  BY <1>1, FS_Subset DEF At
<1>. QED
  BY <1>2, FS_CardinalityType

(* A thread that goes somewhere is there, and nobody else is.              *)
LEMMA AtGoes ==
  ASSUME Places, NEW t \in Thread, NEW there, Goes(t, there)
  PROVE  /\ at'[t] = there /\ \A u \in Thread : u # t => at'[u] = at[u]
         /\ At(Waits)' = IF there \in Waits THEN At(Waits) \cup {t} ELSE At(Waits) \ {t}
         /\ At(Holds)' = IF there \in Holds THEN At(Holds) \cup {t} ELSE At(Holds) \ {t}
         /\ At(Inside)' = IF there \in Inside THEN At(Inside) \cup {t} ELSE At(Inside) \ {t}
         /\ At({"reading"})' = IF there = "reading" THEN At({"reading"}) \cup {t}
                                                    ELSE At({"reading"}) \ {t}
<1>1. at'[t] = there /\ \A u \in Thread : u # t => at'[u] = at[u]
  BY DEF Goes, Places
<1>2. /\ At(Waits)' = IF there \in Waits THEN At(Waits) \cup {t} ELSE At(Waits) \ {t}
      /\ At(Holds)' = IF there \in Holds THEN At(Holds) \cup {t} ELSE At(Holds) \ {t}
      /\ At(Inside)' = IF there \in Inside THEN At(Inside) \cup {t} ELSE At(Inside) \ {t}
  BY <1>1 DEF At
<1>3. At({"reading"})' = IF there = "reading" THEN At({"reading"}) \cup {t}
                                              ELSE At({"reading"}) \ {t}
  BY <1>1 DEF At
<1>. QED
  BY <1>1, <1>2, <1>3

(* A thread that goes to the write lock, is to wait for it, or reads.       *)
LEMMA AtMoves ==
  ASSUME Places, NEW t \in Thread, NEW there, Goes(t, there)
  PROVE  /\ there \in {"in", "claimed"} /\ t \notin At(Waits) =>
              /\ At(Waits)' = At(Waits) /\ At(Holds)' = At(Holds) \cup {t}
              /\ At({"reading"})' = At({"reading"}) \ {t}
              /\ At(Inside)' = IF there = "in" THEN At(Inside) \cup {t} ELSE At(Inside) \ {t}
         /\ there \in Waits /\ t \notin At(Holds) =>
              /\ At(Waits)' = At(Waits) \cup {t} /\ At(Holds)' = At(Holds)
<1>1. at'[t] = there /\ \A u \in Thread : u # t => at'[u] = at[u]
  BY DEF Goes, Places
<1>2. ASSUME there \in {"in", "claimed"}, t \notin At(Waits)
      PROVE  /\ At(Waits)' = At(Waits) /\ At(Holds)' = At(Holds) \cup {t}
             /\ At({"reading"})' = At({"reading"}) \ {t}
             /\ At(Inside)' = IF there = "in" THEN At(Inside) \cup {t} ELSE At(Inside) \ {t}
  BY <1>1, <1>2 DEF At, Waits, Holds, Inside
<1>3. ASSUME there \in Waits, t \notin At(Holds)
      PROVE  At(Waits)' = At(Waits) \cup {t} /\ At(Holds)' = At(Holds)
  BY <1>1, <1>3 DEF At, Waits, Holds, Inside
<1>. QED
  BY <1>2, <1>3

(* Who stands where: the names of the places are what tells them apart.    *)
LEMMA Kinds ==
  /\ \A p \in Inside : p \in Holds /\ p \notin Waits
  /\ \A p \in Waits : p \notin Holds
  /\ Waits = {"waiting", "reading"}
  /\ \A p \in {"out", "want", "wantread", "join", "joining", "again", "none", "ended", "begin", "loop",
               "walk", "read", "end", "end2"} : p \notin Holds /\ p \notin Waits
  /\ "claimed" \in Holds /\ "claimed" \notin Inside /\ "claimed" \notin Waits
  /\ "in" \in Inside /\ "sleep" \in Inside /\ "load" \in Inside
  /\ "kill" \in Inside /\ "clear" \in Inside /\ "stopped" \in Inside
BY DEF Inside, Holds, Waits

(* Threads that go from place to place, the lock apart.                    *)
LEMMA SameUse ==
  ASSUME LockRight, lock' = lock,
         \A t \in Thread : /\ at'[t] \in Waits <=> at[t] \in Waits
                           /\ at'[t] \in Holds <=> at[t] \in Holds
                           /\ at'[t] \in Inside <=> at[t] \in Inside
                           /\ at'[t] = "reading" => at[t] = "reading"
  PROVE  LockRight'
<1>1. At(Waits)' = At(Waits) /\ At(Holds)' = At(Holds) /\ At(Inside)' = At(Inside)
      /\ At({"reading"})' \subseteq At({"reading"})
  BY DEF At
<1>. QED
  BY <1>1 DEF LockRight

(* A writer leaves.                                                        *)
LEMMA WriterLeaves ==
  ASSUME LockType, Places, LockRight, NEW t \in Thread, at[t] \in Inside, Unlock(t),
         at'[t] \notin Holds \cup Waits,
         \A u \in Thread : u # t => /\ at'[u] \in Waits <=> at[u] \in Waits
                                    /\ at'[u] \in Holds <=> at[u] \in Holds
                                    /\ at'[u] = "reading" => at[u] = "reading"
  PROVE  LockRight'
<1>1. /\ lock.owner = t /\ At(Holds) = {t} /\ At({"reading"}) = {}
      /\ t \notin At(Waits)
  BY Kinds DEF LockRight, At
<1>2. lock' = WrUnlocked(lock)
  BY <1>1 DEF Unlock, Released
<1>3. /\ lock'.owner = Nobody /\ lock'.readers = lock.readers /\ ~ lock'.wrlocked
  BY <1>2 DEF WrUnlocked, LockType
<1>4. At(Waits)' = At(Waits)
  BY <1>1, Kinds DEF At
<1>5. At(Holds)' = {} /\ At(Inside)' = {} /\ At({"reading"})' = {}
  BY <1>1, Kinds DEF At
<1>6. \A u \in Thread : u # Nobody /\ at'[u] \notin Inside
  BY <1>5, LifecycleAssumption DEF At, Thread
<1>. QED
  BY <1>3, <1>4, <1>5, <1>6 DEF LockRight

(* A reader leaves.                                                        *)
LEMMA ReaderLeaves ==
  ASSUME LockType, Places, LockRight, NEW t \in Thread, at[t] = "reading", Unlock(t),
         NEW there, Goes(t, there), there \notin Holds \cup Waits
  PROVE  LockRight'
<1>1. /\ lock.owner # t /\ t \in At(Waits) /\ t \in At({"reading"}) /\ ~ lock.wrphase
      /\ t \notin At(Holds) /\ t \notin At(Inside) /\ At(Inside) = {} /\ there # "reading" /\ there \notin Inside
  BY Kinds DEF LockRight, At
<1>2. lock' = RdUnlocked(lock)
  BY <1>1 DEF Unlock, Released
<1>3. /\ lock'.owner = lock.owner /\ lock'.readers = lock.readers - 1
      /\ lock'.wrlocked = lock.wrlocked
      /\ lock'.wrphase = (lock.wrphase \/ (lock.readers = 1 /\ lock.wrlocked))
  BY <1>2 DEF RdUnlocked, LockType
<1>4. /\ At(Waits)' = At(Waits) \ {t} /\ At(Holds)' = At(Holds) /\ At(Inside)' = At(Inside)
      /\ At({"reading"})' = At({"reading"}) \ {t}
  BY <1>1, AtGoes
<1>5. Cardinality(At(Waits) \ {t}) = Cardinality(At(Waits)) - 1
  BY <1>1, AtFinite, FS_RemoveElement
<1>6. lock'.readers = Cardinality(At(Waits)')
  BY <1>3, <1>4, <1>5 DEF LockRight
<1>7. ASSUME NEW u \in At({"reading"})' PROVE ~ lock'.wrphase
  <2>1. u \in At(Waits) \ {t}
    BY <1>4, Kinds DEF At
  <2>2. Cardinality(At(Waits) \ {t}) # 0 /\ Cardinality(At(Waits)) \in Nat
    <3>1. IsFiniteSet(At(Waits) \ {t}) /\ Cardinality(At(Waits)) \in Nat
      BY AtFinite, FS_RemoveElement
    <3>. QED
      BY <2>1, <3>1, FS_EmptySet
  <2>3. lock.readers # 1
    BY <1>5, <2>2 DEF LockRight
  <2>. QED
    BY <1>1, <1>3, <2>3
<1>8. \A u \in Thread : lock'.owner = u <=> at'[u] \in Inside
  <2>1. at'[t] = there /\ \A u \in Thread : u # t => at'[u] = at[u]
    BY AtGoes
  <2>. QED
    BY <1>1, <1>3, <2>1 DEF LockRight
<1>. QED
  BY <1>1, <1>3, <1>4, <1>6, <1>7, <1>8 DEF LockRight

(* A thread gets, or waits for, the lock.                                  *)
LEMMA LockingRight ==
  ASSUME LockType, Places, LockRight, NEW t \in Thread, Locking(t)
  PROVE  LockRight'
<1>0. /\ lock.readers = Cardinality(At(Waits)) /\ Cardinality(At(Waits)) \in Nat
      /\ IsFiniteSet(At(Waits))
  BY AtFinite DEF LockRight
<1>1. CASE WrLock(t)
  <2>1. at[t] = "want" /\ lock.owner # t /\ ~ lock.wrlocked /\ At(Holds) = {} /\ At(Inside) = {}
        /\ t \notin At(Waits) /\ t \notin At({"reading"})
    BY <1>1, Kinds DEF WrLock, LockRight, At
  <2>2. ASSUME At({"reading"}) # {} PROVE lock.readers # 0
    <3>1. At(Waits) # {}
      BY <2>2, Kinds DEF At
    <3>. QED
      BY <1>0, <3>1, FS_EmptySet
  <2>3. CASE MayWrite(Claimed(lock))
    <3>1. Goes(t, "in") /\ lock' = [Claimed(lock) EXCEPT !.owner = t]
      BY <1>1, <2>1, <2>3 DEF WrLock
    <3>2. /\ lock'.readers = lock.readers /\ lock'.wrlocked /\ lock'.owner = t /\ lock'.wrphase
          /\ lock.wrphase \/ lock.readers = 0
      BY <2>3, <3>1 DEF Claimed, MayWrite, LockType
    <3>a. /\ At(Waits)' = At(Waits) /\ At(Holds)' = At(Holds) \cup {t}
          /\ At(Inside)' = At(Inside) \cup {t} /\ At({"reading"})' = At({"reading"}) \ {t}
      BY <2>1, <3>1, AtMoves
    <3>3. /\ At(Waits)' = At(Waits) /\ At(Holds)' = {t} /\ At(Inside)' = {t}
          /\ At({"reading"})' = At({"reading"})
      BY <2>1, <3>a
    <3>4. At({"reading"}) = {}
      BY <2>2, <3>2 DEF LockRight
    <3>5. \A u \in Thread : at'[u] \in Inside <=> u = t
      BY <3>3 DEF At
    <3>. QED
      BY <1>0, <3>2, <3>3, <3>4, <3>5 DEF LockRight
  <2>4. CASE ~ MayWrite(Claimed(lock))
    <3>1. Goes(t, "claimed") /\ lock' = Claimed(lock)
      BY <1>1, <2>1, <2>4 DEF WrLock
    <3>2. /\ lock'.readers = lock.readers /\ lock'.wrlocked /\ lock'.owner = lock.owner
          /\ ~ lock'.wrphase
      BY <2>4, <3>1 DEF Claimed, MayWrite, LockType
    <3>a. /\ At(Waits)' = At(Waits) /\ At(Holds)' = At(Holds) \cup {t}
          /\ At(Inside)' = At(Inside) \ {t}
      BY <2>1, <3>1, AtMoves
    <3>3. /\ At(Waits)' = At(Waits) /\ At(Holds)' = {t} /\ At(Inside)' = {}
      BY <2>1, <3>a
    <3>4. \A u \in Thread : at'[u] \notin Inside /\ lock.owner # u
      BY <2>1, <3>3 DEF At, LockRight
    <3>. QED
      BY <1>0, <3>2, <3>3, <3>4 DEF LockRight
  <2>. QED
    BY <2>3, <2>4
<1>2. CASE WrGranted(t)
  <2>1. /\ at[t] = "claimed" /\ lock.wrphase /\ Goes(t, "in") /\ lock' = [lock EXCEPT !.owner = t]
        /\ At(Holds) = {t} /\ t \notin At(Waits) /\ t \notin At({"reading"})
    BY <1>2, Kinds DEF WrGranted, MayWrite, LockRight, At
  <2>2. /\ lock'.readers = lock.readers /\ lock'.wrlocked = lock.wrlocked /\ lock'.owner = t
        /\ lock'.wrphase
    BY <2>1 DEF LockType
  <2>a. /\ At(Waits)' = At(Waits) /\ At(Holds)' = At(Holds) \cup {t}
        /\ At(Inside)' = At(Inside) \cup {t} /\ At({"reading"})' = At({"reading"}) \ {t}
    BY <2>1, AtMoves
  <2>3. /\ At(Waits)' = At(Waits) /\ At(Holds)' = {t} /\ At(Inside)' = At(Inside) \cup {t}
        /\ At({"reading"})' = At({"reading"})
    BY <2>1, <2>a
  <2>4. At(Inside) \subseteq At(Holds)
    BY Kinds DEF At
  <2>5. \A u \in Thread : at'[u] \in Inside <=> u = t
    BY <2>1, <2>3, <2>4 DEF At
  <2>. QED
    BY <1>0, <2>1, <2>2, <2>3, <2>5 DEF LockRight
<1>3. CASE RdLock(t)
  <2>1. /\ at[t] = "wantread" /\ lock.owner # t /\ lock' = RdEntered(lock)
        /\ t \notin At(Waits) /\ t \notin At(Holds) /\ t \notin At(Inside)
    BY <1>3, Kinds DEF RdLock, LockRight, At
  <2>2. PICK there \in {"reading", "waiting"} :
          Goes(t, there) /\ (there = "reading" => ~ lock'.wrphase)
    BY <1>3, <2>1 DEF RdLock, MayRead
  <2>3. /\ lock'.readers = lock.readers + 1 /\ lock'.wrlocked = lock.wrlocked
        /\ lock'.owner = lock.owner /\ lock'.wrphase = (lock.wrphase /\ lock.wrlocked)
    BY <2>1 DEF RdEntered, LockType
  <2>a. there \in Waits /\ there \notin Inside
    BY <2>2, Kinds
  <2>b. At(Waits)' = At(Waits) \cup {t} /\ At(Holds)' = At(Holds)
    BY <2>1, <2>2, <2>a, AtMoves
  <2>c. /\ At(Inside)' = At(Inside) \ {t}
        /\ At({"reading"})' = IF there = "reading" THEN At({"reading"}) \cup {t}
                                                   ELSE At({"reading"}) \ {t}
    BY <2>2, <2>a, AtGoes
  <2>4. /\ At(Waits)' = At(Waits) \cup {t} /\ At(Holds)' = At(Holds) /\ At(Inside)' = At(Inside)
        /\ At({"reading"})' = IF there = "reading" THEN At({"reading"}) \cup {t}
                                                   ELSE At({"reading"}) \ {t}
    BY <2>1, <2>b, <2>c
  <2>5. Cardinality(At(Waits) \cup {t}) = Cardinality(At(Waits)) + 1
    BY <1>0, <2>1, FS_AddElement
  <2>6. lock'.readers = Cardinality(At(Waits)')
    BY <1>0, <2>3, <2>4, <2>5
  <2>7. At(Inside) \subseteq At(Holds)
    BY Kinds DEF At
  <2>8. \A u \in Thread : at'[u] \in Inside <=> at[u] \in Inside
    BY <2>4 DEF At
  <2>9. At(Inside)' # {} => lock'.wrphase
    BY <2>3, <2>4, <2>7 DEF LockRight
  <2>10. At({"reading"})' # {} => ~ lock'.wrphase
    BY <2>2, <2>3, <2>4 DEF LockRight
  <2>. QED
    BY <2>3, <2>4, <2>6, <2>8, <2>9, <2>10 DEF LockRight
<1>4. CASE RdGranted(t)
  <2>1. at[t] = "waiting" /\ ~ lock.wrphase /\ lock' = lock /\ Goes(t, "reading")
    BY <1>4 DEF RdGranted, MayRead
  <2>2. t \in At(Waits) /\ t \notin At(Holds) /\ t \notin At(Inside)
    BY <2>1, Kinds DEF At
  <2>a. "reading" \in Waits /\ "reading" \notin Inside
    BY Kinds
  <2>b. /\ At(Waits)' = At(Waits) \cup {t} /\ At(Holds)' = At(Holds)
        /\ At(Inside)' = At(Inside) \ {t}
    BY <2>1, <2>2, <2>a, AtGoes, AtMoves
  <2>3. /\ At(Waits)' = At(Waits) /\ At(Holds)' = At(Holds) /\ At(Inside)' = At(Inside)
    BY <2>2, <2>b
  <2>4. \A u \in Thread : at'[u] \in Inside <=> at[u] \in Inside
    BY <2>3 DEF At
  <2>. QED
    BY <2>1, <2>3, <2>4 DEF LockRight
<1>. QED
  BY <1>1, <1>2, <1>3, <1>4 DEF Locking

(* A thread that goes on without a word to the lock.                       *)
LEMMA GoesLockless ==
  ASSUME Places, LockRight, lock' = lock, NEW t \in Thread, NEW there, Goes(t, there),
         at[t] \in Waits <=> there \in Waits,
         at[t] \in Holds <=> there \in Holds,
         at[t] \in Inside <=> there \in Inside,
         there = "reading" => at[t] = "reading"
  PROVE  LockRight'
<1>1. at'[t] = there /\ \A u \in Thread : u # t => at'[u] = at[u]
  BY DEF Goes, Places
<1>. QED
  BY <1>1, SameUse

(* A caller's step other than for the lock leaves it right or damages it.  *)
LEMMA CallerRight ==
  ASSUME LifeInv, LockRight, NEW c \in Caller, Call(c) \/ Body(c), "lock" \notin damage'
  PROVE  LockRight'
<1>0. /\ c \in Thread /\ c \notin Worker /\ LockType /\ Places
      /\ {"in", "sleep", "load", "kill", "clear", "stopped"} = Inside
  BY LifecycleAssumption DEF Thread, LifeInv, Inside
<1>1. CASE Call(c)
  <2>1. PICK there \in {"want", "wantread"} : Goes(c, there)
    BY <1>1 DEF Call
  <2>. QED
    BY <1>0, <1>1, <2>1, GoesLockless, Kinds DEF Call
<1>2. CASE TiEnable(c)
  BY <1>0, <1>2, ReaderLeaves, Kinds DEF TiEnable, Return
<1>3. CASE TiInit(c) \/ TiUse(c) \/ Stopped(c)
  <2>1. at[c] \in Inside /\ Unlock(c) /\ Goes(c, "out")
    BY <1>0, <1>3 DEF TiInit, TiUse, Stopped, Return
  <2>2. at'[c] = "out" /\ \A u \in Thread : u # c => at'[u] = at[u]
    BY <1>0, <2>1 DEF Goes, Places
  <2>. QED
    BY <1>0, <2>1, <2>2, WriterLeaves, Kinds
<1>4. ASSUME NEW w \in Worker, TiStart(c, w) PROVE LockRight'
  <2>1. PICK there \in {"join", "again"} : at' = [at EXCEPT ![w] = "begin", ![c] = there]
    BY <1>4 DEF TiStart
  <2>2. at[c] \in Inside /\ at[w] \in {"none", "ended"} /\ Unlock(c) /\ w \in Thread
    BY <1>0, <1>4 DEF TiStart, Thread, Gone
  <2>3. /\ at'[c] = there /\ at'[w] = "begin"
        /\ \A u \in Thread : u # c /\ u # w => at'[u] = at[u]
    BY <1>0, <2>1, <2>2 DEF Places
  <2>4. \A u \in Thread : u # c => /\ at'[u] \in Waits <=> at[u] \in Waits
                                   /\ at'[u] \in Holds <=> at[u] \in Holds
                                   /\ at'[u] = "reading" => at[u] = "reading"
    BY <2>2, <2>3, Kinds
  <2>5. at'[c] \notin Holds \cup Waits
    BY <2>3, Kinds
  <2>. QED
    BY <1>0, <2>2, <2>4, <2>5, WriterLeaves
<1>5. CASE Join(c)
  <2>1. /\ at' = at \/ (at[c] = "join" /\ \E there \in {"again", "joining"} : Goes(c, there))
        /\ lock' = lock
    BY <1>5 DEF Join
  <2>2. CASE at' = at
    BY <2>1, <2>2, SameUse
  <2>. QED
    BY <1>0, <2>1, <2>2, GoesLockless, Kinds
<1>6. CASE Joined(c)
  <2>1. /\ at[c] = "joining" /\ at[target[c]] = "ended" /\ target[c] \in Worker /\ lock' = lock
        /\ at' = [at EXCEPT ![c] = "again", ![target[c]] = "none"]
    BY <1>0, <1>6 DEF Joined, Places
  <2>2. /\ at'[c] = "again" /\ at'[target[c]] = "none"
        /\ \A u \in Thread : u # c /\ u # target[c] => at'[u] = at[u]
    BY <1>0, <2>1 DEF Places, Thread
  <2>3. \A u \in Thread : /\ at'[u] \in Waits <=> at[u] \in Waits
                          /\ at'[u] \in Holds <=> at[u] \in Holds
                          /\ at'[u] \in Inside <=> at[u] \in Inside
                          /\ at'[u] = "reading" => at[u] = "reading"
    BY <2>1, <2>2, Kinds
  <2>. QED
    BY <2>1, <2>3, SameUse
<1>7. CASE UnlockAgain(c) \/ TiCloseUninit(c)
  BY <1>7 DEF UnlockAgain, TiCloseUninit
<1>8. CASE TiStop(c) \/ TiClose(c) \/ TestPid(c) \/ ClearPid(c)
  <2>1. PICK there \in {"sleep", "stopped", "load"} : Goes(c, there)
    BY <1>8 DEF TiStop, TiClose, TestPid, ClearPid
  <2>2. at[c] \in {"in", "sleep", "clear"} /\ lock' = lock
    BY <1>8 DEF TiStop, TiClose, TestPid, ClearPid
  <2>. QED
    BY <1>0, <2>1, <2>2, GoesLockless, Kinds
<1>9. CASE LoadPid(c)
  <2>1. at[c] = "load" /\ lock' = lock /\ (at' = at \/ Goes(c, "kill"))
    BY <1>9 DEF LoadPid
  <2>2. CASE at' = at
    BY <2>1, <2>2, SameUse
  <2>. QED
    BY <1>0, <2>1, <2>2, GoesLockless, Kinds
<1>10. CASE Kill(c)
  <2>1. at[c] = "kill" /\ lock' = lock /\ target[c] \notin Readers /\ target[c] \in Worker
    BY <1>0, <1>10 DEF Kill, Places
  <2>2. CASE at[target[c]] = "none"
    BY <1>10, <2>1, <2>2, SameUse DEF Kill
  <2>3. CASE at[target[c]] # "none"
    <3>. DEFINE w == target[c]
    <3>1. w \in Thread /\ w # c
      BY <1>0, <2>1 DEF Thread
    <3>2. at[w] \notin Waits
      BY <2>1, <3>1, Kinds DEF Readers
    <3>3. at[w] \notin Holds
      BY <1>0, <2>1, <3>1, Kinds DEF LockRight, At
    <3>4. at' = [at EXCEPT ![c] = "clear", ![w] = Remains(w)] /\ Remains(w) \in {"none", "ended"}
      BY <1>10, <2>3 DEF Kill, Remains
    <3>5. /\ at'[c] = "clear" /\ at'[w] \in {"none", "ended"}
          /\ \A u \in Thread : u # c /\ u # w => at'[u] = at[u]
      BY <1>0, <3>1, <3>4 DEF Places
    <3>6. \A u \in Thread : /\ at'[u] \in Waits <=> at[u] \in Waits
                            /\ at'[u] \in Holds <=> at[u] \in Holds
                            /\ at'[u] \in Inside <=> at[u] \in Inside
                            /\ at'[u] = "reading" => at[u] = "reading"
      BY <2>1, <3>2, <3>3, <3>5, Kinds
    <3>. QED
      BY <2>1, <3>6, SameUse
  <2>. QED
    BY <2>2, <2>3
<1>. QED
  BY <1>1, <1>2, <1>3, <1>4, <1>5, <1>6, <1>7, <1>8, <1>9, <1>10 DEF Body

(* The worker uses the lock as it should.                                  *)
LEMMA ServeRight ==
  ASSUME LifeInv, LockRight, NEW w \in Worker, Serve(w)
  PROVE  LockRight'
<1>0. w \in Thread /\ LockType /\ Places
  BY DEF Thread, LifeInv
<1>1. CASE Served(w)
  <2>1. at[w] \in {"in", "reading"} /\ Unlock(w) /\ Goes(w, "walk")
    BY <1>1 DEF Served
  <2>2. at'[w] = "walk" /\ \A u \in Thread : u # w => at'[u] = at[u]
    BY <1>0, <2>1 DEF Goes, Places
  <2>3. CASE at[w] = "in"
    BY <1>0, <2>1, <2>2, <2>3, WriterLeaves, Kinds
  <2>4. CASE at[w] = "reading"
    BY <1>0, <2>1, <2>4, ReaderLeaves, Kinds
  <2>. QED
    BY <2>1, <2>3, <2>4
<1>2. CASE Begin(w) \/ Loop(w) \/ Walk(w) \/ Read(w) \/ End(w) \/ EndPid(w)
  <2>1. PICK there \in {"loop", "end", "walk", "read", "want", "wantread", "end2", "none", "ended"} :
          Goes(w, there)
    BY <1>2 DEF Begin, Loop, Walk, Read, End, EndPid, Remains
  <2>2. at[w] \in {"begin", "loop", "walk", "read", "end", "end2"} /\ lock' = lock
    BY <1>2 DEF Begin, Loop, Walk, Read, End, EndPid
  <2>. QED
    BY <1>0, <2>1, <2>2, GoesLockless, Kinds
<1>. QED
  BY <1>1, <1>2 DEF Serve

(* What is damaged stays so.                                               *)
LEMMA DamageStays == [Next]_vars => damage \subseteq damage'
<1>. SUFFICES ASSUME [Next]_vars PROVE damage \subseteq damage'
  OBVIOUS
<1>1. ASSUME NEW c \in Caller, Call(c) \/ Body(c) PROVE damage \subseteq damage'
  BY <1>1 DEF Call, Body, TiEnable, TiInit, TiUse, TiStart, Join, Joined, UnlockAgain,
              TiStop, TiClose, TiCloseUninit, TestPid, LoadPid, Kill, ClearPid, Stopped
<1>2. ASSUME NEW w \in Worker, Serve(w) PROVE damage' = damage
  BY <1>2 DEF Serve, Begin, Loop, Walk, Served, Read, End, EndPid
<1>3. ASSUME NEW t \in Thread, Locking(t) PROVE damage' = damage
  BY <1>3 DEF Locking, WrLock, WrGranted, RdLock, RdGranted
<1>. QED
  BY <1>1, <1>2, <1>3 DEF Next, vars

LEMMA LockInvInit == Init => LockInv
<1>. SUFFICES ASSUME Init PROVE LockRight
  BY DEF LockInv
<1>1. \A places : "out" \notin places /\ "none" \notin places => At(places) = {}
  BY DEF Init, At
<1>2. At(Waits) = {} /\ At(Holds) = {} /\ At(Inside) = {} /\ At({"reading"}) = {}
  BY <1>1 DEF Waits, Holds, Inside
<1>3. Cardinality(At(Waits)) = 0
  BY <1>2, FS_EmptySet
<1>4. \A t \in Thread : Nobody # t /\ at[t] \notin Inside
  BY <1>2, LifecycleAssumption DEF At, Thread
<1>. QED
  BY <1>2, <1>3, <1>4 DEF Init, Unlocked, LockRight

LEMMA LockInvStep == LifeInv /\ LockInv /\ [Next]_vars => LockInv'
<1>. SUFFICES ASSUME LifeInv, LockInv, [Next]_vars, "lock" \notin damage' PROVE LockRight'
  BY DEF LockInv
<1>1. LockRight
  BY DamageStays DEF LockInv
<1>2. CASE UNCHANGED vars
  BY <1>1, <1>2, SameUse DEF vars
<1>3. CASE Next
  BY <1>1, <1>3, CallerRight, ServeRight, LockingRight DEF Next, LifeInv
<1>. QED
  BY <1>2, <1>3

(* Until one of the three calls damages it, the lock of the wheel agrees   *)
(* with its users: its count is that of the readers, who wait or read, it  *)
(* is claimed just when somebody claims it, its owner is who writes, and a *)
(* writer is alone.  Every section of timer.c relies on it.                *)
THEOREM LockIntact == Spec => []Intact
<1>1. LifeInv /\ LockInv => Intact
  <2>. SUFFICES ASSUME LifeInv, LockRight PROVE "lock" \notin damage => Intact
    BY DEF LockInv, Intact
  <2>1. Readers = At(Waits) /\ Claims = At(Holds) /\ Writers = At(Inside)
    BY DEF Readers, Claims, Writers, At, Waits, Holds
  <2>2. ASSUME NEW t \in Writers, NEW u \in Thread, u # t
        PROVE  at[u] \notin Inside \cup {"reading"}
    <3>1. at[u] \notin Inside
      BY <2>1, <2>2, Kinds DEF LockRight, At
    <3>2. lock.wrphase
      BY <2>1, <2>2 DEF LockRight
    <3>3. u \notin At({"reading"})
      BY <3>2 DEF LockRight
    <3>. QED
      BY <3>1, <3>3 DEF At
  <2>3. \A t \in Thread : lock.owner = t <=> t \in Writers
    BY DEF Writers, LockRight
  <2>4. lock.wrlocked = (Claims # {})
    BY <2>1 DEF LockRight, LifeInv, LockType
  <2>5. lock.readers = Cardinality(Readers)
    BY <2>1 DEF LockRight
  <2>. QED
    BY <2>2, <2>3, <2>4, <2>5 DEF Intact
<1>. QED
  BY <1>1, LifeInvariant, LifeStep, LockInvInit, LockInvStep, PTL DEF Spec

-----------------------------------------------------------------------------
(***************************************************************************)
(* The kill.  A stop or close that works alone has in hand the worker that *)
(* pid names, unless pid was cleared since.                                *)
(***************************************************************************)
KillRight == \A c \in Caller : at[c] = "kill" => pid \in {target[c], Nobody}

KillInv == "lock" \notin damage => KillRight

LEMMA SameKill ==
  ASSUME KillRight, pid' \in {pid, Nobody},
         \A c \in Caller : at'[c] = "kill" => at[c] = "kill" /\ target'[c] = target[c]
  PROVE  KillRight'
BY DEF KillRight

LEMMA CallerKeepsKill ==
  ASSUME LifeInv, LockRight, KillRight, NEW c \in Caller, Call(c) \/ Body(c)
  PROVE  KillRight'
<1>0. /\ c \in Thread /\ c \notin Worker /\ Places /\ Worker \subseteq Thread
      /\ Caller \subseteq Thread /\ Caller \cap Worker = {}
  BY LifecycleAssumption DEF Thread, LifeInv
<1>1. ASSUME NEW w \in Worker, TiStart(c, w) PROVE KillRight'
  <2>1. PICK there \in {"join", "again"} : at' = [at EXCEPT ![w] = "begin", ![c] = there]
    BY <1>1 DEF TiStart
  <2>2. at[c] = "in"
    BY <1>1 DEF TiStart
  <2>3. \A d \in Caller : at[d] # "kill"
    BY <1>0, <2>2, Kinds DEF LockRight, At
  <2>4. \A d \in Caller : at'[d] # "kill"
    BY <1>0, <2>1, <2>3 DEF Places
  <2>. QED
    BY <2>4 DEF KillRight
<1>2. CASE LoadPid(c)
  <2>1. CASE UNCHANGED <<at, target>>
    BY <1>2, <2>1, SameKill DEF LoadPid, flags
  <2>2. CASE Goes(c, "kill") /\ target' = [target EXCEPT ![c] = pid]
    <3>1. pid' = pid
      BY <1>2 DEF LoadPid, flags
    <3>2. \A u \in Thread : u # c => at'[u] = at[u]
      BY <1>0, <2>2 DEF Goes, Places
    <3>3. target'[c] = pid /\ \A d \in Caller : d # c => target'[d] = target[d]
      BY <1>0, <2>2 DEF Places
    <3>. QED
      BY <1>0, <3>1, <3>2, <3>3 DEF KillRight
  <2>. QED
    BY <1>2, <2>1, <2>2 DEF LoadPid
<1>3. CASE Joined(c) \/ (Kill(c) /\ at[target[c]] # "none")
  <2>1. /\ pid' = pid /\ target' = [target EXCEPT ![c] = Nobody] /\ target[c] \in Worker
        /\ \E there \in {"again", "clear"}, place \in {"none", "ended"} :
             at' = [at EXCEPT ![c] = there, ![target[c]] = place]
    BY <1>0, <1>3 DEF Joined, Kill, Places, flags, Remains
  <2>2. at'[c] # "kill" /\ \A d \in Caller : d # c => at'[d] = at[d] /\ target'[d] = target[d]
    BY <1>0, <2>1 DEF Places
  <2>. QED
    BY <2>1, <2>2, SameKill
<1>4. CASE Kill(c) /\ at[target[c]] = "none"
  BY <1>4, SameKill DEF Kill, flags
<1>5. CASE Join(c)
  <2>1. CASE UNCHANGED <<at, target>>
    BY <1>5, <2>1, SameKill DEF Join, flags
  <2>2. CASE \E there \in {"again", "joining"} : Goes(c, there) /\ target' \in {target, [target EXCEPT ![c] = pid]}
    <3>1. at'[c] # "kill" /\ \A d \in Caller : d # c => at'[d] = at[d] /\ target'[d] = target[d]
      BY <1>0, <2>2 DEF Goes, Places
    <3>2. pid' = pid
      BY <1>5 DEF Join, flags
    <3>. QED
      BY <3>1, <3>2, SameKill
  <2>. QED
    BY <1>5, <2>1, <2>2 DEF Join
<1> DEFINE Simple == \/ Call(c) \/ TiEnable(c) \/ TiInit(c) \/ TiUse(c) \/ UnlockAgain(c) \/ TiStop(c)
                     \/ TiClose(c) \/ TiCloseUninit(c) \/ TestPid(c) \/ ClearPid(c) \/ Stopped(c)
<1>6. CASE Simple
  <2>1. PICK there \in {"want", "wantread", "out", "sleep", "stopped", "load"} : Goes(c, there)
    BY <1>6 DEF Call, TiEnable, TiInit, TiUse, UnlockAgain, Return,
                TiStop, TiClose, TiCloseUninit, TestPid, ClearPid, Stopped
  <2>2. pid' \in {pid, Nobody} /\ target' = target
    BY <1>6 DEF Call, TiEnable, TiInit, TiUse, UnlockAgain, flags, threads,
                TiStop, TiClose, TiCloseUninit, TestPid, ClearPid, Stopped
  <2>3. at'[c] # "kill" /\ \A u \in Thread : u # c => at'[u] = at[u]
    BY <1>0, <2>1 DEF Goes, Places
  <2>. QED
    BY <1>0, <2>2, <2>3, SameKill
<1>. QED
  BY <1>1, <1>2, <1>3, <1>4, <1>5, <1>6 DEF Body

LEMMA OthersKeepKill ==
  ASSUME LifeInv, KillRight,
         \/ \E w \in Worker : Serve(w)
         \/ \E t \in Thread : Locking(t)
  PROVE  KillRight'
<1>0. Places /\ Worker \subseteq Thread /\ Caller \subseteq Thread
  BY DEF Thread, LifeInv
<1>1. PICK t \in Thread, there \in {"loop", "end", "walk", "read", "want", "wantread", "end2", "none",
                                    "ended", "in", "claimed", "reading", "waiting"} :
        /\ Goes(t, there)
        /\ pid' \in {pid, Nobody} /\ target' = target
  <2>1. ASSUME NEW w \in Worker, Serve(w)
        PROVE  /\ \E there \in {"loop", "end", "walk", "read", "want", "wantread", "end2", "none", "ended"} :
                    Goes(w, there)
               /\ pid' \in {pid, Nobody} /\ target' = target
    BY <2>1 DEF Serve, Begin, Loop, Walk, Served, Read, End, EndPid, Remains, flags, threads
  <2>2. ASSUME NEW t \in Thread, Locking(t)
        PROVE  /\ \E there \in {"in", "claimed", "reading", "waiting"} : Goes(t, there)
               /\ pid' \in {pid, Nobody} /\ target' = target
    BY <2>2 DEF Locking, WrLock, WrGranted, RdLock, RdGranted, flags, threads
  <2>. QED
    BY <1>0, <2>1, <2>2
<1>2. at'[t] # "kill" /\ \A u \in Thread : u # t => at'[u] = at[u]
  BY <1>0, <1>1 DEF Goes, Places
<1>. QED
  BY <1>0, <1>1, <1>2, SameKill

LEMMA KillInvInit == Init => KillInv
  BY DEF Init, KillInv, KillRight, Thread

LEMMA KillInvStep == LifeInv /\ LockInv /\ KillInv /\ [Next]_vars => KillInv'
<1>. SUFFICES ASSUME LifeInv, LockInv, KillInv, [Next]_vars, "lock" \notin damage' PROVE KillRight'
  BY DEF KillInv
<1>1. KillRight /\ LockRight
  BY DamageStays DEF KillInv, LockInv
<1>2. CASE UNCHANGED vars
  BY <1>1, <1>2, SameKill DEF vars
<1>3. CASE Next
  BY <1>1, <1>3, CallerKeepsKill, OthersKeepKill DEF Next
<1>. QED
  BY <1>2, <1>3

(* pid names an ended thread only between the kill of ti_stop or ti_close  *)
(* and the store after it, and while the lock is intact the kill meets an  *)
(* ended worker only if that took the last steps of its END since the stop *)
(* read pid.                                                               *)
THEOREM PidNamesLiveWorker == Spec => []PidAlive
<1>1. LifeInv /\ LockInv /\ KillInv => PidAlive
  <2>. SUFFICES ASSUME LifeInv, LockInv, KillInv PROVE PidAlive
    OBVIOUS
  <2>1. PidShown
    BY DEF LifeInv, Places
  <2>2. ASSUME "lock" \notin damage, NEW c \in Caller, at[c] = "kill", at[target[c]] \in Gone,
               pid # Nobody
        PROVE  FALSE
    <3>1. pid = target[c]
      BY <2>2 DEF KillInv, KillRight
    <3>2. PICK d \in Caller : at[d] = "clear"
      BY <2>1, <2>2, <3>1 DEF PidShown
    <3>3. d = c
      BY <2>2, <3>2, Kinds DEF LockInv, LockRight, At, Thread
    <3>. QED
      BY <2>2, <3>2, <3>3
  <2>. QED
    BY <2>1, <2>2 DEF PidAlive, PidShown
<1>. QED
  BY <1>1, LifeInvariant, LifeStep, LockInvInit, LockInvStep, KillInvInit, KillInvStep, PTL
     DEF Spec

-----------------------------------------------------------------------------
(***************************************************************************)
(* The worker.  That pid names the only one rests on who may start          *)
(* another: a caller that holds the lock and finds start_flag down, which  *)
(* then a stop under way or the worker itself has taken down.              *)
(***************************************************************************)
Stopping == \E c \in Caller : at[c] \in {"sleep", "load", "kill"}

WorkerRight ==
  /\ \A w \in Worker : at[w] \notin Gone => pid = w
  /\ start_flag \/ Stopping \/ (\A w \in Worker : at[w] \in Gone \cup {"end2"})
  /\ (\E c \in Caller : at[c] = "clear") => \A w \in Worker : at[w] \in Gone

WorkerInv == damage = {} => WorkerRight

(* Steps that neither begin nor end a worker, nor a stop.                  *)
LEMMA SameWorker ==
  ASSUME WorkerRight, pid' = pid, start_flag' = start_flag,
         \A w \in Worker : /\ at'[w] \in Gone <=> at[w] \in Gone
                           /\ at'[w] = "end2" <=> at[w] = "end2",
         \A c \in Caller : /\ at[c] \in {"sleep", "load", "kill"} => at'[c] \in {"sleep", "load", "kill"}
                           /\ at'[c] = "clear" => at[c] = "clear"
  PROVE  WorkerRight'
BY DEF WorkerRight, Stopping

LEMMA CallerKeepsWorker ==
  ASSUME LifeInv, LockRight, KillRight, WorkerRight, NEW c \in Caller, Call(c) \/ Body(c), damage' = {}
  PROVE  WorkerRight'
<1>0. c \in Thread /\ c \notin Worker /\ LockType /\ Places /\ Worker \subseteq Thread
      /\ Caller \subseteq Thread
  BY LifecycleAssumption DEF Thread, LifeInv
<1> DEFINE Simple == \/ Call(c) \/ TiEnable(c) \/ TiInit(c) \/ TiUse(c) \/ Stopped(c)
<1>1. CASE Simple
  <2>1. PICK there \in {"want", "wantread", "out"} : Goes(c, there)
    BY <1>1 DEF Call, TiEnable, TiInit, TiUse, Return, Stopped
  <2>2. pid' = pid /\ start_flag' = start_flag /\ at[c] \notin {"sleep", "load", "kill"}
    BY <1>1 DEF Call, TiEnable, TiInit, TiUse, Return, Stopped, flags
  <2>3. at'[c] = there /\ \A u \in Thread : u # c => at'[u] = at[u]
    BY <1>0, <2>1 DEF Goes, Places
  <2>. QED
    BY <1>0, <2>2, <2>3, SameWorker
<1>2. ASSUME NEW w \in Worker, TiStart(c, w) PROVE WorkerRight'
  <2>1. PICK there \in {"join", "again"} : at' = [at EXCEPT ![w] = "begin", ![c] = there]
    BY <1>2 DEF TiStart
  <2>2. at[c] = "in" /\ ~ start_flag /\ start_flag' = TRUE /\ pid' = w
    BY <1>2 DEF TiStart
  <2>3. ~ Stopping /\ \A d \in Caller : at[d] # "clear"
    BY <1>0, <2>2, Kinds DEF Stopping, LockRight, At
  <2>4. \A v \in Worker : at[v] \in Gone
    BY <1>2, <2>2, <2>3 DEF WorkerRight, TiStart
  <2>5. \A u \in Thread : u # c /\ u # w => at'[u] = at[u]
    BY <1>0, <2>1 DEF Places
  <2>6. (\A v \in Worker : v # w => at'[v] \in Gone) /\ \A d \in Caller : at'[d] # "clear"
    BY <1>0, <2>1, <2>3, <2>4, <2>5 DEF Places
  <2>. QED
    BY <2>2, <2>6 DEF WorkerRight
<1>3. CASE Join(c)
  <2>1. CASE at' = at
    BY <1>3, <2>1, SameWorker DEF Join, flags
  <2>2. CASE at' # at
    <3>1. PICK there \in {"again", "joining"} :
            at[c] = "join" /\ Goes(c, there) /\ pid' = pid /\ start_flag' = start_flag
      BY <1>3, <2>2 DEF Join, flags
    <3>2. at'[c] = there /\ \A u \in Thread : u # c => at'[u] = at[u]
      BY <1>0, <3>1 DEF Goes, Places
    <3>. QED
      BY <1>0, <3>1, <3>2, SameWorker
  <2>. QED
    BY <2>1, <2>2
<1>8. CASE Joined(c)
  <2>1. /\ at[c] = "joining" /\ at[target[c]] = "ended" /\ target[c] \in Worker
        /\ at' = [at EXCEPT ![c] = "again", ![target[c]] = "none"]
        /\ pid' = pid /\ start_flag' = start_flag
    BY <1>0, <1>8 DEF Joined, Places, flags
  <2>2. /\ at'[c] = "again" /\ at'[target[c]] = "none"
        /\ \A u \in Thread : u # c /\ u # target[c] => at'[u] = at[u]
    BY <1>0, <2>1 DEF Places, Thread
  <2>. QED
    BY <1>0, <2>1, <2>2, SameWorker DEF Gone
<1>4. CASE UnlockAgain(c) \/ TiCloseUninit(c)
  BY <1>4 DEF UnlockAgain, TiCloseUninit
<1>5. CASE TiStop(c) \/ TiClose(c)
  <2>1. /\ Goes(c, IF start_flag THEN "sleep" ELSE "stopped") /\ pid' = pid
        /\ at[c] = "in" /\ ~ start_flag'
    BY <1>5 DEF TiStop, TiClose
  <2>2. /\ at'[c] = (IF start_flag THEN "sleep" ELSE "stopped")
        /\ \A u \in Thread : u # c => at'[u] = at[u]
    BY <1>0, <2>1 DEF Goes, Places
  <2>3. CASE start_flag
    BY <1>0, <2>1, <2>2, <2>3 DEF WorkerRight, Stopping
  <2>4. CASE ~ start_flag
    <3>1. start_flag' = start_flag
      BY <2>1, <2>4, <1>5 DEF LifeInv, Rest, TiStop, TiClose
    <3>. QED
      BY <1>0, <2>1, <2>2, <3>1, SameWorker
  <2>. QED
    BY <2>3, <2>4
<1>6. CASE TestPid(c)
  <2>1. /\ Goes(c, IF pid = Nobody THEN "stopped" ELSE "load")
        /\ at[c] = "sleep" /\ pid' = pid /\ start_flag' = start_flag
    BY <1>6 DEF TestPid, flags
  <2>2. /\ at'[c] = (IF pid = Nobody THEN "stopped" ELSE "load")
        /\ \A u \in Thread : u # c => at'[u] = at[u]
    BY <1>0, <2>1 DEF Goes, Places
  <2>3. CASE pid = Nobody
    <3>1. \A v \in Worker : at[v] \in Gone /\ at'[v] \in Gone
      BY <1>0, <2>2, <2>3, LifecycleAssumption DEF WorkerRight
    <3>. QED
      BY <3>1 DEF WorkerRight
  <2>4. CASE pid # Nobody
    BY <1>0, <2>1, <2>2, <2>4, SameWorker
  <2>. QED
    BY <2>3, <2>4
<1>7. CASE LoadPid(c)
  <2>1. at[c] = "load" /\ pid' = pid /\ start_flag' = start_flag /\ (at' = at \/ Goes(c, "kill"))
    BY <1>7 DEF LoadPid, flags
  <2>2. \A u \in Thread : u # c => at'[u] = at[u]
    BY <1>0, <2>1 DEF Goes, Places
  <2>3. at'[c] \in {"load", "kill"}
    BY <1>0, <2>1 DEF Goes, Places
  <2>. QED
    BY <1>0, <2>1, <2>2, <2>3, SameWorker
<1>9. CASE Kill(c)
  <2>1. at[c] = "kill" /\ pid' = pid /\ start_flag' = start_flag /\ target[c] \in Worker
    BY <1>0, <1>9 DEF Kill, Places, flags
  <2>2. CASE at[target[c]] = "none"
    BY <1>9, <2>1, <2>2, SameWorker DEF Kill
  <2>3. CASE at[target[c]] # "none"
    <3>. DEFINE w == target[c]
    <3>1. at' = [at EXCEPT ![c] = "clear", ![w] = Remains(w)] /\ Remains(w) \in Gone
      BY <1>9, <2>3 DEF Kill, Remains, Gone
    <3>2. at'[w] \in Gone /\ \A v \in Worker : v # w => at'[v] = at[v]
      BY <1>0, <2>1, <3>1 DEF Places
    <3>3. \A v \in Worker : v # w => at[v] \in Gone
      BY <2>1, LifecycleAssumption DEF WorkerRight, KillRight, Thread
    <3>. QED
      BY <3>2, <3>3 DEF WorkerRight
  <2>. QED
    BY <2>2, <2>3
<1>10. CASE ClearPid(c)
  <2>1. at[c] = "clear" /\ Goes(c, "stopped")
    BY <1>10 DEF ClearPid
  <2>2. \A v \in Worker : at'[v] \in Gone
    BY <1>0, <2>1 DEF Goes, Places, WorkerRight
  <2>. QED
    BY <2>2 DEF WorkerRight
<1>. QED
  BY <1>1, <1>2, <1>3, <1>4, <1>5, <1>6, <1>7, <1>8, <1>9, <1>10 DEF Body

LEMMA ServeKeepsWorker ==
  ASSUME LifeInv, WorkerRight, NEW w \in Worker, Serve(w)
  PROVE  WorkerRight'
<1>0. w \in Thread /\ w \notin Caller /\ Places /\ Worker \subseteq Thread /\ Caller \subseteq Thread
  BY LifecycleAssumption DEF Thread, LifeInv
<1>1. CASE Begin(w) \/ Loop(w) \/ Walk(w) \/ Served(w) \/ Read(w)
  <2>1. PICK there \in {"loop", "end", "walk", "read", "want", "wantread"} : Goes(w, there)
    BY <1>1 DEF Begin, Loop, Walk, Served, Read
  <2>2. pid' = pid /\ start_flag' = start_flag /\ at[w] \notin Gone \cup {"end2"}
    BY <1>1 DEF Begin, Loop, Walk, Served, Read, flags, Gone
  <2>3. at'[w] = there /\ \A u \in Thread : u # w => at'[u] = at[u]
    BY <1>0, <2>1 DEF Goes, Places
  <2>. QED
    BY <1>0, <2>2, <2>3, SameWorker DEF Gone
<1>2. CASE End(w) \/ EndPid(w)
  <2>1. PICK there \in {"end2"} \cup Gone : Goes(w, there) /\ (there = "end2" => pid' = pid)
    BY <1>2 DEF End, EndPid, Remains, Gone
  <2>2. at'[w] = there /\ \A u \in Thread : u # w => at'[u] = at[u]
    BY <1>0, <2>1 DEF Goes, Places
  <2>3. pid = w /\ at[w] \notin Gone /\ (there = "end2" => pid' = pid)
    BY <1>2, <2>1 DEF End, EndPid, WorkerRight, Gone
  <2>4. \A v \in Worker : v # w => at'[v] \in Gone
    BY <1>0, <2>2, <2>3 DEF WorkerRight
  <2>5. \A d \in Caller : at'[d] # "clear"
    BY <1>0, <2>2, <2>3 DEF WorkerRight
  <2>. QED
    BY <2>1, <2>2, <2>3, <2>4, <2>5 DEF WorkerRight
<1>. QED
  BY <1>1, <1>2 DEF Serve

LEMMA LockingKeepsWorker ==
  ASSUME LifeInv, WorkerRight, NEW t \in Thread, Locking(t)
  PROVE  WorkerRight'
<1>0. Places /\ Worker \subseteq Thread /\ Caller \subseteq Thread
  BY DEF Thread, LifeInv
<1>1. PICK there \in {"in", "claimed", "reading", "waiting"} : Goes(t, there)
  BY DEF Locking, WrLock, WrGranted, RdLock, RdGranted
<1>2. /\ at[t] \notin {"none", "ended", "end2", "sleep", "load", "kill"}
      /\ pid' = pid /\ start_flag' = start_flag
  BY DEF Locking, WrLock, WrGranted, RdLock, RdGranted, flags
<1>3. at'[t] = there /\ \A u \in Thread : u # t => at'[u] = at[u]
  BY <1>0, <1>1 DEF Goes, Places
<1>. QED
  BY <1>0, <1>2, <1>3, SameWorker DEF Gone

LEMMA WorkerInvInit == Init => WorkerInv
<1>1. Init => \A w \in Worker : at[w] \in Gone
  BY LifecycleAssumption DEF Init, Thread, Gone
<1>. QED
  BY <1>1 DEF WorkerInv, WorkerRight

LEMMA WorkerInvStep == LifeInv /\ LockInv /\ KillInv /\ WorkerInv /\ [Next]_vars => WorkerInv'
<1>. SUFFICES ASSUME LifeInv, LockInv, KillInv, WorkerInv, [Next]_vars, damage' = {} PROVE WorkerRight'
  BY DEF WorkerInv
<1>1. WorkerRight /\ LockRight /\ KillRight
  BY DamageStays DEF WorkerInv, LockInv, KillInv
<1>2. CASE UNCHANGED vars
  BY <1>1, <1>2, SameWorker DEF vars
<1>3. CASE Next
  BY <1>1, <1>3, CallerKeepsWorker, ServeKeepsWorker, LockingKeepsWorker DEF Next
<1>. QED
  BY <1>2, <1>3

(* As long as nothing is damaged, whatever the interleaving of starts,     *)
(* stops, closes and the worker's own way out, there is no worker but the  *)
(* one that pid names, so a stop ends the one there is.                    *)
THEOREM OnlyWorkerKnown == Spec => []WorkerKnown
<1>1. WorkerInv => WorkerKnown
  BY DEF WorkerInv, WorkerRight, WorkerKnown
<1>. QED
  BY <1>1, LifeInvariant, LifeStep, LockInvInit, LockInvStep, KillInvInit,
     KillInvStep, WorkerInvInit, WorkerInvStep, PTL DEF Spec
=============================================================================
