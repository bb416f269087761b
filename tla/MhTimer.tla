------------------------------ MODULE MhTimer ------------------------------
(***************************************************************************)
(* The min-heap timer manager of src/minheap_timer.c: callers, who push    *)
(* timers and start, stop and close the manager under a read-write lock,   *)
(* and the workers, who serve the head of the heap under a mutex and never *)
(* take that lock.  The stop signal does nothing to a worker, so one that  *)
(* is slow to see start_flag may meet its successor.                       *)
(*                                                                         *)
(* Time is counted in seconds, `left` of a timer is its expiretime minus   *)
(* the present.  The clock is read in the step that takes the mutex.       *)
(***************************************************************************)
EXTENDS MinHeap, FiniteSets

CONSTANTS
  Caller, Worker,   \* threads
  Intervals,        \* in seconds
  LateReads         \* the reads with exp > 1 that end a worker: 5

ASSUME MhAssumption ==
  /\ Intervals \subseteq Nat \ {0}
  /\ \E most \in Intervals : \A i \in Intervals : i <= most
  /\ LateReads \in Nat \ {0}
  /\ Null \notin Worker

VARIABLES
  init_flag, enable_flag, start_flag,
  timerfd,          \* expirations not read yet, at most 2; NoTimerfd, Unarmed
  queue, cur_timer_num,
  alive, tm,        \* the allocated cells and the timers in them
  mh_lock,          \* who holds the mutex, or Null
  call,             \* caller -> the call it is in
  wk,               \* the workers
  fault             \* "none", or the misuse of memory that ended it

confVars == <<init_flag, enable_flag>>
heapVars == <<queue, cur_timer_num, alive, tm>>
vars == <<confVars, start_flag, timerfd, heapVars, mh_lock, call, wk, fault>>

Types == {"SINGLE_SHOT", "REPEAT"}
MaxInterval == CHOOSE i \in Intervals : \A j \in Intervals : j <= i
Timer   == [type : Types, interval : Intervals, left : Int]
NoTimer == [type |-> "SINGLE_SHOT", interval |-> MaxInterval, left |-> 0]
Left    == [a \in Cell |-> tm[a].left]

NoTimerfd == -1
Unarmed   == -2     \* made, and never set
NoCall  == [op |-> "none", cell |-> Null]
NoWorker == [pc |-> "none", temp |-> Null, replay |-> 0]
EmptyQueue == [s \in Slot |-> Null]

(* create_mh_timer_manager *)
Init ==
  /\ init_flag = FALSE /\ enable_flag = FALSE /\ start_flag = FALSE
  /\ timerfd = NoTimerfd
  /\ queue = EmptyQueue /\ cur_timer_num = 0
  /\ alive = {} /\ tm = [a \in Cell |-> NoTimer]
  /\ mh_lock = Null
  /\ call = [c \in Caller |-> NoCall]
  /\ wk = [w \in Worker |-> NoWorker]
  /\ fault = "none"

-----------------------------------------------------------------------------
(* The read-write lock: a push holds it for reading, a close for writing,  *)
(* the other calls are over in one step.                                   *)
Free(c)     == call[c].op = "none"
CanRead(c)  == Free(c) /\ \A d \in Caller : call[d].op # "close"
CanWrite(c) == \A d \in Caller : Free(d)

TiInit(c) ==
  /\ CanWrite(c) /\ ~init_flag
  /\ init_flag' = TRUE /\ enable_flag' = TRUE
  /\ timerfd' = Unarmed
  /\ queue' = EmptyQueue /\ cur_timer_num' = 0
  /\ UNCHANGED <<start_flag, alive, tm, mh_lock, call, wk, fault>>

TiEnable(c, on) ==
  /\ CanRead(c)
  /\ enable_flag' = on
  /\ UNCHANGED <<init_flag, start_flag, timerfd, heapVars, mh_lock, call, wk, fault>>

(* ti_push makes the timer and computes when it expires ...                *)
TiPush(c, a, type, interval) ==
  /\ CanRead(c) /\ init_flag /\ enable_flag
  /\ a \notin alive
  /\ alive' = alive \cup {a}
  /\ tm' = [tm EXCEPT ![a] = [type |-> type, interval |-> interval, left |-> interval]]
  /\ call' = [call EXCEPT ![c] = [op |-> "push", cell |-> a]]
  /\ UNCHANGED <<confVars, start_flag, timerfd, queue, cur_timer_num, mh_lock, wk, fault>>

Returned(c) == call' = [call EXCEPT ![c] = NoCall]

\* A push that finds room where there is none.
PushPastMax(c) ==
  /\ call[c].op = "push" /\ mh_lock = Null
  /\ cur_timer_num <= MaxTimers
  /\ queue' = PutIn(queue, Left, cur_timer_num, call[c].cell)
  /\ cur_timer_num' = cur_timer_num + 1
  /\ Returned(c)
  /\ UNCHANGED <<confVars, start_flag, timerfd, alive, tm, mh_lock, wk, fault>>

(* ... then waits for the mutex and puts it in.                            *)
PushLocked(c) ==
  /\ call[c].op = "push" /\ mh_lock = Null
  /\ cur_timer_num < MaxTimers
  /\ queue' = PutIn(queue, Left, cur_timer_num, call[c].cell)
  /\ cur_timer_num' = cur_timer_num + 1
  /\ Returned(c)
  /\ UNCHANGED <<confVars, start_flag, timerfd, alive, tm, mh_lock, wk, fault>>

(* With no room the call fails; the cell stays allocated, in no queue, and *)
(* what is in it no longer matters.                                        *)
PushRefused(c) ==
  /\ call[c].op = "push" /\ mh_lock = Null
  /\ cur_timer_num >= MaxTimers
  /\ tm' = [tm EXCEPT ![call[c].cell] = NoTimer]
  /\ Returned(c)
  /\ UNCHANGED <<confVars, start_flag, timerfd, queue, cur_timer_num, alive, mh_lock, wk, fault>>

TiStart(c, w) ==
  /\ CanWrite(c) /\ ~start_flag /\ wk[w].pc = "none"
  /\ start_flag' = TRUE
  /\ wk' = [wk EXCEPT ![w].pc = "arm"]
  /\ UNCHANGED <<confVars, timerfd, heapVars, mh_lock, call, fault>>

(***************************************************************************)
(* ti_stop.  It sleeps with the lock held for reading, so what can happen  *)
(* in that second can happen after it; the signal it then sends is not the *)
(* one that catch_signal ends the thread for.                              *)
(***************************************************************************)
TiStop(c) ==
  /\ CanRead(c) /\ start_flag
  /\ start_flag' = FALSE
  /\ UNCHANGED <<confVars, timerfd, heapVars, mh_lock, call, wk, fault>>

(***************************************************************************)
(* ti_close.  It sleeps a second if start_flag was set, and not at all if  *)
(* it was not; either way what follows may come before a worker has left.  *)
(***************************************************************************)
TiClose(c) ==
  /\ CanWrite(c) /\ init_flag
  /\ start_flag' = FALSE
  /\ call' = [call EXCEPT ![c] = [op |-> "close", cell |-> Null]]
  /\ UNCHANGED <<confVars, timerfd, heapVars, mh_lock, wk, fault>>

(* The loop of ti_close, which frees slot by slot what the slots hold,     *)
(* meets a timer that was freed before.                                    *)
FreesTwice ==
  \E s, u \in Slot : queue[s] # Null /\ (queue[s] \in alive => s # u /\ queue[s] = queue[u])

(* It frees the timers and the queue, whoever still uses them.  A worker   *)
(* whose callback is running reads the timer next.                         *)
TiCloseFree(c) ==
  /\ call[c].op = "close"
  /\ fault' = CASE FreesTwice -> "double free"
                [] ~FreesTwice /\ \E w \in Worker : wk[w].pc = "fired" -> "closed queue"
                [] OTHER -> fault
  /\ alive' = alive \ Held(queue)
  /\ tm' = [a \in Cell |-> IF a \in Held(queue) THEN NoTimer ELSE tm[a]]
  /\ queue' = EmptyQueue
  /\ init_flag' = FALSE /\ timerfd' = NoTimerfd
  /\ call' = [call EXCEPT ![c] = NoCall]
  /\ UNCHANGED <<enable_flag, start_flag, cur_timer_num, mh_lock, wk>>

-----------------------------------------------------------------------------
(* A worker: entry. *)
Goto(w, pc) == wk' = [wk EXCEPT ![w].pc = pc, ![w].temp = Null]

(* MH_END: a start that comes before this store is lost.                   *)
End(w) ==
  /\ wk[w].pc = "end"
  /\ start_flag' = FALSE
  /\ wk' = [wk EXCEPT ![w] = NoWorker]
  /\ UNCHANGED <<confVars, timerfd, heapVars, mh_lock, call, fault>>

(* timerfd_settime *)
Arm(w) ==
  /\ wk[w].pc = "arm"
  /\ IF timerfd = NoTimerfd THEN Goto(w, "end") /\ UNCHANGED timerfd
     ELSE Goto(w, "loop") /\ timerfd' = 0
  /\ UNCHANGED <<confVars, start_flag, heapVars, mh_lock, call, fault>>

Loop(w) ==
  /\ wk[w].pc = "loop"
  /\ Goto(w, IF start_flag THEN "lock" ELSE "end")
  /\ UNCHANGED <<confVars, start_flag, timerfd, heapVars, mh_lock, call, fault>>

Head == queue[0]

(***************************************************************************)
(* The head's callback runs, with the mutex held, while its time has NOT   *)
(* passed: gte(expiretime, now).  An overdue head is left alone.           *)
(***************************************************************************)
Look(w) ==
  /\ wk[w].pc = "lock" /\ mh_lock = Null
  /\ CASE ~init_flag -> fault' = "closed queue" /\ UNCHANGED <<mh_lock, wk>>
       [] init_flag /\ Head \notin alive \cup {Null} ->
            fault' = "use after free" /\ UNCHANGED <<mh_lock, wk>>
       [] init_flag /\ Head \in alive /\ Left[Head] >= 0 ->
            /\ mh_lock' = w
            /\ wk' = [wk EXCEPT ![w].pc = "fired", ![w].temp = Head]
            /\ UNCHANGED fault
       [] OTHER -> Goto(w, "read") /\ UNCHANGED <<mh_lock, fault>>
  /\ UNCHANGED <<confVars, start_flag, timerfd, heapVars, call>>

\* An exit that keeps the mutex.
GiveUpLocked(w) ==
  /\ wk[w].pc \in {"fired", "popped"} /\ ~start_flag
  /\ Goto(w, "end")
  /\ UNCHANGED <<confVars, start_flag, timerfd, heapVars, mh_lock, call, fault>>

(* ti_pop or repush after a stop: the timer stays in the queue, or in none *)
(* and no longer matters.                                                  *)
GiveUp(w) ==
  /\ wk[w].pc \in {"fired", "popped"} /\ ~start_flag
  /\ tm' = IF wk[w].pc = "popped" THEN [tm EXCEPT ![wk[w].temp] = NoTimer] ELSE tm
  /\ mh_lock' = Null
  /\ Goto(w, "end")
  /\ UNCHANGED <<confVars, start_flag, timerfd, queue, cur_timer_num, alive, call, fault>>

Popped ==
  /\ queue' = TakenOut(queue, Left, cur_timer_num)
  /\ cur_timer_num' = cur_timer_num - 1

TimesAfterPop == Sunk(queue, Left, cur_timer_num).time

(* ti_pop for a REPEAT timer. *)
PopRepeat(w) ==
  /\ wk[w].pc = "fired" /\ start_flag
  /\ tm[wk[w].temp].type = "REPEAT"
  /\ Popped
  /\ tm' = [a \in Cell |-> [tm[a] EXCEPT !.left = TimesAfterPop[a]]]
  /\ wk' = [wk EXCEPT ![w].pc = "popped"]
  /\ UNCHANGED <<confVars, start_flag, timerfd, alive, mh_lock, call, fault>>

\* A repush that does not count the timer.
RepushUncounted(w) ==
  /\ wk[w].pc = "popped" /\ start_flag /\ init_flag
  /\ LET a == wk[w].temp IN
     /\ queue' = PutIn(queue, [Left EXCEPT ![a] = tm[a].interval], cur_timer_num, a)
     /\ tm' = [tm EXCEPT ![a].left = tm[a].interval]
  /\ mh_lock' = Null /\ Goto(w, "read")
  /\ UNCHANGED <<confVars, start_flag, timerfd, cur_timer_num, alive, call, fault>>

(* repush *)
Repush(w) ==
  /\ wk[w].pc = "popped" /\ start_flag /\ init_flag
  /\ LET a == wk[w].temp IN
     /\ queue' = PutIn(queue, [Left EXCEPT ![a] = tm[a].interval], cur_timer_num, a)
     /\ tm' = [tm EXCEPT ![a].left = tm[a].interval]
  /\ cur_timer_num' = cur_timer_num + 1
  /\ mh_lock' = Null /\ Goto(w, "read")
  /\ UNCHANGED <<confVars, start_flag, timerfd, alive, call, fault>>

(* The manager was closed meanwhile, and started. *)
RepushClosed(w) ==
  /\ wk[w].pc = "popped" /\ start_flag /\ ~init_flag
  /\ fault' = "closed queue"
  /\ UNCHANGED <<confVars, start_flag, timerfd, heapVars, mh_lock, call, wk>>

(* ti_pop for a SINGLE_SHOT timer, which is freed.                         *)
PopSingle(w) ==
  /\ wk[w].pc = "fired" /\ start_flag
  /\ tm[wk[w].temp].type = "SINGLE_SHOT"
  /\ Popped
  /\ alive' = alive \ {wk[w].temp}
  /\ tm' = [a \in Cell |-> IF a = wk[w].temp THEN NoTimer
                                             ELSE [tm[a] EXCEPT !.left = TimesAfterPop[a]]]
  /\ mh_lock' = Null /\ Goto(w, "read")
  /\ UNCHANGED <<confVars, start_flag, timerfd, call, fault>>

(* read(timerfd): late reads count, and the last one allowed ends it.      *)
Read(w) ==
  /\ wk[w].pc = "read" /\ timerfd > 0
  /\ timerfd' = 0
  /\ CASE timerfd = 1 -> Goto(w, "loop")
       [] timerfd > 1 /\ wk[w].replay + 1 < LateReads ->
            wk' = [wk EXCEPT ![w].pc = "loop", ![w].replay = @ + 1]
       [] OTHER -> Goto(w, "end")
  /\ UNCHANGED <<confVars, start_flag, heapVars, mh_lock, call, fault>>

(* A read that finds the timerfd closed. *)
ReadFails(w) ==
  /\ wk[w].pc = "read" /\ timerfd = NoTimerfd
  /\ Goto(w, "end")
  /\ UNCHANGED <<confVars, start_flag, timerfd, heapVars, mh_lock, call, fault>>

(* The timers in the queue, in a push, or with a worker. *)
Running == Held(queue) \cup {call[c].cell : c \in Caller} \cup {wk[w].temp : w \in Worker}

(* A second passes.  What the timerfd counts when nobody is in the loop is *)
(* cleared by the next timerfd_settime.                                    *)
Second ==
  /\ tm' = [a \in Cell |-> IF a \in Running THEN [tm[a] EXCEPT !.left = @ - 1] ELSE tm[a]]
  /\ timerfd' = IF timerfd \in {0, 1} /\ \E w \in Worker : wk[w].pc \notin {"none", "arm", "end"}
                  THEN timerfd + 1 ELSE timerfd
  /\ UNCHANGED <<confVars, start_flag, queue, cur_timer_num, alive, mh_lock, call, wk, fault>>

-----------------------------------------------------------------------------
Calls(c) ==
  \/ TiInit(c) \/ TiClose(c) \/ TiStop(c)
  \/ \E w \in Worker : TiStart(c, w)
  \/ \E a \in Cell, type \in Types, interval \in Intervals : TiPush(c, a, type, interval)

PushRest(c) == PushLocked(c) \/ PushRefused(c)

Serve(w) ==
  \/ Arm(w) \/ Loop(w) \/ Look(w)
  \/ PopRepeat(w) \/ Repush(w) \/ RepushClosed(w) \/ PopSingle(w) \/ GiveUp(w)
  \/ Read(w) \/ ReadFails(w) \/ End(w)

(* Nothing is known of a manager after a misuse of memory.                 *)
Going == fault = "none"

BusyNext ==
  /\ Going
  /\ \/ \E c \in Caller : Calls(c) \/ PushRest(c) \/ TiCloseFree(c)
     \/ \E w \in Worker : Serve(w)
     \/ Second

Next ==
  \/ BusyNext
  \/ Going /\ \E c \in Caller, on \in BOOLEAN : TiEnable(c, on)

(* Any callers, and callers who never disable the manager.                 *)
Spec     == Init /\ [][Next]_vars
BusySpec == Init /\ [][BusyNext]_vars

-----------------------------------------------------------------------------
TypeOK ==
  /\ init_flag \in BOOLEAN /\ enable_flag \in BOOLEAN /\ start_flag \in BOOLEAN
  /\ timerfd \in -2 .. 2
  /\ queue \in Queues /\ cur_timer_num \in 0 .. MaxTimers
  /\ alive \subseteq Cell /\ tm \in [Cell -> Timer]
  /\ mh_lock \in Worker \cup {Null}
  /\ call \in [Caller -> [op : {"none", "push", "close"}, cell : Cell \cup {Null}]]
  /\ wk \in [Worker -> [pc : {"none", "arm", "loop", "lock", "fired", "popped", "read", "end"},
                        temp : Cell \cup {Null}, replay : 0 .. LateReads - 1]]
  /\ fault \in {"none", "closed queue", "use after free", "double free"}

(***************************************************************************)
(* Through starts that meet the worker of an earlier start, closes and new *)
(* lives, no worker looks at the head of a queue in use and finds a timer  *)
(* that was freed, and ti_close frees no timer twice.  What it does not    *)
(* say is that nobody uses the queue of a manager that is closed: ti_close *)
(* does not wait for the worker.                                           *)
(***************************************************************************)
MemorySafe == fault \notin {"use after free", "double free"}

(* cur_timer_num and the queue agree through pushes, pops, repushes and    *)
(* what a stop cuts off: that many slots hold live timers, no two the      *)
(* same, and the rest nothing.                                             *)
HeapSound ==
  init_flag =>
    /\ \A s \in Slot : IF s < cur_timer_num THEN queue[s] \in alive ELSE queue[s] = Null
    /\ Cardinality(Held(queue)) = cur_timer_num

(* The comment above ti_push: the timer that expires first is at the head. *)
LeastFirst ==
  init_flag => \A s \in Slot : queue[s] # Null => Left[queue[0]] <= Left[queue[s]]

(* A timer leaves the queue when its callback has run, or with the queue.  *)
PopsWhatFired ==
  [][\A a \in Held(queue) \ Held(queue') :
       ~init_flag' \/ \E w \in Worker : mh_lock = w /\ wk[w].temp = a]_vars

(* Whoever holds the mutex is about to give it up: no way out of the       *)
(* worker's loop keeps it, which would block every push and every other    *)
(* worker for ever.                                                        *)
MutexGivenUp ==
  mh_lock # Null => wk[mh_lock].pc \in {"fired", "popped"}

(* No callback runs before the timer's interval is over.                   *)
NeverEarly ==
  [][\A w \in Worker : wk[w].pc = "lock" /\ wk'[w].pc = "fired" => Left[Head] <= 0]_vars
=============================================================================
