----------------------------- MODULE TimerWheel -----------------------------
(***************************************************************************)
(* The timing wheel of src/timer.c: the slots' linked lists, pointer by    *)
(* pointer, the index of timers by id, the worker thread that walks the    *)
(* current slot without the lock, and the callers' operations, which run   *)
(* under it.  The lock is an ideal one here.                               *)
(*                                                                         *)
(* Time is counted in slots (intervals are multiples of time_slot), that   *)
(* is, in moves of cur_slot: what a late read skips is lost to all timers. *)
(* A node of a list is a timer, named by the heap cell that holds it, or   *)
(* the header of a slot, named by the slot's number.  The first wrong use  *)
(* of memory ends the behaviour, and so does a start that loses its        *)
(* worker's pid: there is one worker here.                                 *)
(***************************************************************************)
EXTENDS IdBitmap

CONSTANTS
  SlotNums,     \* the slot counts that callers configure
  Intervals,    \* the intervals that callers ask for, in slots
  Addr,         \* heap cells that hold timers
  Null, Poison, \* no pointer; what list_del leaves in an unlinked node
  LateReads,    \* the reads with exp > 1 that end a worker: 5
  CntBound      \* bound on timer_cnt: ti_add stops there

ASSUME WheelAssumption ==
  /\ SlotNums \subseteq Nat \ {0}
  /\ \E most \in SlotNums : \A n \in SlotNums : n <= most
  /\ Intervals \subseteq Nat \ {0}
  /\ IsFiniteSet(Addr) /\ Addr \cap Int = {}
  /\ Null \notin Addr \cup Int /\ Poison \notin Addr \cup Int
  /\ LateReads \in Nat \ {0}
  /\ CntBound \in Nat

VARIABLES
  init_flag, enable_flag, start_flag,
  opening,                          \* a ti_init has yet to set enable_flag
  timerfd,                          \* TRUE: a timerfd is open
  slot_num, cur_slot, cur_timer_num,
  timer_cnt,                        \* data[s].timer_cnt
  bitmap, min_free,
  rb_root,                          \* id -> cell, or Null
  alive,                            \* cells that are allocated
  tm,                               \* the timer in each cell
  next, prev,                       \* the list links of cells and headers
  pc, tmp, temp, replay,            \* the worker; pc = "none": no thread
  caller,                           \* the call that holds the write lock
  fault                             \* "none", or what ended it all

confVars   == <<init_flag, enable_flag, opening, timerfd, slot_num>>
idVars     == <<bitmap, min_free>>
heapVars   == <<alive, tm, next, prev>>
tableVars  == <<timer_cnt, rb_root, cur_timer_num>>
workerVars == <<pc, tmp, temp, replay, cur_slot>>
ctlVars    == <<start_flag, caller, fault>>
vars == <<confVars, idVars, heapVars, tableVars, workerVars, ctlVars>>

Slots   == 0 .. Max(SlotNums) - 1
Nodes   == Addr \cup Slots
Types   == {"SINGLE_SHOT", "REPEAT"}
Headers == IF init_flag THEN 0 .. slot_num - 1 ELSE {}
Valid(x) == x \in alive \cup Headers

(***************************************************************************)
(* A timer.  `round` counts the turns left.  Four fields are ghosts:       *)
(* `due`, the slots left until the timer should expire, and whether, since *)
(* it was armed, its callback ran (`ran`), a worker ended or was killed    *)
(* (`cut`), and the worker was killed at this very timer, after the        *)
(* callback and before what follows it (`torn`).                           *)
(***************************************************************************)
Timer == [type : Types, interval : Nat, id : Nat, round : Nat,
          due : Int, ran : BOOLEAN, cut : BOOLEAN, torn : BOOLEAN]
NoTimer == [type |-> "SINGLE_SHOT", interval |-> 0, id |-> 0, round |-> 0,
            due |-> 0, ran |-> FALSE, cut |-> FALSE, torn |-> FALSE]

Idle == [op |-> "none", cell |-> Null, slot |-> 0]
Locked(op) == [Idle EXCEPT !.op = op]

(* No thread takes another step. *)
Crash(what) ==
  /\ fault' = what
  /\ pc' = "none" /\ caller' = [caller EXCEPT !.op = "crashed"]
  /\ UNCHANGED <<confVars, idVars, heapVars, tableVars, tmp, temp, replay, cur_slot, start_flag>>

-----------------------------------------------------------------------------
(* list.h, on links [next, prev]. *)
Between(l, a, left, right) ==
  [next |-> [l.next EXCEPT ![left] = a, ![a] = right],
   prev |-> [l.prev EXCEPT ![right] = a, ![a] = left]]

\* An unlink that leaves the successor's back link.
UnlinkedForward(l, a) ==
  [next |-> [l.next EXCEPT ![l.prev[a]] = l.next[a], ![a] = Poison],
   prev |-> [l.prev EXCEPT ![a] = Poison]]

Unlinked(l, a) ==
  [next |-> [l.next EXCEPT ![l.prev[a]] = l.next[a], ![a] = Poison],
   prev |-> [l.prev EXCEPT ![l.next[a]] = l.prev[a], ![a] = Poison]]

Links == [next |-> next, prev |-> prev]

(* list_del reads both neighbours of a node. *)
CanUnlink(a) == a \in Nodes /\ Valid(a) /\ Valid(next[a]) /\ Valid(prev[a])

(* In front of the slot's first timer if that one has a longer interval,   *)
(* else at the tail.                                                       *)
Placed(l, a, slot) ==
  LET first == l.next[slot]
  IN  IF first # slot /\ tm[first].interval <= tm[a].interval
        THEN Between(l, a, l.prev[slot], slot)
        ELSE Between(l, a, slot, first)
CanPlace(l, slot) == Valid(l.next[slot]) /\ Valid(l.prev[slot])

SetLinks(l) == next' = l.next /\ prev' = l.prev

\* A slot counted from the first one instead of the current one.
TargetFromFirst(interval) == interval % slot_num
Target(interval) == (cur_slot + interval) % slot_num
\* Turns rounded up instead of down.
ArmedRoundedUp(type, interval, id) ==
  [type |-> type, interval |-> interval, id |-> id,
   round |-> (interval + slot_num - 1) \div slot_num,
   due |-> interval, ran |-> FALSE, cut |-> FALSE, torn |-> FALSE]

(* The fields that ti_add and del_and_add set: round from the interval.    *)
Armed(type, interval, id) ==
  [type |-> type, interval |-> interval, id |-> id, round |-> interval \div slot_num,
   due |-> interval, ran |-> FALSE, cut |-> FALSE, torn |-> FALSE]

(* The timers reached from a slot's header. *)
Members(slot) ==
  LET follow[i \in 0 .. Cardinality(Addr)] ==
        IF i = 0 THEN next[slot]
        ELSE IF follow[i - 1] \in Addr THEN next[follow[i - 1]] ELSE follow[i - 1]
  IN  {follow[i] : i \in DOMAIN follow} \ Slots

-----------------------------------------------------------------------------
(* create_timer_manager *)
Init ==
  /\ init_flag = FALSE /\ enable_flag = FALSE /\ start_flag = FALSE
  /\ opening = FALSE /\ timerfd = FALSE
  /\ slot_num = 0 /\ cur_slot = 0 /\ cur_timer_num = 0
  /\ timer_cnt = [s \in Slots |-> 0]
  /\ bitmap = {} /\ min_free = 0
  /\ rb_root = [id \in Ids |-> Null]
  /\ alive = {} /\ tm = [a \in Addr |-> NoTimer]
  /\ next = [x \in Nodes |-> Poison] /\ prev = [x \in Nodes |-> Poison]
  /\ pc = "none" /\ tmp = 0 /\ temp = Null /\ replay = 0
  /\ caller = Idle
  /\ fault = "none"

LockFree == caller.op = "none"

(* ti_init.  rb_root and cur_slot keep what the last life of the manager   *)
(* left in them.  One ti_init at a time is past the unlock.                *)
TiInit(n) ==
  /\ LockFree /\ ~init_flag /\ ~opening
  /\ init_flag' = TRUE /\ opening' = TRUE /\ timerfd' = TRUE
  /\ slot_num' = n
  /\ cur_timer_num' = 0
  /\ timer_cnt' = [s \in Slots |-> 0]
  /\ bitmap' \in FreshBitmaps /\ min_free' = 1
  /\ next' = [x \in Nodes |-> IF x \in 0 .. n - 1 THEN x ELSE Poison]
  /\ prev' = next'
  /\ UNCHANGED <<enable_flag, rb_root, alive, tm, workerVars, ctlVars>>

(* Its last store, without the lock.                                       *)
TiInitEnable ==
  /\ opening /\ fault = "none"
  /\ opening' = FALSE /\ enable_flag' = TRUE
  /\ UNCHANGED <<init_flag, timerfd, slot_num, idVars, heapVars, tableVars, workerVars, ctlVars>>

(* The memset of ti_init writes past a bitmap of less than ZeroedBytes     *)
(* bytes; unless it ends in malloc's padding, all is lost.                 *)
TiInitPastEnd ==
  /\ LockFree /\ ~init_flag
  /\ Bytes < ZeroedBytes
  /\ Crash("memset")

(* ti_init with an illegal configuration: the timerfd is open by then.     *)
TiInitRefused ==
  /\ LockFree /\ ~init_flag
  /\ timerfd' = TRUE
  /\ UNCHANGED <<init_flag, enable_flag, opening, slot_num, idVars, heapVars, tableVars, workerVars, ctlVars>>

TiEnable(on) ==
  /\ LockFree
  /\ enable_flag' = on
  /\ UNCHANGED <<init_flag, opening, timerfd, slot_num, idVars, heapVars, tableVars, workerVars, ctlVars>>

(***************************************************************************)
(* ti_add, in two steps because the worker moves cur_slot without the      *)
(* lock: the checks, the id and the slot first ...                         *)
(***************************************************************************)
TiAdd(a, type, interval) ==
  /\ LockFree
  /\ init_flag /\ enable_flag
  /\ cur_timer_num < TimerMax
  /\ a \notin alive
  /\ \A s \in Slots : timer_cnt[s] < CntBound
  /\ IF min_free = 0
       THEN Crash("wild bit")
       ELSE /\ alive' = alive \cup {a}
            /\ tm' = [tm EXCEPT ![a] = Armed(type, interval, min_free)]
            /\ next' = [next EXCEPT ![a] = a] /\ prev' = [prev EXCEPT ![a] = a]
            /\ bitmap' = SetBit(bitmap, min_free)
            /\ min_free' = FindMinId(SetBit(bitmap, min_free))
            /\ caller' = [op |-> "add", cell |-> a, slot |-> Target(interval)]
            /\ UNCHANGED <<confVars, tableVars, workerVars, start_flag, fault>>

(* ... then the list, the index and the counters.                          *)
TiAddLink ==
  /\ caller.op = "add"
  /\ IF ~CanPlace(Links, caller.slot)
       THEN Crash("list")
       ELSE LET id == tm[caller.cell].id IN
            /\ SetLinks(Placed(Links, caller.cell, caller.slot))
            /\ rb_root' = IF rb_root[id] = Null
                            THEN [rb_root EXCEPT ![id] = caller.cell] ELSE rb_root
            /\ timer_cnt' = [timer_cnt EXCEPT ![caller.slot] = @ + 1]
            /\ cur_timer_num' = cur_timer_num + 1
            /\ caller' = Idle
            /\ UNCHANGED <<confVars, idVars, alive, tm, workerVars, start_flag, fault>>

\* A timer_id_push that leaves timer_fd_min_free alone.
ReturnIdKeepMin(id) == bitmap' = UnsetBit(bitmap, id) /\ UNCHANGED min_free

(* timer_id_push *)
ReturnId(id) ==
  /\ bitmap' = UnsetBit(bitmap, id)
  /\ min_free' = MinAfterPush(min_free, id)

\* A delete that forgets rb_erase.
ForgetNothing(id) == UNCHANGED rb_root

(* rb_erase *)
Forget(id) == rb_root' = [rb_root EXCEPT ![id] = Null]

Freed(cells) ==
  /\ alive' = alive \ cells
  /\ tm' = [a \in Addr |-> IF a \in cells THEN NoTimer ELSE tm[a]]

(* ti_del of one timer. *)
TiDel(id) ==
  /\ LockFree
  /\ rb_root[id] # Null
  /\ LET a == rb_root[id] IN
     IF a \notin alive \/ ~CanUnlink(a)
       THEN Crash("use after free")
       ELSE /\ SetLinks(Unlinked(Links, a))
            /\ Freed({a})
            /\ ReturnId(id) /\ Forget(id)
            /\ cur_timer_num' = cur_timer_num - 1
            /\ UNCHANGED <<confVars, timer_cnt, workerVars, ctlVars>>

(***************************************************************************)
(* ti_del of all timers.  It unlinks the first node and then frees         *)
(* whatever follows, so every non-empty list ends in a free of the header. *)
(***************************************************************************)
TiDelAll ==
  /\ LockFree
  /\ IF \E s \in Headers : timer_cnt[s] # 0 /\ next[s] # s
       THEN Crash("bad free")
       ELSE /\ cur_timer_num' = 0
            /\ UNCHANGED <<confVars, idVars, heapVars, timer_cnt, rb_root, workerVars, ctlVars>>

-----------------------------------------------------------------------------
(* The worker thread: entry. *)
WorkerGone ==
  /\ pc' = "none" /\ tmp' = 0 /\ temp' = Null /\ replay' = 0

Cut == tm' = [a \in Addr |-> IF a \in alive THEN [tm[a] EXCEPT !.cut = TRUE] ELSE tm[a]]

(* END clears start_flag, then pid: until it has, the thread is there.     *)
End ==
  /\ start_flag' = FALSE /\ pc' = "leaving" /\ Cut
  /\ UNCHANGED <<confVars, idVars, alive, next, prev, tableVars, tmp, temp, replay, cur_slot,
                 caller, fault>>

Leave ==
  /\ pc = "leaving"
  /\ WorkerGone
  /\ UNCHANGED <<confVars, idVars, heapVars, tableVars, cur_slot, ctlVars>>

(* timerfd_settime *)
Arm ==
  /\ pc = "arm"
  /\ IF timerfd
       THEN /\ pc' = "loop"
            /\ UNCHANGED <<confVars, idVars, heapVars, tableVars, tmp, temp, replay, cur_slot, ctlVars>>
       ELSE End

Loop ==
  /\ pc = "loop"
  /\ CASE ~start_flag -> End
       [] start_flag /\ cur_slot \notin Headers -> Crash("data")
       [] OTHER ->
            /\ pc' = "walk" /\ tmp' = cur_slot
            /\ UNCHANGED <<confVars, idVars, heapVars, tableVars, temp, replay, cur_slot, ctlVars>>

(* The end of the slot's list. *)
WalkEnds ==
  /\ pc = "walk" /\ Valid(tmp)
  /\ next[tmp] = cur_slot
  /\ pc' = "read"
  /\ UNCHANGED <<confVars, idVars, heapVars, tableVars, tmp, temp, replay, cur_slot, ctlVars>>

\* A pass that does not count.
PassByUncounted ==
  /\ pc = "walk" /\ Valid(tmp)
  /\ next[tmp] \in alive /\ tm[next[tmp]].round # 0
  /\ tmp' = next[tmp]
  /\ UNCHANGED <<confVars, idVars, heapVars, tableVars, pc, temp, replay, cur_slot, ctlVars>>

(* A timer with turns left. *)
PassBy ==
  /\ pc = "walk" /\ Valid(tmp)
  /\ next[tmp] \in alive /\ tm[next[tmp]].round # 0
  /\ tm' = [tm EXCEPT ![next[tmp]].round = @ - 1]
  /\ tmp' = next[tmp]
  /\ UNCHANGED <<confVars, idVars, alive, next, prev, tableVars, pc, temp, replay, cur_slot, ctlVars>>

(* An expired timer: the callback runs, without the lock. *)
Fire ==
  /\ pc = "walk" /\ Valid(tmp)
  /\ next[tmp] \in alive /\ tm[next[tmp]].round = 0
  /\ temp' = next[tmp]
  /\ tm' = [tm EXCEPT ![next[tmp]].ran = TRUE]
  /\ pc' = "fired"
  /\ UNCHANGED <<confVars, idVars, alive, next, prev, tableVars, tmp, replay, cur_slot, ctlVars>>

(* The list under the worker's feet is gone. *)
WalkLost ==
  /\ pc = "walk"
  /\ ~(Valid(tmp) /\ next[tmp] \in alive \cup {cur_slot})
  /\ Crash("use after free")

\* A move that does not count the timer in its new slot.
MovedAway(cnt, from, to) == [cnt EXCEPT ![from] = @ - 1]
Moved(cnt, from, to) == [[cnt EXCEPT ![from] = @ - 1] EXCEPT ![to] = @ + 1]

CanRearm ==
  CanUnlink(temp) /\ CanPlace(Unlinked(Links, temp), Target(tm[temp].interval))

(***************************************************************************)
(* del_and_add, for a REPEAT timer whose callback returned; the worker     *)
(* goes on from the successor that tmp has after it.                       *)
(***************************************************************************)
Rearm ==
  /\ pc = "fired" /\ LockFree /\ Valid(tmp)
  /\ temp \in alive /\ tm[temp].type = "REPEAT"
  /\ cur_timer_num < TimerMax
  /\ CanRearm
  /\ LET slot  == Target(tm[temp].interval)
         links == Placed(Unlinked(Links, temp), temp, slot)
     IN  /\ SetLinks(links)
         /\ tmp' = links.next[tmp]
         /\ timer_cnt' = Moved(timer_cnt, cur_slot, slot)
  /\ tm' = [tm EXCEPT ![temp] = Armed(@.type, @.interval, @.id)]
  /\ pc' = "walk" /\ temp' = Null
  /\ UNCHANGED <<confVars, idVars, alive, rb_root, cur_timer_num, replay, cur_slot, ctlVars>>

\* A switch whose SINGLE_SHOT case falls into the one of REPEAT.
RearmRefusedAny ==
  /\ pc = "fired" /\ LockFree /\ Valid(tmp)
  /\ temp \in alive
  /\ cur_timer_num >= TimerMax
  /\ tmp' = next[tmp]
  /\ pc' = "walk" /\ temp' = Null
  /\ UNCHANGED <<confVars, idVars, heapVars, tableVars, replay, cur_slot, ctlVars>>

(* del_and_add with the manager at capacity: the timer stays where it is.  *)
RearmRefused ==
  /\ pc = "fired" /\ LockFree /\ Valid(tmp)
  /\ temp \in alive /\ tm[temp].type = "REPEAT"
  /\ cur_timer_num >= TimerMax
  /\ tmp' = next[tmp]
  /\ pc' = "walk" /\ temp' = Null
  /\ UNCHANGED <<confVars, idVars, heapVars, tableVars, replay, cur_slot, ctlVars>>

(***************************************************************************)
(* A SINGLE_SHOT timer whose callback returned.  The node unlinked is      *)
(* tmp's successor, the timer freed is temp.  timer_id_push gets its id    *)
(* from the freed timer: it is still there if the allocator left it        *)
(* (Expire); if not, a bit somewhere is cleared (ExpireMisread).           *)
(***************************************************************************)
CanExpire ==
  /\ pc = "fired" /\ LockFree /\ Valid(tmp)
  /\ temp \in alive /\ tm[temp].type = "SINGLE_SHOT"
  /\ CanUnlink(next[tmp])

ExpireMisread == CanExpire /\ Crash("freed id")

Expire ==
  /\ CanExpire
  /\ LET id    == tm[temp].id
         links == Unlinked(Links, next[tmp])
     IN  /\ SetLinks(links)
         /\ tmp' = links.next[tmp]
         /\ ReturnId(id) /\ Forget(id)
  /\ Freed({temp})
  /\ timer_cnt' = [timer_cnt EXCEPT ![cur_slot] = @ - 1]
  /\ pc' = "walk" /\ temp' = Null
  /\ UNCHANGED <<confVars, cur_timer_num, replay, cur_slot, ctlVars>>

(* The timer or the worker's place in the list went away in the callback.  *)
FiredLost ==
  /\ pc = "fired" /\ LockFree
  /\ ~ /\ temp \in alive /\ Valid(tmp)
       /\ CASE tm[temp].type = "SINGLE_SHOT" -> CanUnlink(next[tmp])
            [] OTHER -> cur_timer_num < TimerMax => CanRearm
  /\ Crash("use after free")

(* Time passes for every timer.  A timer that is never served would be due *)
(* ever longer: past two turns, only the phase is kept.                    *)
Elapsed(due) ==
  LET d == due - 1
  IN  IF d > -2 * slot_num THEN d ELSE (d % slot_num) - 2 * slot_num
Waited == tm' = [a \in Addr |-> IF a \in alive THEN [tm[a] EXCEPT !.due = Elapsed(@)]
                                                ELSE tm[a]]

\* A wrap-around that compares with slot_num.
AdvancePast == cur_slot' = IF cur_slot = slot_num THEN 0 ELSE cur_slot + 1
Advance == cur_slot' = IF cur_slot = slot_num - 1 THEN 0 ELSE cur_slot + 1

(* One slot has passed. *)
Tick ==
  /\ pc = "read"
  /\ pc' = "loop"
  /\ Advance /\ Waited
  /\ UNCHANGED <<confVars, idVars, alive, next, prev, tableVars, tmp, temp, replay, ctlVars>>

(* More than one slot has passed since the last read: the worker still     *)
(* advances by one, and gives up the fifth time.                           *)
Overrun ==
  /\ pc = "read"
  /\ IF replay + 1 = LateReads
       THEN End
       ELSE /\ pc' = "loop" /\ replay' = replay + 1
            /\ Advance /\ Waited
            /\ UNCHANGED <<confVars, idVars, alive, next, prev, tableVars, tmp, temp, ctlVars>>

Worker ==
  \/ Arm \/ Loop
  \/ WalkEnds \/ PassBy \/ Fire \/ WalkLost
  \/ Rearm \/ RearmRefused \/ Expire \/ ExpireMisread \/ FiredLost
  \/ Tick \/ Overrun \/ Leave

-----------------------------------------------------------------------------
(* ti_start; the double unlock that follows it belongs to the lock.  A     *)
(* worker that is still to clear pid clears the new one's: WheelLifecycle  *)
(* shows what comes of that.                                               *)
TiStart ==
  /\ LockFree /\ ~start_flag
  /\ IF pc = "leaving"
       THEN Crash("pid")
       ELSE /\ start_flag' = TRUE
            /\ pc' = "arm"
            /\ UNCHANGED <<confVars, idVars, heapVars, tableVars, tmp, temp, replay, cur_slot, caller, fault>>

(* ti_stop clears the flag and sleeps with the lock held ...               *)
TiStop ==
  /\ LockFree /\ start_flag
  /\ start_flag' = FALSE
  /\ caller' = Locked("stop")
  /\ UNCHANGED <<confVars, idVars, heapVars, tableVars, workerVars, fault>>

\* A stop that trusts the worker to leave by itself.
TiStopTrusting ==
  /\ caller.op = "stop"
  /\ caller' = Idle
  /\ UNCHANGED <<confVars, idVars, heapVars, tableVars, workerVars, start_flag, fault>>

(* pthread_kill, wherever the worker is; the signal is taken to arrive at  *)
(* once.                                                                   *)
Killed ==
  /\ WorkerGone
  /\ tm' = [a \in Addr |->
              IF a \in alive
                THEN [tm[a] EXCEPT !.cut = TRUE, !.torn = @ \/ (pc = "fired" /\ a = temp)]
                ELSE tm[a]]

(* ... then kills the worker.                                              *)
TiStopKill ==
  /\ caller.op = "stop"
  /\ Killed
  /\ caller' = Idle
  /\ UNCHANGED <<confVars, idVars, alive, next, prev, tableVars, cur_slot, start_flag, fault>>

(* ti_close does the same, but not if start_flag is clear already ...      *)
TiClose ==
  /\ LockFree /\ init_flag
  /\ start_flag' = FALSE
  /\ caller' = Locked(IF start_flag THEN "close" ELSE "free")
  /\ UNCHANGED <<confVars, idVars, heapVars, tableVars, workerVars, fault>>

TiCloseKill ==
  /\ caller.op = "close"
  /\ Killed
  /\ caller' = Locked("free")
  /\ UNCHANGED <<confVars, idVars, alive, next, prev, tableVars, cur_slot, start_flag, fault>>

(* ... or returns at once and keeps the lock.                              *)
TiCloseUninit ==
  /\ LockFree /\ ~init_flag
  /\ caller' = Locked("leaked")
  /\ UNCHANGED <<confVars, idVars, heapVars, tableVars, workerVars, start_flag, fault>>

\* A loop over the slots that stops one short.
DoomedButLast == UNION {Members(s) : s \in {s \in Headers \ {slot_num - 1} : timer_cnt[s] # 0}}

(* The timers of the slots that timer_cnt says have some.                  *)
Doomed == UNION {Members(s) : s \in {s \in Headers : timer_cnt[s] # 0}}

(* Then it frees everything but the tree.                                  *)
TiCloseFree ==
  /\ caller.op = "free"
  /\ IF Doomed \subseteq alive
       THEN /\ Freed(Doomed)
            /\ init_flag' = FALSE /\ timerfd' = FALSE /\ slot_num' = 0
            /\ next' = [x \in Nodes |-> Poison] /\ prev' = next'
            /\ caller' = Idle
            /\ UNCHANGED <<enable_flag, opening, idVars, tableVars, workerVars, start_flag, fault>>
       ELSE Crash("use after free")

-----------------------------------------------------------------------------
Callers ==
  \/ \E n \in SlotNums : TiInit(n)
  \/ TiInitPastEnd \/ TiInitRefused
  \/ \E on \in BOOLEAN : TiEnable(on)
  \/ \E a \in Addr, type \in Types, interval \in Intervals : TiAdd(a, type, interval)
  \/ \E id \in Ids : TiDel(id)
  \/ TiDelAll
  \/ TiStart \/ TiStop \/ TiClose \/ TiCloseUninit

(* The rest of a call. *)
Finish == TiInitEnable \/ TiAddLink \/ TiStopKill \/ TiCloseKill \/ TiCloseFree

Next == Callers \/ Finish \/ Worker

Spec == Init /\ [][Next]_vars
=============================================================================
