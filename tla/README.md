# simple-timer in TLA+

A verification project for the C library simple-timer: a timing wheel
(`src/src/timer.c`), a min-heap timer manager (`src/src/minheap_timer.c`), and
the red-black tree and the lists they are built on. Source lines below are
those of `src/src/`.

## 1. The system

| component | state it keeps | operations | shares with |
|---|---|---|---|
| timer ids (timer.c 33-37, 839-899) | `timer_fd_bitmap`, `timer_fd_min_free`, `cur_timer_num` | pop, push, find_min_id; counted by add and del | everything below; protected by the manager's rwlock |
| timing wheel (timer.c) | `data[slot]` (list header, `timer_cnt`), `cur_slot`, timers (`interval`, `round`, `type`), `rb_root` | init, add, del, del all, enable/disable, the worker's walk, del_and_add | worker thread and callers |
| life cycle (timer.c 526-822) | `init_flag`, `start_flag`, `pid`, `timerfd`, `lock` | start (block, unblock), stop, close, the worker's END | as above, plus a stop signal and a join |
| list.h | `next`, `prev` of a node | add, add_tail, del, empty, is_last | wheel |
| rbtree.c | nodes with key, colour, three links | insert (keeps an existing key), search, erase | wheel: id -> timer |
| min-heap manager (minheap_timer.c) | `queue[]`, `cur_timer_num`, flags, `lock`, `mh_lock` | push, worker's pop and repush, start, stop, close | worker thread and callers |
| atomic.h, timer.h, example, test | none of their own | | |

How they interact. Callers run every operation of the wheel under the write
lock (enable and disable under the read lock). The worker thread does not: it
walks the current slot's list, reads `round` and `run_type` and calls the
callback with no lock, takes the write lock only in `del_and_add` and the READ
lock when it removes a single-shot timer, then waits in `read(timerfd)` and
advances `cur_slot` without the lock. `ti_stop` and `ti_close` clear
`start_flag`, sleep one second with the lock held, and kill the worker with a
signal wherever it is.

What is hard: the unlocked walk against calls of other threads and of
callbacks; a walk that changes the list under its own feet (`tmp = tmp->next`
after a removal); the kill at any point; what one life of a manager leaves for
the next; counters and a cached minimum that several paths must keep in step;
missed slots; the lock itself, which `ti_start` unlocks twice and `ti_close`
sometimes not at all. In the min-heap manager the worker holds a mutex and
never the lock, the signal that `ti_stop` sends does not end it, and the sift of
`ti_pop` moves expiry times where it should move timers.

What makes each component correct:

- ids: no two timers share one; the cached minimum agrees with the bitmap; the
  counter never understates; room according to the counter means an id.
- wheel: the lists are well linked and hold live timers only, the tree finds
  exactly those, every timer is in the slot that comes up when it is due, no
  freed memory is used, close leaks nothing; a timer runs once, on time, and
  eventually.
- life cycle: calls return, at most one worker, stop leaves none, `pid` names a
  thread that is there.
- red-black tree: the result is a search tree with the keys expected, balanced.
- min-heap: the head is the least; nothing is lost; a timer runs when it is due.

`PROJECT.json` lists the hazards line by line, with the property that watches
each one or the reason why none does.

## 2. The modules

| module | what it is |
|---|---|
| `IdBitmap` | the bitmap as the set of ids whose bit is set, `find_min_id`, `set_bit`, `unset_bit`, the minimum kept by `timer_id_push`, and what malloc and memset leave in a fresh bitmap |
| `TimerIds` | the id discipline of the wheel as a state machine: `TimerInit`, `Add`, `Del`, `Expire`, `DelAllEmpty`, `Close`. It is the abstract specification of the ids that the wheel implements |
| `TimerIdsProofs` | the theorems about `TimerIds` |
| `TimerWheel` | the wheel pointer by pointer: callers, worker, stop and close |
| `WheelProperties` | which callers are assumed (`ProperSpec`, `ServingSpec`, `QuietSpec`) and every property of the wheel |
| `WheelProofs` | the theorems about the wheel under proper callers: the refinement, starts, single-shot timers |
| `WheelQuietProofs` | the theorems about the wheel under quiet callers: lists, index, phase, memory |
| `WheelArith` | when a timer runs, in milliseconds and unsigned words: the slot and the turns that `ti_add` and `del_and_add` compute, and the worker that counts them down |
| `WheelArithProofs` | the theorems about `WheelArith` |
| `GlibcRwLock` | external: the `pthread_rwlock_t` of the GNU C library, as a record and the operations on it |
| `WheelLifecycle` | the calls and the worker's way in and out of `timer.c` over that lock: double unlock, join, sleep, kill, the two stores of END |
| `WheelLifecycleProofs` | the theorems about `WheelLifecycle` |
| `RbTree` | the red-black tree link by link, a step per rotation |
| `RbTreeProofs` | the theorems about `RbTree`, that it takes only steps of the index among them |
| `IdIndex` | what its callers rely on: an index in which an insert adds its key, an erase takes its key away, and every call returns. `RbTree` implements it |
| `MinHeap` | the array heap: what `ti_push`, `repush` and `ti_pop` do to it |
| `MhTimer` | the min-heap manager: callers, workers, mutex and timerfd |
| `MhTimerProofs` | the theorems about `MhTimer`, and about the sifting of `MinHeap` |
| `NatLemmas` | lemmas the proofs share: least elements, remainders, loops that descend |
| `MCTimerIds`, `MCTimerWheel`, `MCWheelArith`, `MCWheelLifecycle`, `MCRbTree`, `MCMhTimer` | what TLC instantiates; the second and the last declare symmetries, the second the prompt `ti_init` and the last the view that keep the states few (section 4) |

### TimerWheel and timer.c

- `Addr` are the heap cells that hold timers; a cell is reused after a free, so
  that a dangling pointer can meet a new timer. A list header is named by its
  slot number. `next` and `prev` are the links, `Poison` is what `list_del`
  leaves. `Valid(x)` says that memory may be touched.
- `ti_add` takes two steps, `TiAdd` (checks, id, slot from `cur_slot`) and
  `TiAddLink` (list, tree, counters), because the worker advances `cur_slot`
  without the lock in between; `ti_stop` takes two (`TiStop`, `TiStopKill`) and
  `ti_close` three (`TiClose`, `TiCloseKill`, `TiCloseFree`), because of the sleep,
  and `ti_close` kills nobody when `start_flag` is clear already; `ti_init` sets
  `enable_flag` in a step of its own (`TiInitEnable`), after its unlock; `opening`
  says that one is still to do so, one at a time. Every other call is one step: what it touches is only touched
  under the lock, or by a worker step that comes before or after it.
- The worker: `Arm` (timerfd_settime), `Loop`, then per node `PassBy` (a turn
  less) or `Fire` (callback) followed by `Rearm`, `RearmRefused` or `Expire`;
  `WalkEnds`, then `Tick` or `Overrun`, and at END `End` (752) and `Leave` (753).
  Between two of them callers run. A start between the last two would have its
  worker's pid cleared; it ends the behaviour (fault "pid"), because there is one
  worker in this module. `WheelLifecycle` shows what comes of that. Late
  reads are counted over the worker's life and the one with number `LateReads`
  (5 in the code) ends it.
- `fault` names the first misuse of memory. C says nothing of what follows, so
  the behaviour ends there: `Crash` leaves no worker and a caller that never
  returns.
- Two misuses are certain whatever callers do, and harmless or not as the
  allocator has it. The memset of 249 clears 4 bytes (`ZeroedBytes`) of a bitmap
  that may have fewer: `TiInit` if it stays in malloc's padding, `TiInitPastEnd`
  (fault "memset") if not; `TimerIds` has the same choice. Line 717 reads the id
  of the timer that 716 has freed: `Expire` if it is still there,
  `ExpireMisread` (fault "freed id") if not. `MemorySafe` names the other
  misuses (`Misuse`) and says nothing of these two (`Exempt`).
- Four ghosts of a timer are written by the steps and read by properties only:
  `due` (slots left until it should run, counted in moves of `cur_slot`: what a
  late read skips is lost to every timer alike), `ran` (the callback ran since
  it was armed), `cut` (a worker ended or was killed since it was armed) and
  `torn` (the worker was killed at this very timer, after its callback and before
  its removal).

Abstractions:

- The lock is ideal. That is exact for a wheel started with
  `TIMER_START_BLOCK` while it runs: the second unlock of line 614 comes after
  the join. What the lock does otherwise is the subject of `WheelLifecycle`.
- Time is counted in slots, intervals are multiples of `time_slot`, the product
  of line 338 does not overflow. Intervals in milliseconds and words of a given
  width are the subject of `WheelArith`.
- A read or a list operation on one node is one step. A signal is delivered as
  it is sent.
- malloc, timerfd_create and pthread_create succeed. A callback is one step
  between `Fire` and what follows, in which any call of any thread, the
  callback's own included, may happen. THREAD and SIGNAL timers are not told
  apart, their parameters are not modelled.
- A read of the timerfd does not fail while it is open: every signal but the
  stop signal is blocked in the worker.
- A cell that is free reads as `NoTimer`, and `Elapsed` keeps `due` of an
  overdue timer within two turns, so that the states stay finite.

### WheelArith and timer.c

One timer, `TiInit` with every configuration that `check_timer_manager_conf`
accepts, `TiAdd` with every interval that `check_timer` accepts, at any millisecond after the
last tick, and the worker:
`Pass`, `CountDown` or `Fire` for the current slot, then `Tick`. `Index` and `Turn` wrap
as the code's `unsigned int` does, and `Index` is then kept in an `int` (`AsInt`). A `Turn`
of 0 divides by zero and a negative `Index` is a slot before the array: both end the
program. Two ghosts: `since`, the milliseconds that had passed of the slot when the timer
was armed (0 when it is armed again, at a tick), and `waited`, the ticks since then, capped
at `WaitBound`, where any account finds it late; `Elapsed` makes milliseconds of them. Lists, stops and late reads are left to
`TimerWheel`.

### WheelLifecycle and timer.c

`at[t]` is where thread t is. A call goes for the lock (`Call`), gets it
(`WrLock`, `RdLock`, `WrGranted`, `RdGranted`), and only then is it decided which
call it is, which makes no difference to anybody but saves states. `TiUse` stands for every call
that takes the write lock and gives it back: add, del, a refused init, a start or
a stop that finds nothing to do. `TiStart` sets `start_flag`, the new worker and
`pid` and does the first unlock; `Join` reads `pid` after that unlock;
it waits for a thread that can be joined and returns at once from one that cannot,
because it was started detached meanwhile. `UnlockAgain` is line 614. `TestPid` and `LoadPid` are
the two reads of `pid` (545, 546), `Kill` is the signal to what was read, `ClearPid` the
store of 547: the worker's own stores may come between any two of them. `target`
is the thread that a caller has read for a join or a kill, `detached` the workers that
nobody can join. A worker that has "ended" is there to be joined until it is, one that
was detached is gone. The
worker goes for the write lock in `del_and_add` and for the read lock when it
removes a single-shot timer; `End` and `EndPid` are the two stores.

- `GlibcRwLock` is the reader-preferring lock of the GNU C library: readers
  are counted when they come, waiting or reading; a writer claims, then waits
  for the write phase; an unlock by a thread that is not the writer takes a
  reader off the count. That is what a
  killed waiting reader leaves behind and what line 614 does. POSIX leaves both
  undefined, so this model is about that library.
- The one-second sleep of `ti_stop` is enough for a new worker to take its first
  step (`TestPid` waits for nobody at "begin").
- The signal is delivered as it is sent: the time it takes is not modelled.
- A kill or a join of thread 0, or a kill of a detached thread that is gone, is the
  `fault`, and ends the behaviour.
- A start type that is neither of the two, for which 584-612 start no thread and
  keep the lock until 614, is not modelled.
- `damage`, a ghost, notes the three steps after which the lock is no longer
  right about its users, and the start that loses a worker. After such a step the
  actions stay as they are; two writers inside at once are interleaved call by
  call.
- `LockBound` bounds how far the reader count may have drifted when a start is
  made.

### RbTree and rbtree.c

A node is named by its key, as no code copies a key into another node. The
mirrored halves of the code are one action with a direction. `InsertRecolour`,
`InsertStraighten` and `InsertRotate` are the three cases of an iteration of
`rb_insert_rebalance`, `EraseTurn`, `EraseRecolour`, `EraseStraighten` and
`EraseRotate` those of `rb_erase_rebalance`; the test of the loop is made
between them as well, where the code does not make it, which changes nothing
while `RedRule` holds. Allocation is left to the callers.

### MinHeap, MhTimer and minheap_timer.c

`queue` is the array from slot 0. `left` of a timer is `expiretime` minus the
present, in seconds. `TiPush` makes the timer and computes its
expiry, `PushLocked` or `PushRefused` gets the mutex: seconds may pass in between. The
worker: `Arm`, `Loop`, `Look` (takes the mutex, reads the head, runs the
callback), then `PopRepeat` and `Repush`, or `PopSingle`, or `GiveUp` when a stop
came in between (or `RepushClosed`, when a close and a start did), then `Read`, or
`ReadFails` when the timerfd was closed, and `End`, the store of 651, which a start
may come before and is lost to it.

- The read-write lock is ideal: `ti_push` reads, `ti_init`, `ti_start` and
  `ti_close` write. The clock is read in the step that takes the mutex.
- `ti_stop` sends `SIGRTMAX-3`, the worker ends for signal 62, so that the kill
  changes nothing and `pid`, which serves for it, is not modelled. The sleep of
  `ti_stop` under the read lock lets everything happen that may happen after it. The join of a blocking start is left out.
- The timerfd counts at most two unread expirations, which is all that
  `exp > 1` tells apart; one that was never set (`Unarmed`) counts none.
- `ti_close` waits for no worker: it sleeps a second, which is a worker's own
  period, and not even that when `start_flag` is clear already. `TiCloseFree` may
  therefore come whatever a worker is doing. It frees slot by slot, so that a
  timer in two slots, or one that is freed already, is a "double free". A worker
  that uses the queue of a closed manager, or whose timer is freed in its
  callback, is the fault "closed queue". A fault ends the behaviour.
- `Spec` is any callers, `BusySpec`, which the runs use to keep their states few,
  callers who never enable or disable. The theorems are about `Spec`.
- Run types, parameters and failing allocations are left out, as in the wheel.

Bounds, by name: `TimerMax` (timer_max_num), `ByteBits` (8 in C), `ZeroedBytes`
(4), `SlotNums`, `Intervals`, `Addr`, `LateReads` (5 in C), `Key`, `MaxTimers`
(max_timer_num), `Cell`, `Caller`, `Worker`, `Width` (32 in C), `TimeSlots`. Two are artificial guards:
`CntBound`, as `ti_add` stops when a `timer_cnt` has reached it (`ti_del` never
lowers that counter), and `LockBound`.

## 3. The callers that the properties assume

Of the wheel:

- `Spec`: any call at any time.
- `ProperSpec`: any number of threads, none of which calls `del(0)` with timers
  in the wheel, starts a manager whose `init` was refused, deletes from or
  closes a closed manager, or closes with timers and then initialises again.
  Each exclusion is a defect of its own (section 5).
- `QuietSpec`: proper callers who call only when no slot is being walked. It
  still lets them stop the wheel: the kill may come at any point of the walk.
- `ServingSpec`: quiet callers who neither stop nor close.

The quiet assumption is strong; it is the weakest we found under which the wheel
does not use freed memory. Without it `wheel_shared` gives a counterexample.

Of the life cycle: none, any thread calls anything at any time, except from a
callback. Of the tree: a new key for an insert, a key that is there for an erase
(the others change nothing). Of the heap: none; calls from a callback are left out.

## 4. What is checked

Passing runs, two TLC workers, a few minutes each at most:

| run | states | question |
|---|---|---|
| `ids_spare` | 1 984 | the five properties of the ids, 7 timers in two bytes of 4 bits, through closes and new lives |
| `wheel_quiet` | 1 833 416 | structure: lists, index, phase, counters, close and memory, with a late read that ends the worker |
| `wheel_proper` | 3 377 302 | whatever the interleaving with the unlocked walk, up to the first fault: the wheel implements `TimerIds`, a start meets no worker with more to do than its last store, and a single-shot timer runs once unless it was torn |
| `wheel_alone` | 257 950 | a single timer in three slots, late reads up to the third, restarts: on time (`OnTimeAlone`) and served in the end (`Served`), under fairness |
| `arith` | 153 720 | one timer, all configurations and intervals in four-bit words, added at any millisecond: early by less than two slots where nothing wraps (`RunsWithinTwoSlots`), and served in the end (`Runs`) even where something does |
| `life` | 421 526 | two callers, two workers: the lock is right and hands itself to every writer until something ruins it or readers keep it; `pid` names the worker there is, and a thread that ended only until the stop has cleared it |
| `rb_tree` | 34 175 | all sequences of inserts and erases of nine keys: a red-black tree, no null pointer followed, an index for its callers |
| `mh_two` | 1 149 104 | at most two timers, two callers, two workers, closes that do not wait: queue, counter, order, mutex and memory |

Why the bounds suffice. Two cells make a list with a first and a last timer, the
smallest in which removing one node disturbs the walk to another, and let a cell
be freed and reused while a pointer to it lives. Two slots make the wrap-around,
an interval of a whole turn (2) and of one slot (1); interval 3 gives a timer
with a turn to go. Three ids for two cells let the counter reach its limit,
since expired timers stay counted; `wheel_proper` has two ids and no spare bit,
so that the refinement is also checked for the step that gives out id 0, and
clears one bit, so that the other starts as garbage. One
late read (`LateReads` 1) ends the worker at once, which is the case that
leaves a mark; `wheel_alone` has reads that are late and survived. In
`ids_spare` seven timers in two bytes of four bits cross a byte boundary and
leave one bit spare; that no size behaves otherwise is proved. Both bytes are fewer
than the four that memset clears, so that its overrun happens. Four bits let products and sums of configurations wrap, to 0 as well
(4 slots of 4 ms), and leave room for intervals of several turns. Nine keys reach
all the cases of both rebalancings, in both directions (every action fires). In
`life`, two workers let one that ends meet the next, and two callers let a call
come between any two steps of a stop or a start; what takes a third caller, two readers
that overlap for ever, is excluded by the property itself. In `mh_two` three cells for two
places leave one for a push that is refused and one that waits; more than two
timers make `ti_pop` go wrong (`mh_three`).

Two reductions keep the states few. `Prompt` (`wheel_quiet`) has
`ti_init` make its last store before anything else happens; the other runs and the
proofs do without. `View` (`mh_two`, `mh_three`): of timers that are overdue only
the order counts, since the code compares times and looks at no difference, and none
of them runs again before it is pushed anew; so states that differ only in how long
ago timers expired are one. The theorems do without it.

Fairness. `FairServing`: `SF_vars(QuietWorker)`, as the worker's thread is
scheduled and the timerfd fires, but the worker is disabled in each step of an
add that holds the lock, so weak fairness would let a caller who adds and
deletes for ever stop it; `WF_vars(TiAddLink)` and `WF_vars(TiInitEnable)`, as a call under way
goes on. `FairSpec` of the life cycle: a caller in a call and a worker go on
(weak), and a thread to which the lock is open time and again gets it (strong;
the futex wakes every waiter). The lock prefers readers: with three callers, two whose
`ti_enable` overlap for ever keep a writer out for ever, and no fairness among threads
changes that. `ReturnsUndamaged` therefore assumes that time and again nobody reads or
waits to (`[]<>(Readers = {})`); with it TLC finds no violation for three callers and one
worker either, without it it finds the one described. `WheelArith`: the worker is
scheduled and time passes. `RbTree`: a call, once made, goes on. Nothing is
assumed of callers: they need never call.

Refinement. `RefinesIds` reads the wheel as `TimerIds` with `held` = the ids of
the live timers, `fault` = those of the bits and of the memset, and `cur_timer_num` one ahead
between the two steps of an add. Lists, slots, rounds and the worker's walk
stutter; `TiAdd`, `TiDel`, `Expire`, `TiCloseFree` are steps of `TimerIds`.
`WheelRefinesIds` proves it for every instance, so what is proved of `TimerIds`
is proved of the wheel; `wheel_proper` shows it on one.
`IsIndex` reads the tree as `IdIndex` with `keys` = the keys that a search from
the root finds, in the middle of a rebalancing too. `CallsAgree`, a part of it, ties each
call to its own key: the step `Insert(k)` of the tree is `Insert(k)` of the index, and
`Erase(k)` likewise. Its liveness part says that both loops end. `TreeIsIndex` proves the other part for every set of keys.

Every property has a mutant in `PROJECT.json`: a plausible slip in a named
definition, written beside it in the module, which must break the property.

## 5. Where the code and its documents disagree

| run | shows | document |
|---|---|---|
| `wheel_late` | two timers in one slot: after the first is removed the second is passed over for a turn (726) | timer.h:54 |
| `wheel_shared` | a call during the walk makes the worker use freed memory (671) | README.txt:18 |
| `life_hang` | one caller that starts and stops its wheel with unblocking starts drives the reader count below 0 and in the end waits for ever for the lock (614) | README.txt:18, example.c:59-67 |
| `mh_three` | with three timers in the heap the wrong one is taken out and the timer that ran stays, freed: it is read again or freed again (minheap_timer.c:418) | minheap_timer.c:143 |

Further disagreements of the wheel, each found with TLC by checking the property
named under the configuration named, and given no run of its own:

- `RefusedOnlyWhenFull` (`ids_spare.cfg`): the worker's removal of a single-shot timer
  does not lower `cur_timer_num`; once `timer_max_num` of them have expired every add is
  refused (717), against timer.h:58.
- `NeverWild` (`ids_spare.cfg` with `TimerMax = 8`): with no spare bit, fill the
  wheel, delete one timer, add one: id 0 is given out and its bit is set outside
  the bitmap (878), against timer.h:58.
- `PopsLeastUnused` (`ids_spare.cfg` with `ZeroedBytes = 1`): the
  ids past the cleared bytes start as garbage and may never be given out, against
  timer.c:869.
- `NeverEarly` (`wheel_late.cfg` with `TimerMax = 4`, `ByteBits = 8`, `Intervals = {1, 3}`, three
  cells, `LateReads = 9`): a removal at the end of a list restarts the walk, and
  timers before it run early (726), against timer.h:54.
- `LeastIntervalFirst` (the same with `LateReads = 1`): only the first timer is
  compared on insertion, so after it is deleted the list does not start with the
  least interval, against timer.c:279.
- `NeverEarly` (`wheel_late.cfg`, one cell, `Intervals = {3}`, no symmetry): a
  worker that ends after its walk and before it advances has the next one walk
  the slot again; a turn early (737).
- `NeverLate` (`wheel_late.cfg`, one cell, `Intervals = {2}`, no symmetry): a timer
  whose interval is one whole turn waits two (338).
- `RepeatRearmed` (`wheel_late.cfg` with `TimerMax = 1`): in a full wheel a repeating
  timer is not re-armed and runs every turn (388).
- `Served` (`wheel_late.cfg` with `FairServing`, `Intervals = {1, 3}` and no
  symmetry): a repeating timer that is served just before another of the same
  slot starves it (726).
- `FiresOnce` without its exception for `torn` (`wheel_shared.cfg`): killed between callback and
  removal, a single-shot timer runs again after the next start (546).
- `fault \notin Exempt` (`wheel_late.cfg`): the memset past a bitmap of fewer than 4 bytes
  (249), which takes a `timer_max_num` of up to 24, and the id read from a freed timer (717); both
  need no interleaving at all.
- `WithinPrecision` (`arith.cfg`): a timer of 5 ms in slots of 3 ms, added 2 ms after a
  tick, runs 1 ms later: early by 4 ms, more than the slot that timer.h:54 calls the
  precision. `RunsWithinTwoSlots` is what does hold.
- `AddedFound` (`wheel_shared.cfg` with `Spec`, `Intervals = {1}`, no symmetry):
  after close, init and add, the id leads to the freed timer of the earlier life
  (184), against test.c:66-71.
- `DelAllSafe` (the same with one cell): `del(0)` frees a list header (454), against
  timer.c:429.
- `RunsWithinTwoSlots` without `NoWrap` (`arith.cfg`): where `time_slot * slot_num` wraps, a timer takes
  turns that nobody asked for, and a product that wraps to 0 ends the program at
  the first add (338), and a slot number of more than half the words gives a negative
  slot (316), though `check_timer_manager_conf` takes the configuration
  for legal (22), against timer.h:54.

Of the life cycle, each visible when the exception named is taken out of the
property: a start between the two stores of END loses the new worker's pid
(`WorkerKnown` without `damage = {}`, 752); a blocking start whose worker has
ended joins thread 0 (605), and a stop may kill it (545) (`fault`); between the kill and
the store of 547 `pid` names a thread that has ended, which a blocking start may then join
(`PidAlive` without its first exception); a close
without init keeps the lock (768), and a kill at the read lock leaves a reader
(708) (`ReturnsUndamaged`, `Intact` without `damage`); readers that overlap keep a writer
out (901, `ReturnsUndamaged` without its premise, three callers). A stop from a callback
kills the thread that holds the lock (543); that is read off the code.

Of the min-heap manager: a timer runs in the first round in which its time has
NOT come (`NeverEarly` under `mh_two.cfg`; the test of 579 is the wrong way
round, against README.txt:13), and once overdue it is never served and, at the
head, nor is any timer behind it; with four timers the head is not the least
(`LeastFirst` under `mh_three.cfg` with `MaxTimers = 4`, four cells,
`Intervals = {1, 2}`, against minheap_timer.c:207); a worker that is past the test of 569, or in a callback, when `ti_close`
frees the queue uses it afterwards (`fault # "closed queue"` under `mh_two.cfg`; a second of
sleep (673) is the worker's own period, and there is none when an old worker's END has cleared
`start_flag`); a start that comes before an old worker's store of 651 is undone by it; a refused push leaks its timer
(273-278, in the model as `PushRefused`). Read off the code: a callback that
pushes waits for its own thread (595); the parameter of a THREAD timer is freed
under it (622).

## 6. What is proved

`TimerIdsProofs`, for every `TimerMax`, `ByteBits` and `ZeroedBytes` above 0
(`IdAssumption`, the only assumption):

- `IdsInvariant`: `Spec => []IdsInv`, the inductive invariant.
- `TypeCorrect`, `IdsNeverShared`, `CachedMinimum`, `CapacityCovers`,
  `SpareBitSuffices`: `TypeOK`, `FreshId`, `LeastFree`, `CountCoversHeld` and
  `RoomMeansId` always hold.

The argument. `FreshId` alone is not inductive: that the next id is free rests
on the bit of every held id being set, and on the cached minimum being a clear
bit. `IdsInv` therefore adds `HeldMarked` (`held` is contained in the bitmap)
to the four invariants and, for configurations with a spare bit, `SpareExact`:
nothing but `held` is marked, no bit was set outside the bitmap and the cached minimum
is not 0. `SpareBitSuffices` claims nothing of the memset of `ti_init`, which overruns a bitmap of
fewer than `ZeroedBytes` bytes; that is `MemsetPastEnd`, after which nothing happens. `FindMinIdLeast` carries it through the two
nested scans of `find_min_id`: the id it computes is the least one whose bit is
clear, since ids of a later byte are larger (`LaterByteLargerId`) and every id
has exactly one bit (`IdHasBit`, `BitHasId`). The counting part needs that a
finite set grows or shrinks by one; `SpareBitSuffices` adds that 0 can only be
computed when all `Bytes * ByteBits` bits are set, more than `TimerMax`
timers could set.

`WheelProofs`, for proper callers in any number, every set of slot counts with
a greatest one, every finite heap, any intervals and any number of late reads
(`WheelAssumption`, `IdAssumption`):

- `WheelRefinesIds`: `ProperSpec => RefinesIds`, the worker walking without the
  lock included.
- `StartsAlone`: `OneWorker`, a start meets no worker that touches the wheel again.
- `RunsOnce`: `FiresOnce`, with calls of other threads and of the callback itself going on
  meanwhile. Beside `WheelInv` it needs `RanOnce`: a single-shot timer whose callback ran is the
  one the worker is at, or is torn.

The inductive invariant `WheelInv` has four parts: `WheelType`; `Control` (which
of the lock, the worker's place and the flags go together); `Indexed` (live
timers have different ids, and the tree finds each that is linked under its
id); and the invariant of `TimerIds` itself, read through the mapping. The last
is used to prove the refinement it follows from: that the wheel gives a new
timer an id no live timer has is `FreshId` of `TimerIds`, in the state before
the step. `WheelType` lets the counts of the slots be any integer: under
callers who meet the walk the worker can count a slot's timers below zero.

`WheelQuietProofs`, for quiet callers, otherwise as general:

- `QuietTypeCorrect`, `QuietWellLinked`, `QuietIndexAgrees`, `QuietInPhase`,
  `QuietCountCovers`, `QuietCloseFreesAll`: `TypeOK`,
  `WellLinked`, `IndexAgrees`, `InPhase`, `CountCoversSlot`, `CloseFreesAll`.
- `QuietListsSafe`: no step follows or frees a pointer to freed memory, and no start loses its
  worker's pid.
- `QuietMemorySafe`: with a spare bit in the bitmap (`SpareBit`) and one slot count
  in all lives (`OneSlotCount`), `MemorySafe`: it is about pointers, the array of slots and the bits, and
  not about the memset of 249 and the id that 717 reads from the freed timer, which are
  wrong whatever callers do. Both conditions are needed: without the
  one `timer_id_push` writes past the bitmap, without the other `cur_slot`, which
  survives `ti_close`, points past a smaller array (hazards of 878 and 667).
- `QuietOnTime`: as long as no two timers share a slot (`OwnSlots`), `OnTimeAlone`. The run
  checks it for a single timer in the wheel; the theorem is about any number of them.

The argument. That links agree in both directions is not inductive: two
nodes of different lists could be exchanged by a removal. `QuietInv` says which
list a node is in and where: its home, the slot that the worker reaches when
the timer is due, and a `rank`, which counts the nodes of a list without gaps from
the header. `SlotLists` says that there is a rank under which each
list holds exactly the timers at home there, and that `timer_cnt` is no less than
their number. `UnlinkedLists` and `BetweenLists` show that a removal and an insertion
anywhere keep such lists, by writing down the new rank; the home of a timer moves
with `cur_slot`, which `HomeKept` shows to be no movement at all, as `due` is
counted down in the same step. `AddUnderWay` (an add between its two steps),
`Walking` (the worker's pointers are in the current list) and `Kept`
are what the steps need besides. `MembersOfClass` connects this with the
properties, which follow `next` pointers, since a list of n nodes
is walked in n steps. `Account` is what `QuietOnTime` needs besides: the turns a timer
has left, with the one that the walk of this slot has already taken off, are the turns
until it is due (`due \div slot_num`), or one more (`Late`) where the interval is a number
of whole turns; a worker's end makes them fewer, as the next one walks the slot again.
`OwnSlots` cannot be dropped: with two timers in a slot, line 726 passes one over
(`wheel_late`) or counts one twice (`NeverEarly`).

`WheelArithProofs`, for words of every width and any configurations and
intervals (`ArithAssumption`: 0 is a word):

- `ArithTypeCorrect`: `TypeOK`: what is computed, wrapped where it wraps, is in range.
- `FiresWithinTwoSlots`: `RunsWithinTwoSlots`.

The invariant `Phase` says how far the worker is from the timer: while nothing wraps, the slots
waited and the slots ahead, with one turn for each that is still to be counted, make up the
interval in slots, or that and one turn where the interval is a whole
number of turns (`late`). In milliseconds that leaves what the division by `time_slot` drops,
less than a slot, and `since`, what had passed of the slot before the first tick. `NatLemmas` has the facts about
remainders it needs.

`WheelLifecycleProofs`, for any number of callers and workers and any drift of
the reader count (`LifecycleAssumption`: callers and workers are finitely many
different threads, none of them 0):

- `LifeTypeCorrect`, `PidNamesLiveWorker`: `TypeOK` and `PidAlive` always hold.
- `LockIntact`: `Intact`: until one of the steps that damage it is taken, the lock is right
  about its users.
- `OnlyWorkerKnown`: `WorkerKnown`: until something is damaged, `pid` names the
  worker that serves.

The argument. Only two steps end a thread, the kill and the worker's last store. The
second clears `pid`; the first leaves that to a later step, so that `PidShown`, the first half of
`PidAlive`, is kept up by the caller that is at "clear". It needs no more than where threads may be,
since a step starts at the place of a thread (`Places`), and every other step moves one
thread, which `CallerGoes` and `WorkerGoes` cover once for all: it holds after the lock is ruined,
too. The second half rests on the lock: only one caller is inside at a time, so what a stop
has read of `pid` is still there or was cleared by the worker (`KillRight`).
`Intact` needs the lock's phases: `LockRight` relates the
reader count, the claim, the owner and the write phase to the places of the
threads, those that wait included, as long as the lock is undamaged. `WorkerRight` adds
that the worker there is, ending or not, is the one in `pid`, that without `start_flag`
a stop is under way or the worker is at its last store, and that none is left when a
stop is about to clear `pid`.

`MhTimerProofs`, for any callers, workers, cells, capacity and late reads
(`MhAssumption`: positive intervals with a greatest one, at least one late read;
`HeapAssumption`), who may close the manager under a worker (`Spec`):

- `MhTypeCorrect`, `MhMutexGivenUp`: `TypeOK`, `MutexGivenUp`.
- `HeapStaysSound`, `HeapMemorySafe`, `HeadExpiresFirst`, `HeapPopsWhatFired`:
  `HeapSound`, `MemorySafe`, `LeastFirst` and `PopsWhatFired`, all under
  `ShallowPops`: no pop meets more than two timers. `MemorySafe` is about freed timers: that
  nobody uses a closed queue is false and not claimed.

`ShallowPops` is a condition on behaviours, not on the capacity: pushes into a
heap of any size are covered. It cannot be dropped: with three timers `ti_pop`
takes out the wrong one (`mh_three`). `MhInv` holds without it: who has the mutex
serves the head or has taken it out, be it out of a queue that was freed since, and `cur_timer_num` counts the slots in use
(`Filled`), to which it is enough that the sifting, whatever it does to the
order, moves timers among the used slots (`PutInFills`, `TakenOutFills`). `HeapInv` adds the order of the heap and that every
timer is in one place only: the queue, a push, or with the worker that has
popped it. That is what a close frees, slot by slot, without freeing anything twice, whatever the
workers are at. `PutInOrders` is the correctness of `ti_push`'s sift for a heap of any
size: the loop moves the nodes of one way to the root down by one place
(`CameDown`).

`RbTreeProofs`, for every finite set of keys (`TreeAssumption`: integers, `Nil`
not among them):

- `TreeInvariant`: `Spec => []TreeInv`, the inductive invariant.
- `TreeTypeCorrect`, `TreeLinksAgree`, `TreeRedRule`, `TreeBlackHeights`,
  `TreeFollowsNoNull`: `TypeOK`, `LinksAgree`, `RedRule`, `BlackHeights`,
  `NoNullFollowed`.
- `TreeIsIndex`: the safety part of `IsIndex`: initial states map to initial states
  of `IdIndex`, every step to a step or a stutter, and a call for a key to the call for
  that key.

The argument. What a recursive walk over the tree finds cannot be proved about by
induction over the tree, so `TreeInv` says that there are a `d`, the keys below each node,
and a `b`, the number of black nodes on any way down from it. `Shape` relates `d` to the
links: a node's set is itself with the sets of its children (`Subtrees`), smaller
keys left and greater right (`Sorted`), links up and down agree (`LinksUp`,
`Hangs`), and what is not in the tree has no links (`Outside`). `Reds` and
`Heights` are the two rules of the colours, each with the one place where the
running loop may break it: the node it is at, and the way below `parent` where
an erase took a black node (`Gap`). `RotatedShape` and `RotatedHeights` show once what a
rotation makes of `d` and `b`; the cases of both loops rest on them. `rb_erase`
is a node taken out (`TakenOutRight`: it has one child at most) and, when it had two children,
the successor that was taken out put in its place, which is a renaming
of one node (`RenamedRight`). `LoopExists` and `LoopKeeps` of
`NatLemmas` compute the search, the way to the successor and the ways up to the
root: each step of them makes `d` smaller, or greater. `NoNullFollowed` follows by counting: a node with
a black node missing below it has a sibling with at least one.

Only model-checked: liveness (`Served`, `Runs`,
`ReturnsUndamaged`, the second half of `IsIndex`), which is out of the
prover's reach, as is `ENABLED`. Every invariant and every safety part of a property that a passing run checks
is proved.

## 7. Plan

Done, in this order: the ids; the wheel on top of them; arithmetic; life cycle and lock; tree;
heap manager; for each the runs first and then the theorems. Left:

1. `CallbackParam`: the lifetime of a parameter that a detached thread uses.
2. `TimerService`: what a user is promised (each timer runs once, or
   periodically, within two slots of its due time), with `TimerWheel` and `WheelArith` for a
   single timer as its implementation.

## 8. Not modelled

`atomic.h` (compiler intrinsics), the unused part of `list.h`, output to
stderr, the build files, the example and the tests. The latter two are read as
callers. `destroy_timer_manager` and `destroy_mh_timer_manager` (timer.c 165-171, minheap_timer.c
127-133): a close, modelled, and then the end of the lock and of the manager. Of the modelled components: failing allocations and thread creation,
THREAD and SIGNAL run types and parameters, calls from a callback that end the
wheel, a start type that is neither of the two, and the time between the sending of
a signal and its delivery.

## 9. Running

In this directory: `tlc -workers 2 -config wheel_quiet.cfg MCTimerWheel`, and
likewise `ids_spare` with `MCTimerIds`, `arith` with `MCWheelArith`, `life*` with `MCWheelLifecycle`, `rb_tree` with
`MCRbTree`, `mh_*` with `MCMhTimer`; `tlapm` with
`NatLemmas.tla`, `TimerIdsProofs.tla`, `WheelProofs.tla`, `WheelQuietProofs.tla`,
`WheelArithProofs.tla`, `WheelLifecycleProofs.tla`, `MhTimerProofs.tla`,
`RbTreeProofs.tla` (a quarter of an hour; the others take minutes).
