----------------------------- MODULE WheelArith -----------------------------
(***************************************************************************)
(* When a timer of the wheel of src/timer.c runs, in the arithmetic of the *)
(* code: intervals and time slots in milliseconds, slots and turns         *)
(* computed in unsigned words, the slot kept in a signed one.  One timer   *)
(* and a worker that no tick escapes; the lists a timer shares with others *)
(* and late reads are TimerWheel's subject.                                *)
(***************************************************************************)
EXTENDS Integers

CONSTANTS
  Width,        \* bits of an unsigned int: 32
  TimeSlots,    \* the lengths of a slot that callers configure, in ms
  SlotNums,     \* the slot counts
  Intervals     \* the intervals of timers, in ms

Word == 0 .. 2^Width - 1

\* That a word can be 0 is arithmetic, which the provers do not know of 2^Width.
ASSUME ArithAssumption ==
  Width \in Nat \ {0} /\ 0 \in Word /\ TimeSlots \cup SlotNums \cup Intervals \subseteq Word

VARIABLES
  time_slot, slot_num,  \* 0, 0: not initialised
  cur_slot,
  pc,                   \* the worker: "walk" or "read"
  timer,                \* the timer in the wheel, or NoTimer
  waited,               \* ghost: ticks since it was armed
  since,                \* ghost: ms since the last tick when it was armed
  fault

vars == <<time_slot, slot_num, cur_slot, pc, timer, waited, since, fault>>

Types == {"SINGLE_SHOT", "REPEAT"}
NoTimer == [type |-> "none", interval |-> 0, index |-> 0, round |-> 0]

Init ==
  /\ time_slot = 0 /\ slot_num = 0 /\ cur_slot = 0
  /\ pc = "walk" /\ timer = NoTimer
  /\ waited = 0 /\ since = 0 /\ fault = "none"

(* ti_init of a configuration that check_timer_manager_conf accepts.       *)
TiInit(length, number) ==
  /\ slot_num = 0 /\ length > 0 /\ number >= 2
  /\ time_slot' = length /\ slot_num' = number
  /\ UNCHANGED <<cur_slot, pc, timer, waited, since, fault>>

\* The int that an unsigned word becomes.
AsInt(word) == IF word < 2^(Width - 1) THEN word ELSE word - 2^Width

\* A slot counted with a slot's length for the number of slots.
IndexByLength(interval) == AsInt(((cur_slot + interval \div time_slot) % 2^Width) % time_slot)

Index(interval) == AsInt(((cur_slot + interval \div time_slot) % 2^Width) % slot_num)
Turn == (time_slot * slot_num) % 2^Width

\* Turns rounded up.
RoundUp(interval) == (interval + Turn - 1) \div Turn
Round(interval) == interval \div Turn

Overflows == {"division by zero", "negative index"}

(* What ti_add and del_and_add compute, ms after a tick: a turn of no      *)
(* milliseconds divides by zero, a slot that is negative as an int lies    *)
(* before data.                                                            *)
Arm(type, interval, ms) ==
  \/ /\ Turn = 0
     /\ fault' = "division by zero" /\ UNCHANGED <<timer, waited, since>>
  \/ /\ Turn # 0 /\ Index(interval) < 0
     /\ fault' = "negative index" /\ UNCHANGED <<timer, waited, since>>
  \/ /\ Turn # 0 /\ Index(interval) >= 0
     /\ timer' = [type |-> type, interval |-> interval,
                  index |-> Index(interval), round |-> Round(interval)]
     /\ waited' = 0 /\ since' = ms
     /\ UNCHANGED fault

TiAdd(type, interval, ms) ==
  /\ slot_num > 0 /\ timer = NoTimer /\ fault = "none"
  /\ interval >= time_slot /\ ms < time_slot
  /\ Arm(type, interval, ms)
  /\ UNCHANGED <<time_slot, slot_num, cur_slot, pc>>

Here == pc = "walk" /\ slot_num > 0 /\ fault = "none"
Met  == Here /\ timer # NoTimer /\ timer.index = cur_slot

(* The worker walks the current slot: no timer in it ...                   *)
Pass ==
  /\ Here /\ ~Met
  /\ pc' = "read"
  /\ UNCHANGED <<time_slot, slot_num, cur_slot, timer, waited, since, fault>>

(* ... a timer with turns left ...                                         *)
CountDown ==
  /\ Met /\ timer.round # 0
  /\ timer' = [timer EXCEPT !.round = @ - 1]
  /\ pc' = "read"
  /\ UNCHANGED <<time_slot, slot_num, cur_slot, waited, since, fault>>

(* ... or one that runs, and is removed or armed again, at the tick.       *)
Fire ==
  /\ Met /\ timer.round = 0
  /\ IF timer.type = "REPEAT" THEN Arm("REPEAT", timer.interval, 0)
     ELSE timer' = NoTimer /\ waited' = 0 /\ since' = 0 /\ UNCHANGED fault
  /\ pc' = "read"
  /\ UNCHANGED <<time_slot, slot_num, cur_slot>>

(* Beyond this the timer is late by any account.                           *)
WaitBound == timer.interval + slot_num + 1

Longer == IF timer = NoTimer THEN 0 ELSE IF waited < WaitBound THEN waited + 1 ELSE waited

\* A wrap-around that compares with slot_num.
TickPast ==
  /\ pc = "read" /\ fault = "none"
  /\ cur_slot' = IF cur_slot = slot_num THEN 0 ELSE cur_slot + 1
  /\ waited' = Longer
  /\ pc' = "walk"
  /\ UNCHANGED <<time_slot, slot_num, timer, since, fault>>

(* A slot's time is over. *)
Tick ==
  /\ pc = "read" /\ fault = "none"
  /\ cur_slot' = IF cur_slot = slot_num - 1 THEN 0 ELSE cur_slot + 1
  /\ waited' = Longer
  /\ pc' = "walk"
  /\ UNCHANGED <<time_slot, slot_num, timer, since, fault>>

Worker == Pass \/ CountDown \/ Fire \/ Tick

Next ==
  \/ \E length \in TimeSlots, number \in SlotNums : TiInit(length, number)
  \/ \E type \in Types, interval \in Intervals, ms \in 0 .. time_slot - 1 :
        TiAdd(type, interval, ms)
  \/ Worker

(* The worker is scheduled and time passes. *)
Spec == Init /\ [][Next]_vars /\ WF_vars(Worker)

-----------------------------------------------------------------------------
TypeOK ==
  /\ time_slot \in Word /\ slot_num \in Word
  /\ cur_slot \in Word /\ (slot_num > 0 => cur_slot < slot_num)
  /\ pc \in {"walk", "read"}
  /\ timer \in [type : Types \cup {"none"}, interval : Word, index : Word, round : Word]
  /\ waited \in Nat /\ since \in Word /\ fault \in {"none"} \cup Overflows

(* Neither a turn nor the slot to come exceeds a word, wherever cur_slot   *)
(* is.                                                                     *)
NoWrap ==
  /\ time_slot * slot_num < 2^Width
  /\ slot_num - 1 + timer.interval \div time_slot < 2^Width

(* The ticks to count: whole turns may take a turn more.                   *)
Counts ==
  IF timer.interval \div time_slot % slot_num = 0 THEN {waited, waited - slot_num} ELSE {waited}

(* The time that n ticks after it was armed have taken a timer.            *)
Elapsed(n) == n * time_slot - since

(* Where nothing wraps, a timer never runs after its interval, but for     *)
(* whole turns that take a turn more; it runs early by what had passed of  *)
(* the slot it was armed in, and by less than one slot more.               *)
RunsWithinTwoSlots ==
  [][Fire /\ NoWrap =>
       \E n \in Counts : timer.interval - Elapsed(n) \in since .. since + time_slot - 1]_vars

(* timer.h calls the slot the timer's precision (line 54); a timer added   *)
(* just before a tick is early by more.                                    *)
WithinPrecision ==
  [][Fire /\ NoWrap =>
       \E n \in Counts : timer.interval - Elapsed(n) \in 0 .. time_slot]_vars

(* Whatever wraps, every timer that could be armed runs, and runs again if *)
(* there is a slot for it.                                                 *)
Runs == (timer # NoTimer) ~> ((Met /\ timer.round = 0) \/ fault = "negative index")
=============================================================================
