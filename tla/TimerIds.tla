------------------------------ MODULE TimerIds ------------------------------
(***************************************************************************)
(* How the wheel hands out and takes back timer ids, for callers that      *)
(* delete only ids they hold.  Every operation runs in a critical section  *)
(* of the manager's lock, so each is one action.  `held` is the set of     *)
(* ids of the timers in the wheel: the program does not keep it, the       *)
(* properties need it.                                                     *)
(***************************************************************************)
EXTENDS IdBitmap

VARIABLES
  init_flag,
  bitmap,         \* timer_fd_bitmap
  min_free,       \* timer_fd_min_free
  cur_timer_num,
  held,           \* ids of the timers in the wheel (ghost)
  fault           \* "none", or the write outside the bitmap that ended it all

vars == <<init_flag, bitmap, min_free, cur_timer_num, held, fault>>

Faults == {"none", "memset", "wild bit"}

(* create_timer_manager: memset to 0. *)
Init ==
  /\ init_flag = FALSE
  /\ bitmap = {}
  /\ min_free = 0
  /\ cur_timer_num = 0
  /\ held = {}
  /\ fault = "none"

TimerInit ==
  /\ fault = "none" /\ ~init_flag
  /\ init_flag' = TRUE
  /\ bitmap' \in FreshBitmaps
  /\ min_free' = 1
  /\ cur_timer_num' = 0
  /\ UNCHANGED <<held, fault>>

(***************************************************************************)
(* The memset of ti_init clears ZeroedBytes bytes of a bitmap that may     *)
(* have fewer.  What it writes past the end lands in the padding that      *)
(* malloc gave with the bitmap, which is TimerInit, or in what is not the  *)
(* bitmap's, of which nothing can be said.                                 *)
(***************************************************************************)
MemsetPastEnd ==
  /\ fault = "none" /\ ~init_flag
  /\ Bytes < ZeroedBytes
  /\ fault' = "memset"
  /\ UNCHANGED <<init_flag, bitmap, min_free, cur_timer_num, held>>

(***************************************************************************)
(* timer_id_pop gives out timer_fd_min_free without looking at it.  For    *)
(* id 0 the bit's byte is (0U - 1) >> 3, half a gigabyte past the bitmap.  *)
(***************************************************************************)
TimerIdPop ==
  IF min_free = 0
    THEN /\ fault' = "wild bit"
         /\ UNCHANGED <<bitmap, min_free, held>>
    ELSE /\ bitmap' = SetBit(bitmap, min_free)
         /\ min_free' = FindMinId(SetBit(bitmap, min_free))
         /\ held' = held \cup {min_free}
         /\ UNCHANGED fault

TimerIdPush(id) ==
  /\ bitmap' = UnsetBit(bitmap, id)
  /\ min_free' = MinAfterPush(min_free, id)
  /\ held' = held \ {id}
  /\ UNCHANGED <<init_flag, fault>>

\* A capacity check that lets one more timer in.
AddPastMax ==
  /\ fault = "none" /\ init_flag
  /\ cur_timer_num <= TimerMax
  /\ TimerIdPop
  /\ cur_timer_num' = cur_timer_num + 1
  /\ UNCHANGED init_flag

(* ti_add, past its checks. *)
Add ==
  /\ fault = "none" /\ init_flag
  /\ cur_timer_num < TimerMax
  /\ TimerIdPop
  /\ cur_timer_num' = cur_timer_num + 1
  /\ UNCHANGED init_flag

(* ti_del of a timer that exists. *)
Del(id) ==
  /\ fault = "none"
  /\ TimerIdPush(id)
  /\ cur_timer_num' = cur_timer_num - 1

\* The fix that forgets that ti_del counts its own timers.
ExpireTwice(id) ==
  /\ fault = "none"
  /\ TimerIdPush(id)
  /\ cur_timer_num' = IF cur_timer_num > 1 THEN cur_timer_num - 2 ELSE 0

(* The worker drops a single-shot timer: cur_timer_num is left as it is. *)
Expire(id) ==
  /\ fault = "none"
  /\ TimerIdPush(id)
  /\ UNCHANGED cur_timer_num

(* ti_del(0) when the wheel is empty: the one case in which it returns. *)
DelAllEmpty ==
  /\ fault = "none"
  /\ held = {}
  /\ cur_timer_num' = 0
  /\ UNCHANGED <<init_flag, bitmap, min_free, held, fault>>

(* ti_close frees every timer and the bitmap, and resets no counter. *)
Close ==
  /\ fault = "none" /\ init_flag
  /\ init_flag' = FALSE
  /\ held' = {}
  /\ UNCHANGED <<bitmap, min_free, cur_timer_num, fault>>

Next ==
  \/ TimerInit \/ MemsetPastEnd
  \/ Add
  \/ \E id \in held : Del(id)
  \/ \E id \in held : Expire(id)
  \/ DelAllEmpty
  \/ Close

Spec == Init /\ [][Next]_vars

-----------------------------------------------------------------------------
(* The variables' ranges: every id is one that has a bit, and the counter  *)
(* stays between 0 and timer_max_num although Expire never lowers it.      *)
TypeOK ==
  /\ init_flag \in BOOLEAN
  /\ bitmap \subseteq Ids
  /\ min_free \in {0} \cup Ids
  /\ cur_timer_num \in 0 .. TimerMax
  /\ held \subseteq Ids
  /\ fault \in Faults

(* Two timers never share an id: the next id ti_add gives out belongs to   *)
(* no timer in the wheel, whatever was deleted or expired before it.       *)
FreshId == min_free \notin held

(* timer_fd_min_free is the smallest id whose bit is clear (timer.c, the   *)
(* comments of find_min_id and timer_id_pop), unless it is 0: the cached   *)
(* minimum and the bitmap agree after every pop and push.                  *)
LeastFree ==
  (init_flag /\ min_free # 0) =>
    min_free \notin bitmap /\ \A id \in Ids : id < min_free => id \in bitmap

(* The counter that ti_add compares with timer_max_num never understates   *)
(* the number of timers in the wheel.                                      *)
CountCoversHeld == Cardinality(held) <= cur_timer_num

(* Configurations in which the bitmap has a spare bit and memset clears    *)
(* all of it.                                                              *)
SpareBit == TimerMax < Bytes * ByteBits /\ Bytes <= ZeroedBytes

(* With a spare bit, whenever ti_add's capacity check lets a caller in,    *)
(* an id of 1 .. timer_max_num is available, and no set_bit or unset_bit   *)
(* ever falls outside the bitmap.  The memset of ti_init does, whenever    *)
(* the bitmap has fewer than ZeroedBytes bytes.                            *)
RoomMeansId ==
  SpareBit =>
    /\ fault # "wild bit"
    /\ (init_flag /\ cur_timer_num < TimerMax) => min_free \in 1 .. TimerMax

-----------------------------------------------------------------------------
(* timer.h:58 says that timer_max_num is the largest number of timers that *)
(* can be maintained, so a caller below it gets a timer.  When every id is *)
(* taken timer_fd_min_free is 0, and timer_id_push never raises it again.  *)
NeverWild == fault # "wild bit"

(* The same promise, read as: add is refused only when timer_max_num       *)
(* timers are in the wheel.                                                *)
RefusedOnlyWhenFull ==
  (init_flag /\ cur_timer_num = TimerMax) => Cardinality(held) = TimerMax

(* timer_id_pop (timer.c:869) says that it takes the smallest unused id.   *)
PopsLeastUnused ==
  (init_flag /\ min_free # 0) => \A id \in Ids : id < min_free => id \in held
=============================================================================
