-------------------------- MODULE WheelProperties --------------------------
(***************************************************************************)
(* What TimerWheel promises, and to which callers.                         *)
(***************************************************************************)
EXTENDS TimerWheel

(***************************************************************************)
(* Proper callers delete all timers only when there is none, run no worker *)
(* on a manager whose ti_init was refused, delete no timer of a closed     *)
(* manager, close only one that is initialised, and initialise again only  *)
(* when every timer was gone before the close.                             *)
(***************************************************************************)
ProperCall ==
  \/ (\A id \in Ids : rb_root[id] = Null) /\ (TiInitPastEnd \/ \E n \in SlotNums : TiInit(n))
  \/ ~start_flag /\ TiInitRefused
  \/ \E on \in BOOLEAN : TiEnable(on)
  \/ \E a \in Addr, type \in Types, interval \in Intervals : TiAdd(a, type, interval)
  \/ init_flag /\ \E id \in Ids : TiDel(id)
  \/ alive = {} /\ TiDelAll
  \/ (init_flag \/ ~timerfd) /\ TiStart

ProperEnd == TiStop \/ TiClose

(* Proper callers in any number of threads.                                *)
ProperNext == ProperCall \/ ProperEnd \/ Finish \/ Worker
ProperSpec == Init /\ [][ProperNext]_vars

(***************************************************************************)
(* The worker walks a slot without the lock, so memory is safe only for    *)
(* callers that keep out of its way: quiet callers call when no slot is    *)
(* being walked and no worker is at its last store.  Serving is what they  *)
(* do before they stop the wheel.                                          *)
(***************************************************************************)
AtRest == pc \notin {"walk", "fired", "leaving"}

QuietWorker == caller.op # "add" /\ Worker

Serving == (AtRest /\ ProperCall) \/ TiInitEnable \/ TiAddLink \/ QuietWorker
ServingSpec == Init /\ [][Serving]_vars

QuietNext == Serving \/ (AtRest /\ ProperEnd) \/ TiStopKill \/ TiCloseKill \/ TiCloseFree
QuietSpec == Init /\ [][QuietNext]_vars

(***************************************************************************)
(* The worker's thread is scheduled and time passes; a call that holds the *)
(* lock returns.  The worker is disabled while an add is under way, so     *)
(* weak fairness would let adds follow one another for ever and stop time. *)
(***************************************************************************)
FairServing ==
  ServingSpec /\ SF_vars(QuietWorker) /\ WF_vars(TiAddLink) /\ WF_vars(TiInitEnable)

-----------------------------------------------------------------------------
(* Two misuses of memory the code commits whatever its callers do; whether *)
(* they do harm is up to the allocator.                                    *)
Exempt == {"memset", "freed id"}
Misuse == {"wild bit", "list", "use after free", "bad free", "data"}

TypeOK ==
  /\ init_flag \in BOOLEAN /\ enable_flag \in BOOLEAN /\ start_flag \in BOOLEAN
  /\ opening \in BOOLEAN /\ timerfd \in BOOLEAN
  /\ slot_num \in SlotNums \cup {0} /\ cur_slot \in Slots
  /\ cur_timer_num \in 0 .. TimerMax
  /\ timer_cnt \in [Slots -> Nat]
  /\ bitmap \subseteq Ids /\ min_free \in Ids \cup {0}
  /\ rb_root \in [Ids -> Addr \cup {Null}]
  /\ alive \subseteq Addr /\ tm \in [Addr -> Timer]
  /\ next \in [Nodes -> Nodes \cup {Poison}] /\ prev \in [Nodes -> Nodes \cup {Poison}]
  /\ pc \in {"none", "arm", "loop", "walk", "fired", "read", "leaving"}
  /\ tmp \in Nodes \cup {Poison} /\ temp \in Addr \cup {Null} /\ replay \in 0 .. LateReads - 1
  /\ caller.op \in {"none", "add", "stop", "close", "free", "leaked", "crashed"}
  /\ fault \in {"none", "pid"} \cup Exempt \cup Misuse

(* The timers whose ti_add returned. *)
Added == alive \ {caller.cell}

(* For quiet callers no step of the worker or of a call follows or frees a *)
(* pointer that is not to a live timer or a header, or sets a bit outside  *)
(* the bitmap, whatever was deleted, stopped or restarted in between.  Not *)
(* claimed of the code's own two misuses: ti_init's memset of four bytes   *)
(* whatever the bitmap's length (249), and the id that the worker reads    *)
(* from the timer it has just freed (717).                                 *)
MemorySafe == fault \notin Misuse

(* The slots' lists are doubly linked and hold live timers only.           *)
WellLinked ==
  \A x \in alive \cup Headers :
    /\ Valid(next[x]) /\ prev[next[x]] = x
    /\ Valid(prev[x]) /\ next[prev[x]] = x

(* The tree finds exactly the timers in the lists, under their own ids.    *)
IndexAgrees ==
  init_flag => \A id \in Ids, a \in Addr :
                 rb_root[id] = a <=> a \in Added /\ tm[a].id = id

(* Every live timer is in the list of the slot the worker reaches when the *)
(* timer is due, or whole turns later: re-arming, wrap-around of cur_slot  *)
(* and restarts keep the phase.                                            *)
InPhase ==
  \A a \in Added : a \in Members((cur_slot + tm[a].due) % slot_num)

(* timer_cnt never understates a slot, so ti_close, which skips the slots  *)
(* whose count is 0, leaks no timer.                                       *)
CountCoversSlot ==
  \A s \in Headers : Cardinality(Members(s) \cap Added) <= timer_cnt[s]

CloseFreesAll == ~init_flag => alive = {}

-----------------------------------------------------------------------------
(***************************************************************************)
(* Whatever proper callers and the worker do to the lists, the ids go      *)
(* through the steps of TimerIds.  The counter lags behind while an add    *)
(* is under way, for ever when it crashes.                                 *)
(***************************************************************************)
Held == IF init_flag THEN {tm[a].id : a \in alive} ELSE {}
IdFault == IF fault \in {"wild bit", "memset"} THEN fault ELSE "none"
Counted == IF caller.cell # Null \/ fault = "wild bit" THEN cur_timer_num + 1 ELSE cur_timer_num

IdsOf == INSTANCE TimerIds WITH
           held <- Held, cur_timer_num <- Counted, fault <- IdFault

RefinesIds == IdsOf!Spec

(* Whoever calls what and when, a start meets no worker that will touch    *)
(* the wheel again: stop and close leave none behind, and one that ends by *)
(* itself has at most its store of pid (753) before it.                    *)
OneWorker == [][TiStart => pc \in {"none", "leaving"}]_vars

-----------------------------------------------------------------------------
(* Timing: what the walk does to the timers it meets. *)

(* A single-shot timer's callback runs once, whoever adds, deletes, stops  *)
(* and restarts meanwhile, the callback's time included: only a kill of    *)
(* the worker between this timer's callback and its removal lets it run    *)
(* again.                                                                  *)
FiresOnce == [][Fire /\ tm[temp'].type = "SINGLE_SHOT" /\ tm[temp'].ran =>
                   tm[temp'].torn]_vars

(* A repeating timer is armed again between two runs of its callback.      *)
RepeatRearmed == [][Fire /\ tm[temp'].type = "REPEAT" /\ tm[temp'].ran =>
                       tm[temp'].cut]_vars

(* No timer runs before it is due, or after.                               *)
NeverEarly == [][Fire /\ ~tm[temp'].ran => tm[temp'].due <= 0]_vars
NeverLate  == [][Fire /\ ~tm[temp'].ran => tm[temp'].due >= 0]_vars

(* A timer that is alone in the wheel runs in the slot that its interval   *)
(* asks for, but for intervals of whole turns, which may run one turn      *)
(* late: a late read delays it by what it skipped and no more.  A worker   *)
(* that ends before it advances has its successor walk the slot again,     *)
(* which may take whole turns off, but leaves the slot right.              *)
OnTimeAlone ==
  [][Fire /\ ~tm[temp'].ran =>
       \/ tm[temp'].due = 0
       \/ tm[temp'].interval % slot_num = 0 /\ tm[temp'].due = -slot_num
       \/ tm[temp'].cut /\ tm[temp'].due >= -slot_num /\ tm[temp'].due % slot_num = 0]_vars

(* In a started wheel every timer runs, unless it is deleted or the worker *)
(* ends.                                                                   *)
Served ==
  \A a \in Addr : (start_flag /\ a \in alive) ~> (a \notin alive \/ temp = a \/ ~start_flag)

(* The comment above ti_add: the least interval is first in its list.      *)
LeastIntervalFirst ==
  \A s \in Headers : \A a \in Members(s) : tm[next[s]].interval <= tm[a].interval

(* What ti_add returned is known to ti_del.                                *)
AddedFound == init_flag => \A a \in Added : rb_root[tm[a].id] = a

(* ti_del(0) deletes all timers.                                           *)
DelAllSafe == fault # "bad free"
=============================================================================
