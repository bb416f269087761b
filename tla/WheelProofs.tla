---------------------------- MODULE WheelProofs ----------------------------
(***************************************************************************)
(* Proofs about the timing wheel under proper callers, in any number of    *)
(* threads and without regard to the walk: its ids go through the steps of *)
(* TimerIds, no start meets a worker that walks, and a single-shot timer   *)
(* runs once.  They hold for every set of slot counts and intervals, heap  *)
(* and number of late reads.                                               *)
(***************************************************************************)
EXTENDS WheelProperties, NatLemmas

Ops    == {"none", "add", "stop", "close", "free", "leaked", "crashed"}
Faults == {"none", "pid", "memset", "freed id",
           "wild bit", "list", "use after free", "bad free", "data"}

(* The variables' ranges, but for the counts of the slots: callers that    *)
(* meet the walk can make the worker count a slot's timers below zero.     *)
WheelType ==
  /\ init_flag \in BOOLEAN /\ enable_flag \in BOOLEAN /\ start_flag \in BOOLEAN
  /\ opening \in BOOLEAN /\ timerfd \in BOOLEAN
  /\ slot_num \in SlotNums \cup {0} /\ cur_slot \in Slots
  /\ cur_timer_num \in Int
  /\ timer_cnt \in [Slots -> Int]
  /\ bitmap \subseteq Ids /\ min_free \in Ids \cup {0}
  /\ rb_root \in [Ids -> Addr \cup {Null}]
  /\ alive \subseteq Addr /\ tm \in [Addr -> Timer]
  /\ next \in [Nodes -> Nodes \cup {Poison}] /\ prev \in [Nodes -> Nodes \cup {Poison}]
  /\ pc \in {"none", "arm", "loop", "walk", "fired", "read", "leaving"}
  /\ tmp \in Nodes \cup {Poison} /\ temp \in Addr \cup {Null}
  /\ replay \in 0 .. LateReads - 1
  /\ caller \in [op : Ops, cell : Addr \cup {Null}, slot : Slots]
  /\ fault \in Faults

(* The lock, the worker and the flags.                                     *)
Control ==
  /\ fault # "none" <=> caller.op = "crashed"
  /\ fault # "none" => pc = "none"
  /\ caller.op \in {"none", "stop", "close", "free", "leaked"} => caller.cell = Null
  /\ caller.cell # Null => init_flag /\ caller.cell \in alive
  /\ caller.op = "add" => caller.cell # Null /\ caller.slot < slot_num
  /\ caller.op \in {"close", "free"} => init_flag
  /\ caller.op \in {"stop", "close", "free"} => ~start_flag
  /\ pc \notin {"none", "leaving"} => start_flag \/ caller.op \in {"stop", "close"}
  /\ pc \in {"loop", "walk", "fired", "read"} => init_flag
  /\ pc \in {"walk", "fired", "read"} => cur_slot < slot_num
  /\ init_flag => slot_num > 0 /\ timerfd
  /\ ~init_flag => slot_num = 0 /\ (pc = "arm" => ~timerfd)

(* The ids of live timers, and the index, which outlives ti_close.         *)
Indexed ==
  /\ \A a \in alive : tm[a].id \in Ids
  /\ \A a, b \in alive : tm[a].id = tm[b].id => a = b
  /\ \A a \in Added : rb_root[tm[a].id] = a
  /\ IndexAgrees
  /\ fault = "wild bit" => cur_timer_num >= 0

(* The invariant of TimerIds, under the mapping, and what is proved of it. *)
IdsProofs == INSTANCE TimerIdsProofs WITH
               held <- Held, cur_timer_num <- Counted, fault <- IdFault

WheelInv == WheelType /\ Control /\ Indexed /\ IdsProofs!IdsInv

-----------------------------------------------------------------------------
(* Every slot count fits; cells, headers and the two marks are distinct.   *)
LEMMA SlotFacts ==
  /\ Slots \subseteq Nat /\ 0 \in Slots
  /\ \A n \in SlotNums : n \in Nat \ {0} /\ 0 .. n - 1 \subseteq Slots
  /\ Addr \cap Slots = {}
  /\ Null \notin Nodes /\ Poison \notin Nodes
<1>1. Max(SlotNums) \in SlotNums /\ \A n \in SlotNums : Max(SlotNums) >= n
  <2>1. PICK most \in SlotNums : \A n \in SlotNums : n <= most
    BY WheelAssumption
  <2>2. \A n \in SlotNums : most >= n
    BY <2>1, WheelAssumption
  <2>. QED
    BY <2>1, <2>2 DEF Max
<1>2. Max(SlotNums) \in Nat \ {0}
  BY <1>1, WheelAssumption
<1>3. Slots \subseteq Nat /\ 0 \in Slots
  BY <1>2 DEF Slots
<1>4. ASSUME NEW n \in SlotNums
      PROVE  n \in Nat \ {0} /\ 0 .. n - 1 \subseteq Slots
  BY <1>1, <1>2, WheelAssumption DEF Slots
<1>5. Addr \cap Slots = {} /\ Null \notin Nodes /\ Poison \notin Nodes
  <2>1. Slots \subseteq Int
    BY <1>3
  <2>2. Addr \cap Int = {} /\ Null \notin Addr \cup Int /\ Poison \notin Addr \cup Int
    BY WheelAssumption
  <2>. QED
    BY <2>1, <2>2, Zenon DEF Nodes
<1>. QED
  BY <1>3, <1>4, <1>5

(* The operations of list.h keep links links.                              *)
Places == Nodes \cup {Poison}
LinkTables == [next : [Nodes -> Places], prev : [Nodes -> Places]]

LEMMA LinksTyped ==
  ASSUME NEW l \in LinkTables, NEW a \in Addr
  PROVE  /\ Unlinked(l, a) \in LinkTables
         /\ \A slot \in Slots : Placed(l, a, slot) \in LinkTables
<1>1. l.next \in [Nodes -> Places] /\ l.prev \in [Nodes -> Places]
  BY DEF LinkTables
<1>2. a \in Nodes /\ a \in Places /\ Poison \in Places /\ Slots \subseteq Nodes /\ Slots \subseteq Places
  BY DEF Nodes, Places
<1>3. ASSUME NEW left \in Places, NEW right \in Places
      PROVE  Between(l, a, left, right) \in LinkTables
  BY <1>1, <1>2 DEF Between, LinkTables
<1>4. Unlinked(l, a) \in LinkTables
  BY <1>1, <1>2 DEF Unlinked, LinkTables
<1>5. ASSUME NEW slot \in Slots
      PROVE  Placed(l, a, slot) \in LinkTables
  <2>1. l.prev[slot] \in Places /\ l.next[slot] \in Places /\ slot \in Places
    BY <1>1, <1>2
  <2>. QED
    BY <1>3, <2>1 DEF Placed
<1>. QED
  BY <1>4, <1>5

LEMMA LinksType ==
  ASSUME WheelType
  PROVE  Links \in LinkTables
BY DEF WheelType, Links, LinkTables, Places

(* A timer's slot and turns, in an initialised wheel.                      *)
LEMMA TargetTyped ==
  ASSUME WheelType, slot_num > 0, NEW interval \in Nat
  PROVE  /\ Target(interval) \in Slots /\ Target(interval) < slot_num
         /\ \A type \in Types, id \in Nat : Armed(type, interval, id) \in Timer
<1>1. slot_num \in SlotNums /\ slot_num \in Nat \ {0} /\ cur_slot \in Nat
  BY SlotFacts DEF WheelType
<1>2. cur_slot + interval \in Int /\ interval \in Int
  BY <1>1
<1>3. Target(interval) \in 0 .. slot_num - 1
  BY <1>1, <1>2, DivMod DEF Target
<1>4. interval \div slot_num \in Nat
  BY <1>1, QuotientBound
<1>5. ASSUME NEW type \in Types, NEW id \in Nat
      PROVE  Armed(type, interval, id) \in Timer
  BY <1>2, <1>4 DEF Armed, Timer
<1>. QED
  BY <1>1, <1>3, <1>5, SlotFacts

-----------------------------------------------------------------------------
(* Crashes, and the end of a worker.                                       *)
LEMMA CrashTyped ==
  ASSUME WheelType, NEW what \in Faults, Crash(what)
  PROVE  WheelType'
<1>1. /\ fault' \in Faults /\ pc' = "none"
      /\ caller' \in [op : Ops, cell : Addr \cup {Null}, slot : Slots]
  BY DEF Crash, WheelType, Ops
<1>. QED
  BY <1>1 DEF Crash, WheelType, confVars, idVars, heapVars, tableVars

LEMMA CutTyped ==
  ASSUME WheelType, Cut
  PROVE  tm' \in [Addr -> Timer] /\ \A a \in alive : tm'[a].id = tm[a].id
BY DEF WheelType, Cut, Timer

LEMMA KilledTyped ==
  ASSUME WheelType, Killed
  PROVE  tm' \in [Addr -> Timer] /\ \A a \in alive : tm'[a].id = tm[a].id
<1>. DEFINE Torn(a) == [tm[a] EXCEPT !.cut = TRUE,
                                     !.torn = @ \/ (pc = "fired" /\ a = temp)]
<1>1. ASSUME NEW a \in Addr
      PROVE  Torn(a) \in Timer /\ Torn(a).id = tm[a].id
  <2>1. tm[a] \in Timer
    BY DEF WheelType
  <2>. QED
    BY <2>1 DEF Timer
<1>2. tm' = [a \in Addr |-> IF a \in alive THEN Torn(a) ELSE tm[a]]
  BY DEF Killed
<1>. HIDE DEF Torn
<1>3. alive \subseteq Addr /\ tm \in [Addr -> Timer]
  BY DEF WheelType
<1>. QED
  BY <1>1, <1>2, <1>3

LEMMA GoneTyped ==
  ASSUME WorkerGone
  PROVE  /\ pc' \in {"none", "arm", "loop", "walk", "fired", "read", "leaving"}
         /\ tmp' \in Nodes \cup {Poison} /\ temp' \in Addr \cup {Null}
         /\ replay' \in 0 .. LateReads - 1
BY SlotFacts, WheelAssumption DEF WorkerGone, Nodes

LEMMA EndTyped ==
  ASSUME WheelType, End
  PROVE  WheelType'
<1>1. tm' \in [Addr -> Timer]
  BY CutTyped DEF End
<1>. QED
  BY <1>1 DEF End, WheelType, confVars, idVars, heapVars, tableVars

LEMMA FreedTyped ==
  ASSUME WheelType, NEW cells, Freed(cells)
  PROVE  alive' \subseteq Addr /\ tm' \in [Addr -> Timer]
BY DEF WheelType, Freed, NoTimer, Timer, Types

(* Ids given out and taken back have a bit.                                *)
LEMMA IdOpsTyped ==
  /\ \A bits : FindMinId(bits) \in Ids \cup {0}
  /\ \A min \in Ids \cup {0}, id \in Ids : MinAfterPush(min, id) \in Ids \cup {0}
  /\ Ids \subseteq Nat
  /\ 1 \in Ids
<1>1. \A bits : FindMinId(bits) \in Ids \cup {0}
  BY IdsProofs!FindMinIdLeast, IdAssumption, Zenon
     DEF FindMinId, OpenBytes, OpenBits, BitId, Bytes, Ids, Min,
         IdsProofs!FindMinId, IdsProofs!OpenBytes, IdsProofs!OpenBits, IdsProofs!BitId,
         IdsProofs!Bytes, IdsProofs!Ids, IdsProofs!Min
<1>2. \A min \in Ids \cup {0}, id \in Ids : MinAfterPush(min, id) \in Ids \cup {0}
  BY DEF MinAfterPush
<1>3. Ids \subseteq Nat /\ 1 \in Ids
  <2>1. Bytes * ByteBits \in Nat /\ TimerMax <= Bytes * ByteBits
    BY IdsProofs!IdsFinite, IdAssumption DEF Bytes, IdsProofs!Bytes
  <2>. QED
    BY <2>1, IdAssumption DEF Ids
<1>. QED
  BY <1>1, <1>2, <1>3

-----------------------------------------------------------------------------
(* Every step keeps the ranges.                                            *)
LEMMA CallTyped ==
  ASSUME WheelType, Control, ProperCall \/ ProperEnd \/ Finish
  PROVE  WheelType'
<1>. USE DEF confVars, idVars, heapVars, tableVars, workerVars, ctlVars
<1>1. ASSUME NEW n \in SlotNums, TiInit(n)
      PROVE  WheelType'
  <2>1. 0 .. n - 1 \subseteq Nodes
    BY SlotFacts DEF Nodes
  <2>2. next' \in [Nodes -> Nodes \cup {Poison}] /\ prev' \in [Nodes -> Nodes \cup {Poison}]
    BY <1>1, <2>1 DEF TiInit
  <2>3. bitmap' \subseteq Ids /\ min_free' \in Ids \cup {0}
    BY <1>1, IdOpsTyped DEF TiInit, FreshBitmaps, Uncleared
  <2>. QED
    BY <1>1, <2>2, <2>3 DEF TiInit, WheelType
<1>2. CASE TiInitRefused \/ TiInitEnable
  BY <1>2 DEF TiInitRefused, TiInitEnable, WheelType
<1>12. CASE TiInitPastEnd
  BY <1>12, CrashTyped DEF TiInitPastEnd, Faults
<1>3. ASSUME NEW on \in BOOLEAN, TiEnable(on)
      PROVE  WheelType'
  BY <1>3 DEF TiEnable, WheelType
<1>4. ASSUME NEW a \in Addr, NEW type \in Types, NEW interval \in Intervals,
             TiAdd(a, type, interval)
      PROVE  WheelType'
  <2>1. CASE min_free = 0
    BY <1>4, <2>1, CrashTyped DEF TiAdd, Faults
  <2>2. CASE min_free # 0
    <3>1. /\ interval \in Nat /\ min_free \in Ids /\ min_free \in Nat /\ slot_num > 0
      BY <1>4, <2>2, IdOpsTyped, WheelAssumption DEF TiAdd, WheelType, Control
    <3>2. Target(interval) \in Slots /\ Armed(type, interval, min_free) \in Timer
      BY <3>1, TargetTyped
    <3>3. a \in Nodes
      BY DEF Nodes
    <3>4. tm' \in [Addr -> Timer] /\ alive' \subseteq Addr
      BY <1>4, <2>2, <3>2 DEF TiAdd, WheelType
    <3>5. next' \in [Nodes -> Nodes \cup {Poison}] /\ prev' \in [Nodes -> Nodes \cup {Poison}]
      BY <1>4, <2>2, <3>3 DEF TiAdd, WheelType
    <3>6. bitmap' \subseteq Ids /\ min_free' \in Ids \cup {0}
      BY <1>4, <2>2, <3>1, IdOpsTyped DEF TiAdd, WheelType, SetBit
    <3>7. caller' \in [op : Ops, cell : Addr \cup {Null}, slot : Slots]
      BY <1>4, <2>2, <3>2 DEF TiAdd, Ops
    <3>. QED
      BY <1>4, <2>2, <3>4, <3>5, <3>6, <3>7 DEF TiAdd, WheelType
  <2>. QED
    BY <2>1, <2>2
<1>5. ASSUME NEW id \in Ids, TiDel(id)
      PROVE  WheelType'
  <2>1. CASE rb_root[id] \notin alive \/ ~ CanUnlink(rb_root[id])
    BY <1>5, <2>1, CrashTyped DEF TiDel, Faults
  <2>2. CASE rb_root[id] \in alive /\ CanUnlink(rb_root[id])
    <3>1. next' \in [Nodes -> Nodes \cup {Poison}] /\ prev' \in [Nodes -> Nodes \cup {Poison}]
      <4>1. Unlinked(Links, rb_root[id]) \in LinkTables
        BY <2>2, LinksType, LinksTyped DEF WheelType
      <4>. QED
        BY <1>5, <2>2, <4>1 DEF TiDel, SetLinks, LinkTables, Places
    <3>2. alive' \subseteq Addr /\ tm' \in [Addr -> Timer]
      BY <1>5, <2>2, FreedTyped DEF TiDel
    <3>3. bitmap' \subseteq Ids /\ min_free' \in Ids \cup {0}
      BY <1>5, <2>2, IdOpsTyped DEF TiDel, ReturnId, UnsetBit, WheelType
    <3>4. rb_root' \in [Ids -> Addr \cup {Null}]
      BY <1>5, <2>2 DEF TiDel, Forget, WheelType
    <3>. QED
      BY <1>5, <2>2, <3>1, <3>2, <3>3, <3>4 DEF TiDel, WheelType
  <2>. QED
    BY <2>1, <2>2
<1>6. CASE TiDelAll
  <2>1. CASE \E s \in Headers : timer_cnt[s] # 0 /\ next[s] # s
    BY <1>6, <2>1, CrashTyped DEF TiDelAll, Faults
  <2>2. CASE ~ \E s \in Headers : timer_cnt[s] # 0 /\ next[s] # s
    <3>1. /\ cur_timer_num' = 0
          /\ UNCHANGED <<confVars, idVars, heapVars, timer_cnt, rb_root, workerVars, ctlVars>>
      BY <1>6, <2>2, Zenon DEF TiDelAll
    <3>. QED
      BY <3>1 DEF WheelType
  <2>. QED
    BY <2>1, <2>2
<1>7. CASE TiAddLink
  <2>1. CASE ~ CanPlace(Links, caller.slot)
    BY <1>7, <2>1, CrashTyped DEF TiAddLink, Faults
  <2>2. CASE CanPlace(Links, caller.slot)
    <3>1. caller.cell \in Addr /\ caller.slot \in Slots
      BY <1>7 DEF TiAddLink, Control, WheelType
    <3>2. next' \in [Nodes -> Nodes \cup {Poison}] /\ prev' \in [Nodes -> Nodes \cup {Poison}]
      <4>1. Placed(Links, caller.cell, caller.slot) \in LinkTables
        BY <3>1, LinksType, LinksTyped
      <4>. QED
        BY <1>7, <2>2, <4>1 DEF TiAddLink, SetLinks, LinkTables, Places
    <3>3. rb_root' \in [Ids -> Addr \cup {Null}] /\ timer_cnt' \in [Slots -> Int]
          /\ cur_timer_num' \in Int
      BY <1>7, <2>2, <3>1 DEF TiAddLink, WheelType
    <3>4. caller' \in [op : Ops, cell : Addr \cup {Null}, slot : Slots]
      BY <1>7, <2>2, SlotFacts DEF TiAddLink, Idle, Ops
    <3>. QED
      BY <1>7, <2>2, <3>2, <3>3, <3>4 DEF TiAddLink, WheelType
  <2>. QED
    BY <2>1, <2>2
<1>8. CASE TiStart
  <2>1. CASE pc = "leaving"
    BY <1>8, <2>1, CrashTyped DEF TiStart, Faults
  <2>2. CASE pc # "leaving"
    BY <1>8, <2>2 DEF TiStart, WheelType
  <2>. QED
    BY <2>1, <2>2
<1>9. CASE TiStop \/ TiClose
  <2>1. caller' \in [op : Ops, cell : Addr \cup {Null}, slot : Slots]
    BY <1>9, SlotFacts DEF TiStop, TiClose, Locked, Idle, Ops
  <2>. QED
    BY <1>9, <2>1 DEF TiStop, TiClose, WheelType
<1>10. CASE TiStopKill \/ TiCloseKill
  <2>1. caller' \in [op : Ops, cell : Addr \cup {Null}, slot : Slots]
    BY <1>10, SlotFacts DEF TiStopKill, TiCloseKill, Locked, Idle, Ops
  <2>2. Killed
    BY <1>10 DEF TiStopKill, TiCloseKill
  <2>3. /\ pc' \in {"none", "arm", "loop", "walk", "fired", "read", "leaving"}
        /\ tmp' \in Nodes \cup {Poison} /\ temp' \in Addr \cup {Null}
        /\ replay' \in 0 .. LateReads - 1
    BY <2>2, GoneTyped DEF Killed
  <2>4. tm' \in [Addr -> Timer]
    BY <2>2, KilledTyped
  <2>. QED
    BY <1>10, <2>1, <2>3, <2>4 DEF TiStopKill, TiCloseKill, WheelType
<1>11. CASE TiCloseFree
  <2>1. CASE ~ (Doomed \subseteq alive)
    BY <1>11, <2>1, CrashTyped DEF TiCloseFree, Faults
  <2>2. CASE Doomed \subseteq alive
    <3>1. caller' \in [op : Ops, cell : Addr \cup {Null}, slot : Slots]
      BY <1>11, <2>2, SlotFacts DEF TiCloseFree, Idle, Ops
    <3>2. alive' \subseteq Addr /\ tm' \in [Addr -> Timer]
      BY <1>11, <2>2, FreedTyped DEF TiCloseFree
    <3>. QED
      <4>1. next' \in [Nodes -> Nodes \cup {Poison}] /\ prev' \in [Nodes -> Nodes \cup {Poison}]
        BY <1>11, <2>2 DEF TiCloseFree
      <4>2. /\ init_flag' = FALSE /\ timerfd' = FALSE /\ slot_num' = 0
            /\ UNCHANGED <<enable_flag, opening, start_flag, fault>>
        BY <1>11, <2>2 DEF TiCloseFree
      <4>3. UNCHANGED <<idVars, tableVars, workerVars>>
        BY <1>11, <2>2 DEF TiCloseFree
      <4>. QED
        BY <3>1, <3>2, <4>1, <4>2, <4>3 DEF WheelType
  <2>. QED
    BY <2>1, <2>2
<1>. QED
  BY <1>1, <1>2, <1>3, <1>4, <1>5, <1>6, <1>7, <1>8, <1>9, <1>10, <1>11, <1>12
     DEF ProperCall, ProperEnd, Finish

LEMMA WorkerTyped ==
  ASSUME WheelType, Control, \A a \in alive : tm[a].id \in Ids, Worker
  PROVE  WheelType'
<1>. USE DEF confVars, idVars, heapVars, tableVars, workerVars, ctlVars
<1>0. Crash("use after free") => WheelType'
  BY CrashTyped DEF Faults
<1>1. CASE Arm
  <2>1. CASE timerfd
    BY <1>1, <2>1 DEF Arm, WheelType
  <2>2. CASE ~ timerfd
    BY <1>1, <2>2, EndTyped DEF Arm
  <2>. QED
    BY <2>1, <2>2
<1>2. CASE Loop
  <2>1. CASE ~ start_flag
    BY <1>2, <2>1, EndTyped DEF Loop
  <2>2. CASE start_flag /\ cur_slot \notin Headers
    BY <1>2, <2>2, CrashTyped DEF Loop, Faults
  <2>3. CASE start_flag /\ cur_slot \in Headers
    BY <1>2, <2>3 DEF Loop, WheelType, Nodes
  <2>. QED
    BY <2>1, <2>2, <2>3
<1>3. CASE WalkEnds
  BY <1>3 DEF WalkEnds, WheelType
<1>4. CASE PassBy
  <2>1. next[tmp] \in Addr
    BY <1>4 DEF PassBy, WheelType
  <2>2. tm[next[tmp]] \in Timer /\ tm[next[tmp]].round # 0
    BY <1>4, <2>1 DEF PassBy, WheelType
  <2>3. [tm[next[tmp]] EXCEPT !.round = @ - 1] \in Timer
    BY <2>2 DEF Timer
  <2>4. tm' \in [Addr -> Timer]
    BY <1>4, <2>1, <2>3 DEF PassBy, WheelType
  <2>. QED
    BY <1>4, <2>1, <2>4 DEF PassBy, WheelType, Nodes
<1>5. CASE Fire
  <2>1. next[tmp] \in Addr
    BY <1>5 DEF Fire, WheelType
  <2>2. tm' \in [Addr -> Timer]
    <3>1. tm[next[tmp]] \in Timer /\ tm \in [Addr -> Timer]
      BY <2>1 DEF WheelType
    <3>2. [tm[next[tmp]] EXCEPT !.ran = TRUE] \in Timer
      BY <3>1 DEF Timer
    <3>. QED
      BY <1>5, <2>1, <3>1, <3>2 DEF Fire
  <2>. QED
    BY <1>5, <2>1, <2>2 DEF Fire, WheelType
<1>6. CASE WalkLost
  BY <1>0, <1>6 DEF WalkLost
<1>7. CASE Rearm
  <2>1. /\ temp \in Addr /\ slot_num > 0 /\ tm[temp].interval \in Nat
        /\ tm[temp].type \in Types /\ tm[temp].id \in Nat
    BY <1>7 DEF Rearm, WheelType, Control, Timer
  <2>. DEFINE slot  == Target(tm[temp].interval)
              links == Placed(Unlinked(Links, temp), temp, slot)
  <2>2. slot \in Slots /\ Armed(tm[temp].type, tm[temp].interval, tm[temp].id) \in Timer
    BY <2>1, TargetTyped
  <2>3. links \in LinkTables
    BY <2>1, <2>2, LinksType, LinksTyped
  <2>. HIDE DEF links, slot
  <2>4. next' = links.next /\ prev' = links.prev /\ tmp' = links.next[tmp]
        /\ timer_cnt' = Moved(timer_cnt, cur_slot, slot)
    BY <1>7 DEF Rearm, SetLinks, links, slot
  <2>5. tmp \in Nodes
    BY <1>7, SlotFacts DEF Rearm, WheelType, Valid, Headers, Nodes
  <2>6. next' \in [Nodes -> Nodes \cup {Poison}] /\ prev' \in [Nodes -> Nodes \cup {Poison}]
        /\ tmp' \in Nodes \cup {Poison}
    BY <2>3, <2>4, <2>5 DEF LinkTables, Places
  <2>7. tm' \in [Addr -> Timer]
    BY <1>7, <2>1, <2>2 DEF Rearm, WheelType
  <2>8. timer_cnt' \in [Slots -> Int]
    BY <2>2, <2>4 DEF Moved, WheelType
  <2>. QED
    BY <1>7, <2>6, <2>7, <2>8 DEF Rearm, WheelType
<1>8. CASE RearmRefused
  <2>1. tmp \in Nodes
    BY <1>8, SlotFacts DEF RearmRefused, WheelType, Valid, Headers, Nodes
  <2>. QED
    BY <1>8, <2>1 DEF RearmRefused, WheelType
<1>9. CASE Expire
  <2>1. temp \in Addr /\ tmp \in Nodes
    BY <1>9, SlotFacts DEF Expire, CanExpire, WheelType, Valid, Headers, Nodes
  <2>2. next[tmp] \in Nodes /\ CanUnlink(next[tmp])
    BY <1>9 DEF Expire, CanExpire, CanUnlink
  <2>3. Unlinked(Links, next[tmp]) \in LinkTables
    BY <2>2, LinksType DEF LinkTables, Unlinked, Places
  <2>4. next' \in [Nodes -> Nodes \cup {Poison}] /\ prev' \in [Nodes -> Nodes \cup {Poison}]
        /\ tmp' \in Nodes \cup {Poison}
    BY <1>9, <2>1, <2>3 DEF Expire, SetLinks, LinkTables, Places
  <2>5. alive' \subseteq Addr /\ tm' \in [Addr -> Timer]
    BY <1>9, FreedTyped DEF Expire
  <2>6. min_free' \in Ids \cup {0}
    BY <1>9, IdOpsTyped DEF Expire, CanExpire, ReturnId, WheelType
  <2>7. bitmap' \subseteq Ids
    BY <1>9 DEF Expire, ReturnId, UnsetBit, WheelType
  <2>8. rb_root' \in [Ids -> Addr \cup {Null}]
    BY <1>9 DEF Expire, Forget, WheelType
  <2>9. timer_cnt' \in [Slots -> Int]
    BY <1>9 DEF Expire, WheelType
  <2>. QED
    BY <1>9, <2>4, <2>5, <2>6, <2>7, <2>8, <2>9 DEF Expire, WheelType
<1>10. CASE FiredLost \/ ExpireMisread
  <2>1. Crash("freed id") => WheelType'
    BY CrashTyped DEF Faults
  <2>. QED
    BY <1>0, <1>10, <2>1 DEF FiredLost, ExpireMisread
<1>12. CASE Leave
  BY <1>12, GoneTyped DEF Leave, WheelType
<1>11. CASE Tick \/ Overrun
  <2>1. /\ pc = "read" /\ slot_num \in SlotNums /\ slot_num \in Nat \ {0}
        /\ cur_slot \in Nat /\ cur_slot < slot_num
    BY <1>11, SlotFacts DEF Tick, Overrun, WheelType, Control
  <2>2. Advance => cur_slot' \in Slots
    <3>1. Advance => cur_slot' \in 0 .. slot_num - 1
      BY <2>1 DEF Advance
    <3>. QED
      BY <2>1, <3>1, SlotFacts
  <2>3. ASSUME NEW due \in Int PROVE Elapsed(due) \in Int
    <3>1. (due - 1) % slot_num \in Int
      BY <2>1, DivMod
    <3>. QED
      BY <2>1, <3>1 DEF Elapsed
  <2>4. Waited => tm' \in [Addr -> Timer]
    BY <2>3 DEF Waited, WheelType, Timer
  <2>6. CASE Tick
    BY <2>2, <2>4, <2>6 DEF Tick, WheelType
  <2>7. CASE Overrun /\ replay + 1 = LateReads
    BY <2>7, EndTyped DEF Overrun
  <2>8. CASE Overrun /\ replay + 1 # LateReads
    <3>1. replay' \in 0 .. LateReads - 1
      BY <2>8, WheelAssumption DEF Overrun, WheelType
    <3>. QED
      BY <2>2, <2>4, <2>8, <3>1 DEF Overrun, WheelType
  <2>. QED
    BY <1>11, <2>6, <2>7, <2>8
<1>. QED
  BY <1>1, <1>2, <1>3, <1>4, <1>5, <1>6, <1>7, <1>8, <1>9, <1>10, <1>11, <1>12 DEF Worker

-----------------------------------------------------------------------------
(* A crash ends every thread.                                              *)
LEMMA CrashControl ==
  ASSUME WheelType, Control, NEW what \in Faults \ {"none"}, Crash(what)
  PROVE  Control'
<1>1. /\ fault' # "none" /\ pc' = "none"
      /\ caller'.op = "crashed" /\ caller'.cell = caller.cell
      /\ UNCHANGED <<init_flag, slot_num, timerfd, alive>>
  BY DEF Crash, WheelType, confVars, heapVars
<1>. QED
  BY <1>1 DEF Control

(* Every step keeps the flags, the lock and the worker in agreement.       *)
LEMMA CallControl ==
  ASSUME WheelType, Control, ProperCall \/ ProperEnd \/ Finish
  PROVE  Control'
<1>. USE DEF confVars, idVars, heapVars, tableVars, workerVars, ctlVars
<1>0. caller.op = "none" => caller.cell = Null /\ fault = "none"
  BY DEF Control
<1>1. ASSUME NEW n \in SlotNums, (\A id \in Ids : rb_root[id] = Null), TiInit(n)
      PROVE  Control'
  <2>1. n > 0
    BY SlotFacts
  <2>2. pc \notin {"loop", "walk", "fired", "read"}
    BY <1>1 DEF TiInit, Control
  <2>. QED
    BY <1>1, <2>1, <2>2 DEF TiInit, Control
<1>2. CASE ~ start_flag /\ TiInitRefused
  BY <1>2 DEF TiInitRefused, LockFree, Control
<1>13. CASE TiInitEnable
  BY <1>13 DEF TiInitEnable, Control
<1>14. CASE TiInitPastEnd
  BY <1>14, CrashControl DEF TiInitPastEnd, Faults
<1>3. ASSUME NEW on \in BOOLEAN, TiEnable(on)
      PROVE  Control'
  BY <1>3 DEF TiEnable, Control
<1>4. ASSUME NEW a \in Addr, NEW type \in Types, NEW interval \in Intervals,
             TiAdd(a, type, interval)
      PROVE  Control'
  <2>1. CASE min_free = 0
    BY <1>4, <2>1, CrashControl DEF TiAdd, Faults
  <2>2. CASE min_free # 0
    <3>1. interval \in Nat /\ slot_num > 0 /\ Target(interval) < slot_num /\ a # Null
      BY <1>4, TargetTyped, SlotFacts, WheelAssumption DEF TiAdd, Control, Nodes
    <3>. QED
      BY <1>0, <1>4, <2>2, <3>1 DEF TiAdd, LockFree, Control
  <2>. QED
    BY <2>1, <2>2
<1>5. ASSUME NEW id \in Ids, init_flag, TiDel(id)
      PROVE  Control'
  <2>1. CASE rb_root[id] \notin alive \/ ~ CanUnlink(rb_root[id])
    BY <1>5, <2>1, CrashControl DEF TiDel, Faults
  <2>2. CASE rb_root[id] \in alive /\ CanUnlink(rb_root[id])
    BY <1>0, <1>5, <2>2 DEF TiDel, LockFree, Control
  <2>. QED
    BY <2>1, <2>2
<1>6. CASE TiDelAll
  <2>1. CASE \E s \in Headers : timer_cnt[s] # 0 /\ next[s] # s
    BY <1>6, <2>1, CrashControl DEF TiDelAll, Faults
  <2>2. CASE ~ \E s \in Headers : timer_cnt[s] # 0 /\ next[s] # s
    <3>1. UNCHANGED <<confVars, heapVars, workerVars, ctlVars>>
      BY <1>6, <2>2, Zenon DEF TiDelAll
    <3>. QED
      BY <3>1 DEF Control
  <2>. QED
    BY <2>1, <2>2
<1>7. CASE TiAddLink
  <2>1. CASE ~ CanPlace(Links, caller.slot)
    BY <1>7, <2>1, CrashControl DEF TiAddLink, Faults
  <2>2. CASE CanPlace(Links, caller.slot)
    BY <1>7, <2>2 DEF TiAddLink, Idle, Control
  <2>. QED
    BY <2>1, <2>2
<1>8. CASE (init_flag \/ ~ timerfd) /\ TiStart
  <2>1. CASE pc = "leaving"
    BY <1>8, <2>1, CrashControl DEF TiStart, Faults
  <2>2. CASE pc # "leaving"
    BY <1>0, <1>8, <2>2 DEF TiStart, LockFree, Control
  <2>. QED
    BY <2>1, <2>2
<1>9. CASE TiStop
  BY <1>0, <1>9 DEF TiStop, LockFree, Locked, Idle, Control
<1>10. CASE TiClose
  BY <1>0, <1>10 DEF TiClose, LockFree, Locked, Idle, Control
<1>11. CASE TiStopKill \/ TiCloseKill
  <2>1. /\ caller.op \in {"stop", "close"} /\ pc' = "none"
        /\ UNCHANGED <<init_flag, start_flag, timerfd, slot_num, alive, fault>>
    BY <1>11 DEF TiStopKill, TiCloseKill, Killed, WorkerGone
  <2>2. /\ caller'.cell = Null
        /\ caller.op = "close" => caller'.op = "free"
        /\ caller.op = "stop" => caller'.op = "none"
    BY <1>11 DEF TiStopKill, TiCloseKill, Locked, Idle
  <2>. QED
    BY <2>1, <2>2 DEF Control
<1>12. CASE TiCloseFree
  <2>1. CASE ~ (Doomed \subseteq alive)
    BY <1>12, <2>1, CrashControl DEF TiCloseFree, Faults
  <2>2. CASE Doomed \subseteq alive
    BY <1>12, <2>2 DEF TiCloseFree, Idle, Control
  <2>. QED
    BY <2>1, <2>2
<1>. QED
  BY <1>1, <1>2, <1>3, <1>4, <1>5, <1>6, <1>7, <1>8, <1>9, <1>10, <1>11, <1>12,
     <1>13, <1>14 DEF ProperCall, ProperEnd, Finish

LEMMA WorkerControl ==
  ASSUME WheelType, Control, Worker
  PROVE  Control'
<1>. USE DEF confVars, idVars, heapVars, tableVars, workerVars, ctlVars
<1>0. Crash("use after free") => Control'
  BY CrashControl DEF Faults
<1>1. ASSUME End, pc # "none" PROVE Control'
  BY <1>1 DEF End, Control
<1>2. CASE Arm
  BY <1>1, <1>2 DEF Arm, Control
<1>3. CASE Loop
  <2>1. CASE ~ start_flag
    BY <1>1, <1>3, <2>1 DEF Loop
  <2>2. CASE start_flag /\ cur_slot \notin Headers
    BY <1>3, <2>2, CrashControl DEF Loop, Faults
  <2>3. CASE start_flag /\ cur_slot \in Headers
    <3>1. init_flag /\ cur_slot < slot_num
      BY <2>3, SlotFacts DEF Headers, WheelType
    <3>. QED
      BY <1>3, <2>3, <3>1 DEF Loop, Control
  <2>. QED
    BY <2>1, <2>2, <2>3
<1>4. CASE WalkEnds \/ PassBy \/ Fire
  BY <1>4 DEF WalkEnds, PassBy, Fire, Control
<1>5. CASE WalkLost \/ FiredLost
  BY <1>0, <1>5 DEF WalkLost, FiredLost
<1>9. CASE ExpireMisread
  BY <1>9, CrashControl DEF ExpireMisread, Faults
<1>10. CASE Leave
  BY <1>10 DEF Leave, WorkerGone, Control
<1>6. CASE Rearm \/ RearmRefused
  BY <1>6 DEF Rearm, RearmRefused, Control
<1>7. CASE Expire
  <2>1. caller.op = "none" /\ caller.cell = Null /\ pc = "fired"
    BY <1>7 DEF Expire, CanExpire, LockFree, Control
  <2>. QED
    BY <1>7, <2>1 DEF Expire, Control
<1>8. CASE Tick \/ Overrun
  BY <1>1, <1>8 DEF Tick, Overrun, Control
<1>. QED
  BY <1>2, <1>3, <1>4, <1>5, <1>6, <1>7, <1>8, <1>9, <1>10 DEF Worker

-----------------------------------------------------------------------------
(* The invariant of TimerIds says that the next id is nobody's, and that   *)
(* the counter is no less than the number of timers.                       *)
LEMMA FreshInWheel ==
  ASSUME IdsProofs!IdsInv, init_flag, min_free # 0
  PROVE  \A a \in alive : tm[a].id # min_free
<1>1. Held = {tm[a].id : a \in alive}
  BY DEF Held
<1>2. Held \subseteq bitmap /\ min_free \notin bitmap
  BY DEF IdsProofs!IdsInv, IdsProofs!HeldMarked, IdsProofs!LeastFree
<1>. QED
  BY <1>1, <1>2

(* Steps that leave the ids, the index and the cell under way alone.       *)
LEMMA SameIndexed ==
  ASSUME WheelType, Indexed, UNCHANGED <<alive, rb_root, init_flag>>,
         caller'.cell = caller.cell,
         \A a \in alive : tm'[a].id = tm[a].id,
         fault' = "wild bit" => cur_timer_num' >= 0
  PROVE  Indexed'
<1>1. Added' = Added /\ Added \subseteq alive
  BY DEF Added
<1>2. \A a \in alive : tm'[a].id \in Ids
  BY DEF Indexed
<1>3. \A a, b \in alive : tm'[a].id = tm'[b].id => a = b
  BY DEF Indexed
<1>4. \A a \in Added : rb_root[tm'[a].id] = a
  BY <1>1 DEF Indexed
<1>5. IndexAgrees'
  <2>1. ASSUME init_flag, NEW id \in Ids, NEW a \in Addr
        PROVE  rb_root'[id] = a <=> a \in Added' /\ tm'[a].id = id
    <3>1. rb_root[id] = a <=> a \in Added /\ tm[a].id = id
      BY <2>1 DEF Indexed, IndexAgrees
    <3>. QED
      BY <1>1, <3>1
  <2>. QED
    BY <2>1 DEF IndexAgrees
<1>. QED
  BY <1>1, <1>2, <1>3, <1>4, <1>5 DEF Indexed

LEMMA CrashIndexed ==
  ASSUME WheelType, Indexed, NEW what \in Faults, Crash(what),
         what = "wild bit" => cur_timer_num >= 0
  PROVE  Indexed'
<1>1. /\ UNCHANGED <<alive, tm, rb_root, init_flag, cur_timer_num>>
      /\ caller'.cell = caller.cell /\ fault' = what
  BY DEF Crash, WheelType, confVars, heapVars, tableVars
<1>. QED
  BY <1>1, SameIndexed

(* A timer that leaves takes its entry of the index with it.               *)
LEMMA FreeOne ==
  ASSUME WheelType, Indexed, NEW a \in alive, a # caller.cell, init_flag,
         Freed({a}), Forget(tm[a].id),
         UNCHANGED <<init_flag, caller, fault>>, fault = "none"
  PROVE  Indexed'
<1>. DEFINE gone == tm[a].id
<1>1. /\ alive' = alive \ {a} /\ alive \subseteq Addr
      /\ \A b \in alive' : tm'[b] = tm[b]
      /\ Added' = Added \ {a} /\ a \in Added
      /\ gone \in Ids
      /\ rb_root' = [rb_root EXCEPT ![gone] = Null]
  BY DEF Freed, Added, Forget, WheelType, Indexed
<1>2. \A b \in alive' : tm[b].id # gone
  BY <1>1 DEF Indexed
<1>. HIDE DEF gone
<1>3. \A b \in alive' : tm'[b].id \in Ids
  BY <1>1 DEF Indexed
<1>4. \A b, c \in alive' : tm'[b].id = tm'[c].id => b = c
  BY <1>1 DEF Indexed
<1>5. \A b \in Added' : rb_root'[tm'[b].id] = b
  BY <1>1, <1>2, <1>3 DEF Indexed, Added, WheelType
<1>6. IndexAgrees'
  <2>1. ASSUME NEW id \in Ids, NEW b \in Addr
        PROVE  rb_root'[id] = b <=> b \in Added' /\ tm'[b].id = id
    <3>1. CASE id = gone
      <4>1. rb_root'[id] # b
        BY <1>1, <3>1, SlotFacts DEF WheelType, Nodes
      <4>. QED
        BY <1>1, <1>2, <3>1, <4>1 DEF Added
    <3>2. CASE id # gone
      <4>1. rb_root'[id] = rb_root[id]
        BY <1>1, <3>2 DEF WheelType
      <4>2. rb_root[id] = b <=> b \in Added /\ tm[b].id = id
        BY DEF Indexed, IndexAgrees
      <4>3. b = a => tm[b].id # id
        BY <3>2 DEF gone
      <4>. QED
        BY <1>1, <4>1, <4>2, <4>3 DEF Added
    <3>. QED
      BY <3>1, <3>2
  <2>. QED
    BY <2>1 DEF IndexAgrees
<1>7. fault' # "wild bit"
  OBVIOUS
<1>. QED
  BY <1>3, <1>4, <1>5, <1>6, <1>7 DEF Indexed

LEMMA CallIndexed ==
  ASSUME WheelType, Control, Indexed, IdsProofs!IdsInv,
         ProperCall \/ ProperEnd \/ Finish
  PROVE  Indexed'
<1>. USE DEF confVars, idVars, heapVars, tableVars, workerVars, ctlVars
<1>0. caller.op = "none" => caller.cell = Null /\ fault = "none"
  BY DEF Control
<1>1. ASSUME NEW n \in SlotNums, (\A id \in Ids : rb_root[id] = Null), TiInit(n)
      PROVE  Indexed'
  <2>1. Added = alive
    BY <1>0, <1>1, SlotFacts DEF TiInit, LockFree, Added, WheelType, Nodes
  <2>2. alive = {}
    <3>1. SUFFICES ASSUME NEW a \in alive PROVE FALSE
      OBVIOUS
    <3>2. rb_root[tm[a].id] = a /\ tm[a].id \in Ids
      BY <2>1 DEF Indexed
    <3>. QED
      BY <1>1, <3>2, SlotFacts DEF WheelType, Nodes
  <2>3. alive' = {} /\ rb_root' = rb_root /\ fault' = "none" /\ Added' = {}
    BY <1>0, <1>1, <2>2 DEF TiInit, LockFree, Added
  <2>4. \A id \in Ids, a \in Addr : rb_root'[id] # a
    BY <1>1, <2>3, SlotFacts DEF Nodes
  <2>5. IndexAgrees'
    BY <2>3, <2>4 DEF IndexAgrees
  <2>. QED
    BY <2>3, <2>5 DEF Indexed
<1>2. CASE TiInitRefused \/ TiInitEnable
  BY <1>2, SameIndexed DEF TiInitRefused, TiInitEnable, Indexed
<1>12. CASE TiInitPastEnd
  BY <1>12, CrashIndexed DEF TiInitPastEnd, Faults
<1>3. ASSUME NEW on \in BOOLEAN, TiEnable(on)
      PROVE  Indexed'
  BY <1>3, SameIndexed DEF TiEnable, Indexed
<1>4. ASSUME NEW a \in Addr, NEW type \in Types, NEW interval \in Intervals,
             TiAdd(a, type, interval)
      PROVE  Indexed'
  <2>1. CASE min_free = 0
    <3>1. Counted = cur_timer_num /\ Counted \in 0 .. TimerMax
      BY <1>0, <1>4 DEF TiAdd, LockFree, Counted, IdsProofs!IdsInv, IdsProofs!TypeOK
    <3>2. cur_timer_num >= 0
      BY <3>1, IdAssumption
    <3>3. Crash("wild bit")
      BY <1>4, <2>1 DEF TiAdd
    <3>. QED
      BY <3>2, <3>3, CrashIndexed DEF Faults
  <2>2. CASE min_free # 0
    <3>1. /\ alive' = alive \cup {a} /\ a \notin alive /\ alive \subseteq Addr
          /\ tm' = [tm EXCEPT ![a] = Armed(type, interval, min_free)]
          /\ caller'.cell = a /\ caller.cell = Null
          /\ UNCHANGED <<rb_root, init_flag, fault>> /\ init_flag /\ fault = "none"
          /\ min_free \in Ids
      BY <1>0, <1>4, <2>2 DEF TiAdd, LockFree, WheelType
    <3>2. Added = alive /\ Added' = alive
      BY <3>1, SlotFacts DEF Added, Nodes
    <3>3. tm'[a].id = min_free /\ \A b \in alive : tm'[b] = tm[b]
      BY <3>1 DEF Armed, WheelType
    <3>4. \A b \in alive : tm[b].id # min_free
      BY <2>2, <3>1, FreshInWheel
    <3>5. \A b \in alive' : tm'[b].id \in Ids
      BY <3>1, <3>3 DEF Indexed
    <3>6. \A b, c \in alive' : tm'[b].id = tm'[c].id => b = c
      BY <3>1, <3>3, <3>4 DEF Indexed
    <3>7. \A b \in Added' : rb_root'[tm'[b].id] = b
      BY <3>1, <3>2, <3>3 DEF Indexed
    <3>8. IndexAgrees'
      <4>1. ASSUME NEW id \in Ids, NEW b \in Addr
            PROVE  rb_root'[id] = b <=> b \in Added' /\ tm'[b].id = id
        <5>1. rb_root[id] = b <=> b \in Added /\ tm[b].id = id
          BY <3>1 DEF Indexed, IndexAgrees
        <5>. QED
          BY <3>1, <3>2, <3>3, <5>1
      <4>. QED
        BY <4>1 DEF IndexAgrees
    <3>. QED
      BY <3>1, <3>5, <3>6, <3>7, <3>8 DEF Indexed
  <2>. QED
    BY <2>1, <2>2
<1>5. ASSUME NEW id \in Ids, init_flag, TiDel(id)
      PROVE  Indexed'
  <2>1. CASE rb_root[id] \notin alive \/ ~ CanUnlink(rb_root[id])
    BY <1>5, <2>1, CrashIndexed DEF TiDel, Faults
  <2>2. CASE rb_root[id] \in alive /\ CanUnlink(rb_root[id])
    <3>. DEFINE a == rb_root[id]
    <3>1. a \in Addr /\ tm[a].id = id
      BY <1>5, <2>2 DEF WheelType, Indexed, IndexAgrees
    <3>2. a # caller.cell /\ fault = "none"
      BY <1>0, <1>5, <3>1, SlotFacts DEF TiDel, LockFree, Nodes
    <3>3. Freed({a}) /\ Forget(tm[a].id) /\ UNCHANGED <<init_flag, caller, fault>>
      BY <1>5, <2>2, <3>1 DEF TiDel
    <3>. QED
      BY <1>5, <2>2, <3>2, <3>3, FreeOne
  <2>. QED
    BY <2>1, <2>2
<1>6. CASE TiDelAll
  <2>1. CASE \E s \in Headers : timer_cnt[s] # 0 /\ next[s] # s
    BY <1>6, <2>1, CrashIndexed DEF TiDelAll, Faults
  <2>2. CASE ~ \E s \in Headers : timer_cnt[s] # 0 /\ next[s] # s
    <3>1. cur_timer_num' = 0 /\ UNCHANGED <<confVars, heapVars, rb_root, ctlVars>>
      BY <1>6, <2>2, Zenon DEF TiDelAll
    <3>. QED
      BY <3>1, SameIndexed
  <2>. QED
    BY <2>1, <2>2
<1>7. CASE TiAddLink
  <2>1. CASE ~ CanPlace(Links, caller.slot)
    BY <1>7, <2>1, CrashIndexed DEF TiAddLink, Faults
  <2>2. CASE CanPlace(Links, caller.slot)
    <3>. DEFINE a  == caller.cell
                id == tm[a].id
    <3>1. /\ a \in alive /\ init_flag /\ fault = "none" /\ id \in Ids /\ a \in Addr
          /\ alive \subseteq Addr
      BY <1>7 DEF TiAddLink, Control, Indexed, WheelType
    <3>2. rb_root[id] = Null
      <4>1. SUFFICES ASSUME NEW b \in Addr, rb_root[id] = b PROVE FALSE
        BY <3>1 DEF WheelType
      <4>2. b \in Added /\ tm[b].id = id
        BY <3>1, <4>1 DEF Indexed, IndexAgrees
      <4>. QED
        BY <3>1, <4>2 DEF Indexed, Added
    <3>3. /\ UNCHANGED <<alive, tm, init_flag, fault>> /\ caller'.cell = Null
          /\ rb_root' = [rb_root EXCEPT ![id] = a]
      BY <1>7, <2>2, <3>2 DEF TiAddLink, Idle
    <3>4. Added' = alive /\ Added = alive \ {a}
      BY <3>1, <3>3, SlotFacts DEF Added, Nodes
    <3>5. \A b \in alive : tm[b].id = id => b = a
      BY <3>1 DEF Indexed
    <3>. HIDE DEF a, id
    <3>6. \A b \in Added' : rb_root'[tm'[b].id] = b
      <4>1. ASSUME NEW b \in alive PROVE rb_root'[tm[b].id] = b
        <5>1. tm[b].id \in Ids /\ rb_root \in [Ids -> Addr \cup {Null}]
          BY DEF Indexed, WheelType
        <5>2. CASE b = a
          BY <3>1, <3>3, <5>1, <5>2 DEF id
        <5>3. CASE b # a
          <6>1. rb_root[tm[b].id] = b /\ tm[b].id # id
            BY <3>4, <3>5, <5>3 DEF Indexed
          <6>. QED
            BY <3>3, <5>1, <6>1
        <5>. QED
          BY <5>2, <5>3
      <4>. QED
        BY <3>3, <3>4, <4>1
    <3>7. IndexAgrees'
      <4>1. ASSUME NEW i \in Ids, NEW b \in Addr
            PROVE  rb_root'[i] = b <=> b \in Added' /\ tm'[b].id = i
        <5>1. rb_root[i] = b <=> b \in Added /\ tm[b].id = i
          BY <3>1 DEF Indexed, IndexAgrees
        <5>2. CASE i = id
          BY <3>1, <3>3, <3>4, <3>5, <5>2 DEF WheelType, id
        <5>3. CASE i # id
          BY <3>1, <3>3, <3>4, <5>1, <5>3 DEF WheelType, id
        <5>. QED
          BY <5>2, <5>3
      <4>. QED
        BY <4>1 DEF IndexAgrees
    <3>. QED
      BY <3>1, <3>3, <3>6, <3>7 DEF Indexed
  <2>. QED
    BY <2>1, <2>2
<1>8. CASE TiStart
  <2>1. CASE pc = "leaving"
    BY <1>8, <2>1, CrashIndexed DEF TiStart, Faults
  <2>2. CASE pc # "leaving"
    BY <1>8, <2>2, SameIndexed DEF TiStart, Indexed
  <2>. QED
    BY <2>1, <2>2
<1>9. CASE TiStop \/ TiClose
  <2>1. caller'.cell = caller.cell /\ UNCHANGED <<alive, tm, rb_root, init_flag, fault, cur_timer_num>>
    BY <1>0, <1>9 DEF TiStop, TiClose, LockFree, Locked, Idle
  <2>. QED
    BY <2>1, SameIndexed DEF Indexed
<1>10. CASE TiStopKill \/ TiCloseKill
  <2>1. /\ caller'.cell = caller.cell /\ Killed
        /\ UNCHANGED <<alive, rb_root, init_flag, fault, cur_timer_num>>
    BY <1>10 DEF TiStopKill, TiCloseKill, Control, Locked, Idle
  <2>. QED
    BY <2>1, KilledTyped, SameIndexed DEF Indexed
<1>11. CASE TiCloseFree
  <2>1. CASE ~ (Doomed \subseteq alive)
    BY <1>11, <2>1, CrashIndexed DEF TiCloseFree, Faults
  <2>2. CASE Doomed \subseteq alive
    <3>1. /\ caller.cell = Null /\ caller'.cell = Null /\ fault' = fault /\ fault = "none"
          /\ alive' \subseteq alive /\ alive \subseteq Addr /\ rb_root' = rb_root
          /\ ~ init_flag' /\ \A a \in alive' : tm'[a] = tm[a]
      BY <1>11, <2>2 DEF TiCloseFree, Control, Idle, Freed, WheelType
    <3>2. Added' \subseteq Added
      BY <3>1 DEF Added
    <3>3. IndexAgrees'
      BY <3>1 DEF IndexAgrees
    <3>4. \A a \in Added' : rb_root'[tm'[a].id] = a
      BY <3>1, <3>2 DEF Indexed, Added
    <3>. QED
      BY <3>1, <3>3, <3>4 DEF Indexed
  <2>. QED
    BY <2>1, <2>2
<1>. QED
  BY <1>1, <1>2, <1>3, <1>4, <1>5, <1>6, <1>7, <1>8, <1>9, <1>10, <1>11, <1>12
     DEF ProperCall, ProperEnd, Finish

LEMMA WorkerIndexed ==
  ASSUME WheelType, Control, Indexed, Worker
  PROVE  Indexed'
<1>. USE DEF confVars, idVars, heapVars, tableVars, workerVars, ctlVars
<1>0. \A what \in Faults \ {"wild bit"} : Crash(what) => Indexed'
  BY CrashIndexed
<1>1. ASSUME UNCHANGED <<alive, rb_root, init_flag, cur_timer_num, caller, fault>>,
             \A a \in alive : tm'[a].id = tm[a].id
      PROVE  Indexed'
  BY <1>1, SameIndexed DEF Indexed
<1>2. Cut => \A a \in alive : tm'[a].id = tm[a].id
  BY CutTyped
<1>3. Waited => \A a \in alive : tm'[a].id = tm[a].id
  BY DEF Waited, WheelType, Timer
<1>4. CASE Arm \/ Loop
  <2>1. End => Indexed'
    BY <1>1, <1>2 DEF End
  <2>2. CASE Arm
    BY <1>1, <2>1, <2>2 DEF Arm
  <2>3. CASE Loop
    BY <1>0, <1>1, <2>1, <2>3 DEF Loop, Faults
  <2>. QED
    BY <1>4, <2>2, <2>3
<1>5. CASE WalkEnds
  BY <1>1, <1>5 DEF WalkEnds
<1>6. CASE PassBy \/ Fire
  <2>1. \A a \in alive : tm'[a].id = tm[a].id
    BY <1>6 DEF PassBy, Fire, WheelType, Timer
  <2>. QED
    BY <1>1, <1>6, <2>1 DEF PassBy, Fire
<1>7. CASE WalkLost \/ FiredLost \/ ExpireMisread
  BY <1>0, <1>7 DEF WalkLost, FiredLost, ExpireMisread, Faults
<1>12. CASE Leave
  BY <1>1, <1>12 DEF Leave
<1>8. CASE Rearm
  <2>1. \A a \in alive : tm'[a].id = tm[a].id
    BY <1>8 DEF Rearm, Armed, WheelType, Timer
  <2>. QED
    BY <1>1, <1>8, <2>1 DEF Rearm
<1>9. CASE RearmRefused
  BY <1>1, <1>9 DEF RearmRefused
<1>10. CASE Expire
  <2>1. temp \in Addr /\ temp # caller.cell /\ fault = "none" /\ init_flag
    BY <1>10, SlotFacts DEF Expire, CanExpire, LockFree, Control, WheelType, Nodes
  <2>2. Freed({temp}) /\ Forget(tm[temp].id) /\ temp \in alive
        /\ UNCHANGED <<init_flag, caller, fault>>
    BY <1>10 DEF Expire, CanExpire
  <2>. QED
    BY <2>1, <2>2, FreeOne
<1>11. CASE Tick \/ Overrun
  BY <1>1, <1>2, <1>3, <1>11 DEF Tick, Overrun, End
<1>. QED
  BY <1>4, <1>5, <1>6, <1>7, <1>8, <1>9, <1>10, <1>11, <1>12 DEF Worker

-----------------------------------------------------------------------------
(* Every step of the wheel is a step of TimerIds, or changes nothing of    *)
(* what TimerIds sees.                                                     *)
IdsSee == <<init_flag, bitmap, min_free, Counted, Held, IdFault>>

LEMMA CrashSeen ==
  ASSUME WheelType, NEW what \in Faults \ {"wild bit", "memset"}, Crash(what), fault = "none"
  PROVE  UNCHANGED IdsSee
<1>1. /\ UNCHANGED <<alive, tm, init_flag, cur_timer_num, bitmap, min_free>>
      /\ caller'.cell = caller.cell /\ fault' \notin {"wild bit", "memset"}
  BY DEF Crash, WheelType, confVars, idVars, heapVars, tableVars
<1>. QED
  BY <1>1 DEF IdsSee, Counted, Held, IdFault

LEMMA SameSeen ==
  ASSUME UNCHANGED <<init_flag, bitmap, min_free, alive, cur_timer_num, fault>>,
         caller'.cell = caller.cell, \A a \in alive : tm'[a].id = tm[a].id
  PROVE  UNCHANGED IdsSee
<1>1. Counted' = Counted
  BY DEF Counted
<1>2. Held' = Held
  BY DEF Held
<1>. QED
  BY <1>1, <1>2 DEF IdsSee, IdFault

LEMMA FreeOneHeld ==
  ASSUME WheelType, Indexed, NEW a \in alive, init_flag, Freed({a}), init_flag' = init_flag
  PROVE  tm[a].id \in Held /\ Held' = Held \ {tm[a].id}
<1>1. /\ alive' = alive \ {a} /\ alive \subseteq Addr
      /\ \A b \in alive' : tm'[b] = tm[b]
      /\ \A b \in alive' : tm[b].id # tm[a].id
  BY DEF Freed, WheelType, Indexed
<1>2. Held = {tm[b].id : b \in alive} /\ Held' = {tm'[b].id : b \in alive'}
  BY DEF Held
<1>. QED
  BY <1>1, <1>2

LEMMA CallSeen ==
  ASSUME WheelType, Control, Indexed, Indexed', ProperCall \/ ProperEnd \/ Finish
  PROVE  [IdsOf!Next]_IdsSee
<1>. USE DEF confVars, idVars, heapVars, tableVars, workerVars, ctlVars
<1>0. caller.op = "none" => caller.cell = Null /\ fault = "none"
  BY DEF Control
<1>1. ASSUME NEW n \in SlotNums, (\A id \in Ids : rb_root[id] = Null), TiInit(n)
      PROVE  IdsOf!TimerInit
  <2>1. Held = {}
    BY <1>1 DEF TiInit, Held
  <2>2. Held' = {}
    <3>1. SUFFICES alive = {}
      BY <1>1 DEF TiInit, Held
    <3>2. Added = alive
      BY <1>0, <1>1, SlotFacts DEF TiInit, LockFree, Added, WheelType, Nodes
    <3>3. SUFFICES ASSUME NEW a \in alive PROVE FALSE
      OBVIOUS
    <3>4. rb_root[tm[a].id] = a /\ tm[a].id \in Ids
      BY <3>2 DEF Indexed
    <3>. QED
      BY <1>1, <3>4, SlotFacts DEF WheelType, Nodes
  <2>3. Counted' = 0
    BY <1>0, <1>1 DEF TiInit, LockFree, Counted
  <2>4. FreshBitmaps = IdsOf!FreshBitmaps
    BY Zenon DEF FreshBitmaps, Uncleared, Ids, Bytes,
       IdsOf!FreshBitmaps, IdsOf!Uncleared, IdsOf!Ids, IdsOf!Bytes
  <2>. QED
    BY <1>0, <1>1, <2>1, <2>2, <2>3, <2>4 DEF IdsOf!TimerInit, TiInit, LockFree, IdFault
<1>2. CASE TiInitRefused \/ TiInitEnable
  BY <1>2, SameSeen DEF TiInitRefused, TiInitEnable
<1>12. CASE TiInitPastEnd
  <2>1. /\ UNCHANGED <<alive, tm, init_flag, cur_timer_num, bitmap, min_free>>
        /\ caller.cell = Null /\ caller'.cell = Null
        /\ fault = "none" /\ fault' = "memset" /\ ~ init_flag
    BY <1>0, <1>12 DEF TiInitPastEnd, LockFree, Crash, WheelType
  <2>2. UNCHANGED <<Held, Counted>> /\ IdFault = "none" /\ IdFault' = "memset"
    BY <2>1 DEF Held, Counted, IdFault
  <2>3. IdsOf!Bytes < ZeroedBytes
    BY <1>12 DEF TiInitPastEnd, Bytes, IdsOf!Bytes
  <2>. QED
    BY <2>1, <2>2, <2>3 DEF IdsOf!MemsetPastEnd, IdsOf!Next
<1>3. ASSUME NEW on \in BOOLEAN, TiEnable(on)
      PROVE  UNCHANGED IdsSee
  BY <1>3, SameSeen DEF TiEnable
<1>4. ASSUME NEW a \in Addr, NEW type \in Types, NEW interval \in Intervals,
             TiAdd(a, type, interval)
      PROVE  IdsOf!Add
  <2>1. init_flag /\ caller.cell = Null /\ fault = "none" /\ cur_timer_num < TimerMax
    BY <1>0, <1>4 DEF TiAdd, LockFree
  <2>2. Counted = cur_timer_num
    BY <2>1 DEF Counted
  <2>3. CASE min_free = 0
    <3>1. Crash("wild bit")
      BY <1>4, <2>3 DEF TiAdd
    <3>2. /\ UNCHANGED <<alive, tm, init_flag, cur_timer_num, bitmap, min_free>>
          /\ fault' = "wild bit"
      BY <3>1 DEF Crash
    <3>3. Held' = Held /\ Counted' = cur_timer_num + 1
      BY <3>2 DEF Held, Counted
    <3>. QED
      BY <2>1, <2>2, <2>3, <3>2, <3>3 DEF IdsOf!Add, IdsOf!TimerIdPop, IdFault
  <2>4. CASE min_free # 0
    <3>1. /\ alive' = alive \cup {a} /\ a \notin alive /\ alive \subseteq Addr
          /\ tm' = [tm EXCEPT ![a] = Armed(type, interval, min_free)]
          /\ caller'.cell = a /\ a # Null
          /\ UNCHANGED <<init_flag, fault, cur_timer_num>>
          /\ bitmap' = SetBit(bitmap, min_free)
          /\ min_free' = FindMinId(SetBit(bitmap, min_free))
      BY <1>4, <2>4, SlotFacts DEF TiAdd, WheelType, Nodes
    <3>2. tm'[a].id = min_free /\ \A b \in alive : tm'[b] = tm[b]
      BY <3>1 DEF Armed, WheelType
    <3>3. Held' = Held \cup {min_free}
      <4>1. Held = {tm[b].id : b \in alive} /\ Held' = {tm'[b].id : b \in alive \cup {a}}
        BY <2>1, <3>1 DEF Held
      <4>. QED
        BY <3>2, <4>1
    <3>4. Counted' = cur_timer_num + 1
      BY <3>1 DEF Counted
    <3>5. SetBit(bitmap, min_free) = IdsOf!SetBit(bitmap, min_free)
          /\ FindMinId(SetBit(bitmap, min_free)) = IdsOf!FindMinId(SetBit(bitmap, min_free))
      BY Zenon DEF SetBit, FindMinId, OpenBytes, OpenBits, BitId, Bytes, Min,
         IdsOf!SetBit, IdsOf!FindMinId, IdsOf!OpenBytes, IdsOf!OpenBits, IdsOf!BitId,
         IdsOf!Bytes, IdsOf!Min
    <3>. QED
      BY <2>1, <2>2, <2>4, <3>1, <3>3, <3>4, <3>5 DEF IdsOf!Add, IdsOf!TimerIdPop, IdFault
  <2>. QED
    BY <2>3, <2>4
<1>5. ASSUME NEW id \in Ids, init_flag, TiDel(id)
      PROVE  (\E i \in Held : IdsOf!Del(i)) \/ UNCHANGED IdsSee
  <2>1. CASE rb_root[id] \notin alive \/ ~ CanUnlink(rb_root[id])
    BY <1>0, <1>5, <2>1, CrashSeen DEF TiDel, LockFree, Faults
  <2>2. CASE rb_root[id] \in alive /\ CanUnlink(rb_root[id])
    <3>. DEFINE a == rb_root[id]
    <3>1. tm[a].id = id
      BY <1>5, <2>2 DEF WheelType, Indexed, IndexAgrees
    <3>2. id \in Held /\ Held' = Held \ {id}
      BY <1>5, <2>2, <3>1, FreeOneHeld DEF TiDel
    <3>3. Counted = cur_timer_num /\ Counted' = cur_timer_num - 1 /\ fault = "none"
      BY <1>0, <1>5, <2>2 DEF TiDel, LockFree, Counted
    <3>4. IdsOf!Del(id)
      BY <1>5, <2>2, <3>2, <3>3
         DEF TiDel, ReturnId, UnsetBit, MinAfterPush, IdsOf!Del, IdsOf!TimerIdPush,
             IdsOf!UnsetBit, IdsOf!MinAfterPush, IdFault
    <3>. QED
      BY <3>2, <3>4
  <2>. QED
    BY <2>1, <2>2
<1>6. CASE alive = {} /\ TiDelAll
  <2>1. CASE \E s \in Headers : timer_cnt[s] # 0 /\ next[s] # s
    BY <1>0, <1>6, <2>1, CrashSeen DEF TiDelAll, LockFree, Faults
  <2>2. CASE ~ \E s \in Headers : timer_cnt[s] # 0 /\ next[s] # s
    <3>1. /\ cur_timer_num' = 0 /\ UNCHANGED <<init_flag, bitmap, min_free, alive, tm, caller, fault>>
          /\ LockFree /\ alive = {}
      BY <1>6, <2>2, Zenon DEF TiDelAll
    <3>2. Held = {} /\ Held' = {} /\ Counted' = 0 /\ fault = "none"
      BY <1>0, <3>1 DEF Held, Counted, LockFree
    <3>3. IdsOf!DelAllEmpty
      BY <3>1, <3>2 DEF IdsOf!DelAllEmpty, IdFault
    <3>. QED
      BY <3>3 DEF IdsOf!Next
  <2>. QED
    BY <2>1, <2>2
<1>7. CASE TiAddLink
  <2>1. CASE ~ CanPlace(Links, caller.slot)
    BY <1>7, <2>1, CrashSeen DEF TiAddLink, Control, Faults
  <2>2. CASE CanPlace(Links, caller.slot)
    <3>1. /\ UNCHANGED <<init_flag, bitmap, min_free, alive, tm, fault>>
          /\ cur_timer_num' = cur_timer_num + 1
          /\ caller.cell # Null /\ caller'.cell = Null /\ fault = "none"
      BY <1>7, <2>2 DEF TiAddLink, Idle, Control
    <3>2. Counted' = Counted /\ Held' = Held
      BY <3>1 DEF Counted, Held
    <3>. QED
      BY <3>1, <3>2 DEF IdsSee, IdFault
  <2>. QED
    BY <2>1, <2>2
<1>8. CASE TiStart
  <2>1. CASE pc = "leaving"
    BY <1>0, <1>8, <2>1, CrashSeen DEF TiStart, LockFree, Faults
  <2>2. CASE pc # "leaving"
    BY <1>8, <2>2, SameSeen DEF TiStart
  <2>. QED
    BY <2>1, <2>2
<1>9. CASE TiStop \/ TiClose
  <2>1. caller'.cell = caller.cell
    BY <1>0, <1>9 DEF TiStop, TiClose, LockFree, Locked, Idle
  <2>. QED
    BY <1>9, <2>1, SameSeen DEF TiStop, TiClose
<1>10. CASE TiStopKill \/ TiCloseKill
  <2>1. caller'.cell = caller.cell /\ Killed
    BY <1>10 DEF TiStopKill, TiCloseKill, Control, Locked, Idle
  <2>. QED
    BY <1>10, <2>1, KilledTyped, SameSeen DEF TiStopKill, TiCloseKill
<1>11. CASE TiCloseFree
  <2>1. CASE ~ (Doomed \subseteq alive)
    BY <1>11, <2>1, CrashSeen DEF TiCloseFree, Control, Faults
  <2>2. CASE Doomed \subseteq alive
    <3>1. /\ init_flag /\ ~ init_flag' /\ UNCHANGED <<bitmap, min_free, cur_timer_num, fault>>
          /\ caller.cell = Null /\ caller'.cell = Null /\ fault = "none"
          /\ init_flag' = FALSE
      BY <1>11, <2>2 DEF TiCloseFree, Control, Idle
    <3>2. Held' = {} /\ Counted' = Counted
      BY <3>1 DEF Held, Counted
    <3>. QED
      BY <3>1, <3>2 DEF IdsOf!Close, IdsOf!Next, IdFault
  <2>. QED
    BY <2>1, <2>2
<1>. QED
  BY <1>1, <1>2, <1>3, <1>4, <1>5, <1>6, <1>7, <1>8, <1>9, <1>10, <1>11, <1>12
     DEF ProperCall, ProperEnd, Finish, IdsOf!Next

LEMMA WorkerSeen ==
  ASSUME WheelType, Control, Indexed, Worker
  PROVE  [IdsOf!Next]_IdsSee
<1>. USE DEF confVars, idVars, heapVars, tableVars, workerVars, ctlVars
<1>0. pc # "none" => fault = "none"
  BY DEF Control
<1>1. \A what \in Faults \ {"wild bit", "memset"} :
        Crash(what) /\ fault = "none" => UNCHANGED IdsSee
  BY CrashSeen
<1>2. Cut => \A a \in alive : tm'[a].id = tm[a].id
  BY CutTyped
<1>3. Waited => \A a \in alive : tm'[a].id = tm[a].id
  BY DEF Waited, WheelType, Timer
<1>4. CASE Arm \/ Loop
  <2>1. End => UNCHANGED IdsSee
    BY <1>2, SameSeen DEF End
  <2>2. CASE Arm
    BY <2>1, <2>2, SameSeen DEF Arm
  <2>3. CASE Loop
    BY <1>0, <1>1, <2>1, <2>3, SameSeen DEF Loop, Faults
  <2>. QED
    BY <1>4, <2>2, <2>3
<1>5. CASE WalkEnds
  BY <1>5, SameSeen DEF WalkEnds
<1>6. CASE PassBy \/ Fire
  <2>1. \A a \in alive : tm'[a].id = tm[a].id
    BY <1>6 DEF PassBy, Fire, WheelType, Timer
  <2>. QED
    BY <1>6, <2>1, SameSeen DEF PassBy, Fire
<1>7. CASE WalkLost \/ FiredLost \/ ExpireMisread
  BY <1>0, <1>1, <1>7 DEF WalkLost, FiredLost, ExpireMisread, CanExpire, Faults
<1>12. CASE Leave
  BY <1>12, SameSeen DEF Leave
<1>8. CASE Rearm
  <2>1. \A a \in alive : tm'[a].id = tm[a].id
    BY <1>8 DEF Rearm, Armed, WheelType, Timer
  <2>. QED
    BY <1>8, <2>1, SameSeen DEF Rearm
<1>9. CASE RearmRefused
  BY <1>9, SameSeen DEF RearmRefused
<1>10. CASE Expire
  <2>. DEFINE id == tm[temp].id
  <2>1. fault = "none" /\ init_flag /\ caller.cell = Null /\ temp \in alive
    BY <1>0, <1>10 DEF Expire, CanExpire, LockFree, Control
  <2>2. id \in Held /\ Held' = Held \ {id}
    BY <1>10, <2>1, FreeOneHeld DEF Expire
  <2>3. Counted' = Counted
    BY <1>10 DEF Expire, Counted
  <2>4. IdsOf!Expire(id)
    BY <1>10, <2>1, <2>2, <2>3
       DEF Expire, ReturnId, UnsetBit, MinAfterPush, IdsOf!Expire, IdsOf!TimerIdPush,
           IdsOf!UnsetBit, IdsOf!MinAfterPush, IdFault
  <2>. QED
    BY <2>2, <2>4 DEF IdsOf!Next
<1>11. CASE Tick \/ Overrun
  BY <1>2, <1>3, <1>11, SameSeen DEF Tick, Overrun, End
<1>. QED
  BY <1>4, <1>5, <1>6, <1>7, <1>8, <1>9, <1>10, <1>11, <1>12 DEF Worker

-----------------------------------------------------------------------------
LEMMA WheelStart == Init => WheelInv
<1>. SUFFICES ASSUME Init PROVE WheelInv
  OBVIOUS
<1>1. WheelType
  <2>1. NoTimer \in Timer
    BY DEF NoTimer, Timer, Types
  <2>2. caller \in [op : Ops, cell : Addr \cup {Null}, slot : Slots]
    BY SlotFacts DEF Init, Idle, Ops
  <2>3. tmp \in Nodes /\ replay \in 0 .. LateReads - 1 /\ cur_slot \in Slots
    BY SlotFacts, WheelAssumption DEF Init, Nodes
  <2>4. tm \in [Addr -> Timer] /\ rb_root \in [Ids -> Addr \cup {Null}]
    BY <2>1 DEF Init
  <2>5. /\ next \in [Nodes -> Nodes \cup {Poison}]
        /\ prev \in [Nodes -> Nodes \cup {Poison}]
        /\ timer_cnt \in [Slots -> Int]
    BY DEF Init
  <2>6. /\ init_flag \in BOOLEAN /\ enable_flag \in BOOLEAN /\ start_flag \in BOOLEAN
        /\ opening \in BOOLEAN /\ timerfd \in BOOLEAN
    BY Zenon DEF Init
  <2>7. /\ slot_num \in SlotNums \cup {0} /\ cur_timer_num \in Int
        /\ bitmap \subseteq Ids /\ min_free \in Ids \cup {0} /\ alive \subseteq Addr
        /\ pc \in {"none", "arm", "loop", "walk", "fired", "read", "leaving"}
        /\ temp \in Addr \cup {Null} /\ fault \in Faults
    BY DEF Init, Faults
  <2>. QED
    BY <2>2, <2>3, <2>4, <2>5, <2>6, <2>7 DEF WheelType
<1>2. Control
  BY DEF Init, Idle, Control
<1>3. Indexed
  BY DEF Init, Indexed, IndexAgrees, Added
<1>4. IdsProofs!Init
  BY DEF Init, Idle, IdsProofs!Init, Held, Counted, IdFault
<1>5. IdsProofs!IdsInv
  BY <1>4, IdsProofs!IdsInvInit, IdAssumption
<1>. QED
  BY <1>1, <1>2, <1>3, <1>5 DEF WheelInv

(* One mapping, whether the proofs about TimerIds are at hand or not.      *)
LEMMA IdsOfAgain ==
  ASSUME [IdsOf!Next]_(IdsOf!vars)
  PROVE  [IdsProofs!Next]_(IdsProofs!vars)
BY DEF IdsOf!Next, IdsOf!vars, IdsOf!TimerInit, IdsOf!Add, IdsOf!Del, IdsOf!Expire,
       IdsOf!MemsetPastEnd, IdsOf!DelAllEmpty, IdsOf!Close, IdsOf!TimerIdPop, IdsOf!TimerIdPush,
       IdsOf!FreshBitmaps, IdsOf!Uncleared, IdsOf!Ids, IdsOf!Bytes, IdsOf!SetBit,
       IdsOf!UnsetBit, IdsOf!MinAfterPush, IdsOf!FindMinId, IdsOf!OpenBytes,
       IdsOf!OpenBits, IdsOf!BitId, IdsOf!Min,
       IdsProofs!Next, IdsProofs!vars, IdsProofs!TimerInit, IdsProofs!Add, IdsProofs!Del,
       IdsProofs!MemsetPastEnd, IdsProofs!Expire, IdsProofs!DelAllEmpty, IdsProofs!Close, IdsProofs!TimerIdPop,
       IdsProofs!TimerIdPush, IdsProofs!FreshBitmaps, IdsProofs!Uncleared, IdsProofs!Ids,
       IdsProofs!Bytes, IdsProofs!SetBit, IdsProofs!UnsetBit, IdsProofs!MinAfterPush,
       IdsProofs!FindMinId, IdsProofs!OpenBytes, IdsProofs!OpenBits, IdsProofs!BitId,
       IdsProofs!Min

LEMMA WheelStep ==
  ASSUME WheelInv, [ProperNext]_vars
  PROVE  WheelInv' /\ [IdsOf!Next]_(IdsOf!vars)
<1>0. WheelType /\ Control /\ Indexed /\ IdsProofs!IdsInv
  BY DEF WheelInv
<1>1. CASE ProperNext
  <2>1. WheelType' /\ Control'
    BY <1>0, <1>1, CallTyped, WorkerTyped, CallControl, WorkerControl DEF ProperNext, Indexed
  <2>2. Indexed'
    BY <1>0, <1>1, CallIndexed, WorkerIndexed DEF ProperNext
  <2>3. [IdsOf!Next]_IdsSee
    BY <1>0, <1>1, <2>2, CallSeen, WorkerSeen DEF ProperNext
  <2>4. [IdsOf!Next]_(IdsOf!vars)
    BY <2>3 DEF IdsSee, IdsOf!vars
  <2>5. [IdsProofs!Next]_(IdsProofs!vars)
    BY <2>4, IdsOfAgain
  <2>6. IdsProofs!IdsInv'
    BY <1>0, <2>5, IdsProofs!IdsInvStep, IdAssumption
  <2>. QED
    BY <2>1, <2>2, <2>4, <2>6 DEF WheelInv
<1>2. CASE UNCHANGED vars
  <2>. USE DEF vars, confVars, idVars, heapVars, tableVars, workerVars, ctlVars
  <2>1. WheelType'
    BY <1>0, <1>2 DEF WheelType
  <2>2. Control'
    BY <1>0, <1>2 DEF Control
  <2>3. Indexed'
    BY <1>0, <1>2, SameIndexed DEF Indexed
  <2>4. UNCHANGED IdsOf!vars
    BY <1>2, SameSeen DEF IdsSee, IdsOf!vars
  <2>5. [IdsProofs!Next]_(IdsProofs!vars)
    BY <2>4 DEF IdsOf!vars, IdsProofs!vars
  <2>6. IdsProofs!IdsInv'
    BY <1>0, <2>5, IdsProofs!IdsInvStep, IdAssumption
  <2>. QED
    BY <2>1, <2>2, <2>3, <2>4, <2>6 DEF WheelInv
<1>. QED
  BY <1>1, <1>2

(* The inductive invariant of the wheel under proper callers.              *)
THEOREM WheelInvariant == ProperSpec => []WheelInv
<1>1. WheelInv /\ [ProperNext]_vars => WheelInv'
  BY WheelStep
<1>. QED
  BY WheelStart, <1>1, PTL DEF ProperSpec

(* Whatever proper callers and the worker do to the lists, walk or not,    *)
(* every step takes the ids through a step of TimerIds, or leaves them     *)
(* alone: two timers never share an id, ti_add's capacity check sees no    *)
(* fewer timers than there are.                                            *)
THEOREM WheelRefinesIds == ProperSpec => RefinesIds
<1>1. Init => IdsOf!Init
  BY DEF Init, Idle, IdsOf!Init, Held, Counted, IdFault
<1>2. WheelInv /\ [ProperNext]_vars => [IdsOf!Next]_(IdsOf!vars)
  BY WheelStep
<1>. QED
  BY <1>1, <1>2, WheelInvariant, PTL DEF ProperSpec, RefinesIds, IdsOf!Spec

(* A start never meets a worker that will touch the wheel again: whoever   *)
(* clears start_flag for one that may holds the lock until it is killed.   *)
THEOREM StartsAlone == ProperSpec => OneWorker
<1>1. WheelInv /\ [ProperNext]_vars => [TiStart => pc \in {"none", "leaving"}]_vars
  BY DEF WheelInv, Control, TiStart, LockFree
<1>. QED
  BY <1>1, WheelInvariant, PTL DEF ProperSpec, OneWorker

-----------------------------------------------------------------------------
(* A single-shot timer whose callback ran is the one that the worker is    *)
(* at, unless a kill took the worker away from it.                         *)
RanOnce ==
  fault = "none" =>
    \A a \in alive : tm[a].type = "SINGLE_SHOT" /\ tm[a].ran =>
                      tm[a].torn \/ (pc = "fired" /\ temp = a)

(* Steps that leave every timer as it is where RanOnce looks, or let it    *)
(* go, and no worker out of a callback.                                    *)
LEMMA SameRan ==
  ASSUME RanOnce, alive' \subseteq alive,
         \A a \in alive' : /\ tm'[a].type = tm[a].type /\ tm'[a].ran = tm[a].ran
                           /\ tm[a].torn => tm'[a].torn,
         pc = "fired" /\ temp \in alive' => pc' = "fired" /\ temp' = temp,
         fault = "none"
  PROVE  RanOnce'
BY DEF RanOnce

LEMMA CallRan ==
  ASSUME WheelType, Control, RanOnce, ProperCall \/ ProperEnd \/ Finish
  PROVE  RanOnce'
<1>. USE DEF confVars, idVars, heapVars, tableVars, workerVars, ctlVars
<1>0. /\ LockFree => fault = "none"
      /\ caller.op \in {"add", "stop", "close", "free"} => fault = "none"
  BY DEF Control, LockFree
<1>1. ASSUME NEW what \in Faults \ {"none"}, Crash(what)
      PROVE  RanOnce'
  BY <1>1 DEF Crash, RanOnce
<1>2. ASSUME UNCHANGED <<alive, tm, pc, temp>>, fault = "none"
      PROVE  RanOnce'
  BY <1>2, SameRan
<1>3. CASE (\E n \in SlotNums : TiInit(n)) \/ TiInitEnable \/ TiInitRefused
  BY <1>0, <1>2, <1>3 DEF TiInit, TiInitEnable, TiInitRefused
<1>4. CASE TiInitPastEnd
  BY <1>1, <1>4 DEF TiInitPastEnd, Faults
<1>5. CASE \E on \in BOOLEAN : TiEnable(on)
  BY <1>0, <1>2, <1>5 DEF TiEnable
<1>6. ASSUME NEW a \in Addr, NEW type \in Types, NEW interval \in Intervals,
             TiAdd(a, type, interval)
      PROVE  RanOnce'
  <2>1. CASE min_free = 0
    BY <1>1, <1>6, <2>1 DEF TiAdd, Faults
  <2>2. CASE min_free # 0
    <3>1. /\ fault = "none" /\ alive' = alive \cup {a} /\ alive \subseteq Addr
          /\ UNCHANGED <<pc, temp>> /\ a \notin alive
          /\ tm' = [tm EXCEPT ![a] = Armed(type, interval, min_free)]
          /\ tm \in [Addr -> Timer]
      BY <1>0, <1>6, <2>2 DEF TiAdd, WheelType
    <3>2. ~ tm'[a].ran /\ \A b \in alive : tm'[b] = tm[b]
      BY <3>1 DEF Armed
    <3>. QED
      BY <3>1, <3>2 DEF RanOnce
  <2>. QED
    BY <2>1, <2>2
<1>7. ASSUME NEW id \in Ids, TiDel(id)
      PROVE  RanOnce'
  <2>1. CASE rb_root[id] \notin alive \/ ~ CanUnlink(rb_root[id])
    BY <1>1, <1>7, <2>1 DEF TiDel, Faults
  <2>2. CASE rb_root[id] \in alive /\ CanUnlink(rb_root[id])
    <3>1. /\ fault = "none" /\ Freed({rb_root[id]}) /\ UNCHANGED <<pc, temp>>
      BY <1>0, <1>7, <2>2 DEF TiDel
    <3>2. alive' \subseteq alive /\ \A a \in alive' : tm'[a] = tm[a]
      BY <3>1 DEF Freed, WheelType
    <3>. QED
      BY <3>1, <3>2, SameRan
  <2>. QED
    BY <2>1, <2>2
<1>8. CASE TiDelAll
  <2>1. CASE \E s \in Headers : timer_cnt[s] # 0 /\ next[s] # s
    BY <1>1, <1>8, <2>1 DEF TiDelAll, Faults
  <2>2. CASE ~ \E s \in Headers : timer_cnt[s] # 0 /\ next[s] # s
    <3>1. UNCHANGED <<heapVars, workerVars>> /\ LockFree
      BY <1>8, <2>2, Zenon DEF TiDelAll
    <3>. QED
      BY <1>0, <1>2, <3>1
  <2>. QED
    BY <2>1, <2>2
<1>9. CASE TiStart
  <2>1. CASE pc = "leaving"
    BY <1>1, <1>9, <2>1 DEF TiStart, Faults
  <2>2. CASE pc # "leaving"
    <3>1. pc # "fired"
      BY <1>9 DEF TiStart, LockFree, Control
    <3>2. UNCHANGED <<alive, tm>> /\ fault = "none"
      BY <1>0, <1>9, <2>2 DEF TiStart
    <3>. QED
      BY <3>1, <3>2, SameRan
  <2>. QED
    BY <2>1, <2>2
<1>10. CASE TiStop \/ TiClose
  BY <1>0, <1>2, <1>10 DEF TiStop, TiClose
<1>11. CASE TiAddLink
  <2>1. CASE ~ CanPlace(Links, caller.slot)
    BY <1>1, <1>11, <2>1 DEF TiAddLink, Faults
  <2>2. CASE CanPlace(Links, caller.slot)
    BY <1>0, <1>2, <1>11, <2>2 DEF TiAddLink
  <2>. QED
    BY <2>1, <2>2
<1>12. CASE TiStopKill \/ TiCloseKill
  <2>1. Killed /\ UNCHANGED alive /\ fault = "none"
    BY <1>0, <1>12 DEF TiStopKill, TiCloseKill
  <2>2. ASSUME NEW a \in alive
        PROVE  /\ tm'[a].type = tm[a].type /\ tm'[a].ran = tm[a].ran
               /\ tm'[a].torn <=> tm[a].torn \/ (pc = "fired" /\ a = temp)
    <3>1. a \in Addr /\ tm[a] \in Timer
      BY DEF WheelType
    <3>2. tm'[a] = [tm[a] EXCEPT !.cut = TRUE, !.torn = @ \/ (pc = "fired" /\ a = temp)]
      BY <2>1, <3>1 DEF Killed
    <3>. QED
      BY <3>1, <3>2 DEF Timer
  <2>. QED
    BY <2>1, <2>2 DEF RanOnce
<1>13. CASE TiCloseFree
  <2>1. CASE ~ (Doomed \subseteq alive)
    BY <1>1, <1>13, <2>1 DEF TiCloseFree, Faults
  <2>2. CASE Doomed \subseteq alive
    <3>1. /\ fault = "none" /\ Freed(Doomed) /\ UNCHANGED <<pc, temp>>
      BY <1>0, <1>13, <2>2 DEF TiCloseFree
    <3>2. alive' \subseteq alive /\ \A a \in alive' : tm'[a] = tm[a]
      BY <3>1 DEF Freed, WheelType
    <3>. QED
      BY <3>1, <3>2, SameRan
  <2>. QED
    BY <2>1, <2>2
<1>. QED
  BY <1>3, <1>4, <1>5, <1>6, <1>7, <1>8, <1>9, <1>10, <1>11, <1>12, <1>13
     DEF ProperCall, ProperEnd, Finish

LEMMA WorkerRan ==
  ASSUME WheelType, Control, RanOnce, Worker
  PROVE  RanOnce'
<1>. USE DEF confVars, idVars, heapVars, tableVars, workerVars, ctlVars
<1>0. pc # "none" => fault = "none"
  BY DEF Control
<1>1. ASSUME NEW what \in Faults \ {"none"}, Crash(what)
      PROVE  RanOnce'
  BY <1>1 DEF Crash, RanOnce
<1>2. ASSUME UNCHANGED <<alive, tm>>, pc # "fired", fault = "none"
      PROVE  RanOnce'
  BY <1>2, SameRan
<1>3. ASSUME UNCHANGED alive, pc # "fired", fault = "none", Cut \/ Waited
      PROVE  RanOnce'
  <2>1. \A a \in alive : /\ tm'[a].type = tm[a].type /\ tm'[a].ran = tm[a].ran
                          /\ tm'[a].torn = tm[a].torn
    BY <1>3 DEF Cut, Waited, WheelType, Timer
  <2>. QED
    BY <1>3, <2>1, SameRan
<1>12. ASSUME End, pc # "fired", fault = "none"
       PROVE  RanOnce'
  BY <1>3, <1>12 DEF End
<1>4. CASE Arm \/ Loop \/ WalkEnds
  <2>1. CASE cur_slot \notin Headers /\ Loop /\ start_flag
    BY <1>1, <2>1 DEF Loop, Faults
  <2>2. CASE ~ (cur_slot \notin Headers /\ Loop /\ start_flag)
    BY <1>0, <1>2, <1>4, <1>12, <2>2 DEF Arm, Loop, WalkEnds
  <2>. QED
    BY <2>1, <2>2
<1>5. CASE WalkLost \/ FiredLost \/ ExpireMisread
  BY <1>1, <1>5 DEF WalkLost, FiredLost, ExpireMisread, Faults
<1>6. CASE PassBy
  <2>1. /\ UNCHANGED alive /\ pc # "fired" /\ fault = "none"
    BY <1>0, <1>6 DEF PassBy
  <2>2. \A a \in alive : /\ tm'[a].type = tm[a].type /\ tm'[a].ran = tm[a].ran
                          /\ tm'[a].torn = tm[a].torn
    BY <1>6 DEF PassBy, WheelType, Timer
  <2>. QED
    BY <2>1, <2>2, SameRan
<1>7. CASE Fire
  <2>1. /\ UNCHANGED <<alive, fault>> /\ pc = "walk" /\ pc' = "fired" /\ fault = "none"
        /\ tm' = [tm EXCEPT ![temp'].ran = TRUE] /\ tm \in [Addr -> Timer]
        /\ alive \subseteq Addr
    BY <1>0, <1>7 DEF Fire, WheelType
  <2>2. \A a \in alive \ {temp'} : tm'[a] = tm[a]
    BY <2>1
  <2>. QED
    BY <2>1, <2>2 DEF RanOnce
<1>8. CASE Rearm \/ RearmRefused
  <2>1. /\ UNCHANGED <<alive, fault>> /\ fault = "none"
        /\ tm[temp].type = "REPEAT" /\ temp \in Addr
        /\ tm \in [Addr -> Timer] /\ alive \subseteq Addr
        /\ \/ UNCHANGED tm
           \/ tm' = [tm EXCEPT ![temp] = Armed(@.type, @.interval, @.id)]
    BY <1>0, <1>8 DEF Rearm, RearmRefused, WheelType
  <2>2. tm'[temp].type = "REPEAT" /\ \A a \in alive \ {temp} : tm'[a] = tm[a]
    BY <2>1 DEF Armed
  <2>. QED
    BY <2>1, <2>2 DEF RanOnce
<1>9. CASE Expire
  <2>1. Freed({temp}) /\ fault = "none"
    BY <1>0, <1>9 DEF Expire, CanExpire
  <2>2. alive' = alive \ {temp} /\ \A a \in alive' : tm'[a] = tm[a]
    BY <2>1 DEF Freed, WheelType
  <2>. QED
    BY <2>1, <2>2, SameRan
<1>10. CASE Tick \/ Overrun
  BY <1>0, <1>3, <1>10, <1>12 DEF Tick, Overrun
<1>11. CASE Leave
  BY <1>0, <1>2, <1>11 DEF Leave
<1>. QED
  BY <1>4, <1>5, <1>6, <1>7, <1>8, <1>9, <1>10, <1>11 DEF Worker

(* A single-shot timer runs once, whoever calls what and when, unless the  *)
(* worker is killed between this timer's callback and its removal.         *)
THEOREM RunsOnce == ProperSpec => FiresOnce
<1>1. Init => RanOnce
  BY DEF Init, RanOnce
<1>2. WheelInv /\ RanOnce /\ [ProperNext]_vars => RanOnce'
  <2>. SUFFICES ASSUME WheelInv, RanOnce, [ProperNext]_vars
                PROVE  RanOnce'
    OBVIOUS
  <2>1. WheelType /\ Control
    BY DEF WheelInv
  <2>2. CASE ProperNext
    BY <2>1, <2>2, CallRan, WorkerRan DEF ProperNext
  <2>3. CASE UNCHANGED vars
    BY <2>3 DEF RanOnce, vars, heapVars, workerVars, ctlVars
  <2>. QED
    BY <2>2, <2>3
<1>3. WheelInv /\ RanOnce =>
        [Fire /\ tm[temp'].type = "SINGLE_SHOT" /\ tm[temp'].ran => tm[temp'].torn]_vars
  BY DEF WheelInv, Control, RanOnce, Fire
<1>. QED
  BY <1>1, <1>2, <1>3, WheelInvariant, PTL DEF ProperSpec, FiresOnce
=============================================================================
