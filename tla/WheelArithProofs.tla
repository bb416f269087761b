-------------------------- MODULE WheelArithProofs --------------------------
(***************************************************************************)
(* Proofs about WheelArith, for every width of a word, every slot and      *)
(* every interval: the words stay words, and a timer runs less than two    *)
(* slots before its interval is over unless the arithmetic wraps.          *)
(***************************************************************************)
EXTENDS WheelArith, NatLemmas

(* A word is its own remainder.                                            *)
LEMMA WordRemainder ==
  ASSUME NEW x \in Word
  PROVE  x % 2^Width = x
<1>1. 2^Width \in Nat \ {0} /\ x \in 0 .. 2^Width - 1
  BY ArithAssumption DEF Word
<1>2. (0 * 2^Width + x) % 2^Width = x
  BY <1>1, UniqueRemainder
<1>. QED
  BY <1>1, <1>2

(* Whole turns of an interval are whole turns of its whole slots.          *)
LEMMA SlotsOfTurns ==
  ASSUME NEW a \in Nat, NEW b \in Nat \ {0}, NEW c \in Nat \ {0}
  PROVE  /\ a \div (b * c) \in Nat
         /\ a \div b \in Nat
         /\ (a \div b) - (a \div (b * c)) * c \in 0 .. c - 1
<1>. DEFINE q == a \div b
            s == a % b
            R == a \div (b * c)
            t == a % (b * c)
<1>0. b * c \in Nat \ {0}
  <2>1. 1 * b <= c * b
    BY TimesMono
  <2>. QED
    BY <2>1
<1>1. q \in Int /\ s \in 0 .. b - 1 /\ a = q * b + s
  BY DivMod
<1>2. R \in Int /\ t \in 0 .. b * c - 1 /\ a = R * (b * c) + t
  <2>. DEFINE d == b * c
  <2>1. d \in Nat \ {0}
    BY <1>0
  <2>. HIDE DEF d
  <2>2. /\ a \div d \in Int
        /\ a % d \in 0 .. d - 1
        /\ a = (a \div d) * d + (a % d)
    BY <2>1, DivMod
  <2>. QED
    BY <2>2 DEF d
<1>. HIDE DEF q, s, R, t
<1>3. q >= 0
  <2>1. SUFFICES ASSUME q <= -1 PROVE FALSE
    BY <1>1
  <2>2. q * b <= (-1) * b
    BY <1>1, <2>1, TimesMono
  <2>. QED
    BY <1>1, <2>2
<1>4. R >= 0
  <2>1. SUFFICES ASSUME R <= -1 PROVE FALSE
    BY <1>2
  <2>2. R * (b * c) <= (-1) * (b * c)
    BY <1>0, <1>2, <2>1, TimesMono
  <2>. QED
    BY <1>0, <1>2, <2>2
<1>5. R * (b * c) = (R * c) * b /\ R * c \in Int
  BY <1>2
<1>6. q >= R * c
  <2>1. SUFFICES ASSUME q + 1 <= R * c PROVE FALSE
    BY <1>1, <1>5
  <2>2. (q + 1) * b <= (R * c) * b
    BY <1>1, <1>5, <2>1, TimesMono
  <2>3. (q + 1) * b = q * b + b
    BY <1>1
  <2>. QED
    BY <1>1, <1>2, <1>5, <2>2, <2>3
<1>7. q < R * c + c
  <2>1. SUFFICES ASSUME R * c + c <= q PROVE FALSE
    BY <1>1, <1>5
  <2>2. (R * c + c) * b <= q * b
    BY <1>1, <1>5, <2>1, TimesMono
  <2>3. (R * c + c) * b = (R * c) * b + b * c
    BY <1>5
  <2>. QED
    BY <1>0, <1>1, <1>2, <1>5, <2>2, <2>3
<1>. QED
  BY <1>1, <1>2, <1>3, <1>4, <1>5, <1>6, <1>7 DEF q, R

(***************************************************************************)
(* What a step may rely on: a wheel that works has slots, and cur_slot is  *)
(* one of them.                                                            *)
(***************************************************************************)
Configured ==
  /\ \/ slot_num = 0 /\ cur_slot = 0
     \/ slot_num >= 2 /\ time_slot > 0 /\ cur_slot < slot_num
  /\ pc = "read" => slot_num > 0
  /\ timer # NoTimer =>
       slot_num > 0 /\ timer.type \in Types /\ timer.index < slot_num

Quotient == timer.interval \div time_slot

(* Where the timer stands: ahead slots before its own, after round more    *)
(* turns; late is the turn more that whole turns may take.                 *)
Ahead(late, ahead) ==
  /\ late = slot_num => Quotient % slot_num = 0
  /\ Quotient + late = waited + timer.round * slot_num + ahead
  /\ pc = "walk" => ahead < slot_num
  /\ pc = "read" => ahead > 0
  /\ timer.index \in {cur_slot + ahead, cur_slot + ahead - slot_num}

Phase ==
  timer # NoTimer /\ NoWrap /\ fault = "none" =>
    \E late \in {0, slot_num}, ahead \in 0 .. slot_num : Ahead(late, ahead)

ArithInv == TypeOK /\ Configured /\ Phase

LEMMA WordSize == 2^Width \in Nat \ {0} /\ Word \subseteq Nat
  BY ArithAssumption DEF Word

(* A word that is not negative as an int is the same number.               *)
LEMMA NotNegative ==
  ASSUME NEW w \in Word, AsInt(w) >= 0
  PROVE  AsInt(w) = w
<1>1. AsInt(w) \in {w, w - 2^Width}
  BY DEF AsInt
<1>2. w - 2^Width < 0 /\ w \in Int /\ 2^Width \in Int
  <2>1. w \in Int /\ w <= 2^Width - 1 /\ 2^Width \in Nat
    BY WordSize DEF Word
  <2>. QED
    BY <2>1
<1>. QED
  BY <1>1, <1>2

LEMMA SmallerWord ==
  ASSUME NEW a \in Word, NEW b \in Nat, b <= a
  PROVE  b \in Word
<1>1. a \in Int /\ a <= 2^Width - 1 /\ 2^Width \in Nat
  BY WordSize DEF Word
<1>. QED
  BY <1>1 DEF Word

(* What a word keeps of a number is a word.                                *)
LEMMA Truncated ==
  ASSUME NEW a \in Int
  PROVE  a % 2^Width \in Word
<1>1. \A b \in Nat \ {0} : a % b \in 0 .. b - 1
  BY DivMod
<1>. QED
  BY <1>1, WordSize DEF Word

(* A quotient of a word is a word.                                          *)
LEMMA QuotientIsWord ==
  ASSUME NEW a \in Word, NEW b \in Nat \ {0}
  PROVE  a \div b \in Word
<1>1. a \in Nat
  BY WordSize
<1>. QED
  BY <1>1, QuotientBound, SmallerWord

(***************************************************************************)
(* Where arming puts a timer when nothing wraps: its slots modulo the      *)
(* wheel's ahead of the current one, and as many turns as fit.             *)
(***************************************************************************)
LEMMA ArmedAhead ==
  ASSUME NEW length \in Nat \ {0}, NEW number \in Nat \ {0},
         NEW cur \in 0 .. number - 1, NEW interval \in Nat,
         length * number < 2^Width,
         number - 1 + (interval \div length) < 2^Width
  PROVE  \E ahead \in 0 .. number - 1 :
           /\ (interval \div length) % number = ahead
           /\ interval \div length =
                (interval \div ((length * number) % 2^Width)) * number + ahead
           /\ ((cur + (interval \div length)) % 2^Width) % number
                \in {cur + ahead, cur + ahead - number}
<1>. DEFINE q == interval \div length
            R == interval \div (length * number)
            ahead == q - R * number
<1>1. q \in Nat /\ R \in Nat /\ ahead \in 0 .. number - 1
  BY SlotsOfTurns
<1>2. (length * number) % 2^Width = length * number
  <2>1. length * number \in Word
    BY WordSize DEF Word
  <2>. QED
    BY <2>1, WordRemainder
<1>3. (cur + q) % 2^Width = cur + q
  <2>. HIDE DEF q
  <2>1. cur + q \in Word
    BY <1>1, WordSize DEF Word, q
  <2>. QED
    BY <2>1, WordRemainder
<1>. HIDE DEF q, R
<1>4. q = R * number + ahead
  BY <1>1
<1>. HIDE DEF ahead
<1>5. q % number = ahead
  <2>1. (R * number + ahead) % number = ahead
    BY <1>1, UniqueRemainder
  <2>. QED
    BY <1>4, <2>1
<1>6. (cur + q) % number \in {cur + ahead, cur + ahead - number}
  <2>1. CASE cur + ahead < number
    <3>1. (R * number + (cur + ahead)) % number = cur + ahead
      BY <1>1, <2>1, UniqueRemainder
    <3>2. cur + q = R * number + (cur + ahead)
      BY <1>1, <1>4
    <3>. QED
      BY <3>1, <3>2
  <2>2. CASE cur + ahead >= number
    <3>1. ((R + 1) * number + (cur + ahead - number)) % number = cur + ahead - number
      <4>1. R + 1 \in Int /\ cur + ahead - number \in 0 .. number - 1
        BY <1>1, <2>2
      <4>. QED
        BY <4>1, UniqueRemainder
    <3>2. (R + 1) * number = R * number + number
      BY <1>1
    <3>3. cur + q = (R + 1) * number + (cur + ahead - number)
      BY <1>1, <1>4, <3>2
    <3>. QED
      BY <3>1, <3>3
  <2>. QED
    BY <1>1, <2>1, <2>2
<1>. QED
  BY <1>1, <1>2, <1>3, <1>4, <1>5, <1>6 DEF q, R

(***************************************************************************)
(* Arming keeps the invariant, whether the worker is about to walk the     *)
(* current slot or has just walked it.                                     *)
(***************************************************************************)
LEMMA ArmKeepsArithInv ==
  ASSUME ArithInv, slot_num > 0,
         NEW type \in Types, NEW interval \in Word, NEW ms \in Word,
         Arm(type, interval, ms),
         UNCHANGED <<time_slot, slot_num, cur_slot>>,
         \/ pc' = "read"
         \/ pc' = pc /\ timer = NoTimer
  PROVE  ArithInv'
<1>. USE DEF ArithInv
<1>0. /\ time_slot \in Nat \ {0} /\ slot_num \in Nat \ {0} /\ slot_num >= 2
      /\ cur_slot \in 0 .. slot_num - 1
      /\ interval \in Nat
  <2>1. /\ time_slot \in Word /\ slot_num \in Word /\ cur_slot \in Word
        /\ slot_num = 0 \/ (time_slot > 0 /\ slot_num >= 2)
        /\ cur_slot < slot_num
    BY DEF TypeOK, Configured
  <2>. QED
    BY <2>1, WordSize
<1>1. /\ ((cur_slot + (interval \div time_slot)) % 2^Width) % slot_num \in 0 .. slot_num - 1
      /\ ((cur_slot + (interval \div time_slot)) % 2^Width) % slot_num \in Word
  <2>. DEFINE x == (cur_slot + (interval \div time_slot)) % 2^Width
  <2>1. interval \div time_slot \in Int
    BY <1>0, DivMod
  <2>2. x \in Int
    BY <1>0, <2>1, Truncated, WordSize
  <2>3. x % slot_num \in 0 .. slot_num - 1
    BY <1>0, <2>2, DivMod
  <2>4. slot_num \in Word
    BY DEF TypeOK
  <2>. QED
    BY <1>0, <2>3, <2>4, WordSize DEF Word
<1>2. Index(interval) < 0 <=> ~ (Index(interval) >= 0)
  <2>1. Index(interval) \in Int
    BY <1>1, WordSize DEF Index, AsInt, Word
  <2>. QED
    BY <2>1
<1>3. CASE Turn = 0
  <2>1. UNCHANGED <<timer, waited, since>> /\ fault' = "division by zero"
    BY <1>3 DEF Arm
  <2>2. TypeOK'
    BY <2>1 DEF TypeOK, Overflows
  <2>3. Configured'
    BY <1>0, <2>1 DEF Configured
  <2>4. Phase'
    BY <2>1 DEF Phase
  <2>. QED
    BY <2>2, <2>3, <2>4
<1>4. CASE Turn # 0 /\ Index(interval) < 0
  <2>1. UNCHANGED <<timer, waited, since>> /\ fault' = "negative index"
    BY <1>2, <1>4 DEF Arm
  <2>2. TypeOK'
    BY <2>1 DEF TypeOK, Overflows
  <2>3. Configured'
    BY <1>0, <2>1 DEF Configured
  <2>4. Phase'
    BY <2>1 DEF Phase
  <2>. QED
    BY <2>2, <2>3, <2>4
<1>5. CASE Turn # 0 /\ Index(interval) >= 0
  <2>0. Index(interval) = ((cur_slot + (interval \div time_slot)) % 2^Width) % slot_num
    BY <1>1, <1>5, NotNegative DEF Index
  <2>1. /\ timer' = [type |-> type, interval |-> interval,
                     index |-> Index(interval), round |-> Round(interval)]
        /\ waited' = 0
        /\ since' = ms
        /\ UNCHANGED fault
    BY <1>2, <1>5 DEF Arm
  <2>2. Index(interval) \in 0 .. slot_num - 1 /\ Index(interval) \in Word
    BY <1>1, <2>0
  <2>3. Round(interval) \in Word
    <3>1. Turn \in Nat \ {0}
      <4>1. Turn \in Word
        BY <1>0, Truncated DEF Turn
      <4>. QED
        BY <1>5, <4>1, WordSize
    <3>. QED
      BY <3>1, QuotientIsWord DEF Round
  <2>4. pc' \in {"walk", "read"} /\ (pc' = "read" => slot_num > 0)
    BY <1>0 DEF TypeOK, Configured
  <2>5. TypeOK'
    <3>1. timer' \in [type : Types \cup {"none"}, interval : Word, index : Word, round : Word]
      BY <2>1, <2>2, <2>3
    <3>. QED
      BY <1>0, <2>1, <2>4, <3>1 DEF TypeOK
  <2>6. Configured'
    BY <1>0, <2>1, <2>2, <2>4 DEF Configured
  <2>7. Phase'
    <3>1. SUFFICES ASSUME NoWrap'
                   PROVE  \E late \in {0, slot_num}, ahead \in 0 .. slot_num : Ahead(late, ahead)'
      BY DEF Phase
    <3>2. time_slot * slot_num < 2^Width /\ slot_num - 1 + (interval \div time_slot) < 2^Width
      BY <2>1, <3>1 DEF NoWrap
    <3>3. PICK ahead \in 0 .. slot_num - 1 :
            /\ (interval \div time_slot) % slot_num = ahead
            /\ interval \div time_slot = Round(interval) * slot_num + ahead
            /\ Index(interval) \in {cur_slot + ahead, cur_slot + ahead - slot_num}
      <4>1. \E ahead \in 0 .. slot_num - 1 :
              /\ (interval \div time_slot) % slot_num = ahead
              /\ interval \div time_slot =
                   (interval \div ((time_slot * slot_num) % 2^Width)) * slot_num + ahead
              /\ ((cur_slot + (interval \div time_slot)) % 2^Width) % slot_num
                   \in {cur_slot + ahead, cur_slot + ahead - slot_num}
        BY <1>0, <3>2, ArmedAhead
      <4>. QED
        BY <2>0, <4>1 DEF Round, Turn
    <3>4. /\ Quotient' = Round(interval) * slot_num + ahead
          /\ Quotient' % slot_num = ahead
          /\ timer'.round = Round(interval) /\ timer'.index = Index(interval)
      BY <2>1, <3>3 DEF Quotient
    <3>5. Round(interval) * slot_num \in Int
      <4>1. Round(interval) \in Nat
        BY <2>3, WordSize
      <4>. QED
        BY <1>0, <4>1
    <3>6. CASE ahead > 0 \/ pc' = "walk"
      <4>1. Ahead(0, ahead)'
        BY <1>0, <2>1, <3>3, <3>4, <3>5, <3>6 DEF Ahead
      <4>. QED
        BY <1>0, <4>1
    <3>7. CASE ahead = 0 /\ pc' = "read"
      <4>1. Quotient' % slot_num' = 0
        BY <3>4, <3>7
      <4>2. Quotient' + slot_num' = waited' + timer'.round * slot_num' + slot_num'
        BY <1>0, <2>1, <3>4, <3>5, <3>7
      <4>3. timer'.index \in {cur_slot' + slot_num', cur_slot' + slot_num' - slot_num'}
        BY <1>0, <2>2, <3>3, <3>4, <3>7
      <4>4. Ahead(slot_num, slot_num)'
        BY <1>0, <3>7, <4>1, <4>2, <4>3 DEF Ahead
      <4>. QED
        BY <1>0, <4>4
    <3>. QED
      BY <2>4, <3>6, <3>7
  <2>. QED
    BY <2>5, <2>6, <2>7
<1>. QED
  BY <1>2, <1>3, <1>4, <1>5

LEMMA WordTypes ==
  ASSUME TypeOK
  PROVE  /\ time_slot \in Word /\ slot_num \in Word /\ cur_slot \in Word
         /\ timer.interval \in Word /\ timer.index \in Word /\ timer.round \in Word
         /\ time_slot \in Nat /\ slot_num \in Nat /\ cur_slot \in Nat
         /\ timer.interval \in Nat /\ timer.index \in Nat /\ timer.round \in Nat
         /\ waited \in Nat /\ since \in Word /\ since \in Nat
<1>1. /\ time_slot \in Word /\ slot_num \in Word /\ cur_slot \in Word
      /\ timer.interval \in Word /\ timer.index \in Word /\ timer.round \in Word
      /\ waited \in Nat /\ since \in Word
  BY DEF TypeOK
<1>. QED
  BY <1>1, WordSize

(* Every step keeps the invariant.                                         *)
LEMMA ArithStep ==
  ASSUME ArithInv, [Next]_vars
  PROVE  ArithInv'
<1>. USE DEF ArithInv
<1>0. /\ time_slot \in Word /\ slot_num \in Word /\ cur_slot \in Word
      /\ timer.interval \in Word /\ timer.index \in Word /\ timer.round \in Word
      /\ time_slot \in Nat /\ slot_num \in Nat /\ cur_slot \in Nat
      /\ timer.interval \in Nat /\ timer.index \in Nat /\ timer.round \in Nat
      /\ waited \in Nat
  BY WordTypes
<1>1. ASSUME NEW length \in TimeSlots, NEW number \in SlotNums, TiInit(length, number)
      PROVE  ArithInv'
  <2>1. length \in Word /\ number \in Word
    BY ArithAssumption
  <2>2. timer = NoTimer /\ pc = "walk" /\ cur_slot = 0
    <3>1. ~ (slot_num > 0) /\ ~ (slot_num >= 2)
      BY <1>1 DEF TiInit
    <3>2. pc \in {"walk", "read"}
      BY DEF TypeOK
    <3>. QED
      BY <3>1, <3>2 DEF Configured
  <2>3. TypeOK'
    BY <1>1, <2>1, <2>2 DEF TiInit, TypeOK
  <2>4. Configured'
    BY <1>1, <2>1, <2>2, WordSize DEF TiInit, Configured
  <2>5. Phase'
    BY <1>1, <2>2 DEF TiInit, Phase
  <2>. QED
    BY <2>3, <2>4, <2>5
<1>2. ASSUME NEW type \in Types, NEW interval \in Intervals, NEW ms \in 0 .. time_slot - 1,
             TiAdd(type, interval, ms)
      PROVE  ArithInv'
  <2>1. interval \in Word
    BY ArithAssumption
  <2>2. ms \in Word
    <3>1. ms \in Nat /\ ms <= time_slot
      BY <1>0
    <3>. QED
      BY <1>0, <3>1, SmallerWord
  <2>. QED
    BY <1>2, <2>1, <2>2, ArmKeepsArithInv DEF TiAdd
<1>3. CASE Pass
  <2>1. TypeOK'
    BY <1>3 DEF Pass, TypeOK
  <2>2. Configured'
    BY <1>3 DEF Pass, Here, Configured
  <2>3. Phase'
    <3>1. SUFFICES ASSUME timer # NoTimer, NoWrap
                   PROVE  \E late \in {0, slot_num}, ahead \in 0 .. slot_num : Ahead(late, ahead)'
      BY <1>3 DEF Pass, Phase, NoWrap
    <3>2. PICK late \in {0, slot_num}, ahead \in 0 .. slot_num : Ahead(late, ahead)
      BY <1>3, <3>1 DEF Phase, Pass, Here
    <3>3. timer.index # cur_slot /\ pc = "walk" /\ cur_slot < slot_num
      BY <1>3, <3>1 DEF Pass, Here, Met, Configured
    <3>4. ahead > 0
      <4>1. timer.index \in {cur_slot + ahead, cur_slot + ahead - slot_num}
        BY <3>2 DEF Ahead
      <4>. QED
        BY <1>0, <3>3, <4>1
    <3>5. Ahead(late, ahead)'
      BY <1>3, <3>2, <3>4 DEF Pass, Ahead, Quotient
    <3>. QED
      BY <3>5
  <2>. QED
    BY <2>1, <2>2, <2>3
<1>4. CASE CountDown
  <2>1. /\ timer # NoTimer /\ timer.index = cur_slot /\ pc = "walk" /\ slot_num > 0
        /\ timer.round > 0
        /\ timer' = [timer EXCEPT !.round = @ - 1] /\ pc' = "read"
        /\ UNCHANGED <<time_slot, slot_num, cur_slot, waited, since, fault>>
    BY <1>0, <1>4 DEF CountDown, Met, Here
  <2>2. timer.round - 1 \in Word
    <3>1. timer.round - 1 \in Nat /\ timer.round - 1 <= timer.round
      BY <1>0, <2>1
    <3>. QED
      BY <1>0, <3>1, SmallerWord
  <2>3. TypeOK'
    BY <2>1, <2>2 DEF TypeOK
  <2>4. /\ timer'.index = timer.index /\ timer'.interval = timer.interval
        /\ timer'.type = timer.type /\ timer'.round = timer.round - 1
    BY <2>1 DEF TypeOK
  <2>5. Configured'
    BY <2>1, <2>4 DEF Configured
  <2>6. Phase'
    <3>1. SUFFICES ASSUME NoWrap
                   PROVE  \E late \in {0, slot_num}, ahead \in 0 .. slot_num : Ahead(late, ahead)'
      BY <2>1, <2>4 DEF Phase, NoWrap
    <3>2. PICK late \in {0, slot_num}, ahead \in 0 .. slot_num : Ahead(late, ahead)
      BY <1>4, <2>1, <3>1 DEF Phase, CountDown, Met, Here
    <3>3. ahead = 0
      BY <1>0, <2>1, <3>2 DEF Ahead
    <3>4. (timer.round - 1) * slot_num = timer.round * slot_num - slot_num
      BY <1>0
    <3>5. timer.round * slot_num \in Int
      BY <1>0
    <3>6. Quotient' = Quotient /\ Quotient \in Int
      BY <1>0, <2>1, <2>4, DivMod DEF Quotient, Configured
    <3>7. Ahead(late, slot_num)'
      BY <1>0, <2>1, <2>4, <3>2, <3>3, <3>4, <3>5, <3>6 DEF Ahead
    <3>. QED
      BY <1>0, <2>1, <3>7
  <2>. QED
    BY <2>3, <2>5, <2>6
<1>5. CASE Fire
  <2>1. CASE timer.type = "REPEAT"
    <3>1. timer.interval \in Word
      BY DEF TypeOK
    <3>2. 0 \in Word
      BY ArithAssumption
    <3>. QED
      BY <1>5, <2>1, <3>1, <3>2, ArmKeepsArithInv DEF Fire, Met, Here, Types
  <2>2. CASE timer.type # "REPEAT"
    <3>1. /\ timer' = NoTimer /\ waited' = 0 /\ since' = 0 /\ UNCHANGED fault /\ pc' = "read"
          /\ slot_num > 0 /\ UNCHANGED <<time_slot, slot_num, cur_slot>>
      BY <1>5, <2>2 DEF Fire, Met, Here
    <3>2. TypeOK'
      <4>1. NoTimer \in [type : Types \cup {"none"}, interval : Word, index : Word, round : Word]
        BY ArithAssumption DEF NoTimer
      <4>. QED
        BY <3>1, <4>1, ArithAssumption DEF TypeOK
    <3>3. Configured'
      BY <3>1 DEF Configured
    <3>4. Phase'
      BY <3>1 DEF Phase
    <3>. QED
      BY <3>2, <3>3, <3>4
  <2>. QED
    BY <2>1, <2>2
<1>6. CASE Tick
  <2>1. pc = "read" /\ pc' = "walk" /\ slot_num >= 2 /\ cur_slot < slot_num
        /\ UNCHANGED <<time_slot, slot_num, timer, since, fault>>
        /\ cur_slot' = (IF cur_slot = slot_num - 1 THEN 0 ELSE cur_slot + 1)
        /\ waited' = Longer
    BY <1>0, <1>6 DEF Tick, Configured
  <2>2. cur_slot' \in Nat /\ cur_slot' < slot_num /\ cur_slot' \in Word
    <3>1. cur_slot' \in Nat /\ cur_slot' < slot_num
      BY <1>0, <2>1
    <3>. QED
      BY <1>0, <3>1, SmallerWord
  <2>3. waited' \in Nat
    BY <1>0, <2>1 DEF Longer
  <2>4. TypeOK'
    BY <2>1, <2>2, <2>3 DEF TypeOK
  <2>5. Configured'
    BY <1>0, <2>1, <2>2 DEF Configured
  <2>6. Phase'
    <3>1. SUFFICES ASSUME timer # NoTimer, NoWrap
                   PROVE  \E late \in {0, slot_num}, ahead \in 0 .. slot_num : Ahead(late, ahead)'
      BY <2>1 DEF Phase, NoWrap
    <3>2. PICK late \in {0, slot_num}, ahead \in 0 .. slot_num : Ahead(late, ahead)
      BY <1>6, <3>1 DEF Phase, Tick
    <3>3. Quotient \in Nat /\ Quotient <= timer.interval
      <4>1. time_slot \in Nat \ {0}
        BY <1>0, <2>1 DEF Configured
      <4>. QED
        BY <1>0, <4>1, QuotientBound DEF Quotient
    <3>4. timer.round * slot_num \in Nat
      BY <1>0, TimesMono
    <3>5. waited < WaitBound
      BY <1>0, <2>1, <3>2, <3>3, <3>4 DEF Ahead, WaitBound
    <3>6. waited' = waited + 1
      BY <2>1, <3>1, <3>5 DEF Longer
    <3>7. Quotient' = Quotient
      BY <2>1 DEF Quotient
    <3>8. ahead > 0 /\ ahead - 1 \in 0 .. slot_num
      BY <1>0, <2>1, <3>2 DEF Ahead
    <3>9. timer.index \in {cur_slot' + (ahead - 1), cur_slot' + (ahead - 1) - slot_num}
      BY <1>0, <2>1, <3>1, <3>2, <3>8 DEF Ahead, Configured
    <3>10. Ahead(late, ahead - 1)'
      BY <1>0, <2>1, <3>2, <3>3, <3>4, <3>6, <3>7, <3>8, <3>9 DEF Ahead
    <3>. QED
      BY <2>1, <3>8, <3>10
  <2>. QED
    BY <2>4, <2>5, <2>6
<1>7. CASE UNCHANGED vars
  BY <1>7 DEF vars, TypeOK, Configured, Phase, NoWrap, Ahead, Quotient
<1>. QED
  BY <1>1, <1>2, <1>3, <1>4, <1>5, <1>6, <1>7 DEF Next, Worker

LEMMA ArithStart == Init => ArithInv
  BY ArithAssumption DEF Init, ArithInv, TypeOK, Configured, Phase, NoTimer, Types

(* The inductive invariant of the worker and its timer.                    *)
THEOREM ArithInvariant == Spec => []ArithInv
<1>1. ArithInv /\ [Next]_vars => ArithInv'
  BY ArithStep
<1>. QED
  BY ArithStart, <1>1, PTL DEF Spec

(* Every computed word is a word, and cur_slot stays a slot of the wheel.  *)
THEOREM ArithTypeCorrect == Spec => []TypeOK
<1>1. ArithInv => TypeOK
  BY DEF ArithInv
<1>. QED
  BY ArithInvariant, <1>1, PTL

(* Where nothing wraps, ti_timer_main runs a timer before its interval is  *)
(* over, early by the part of a slot that had passed when ti_add put it    *)
(* in and by less than a slot more; whole turns may take a turn more.      *)
THEOREM FiresWithinTwoSlots == Spec => RunsWithinTwoSlots
<1>. DEFINE Due == \E n \in Counts : timer.interval - Elapsed(n) \in since .. since + time_slot - 1
<1>1. ASSUME ArithInv, Fire, NoWrap
      PROVE  Due
  <2>1. /\ time_slot \in Nat \ {0} /\ slot_num \in Nat \ {0} /\ cur_slot \in Nat
        /\ cur_slot < slot_num /\ timer.interval \in Nat /\ waited \in Nat /\ since \in Nat
    BY <1>1, WordTypes DEF ArithInv, Configured, Fire, Met, Here
  <2>2. timer # NoTimer /\ timer.index = cur_slot /\ timer.round = 0 /\ pc = "walk"
    BY <1>1 DEF Fire, Met, Here
  <2>3. PICK late \in {0, slot_num}, ahead \in 0 .. slot_num : Ahead(late, ahead)
    BY <1>1, <2>2 DEF ArithInv, Phase, Fire, Met, Here
  <2>4. ahead = 0
    BY <2>1, <2>2, <2>3 DEF Ahead
  <2>. DEFINE q == timer.interval \div time_slot
              s == timer.interval % time_slot
  <2>5. q \in Int /\ s \in 0 .. time_slot - 1 /\ timer.interval = q * time_slot + s
    <3>1. timer.interval \in Int
      BY <2>1
    <3>. QED
      BY <2>1, <3>1, DivMod, Zenon
  <2>6. late = slot_num => q % slot_num = 0
    BY <2>3 DEF Ahead, Quotient
  <2>7. q + late = waited
    <3>1. q + late = waited + timer.round * slot_num + ahead
      BY <2>3 DEF Ahead, Quotient
    <3>. QED
      BY <2>1, <2>2, <2>4, <2>5, <3>1
  <2>. HIDE DEF q, s
  <2>8. timer.interval - Elapsed(q) \in since .. since + time_slot - 1
    <3>. DEFINE p == q * time_slot
    <3>1. p \in Int /\ timer.interval = p + s
      BY <2>1, <2>5
    <3>2. Elapsed(q) = p - since
      BY DEF Elapsed
    <3>. HIDE DEF p
    <3>. QED
      BY <2>1, <2>5, <3>1, <3>2
  <2>9. q \in Counts
    BY <2>1, <2>3, <2>5, <2>6, <2>7 DEF Counts, q
  <2>. QED
    BY <2>8, <2>9
<1>2. ArithInv /\ [Next]_vars => [Fire /\ NoWrap => Due]_vars
  BY <1>1
<1>. QED
  BY ArithInvariant, <1>2, PTL DEF Spec, RunsWithinTwoSlots
=============================================================================
