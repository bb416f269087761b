--------------------------- MODULE TimerIdsProofs ---------------------------
(***************************************************************************)
(* Proofs about TimerIds, for every size of the bitmap and of a byte, and  *)
(* whatever the bytes that memset misses hold.                             *)
(***************************************************************************)
EXTENDS TimerIds, NatLemmas, FiniteSetTheorems

(* An id's byte and the position of its bit.                               *)
LEMMA IdHasBit ==
  ASSUME NEW id \in Ids
  PROVE  \E byte \in 0 .. Bytes - 1, pos \in 0 .. ByteBits - 1 :
            id = BitId(byte, pos)
<1>. USE IdAssumption
<1>. DEFINE byte == (id - 1) \div ByteBits
            pos  == (id - 1) % ByteBits
<1>1. id \in Int /\ id >= 1 /\ Bytes \in Int /\ id <= Bytes * ByteBits
  BY DEF Ids, Bytes
<1>2. byte \in Int /\ pos \in 0 .. ByteBits - 1 /\ id - 1 = ByteBits * byte + pos
  BY <1>1
<1>3. byte >= 0
  <2>1. SUFFICES ASSUME byte <= -1 PROVE FALSE
    BY <1>2
  <2>2. byte * ByteBits <= (-1) * ByteBits
    <3>. HIDE DEF byte
    <3>. QED
      BY <1>2, <2>1, TimesMono
  <2>. QED
    BY <1>1, <1>2, <2>2
<1>4. byte <= Bytes - 1
  <2>1. SUFFICES ASSUME Bytes <= byte PROVE FALSE
    BY <1>1, <1>2
  <2>2. Bytes * ByteBits <= byte * ByteBits
    BY <1>1, <1>2, <2>1, TimesMono
  <2>. QED
    BY <1>1, <1>2, <2>2
<1>5. id = BitId(byte, pos)
  BY <1>1, <1>2 DEF BitId
<1>. QED
  BY <1>1, <1>2, <1>3, <1>4, <1>5

(* Every bit has an id, and ids grow with the byte and with the position.  *)
LEMMA BitHasId ==
  ASSUME NEW byte \in 0 .. Bytes - 1, NEW pos \in 0 .. ByteBits - 1
  PROVE  BitId(byte, pos) \in Ids
<1>. USE IdAssumption
<1>1. Bytes \in Int /\ byte \in Int /\ byte + 1 <= Bytes
  BY DEF Bytes
<1>2. (byte + 1) * ByteBits <= Bytes * ByteBits
  BY <1>1, TimesMono
<1>3. 0 * ByteBits <= byte * ByteBits
  BY <1>1, TimesMono
<1>. QED
  BY <1>1, <1>2, <1>3 DEF BitId, Ids

LEMMA LaterByteLargerId ==
  ASSUME NEW b1 \in Int, NEW b2 \in Int, b1 < b2,
         NEW p1 \in 0 .. ByteBits - 1, NEW p2 \in 0 .. ByteBits - 1
  PROVE  BitId(b1, p1) < BitId(b2, p2)
<1>. USE IdAssumption
<1>1. (b1 + 1) * ByteBits <= b2 * ByteBits
  BY TimesMono
<1>. QED
  BY <1>1 DEF BitId

(***************************************************************************)
(* find_min_id: it returns the least id whose bit is clear, and 0 only     *)
(* when every bit is set.                                                  *)
(***************************************************************************)
LEMMA FindMinIdLeast ==
  ASSUME NEW bits
  PROVE  \/ FindMinId(bits) = 0 /\ Ids \subseteq bits
         \/ /\ FindMinId(bits) \in Ids
            /\ FindMinId(bits) \notin bits
            /\ \A id \in Ids : id < FindMinId(bits) => id \in bits
<1>. USE IdAssumption
<1>0. Bytes \in Int
  BY DEF Bytes
<1>1. CASE OpenBytes(bits) = {}
  <2>1. Ids \subseteq bits
    BY <1>1, IdHasBit DEF OpenBytes, OpenBits
  <2>. QED
    BY <1>1, <2>1 DEF FindMinId
<1>2. CASE OpenBytes(bits) # {}
  <2>. DEFINE byte == Min(OpenBytes(bits))
              pos  == Min(OpenBits(bits, byte))
  <2>1. byte \in OpenBytes(bits) /\ \A b \in OpenBytes(bits) : byte <= b
    <3>1. OpenBytes(bits) \in SUBSET Nat
      BY <1>0 DEF OpenBytes
    <3>. QED
      BY <1>2, <3>1, MinOfNats
  <2>2. pos \in OpenBits(bits, byte) /\ \A p \in OpenBits(bits, byte) : pos <= p
    <3>1. OpenBits(bits, byte) \in SUBSET Nat /\ OpenBits(bits, byte) # {}
      BY <2>1 DEF OpenBytes, OpenBits
    <3>. QED
      BY <3>1, MinOfNats
  <2>3. FindMinId(bits) = BitId(byte, pos)
    BY <1>2 DEF FindMinId
  <2>. HIDE DEF byte, pos
  <2>4. /\ byte \in 0 .. Bytes - 1
        /\ pos \in 0 .. ByteBits - 1
        /\ BitId(byte, pos) \notin bits
    BY <2>1, <2>2 DEF OpenBytes, OpenBits
  <2>5. ASSUME NEW id \in Ids, id < BitId(byte, pos)
        PROVE  id \in bits
    <3>1. PICK b \in 0 .. Bytes - 1, p \in 0 .. ByteBits - 1 : id = BitId(b, p)
      BY IdHasBit
    <3>2. b <= byte
      <4>1. ~ (byte < b)
        <5>1. SUFFICES ASSUME byte < b PROVE FALSE
          OBVIOUS
        <5>2. BitId(byte, pos) < BitId(b, p)
          BY <1>0, <2>4, <5>1, LaterByteLargerId
        <5>3. BitId(byte, pos) \in Int /\ BitId(b, p) \in Int
          BY <1>0, <2>4 DEF BitId
        <5>. QED
          BY <2>5, <3>1, <5>2, <5>3
      <4>. QED
        BY <1>0, <2>4, <4>1
    <3>3. CASE b = byte
      <4>1. p < pos
        BY <1>0, <2>4, <2>5, <3>1, <3>3 DEF BitId
      <4>. QED
        BY <2>2, <2>4, <3>1, <3>3, <4>1 DEF OpenBits
    <3>4. CASE b < byte
      <4>1. b \notin OpenBytes(bits)
        BY <1>0, <2>1, <2>4, <3>4
      <4>. QED
        BY <3>1, <4>1 DEF OpenBytes, OpenBits
    <3>. QED
      BY <1>0, <2>4, <3>2, <3>3, <3>4
  <2>6. BitId(byte, pos) \in Ids
    BY <2>4, BitHasId
  <2>. QED
    BY <2>3, <2>4, <2>5, <2>6
<1>. QED
  BY <1>1, <1>2

(* Sets of ids are finite, and their size is what the counter counts.      *)
LEMMA IdsFinite ==
  /\ Bytes \in Nat \ {0}
  /\ Bytes * ByteBits \in Nat
  /\ TimerMax <= Bytes * ByteBits
  /\ IsFiniteSet(Ids) /\ Cardinality(Ids) = Bytes * ByteBits
<1>. USE IdAssumption
<1>. DEFINE q == (TimerMax - 1) \div ByteBits
<1>1. q \in Int /\ TimerMax - 1 = ByteBits * q + ((TimerMax - 1) % ByteBits)
        /\ (TimerMax - 1) % ByteBits \in 0 .. ByteBits - 1
  OBVIOUS
<1>2. q >= 0
  <2>1. SUFFICES ASSUME q <= -1 PROVE FALSE
    BY <1>1
  <2>2. q * ByteBits <= (-1) * ByteBits
    BY <1>1, <2>1, TimesMono
  <2>. QED
    BY <1>1, <2>2
<1>3. Bytes = q + 1
  BY DEF Bytes
<1>. HIDE DEF q
<1>4. Bytes \in Nat \ {0}
  BY <1>1, <1>2, <1>3
<1>5. 0 * ByteBits <= Bytes * ByteBits
  BY <1>4, TimesMono
<1>6. Bytes * ByteBits = q * ByteBits + ByteBits
  BY <1>1, <1>3
<1>7. Bytes * ByteBits \in Nat
  BY <1>4, <1>5
<1>8. TimerMax <= Bytes * ByteBits
  BY <1>1, <1>6
<1>9. IsFiniteSet(Ids) /\ Cardinality(Ids) = Bytes * ByteBits
  BY <1>7, FS_Interval DEF Ids
<1>. QED
  BY <1>4, <1>7, <1>8, <1>9

-----------------------------------------------------------------------------
(***************************************************************************)
(* The inductive invariant.  FreshId says nothing of the bitmap, which is  *)
(* what makes it true: the ids of live timers are marked (HeldMarked) and  *)
(* the cached minimum is not (LeastFree).  With a spare bit nothing but    *)
(* them is marked, so the bitmap fills only when the counter has.          *)
(***************************************************************************)
HeldMarked == IF init_flag THEN held \subseteq bitmap ELSE held = {}

SpareExact ==
  SpareBit => fault # "wild bit" /\ (init_flag => bitmap = held /\ min_free # 0)

IdsInv == TypeOK /\ HeldMarked /\ LeastFree /\ CountCoversHeld /\ SpareExact

(* A wheel starts with consistent ids. *)
LEMMA IdsInvInit == Init => IdsInv
<1>. SUFFICES ASSUME Init PROVE IdsInv
  OBVIOUS
<1>1. ~ init_flag /\ fault = "none" /\ bitmap = {} /\ held = {}
  BY DEF Init
<1>2. init_flag \in BOOLEAN
  BY Zenon DEF Init
<1>6. fault \in Faults
  BY <1>1 DEF Faults
<1>3. TypeOK
  BY <1>1, <1>2, <1>6, IdAssumption DEF Init, TypeOK
<1>4. CountCoversHeld
  BY FS_EmptySet DEF Init, CountCoversHeld
<1>5. HeldMarked /\ LeastFree /\ SpareExact
  BY <1>1 DEF HeldMarked, LeastFree, SpareExact
<1>. QED
  BY <1>3, <1>4, <1>5 DEF IdsInv

(* ti_add keeps the invariant, full bitmap and garbage bits included. *)
LEMMA AddKeeps ==
  ASSUME IdsInv, Add
  PROVE  IdsInv'
<1>. USE IdAssumption
<1>0. TypeOK /\ HeldMarked /\ LeastFree /\ CountCoversHeld /\ SpareExact
  BY DEF IdsInv
<1>1. IsFiniteSet(held) /\ Cardinality(held) \in Nat
  BY <1>0, IdsFinite, FS_Subset, FS_CardinalityType DEF TypeOK
<1>2. CASE min_free = 0
  <2>1. /\ UNCHANGED <<init_flag, bitmap, min_free, held>> /\ fault' \in Faults
        /\ init_flag /\ cur_timer_num < TimerMax /\ cur_timer_num' = cur_timer_num + 1
    BY <1>2 DEF Add, TimerIdPop, Faults
  <2>2. ~ SpareBit
    BY <1>0, <1>2, <2>1 DEF SpareExact
  <2>3. SpareExact'
    BY <2>2 DEF SpareExact, SpareBit
  <2>4. TypeOK'
    BY <1>0, <2>1 DEF TypeOK
  <2>5. HeldMarked' /\ LeastFree'
    BY <1>0, <2>1 DEF HeldMarked, LeastFree
  <2>6. CountCoversHeld'
    BY <1>0, <1>1, <2>1 DEF CountCoversHeld, TypeOK
  <2>. QED
    BY <2>3, <2>4, <2>5, <2>6 DEF IdsInv
<1>3. CASE min_free # 0
  <2>. DEFINE bits == SetBit(bitmap, min_free)
  <2>1. /\ bitmap' = bits /\ min_free' = FindMinId(bits)
        /\ held' = held \cup {min_free} /\ fault' = fault
        /\ cur_timer_num < TimerMax /\ cur_timer_num' = cur_timer_num + 1
        /\ init_flag /\ init_flag'
    BY <1>3 DEF Add, TimerIdPop
  <2>2. bits = bitmap \cup {min_free}
    BY DEF SetBit
  <2>. HIDE DEF bits
  <2>3. \/ FindMinId(bits) = 0 /\ Ids \subseteq bits
        \/ /\ FindMinId(bits) \in Ids
           /\ FindMinId(bits) \notin bits
           /\ \A id \in Ids : id < FindMinId(bits) => id \in bits
    BY FindMinIdLeast
  <2>4. TypeOK'
    BY <1>0, <1>3, <2>1, <2>2, <2>3 DEF TypeOK
  <2>5. HeldMarked'
    BY <1>0, <2>1, <2>2 DEF HeldMarked
  <2>6. LeastFree'
    BY <2>1, <2>3 DEF LeastFree
  <2>7. CountCoversHeld' /\ Cardinality(held') <= TimerMax
    <3>1. Cardinality(held') <= Cardinality(held) + 1
      BY <1>1, <2>1, FS_AddElement
    <3>2. Cardinality(held') \in Nat
      BY <1>1, <2>1, FS_AddElement, FS_CardinalityType
    <3>. QED
      BY <1>0, <1>1, <2>1, <3>1, <3>2 DEF CountCoversHeld, TypeOK
  <2>8. SpareExact'
    <3>1. SUFFICES ASSUME SpareBit PROVE fault' # "wild bit" /\ bitmap' = held' /\ min_free' # 0
      BY DEF SpareExact, SpareBit
    <3>2. bitmap' = held'
      BY <1>0, <2>1, <2>2, <3>1 DEF SpareExact
    <3>4. fault' # "wild bit"
      BY <1>0, <2>1, <3>1 DEF SpareExact
    <3>3. ASSUME min_free' = 0 PROVE FALSE
      <4>1. Ids \subseteq held'
        BY <2>1, <2>3, <3>2, <3>3, IdsFinite DEF Ids
      <4>2. held' = Ids
        BY <2>4, <4>1 DEF TypeOK
      <4>. QED
        BY <2>7, <4>2, <3>1, IdsFinite DEF SpareBit
    <3>. QED
      BY <3>2, <3>3, <3>4
  <2>. QED
    BY <2>4, <2>5, <2>6, <2>7, <2>8 DEF IdsInv
<1>. QED
  BY <1>2, <1>3

(***************************************************************************)
(* Taking an id back keeps the ids consistent, whatever happens to the     *)
(* counter, as long as it still covers what is held.                       *)
(***************************************************************************)
LEMMA PushKeeps ==
  ASSUME IdsInv, NEW id \in held, TimerIdPush(id),
         cur_timer_num' \in 0 .. TimerMax, CountCoversHeld'
  PROVE  IdsInv'
<1>. USE IdAssumption
<1>0. TypeOK /\ HeldMarked /\ LeastFree /\ CountCoversHeld /\ SpareExact
  BY DEF IdsInv
<1>1. id \in Ids /\ id \in Nat \ {0} /\ min_free \in Nat
  BY <1>0, IdsFinite DEF TypeOK, Ids
<1>2. /\ bitmap' = bitmap \ {id}
      /\ min_free' = IF min_free > id THEN id ELSE min_free
      /\ held' = held \ {id}
      /\ init_flag' = init_flag /\ fault' = fault
  BY DEF TimerIdPush, UnsetBit, MinAfterPush
<1>3. init_flag
  BY <1>0 DEF HeldMarked
<1>4. TypeOK'
  BY <1>0, <1>1, <1>2 DEF TypeOK
<1>5. HeldMarked'
  BY <1>0, <1>2 DEF HeldMarked
<1>6. LeastFree'
  <2>1. SUFFICES ASSUME min_free' # 0
                 PROVE  /\ min_free' \notin bitmap'
                        /\ \A i \in Ids : i < min_free' => i \in bitmap'
    BY DEF LeastFree
  <2>2. min_free # 0 /\ min_free' <= id /\ min_free' <= min_free
    BY <1>1, <1>2, <2>1
  <2>3. min_free' \notin bitmap'
    BY <1>0, <1>2, <1>3, <2>2 DEF LeastFree
  <2>4. ASSUME NEW i \in Ids, i < min_free' PROVE i \in bitmap'
    <3>1. i \in Int /\ i # id /\ i < min_free
      BY <1>1, <1>2, <2>2, <2>4 DEF Ids
    <3>. QED
      BY <1>0, <1>2, <1>3, <2>2, <3>1 DEF LeastFree
  <2>. QED
    BY <2>3, <2>4
<1>7. SpareExact'
  BY <1>0, <1>1, <1>2, <1>3 DEF SpareExact, SpareBit
<1>. QED
  BY <1>4, <1>5, <1>6, <1>7 DEF IdsInv

(* Every step of the wheel keeps the invariant. *)
LEMMA IdsInvStep == IdsInv /\ [Next]_vars => IdsInv'
<1>. SUFFICES ASSUME IdsInv, [Next]_vars PROVE IdsInv'
  OBVIOUS
<1>. USE IdAssumption
<1>0. TypeOK /\ HeldMarked /\ LeastFree /\ CountCoversHeld /\ SpareExact
  BY DEF IdsInv
<1>1. IsFiniteSet(held) /\ Cardinality(held) \in Nat
  BY <1>0, IdsFinite, FS_Subset, FS_CardinalityType DEF TypeOK
<1>2. CASE TimerInit
  <2>1. held' = {} /\ init_flag' /\ cur_timer_num' = 0 /\ min_free' = 1 /\ fault' = fault
    BY <1>0, <1>2 DEF TimerInit, HeldMarked
  <2>2. bitmap' \subseteq Ids /\ \A id \in bitmap' : id > ZeroedBytes * ByteBits
    BY <1>2 DEF TimerInit, FreshBitmaps, Uncleared
  <2>3. 1 \in Ids /\ 1 \notin bitmap'
    <3>1. 1 * ByteBits <= ZeroedBytes * ByteBits
      BY TimesMono
    <3>2. ZeroedBytes * ByteBits \in Int
      OBVIOUS
    <3>3. ~ (1 > ZeroedBytes * ByteBits)
      BY <3>1, <3>2
    <3>. QED
      BY <2>2, <3>3, IdsFinite DEF Ids
  <2>4. SpareBit => bitmap' = {}
    <3>1. SUFFICES ASSUME SpareBit, NEW id \in bitmap' PROVE FALSE
      OBVIOUS
    <3>2. Bytes * ByteBits <= ZeroedBytes * ByteBits
      BY <3>1, IdsFinite, TimesMono DEF SpareBit
    <3>3. id \in Ids /\ id > ZeroedBytes * ByteBits
      BY <2>2
    <3>. QED
      BY <3>2, <3>3, IdsFinite DEF Ids
  <2>5. TypeOK'
    BY <1>0, <2>1, <2>2, <2>3 DEF TypeOK
  <2>6. HeldMarked'
    BY <2>1 DEF HeldMarked
  <2>7. LeastFree'
    BY <2>1, <2>3, IdsFinite DEF LeastFree, Ids
  <2>8. CountCoversHeld'
    BY <2>1, FS_EmptySet DEF CountCoversHeld
  <2>9. SpareExact'
    <3>1. SpareBit' = SpareBit /\ min_free' # 0
      BY <2>1 DEF SpareBit
    <3>2. SpareBit => fault' # "wild bit"
      BY <1>0, <2>1 DEF SpareExact
    <3>. QED
      BY <2>1, <2>4, <3>1, <3>2 DEF SpareExact
  <2>. QED
    BY <2>5, <2>6, <2>7, <2>8, <2>9 DEF IdsInv
<1>3. CASE Add
  BY <1>3, AddKeeps
<1>4. ASSUME NEW id \in held, Del(id) PROVE IdsInv'
  <2>1. held' = held \ {id} /\ cur_timer_num' = cur_timer_num - 1 /\ TimerIdPush(id)
    BY <1>4 DEF Del, TimerIdPush
  <2>2. Cardinality(held') = Cardinality(held) - 1 /\ Cardinality(held) # 0
    BY <1>1, <1>4, <2>1, FS_RemoveElement, FS_EmptySet
  <2>3. CountCoversHeld' /\ cur_timer_num' \in 0 .. TimerMax
    BY <1>0, <1>1, <2>1, <2>2 DEF CountCoversHeld, TypeOK
  <2>. QED
    BY <1>4, <2>1, <2>3, PushKeeps
<1>5. ASSUME NEW id \in held, Expire(id) PROVE IdsInv'
  <2>1. held' = held \ {id} /\ cur_timer_num' = cur_timer_num /\ TimerIdPush(id)
    BY <1>5 DEF Expire, TimerIdPush
  <2>2. Cardinality(held') = Cardinality(held) - 1
    BY <1>1, <1>5, <2>1, FS_RemoveElement
  <2>3. CountCoversHeld' /\ cur_timer_num' \in 0 .. TimerMax
    BY <1>0, <1>1, <2>1, <2>2 DEF CountCoversHeld, TypeOK
  <2>. QED
    BY <1>5, <2>1, <2>3, PushKeeps
<1>6. CASE DelAllEmpty
  BY <1>0, <1>6, FS_EmptySet DEF DelAllEmpty, IdsInv, TypeOK, HeldMarked, LeastFree,
     CountCoversHeld, SpareExact, SpareBit
<1>7. CASE Close
  <2>1. ~ init_flag' /\ held' = {} /\ fault' = fault
    BY <1>7 DEF Close
  <2>2. init_flag' \in BOOLEAN
    BY <1>7, Zenon DEF Close
  <2>3. TypeOK'
    BY <1>0, <1>7, <2>1, <2>2 DEF Close, TypeOK
  <2>4. CountCoversHeld'
    BY <1>0, <1>7, FS_EmptySet DEF Close, CountCoversHeld, TypeOK
  <2>5. HeldMarked' /\ LeastFree' /\ SpareExact'
    BY <1>0, <2>1 DEF HeldMarked, LeastFree, SpareExact, SpareBit
  <2>. QED
    BY <2>3, <2>4, <2>5 DEF IdsInv
<1>9. CASE MemsetPastEnd
  <2>1. /\ ~ init_flag /\ fault' = "memset"
        /\ UNCHANGED <<init_flag, bitmap, min_free, cur_timer_num, held>>
    BY <1>9 DEF MemsetPastEnd
  <2>2. fault' \in Faults /\ fault' # "wild bit"
    BY <2>1 DEF Faults
  <2>3. TypeOK'
    BY <1>0, <2>1, <2>2 DEF TypeOK
  <2>4. HeldMarked' /\ LeastFree' /\ CountCoversHeld'
    BY <1>0, <2>1 DEF HeldMarked, LeastFree, CountCoversHeld
  <2>5. SpareExact'
    BY <1>0, <2>1, <2>2 DEF SpareExact, SpareBit
  <2>. QED
    BY <2>3, <2>4, <2>5 DEF IdsInv
<1>8. CASE UNCHANGED vars
  BY <1>0, <1>8 DEF vars, IdsInv, TypeOK, HeldMarked, LeastFree,
     CountCoversHeld, SpareExact, SpareBit
<1>. QED
  BY <1>2, <1>3, <1>4, <1>5, <1>6, <1>7, <1>8, <1>9 DEF Next

(* The ids are consistent in every reachable state. *)
THEOREM IdsInvariant == Spec => []IdsInv
  BY IdsInvInit, IdsInvStep, PTL DEF Spec

(* The variables keep to their ranges: in particular cur_timer_num never   *)
(* passes timer_max_num nor falls below 0, although single-shot timers     *)
(* leave without being counted.                                            *)
THEOREM TypeCorrect == Spec => []TypeOK
<1>1. IdsInv => TypeOK
  BY DEF IdsInv
<1>. QED
  BY <1>1, IdsInvariant, PTL

(* No two timers in the wheel ever have the same id. *)
THEOREM IdsNeverShared == Spec => []FreshId
<1>1. IdsInv => FreshId
  BY IdsFinite DEF IdsInv, FreshId, HeldMarked, LeastFree, TypeOK, Ids
<1>. QED
  BY <1>1, IdsInvariant, PTL

(* The cached minimum is the least clear bit after every pop and push. *)
THEOREM CachedMinimum == Spec => []LeastFree
<1>1. IdsInv => LeastFree
  BY DEF IdsInv
<1>. QED
  BY <1>1, IdsInvariant, PTL

(* The capacity check never sees fewer timers than there are. *)
THEOREM CapacityCovers == Spec => []CountCoversHeld
<1>1. IdsInv => CountCoversHeld
  BY DEF IdsInv
<1>. QED
  BY <1>1, IdsInvariant, PTL

(***************************************************************************)
(* In a configuration with a spare bit no set_bit or unset_bit falls       *)
(* outside the bitmap (the memset of ti_init may), and every add that      *)
(* passes the capacity check gets an id in 1 .. timer_max_num.             *)
(***************************************************************************)
THEOREM SpareBitSuffices == Spec => []RoomMeansId
<1>1. IdsInv => RoomMeansId
  <2>. SUFFICES ASSUME IdsInv, SpareBit, init_flag, cur_timer_num < TimerMax
                PROVE  min_free \in 1 .. TimerMax
    BY DEF RoomMeansId, IdsInv, SpareExact
  <2>1. min_free \in Ids /\ held \subseteq Ids /\ bitmap = held /\ min_free # 0
    BY DEF IdsInv, TypeOK, SpareExact
  <2>2. IsFiniteSet(held) /\ Cardinality(held) \in Nat
    BY <2>1, IdsFinite, FS_Subset, FS_CardinalityType
  <2>3. min_free \in Nat /\ 1 .. (min_free - 1) \subseteq held
    BY <2>1, IdsFinite DEF IdsInv, LeastFree, Ids
  <2>4. Cardinality(1 .. (min_free - 1)) = min_free - 1
    BY <2>1, <2>3, FS_Interval, IdsFinite DEF Ids
  <2>5. min_free - 1 <= Cardinality(held)
    BY <2>2, <2>3, <2>4, FS_Subset
  <2>. QED
    BY <2>1, <2>2, <2>3, <2>5, IdAssumption DEF IdsInv, CountCoversHeld, TypeOK
<1>. QED
  BY <1>1, IdsInvariant, PTL
=============================================================================
