------------------------------ MODULE IdBitmap ------------------------------
(***************************************************************************)
(* The identifier bitmap of the timing wheel (src/timer.c): one bit per    *)
(* timer id, rounded up to whole bytes, and the operations ti_add, ti_del  *)
(* and the worker perform on it.  A bitmap is the set of the ids whose bit *)
(* is set.                                                                 *)
(***************************************************************************)
EXTENDS Integers, FiniteSetsExt

CONSTANTS
  TimerMax,     \* timer_max_num
  ByteBits,     \* bits of a byte: 8 in C, fewer in scaled-down instances
  ZeroedBytes   \* sizeof(unsigned int), the bytes that ti_init's memset clears

ASSUME IdAssumption ==
  /\ TimerMax \in Nat \ {0}
  /\ ByteBits \in Nat \ {0}
  /\ ZeroedBytes \in Nat \ {0}

(* bitmap_bytes(cnt): the bytes that hold TimerMax bits. *)
Bytes == (TimerMax - 1) \div ByteBits + 1

(* The id of bit `pos`, counted from the most significant one, of a byte. *)
BitId(byte, pos) == byte * ByteBits + pos + 1

Ids == 1 .. Bytes * ByteBits

(***************************************************************************)
(* What malloc and memset leave in a fresh bitmap.  The memset clears      *)
(* sizeof(bitmap_bytes(n)) bytes, which is the size of an unsigned int and *)
(* not n: every byte past them keeps what the heap held.                   *)
(***************************************************************************)
Uncleared == {id \in Ids : id > ZeroedBytes * ByteBits}
FreshBitmaps == SUBSET Uncleared

(***************************************************************************)
(* find_min_id: skip the bytes that are full, then the set bits of the     *)
(* first byte that is not; 0 when every byte is full.                      *)
(***************************************************************************)
OpenBits(bits, byte) == {pos \in 0 .. ByteBits - 1 : BitId(byte, pos) \notin bits}
OpenBytes(bits) == {byte \in 0 .. Bytes - 1 : OpenBits(bits, byte) # {}}

\* A scan that forgets the last byte.
FindMinIdShort(bits) ==
  LET open == OpenBytes(bits) \ {Bytes - 1}
  IN  IF open = {} THEN 0 ELSE BitId(Min(open), Min(OpenBits(bits, Min(open))))

\* A scan that forgets that ids start from 1.
FindMinIdOffByOne(bits) ==
  LET open == OpenBytes(bits)
  IN  IF open = {} THEN 0 ELSE BitId(Min(open), Min(OpenBits(bits, Min(open)))) - 1

FindMinId(bits) ==
  LET open == OpenBytes(bits)
  IN  IF open = {} THEN 0 ELSE BitId(Min(open), Min(OpenBits(bits, Min(open))))

(* set_bit and unset_bit, for an id that has a bit. *)
SetBit(bits, id) == bits \cup {id}
UnsetBit(bits, id) == bits \ {id}

(***************************************************************************)
(* timer_id_push keeps the smaller of timer_fd_min_free and the returned   *)
(* id.  0 stands for "no free id" and is smaller than every id.            *)
(***************************************************************************)
MinAfterPushLast(min, id) == id
MinAfterPush(min, id) == IF min > id THEN id ELSE min
=============================================================================
