---------------------------- MODULE GlibcRwLock ----------------------------
(***************************************************************************)
(* The state of a pthread_rwlock_t that prefers readers, as the GNU C      *)
(* library keeps it: a count of readers, who wait or read; whether a       *)
(* writer has claimed the lock; whether the lock is in its write phase; and *)
(* who writes.  An unlock by anybody but the writer takes a reader off the *)
(* count, whoever that is.                                                 *)
(***************************************************************************)
EXTENDS Integers

CONSTANT Nobody

Unlocked == [readers |-> 0, wrphase |-> FALSE, wrlocked |-> FALSE, owner |-> Nobody]

(* A reader is counted, and ends a write phase in which nobody writes.     *)
RdEntered(l) == [l EXCEPT !.readers = @ + 1, !.wrphase = @ /\ l.wrlocked]
MayRead(l)   == ~l.wrphase

(* A claim, possible when there is no other.  Readers that are left must   *)
(* go first; a write phase goes on.                                        *)
Claimed(l)  == [l EXCEPT !.wrlocked = TRUE, !.wrphase = @ \/ (l.readers = 0)]
MayWrite(l) == l.wrphase

WrUnlocked(l) == [l EXCEPT !.owner = Nobody, !.wrlocked = FALSE, !.wrphase = (l.readers = 0)]

(* The last reader hands over to the writer that waits.                    *)
RdUnlocked(l) == [l EXCEPT !.readers = @ - 1,
                           !.wrphase = @ \/ (l.readers = 1 /\ l.wrlocked)]

Released(l, t) == IF l.owner = t THEN WrUnlocked(l) ELSE RdUnlocked(l)
=============================================================================
