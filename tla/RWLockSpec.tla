----------------------------- MODULE RWLockSpec -----------------------------
(***************************************************************************)
(* What a readers-writer lock of HW4 promises its callers: any number of   *)
(* threads may hold it for reading, or exactly one for writing.  The same  *)
(* four calls guard every account (account.h:51-61) and the list of        *)
(* accounts (bank.h:68-74, atm.h:42-44).  ReadWriteLock shows that the     *)
(* code implements this; Bank is written over these four steps.            *)
(***************************************************************************)

CONSTANT Threads

VARIABLES readers, \* the threads that hold the lock for reading
          writers  \* the threads that hold it for writing (at most one)

vars == <<readers, writers>>

TypeOK == readers \subseteq Threads /\ writers \subseteq Threads

Init == readers = {} /\ writers = {}

MayRead  == writers = {}
MayWrite == writers = {} /\ readers = {}

AcquireRead(t) ==
  /\ t \notin readers
  /\ MayRead
  /\ readers' = readers \cup {t}
  /\ UNCHANGED writers

ReleaseRead(t) ==
  /\ t \in readers
  /\ readers' = readers \ {t}
  /\ UNCHANGED writers

AcquireWrite(t) ==
  /\ MayWrite
  /\ writers' = {t}
  /\ UNCHANGED readers

ReleaseWrite(t) ==
  /\ t \in writers
  /\ writers' = {}
  /\ UNCHANGED readers

Next ==
  \E t \in Threads :
    \/ AcquireRead(t)
    \/ ReleaseRead(t)
    \/ AcquireWrite(t)
    \/ ReleaseWrite(t)

Spec == Init /\ [][Next]_vars

=============================================================================
