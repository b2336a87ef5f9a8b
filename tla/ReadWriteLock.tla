---------------------------- MODULE ReadWriteLock ----------------------------
(***************************************************************************)
(* The readers-writer lock as the code builds it from two pthread mutexes  *)
(* and a counter (account.cpp:40-68; the same algorithm again in           *)
(* bank.cpp:103-134 and atm.cpp:23-43).  One step per mutex call or        *)
(* counter access.                                                         *)
(*                                                                         *)
(* Both mutexes are of the default (normal) type.  lock_write is locked by *)
(* the first reader and unlocked by the last one, who may be another       *)
(* thread, so all that is kept of it is whether it is locked.              *)
(***************************************************************************)
EXTENDS Integers, FiniteSets

CONSTANTS Threads, \* the threads that use the lock
          NoOne    \* not a thread: the owner of a free mutex

ASSUME ThreadsAssumption == IsFiniteSet(Threads) /\ NoOne \notin Threads

VARIABLES
  pc,            \* where each thread is, inside or outside the lock calls
  lock_read,     \* owner of the mutex that guards num_of_readers
  lock_write,    \* whether the mutex that keeps writers out is locked
  num_of_readers

vars == <<pc, lock_read, lock_write, num_of_readers>>

Steps == {"idle", "increment", "first?", "leave_lock", "reading",
          "unlock_read", "decrement", "last?", "leave_unlock",
          "want_read", "want_write", "writing"}

Init ==
  /\ pc = [t \in Threads |-> "idle"]
  /\ lock_read = NoOne
  /\ lock_write = FALSE
  /\ num_of_readers = 0

Go(t, from, to) ==
  /\ pc[t] = from
  /\ pc' = [pc EXCEPT ![t] = to]

-----------------------------------------------------------------------------
(* lock_for_readres *)

CallLockForRead(t) ==
  /\ Go(t, "idle", "want_read")
  /\ UNCHANGED <<lock_read, lock_write, num_of_readers>>

EnterLockRead(t) ==
  /\ lock_read = NoOne
  /\ Go(t, "want_read", "increment")
  /\ lock_read' = t
  /\ UNCHANGED <<lock_write, num_of_readers>>

\* Fault: a reader is not counted.
EnterUncounted(t) ==
  /\ Go(t, "increment", "first?")
  /\ UNCHANGED <<lock_read, lock_write, num_of_readers>>

IncrementReaders(t) ==
  /\ Go(t, "increment", "first?")
  /\ num_of_readers' = num_of_readers + 1
  /\ UNCHANGED <<lock_read, lock_write>>

\* Faults: the first reader does not lock writers out; it gives way to them.
LetWritersIn(t) ==
  /\ Go(t, "first?", "leave_lock")
  /\ UNCHANGED <<lock_read, lock_write, num_of_readers>>

GiveWay(t) ==
  IF num_of_readers = 1 /\ lock_write
  THEN /\ Go(t, "first?", "want_read")
       /\ lock_read' = NoOne
       /\ num_of_readers' = 0
       /\ UNCHANGED lock_write
  ELSE /\ Go(t, "first?", "leave_lock")
       /\ lock_write' = (lock_write \/ num_of_readers = 1)
       /\ UNCHANGED <<lock_read, num_of_readers>>

\* The first reader waits for lock_write with lock_read in its hand.
LockWriteIfFirst(t) ==
  /\ num_of_readers = 1 => ~lock_write
  /\ Go(t, "first?", "leave_lock")
  /\ lock_write' = (lock_write \/ num_of_readers = 1)
  /\ UNCHANGED <<lock_read, num_of_readers>>

LeaveLockRead(t) ==
  /\ Go(t, "leave_lock", "reading")
  /\ lock_read' = NoOne
  /\ UNCHANGED <<lock_write, num_of_readers>>

-----------------------------------------------------------------------------
(* unlock_from_read *)

CallUnlockFromRead(t) ==
  /\ Go(t, "reading", "unlock_read")
  /\ UNCHANGED <<lock_read, lock_write, num_of_readers>>

\* Fault: a reader that finds lock_read busy does not wait for it.
TryUnlockRead(t) ==
  /\ Go(t, "unlock_read", IF lock_read = NoOne THEN "decrement" ELSE "reading")
  /\ lock_read' = IF lock_read = NoOne THEN t ELSE lock_read
  /\ UNCHANGED <<lock_write, num_of_readers>>

EnterUnlockRead(t) ==
  /\ lock_read = NoOne
  /\ Go(t, "unlock_read", "decrement")
  /\ lock_read' = t
  /\ UNCHANGED <<lock_write, num_of_readers>>

\* Faults: a reader stays counted; the last reader but one lets writers in.
LeaveCounted(t) ==
  /\ Go(t, "decrement", "last?")
  /\ UNCHANGED <<lock_read, lock_write, num_of_readers>>

UnlockWriteTooEarly(t) ==
  /\ Go(t, "last?", "leave_unlock")
  /\ lock_write' = (lock_write /\ num_of_readers > 1)
  /\ UNCHANGED <<lock_read, num_of_readers>>

DecrementReaders(t) ==
  /\ Go(t, "decrement", "last?")
  /\ num_of_readers' = num_of_readers - 1
  /\ UNCHANGED <<lock_read, lock_write>>

UnlockWriteIfLast(t) ==
  /\ Go(t, "last?", "leave_unlock")
  /\ lock_write' = (lock_write /\ num_of_readers # 0)
  /\ UNCHANGED <<lock_read, num_of_readers>>

LeaveUnlockRead(t) ==
  /\ Go(t, "leave_unlock", "idle")
  /\ lock_read' = NoOne
  /\ UNCHANGED <<lock_write, num_of_readers>>

-----------------------------------------------------------------------------
(* lock_for_write, unlock_from_write *)

CallLockForWrite(t) ==
  /\ Go(t, "idle", "want_write")
  /\ UNCHANGED <<lock_read, lock_write, num_of_readers>>

\* Fault: a writer does not wait.
EnterAtOnce(t) ==
  /\ Go(t, "want_write", "writing")
  /\ lock_write' = TRUE
  /\ UNCHANGED <<lock_read, num_of_readers>>

EnterLockWrite(t) ==
  /\ ~lock_write
  /\ Go(t, "want_write", "writing")
  /\ lock_write' = TRUE
  /\ UNCHANGED <<lock_read, num_of_readers>>

UnlockFromWrite(t) ==
  /\ Go(t, "writing", "idle")
  /\ lock_write' = FALSE
  /\ UNCHANGED <<lock_read, num_of_readers>>

-----------------------------------------------------------------------------

LockForRead(t) ==
  \/ EnterLockRead(t)
  \/ IncrementReaders(t)
  \/ LockWriteIfFirst(t)
  \/ LeaveLockRead(t)

UnlockFromRead(t) ==
  \/ EnterUnlockRead(t)
  \/ DecrementReaders(t)
  \/ UnlockWriteIfLast(t)
  \/ LeaveUnlockRead(t)

Call(t) == CallLockForRead(t) \/ CallUnlockFromRead(t) \/ CallLockForWrite(t)

Next ==
  \E t \in Threads :
    Call(t) \/ LockForRead(t) \/ UnlockFromRead(t)
            \/ EnterLockWrite(t) \/ UnlockFromWrite(t)

Spec == Init /\ [][Next]_vars

(***************************************************************************)
(* Nobody has to ask for the lock, but who holds it gives it back, and a   *)
(* mutex that is free again and again is won in the end: the threads of    *)
(* the bank sleep between two uses of a lock (atm.cpp:489, bank.cpp:47,    *)
(* bank.cpp:54), so the scheduler reaches a thread that waits.             *)
(***************************************************************************)
FairSpec ==
  /\ Spec
  /\ \A t \in Threads : /\ SF_vars(LockForRead(t))
                        /\ SF_vars(CallUnlockFromRead(t) \/ UnlockFromRead(t))
                        /\ WF_vars(UnlockFromWrite(t))

-----------------------------------------------------------------------------
(* Properties. *)

At(S) == {t \in Threads : pc[t] \in S}

TypeOK ==
  /\ pc \in [Threads -> Steps]
  /\ lock_read \in Threads \cup {NoOne}
  /\ lock_write \in BOOLEAN
  /\ num_of_readers \in Nat

\* From the read of the lock's first statement under lock_write to the
\* unlock of the last reader: the threads that count as readers to others.
Readers == At({"leave_lock", "reading", "unlock_read", "decrement", "last?"})
Writers == At({"writing"})

\* The threads num_of_readers has counted in and not yet out again.
Counted == At({"first?", "leave_lock", "reading", "unlock_read", "decrement"})

(***************************************************************************)
(* A thread that lock_for_write let in is alone: no other writer, and no   *)
(* reader that lock_for_readres let in (account.h:37-41: the locks exist   *)
(* so that readers read and writers write safely).                         *)
(***************************************************************************)
Exclusion ==
  /\ \A t \in Writers : Writers = {t}
  /\ Writers # {} => Readers = {}

(***************************************************************************)
(* num_of_readers, a uint in account.h:43, is exactly the number of        *)
(* threads between their increment and their decrement.  So it never goes  *)
(* below zero, which a uint would turn into 2^32 - 1 and a lock_write that *)
(* no reader unlocks any more.                                             *)
(***************************************************************************)
ReaderCount == num_of_readers = Cardinality(Counted)

(***************************************************************************)
(* lock_write is locked exactly while a writer is in or the readers as a   *)
(* group own it.  When nobody is in, it is free: no sequence of calls      *)
(* leaves a mutex locked behind it.                                        *)
(***************************************************************************)
WriteLockOwned == lock_write <=> (Readers # {} \/ Writers # {})

\* The lock implements what its callers rely on.
Abs == INSTANCE RWLockSpec WITH readers <- Readers, writers <- Writers
ImplementsRWLockSpec == Abs!Spec

(***************************************************************************)
(* Readers are preferred: whoever asks to read gets in, whatever the       *)
(* writers do.  (Nothing of the kind holds for a writer: readers that      *)
(* overlap for ever keep lock_write locked for ever.)                      *)
(***************************************************************************)
ReaderGetsIn == \A t \in Threads : pc[t] = "want_read" ~> pc[t] = "reading"

\* A reader that leaves is never held up by those that want in.
ReaderGetsOut == \A t \in Threads : pc[t] = "unlock_read" ~> pc[t] = "idle"

=============================================================================
