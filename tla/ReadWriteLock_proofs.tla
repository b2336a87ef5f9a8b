------------------------ MODULE ReadWriteLock_proofs ------------------------
(***************************************************************************)
(* Proofs about ReadWriteLock for any finite set of threads: the invariant *)
(* IInv, exclusion and the exactness of num_of_readers from it, and that   *)
(* every step of the code is a step of RWLockSpec or a stutter.            *)
(***************************************************************************)
EXTENDS ReadWriteLock, FiniteSetTheorems, TLAPS

\* The program counters of a thread that owns lock_read.
Inside == {"increment", "first?", "leave_lock",
           "decrement", "last?", "leave_unlock"}

LockReadOwner == \A t \in Threads : lock_read = t <=> pc[t] \in Inside

IInv == TypeOK /\ LockReadOwner /\ ReaderCount /\ Exclusion /\ WriteLockOwned

-----------------------------------------------------------------------------

\* At most one thread is between the two mutex calls on lock_read.
LEMMA OneInside ==
  ASSUME LockReadOwner, NEW s \in Threads, NEW t \in Threads,
         pc[s] \in Inside, pc[t] \in Inside
  PROVE  s = t
BY DEF LockReadOwner

\* Counted is finite, so its cardinality is a number.
LEMMA CountedFinite ==
  /\ IsFiniteSet(Counted) /\ Cardinality(Counted) \in Nat
  /\ IsFiniteSet(Counted') /\ Cardinality(Counted') \in Nat
BY ThreadsAssumption, FS_Subset, FS_CardinalityType DEF Counted, At

\* A thread at "first?" is the only one counted iff the counter reads 1.
LEMMA FirstReader ==
  ASSUME IInv, NEW t \in Threads, pc[t] = "first?"
  PROVE  /\ num_of_readers = 1 => Counted = {t}
         /\ num_of_readers # 1 => \E s \in Counted : s # t
<1>1. t \in Counted
  BY DEF Counted, At
<1>2. ASSUME num_of_readers = 1 PROVE Counted = {t}
  <2>1. \E x : Counted = {x}
    BY <1>2, CountedFinite, FS_Singleton DEF IInv, ReaderCount
  <2>2. QED
    BY <1>1, <2>1
<1>3. ASSUME num_of_readers # 1 PROVE \E s \in Counted : s # t
  <2>1. Counted # {t}
    BY <1>3, FS_Singleton DEF IInv, ReaderCount
  <2>2. QED
    BY <1>1, <2>1
<1>4. QED
  BY <1>2, <1>3

\* With the counter at 0 nobody is counted, otherwise somebody is.
LEMMA NobodyCounted ==
  ASSUME IInv
  PROVE  num_of_readers = 0 <=> Counted = {}
BY CountedFinite, FS_EmptySet DEF IInv, ReaderCount

-----------------------------------------------------------------------------
(* One lemma per group of conjuncts: what a step does to each. *)

\* The initial state satisfies the invariant.
LEMMA InitIInv == Init => IInv
<1> SUFFICES ASSUME Init PROVE IInv
  OBVIOUS
<1>1. Counted = {} /\ Readers = {} /\ Writers = {}
  BY DEF Init, Counted, Readers, Writers, At
<1>2. Cardinality(Counted) = 0
  BY <1>1, FS_EmptySet
<1>3. TypeOK
  BY DEF Init, TypeOK, Steps
<1>4. LockReadOwner
  BY ThreadsAssumption DEF Init, LockReadOwner, Inside
<1>5. ReaderCount
  BY <1>2 DEF Init, ReaderCount
<1>6. Exclusion /\ WriteLockOwned
  BY <1>1 DEF Init, Exclusion, WriteLockOwned
<1> QED
  BY <1>3, <1>4, <1>5, <1>6 DEF IInv

\* lock_read keeps its one owner.
LEMMA LockReadOwnerStep ==
  ASSUME TypeOK, LockReadOwner, Next
  PROVE  LockReadOwner'
<1> PICK t \in Threads :
      \/ Call(t) \/ LockForRead(t) \/ UnlockFromRead(t)
      \/ EnterLockWrite(t) \/ UnlockFromWrite(t)
  BY DEF Next
<1> USE ThreadsAssumption DEF LockReadOwner, TypeOK, Go, Inside
<1>1. CASE Call(t)
  BY <1>1 DEF Call, CallLockForRead, CallUnlockFromRead, CallLockForWrite
<1>2. CASE LockForRead(t)
  BY <1>2 DEF LockForRead, EnterLockRead, IncrementReaders,
              LockWriteIfFirst, LeaveLockRead
<1>3. CASE UnlockFromRead(t)
  BY <1>3 DEF UnlockFromRead, EnterUnlockRead, DecrementReaders,
              UnlockWriteIfLast, LeaveUnlockRead
<1>4. CASE EnterLockWrite(t) \/ UnlockFromWrite(t)
  BY <1>4 DEF EnterLockWrite, UnlockFromWrite
<1> QED
  BY <1>1, <1>2, <1>3, <1>4

\* The counter follows the threads that are counted.
LEMMA ReaderCountStep ==
  ASSUME TypeOK, ReaderCount, Next
  PROVE  ReaderCount'
<1> PICK t \in Threads :
      \/ Call(t) \/ LockForRead(t) \/ UnlockFromRead(t)
      \/ EnterLockWrite(t) \/ UnlockFromWrite(t)
  BY DEF Next
<1>1. CASE IncrementReaders(t)
  <2>1. Counted' = Counted \cup {t} /\ t \notin Counted
    BY <1>1 DEF IncrementReaders, Go, TypeOK, Counted, At
  <2>2. Cardinality(Counted') = Cardinality(Counted) + 1
    BY <2>1, CountedFinite, FS_AddElement
  <2> QED
    BY <1>1, <2>2 DEF IncrementReaders, ReaderCount
<1>2. CASE DecrementReaders(t)
  <2>1. Counted' = Counted \ {t} /\ t \in Counted
    BY <1>2 DEF DecrementReaders, Go, TypeOK, Counted, At
  <2>2. Cardinality(Counted') = Cardinality(Counted) - 1
    BY <2>1, CountedFinite, FS_RemoveElement
  <2> QED
    BY <1>2, <2>2 DEF DecrementReaders, ReaderCount
<1>3. CASE ~IncrementReaders(t) /\ ~DecrementReaders(t)
  <2>1. Counted' = Counted /\ num_of_readers' = num_of_readers
    <3>1. CASE Call(t)
      BY <3>1 DEF Call, CallLockForRead, CallUnlockFromRead,
                  CallLockForWrite, Go, TypeOK, Counted, At
    <3>2. CASE LockForRead(t)
      BY <1>3, <3>2 DEF LockForRead, EnterLockRead, LockWriteIfFirst,
                        LeaveLockRead, Go, TypeOK, Counted, At
    <3>3. CASE UnlockFromRead(t)
      BY <1>3, <3>3 DEF UnlockFromRead, EnterUnlockRead, UnlockWriteIfLast,
                        LeaveUnlockRead, Go, TypeOK, Counted, At
    <3>4. CASE EnterLockWrite(t) \/ UnlockFromWrite(t)
      BY <3>4 DEF EnterLockWrite, UnlockFromWrite, Go, TypeOK, Counted, At
    <3> QED
      BY <3>1, <3>2, <3>3, <3>4
  <2> QED
    BY <2>1 DEF ReaderCount
<1> QED
  BY <1>1, <1>2, <1>3

\* Types are kept; that the counter stays a natural number needs ReaderCount.
LEMMA TypeStep ==
  ASSUME TypeOK, ReaderCount, Next
  PROVE  TypeOK'
<1>1. num_of_readers' \in Nat
  BY ReaderCountStep, CountedFinite DEF ReaderCount
<1> PICK t \in Threads :
      \/ Call(t) \/ LockForRead(t) \/ UnlockFromRead(t)
      \/ EnterLockWrite(t) \/ UnlockFromWrite(t)
  BY DEF Next
<1> USE <1>1 DEF TypeOK, Steps, Go
<1>2. CASE Call(t)
  BY <1>2 DEF Call, CallLockForRead, CallUnlockFromRead, CallLockForWrite
<1>3. CASE LockForRead(t)
  BY <1>3 DEF LockForRead, EnterLockRead, IncrementReaders,
              LockWriteIfFirst, LeaveLockRead
<1>4. CASE UnlockFromRead(t)
  BY <1>4 DEF UnlockFromRead, EnterUnlockRead, DecrementReaders,
              UnlockWriteIfLast, LeaveUnlockRead
<1>5. CASE EnterLockWrite(t) \/ UnlockFromWrite(t)
  BY <1>5 DEF EnterLockWrite, UnlockFromWrite
<1> QED
  BY <1>2, <1>3, <1>4, <1>5

-----------------------------------------------------------------------------
(* What the four steps that move a thread in or out do, and that no other  *)
(* step changes who is in.                                                 *)

\* A reader enters: it finds lock_write free if it is the first, and locked
\* by the other readers if it is not.
LEMMA ReaderEnters ==
  ASSUME IInv, NEW t \in Threads, LockWriteIfFirst(t)
  PROVE  /\ Readers' = Readers \cup {t} /\ t \notin Readers
         /\ Writers' = Writers /\ Writers = {}
         /\ lock_write'
<1> USE DEF IInv
<1>1. /\ Readers' = Readers \cup {t} /\ t \notin Readers
      /\ Writers' = Writers
  BY DEF LockWriteIfFirst, Go, TypeOK, Readers, Writers, At
<1>2. CASE num_of_readers = 1
  BY <1>1, <1>2 DEF LockWriteIfFirst, WriteLockOwned
<1>3. CASE num_of_readers # 1
  <2>1. PICK s \in Counted : s # t
    BY <1>3, FirstReader DEF LockWriteIfFirst, Go
  <2>2. pc[s] # "first?"
    BY <2>1, OneInside DEF LockWriteIfFirst, Go, Inside, Counted, At
  <2>3. s \in Readers
    BY <2>1, <2>2 DEF Counted, Readers, At
  <2>4. Writers = {} /\ lock_write
    BY <2>3 DEF Exclusion, WriteLockOwned
  <2> QED
    BY <1>1, <1>3, <2>4 DEF LockWriteIfFirst, TypeOK
<1> QED
  BY <1>2, <1>3

\* A reader leaves: it unlocks lock_write exactly when no other is in.
LEMMA ReaderLeaves ==
  ASSUME IInv, NEW t \in Threads, UnlockWriteIfLast(t)
  PROVE  /\ Readers' = Readers \ {t} /\ t \in Readers
         /\ Writers' = Writers /\ Writers = {}
         /\ lock_write' <=> Readers' # {}
<1> USE DEF IInv
<1>1. /\ Readers' = Readers \ {t} /\ t \in Readers
      /\ Writers' = Writers
  BY DEF UnlockWriteIfLast, Go, TypeOK, Readers, Writers, At
<1>2. Writers = {} /\ lock_write
  BY <1>1 DEF Exclusion, WriteLockOwned
<1>3. Readers \ {t} = Counted
  <2>1. ASSUME NEW s \in Threads, s # t
        PROVE  pc[s] \notin Inside
    BY <2>1, OneInside DEF UnlockWriteIfLast, Go, Inside
  <2> QED
    BY <2>1 DEF UnlockWriteIfLast, Go, Inside, Readers, Counted, At
<1> QED
  BY <1>1, <1>2, <1>3, NobodyCounted DEF UnlockWriteIfLast

\* A writer enters: nobody is in.
LEMMA WriterEnters ==
  ASSUME IInv, NEW t \in Threads, EnterLockWrite(t)
  PROVE  /\ Writers' = {t} /\ Writers = {}
         /\ Readers' = Readers /\ Readers = {}
         /\ lock_write'
<1>1. Readers = {} /\ Writers = {}
  BY DEF IInv, WriteLockOwned, EnterLockWrite
<1>2. Writers' = Writers \cup {t} /\ Readers' = Readers
  BY DEF IInv, EnterLockWrite, Go, TypeOK, Readers, Writers, At
<1> QED
  BY <1>1, <1>2 DEF EnterLockWrite

\* A writer leaves: nobody else was in.
LEMMA WriterLeaves ==
  ASSUME IInv, NEW t \in Threads, UnlockFromWrite(t)
  PROVE  /\ Writers' = {} /\ t \in Writers
         /\ Readers' = Readers /\ Readers = {}
         /\ ~lock_write'
<1>1. /\ Writers' = Writers \ {t} /\ t \in Writers
      /\ Readers' = Readers
  BY DEF IInv, UnlockFromWrite, Go, TypeOK, Readers, Writers, At
<1>2. Writers = {t} /\ Readers = {}
  BY <1>1 DEF IInv, Exclusion
<1> QED
  BY <1>1, <1>2 DEF UnlockFromWrite

\* Every other step leaves lock_write and who is in alone.
LEMMA OtherSteps ==
  ASSUME IInv, NEW t \in Threads,
         \/ Call(t)
         \/ EnterLockRead(t) \/ IncrementReaders(t) \/ LeaveLockRead(t)
         \/ EnterUnlockRead(t) \/ DecrementReaders(t) \/ LeaveUnlockRead(t)
  PROVE  Readers' = Readers /\ Writers' = Writers /\ lock_write' = lock_write
<1> USE DEF IInv, TypeOK, Go, Readers, Writers, At
<1>1. CASE Call(t)
  BY <1>1 DEF Call, CallLockForRead, CallUnlockFromRead, CallLockForWrite
<1>2. CASE EnterLockRead(t) \/ IncrementReaders(t) \/ LeaveLockRead(t)
  BY <1>2 DEF EnterLockRead, IncrementReaders, LeaveLockRead
<1>3. CASE EnterUnlockRead(t) \/ DecrementReaders(t) \/ LeaveUnlockRead(t)
  BY <1>3 DEF EnterUnlockRead, DecrementReaders, LeaveUnlockRead
<1> QED
  BY <1>1, <1>2, <1>3

\* The case split of Next that the four lemmas above are about.
LEMMA NextCases ==
  ASSUME Next
  PROVE  \E t \in Threads :
           \/ LockWriteIfFirst(t) \/ UnlockWriteIfLast(t)
           \/ EnterLockWrite(t) \/ UnlockFromWrite(t)
           \/ \/ Call(t)
              \/ EnterLockRead(t) \/ IncrementReaders(t) \/ LeaveLockRead(t)
              \/ EnterUnlockRead(t) \/ DecrementReaders(t)
              \/ LeaveUnlockRead(t)
BY DEF Next, LockForRead, UnlockFromRead

\* A step keeps writers alone and lock_write owned.
LEMMA ExclusionStep ==
  ASSUME IInv, Next
  PROVE  Exclusion' /\ WriteLockOwned'
<1> PICK t \in Threads :
      \/ LockWriteIfFirst(t) \/ UnlockWriteIfLast(t)
      \/ EnterLockWrite(t) \/ UnlockFromWrite(t)
      \/ \/ Call(t)
         \/ EnterLockRead(t) \/ IncrementReaders(t) \/ LeaveLockRead(t)
         \/ EnterUnlockRead(t) \/ DecrementReaders(t) \/ LeaveUnlockRead(t)
  BY NextCases
<1> USE DEF Exclusion, WriteLockOwned
<1>1. CASE LockWriteIfFirst(t)
  BY <1>1, ReaderEnters
<1>2. CASE UnlockWriteIfLast(t)
  BY <1>2, ReaderLeaves
<1>3. CASE EnterLockWrite(t)
  BY <1>3, WriterEnters
<1>4. CASE UnlockFromWrite(t)
  BY <1>4, WriterLeaves
<1>5. CASE \/ Call(t)
           \/ EnterLockRead(t) \/ IncrementReaders(t) \/ LeaveLockRead(t)
           \/ EnterUnlockRead(t) \/ DecrementReaders(t) \/ LeaveUnlockRead(t)
  BY <1>5, OtherSteps DEF IInv
<1> QED
  BY <1>1, <1>2, <1>3, <1>4, <1>5

\* IInv is inductive.
LEMMA IInvStep == IInv /\ [Next]_vars => IInv'
<1> SUFFICES ASSUME IInv, [Next]_vars PROVE IInv'
  OBVIOUS
<1>1. CASE Next
  BY <1>1, TypeStep, LockReadOwnerStep, ReaderCountStep, ExclusionStep DEF IInv
<1>2. CASE UNCHANGED vars
  <2>1. /\ Readers' = Readers /\ Writers' = Writers /\ Counted' = Counted
        /\ UNCHANGED <<pc, lock_read, lock_write, num_of_readers>>
    BY <1>2 DEF vars, Readers, Writers, Counted, At
  <2> QED
    BY <2>1 DEF IInv, TypeOK, LockReadOwner, ReaderCount, Exclusion,
                WriteLockOwned
<1> QED
  BY <1>1, <1>2

-----------------------------------------------------------------------------
(* The theorems. *)

\* The inductive invariant holds in every reachable state of the lock.
THEOREM Invariance == Spec => []IInv
BY InitIInv, IInvStep, PTL DEF Spec

\* The variables of the lock keep their types; num_of_readers never becomes
\* negative, so the uint of account.h:43 never wraps.
THEOREM TypeCorrect == Spec => []TypeOK
<1>1. IInv => TypeOK
  BY DEF IInv
<1> QED
  BY <1>1, Invariance, PTL

\* Writers are alone under lock_for_write, for any number of threads.
THEOREM MutualExclusion == Spec => []Exclusion
<1>1. IInv => Exclusion
  BY DEF IInv
<1> QED
  BY <1>1, Invariance, PTL

\* num_of_readers counts the threads between increment and decrement.
THEOREM CountExact == Spec => []ReaderCount
<1>1. IInv => ReaderCount
  BY DEF IInv
<1> QED
  BY <1>1, Invariance, PTL

\* lock_write is locked exactly while somebody is in.
THEOREM NeverLeftLocked == Spec => []WriteLockOwned
<1>1. IInv => WriteLockOwned
  BY DEF IInv
<1> QED
  BY <1>1, Invariance, PTL

\* The code's lock implements the abstract one: what the bank is built on.
THEOREM Implementation == Spec => ImplementsRWLockSpec
<1>1. Init => Abs!Init
  BY DEF Init, Abs!Init, Readers, Writers, At
<1>2. IInv /\ [Next]_vars => [Abs!Next]_(Abs!vars)
  <2> SUFFICES ASSUME IInv, [Next]_vars
               PROVE  Abs!Next \/ (Readers' = Readers /\ Writers' = Writers)
    BY DEF Abs!vars
  <2>1. CASE UNCHANGED vars
    BY <2>1 DEF vars, Readers, Writers, At
  <2>2. CASE Next
    <3> PICK t \in Threads :
          \/ LockWriteIfFirst(t) \/ UnlockWriteIfLast(t)
          \/ EnterLockWrite(t) \/ UnlockFromWrite(t)
          \/ \/ Call(t)
             \/ EnterLockRead(t) \/ IncrementReaders(t) \/ LeaveLockRead(t)
             \/ EnterUnlockRead(t) \/ DecrementReaders(t)
             \/ LeaveUnlockRead(t)
      BY <2>2, NextCases
    <3>1. CASE LockWriteIfFirst(t)
      BY <3>1, ReaderEnters DEF Abs!Next, Abs!AcquireRead, Abs!MayRead
    <3>2. CASE UnlockWriteIfLast(t)
      BY <3>2, ReaderLeaves DEF Abs!Next, Abs!ReleaseRead
    <3>3. CASE EnterLockWrite(t)
      BY <3>3, WriterEnters DEF Abs!Next, Abs!AcquireWrite, Abs!MayWrite
    <3>4. CASE UnlockFromWrite(t)
      BY <3>4, WriterLeaves DEF Abs!Next, Abs!ReleaseWrite
    <3>5. CASE \/ Call(t)
               \/ EnterLockRead(t) \/ IncrementReaders(t) \/ LeaveLockRead(t)
               \/ EnterUnlockRead(t) \/ DecrementReaders(t)
               \/ LeaveUnlockRead(t)
      BY <3>5, OtherSteps
    <3> QED
      BY <3>1, <3>2, <3>3, <3>4, <3>5
  <2> QED
    BY <2>1, <2>2
<1> QED
  BY <1>1, <1>2, Invariance, PTL DEF Spec, ImplementsRWLockSpec, Abs!Spec

=============================================================================
