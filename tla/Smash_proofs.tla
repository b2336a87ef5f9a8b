----------------------------- MODULE Smash_proofs -----------------------------
(***************************************************************************)
(* Proofs about the shell of module Smash: whom its list of jobs and its   *)
(* foreground process name, whatever the handlers interrupt and whatever   *)
(* the children do.                                                        *)
(***************************************************************************)
EXTENDS Smash, SetInduction, TLAPS

-----------------------------------------------------------------------------
(* What Select makes of a list.  Its recursion is over positions, so the   *)
(* facts about it are shown by induction on them: a set of numbers that    *)
(* holds 0 and the successor of each of its members holds them all.        *)

\* One step of the recursion of Select.
Kept(s, S, f, n) ==
  IF n = 0 THEN <<>>
  ELSE IF n \in S THEN Append(f[n - 1], s[n]) ELSE f[n - 1]

\* f follows the recursion up to position m.
Follows(s, S, f, m) == f = [n \in 0..m |-> Kept(s, S, f, n)]

\* There is a function that follows it to the end.
LEMMA SelectExists ==
  ASSUME NEW s, NEW S, NEW m \in Nat
  PROVE  \E f : Follows(s, S, f, m)
<1> DEFINE Good == {n \in Nat : \E f : Follows(s, S, f, n)}
<1>1. 0 \in Good
  <2> DEFINE g == [n \in 0..0 |-> <<>>]
  <2>1. Follows(s, S, g, 0)
    BY DEF Follows, Kept
  <2> QED BY <2>1
<1>2. ASSUME NEW n \in Nat, n \in Good PROVE n + 1 \in Good
  <2>1. PICK f : Follows(s, S, f, n)
    BY <1>2
  <2> DEFINE g == [k \in 0..(n + 1) |->
                     IF k = n + 1 THEN Kept(s, S, f, k) ELSE f[k]]
  <2>2. ASSUME NEW k \in 0..(n + 1) PROVE g[k] = Kept(s, S, g, k)
    <3>1. CASE k = 0
      BY <3>1, <2>1 DEF Follows, Kept
    <3>2. CASE k # 0
      <4>1. k - 1 \in 0..n /\ g[k - 1] = f[k - 1]
        BY <3>2
      <4>2. Kept(s, S, g, k) = Kept(s, S, f, k)
        BY <3>2, <4>1 DEF Kept
      <4>3. CASE k = n + 1
        BY <4>2, <4>3
      <4>4. CASE k # n + 1
        <5>1. k \in 0..n
          BY <4>4
        <5>2. f[k] = Kept(s, S, f, k)
          BY <2>1, <5>1 DEF Follows
        <5> QED BY <4>2, <4>4, <5>2
      <4> QED BY <4>3, <4>4
    <3> QED BY <3>1, <3>2
  <2>3. g = [k \in 0..(n + 1) |-> g[k]]
    OBVIOUS
  <2>4. Follows(s, S, g, n + 1)
    <3> HIDE DEF g
    <3> QED BY <2>2, <2>3 DEF Follows
  <2> QED BY <2>4
<1>3. Nat \subseteq Good
  <2> HIDE DEF Good
  <2> QED BY <1>1, <1>2, Induction
<1> QED BY <1>3

\* r is what the jobs at the positions in S have become, in their order:
\* position k of r is the job that was at f[k].
Places(r, s, S, f) ==
  /\ f \in [1..Len(r) -> S]
  /\ \A k \in 1..Len(r) : r[k].id = s[f[k]].id /\ r[k].pid = s[f[k]].pid
  /\ \A k, l \in 1..Len(r) : k < l => f[k] < f[l]
  /\ \A i \in S : \E k \in 1..Len(r) : f[k] = i

\* A job kept at the end of the list is one more place.
LEMMA PlacesAppend ==
  ASSUME NEW s \in Seq(Job), NEW r \in Seq(Job), NEW S,
         NEW n \in 1..Len(s), S \subseteq 1..(n - 1),
         NEW f, Places(r, s, S, f)
  PROVE  \E g : Places(Append(r, s[n]), s, S \cup {n}, g)
<1> DEFINE a == Append(r, s[n])
           g == [k \in 1..(Len(r) + 1) |-> IF k = Len(r) + 1 THEN n ELSE f[k]]
<1>1. Len(r) \in Nat /\ Len(a) = Len(r) + 1 /\ s[n] \in Job
  OBVIOUS
<1>2. \A k \in 1..Len(r) : a[k] = r[k] /\ g[k] = f[k] /\ f[k] \in 1..(n - 1)
  <2>1. \A k \in 1..Len(r) : f[k] \in S
    BY DEF Places
  <2>2. \A k \in 1..Len(r) : a[k] = r[k] /\ g[k] = f[k]
    OBVIOUS
  <2> QED BY <2>1, <2>2
<1>3. a[Len(r) + 1] = s[n] /\ g[Len(r) + 1] = n
  OBVIOUS
<1>4. \A k \in 1..(Len(r) + 1) : k \in 1..Len(r) \/ k = Len(r) + 1
  BY <1>1
<1>5. g \in [1..(Len(r) + 1) -> S \cup {n}]
  BY <1>4 DEF Places
<1> HIDE DEF g, a
<1>6. \A k \in 1..Len(a) : a[k].id = s[g[k]].id /\ a[k].pid = s[g[k]].pid
  BY <1>1, <1>2, <1>3, <1>4 DEF Places
<1>7. ASSUME NEW k \in 1..Len(a), NEW l \in 1..Len(a), k < l
      PROVE  g[k] < g[l]
  <2>1. k \in 1..Len(r)
    BY <1>1, <1>7
  <2>2. CASE l \in 1..Len(r)
    <3>1. f[k] < f[l]
      BY <1>7, <2>1, <2>2 DEF Places
    <3> QED BY <1>2, <2>1, <2>2, <3>1
  <2>3. CASE l = Len(r) + 1
    <3>1. g[k] \in 1..(n - 1)
      BY <1>2, <2>1
    <3>2. g[l] = n /\ n \in Nat
      BY <1>3, <2>3
    <3> QED BY <3>1, <3>2
  <2>4. l \in 1..Len(r) \/ l = Len(r) + 1
    BY <1>1
  <2> QED BY <2>2, <2>3, <2>4
<1>8. ASSUME NEW i \in S \cup {n} PROVE \E k \in 1..Len(a) : g[k] = i
  <2>1. CASE i = n
    BY <1>1, <1>3, <2>1
  <2>2. CASE i \in S
    <3>1. PICK k \in 1..Len(r) : f[k] = i
      BY <2>2 DEF Places
    <3>2. k \in 1..Len(a)
      BY <1>1
    <3>3. g[k] = i
      BY <1>2, <3>1
    <3> QED BY <3>2, <3>3
  <2> QED BY <2>1, <2>2
<1>9. Places(a, s, S \cup {n}, g)
  BY <1>1, <1>5, <1>6, <1>7, <1>8 DEF Places
<1> QED BY <1>9 DEF a

\* Select keeps the jobs at the positions it is given, in their order.
LEMMA SelectPlaces ==
  ASSUME NEW s \in Seq(Job), NEW S \in SUBSET (1..Len(s))
  PROVE  /\ Select(s, S) \in Seq(Job)
         /\ \E f : Places(Select(s, S), s, S, f)
<1>1. PICK f : Follows(s, S, f, Len(s)) /\ Select(s, S) = f[Len(s)]
  <2> DEFINE up == CHOOSE f : Follows(s, S, f, Len(s))
  <2>1. Select(s, S) = up[Len(s)]
    BY DEF Select, Follows, Kept
  <2>2. Follows(s, S, up, Len(s))
    BY SelectExists
  <2> QED BY <2>1, <2>2
<1> DEFINE Done(n) == /\ f[n] \in Seq(Job)
                       /\ \E g : Places(f[n], s, S \cap (1..n), g)
           Good == {n \in Nat : n <= Len(s) => Done(n)}
<1>2. 0 \in Good
  <2>1. f[0] = <<>> /\ f[0] \in Seq(Job)
    BY <1>1 DEF Follows, Kept
  <2>2. S \cap (1..0) = {}
    OBVIOUS
  <2>3. Places(<<>>, s, {}, [k \in {} |-> 0])
    <3>1. 1..Len(<<>>) = {}
      OBVIOUS
    <3> QED BY <3>1 DEF Places
  <2> QED BY <2>1, <2>2, <2>3
<1>3. ASSUME NEW n \in Nat, n \in Good PROVE n + 1 \in Good
  <2> HIDE DEF Done
  <2> SUFFICES ASSUME n + 1 <= Len(s) PROVE Done(n + 1)
    OBVIOUS
  <2> USE DEF Done
  <2>1. f[n + 1] = Kept(s, S, f, n + 1) /\ n + 1 \in 1..Len(s)
    BY <1>1 DEF Follows
  <2>2. Done(n)
    <3> HIDE DEF Done
    <3> QED BY <1>3
  <2>3. PICK g : Places(f[n], s, S \cap (1..n), g)
    BY <2>2
  <2>4. CASE n + 1 \in S
    <3>1. f[n + 1] = Append(f[n], s[n + 1])
      BY <2>1, <2>4 DEF Kept
    <3>2. S \cap (1..(n + 1)) = (S \cap (1..n)) \cup {n + 1}
      BY <2>4
    <3> DEFINE U == S \cap (1..n)
               r == f[n]
    <3>3. U \subseteq 1..((n + 1) - 1) /\ r \in Seq(Job) /\ Places(r, s, U, g)
      BY <2>2, <2>3
    <3> HIDE DEF U, r
    <3>4. \E h : Places(Append(r, s[n + 1]), s, U \cup {n + 1}, h)
      BY <2>1, <3>3, PlacesAppend
    <3>5. Append(r, s[n + 1]) \in Seq(Job)
      BY <2>1, <3>3
    <3> QED BY <3>1, <3>2, <3>4, <3>5 DEF U, r
  <2>5. CASE n + 1 \notin S
    <3>1. f[n + 1] = f[n]
      BY <2>1, <2>5 DEF Kept
    <3>2. S \cap (1..(n + 1)) = S \cap (1..n)
      BY <2>5
    <3> QED BY <2>2, <3>1, <3>2
  <2> QED BY <2>4, <2>5
<1>4. Done(Len(s))
  <2> HIDE DEF Done
  <2>1. Nat \subseteq Good
    <3> HIDE DEF Good
    <3> QED BY <1>2, <1>3, Induction
  <2> QED BY <2>1
<1>5. S \cap (1..Len(s)) = S
  OBVIOUS
<1> QED BY <1>1, <1>4, <1>5

-----------------------------------------------------------------------------
(* The list of jobs *)

Sorted(s)   == \A i, k \in 1..Len(s) : i <= k => s[i].id <= s[k].id
Distinct(s) == \A i, k \in 1..Len(s) : s[i].pid = s[k].pid => i = k

\* r is what is left of the list at the positions in S, of which only the
\* states may have changed.
Left(r, S) ==
  /\ S \in SUBSET (1..Len(jobs))
  /\ r \in Seq(Job)
  /\ \E f : Places(r, jobs, S, f)

\* What is left names the jobs that stay, all of them, in their order.
LEMMA LeftKeeps ==
  ASSUME jobs \in Seq(Job), NEW r, NEW S, Left(r, S)
  PROVE  /\ \A k \in 1..Len(r) : \E i \in S :
              r[k].id = jobs[i].id /\ r[k].pid = jobs[i].pid
         /\ \A i \in S : \E k \in 1..Len(r) : r[k].pid = jobs[i].pid
         /\ Sorted(jobs) => Sorted(r)
         /\ Distinct(jobs) => Distinct(r)
<1>1. PICK f : Places(r, jobs, S, f)
  BY DEF Left
<1>2. \A k \in 1..Len(r) : /\ f[k] \in S
                           /\ r[k].id = jobs[f[k]].id
                           /\ r[k].pid = jobs[f[k]].pid
  BY <1>1 DEF Places
<1>3. S \subseteq 1..Len(jobs) /\ Len(r) \in Nat /\ Len(jobs) \in Nat
  BY DEF Left
<1>4. \A k, l \in 1..Len(r) : k < l => f[k] < f[l]
  BY <1>1 DEF Places
<1>5. \A i \in S : \E k \in 1..Len(r) : r[k].pid = jobs[i].pid
  BY <1>1, <1>2 DEF Places
<1>6. ASSUME Sorted(jobs), NEW k \in 1..Len(r), NEW l \in 1..Len(r), k <= l
      PROVE  r[k].id <= r[l].id
  <2>1. f[k] \in 1..Len(jobs) /\ f[l] \in 1..Len(jobs) /\ f[k] <= f[l]
    <3>1. k = l \/ k < l
      BY <1>6
    <3> QED BY <1>2, <1>3, <1>4, <3>1
  <2>2. jobs[f[k]].id <= jobs[f[l]].id
    BY <1>6, <2>1 DEF Sorted
  <2> QED BY <1>2, <2>2
<1>7. ASSUME Distinct(jobs), NEW k \in 1..Len(r), NEW l \in 1..Len(r),
             r[k].pid = r[l].pid
      PROVE  k = l
  <2>1. f[k] \in 1..Len(jobs) /\ f[l] \in 1..Len(jobs)
    BY <1>2, <1>3
  <2>2. jobs[f[k]].pid = jobs[f[l]].pid
    BY <1>2, <1>7
  <2>3. f[k] = f[l]
    BY <1>7, <2>1, <2>2 DEF Distinct
  <2>4. ~(k < l) /\ ~(l < k)
    BY <1>4, <2>1, <2>3
  <2> QED BY <2>4
<1> QED BY <1>2, <1>5, <1>6, <1>7 DEF Sorted, Distinct

\* What is left is a list of jobs that were there.
LEMMA LeftJobs ==
  ASSUME jobs \in Seq(Job), NEW r, NEW S, Left(r, S)
  PROVE  /\ r \in Seq(Job)
         /\ \A k \in 1..Len(r) : \E i \in 1..Len(jobs) :
              r[k].id = jobs[i].id /\ r[k].pid = jobs[i].pid
<1>1. r \in Seq(Job) /\ S \subseteq 1..Len(jobs)
  BY DEF Left
<1>2. \A k \in 1..Len(r) : \E i \in S :
        r[k].id = jobs[i].id /\ r[k].pid = jobs[i].pid
  BY LeftKeeps
<1> QED BY <1>1, <1>2

\* update_list and erase leave the jobs at the chosen positions, ...
LEMMA SelectLeft ==
  ASSUME jobs \in Seq(Job), NEW S \in SUBSET (1..Len(jobs))
  PROVE  Left(Select(jobs, S), S)
BY SelectPlaces DEF Left

\* ... a change of states leaves all of them, ...
LEMMA SameLeft ==
  ASSUME jobs \in Seq(Job), NEW r \in Seq(Job), Len(r) = Len(jobs),
         \A k \in 1..Len(r) : r[k].id = jobs[k].id /\ r[k].pid = jobs[k].pid
  PROVE  Left(r, 1..Len(jobs))
<1>1. Places(r, jobs, 1..Len(jobs), [k \in 1..Len(r) |-> k])
  BY DEF Places
<1> QED BY <1>1 DEF Left

\* ... update_list leaves those of living processes, ...
LEMMA RemainingLeft ==
  ASSUME jobs \in Seq(Job), NEW procs
  PROVE  Left(Remaining(procs),
              {i \in 1..Len(jobs) : Alive(procs, jobs[i].pid)})
<1>1. DOMAIN jobs = 1..Len(jobs)
  OBVIOUS
<1> QED BY <1>1, SelectLeft DEF Remaining

\* ... erase all but one, ...
LEMMA WithoutLeft ==
  ASSUME jobs \in Seq(Job), NEW i
  PROVE  Left(Without(i), (1..Len(jobs)) \ {i})
<1>1. DOMAIN jobs = 1..Len(jobs)
  OBVIOUS
<1> QED BY <1>1, SelectLeft DEF Without

\* ... bg and a stop signal all, ...
LEMMA StateLeft ==
  ASSUME jobs \in Seq(Job), NEW i \in DOMAIN jobs,
         NEW st \in {"background", "stop"}
  PROVE  Left([jobs EXCEPT ![i].state = st], 1..Len(jobs))
<1> DEFINE r == [jobs EXCEPT ![i].state = st]
<1>1. i \in 1..Len(jobs) /\ jobs[i] \in Job
  OBVIOUS
<1>2. [jobs[i] EXCEPT !.state = st] \in Job
  BY <1>1 DEF Job
<1>3. r \in Seq(Job) /\ Len(r) = Len(jobs)
  BY <1>1, <1>2
<1>4. \A k \in 1..Len(jobs) : r[k].id = jobs[k].id /\ r[k].pid = jobs[k].pid
  <2>1. jobs \in [1..Len(jobs) -> Job]
    OBVIOUS
  <2> QED BY <1>1, <2>1 DEF Job
<1> HIDE DEF r
<1>5. Left(r, 1..Len(jobs))
  BY <1>3, <1>4, SameLeft
<1> QED BY <1>5 DEF r

\* ... and kill all, or all but the one it signals.
LEMMA KillLeft ==
  ASSUME jobs \in Seq(Job), NEW i \in DOMAIN jobs, NEW sig \in Signals
  PROVE  \/ Left(AfterKill(i, sig), 1..Len(jobs))
         \/ Left(AfterKill(i, sig), (1..Len(jobs)) \ {i})
<1>1. Left(jobs, 1..Len(jobs))
  BY SameLeft
<1>2. CASE sig \in {"STOP", "TSTP", "IOT"}
  <2>1. AfterKill(i, sig) = [jobs EXCEPT ![i].state = "stop"]
    BY <1>2 DEF AfterKill
  <2> QED BY <2>1, StateLeft
<1>3. CASE sig = "CONT"
  <2>1. AfterKill(i, sig) = [jobs EXCEPT ![i].state = "background"]
    BY <1>3 DEF AfterKill
  <2> QED BY <2>1, StateLeft
<1>4. CASE sig \in {"KILL", "TERM"}
  <2>1. AfterKill(i, sig) = Without(i)
    BY <1>4 DEF AfterKill
  <2> QED BY <2>1, WithoutLeft
<1>5. CASE sig = "USR1"
  <2>1. AfterKill(i, sig) = jobs
    BY <1>5 DEF AfterKill
  <2> QED BY <1>1, <2>1
<1> QED BY <1>2, <1>3, <1>4, <1>5 DEF Signals

\* A list at whose end a job is put.
LEMMA AppendKeeps ==
  ASSUME NEW r \in Seq(Job), NEW j \in Job
  PROVE  /\ Append(r, j) \in Seq(Job)
         /\ \A k \in 1..Len(Append(r, j)) :
              Append(r, j)[k] = j \/ \E l \in 1..Len(r) : Append(r, j)[k] = r[l]
         /\ \E k \in 1..Len(Append(r, j)) : Append(r, j)[k] = j
         /\ \A l \in 1..Len(r) :
              \E k \in 1..Len(Append(r, j)) : Append(r, j)[k] = r[l]
         /\ Sorted(r) /\ (\A l \in 1..Len(r) : r[l].id <= j.id)
              => Sorted(Append(r, j))
         /\ Distinct(r) /\ (\A l \in 1..Len(r) : r[l].pid # j.pid)
              => Distinct(Append(r, j))
<1> DEFINE a == Append(r, j)
<1>1. a \in Seq(Job) /\ Len(r) \in Nat /\ Len(a) = Len(r) + 1
  OBVIOUS
<1>2. a[Len(r) + 1] = j /\ \A l \in 1..Len(r) : a[l] = r[l]
  OBVIOUS
<1>3. j.id \in Nat /\ \A l \in 1..Len(r) : r[l].id \in Nat
  <2>1. \A l \in 1..Len(r) : r[l] \in Job
    OBVIOUS
  <2> QED BY <2>1, BoundsAssumption DEF Job
<1> HIDE DEF a
<1>4. \A k \in 1..Len(a) : k \in 1..Len(r) \/ k = Len(r) + 1
  BY <1>1
<1>5. 1..Len(r) \subseteq 1..Len(a) /\ Len(r) + 1 \in 1..Len(a)
  BY <1>1
<1>6. ASSUME Sorted(r), \A l \in 1..Len(r) : r[l].id <= j.id,
             NEW k \in 1..Len(a), NEW l \in 1..Len(a), k <= l
      PROVE  a[k].id <= a[l].id
  <2>1. CASE l \in 1..Len(r)
    <3>1. k \in 1..Len(r)
      BY <1>6, <2>1
    <3> QED BY <1>2, <1>6, <2>1, <3>1 DEF Sorted
  <2>2. CASE l = Len(r) + 1
    BY <1>2, <1>3, <1>4, <1>6, <2>2
  <2> QED BY <1>4, <2>1, <2>2
<1>7. ASSUME Distinct(r), \A l \in 1..Len(r) : r[l].pid # j.pid,
             NEW k \in 1..Len(a), NEW l \in 1..Len(a), a[k].pid = a[l].pid
      PROVE  k = l
  BY <1>2, <1>4, <1>7 DEF Distinct
<1>8. /\ \A k \in 1..Len(a) : a[k] = j \/ \E l \in 1..Len(r) : a[k] = r[l]
      /\ \E k \in 1..Len(a) : a[k] = j
      /\ \A l \in 1..Len(r) : \E k \in 1..Len(a) : a[k] = r[l]
  BY <1>2, <1>4, <1>5
<1>9. /\ Sorted(r) /\ (\A l \in 1..Len(r) : r[l].id <= j.id) => Sorted(a)
      /\ Distinct(r) /\ (\A l \in 1..Len(r) : r[l].pid # j.pid) => Distinct(a)
  BY <1>6, <1>7 DEF Sorted, Distinct
<1> QED BY <1>1, <1>8, <1>9 DEF a

-----------------------------------------------------------------------------
(* The inductive invariant.                                                *)
(*                                                                         *)
(* What a command may read of the locals it was interrupted with: a        *)
(* process while it works on one, the number of the job it is to list.     *)

States == {"free", "running", "stopped", "zombie", "gone", "other"}

WithPid     == {"forked", "forked_bg", "listing", "fg_id", "fg_wait",
                "fg_done", "quit", "poll"}
WithAwaited == {"wait", "fg_wait"}

TypeInv ==
  /\ TypeOK
  /\ pc \in WithPid => pid \in Pids
  /\ pc \in WithAwaited => awaited \in Pids
  /\ pc = "listing" => new_job_id # 0

\* A number that was computed for a job stays at least that of every job
\* listed since then: ctrl-Z can list one job, and then has nothing to stop.
NumberFits ==
  pc = "listing" =>
    \A i \in 1..Len(jobs) :
      /\ jobs[i].id <= new_job_id
      /\ Fg_Proccss_Pid # Smash => jobs[i].id < new_job_id

IdInv == Sorted(jobs) /\ NumberFits

\* After ctrl-Z nothing is in the foreground, so the job it made of the
\* process that is waited for stays in the list.
WaitInv ==
  pc = "wait" =>
    \/ Fg_Proccss_Pid = awaited
    \/ Fg_Proccss_Pid = Smash /\ Listed(awaited)

\* The steps at which main has a process that no job and no handler knows.
Hidden == {"forked", "forked_bg", "listing", "fg_id", "fg_wait", "fg_done"}

\* As long as no pid is given out again, nobody knows one that is free, and
\* a process is known in one way at a time.
OwnInv ==
  ~reuse =>
    /\ \A p \in Pids : proc[p] # "other"
    /\ Distinct(jobs)
    /\ ~Listed(Fg_Proccss_Pid)
    /\ \A i \in 1..Len(jobs) : proc[jobs[i].pid] # "free"
    /\ Fg_Proccss_Pid \in Pids => proc[Fg_Proccss_Pid] # "free"
    /\ pc \in Hidden => /\ ~Listed(pid)
                        /\ pid # Fg_Proccss_Pid
                        /\ proc[pid] # "free"

SmashInv == TypeInv /\ IdInv /\ WaitInv /\ OwnInv /\ ListedAreChildren

\* SmashInv holds at first.
LEMMA InitInv == Init => SmashInv
<1> SUFFICES ASSUME Init PROVE SmashInv
  OBVIOUS
<1> USE BoundsAssumption
<1>1. jobs \in Seq(Job) /\ Len(jobs) = 0 /\ DOMAIN jobs = {}
  BY DEF Init
<1>2. TypeInv
  <2>1. signaled \in BOOLEAN
    BY Zenon DEF Init
  <2>2. TypeOK
    BY <1>1, <2>1 DEF Init, TypeOK
  <2> QED BY <2>2 DEF Init, TypeInv, WithPid, WithAwaited
<1>3. IdInv /\ WaitInv /\ ListedAreChildren
  BY <1>1 DEF Init, IdInv, Sorted, NumberFits, WaitInv, ListedAreChildren
<1>4. OwnInv
  BY <1>1, SmashAssumption DEF Init, OwnInv, Distinct, Listed, Hidden
<1> QED BY <1>2, <1>3, <1>4 DEF SmashInv

-----------------------------------------------------------------------------
(* Types *)

\* What signals, waits and the kernel do to processes, by type.
LEMMA ProcTypes ==
  ASSUME TypeOK
  PROVE  /\ \A sig, p : p \in Pids => Outcomes(sig, p) \subseteq States
         /\ \A p, st : st \in States => Become(p, st) \in [Pids -> States]
         /\ \A procs : procs \in [Pids -> States]
              => Reaped(procs) \in [Pids -> States]
BY DEF TypeOK, Outcomes, Become, Reaped, States

\* What the commands do to the list, by type.
LEMMA ListTypes ==
  ASSUME TypeOK
  PROVE  /\ \A procs : Remaining(procs) \in Seq(Job)
         /\ \A i : Without(i) \in Seq(Job)
         /\ \A i \in DOMAIN jobs, sig \in Signals :
              AfterKill(i, sig) \in Seq(Job)
         /\ \A i \in DOMAIN jobs, st \in {"background", "stop"} :
              [jobs EXCEPT ![i].state = st] \in Seq(Job)
         /\ NewId \in Nat \ {0}
         /\ \A i \in DOMAIN jobs : i \in 1..Len(jobs) /\ jobs[i].pid \in Pids
<1>1. jobs \in Seq(Job)
  BY DEF TypeOK
<1>2. NewId \in Nat \ {0}
  <2>1. CASE jobs = <<>>
    BY <2>1 DEF NewId
  <2>2. CASE jobs # <<>>
    <3>1. Len(jobs) \in 1..Len(jobs)
      BY <1>1, <2>2
    <3>2. jobs[Len(jobs)] \in Job
      BY <1>1, <3>1
    <3> QED BY <2>2, <3>2, BoundsAssumption DEF NewId, Job
  <2> QED BY <2>1, <2>2
<1>3. ASSUME NEW i \in DOMAIN jobs
      PROVE  i \in 1..Len(jobs) /\ jobs[i].pid \in Pids
  <2>1. i \in 1..Len(jobs) /\ jobs[i] \in Job
    BY <1>1
  <2> QED BY <2>1 DEF Job
<1>4. \A procs : Remaining(procs) \in Seq(Job)
  BY <1>1, RemainingLeft DEF Left
<1>5. \A i : Without(i) \in Seq(Job)
  BY <1>1, WithoutLeft DEF Left
<1>6. \A i \in DOMAIN jobs, sig \in Signals : AfterKill(i, sig) \in Seq(Job)
  BY <1>1, KillLeft DEF Left
<1>7. \A i \in DOMAIN jobs, st \in {"background", "stop"} :
        [jobs EXCEPT ![i].state = st] \in Seq(Job)
  BY <1>1, StateLeft DEF Left
<1> QED BY <1>2, <1>3, <1>4, <1>5, <1>6, <1>7

\* The actions, one by one.
LEMMA NextCases ==
  ASSUME [Next]_vars
  PROVE  \/ ReadLine \/ Jobs \/ Nothing \/ Quit \/ QuitKill
         \/ \E i \in DOMAIN jobs, sig \in Signals : Kill(i, sig)
         \/ \E i \in DOMAIN jobs : Continue(i)
         \/ \E i \in DOMAIN jobs : FgJob(i)
         \/ \E i \in DOMAIN jobs : FgLast(i)
         \/ \E i \in DOMAIN jobs : FgFails(i)
         \/ \E p \in Pids : Fork(p)
         \/ StartWait \/ WaitReturns \/ FgDone
         \/ Number \/ Unlisted \/ List
         \/ Terminate \/ TakenForDead \/ KillHard \/ KillFails
         \/ CtrlC \/ CtrlZ
         \/ \E p \in Pids : ChildStep(p)
         \/ \E p \in Pids : Recycle(p) /\ reuse
         \/ UNCHANGED vars
BY TwiceAssumption DEF Next, Command, ShellStep, Bg, Recycle

\* The locals are in their initial state when a command has returned.
LEMMA Returned ==
  ASSUME Return
  PROVE  /\ pc' = "prompt"
         /\ pid' = Smash /\ awaited' = Smash
         /\ new_job_id' \in 0..MaxId
         /\ signaled' \in BOOLEAN
<1>1. pc' = "prompt" /\ pid' = Smash /\ awaited' = Smash
  BY DEF Return
<1>2. new_job_id' \in 0..MaxId
  BY BoundsAssumption DEF Return
<1>3. signaled' \in BOOLEAN
  BY Zenon DEF Return
<1> QED BY <1>1, <1>2, <1>3

\* Every step keeps TypeInv.
LEMMA StepType == ASSUME TypeInv, [Next]_vars PROVE TypeInv'
<1> USE DEF TypeInv, TypeOK, WithPid, WithAwaited
<1>t. TypeOK
  OBVIOUS
<1> DEFINE St == States
<1>p. /\ \A sig, p : p \in Pids => Outcomes(sig, p) \subseteq St
      /\ \A p, st : st \in St => Become(p, st) \in [Pids -> St]
      /\ \A procs : procs \in [Pids -> St] => Reaped(procs) \in [Pids -> St]
      /\ {"free", "running", "stopped", "zombie", "gone", "other"} = St
  BY <1>t, ProcTypes DEF States
<1>l. /\ \A procs : Remaining(procs) \in Seq(Job)
      /\ \A i : Without(i) \in Seq(Job)
      /\ \A i \in DOMAIN jobs, sig \in Signals : AfterKill(i, sig) \in Seq(Job)
      /\ \A i \in DOMAIN jobs, st \in {"background", "stop"} :
           [jobs EXCEPT ![i].state = st] \in Seq(Job)
      /\ NewId \in Nat \ {0}
      /\ \A i \in DOMAIN jobs : i \in 1..Len(jobs) /\ jobs[i].pid \in Pids
  BY <1>t, ListTypes
<1> HIDE DEF St
<1>1. CASE ReadLine
  BY <1>1, <1>p, <1>l DEF ReadLine, UpdateList, locals
<1>2. CASE Jobs
  BY <1>2, <1>p, <1>l, Returned DEF Jobs, UpdateList
<1>3. CASE Nothing
  BY <1>3, Returned DEF Nothing
<1>4. CASE Quit
  BY <1>4 DEF Quit, locals
<1>5. CASE QuitKill
  BY <1>5, <1>l DEF QuitKill
<1>6. CASE \E i \in DOMAIN jobs, sig \in Signals : Kill(i, sig)
  BY <1>6, <1>p, <1>l, Returned DEF Kill
<1>7. CASE \E i \in DOMAIN jobs : Continue(i)
  <2>1. PICK i \in DOMAIN jobs : Continue(i)
    BY <1>7
  <2>2. jobs' \in Seq(Job)
    BY <1>l, <2>1 DEF Continue
  <2>3. proc' \in [Pids -> St]
    BY <1>p, <1>l, <2>1 DEF Continue
  <2> QED BY <2>1, <2>2, <2>3, <1>p, Returned DEF Continue
<1>8. CASE \E i \in DOMAIN jobs : FgJob(i)
  BY <1>8, <1>p, <1>l DEF FgJob, TakeJob
<1>9. CASE \E i \in DOMAIN jobs : FgLast(i)
  BY <1>9, <1>p, <1>l DEF FgLast, TakeJob
<1>10. CASE \E i \in DOMAIN jobs : FgFails(i)
  BY <1>10, <1>p, <1>l, Returned DEF FgFails
<1>11. CASE \E p \in Pids : Fork(p)
  BY <1>11, <1>p DEF Fork
<1>12. CASE StartWait
  BY <1>12 DEF StartWait
<1>13. CASE WaitReturns
  BY <1>13, <1>p, Returned DEF WaitReturns
<1>14. CASE FgDone
  BY <1>14, Returned DEF FgDone
<1>15. CASE Number
  BY <1>15, <1>p, <1>l DEF Number, UpdateList
<1>16. CASE Unlisted
  BY <1>16, Returned DEF Unlisted
<1>17. CASE List
  BY <1>17, Returned DEF List, Job
<1>18. CASE Terminate
  BY <1>18, <1>p DEF Terminate
<1>19. CASE TakenForDead
  BY <1>19, <1>l, BoundsAssumption DEF TakenForDead, EraseAndGoOn
<1>20. CASE KillHard
  BY <1>20, <1>p, <1>l, BoundsAssumption DEF KillHard, EraseAndGoOn
<1>21. CASE KillFails
  BY <1>21, Returned DEF KillFails
<1>22. CASE CtrlC
  BY <1>22, <1>p DEF CtrlC, locals
<1>23. CASE CtrlZ
  <2>1. Fg_Proccss_Pid \in Pids
    BY <1>23 DEF CtrlZ
  <2>2. PICK st \in Outcomes("STOP", Fg_Proccss_Pid) :
          /\ jobs' = Append(Remaining(Become(Fg_Proccss_Pid, st)),
                            [id |-> NewId, pid |-> Fg_Proccss_Pid,
                             state |-> "stop"])
          /\ proc' = Reaped(Become(Fg_Proccss_Pid, st))
    BY <1>23 DEF CtrlZ
  <2>3. proc' \in [Pids -> St]
    BY <1>p, <2>1, <2>2
  <2>4. [id |-> NewId, pid |-> Fg_Proccss_Pid, state |-> "stop"] \in Job
    BY <1>23, <1>l, <2>1, BoundsAssumption DEF CtrlZ, Job
  <2>5. jobs' \in Seq(Job)
    BY <1>l, <2>2, <2>4
  <2> QED BY <1>23, <1>p, <2>1, <2>3, <2>5 DEF CtrlZ
<1>24. CASE \E p \in Pids : ChildStep(p)
  BY <1>24, <1>p DEF ChildStep, locals
<1>25. CASE \E p \in Pids : Recycle(p) /\ reuse
  BY <1>25, <1>p DEF Recycle, locals
<1>26. CASE UNCHANGED vars
  BY <1>26 DEF vars, locals
<1> QED BY <1>1, <1>2, <1>3, <1>4, <1>5, <1>6, <1>7, <1>8, <1>9, <1>10, <1>11,
           <1>12, <1>13, <1>14, <1>15, <1>16, <1>17, <1>18, <1>19, <1>20, <1>21,
           <1>22, <1>23, <1>24, <1>25, <1>26, NextCases

-----------------------------------------------------------------------------
(* Ids *)

\* The number of a new job is more than that of any job in the list.
LEMMA NewIdIsNew ==
  ASSUME jobs \in Seq(Job), Sorted(jobs)
  PROVE  NewId \in Nat /\ \A i \in 1..Len(jobs) : jobs[i].id < NewId
<1>1. CASE jobs = <<>>
  BY <1>1 DEF NewId
<1>2. CASE jobs # <<>>
  <2>1. Len(jobs) \in 1..Len(jobs)
    BY <1>2
  <2>2. \A i \in 1..Len(jobs) : jobs[i].id \in Nat
    <3>1. \A i \in 1..Len(jobs) : jobs[i] \in Job
      OBVIOUS
    <3> QED BY <3>1, BoundsAssumption DEF Job
  <2>3. \A i \in 1..Len(jobs) : jobs[i].id <= jobs[Len(jobs)].id
    BY <2>1 DEF Sorted
  <2> QED BY <1>2, <2>1, <2>2, <2>3 DEF NewId
<1> QED BY <1>1, <1>2

\* What a step makes of the list: some jobs may go, and then a new one may be
\* put at its end, by main or by ctrl-Z.
Appends(r, i, p) ==
  \E st \in {"background", "stop"} :
    /\ [id |-> i, pid |-> p, state |-> st] \in Job
    /\ jobs' = Append(r, [id |-> i, pid |-> p, state |-> st])

JobsStep ==
  \/ \E S : Left(jobs', S)
  \/ /\ pc = "listing" /\ pc' = "prompt"
     /\ UNCHANGED Fg_Proccss_Pid
     /\ Appends(jobs, new_job_id, pid)
  \/ \E S, r : /\ Left(r, S)
               /\ Fg_Proccss_Pid # Smash /\ Fg_Proccss_Pid' = Smash
               /\ UNCHANGED <<pc, new_job_id, awaited>>
               /\ Appends(r, NewId, Fg_Proccss_Pid)

\* The steps that change the list.
ListActions ==
  \/ ReadLine \/ Jobs \/ Number \/ List \/ TakenForDead \/ KillHard \/ CtrlZ
  \/ \E i \in DOMAIN jobs, sig \in Signals : Kill(i, sig)
  \/ \E i \in DOMAIN jobs : Continue(i) \/ FgJob(i) \/ FgLast(i) \/ FgFails(i)

\* The other steps leave the list as it is.
LEMMA OtherActions ==
  ASSUME [Next]_vars, ~ListActions
  PROVE  jobs' = jobs
<1> USE DEF ListActions
<1>1. CASE Nothing \/ Quit \/ QuitKill \/ StartWait \/ WaitReturns \/ FgDone
  BY <1>1 DEF Nothing, Quit, QuitKill, StartWait, WaitReturns, FgDone
<1>2. CASE Unlisted \/ Terminate \/ KillFails \/ CtrlC
  BY <1>2 DEF Unlisted, Terminate, KillFails, CtrlC
<1>3. CASE \E p \in Pids : Fork(p) \/ ChildStep(p) \/ (Recycle(p) /\ reuse)
  BY <1>3 DEF Fork, ChildStep, Recycle
<1>4. CASE UNCHANGED vars
  BY <1>4 DEF vars
<1> QED BY <1>1, <1>2, <1>3, <1>4, NextCases

\* Every step changes the list as JobsStep says.
LEMMA StepJobs ==
  ASSUME TypeInv, [Next]_vars
  PROVE  JobsStep
<1>1. jobs \in Seq(Job)
  BY DEF TypeInv, TypeOK
<1> DEFINE Erases == \E S : Left(jobs', S)
<1>2. CASE ReadLine \/ Jobs \/ Number
  <2>1. jobs' = Remaining(proc)
    BY <1>2 DEF ReadLine, Jobs, Number, UpdateList
  <2>2. Erases
    BY <1>1, <2>1, RemainingLeft
  <2> QED BY <2>2 DEF JobsStep
<1>3. CASE \E i \in DOMAIN jobs, sig \in Signals : Kill(i, sig)
  <2>1. Erases
    BY <1>1, <1>3, KillLeft DEF Kill
  <2> QED BY <2>1 DEF JobsStep
<1>4. CASE \E i \in DOMAIN jobs : Continue(i)
  <2>1. Erases
    BY <1>1, <1>4, StateLeft DEF Continue
  <2> QED BY <2>1 DEF JobsStep
<1>5. CASE \E i \in DOMAIN jobs : FgJob(i) \/ FgLast(i) \/ FgFails(i)
  <2>1. \E i : jobs' = Without(i)
    BY <1>5 DEF FgJob, FgLast, FgFails, TakeJob
  <2>2. Erases
    BY <1>1, <2>1, WithoutLeft
  <2> QED BY <2>2 DEF JobsStep
<1>6. CASE TakenForDead \/ KillHard
  <2>1. jobs' = jobs \/ \E i : jobs' = Without(i)
    BY <1>6 DEF TakenForDead, KillHard, EraseAndGoOn
  <2>2. Erases
    BY <1>1, <2>1, WithoutLeft, SameLeft
  <2> QED BY <2>2 DEF JobsStep
<1>7. CASE List
  <2>1. [id |-> new_job_id, pid |-> pid, state |-> "background"] \in Job
    BY <1>7 DEF List, Job, TypeInv, TypeOK, WithPid
  <2>2. Appends(jobs, new_job_id, pid)
    BY <1>7, <2>1 DEF List, Appends
  <2> QED BY <1>7, <2>2 DEF JobsStep, List, Return
<1>8. CASE CtrlZ
  <2>1. PICK st : jobs' = Append(Remaining(Become(Fg_Proccss_Pid, st)),
                                 [id |-> NewId, pid |-> Fg_Proccss_Pid,
                                  state |-> "stop"])
    BY <1>8 DEF CtrlZ
  <2> DEFINE r == Remaining(Become(Fg_Proccss_Pid, st))
  <2>2. \E S : Left(r, S)
    BY <1>1, RemainingLeft
  <2>3. [id |-> NewId, pid |-> Fg_Proccss_Pid, state |-> "stop"] \in Job
    <3>1. NewId \in Nat \ {0}
      BY ListTypes DEF TypeInv
    <3> QED BY <1>8, <3>1, BoundsAssumption DEF CtrlZ, Job, TypeInv, TypeOK
  <2>4. Appends(r, NewId, Fg_Proccss_Pid)
    BY <2>1, <2>3 DEF Appends
  <2> HIDE DEF r
  <2> QED BY <1>8, <2>2, <2>4 DEF JobsStep, CtrlZ
<1>9. CASE ~ListActions
  <2>1. Erases
    BY <1>1, <1>9, OtherActions, SameLeft
  <2> QED BY <2>1 DEF JobsStep
<1> QED BY <1>2, <1>3, <1>4, <1>5, <1>6, <1>7, <1>8, <1>9 DEF ListActions

\* What may happen without main: the handlers, but for ctrl-Z, and the others.
Meanwhile ==
  \/ CtrlC
  \/ \E p \in Pids : ChildStep(p)
  \/ \E p \in Pids : Recycle(p) /\ reuse
  \/ UNCHANGED vars

\* None of this changes what main works with, nor the list.
LEMMA MeanwhileKeeps ==
  ASSUME Meanwhile
  PROVE  UNCHANGED <<reuse, pc, jobs, Fg_Proccss_Pid, pid, awaited, new_job_id>>
BY DEF Meanwhile, CtrlC, ChildStep, Recycle, vars, locals

\* How main comes to the steps the invariant speaks of.
LEMMA Entries ==
  ASSUME [Next]_vars
  PROVE  /\ pc' = "listing" =>
              Number \/ (pc = "listing" /\ (Meanwhile \/ CtrlZ))
         /\ pc' = "wait" => StartWait \/ (pc = "wait" /\ (Meanwhile \/ CtrlZ))
         /\ pc' = "command" =>
              ReadLine \/ (pc = "command" /\ (Meanwhile \/ CtrlZ))
<1> USE DEF Meanwhile
<1>1. CASE ReadLine \/ Number \/ StartWait
  BY <1>1 DEF ReadLine, Number, StartWait
<1>2. CASE Jobs \/ Nothing \/ Quit \/ QuitKill
  BY <1>2 DEF Jobs, Nothing, Quit, QuitKill, Return
<1>3. CASE \E i \in DOMAIN jobs, sig \in Signals : Kill(i, sig)
  BY <1>3 DEF Kill, Return
<1>4. CASE \E i \in DOMAIN jobs :
             Continue(i) \/ FgJob(i) \/ FgLast(i) \/ FgFails(i)
  BY <1>4 DEF Continue, FgJob, FgLast, FgFails, Return
<1>5. CASE \E p \in Pids : Fork(p)
  BY <1>5 DEF Fork
<1>6. CASE WaitReturns \/ FgDone \/ Unlisted \/ List
  BY <1>6 DEF WaitReturns, FgDone, Unlisted, List, Return
<1>7. CASE Terminate \/ TakenForDead \/ KillHard \/ KillFails
  BY <1>7 DEF Terminate, TakenForDead, KillHard, KillFails, EraseAndGoOn, Return
<1>8. CASE Meanwhile \/ CtrlZ
  BY <1>8 DEF CtrlC, CtrlZ, ChildStep, Recycle, vars
<1> QED BY <1>1, <1>2, <1>3, <1>4, <1>5, <1>6, <1>7, <1>8, NextCases

\* The fields of the jobs, by type.
LEMMA IdTypes ==
  ASSUME TypeInv
  PROVE  /\ jobs \in Seq(Job)
         /\ \A i \in 1..Len(jobs) : jobs[i].id \in Nat /\ jobs[i].pid \in Pids
         /\ new_job_id \in Nat
<1>1. jobs \in Seq(Job) /\ new_job_id \in 0..MaxId
  BY DEF TypeInv, TypeOK
<1>2. \A i \in 1..Len(jobs) : jobs[i] \in Job
  BY <1>1
<1> QED BY <1>1, <1>2, BoundsAssumption DEF Job

\* Every step keeps the order of the ids, ...
LEMMA StepSorted == ASSUME TypeInv, IdInv, [Next]_vars PROVE Sorted(jobs')
<1>t. jobs \in Seq(Job) /\ Sorted(jobs) /\ NumberFits
  BY IdTypes DEF IdInv
<1>1. CASE \E S : Left(jobs', S)
  BY <1>1, <1>t, LeftKeeps
<1>2. CASE pc = "listing" /\ Appends(jobs, new_job_id, pid)
  <2>1. PICK j \in Job : j.id = new_job_id /\ jobs' = Append(jobs, j)
    BY <1>2 DEF Appends
  <2>2. \A i \in 1..Len(jobs) : jobs[i].id <= j.id
    BY <1>2, <1>t, <2>1 DEF NumberFits
  <2> QED BY <1>t, <2>1, <2>2, AppendKeeps
<1>3. CASE \E S, r : Left(r, S) /\ Appends(r, NewId, Fg_Proccss_Pid)
  <2>1. PICK S, r : Left(r, S) /\ Appends(r, NewId, Fg_Proccss_Pid)
    BY <1>3
  <2>2. PICK j \in Job : j.id = NewId /\ jobs' = Append(r, j)
    BY <2>1 DEF Appends
  <2>3. /\ r \in Seq(Job)
        /\ \A k \in 1..Len(r) : \E i \in 1..Len(jobs) : r[k].id = jobs[i].id
    BY <1>t, <2>1, LeftJobs
  <2>4. Sorted(r)
    BY <1>t, <2>1, LeftKeeps
  <2>5. NewId \in Nat /\ \A i \in 1..Len(jobs) : jobs[i].id < NewId
    BY <1>t, NewIdIsNew
  <2>6. \A k \in 1..Len(r) : r[k].id <= j.id
    BY <2>2, <2>3, <2>5, IdTypes
  <2> QED BY <2>2, <2>3, <2>4, <2>6, AppendKeeps
<1> QED BY <1>1, <1>2, <1>3, StepJobs DEF JobsStep

\* ... the number that main has computed at the end of it, ...
LEMMA StepNumber == ASSUME TypeInv, IdInv, [Next]_vars PROVE NumberFits'
<1>t. /\ jobs \in Seq(Job) /\ Sorted(jobs) /\ NumberFits
      /\ \A i \in 1..Len(jobs) : jobs[i].id \in Nat
      /\ new_job_id \in Nat
  BY IdTypes DEF IdInv
<1>n. NewId \in Nat /\ \A i \in 1..Len(jobs) : jobs[i].id < NewId
  BY <1>t, NewIdIsNew
<1> SUFFICES ASSUME pc' = "listing" PROVE NumberFits'
  BY DEF NumberFits
<1>1. CASE Number
  <2>1. jobs' = Remaining(proc) /\ new_job_id' = NewId
    BY <1>1 DEF Number, UpdateList
  <2>2. \A k \in 1..Len(jobs') :
          \E i \in 1..Len(jobs) : jobs'[k].id = jobs[i].id
    <3>1. PICK S : Left(jobs', S)
      BY <1>t, <2>1, RemainingLeft
    <3> QED BY <1>t, <3>1, LeftJobs
  <2>3. \A k \in 1..Len(jobs') : jobs'[k].id < new_job_id'
    BY <1>n, <2>1, <2>2
  <2>4. \A k \in 1..Len(jobs') : jobs'[k].id \in Nat
    BY <1>t, <2>2
  <2> QED BY <1>n, <2>1, <2>3, <2>4 DEF NumberFits
<1>2. CASE pc = "listing" /\ Meanwhile
  BY <1>t, <1>2, MeanwhileKeeps DEF NumberFits
<1>3. CASE pc = "listing" /\ CtrlZ
  <2>1. /\ Fg_Proccss_Pid # Smash /\ Fg_Proccss_Pid' = Smash
        /\ new_job_id' = new_job_id
    BY <1>3 DEF CtrlZ
  <2>2. \A i \in 1..Len(jobs) : jobs[i].id < new_job_id
    BY <1>3, <1>t, <2>1 DEF NumberFits
  <2>3. NewId <= new_job_id
    <3>1. CASE jobs = <<>>
      BY <1>3, <1>t, <3>1 DEF NewId, TypeInv
    <3>2. CASE jobs # <<>>
      <4>1. Len(jobs) \in 1..Len(jobs)
        BY <1>t, <3>2
      <4> QED BY <1>t, <2>2, <3>2, <4>1 DEF NewId
    <3> QED BY <3>1, <3>2
  <2>4. PICK st : jobs' = Append(Remaining(Become(Fg_Proccss_Pid, st)),
                                 [id |-> NewId, pid |-> Fg_Proccss_Pid,
                                  state |-> "stop"])
    BY <1>3 DEF CtrlZ
  <2> DEFINE r == Remaining(Become(Fg_Proccss_Pid, st))
             j == [id |-> NewId, pid |-> Fg_Proccss_Pid, state |-> "stop"]
  <2>5. j \in Job
    BY <1>3, <1>n, BoundsAssumption, ListTypes DEF CtrlZ, Job, TypeInv, TypeOK
  <2>6. r \in Seq(Job) /\ \A k \in 1..Len(r) : \E i \in 1..Len(jobs) :
                            r[k].id = jobs[i].id
    <3>1. PICK S : Left(r, S)
      BY <1>t, RemainingLeft
    <3> HIDE DEF r
    <3> QED BY <1>t, <3>1, LeftJobs
  <2>7. j.id = NewId /\ jobs' = Append(r, j)
    BY <2>4
  <2> HIDE DEF r, j
  <2>8. ASSUME NEW k \in 1..Len(jobs') PROVE jobs'[k].id <= new_job_id
    <3>1. jobs'[k] = j \/ \E l \in 1..Len(r) : jobs'[k] = r[l]
      BY <2>5, <2>6, <2>7, AppendKeeps
    <3>2. \A l \in 1..Len(r) : r[l].id <= new_job_id
      BY <1>t, <2>2, <2>6
    <3> QED BY <2>3, <2>7, <3>1, <3>2
  <2> QED BY <2>1, <2>8 DEF NumberFits
<1> QED BY <1>1, <1>2, <1>3, Entries

\* ... and so IdInv.
LEMMA StepIds == ASSUME TypeInv, IdInv, [Next]_vars PROVE IdInv'
BY StepSorted, StepNumber DEF IdInv, Sorted

-----------------------------------------------------------------------------
(* The process that is waited for *)

\* Every step keeps WaitInv.
LEMMA StepWait == ASSUME TypeInv, WaitInv, [Next]_vars PROVE WaitInv'
<1> SUFFICES ASSUME pc' = "wait" PROVE WaitInv'
  BY DEF WaitInv
<1>1. CASE StartWait
  BY <1>1 DEF StartWait, WaitInv
<1>2. CASE pc = "wait" /\ Meanwhile
  BY <1>2, MeanwhileKeeps DEF WaitInv, Listed
<1>3. CASE pc = "wait" /\ CtrlZ
  <2>1. Fg_Proccss_Pid = awaited /\ awaited' = awaited /\ Fg_Proccss_Pid' = Smash
    BY <1>3 DEF CtrlZ, WaitInv
  <2>2. PICK st : jobs' = Append(Remaining(Become(Fg_Proccss_Pid, st)),
                                 [id |-> NewId, pid |-> Fg_Proccss_Pid,
                                  state |-> "stop"])
    BY <1>3 DEF CtrlZ
  <2> DEFINE r == Remaining(Become(Fg_Proccss_Pid, st))
  <2>3. r \in Seq(Job)
    BY ListTypes DEF TypeInv
  <2> HIDE DEF r
  <2>4. Len(r) + 1 \in DOMAIN jobs' /\ jobs'[Len(r) + 1].pid = Fg_Proccss_Pid
    BY <2>2, <2>3 DEF r
  <2>5. Listed(awaited)'
    BY <2>1, <2>4 DEF Listed
  <2> QED BY <2>1, <2>5 DEF WaitInv
<1> QED BY <1>1, <1>2, <1>3, Entries

-----------------------------------------------------------------------------
(* Who knows a process, when no pid is given out again *)

NoOther == \A p \in Pids : proc[p] # "other"

\* A signal to a child leaves it a child.
LEMMA OutcomesOfChild ==
  ASSUME NoOther
  PROVE  \A sig : \A p \in Pids :
           Outcomes(sig, p) \subseteq {"running", "stopped", "zombie"}
BY DEF NoOther, Outcomes

\* No process becomes one of somebody else, and no pid becomes free.
ProcGoesOn ==
  \A p \in Pids : /\ proc'[p] # "other"
                  /\ proc[p] # "free" => proc'[p] # "free"

\* A change of one process by a signal or by itself, ...
LEMMA BecomeGoesOn ==
  ASSUME TypeInv, NoOther, NEW p \in Pids,
         NEW st \in {"running", "stopped", "zombie", "gone"},
         proc' = Become(p, st)
  PROVE  ProcGoesOn
BY DEF TypeInv, TypeOK, NoOther, Become, ProcGoesOn

\* ... or one that is followed by update_list's waits, ...
LEMMA ReapedGoesOn ==
  ASSUME TypeInv, NoOther, NEW procs \in [Pids -> States],
         proc' = Reaped(procs),
         \A p \in Pids : /\ procs[p] # "other"
                         /\ proc[p] # "free" => procs[p] # "free"
  PROVE  ProcGoesOn
BY DEF Reaped, ProcGoesOn

\* ... or any step at all, gives out no pid again.
LEMMA StepProc ==
  ASSUME TypeInv, NoOther, ~reuse, [Next]_vars
  PROVE  ProcGoesOn
<1>t. /\ proc \in [Pids -> States]
      /\ \A i \in DOMAIN jobs : jobs[i].pid \in Pids
      /\ pc \in WithPid => pid \in Pids
      /\ pc \in WithAwaited => awaited \in Pids
      /\ Fg_Proccss_Pid # Smash => Fg_Proccss_Pid \in Pids
  BY ListTypes DEF TypeInv, TypeOK, States
<1>1. CASE ReadLine \/ Jobs \/ Number
  <2>1. proc' = Reaped(proc)
    BY <1>1 DEF ReadLine, Jobs, Number, UpdateList
  <2> QED BY <1>t, <2>1, ReapedGoesOn DEF NoOther
<1>2. CASE Nothing \/ Quit \/ QuitKill \/ StartWait \/ FgDone \/ Unlisted \/ List
           \/ TakenForDead \/ KillFails \/ UNCHANGED vars
           \/ \E i \in DOMAIN jobs : FgFails(i)
  <2>1. proc' = proc
    BY <1>2 DEF Nothing, Quit, QuitKill, StartWait, FgDone, Unlisted, List,
                TakenForDead, KillFails, FgFails, vars
  <2> QED BY <2>1 DEF ProcGoesOn, NoOther
<1>3. CASE \E i \in DOMAIN jobs, sig \in Signals : Kill(i, sig)
  <2>1. PICK i \in DOMAIN jobs, sig \in Signals : Kill(i, sig)
    BY <1>3
  <2> QED BY <1>t, <2>1, OutcomesOfChild, BecomeGoesOn DEF Kill
<1>4. CASE \E i \in DOMAIN jobs : Continue(i) \/ FgJob(i) \/ FgLast(i)
  <2>1. PICK i \in DOMAIN jobs : \E st \in Outcomes("CONT", jobs[i].pid) :
               proc' = Become(jobs[i].pid, st)
    BY <1>4 DEF Continue, FgJob, FgLast, TakeJob
  <2> QED BY <1>t, <2>1, OutcomesOfChild, BecomeGoesOn
<1>5. CASE \E p \in Pids : Fork(p)
  BY <1>5, BecomeGoesOn DEF Fork
<1>6. CASE WaitReturns
  <2>1. CASE proc' = proc
    BY <2>1 DEF ProcGoesOn, NoOther
  <2>2. CASE proc' = Become(awaited, "gone")
    BY <1>6, <1>t, <2>2, BecomeGoesOn DEF WaitReturns, WithAwaited
  <2> QED BY <1>6, <2>1, <2>2 DEF WaitReturns
<1>7. CASE Terminate
  <2>1. pid \in Pids
    BY <1>7, <1>t DEF Terminate, WithPid
  <2>2. PICK st \in Outcomes("TERM", pid) \cup {"gone"} : proc' = Become(pid, st)
    BY <1>7 DEF Terminate
  <2> QED BY <2>1, <2>2, OutcomesOfChild, BecomeGoesOn
<1>8. CASE KillHard
  <2>1. pid \in Pids
    BY <1>8, <1>t DEF KillHard, WithPid
  <2>2. PICK st \in Outcomes("KILL", pid) : proc' = Become(pid, st)
    BY <1>8 DEF KillHard
  <2> QED BY <2>1, <2>2, OutcomesOfChild, BecomeGoesOn
<1>9. CASE CtrlC
  <2>1. Fg_Proccss_Pid \in Pids
    BY <1>9, <1>t DEF CtrlC
  <2>2. PICK st \in Outcomes("KILL", Fg_Proccss_Pid) :
          proc' = Become(Fg_Proccss_Pid, st)
    BY <1>9 DEF CtrlC
  <2> QED BY <2>1, <2>2, OutcomesOfChild, BecomeGoesOn
<1>10. CASE CtrlZ
  <2>1. Fg_Proccss_Pid \in Pids
    BY <1>10, <1>t DEF CtrlZ
  <2>2. PICK st \in Outcomes("STOP", Fg_Proccss_Pid) :
          proc' = Reaped(Become(Fg_Proccss_Pid, st))
    BY <1>10 DEF CtrlZ
  <2>3. st \in {"running", "stopped", "zombie"}
    BY <2>1, <2>2, OutcomesOfChild
  <2> DEFINE procs == Become(Fg_Proccss_Pid, st)
  <2>4. /\ procs \in [Pids -> States]
        /\ \A p \in Pids : /\ procs[p] # "other"
                           /\ proc[p] # "free" => procs[p] # "free"
    BY <1>t, <2>1, <2>3 DEF Become, NoOther, States
  <2>5. proc' = Reaped(procs)
    BY <2>2
  <2> HIDE DEF procs
  <2> QED BY <2>4, <2>5, ReapedGoesOn
<1>11. CASE \E p \in Pids : ChildStep(p)
  <2>1. PICK p \in Pids : ChildStep(p)
    BY <1>11
  <2>2. PICK st \in {"running", "stopped", "zombie"} : proc' = Become(p, st)
    BY <2>1 DEF ChildStep
  <2> QED BY <2>2, BecomeGoesOn
<1> QED BY <1>1, <1>2, <1>3, <1>4, <1>5, <1>6, <1>7, <1>8, <1>9, <1>10, <1>11,
           NextCases

\* Whether pids are given out again is decided at the start.
LEMMA ReuseStays == ASSUME [Next]_vars PROVE reuse' = reuse
<1>1. CASE ReadLine \/ Jobs \/ Nothing \/ Quit \/ QuitKill
  BY <1>1 DEF ReadLine, Jobs, Nothing, Quit, QuitKill
<1>2. CASE \E i \in DOMAIN jobs, sig \in Signals : Kill(i, sig)
  BY <1>2 DEF Kill
<1>3. CASE \E i \in DOMAIN jobs :
             Continue(i) \/ FgJob(i) \/ FgLast(i) \/ FgFails(i)
  BY <1>3 DEF Continue, FgJob, FgLast, FgFails, TakeJob
<1>4. CASE \E p \in Pids : Fork(p) \/ ChildStep(p) \/ (Recycle(p) /\ reuse)
  BY <1>4 DEF Fork, ChildStep, Recycle
<1>5. CASE StartWait \/ WaitReturns \/ FgDone \/ Number \/ Unlisted \/ List
  BY <1>5 DEF StartWait, WaitReturns, FgDone, Number, Unlisted, List
<1>6. CASE Terminate \/ TakenForDead \/ KillHard \/ KillFails \/ CtrlC \/ CtrlZ
  BY <1>6 DEF Terminate, TakenForDead, KillHard, KillFails, CtrlC, CtrlZ
<1>7. CASE UNCHANGED vars
  BY <1>7 DEF vars
<1> QED BY <1>1, <1>2, <1>3, <1>4, <1>5, <1>6, <1>7, NextCases

\* How the foreground process gets its name.
LEMMA ForegroundSteps ==
  ASSUME [Next]_vars
  PROVE  \/ Fg_Proccss_Pid' = Fg_Proccss_Pid
         \/ Fg_Proccss_Pid' = Smash
         \/ /\ pc \in Hidden /\ pc' \notin Hidden
            /\ Fg_Proccss_Pid' = pid /\ jobs' = jobs
<1>1. CASE StartWait \/ FgDone \/ CtrlZ
  BY <1>1 DEF StartWait, FgDone, CtrlZ, Hidden, Return
<1>2. CASE ReadLine \/ Jobs \/ Nothing \/ Quit \/ QuitKill
  BY <1>2 DEF ReadLine, Jobs, Nothing, Quit, QuitKill
<1>3. CASE \E i \in DOMAIN jobs, sig \in Signals : Kill(i, sig)
  BY <1>3 DEF Kill
<1>4. CASE \E i \in DOMAIN jobs :
             Continue(i) \/ FgJob(i) \/ FgLast(i) \/ FgFails(i)
  BY <1>4 DEF Continue, FgJob, FgLast, FgFails, TakeJob
<1>5. CASE \E p \in Pids : Fork(p) \/ ChildStep(p) \/ (Recycle(p) /\ reuse)
  BY <1>5 DEF Fork, ChildStep, Recycle
<1>6. CASE WaitReturns \/ Number \/ Unlisted \/ List
  BY <1>6 DEF WaitReturns, Number, Unlisted, List
<1>7. CASE Terminate \/ TakenForDead \/ KillHard \/ KillFails \/ CtrlC
  BY <1>7 DEF Terminate, TakenForDead, KillHard, KillFails, CtrlC
<1>8. CASE UNCHANGED vars
  BY <1>8 DEF vars
<1> QED BY <1>1, <1>2, <1>3, <1>4, <1>5, <1>6, <1>7, <1>8, NextCases

\* How main comes to a process nobody else knows, and how it keeps it.
LEMMA HiddenSteps ==
  ASSUME [Next]_vars, pc' \in Hidden
  PROVE  \/ \E p \in Pids : Fork(p)
         \/ \E i \in DOMAIN jobs : TakeJob(i)
         \/ pc \in Hidden /\ (Number \/ WaitReturns \/ Meanwhile \/ CtrlZ)
<1> USE DEF Hidden
<1>1. CASE Number \/ WaitReturns
  BY <1>1 DEF Number, WaitReturns, Return
<1>2. CASE ReadLine \/ Jobs \/ Nothing \/ Quit \/ QuitKill
  BY <1>2 DEF ReadLine, Jobs, Nothing, Quit, QuitKill, Return
<1>3. CASE \E i \in DOMAIN jobs, sig \in Signals : Kill(i, sig)
  BY <1>3 DEF Kill, Return
<1>4. CASE \E i \in DOMAIN jobs :
             Continue(i) \/ FgJob(i) \/ FgLast(i) \/ FgFails(i)
  BY <1>4 DEF Continue, FgJob, FgLast, FgFails, Return
<1>5. CASE StartWait \/ FgDone \/ Unlisted \/ List
  BY <1>5 DEF StartWait, FgDone, Unlisted, List, Return
<1>6. CASE Terminate \/ TakenForDead \/ KillHard \/ KillFails
  BY <1>6 DEF Terminate, TakenForDead, KillHard, KillFails, EraseAndGoOn, Return
<1>7. CASE Meanwhile \/ CtrlZ
  <2>1. pc' = pc
    BY <1>7, MeanwhileKeeps DEF CtrlZ
  <2> QED BY <1>7, <2>1
<1>8. CASE \E p \in Pids : Fork(p)
  BY <1>8
<1> QED BY <1>1, <1>2, <1>3, <1>4, <1>5, <1>6, <1>7, <1>8, NextCases DEF Meanwhile

ListedPids == {jobs[i].pid : i \in 1..Len(jobs)}

\* Who is listed, by position.
LEMMA ListedIs ==
  ASSUME jobs \in Seq(Job)
  PROVE  \A p : Listed(p) <=> p \in ListedPids
<1>1. DOMAIN jobs = 1..Len(jobs)
  OBVIOUS
<1> QED BY <1>1 DEF Listed, ListedPids

\* ctrl-Z, in terms of the list that is left and the process it stops.
LEMMA CtrlZLists ==
  ASSUME TypeInv, CtrlZ
  PROVE  \E st \in Outcomes("STOP", Fg_Proccss_Pid) :
           \E r, j :
             /\ Left(r, {i \in 1..Len(jobs) :
                           Alive(Become(Fg_Proccss_Pid, st), jobs[i].pid)})
             /\ j \in Job /\ j.pid = Fg_Proccss_Pid /\ jobs' = Append(r, j)
             /\ proc' = Reaped(Become(Fg_Proccss_Pid, st))
<1>1. PICK st \in Outcomes("STOP", Fg_Proccss_Pid) :
        /\ jobs' = Append(Remaining(Become(Fg_Proccss_Pid, st)),
                          [id |-> NewId, pid |-> Fg_Proccss_Pid,
                           state |-> "stop"])
        /\ proc' = Reaped(Become(Fg_Proccss_Pid, st))
  BY DEF CtrlZ
<1>2. [id |-> NewId, pid |-> Fg_Proccss_Pid, state |-> "stop"] \in Job
  BY ListTypes, BoundsAssumption DEF CtrlZ, Job, TypeInv, TypeOK
<1> DEFINE r == Remaining(Become(Fg_Proccss_Pid, st))
           j == [id |-> NewId, pid |-> Fg_Proccss_Pid, state |-> "stop"]
<1>3. Left(r, {i \in 1..Len(jobs) :
                 Alive(Become(Fg_Proccss_Pid, st), jobs[i].pid)})
  BY IdTypes, RemainingLeft
<1>4. j \in Job /\ j.pid = Fg_Proccss_Pid /\ jobs' = Append(r, j)
  BY <1>1, <1>2
<1> HIDE DEF r, j
<1> QED BY <1>1, <1>3, <1>4

\* Every step keeps the pids of the list apart, and a new one is the one in
\* the foreground or the one main has in its hands, which it then lets go.
LEMMA StepDistinct ==
  ASSUME TypeInv, OwnInv, ~reuse, [Next]_vars
  PROVE  /\ Distinct(jobs')
         /\ \A k \in 1..Len(jobs') : \/ jobs'[k].pid \in ListedPids
                                     \/ /\ jobs'[k].pid = Fg_Proccss_Pid
                                        /\ Fg_Proccss_Pid' = Smash
                                     \/ /\ jobs'[k].pid = pid /\ pc \in Hidden
                                        /\ pc' \notin Hidden
                                        /\ Fg_Proccss_Pid' = Fg_Proccss_Pid
<1>t. /\ jobs \in Seq(Job) /\ Distinct(jobs)
      /\ Fg_Proccss_Pid \notin ListedPids
      /\ pc \in Hidden => pid \notin ListedPids
  BY IdTypes, ListedIs DEF OwnInv
<1>1. CASE \E S : Left(jobs', S)
  <2>1. PICK S : Left(jobs', S)
    BY <1>1
  <2>2. Distinct(jobs')
    BY <1>t, <2>1, LeftKeeps
  <2>3. ASSUME NEW k \in 1..Len(jobs') PROVE jobs'[k].pid \in ListedPids
    <3>1. PICK i \in 1..Len(jobs) : jobs'[k].pid = jobs[i].pid
      BY <1>t, <2>1, LeftJobs
    <3> QED BY <3>1 DEF ListedPids
  <2> QED BY <2>2, <2>3
<1>2. CASE /\ pc = "listing" /\ pc' = "prompt"
           /\ UNCHANGED Fg_Proccss_Pid
           /\ Appends(jobs, new_job_id, pid)
  <2>1. PICK j \in Job : j.pid = pid /\ jobs' = Append(jobs, j)
    BY <1>2 DEF Appends
  <2>2. pc \in Hidden /\ pc' \notin Hidden
    BY <1>2 DEF Hidden
  <2>3. \A i \in 1..Len(jobs) : jobs[i].pid # j.pid
    BY <1>t, <2>1, <2>2 DEF ListedPids
  <2>4. Distinct(jobs')
    BY <1>t, <2>1, <2>3, AppendKeeps
  <2>5. \A k \in 1..Len(jobs') :
          jobs'[k] = j \/ \E l \in 1..Len(jobs) : jobs'[k] = jobs[l]
    BY <1>t, <2>1, AppendKeeps
  <2> QED BY <1>2, <2>1, <2>2, <2>4, <2>5 DEF ListedPids
<1>3. CASE \E S, r : /\ Left(r, S)
                     /\ Fg_Proccss_Pid' = Smash
                     /\ Appends(r, NewId, Fg_Proccss_Pid)
  <2>1. PICK S, r : Left(r, S) /\ Appends(r, NewId, Fg_Proccss_Pid)
    BY <1>3
  <2>2. PICK j \in Job : j.pid = Fg_Proccss_Pid /\ jobs' = Append(r, j)
    BY <2>1 DEF Appends
  <2>3. r \in Seq(Job) /\ \A k \in 1..Len(r) : r[k].pid \in ListedPids
    BY <1>t, <2>1, LeftJobs DEF ListedPids
  <2>4. Distinct(r)
    BY <1>t, <2>1, LeftKeeps
  <2>5. \A k \in 1..Len(r) : r[k].pid # j.pid
    BY <1>t, <2>2, <2>3
  <2>6. Distinct(jobs')
    BY <2>2, <2>3, <2>4, <2>5, AppendKeeps
  <2>7. \A k \in 1..Len(jobs') :
          jobs'[k] = j \/ \E l \in 1..Len(r) : jobs'[k] = r[l]
    BY <2>2, <2>3, AppendKeeps
  <2> QED BY <1>3, <2>2, <2>3, <2>6, <2>7
<1> QED BY <1>1, <1>2, <1>3, StepJobs DEF JobsStep

\* Every step keeps OwnInv.
LEMMA StepOwn == ASSUME TypeInv, OwnInv, [Next]_vars PROVE OwnInv'
<1> SUFFICES ASSUME ~reuse PROVE OwnInv'
  BY ReuseStays DEF OwnInv
<1>o. /\ NoOther /\ Distinct(jobs) /\ Fg_Proccss_Pid \notin ListedPids
      /\ \A p \in ListedPids : p \in Pids /\ proc[p] # "free"
      /\ Fg_Proccss_Pid \in Pids => proc[Fg_Proccss_Pid] # "free"
      /\ pc \in Hidden => /\ pid \notin ListedPids /\ pid \in Pids
                          /\ pid # Fg_Proccss_Pid
                          /\ proc[pid] # "free"
      /\ jobs \in Seq(Job) /\ Smash \notin Pids
      /\ Fg_Proccss_Pid \in Pids \cup {Smash}
  <2>1. pc \in Hidden => pid \in Pids
    BY DEF TypeInv, Hidden, WithPid
  <2>2. \A p \in ListedPids : p \in Pids /\ proc[p] # "free"
    BY IdTypes DEF OwnInv, ListedPids
  <2>3. jobs \in Seq(Job) /\ \A p : Listed(p) <=> p \in ListedPids
    BY IdTypes, ListedIs
  <2>4. Fg_Proccss_Pid \in Pids \cup {Smash}
    BY DEF TypeInv, TypeOK
  <2> QED BY <2>1, <2>2, <2>3, <2>4, SmashAssumption DEF OwnInv, NoOther
<1>g. ProcGoesOn
  BY <1>o, StepProc
<1>d. /\ Distinct(jobs')
      /\ \A k \in 1..Len(jobs') : \/ jobs'[k].pid \in ListedPids
                                  \/ /\ jobs'[k].pid = Fg_Proccss_Pid
                                     /\ Fg_Proccss_Pid' = Smash
                                  \/ /\ jobs'[k].pid = pid /\ pc \in Hidden
                                     /\ pc' \notin Hidden
                                     /\ Fg_Proccss_Pid' = Fg_Proccss_Pid
  BY StepDistinct
<1>t. jobs' \in Seq(Job) /\ \A k \in 1..Len(jobs') : jobs'[k].pid \in Pids
  <2>1. TypeInv'
    BY StepType
  <2>2. jobs' \in Seq(Job)
    BY <2>1 DEF TypeInv, TypeOK
  <2>3. \A k \in 1..Len(jobs') : jobs'[k] \in Job
    BY <2>2
  <2> QED BY <2>2, <2>3 DEF Job
<1>l. \A p : Listed(p)' => \E k \in 1..Len(jobs') : jobs'[k].pid = p
  BY <1>t DEF Listed
<1>1. \A p \in Pids : proc'[p] # "other"
  BY <1>g DEF ProcGoesOn
<1>2. \A k \in 1..Len(jobs') : proc'[jobs'[k].pid] # "free"
  BY <1>o, <1>g, <1>d, <1>t DEF ProcGoesOn
<1>f. \/ Fg_Proccss_Pid' = Fg_Proccss_Pid
      \/ Fg_Proccss_Pid' = Smash
      \/ /\ pc \in Hidden /\ pc' \notin Hidden
         /\ Fg_Proccss_Pid' = pid /\ jobs' = jobs
  BY ForegroundSteps
<1>3. ~Listed(Fg_Proccss_Pid)'
  <2> SUFFICES ASSUME NEW k \in 1..Len(jobs'), jobs'[k].pid = Fg_Proccss_Pid'
               PROVE  FALSE
    BY <1>l
  <2>1. jobs'[k].pid \in Pids
    BY <1>t
  <2>2. CASE Fg_Proccss_Pid' = Fg_Proccss_Pid
    BY <1>o, <1>d, <2>1, <2>2
  <2>3. CASE Fg_Proccss_Pid' = pid /\ pc \in Hidden /\ jobs' = jobs
    BY <1>o, <2>3 DEF ListedPids
  <2> QED BY <1>o, <1>f, <2>1, <2>2, <2>3
<1>4. Fg_Proccss_Pid' \in Pids => proc'[Fg_Proccss_Pid'] # "free"
  BY <1>o, <1>g, <1>f DEF ProcGoesOn
<1>5. ASSUME pc' \in Hidden
      PROVE  /\ ~Listed(pid)'
             /\ pid' # Fg_Proccss_Pid'
             /\ proc'[pid'] # "free"
  <2>1. CASE \E p \in Pids : Fork(p)
    <3>1. PICK p \in Pids : Fork(p)
      BY <2>1
    <3>2. p \notin ListedPids /\ p # Fg_Proccss_Pid
      BY <1>o, <3>1 DEF Fork
    <3>3. pid' = p /\ jobs' = jobs /\ Fg_Proccss_Pid' = Fg_Proccss_Pid
      BY <3>1 DEF Fork
    <3>4. proc'[p] = "running"
      BY <3>1 DEF Fork, Become, TypeInv, TypeOK
    <3> QED BY <1>l, <3>2, <3>3, <3>4 DEF ListedPids
  <2>2. CASE \E i \in DOMAIN jobs : TakeJob(i)
    <3>1. PICK i \in DOMAIN jobs : TakeJob(i)
      BY <2>2
    <3>2. i \in 1..Len(jobs) /\ jobs[i].pid \in ListedPids
      BY <1>o DEF ListedPids
    <3>3. /\ pid' = jobs[i].pid /\ jobs' = Without(i)
          /\ Fg_Proccss_Pid' = Fg_Proccss_Pid
      BY <3>1 DEF TakeJob
    <3>4. ~Listed(pid)'
      <4>1. \A k \in 1..Len(jobs') : \E m \in (1..Len(jobs)) \ {i} :
              jobs'[k].pid = jobs[m].pid
        <5>1. Left(jobs', (1..Len(jobs)) \ {i})
          BY <1>o, <3>3, WithoutLeft
        <5> QED BY <1>o, <5>1, LeftKeeps
      <4> QED BY <1>o, <1>l, <3>2, <3>3, <4>1 DEF Distinct
    <3> QED BY <1>o, <1>g, <3>2, <3>3, <3>4 DEF ProcGoesOn
  <2>3. CASE pc \in Hidden /\ (Number \/ WaitReturns \/ Meanwhile \/ CtrlZ)
    <3>1. pid' = pid
      BY <2>3, MeanwhileKeeps, <1>5 DEF Number, WaitReturns, CtrlZ, Return, Hidden
    <3>2. ~Listed(pid)'
      BY <1>o, <1>d, <1>l, <1>5, <2>3, <3>1
    <3>3. Fg_Proccss_Pid' # pid
      BY <1>o, <1>f, <1>5, <2>3
    <3> QED BY <1>o, <1>g, <2>3, <3>1, <3>2, <3>3 DEF ProcGoesOn
  <2> QED BY <1>5, <2>1, <2>2, <2>3, HiddenSteps
<1> QED BY <1>1, <1>d, <1>2, <1>3, <1>4, <1>5 DEF OwnInv, Distinct

-----------------------------------------------------------------------------
(* Whom the commands signal *)

\* Waiting reaps no process that is alive.
LEMMA ReapedKeepsLiving ==
  ASSUME NEW procs, NEW p \in Pids, Alive(procs, p)
  PROVE  Reaped(procs)[p] = procs[p]
BY DEF Reaped, Alive

\* Every step keeps ListedAreChildren.
LEMMA StepChildren ==
  ASSUME TypeInv, OwnInv, ListedAreChildren, [Next]_vars
  PROVE  ListedAreChildren'
<1> SUFFICES ASSUME ~reuse, pc' = "command",
                    NEW k \in 1..Len(jobs')
             PROVE  proc'[jobs'[k].pid] \in {"running", "stopped", "zombie"}
  <2>1. jobs' \in Seq(Job)
    BY StepType DEF TypeInv, TypeOK
  <2>2. DOMAIN jobs' = 1..Len(jobs')
    BY <2>1
  <2> QED BY <2>2, ReuseStays DEF ListedAreChildren, IsChild
<1>t. /\ jobs \in Seq(Job) /\ DOMAIN jobs = 1..Len(jobs)
      /\ \A i \in 1..Len(jobs) : jobs[i].pid \in Pids
      /\ NoOther
      /\ proc \in [Pids -> States]
  <2>1. jobs \in Seq(Job)
    BY IdTypes
  <2> QED BY <2>1, IdTypes DEF OwnInv, NoOther, TypeInv, TypeOK, States
<1>1. CASE ReadLine
  <2>1. jobs' = Remaining(proc) /\ proc' = Reaped(proc)
    BY <1>1 DEF ReadLine, UpdateList
  <2> DEFINE S == {i \in 1..Len(jobs) : Alive(proc, jobs[i].pid)}
  <2>2. Left(jobs', S)
    BY <1>t, <2>1, RemainingLeft
  <2>3. PICK i \in S : jobs'[k].pid = jobs[i].pid
    <3> HIDE DEF S
    <3> QED BY <1>t, <2>2, LeftKeeps
  <2> QED BY <1>t, <2>1, <2>3, ReapedKeepsLiving DEF Alive
<1>2. CASE pc = "command" /\ Meanwhile
  <2>1. jobs' = jobs
    BY <1>2, MeanwhileKeeps
  <2>2. \A i \in 1..Len(jobs) :
          proc[jobs[i].pid] \in {"running", "stopped", "zombie"}
    BY <1>2, <1>t DEF ListedAreChildren, IsChild
  <2>3. CASE CtrlC
    <3>1. Fg_Proccss_Pid \in Pids
      BY <2>3 DEF CtrlC, TypeInv, TypeOK
    <3>2. PICK st \in {"running", "stopped", "zombie"} :
            proc' = Become(Fg_Proccss_Pid, st)
      BY <1>t, <2>3, <3>1, OutcomesOfChild DEF CtrlC
    <3> QED BY <1>t, <2>1, <2>2, <3>1, <3>2 DEF Become
  <2>4. CASE \E p \in Pids : ChildStep(p)
    <3>1. PICK p \in Pids, st \in {"running", "stopped", "zombie"} :
            proc' = Become(p, st)
      BY <2>4 DEF ChildStep
    <3> QED BY <1>t, <2>1, <2>2, <3>1 DEF Become
  <2>5. CASE UNCHANGED vars
    BY <2>1, <2>2, <2>5 DEF vars
  <2> QED BY <1>2, <2>3, <2>4, <2>5 DEF Meanwhile
<1>3. CASE pc = "command" /\ CtrlZ
  <2> DEFINE fg == Fg_Proccss_Pid
  <2>1. fg \in Pids /\ fg \notin ListedPids
    BY <1>3, <1>t, ListedIs DEF CtrlZ, TypeInv, TypeOK, OwnInv
  <2>0. PICK st \in Outcomes("STOP", fg) :
          \E r, j :
            /\ Left(r, {i \in 1..Len(jobs) :
                          Alive(Become(fg, st), jobs[i].pid)})
            /\ j \in Job /\ j.pid = fg /\ jobs' = Append(r, j)
            /\ proc' = Reaped(Become(fg, st))
    BY <1>3, CtrlZLists
  <2>2. PICK r, j :
          /\ Left(r, {i \in 1..Len(jobs) : Alive(Become(fg, st), jobs[i].pid)})
          /\ j \in Job /\ j.pid = fg /\ jobs' = Append(r, j)
          /\ proc' = Reaped(Become(fg, st))
    BY <2>0
  <2>3. st \in {"running", "stopped", "zombie"}
    BY <1>t, <2>1, <2>0, OutcomesOfChild
  <2>4. Become(fg, st)[fg] = st
    BY <1>t, <2>1 DEF Become
  <2>5. r \in Seq(Job)
    BY <2>2 DEF Left
  <2>6. jobs'[k] = j \/ \E l \in 1..Len(r) : jobs'[k] = r[l]
    BY <2>2, <2>5, AppendKeeps
  <2>7. CASE jobs'[k] = j
    <3>1. ~Listed(fg)
      BY <1>t, <2>1, ListedIs
    <3>2. proc'[fg] = st
      BY <2>1, <2>2, <2>4, <3>1 DEF Reaped
    <3> QED BY <2>2, <2>3, <2>7, <3>2
  <2>8. CASE \E l \in 1..Len(r) : jobs'[k] = r[l]
    <3> DEFINE S == {i \in 1..Len(jobs) : Alive(Become(fg, st), jobs[i].pid)}
    <3>1. Left(r, S)
      BY <2>2
    <3>2. PICK i \in S : jobs'[k].pid = jobs[i].pid
      <4> HIDE DEF S
      <4> QED BY <1>t, <2>8, <3>1, LeftKeeps
    <3> QED BY <1>t, <2>2, <3>2, ReapedKeepsLiving DEF Alive
  <2> QED BY <2>6, <2>7, <2>8
<1> QED BY <1>1, <1>2, <1>3, Entries

-----------------------------------------------------------------------------
(* The theorems *)

\* The invariant all of the following comes from.
LEMMA SmashInvariance == Spec => []SmashInv
<1>1. SmashInv /\ [Next]_vars => SmashInv'
  BY StepType, StepIds, StepWait, StepOwn, StepChildren DEF SmashInv
<1> QED BY InitInv, <1>1, PTL DEF Spec

\* Every variable of the shell keeps its type: in particular a command that
\* was interrupted works on with a process of the shell, never with its own.
THEOREM TypeCorrect == Spec => []TypeOK
<1>1. SmashInv => TypeOK
  BY DEF SmashInv, TypeInv
<1> QED BY SmashInvariance, <1>1, PTL

\* kill, bg and fg signal children of the shell only, as long as no pid is
\* given out again.
THEOREM OnlyChildrenSignalled == Spec => []ListedAreChildren
<1>1. SmashInv => ListedAreChildren
  BY DEF SmashInv
<1> QED BY SmashInvariance, <1>1, PTL

\* A process is one job at most, and none while ctrl-Z could make it one.
THEOREM NobodyListedTwice == Spec => []ListedOnce
<1>1. SmashInv => ListedOnce
  <2> SUFFICES ASSUME SmashInv PROVE ListedOnce
    OBVIOUS
  <2>1. jobs \in Seq(Job)
    BY IdTypes DEF SmashInv
  <2>2. DOMAIN jobs = 1..Len(jobs)
    BY <2>1
  <2> QED BY <2>2 DEF SmashInv, OwnInv, Distinct, ListedOnce
<1> QED BY SmashInvariance, <1>1, PTL

\* fg without an id takes the job with the greatest id: the list is sorted.
THEOREM LastIsGreatest == Spec => []LastJobHasMaxId
<1>1. SmashInv => LastJobHasMaxId
  <2> SUFFICES ASSUME SmashInv PROVE LastJobHasMaxId
    OBVIOUS
  <2>1. jobs \in Seq(Job)
    BY IdTypes DEF SmashInv
  <2>2. DOMAIN jobs = 1..Len(jobs)
    BY <2>1
  <2> QED BY <2>2 DEF SmashInv, IdInv, Sorted, LastJobHasMaxId
<1> QED BY SmashInvariance, <1>1, PTL

\* The process main waits for is the one ctrl-C and ctrl-Z reach, or a job.
THEOREM WaitedForReachable == Spec => []WaitedForIsKnown
<1>1. SmashInv => WaitedForIsKnown
  BY DEF SmashInv, WaitInv, WaitedForIsKnown
<1> QED BY SmashInvariance, <1>1, PTL

\* A list from which some jobs went keeps those at the other positions.
LEMMA StillListed ==
  ASSUME jobs \in Seq(Job), NEW r, NEW S, Left(r, S), NEW i \in S
  PROVE  \E k \in 1..Len(r) : r[k].pid = jobs[i].pid
BY LeftKeeps

\* Whom a step drops from the list.
LEMMA Dropped ==
  ASSUME TypeInv, [Next]_vars
  PROVE  \/ \A p \in Pids : Listed(p) /\ Alive(proc, p) => Listed(p)'
         \/ /\ pc \in {"command", "poll"}
            /\ \E i : \A p \in Pids : Listed(p) /\ ~Listed(p)' => p = jobs[i].pid
<1>t. /\ jobs \in Seq(Job) /\ DOMAIN jobs = 1..Len(jobs)
      /\ jobs' \in Seq(Job) /\ DOMAIN jobs' = 1..Len(jobs')
  <2>1. jobs \in Seq(Job) /\ jobs' \in Seq(Job)
    BY StepType DEF TypeInv, TypeOK
  <2> QED BY <2>1
<1>1. CASE ReadLine \/ Jobs \/ Number
  <2>1. jobs' = Remaining(proc)
    BY <1>1 DEF ReadLine, Jobs, Number, UpdateList
  <2>2. Left(jobs', {m \in 1..Len(jobs) : Alive(proc, jobs[m].pid)})
    BY <1>t, <2>1, RemainingLeft
  <2>3. ASSUME NEW p \in Pids, Listed(p), Alive(proc, p) PROVE Listed(p)'
    <3>1. PICK i \in 1..Len(jobs) : jobs[i].pid = p
      BY <1>t, <2>3 DEF Listed
    <3>2. \E k \in 1..Len(jobs') : jobs'[k].pid = p
      BY <1>t, <2>2, <2>3, <3>1, StillListed
    <3> QED BY <1>t, <3>2 DEF Listed
  <2> QED BY <2>3
<1>2. CASE \E S : Left(jobs', S) /\ S = 1..Len(jobs)
  <2>1. \A i \in 1..Len(jobs) :
          \E k \in 1..Len(jobs') : jobs'[k].pid = jobs[i].pid
    BY <1>2, <1>t, StillListed
  <2> QED BY <1>t, <2>1 DEF Listed
<1>3. CASE pc \in {"command", "poll"} /\ \E i : jobs' = Without(i)
  <2>1. PICK i : jobs' = Without(i)
    BY <1>3
  <2>2. Left(jobs', (1..Len(jobs)) \ {i})
    BY <1>t, <2>1, WithoutLeft
  <2>3. \A m \in (1..Len(jobs)) \ {i} :
          \E k \in 1..Len(jobs') : jobs'[k].pid = jobs[m].pid
    BY <1>t, <2>2, StillListed
  <2>4. \A p \in Pids : Listed(p) /\ ~Listed(p)' => p = jobs[i].pid
    BY <1>t, <2>3 DEF Listed
  <2> QED BY <1>3, <2>4
<1>4. CASE List
  <2>1. PICK j \in Job : jobs' = Append(jobs, j)
    <3>1. [id |-> new_job_id, pid |-> pid, state |-> "background"] \in Job
      BY <1>4 DEF List, Job, TypeInv, TypeOK, WithPid
    <3> QED BY <1>4, <3>1 DEF List
  <2>2. \A l \in 1..Len(jobs) : \E k \in 1..Len(jobs') : jobs'[k] = jobs[l]
    BY <1>t, <2>1, AppendKeeps
  <2> QED BY <1>t, <2>2 DEF Listed
<1>5. CASE CtrlZ
  <2> DEFINE fg == Fg_Proccss_Pid
  <2>0. PICK st \in Outcomes("STOP", fg) :
          \E r, j :
            /\ Left(r, {i \in 1..Len(jobs) :
                          Alive(Become(fg, st), jobs[i].pid)})
            /\ j \in Job /\ j.pid = fg /\ jobs' = Append(r, j)
    BY <1>5, CtrlZLists
  <2>1. PICK r, j :
          /\ Left(r, {i \in 1..Len(jobs) : Alive(Become(fg, st), jobs[i].pid)})
          /\ j \in Job /\ j.pid = fg /\ jobs' = Append(r, j)
    BY <2>0
  <2>2. r \in Seq(Job)
    BY <2>1 DEF Left
  <2>3. /\ \E k \in 1..Len(jobs') : jobs'[k] = j
        /\ \A l \in 1..Len(r) : \E k \in 1..Len(jobs') : jobs'[k] = r[l]
    BY <2>1, <2>2, AppendKeeps
  <2>4. ASSUME NEW p \in Pids, Listed(p), Alive(proc, p) PROVE Listed(p)'
    <3>1. PICK i \in 1..Len(jobs) : jobs[i].pid = p
      BY <1>t, <2>4 DEF Listed
    <3>2. CASE p = fg
      BY <1>t, <2>1, <2>3, <3>2 DEF Listed
    <3>3. CASE p # fg
      <4>1. Alive(Become(fg, st), p)
        BY <2>4, <3>3 DEF Alive, Become, TypeInv, TypeOK
      <4>2. \E l \in 1..Len(r) : r[l].pid = p
        BY <1>t, <2>1, <3>1, <4>1, StillListed
      <4> QED BY <1>t, <2>3, <4>2 DEF Listed
    <3> QED BY <3>2, <3>3
  <2> QED BY <2>4
<1>6. CASE \E i \in DOMAIN jobs, sig \in Signals : Kill(i, sig)
  <2>1. PICK i \in DOMAIN jobs, sig \in Signals : Kill(i, sig)
    BY <1>6
  <2>2. CASE sig \in {"KILL", "TERM"}
    BY <1>3, <2>1, <2>2 DEF Kill, AfterKill
  <2>3. CASE sig \notin {"KILL", "TERM"}
    <3>1. Left(jobs', 1..Len(jobs))
      <4>1. jobs' = AfterKill(i, sig)
        BY <2>1 DEF Kill
      <4>2. CASE sig \in {"STOP", "TSTP", "IOT"}
        BY <1>t, <2>1, <4>1, <4>2, StateLeft DEF AfterKill
      <4>3. CASE sig = "CONT"
        BY <1>t, <2>1, <4>1, <4>3, StateLeft DEF AfterKill
      <4>4. CASE sig = "USR1"
        BY <1>t, <2>1, <4>1, <4>4, SameLeft DEF AfterKill
      <4> QED BY <2>3, <4>2, <4>3, <4>4 DEF Signals
    <3> QED BY <1>2, <3>1
  <2> QED BY <2>2, <2>3
<1>7. CASE \E i \in DOMAIN jobs : Continue(i)
  BY <1>2, <1>7, <1>t, StateLeft DEF Continue
<1>8. CASE \E i \in DOMAIN jobs : FgJob(i) \/ FgLast(i) \/ FgFails(i)
  BY <1>3, <1>8 DEF FgJob, FgLast, FgFails, TakeJob
<1>9. CASE TakenForDead \/ KillHard
  <2>1. pc = "poll" /\ (jobs' = jobs \/ \E i : jobs' = Without(i))
    BY <1>9 DEF TakenForDead, KillHard, EraseAndGoOn
  <2> QED BY <1>2, <1>3, <1>t, <2>1, SameLeft
<1>10. CASE ~ListActions
  BY <1>2, <1>10, <1>t, OtherActions, SameLeft
<1> QED BY <1>1, <1>4, <1>5, <1>6, <1>7, <1>8, <1>9, <1>10 DEF ListActions

\* A job whose process lives leaves the list by a command only, one at a time.
THEOREM JobsRemembered == Spec => Remembered
<1>1. TypeInv /\ [Next]_vars =>
        [\A p \in Pids :
           Listed(p) /\ Alive(proc, p) /\ ~Listed(p)' =>
             /\ pc \in {"command", "poll"}
             /\ \A q \in Pids \ {p} :
                  Listed(q) /\ Alive(proc, q) => Listed(q)']_vars
  BY Dropped
<1>2. SmashInv => TypeInv
  BY DEF SmashInv
<1> QED BY SmashInvariance, <1>1, <1>2, PTL DEF Remembered, Spec
=============================================================================
