------------------------------- MODULE Smash -------------------------------
(***************************************************************************)
(* The shell of HW1: its list of jobs, the commands that work on it, and   *)
(* the handlers of ctrl-C and ctrl-Z, which may interrupt a command.  The  *)
(* child processes exit, stop and go on by themselves or because others    *)
(* signal them.                                                            *)
(*                                                                         *)
(* A step is a command up to the next call that waits or whose outcome a   *)
(* handler could change.  Handlers run between such steps, never inside a  *)
(* change of the list, where they would corrupt it.                        *)
(***************************************************************************)
EXTENDS Naturals, Sequences

CONSTANTS
  Pids,    \* the process ids the children of the shell may get
  Twice,   \* bound: the pids that may be given out again
  Smash,   \* smash_pid
  MaxJobs, \* 100: more jobs are not listed when they start in the background
  MaxId    \* bound on the ids of jobs

ASSUME SmashAssumption == Smash \notin Pids
ASSUME TwiceAssumption == Twice \subseteq Pids
ASSUME BoundsAssumption == MaxJobs \in Nat /\ MaxId \in Nat

\* Signals kill may send, of which TERM stands for HUP, INT and BUS, too, and
\* USR1 for those smash does not know.
Signals == {"STOP", "TSTP", "IOT", "KILL", "TERM", "CONT", "USR1"}

VARIABLES
  reuse,           \* whether in this run what is given back, a pid or a node
                   \* of the list, may be given out again: never changes
  proc,            \* what the process of each pid is
  pc,              \* where main is
  jobs,            \* [id, pid, state] of each job
  Fg_Proccss_Pid,
  pid,             \* pID after fork; list_it->process_id in fg and quit kill
  awaited,         \* the process a blocking waitpid waits for
  new_job_id,
  signaled         \* WIFSIGNALED(status) in quit kill

locals == <<pid, awaited, new_job_id, signaled>>
vars   == <<reuse, proc, pc, jobs, Fg_Proccss_Pid, locals>>

Job == [id : 1..MaxId, pid : Pids, state : {"background", "stop"}]

TypeOK ==
  /\ reuse \in BOOLEAN
  /\ proc \in [Pids -> {"free",    \* nobody's
                        "running", "stopped", \* a child of the shell
                        "zombie",  \* a child that has ended, not yet reaped
                        "gone",    \* a child that was reaped
                        "other"}]  \* a process that is no child
  /\ pc \in {"prompt", "command", "forked", "forked_bg", "listing", "fg_id",
             "wait", "fg_wait", "fg_done", "quit", "poll", "exited"}
  /\ jobs \in Seq(Job)
  /\ Fg_Proccss_Pid \in Pids \cup {Smash}
  /\ pid \in Pids \cup {Smash}
  /\ awaited \in Pids \cup {Smash}
  /\ new_job_id \in 0..MaxId
  /\ signaled \in BOOLEAN

Init ==
  /\ reuse \in BOOLEAN
  /\ proc = [p \in Pids |-> "free"]
  /\ pc = "prompt"
  /\ jobs = <<>>
  /\ Fg_Proccss_Pid = Smash
  /\ pid = Smash
  /\ awaited = Smash
  /\ new_job_id = 0
  /\ signaled = FALSE

-----------------------------------------------------------------------------
(* Processes *)

Alive(procs, p) == procs[p] \in {"running", "stopped"}
IsChild(p)      == proc[p] \in {"running", "stopped", "zombie"}
Exists(p)       == IsChild(p) \/ proc[p] = "other" \* kill succeeds

\* What becomes of p when signal sig is sent to it: a process may handle or
\* ignore most of them, and a stopped one handles nothing until it goes on.
Outcomes(sig, p) ==
  CASE proc[p] = "other"    -> {"other", "gone"}
    [] proc[p] = "zombie"   -> {"zombie"}
    [] sig = "KILL"         -> {"zombie"}
    [] sig = "STOP"         -> {"stopped"}
    [] sig = "CONT"         -> {"running"}
    [] proc[p] = "stopped"  -> {"stopped"}
    [] sig = "TSTP"         -> {"running", "stopped"}
    [] OTHER                -> {"running", "zombie"}

\* proc once p has become s.
Become(p, s) == [proc EXCEPT ![p] = s]

-----------------------------------------------------------------------------
(* The list of jobs *)

Listed(p) == \E i \in DOMAIN jobs : jobs[i].pid = p

\* What is left of s when all but the elements at the positions in S are erased.
Select(s, S) ==
  LET upTo[n \in 0..Len(s)] ==
        IF n = 0 THEN <<>>
        ELSE IF n \in S THEN Append(upTo[n - 1], s[n]) ELSE upTo[n - 1]
  IN  upTo[Len(s)]

\* Fault: a stopped job is taken for one that has ended.
RunningOnly(procs) ==
  Select(jobs, {i \in DOMAIN jobs : procs[jobs[i].pid] = "running"})

\* update_list when the processes are procs: every job is erased for which
\* waitpid returns its pid, now reaped, or an error.
Remaining(procs) ==
  Select(jobs, {i \in DOMAIN jobs : Alive(procs, jobs[i].pid)})
Reaped(procs) ==
  [p \in Pids |->
     IF Listed(p) /\ procs[p] = "zombie" THEN "gone" ELSE procs[p]]

UpdateList == jobs' = Remaining(proc) /\ proc' = Reaped(proc)

Without(i) == Select(jobs, DOMAIN jobs \ {i})

\* One more than the id of the last job.  In an empty list --end() is the head
\* of the list, where libstdc++ keeps the size, 0, at the place of the id.
NewId == IF jobs = <<>> THEN 1 ELSE jobs[Len(jobs)].id + 1

\* The job a search for its id finds: the first one that has it.
IsFirst(i) == \A k \in 1..(i - 1) : jobs[k].id # jobs[i].id

-----------------------------------------------------------------------------
(* Commands.  The shell reads a line and updates the list before it. *)

\* Fault: the list is not updated before a command.
ReadLineOnly ==
  /\ pc = "prompt"
  /\ pc' = "command"
  /\ UNCHANGED <<reuse, proc, jobs, Fg_Proccss_Pid, locals>>

ReadLine ==
  /\ pc = "prompt"
  /\ UpdateList
  /\ pc' = "command"
  /\ UNCHANGED <<reuse, Fg_Proccss_Pid, locals>>

\* The locals of a command end with it.
Return ==
  /\ pc' = "prompt"
  /\ pid' = Smash /\ awaited' = Smash /\ new_job_id' = 0 /\ signaled' = FALSE

Jobs ==
  /\ pc = "command"
  /\ UpdateList
  /\ Return
  /\ UNCHANGED <<reuse, Fg_Proccss_Pid>>

\* A command with a wrong argument, or one that works on no process.
Nothing ==
  /\ pc = "command"
  /\ Return
  /\ UNCHANGED <<reuse, proc, jobs, Fg_Proccss_Pid>>

\* What kill makes of job i: it takes the signal's effect for granted.
AfterKill(i, sig) ==
  CASE sig \in {"STOP", "TSTP", "IOT"} -> [jobs EXCEPT ![i].state = "stop"]
    [] sig = "CONT" -> [jobs EXCEPT ![i].state = "background"]
    [] sig \in {"KILL", "TERM"} -> Without(i)
    [] OTHER -> jobs

Kill(i, sig) ==
  /\ pc = "command"
  /\ IsFirst(i)
  /\ Exists(jobs[i].pid)
  /\ \E s \in Outcomes(sig, jobs[i].pid) : proc' = Become(jobs[i].pid, s)
  /\ jobs' = AfterKill(i, sig)
  /\ Return
  /\ UNCHANGED <<reuse, Fg_Proccss_Pid>>

\* bg of job i.
Continue(i) ==
  /\ pc = "command"
  /\ jobs[i].state = "stop"
  /\ Exists(jobs[i].pid)
  /\ \E s \in Outcomes("CONT", jobs[i].pid) : proc' = Become(jobs[i].pid, s)
  /\ jobs' = [jobs EXCEPT ![i].state = "background"]
  /\ Return
  /\ UNCHANGED <<reuse, Fg_Proccss_Pid>>

\* The stopped job bg picks when it is given no id.
IsMaxStopped(i) ==
  LET stopped == {k \in DOMAIN jobs : jobs[k].state = "stop"}
  IN  /\ i \in stopped
      /\ \A k \in stopped : jobs[k].id <= jobs[i].id
      /\ \A k \in stopped : k < i => jobs[k].id < jobs[i].id

Bg(i) == (IsFirst(i) \/ IsMaxStopped(i)) /\ Continue(i)

\* fg erases the job first, and works on with the freed node.
TakeJob(i) ==
  /\ pc = "command"
  /\ Exists(jobs[i].pid)
  /\ jobs' = Without(i)
  /\ \E s \in Outcomes("CONT", jobs[i].pid) : proc' = Become(jobs[i].pid, s)
  /\ pid' = jobs[i].pid
  /\ UNCHANGED <<reuse, Fg_Proccss_Pid, new_job_id, signaled>>

\* fg with an id.
FgJob(i) ==
  /\ TakeJob(i)
  /\ IsFirst(i)
  /\ pc' = "fg_id"
  /\ UNCHANGED awaited

\* fg without one takes the last job, waits, and only then names it.
FgLast(i) ==
  /\ TakeJob(i)
  /\ i = Len(jobs)
  /\ pc' = "fg_wait"
  /\ awaited' = jobs[i].pid

\* kill fails: the job is erased all the same.
FgFails(i) ==
  /\ pc = "command"
  /\ IsFirst(i) \/ i = Len(jobs)
  /\ ~Exists(jobs[i].pid)
  /\ jobs' = Without(i)
  /\ Return
  /\ UNCHANGED <<reuse, proc, Fg_Proccss_Pid>>

FgDone ==
  /\ pc = "fg_done"
  /\ Fg_Proccss_Pid' = pid
  /\ Return
  /\ UNCHANGED <<reuse, proc, jobs>>

\* An external command.
Fork(p) ==
  /\ pc = "command"
  /\ proc[p] = "free"
  /\ proc' = Become(p, "running")
  /\ pid' = p
  /\ pc' \in {"forked", "forked_bg"}
  /\ UNCHANGED <<reuse, jobs, Fg_Proccss_Pid, awaited, new_job_id, signaled>>

\* Fault: the foreground process is named after the wait, as in FgLast.
WaitsUnnamed ==
  /\ pc \in {"forked", "fg_id"}
  /\ awaited' = pid
  /\ pc' = "wait"
  /\ UNCHANGED <<reuse, proc, jobs, Fg_Proccss_Pid, pid, new_job_id, signaled>>

\* In the foreground, as fg with an id.
StartWait ==
  /\ pc \in {"forked", "fg_id"}
  /\ Fg_Proccss_Pid' = pid
  /\ awaited' = pid
  /\ pc' = "wait"
  /\ UNCHANGED <<reuse, proc, jobs, pid, new_job_id, signaled>>

\* waitpid returns when the child stops or has ended.
WaitReturns ==
  /\ pc \in {"wait", "fg_wait"}
  /\ proc[awaited] # "running"
  /\ proc' = IF proc[awaited] = "zombie" THEN Become(awaited, "gone") ELSE proc
  /\ IF pc = "wait"
     THEN Return
     ELSE /\ pc' = "fg_done" /\ awaited' = Smash
          /\ UNCHANGED <<pid, new_job_id, signaled>>
  /\ UNCHANGED <<reuse, jobs, Fg_Proccss_Pid>>

\* Fault: the new job is counted before it is in the list.
NumbersTooHigh ==
  /\ pc = "forked_bg"
  /\ Len(jobs) < MaxJobs /\ NewId <= MaxId
  /\ new_job_id' = NewId + 1
  /\ UpdateList
  /\ pc' = "listing"
  /\ UNCHANGED <<reuse, Fg_Proccss_Pid, pid, awaited, signaled>>

\* In the background: the child gets a number, unless there are too many.
Number ==
  /\ pc = "forked_bg"
  /\ Len(jobs) < MaxJobs /\ NewId <= MaxId
  /\ new_job_id' = NewId
  /\ UpdateList
  /\ pc' = "listing"
  /\ UNCHANGED <<reuse, Fg_Proccss_Pid, pid, awaited, signaled>>

Unlisted ==
  /\ pc = "forked_bg"
  /\ Len(jobs) >= MaxJobs
  /\ Return
  /\ UNCHANGED <<reuse, proc, jobs, Fg_Proccss_Pid>>

\* Fault: push_front for push_back.
ListsFirst ==
  /\ pc = "listing"
  /\ jobs' = <<[id |-> new_job_id, pid |-> pid,
                state |-> "background"]>> \o jobs
  /\ Return
  /\ UNCHANGED <<reuse, proc, Fg_Proccss_Pid>>

List ==
  /\ pc = "listing"
  /\ jobs' = Append(jobs, [id |-> new_job_id, pid |-> pid,
                           state |-> "background"])
  /\ Return
  /\ UNCHANGED <<reuse, proc, Fg_Proccss_Pid>>

-----------------------------------------------------------------------------
(* quit kill goes through the list from its head.  Nothing initialises     *)
(* status, and every turn of the loop finds the value of the last one.     *)

Quit ==
  /\ pc = "command"
  /\ pc' = "exited"
  /\ UNCHANGED <<reuse, proc, jobs, Fg_Proccss_Pid, locals>>

QuitKill ==
  /\ pc = "command"
  /\ jobs # <<>>
  /\ pid' = Head(jobs).pid
  /\ signaled' \in BOOLEAN
  /\ pc' = "quit"
  /\ UNCHANGED <<reuse, proc, jobs, Fg_Proccss_Pid, awaited, new_job_id>>

\* SIGTERM, and one look whether it has ended the process already.
Terminate ==
  /\ pc = "quit"
  /\ Exists(pid)
  /\ \E s \in Outcomes("TERM", pid) :
       IF s = "zombie"
       THEN proc' = Become(pid, "gone") /\ signaled' \in BOOLEAN
       ELSE proc' = Become(pid, s) /\ UNCHANGED signaled
  /\ pc' = "poll"
  /\ UNCHANGED <<reuse, jobs, Fg_Proccss_Pid, pid, awaited, new_job_id>>

\* The job is erased; the next one's turn, or the end of the program.  If a
\* handler has erased it before, erasing it again ends the program.
EraseAndGoOn ==
  \/ ~Listed(pid) /\ pc' = "exited" /\ UNCHANGED <<jobs, pid>>
  \/ \E i \in DOMAIN jobs :
       /\ jobs[i].pid = pid
       /\ \A k \in 1..(i - 1) : jobs[k].pid # pid
       /\ jobs' = Without(i)
       /\ IF i = Len(jobs)
          THEN pc' = "exited" /\ UNCHANGED pid
          ELSE pc' = "quit" /\ pid' = jobs[i + 1].pid

\* WIFSIGNALED(status): taken for the end of the process.
TakenForDead ==
  /\ pc = "poll" /\ signaled
  /\ EraseAndGoOn
  /\ UNCHANGED <<reuse, proc, Fg_Proccss_Pid, awaited, new_job_id, signaled>>

\* After five seconds.
KillHard ==
  /\ pc = "poll" /\ ~signaled
  /\ Exists(pid)
  /\ \E s \in Outcomes("KILL", pid) : proc' = Become(pid, s)
  /\ EraseAndGoOn
  /\ UNCHANGED <<reuse, Fg_Proccss_Pid, awaited, new_job_id, signaled>>

\* Fault: continue for return.
TriesAgain ==
  /\ pc = "quit" \/ (pc = "poll" /\ ~signaled)
  /\ ~Exists(pid)
  /\ pc' = "quit"
  /\ UNCHANGED <<reuse, proc, jobs, Fg_Proccss_Pid, locals>>

\* The process has been reaped: kill fails and quit kill ends.
KillFails ==
  /\ pc = "quit" \/ (pc = "poll" /\ ~signaled)
  /\ ~Exists(pid)
  /\ Return
  /\ UNCHANGED <<reuse, proc, jobs, Fg_Proccss_Pid>>

-----------------------------------------------------------------------------
(* The handlers.  Nobody sets Fg_Proccss_Pid back when a foreground process *)
(* ends, so it may name one that is gone, or another with the same pid.     *)

CtrlC ==
  /\ pc # "exited"
  /\ Fg_Proccss_Pid # Smash
  /\ Exists(Fg_Proccss_Pid)
  /\ \E s \in Outcomes("KILL", Fg_Proccss_Pid) :
       proc' = Become(Fg_Proccss_Pid, s)
  /\ UNCHANGED <<reuse, pc, jobs, Fg_Proccss_Pid, locals>>

\* list_it is at a node that was freed: by fg, or by the update_list of the
\* handler in the midst of quit kill.
IsFreed(procs) ==
  \/ pc \in {"fg_id", "fg_wait", "fg_done"}
  \/ pc \in {"quit", "poll"} /\ ~Alive(procs, pid)

\* Fault: Fg_Proccss_Pid keeps the process that is now a job.
StaysForeground ==
  /\ pc # "exited"
  /\ Fg_Proccss_Pid # Smash
  /\ Exists(Fg_Proccss_Pid) /\ NewId <= MaxId
  /\ \E s \in Outcomes("STOP", Fg_Proccss_Pid) :
       LET procs == Become(Fg_Proccss_Pid, s)
       IN  /\ jobs' = Append(Remaining(procs),
                             [id |-> NewId, pid |-> Fg_Proccss_Pid,
                              state |-> "stop"])
           /\ proc' = Reaped(procs)
  /\ UNCHANGED <<reuse, pc, Fg_Proccss_Pid, locals>>

\* The process is stopped and becomes a job.  The new job may get the node
\* that was freed, which list_it still reads.
CtrlZ ==
  /\ pc # "exited"
  /\ Fg_Proccss_Pid # Smash
  /\ Exists(Fg_Proccss_Pid) /\ NewId <= MaxId
  /\ \E s \in Outcomes("STOP", Fg_Proccss_Pid) :
       LET procs == Become(Fg_Proccss_Pid, s)
       IN  /\ jobs' = Append(Remaining(procs),
                             [id |-> NewId, pid |-> Fg_Proccss_Pid,
                              state |-> "stop"])
           /\ proc' = Reaped(procs)
           /\ pid' = pid \/ (reuse /\ IsFreed(procs) /\ pid' = Fg_Proccss_Pid)
  /\ Fg_Proccss_Pid' = Smash
  /\ UNCHANGED <<reuse, pc, awaited, new_job_id, signaled>>

-----------------------------------------------------------------------------
(* The other processes and the kernel *)

\* A child ends, stops, or is continued by somebody else.
ChildStep(p) ==
  /\ \E s \in CASE proc[p] = "running" -> {"zombie", "stopped"}
              [] proc[p] = "stopped" -> {"running", "zombie"}
              [] OTHER -> {} : proc' = Become(p, s)
  /\ UNCHANGED <<reuse, pc, jobs, Fg_Proccss_Pid, locals>>

\* The pid of a child that was reaped is given to another process.
Recycle(p) ==
  /\ reuse
  /\ \E s \in CASE proc[p] = "gone" -> {"free", "other"}
              [] proc[p] = "other" -> {"gone"}
              [] OTHER -> {} : proc' = Become(p, s)
  /\ UNCHANGED <<reuse, pc, jobs, Fg_Proccss_Pid, locals>>

-----------------------------------------------------------------------------
Command ==
  \/ Jobs \/ Nothing \/ Quit \/ QuitKill
  \/ \E i \in DOMAIN jobs :
       \/ \E sig \in Signals : Kill(i, sig)
       \/ Bg(i) \/ FgJob(i) \/ FgLast(i) \/ FgFails(i)
  \/ \E p \in Pids : Fork(p)

\* main between the line it has read and the next prompt.
ShellStep ==
  \/ StartWait \/ WaitReturns \/ FgDone
  \/ Number \/ Unlisted \/ List
  \/ Terminate \/ TakenForDead \/ KillHard \/ KillFails

Next ==
  \/ ReadLine \/ Command \/ ShellStep
  \/ CtrlC \/ CtrlZ
  \/ \E p \in Pids : ChildStep(p)
  \/ \E p \in Twice : Recycle(p)

Spec == Init /\ [][Next]_vars

\* The user need not type anything, no child need ever end: only main runs on.
FairSpec == Spec /\ WF_vars(ShellStep)

-----------------------------------------------------------------------------
(* Properties *)

\* The pids that kill, bg and fg signal are those of children that have not
\* been reaped, so that no stranger is signalled; whatever has been reaped or
\* killed, and whichever handlers ran, since the list was last looked at.
ListedAreChildren ==
  pc = "command" /\ ~reuse => \A i \in DOMAIN jobs : IsChild(jobs[i].pid)

\* A process is one job at most, and none while ctrl-Z could make it one:
\* Fg_Proccss_Pid is given up when its process is listed, and a job is erased
\* before it becomes Fg_Proccss_Pid.
ListedOnce ==
  ~reuse =>
    /\ \A i, k \in DOMAIN jobs : jobs[i].pid = jobs[k].pid => i = k
    /\ ~Listed(Fg_Proccss_Pid)

\* "max job->id in list": fg takes the last job for the one with the greatest
\* id, although an id is computed before update_list and a handler may list a
\* job between the two.
LastJobHasMaxId ==
  \A i, k \in DOMAIN jobs : i <= k => jobs[i].id <= jobs[k].id

\* The process that main waits for can be interrupted, or ctrl-Z has listed
\* it: the terminal is never lost to a child nobody can reach.  fg without an
\* id does not give this, it waits first (fg_wait).
WaitedForIsKnown ==
  pc = "wait" => Fg_Proccss_Pid = awaited \/ Listed(awaited)

\* A job whose process lives leaves the list only by a command of the user,
\* and one at a time: no look at the list drops a child that is merely slow or
\* stopped.
Remembered ==
  [][\A p \in Pids :
       Listed(p) /\ Alive(proc, p) /\ ~Listed(p)' =>
         /\ pc \in {"command", "poll"}
         /\ \A q \in Pids \ {p} :
              Listed(q) /\ Alive(proc, q) => Listed(q)']_vars

\* quit kill comes to an end, whatever the jobs do with SIGTERM and although
\* ctrl-Z may add a job to the list it goes through.
QuitEnds == pc = "quit" ~> pc \in {"exited", "prompt"}

\* "child procces was terminated": when quit kill finds WIFSIGNALED(status),
\* the job it looks at is dead.  The code does not ensure it: nothing sets
\* status when the job is still alive.
TerminatedIsDead == pc = "poll" /\ signaled => ~Alive(proc, pid)

=============================================================================
