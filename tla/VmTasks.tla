------------------------------ MODULE VmTasks -------------------------------
(***************************************************************************)
(* Calls of the tools (tools/vm.ts, tools/snapshots.ts) and of the library *)
(* (skill/lib/index.ts) on one VM: each finds the node, asks PVE for one   *)
(* step after the other and polls the task, or the process in the guest,   *)
(* that the step started (pve-api.ts).  PVE runs what it was asked for in  *)
(* its own time, also after the caller has given up, and the VM may be     *)
(* migrated, powered off or changed by another call between any two steps. *)
(*                                                                         *)
(* A request is two steps: PVE looks at the VM (Serve, Refuse), and the    *)
(* caller hears of it (Handle).  Time is relative to each call, in ticks.  *)
(***************************************************************************)
EXTENDS Naturals, Sequences, FiniteSets

CONSTANTS Call, Node,
          Allowed,                     \* call -> the operations it may be of
          Interval, TaskTimeout,       \* waitForTask
          MinDelay, MaxDelay, ExecTimeout,  \* guestExec
          WaitTimeout                  \* waitFor, which sleeps for Interval too

ASSUME TimeAssumption ==
  /\ Interval \in Nat \ {0} /\ MinDelay \in Nat \ {0} /\ MaxDelay \in Nat \ {0}
  /\ MinDelay <= MaxDelay
  /\ TaskTimeout \in Nat \ {0} /\ ExecTimeout \in Nat \ {0} /\ WaitTimeout \in Nat \ {0}

VARIABLES
  vm,      \* external: [node, state, snap: does the snapshot exist?]
  jobs,    \* external: tasks and processes in the guest, a UPID or PID is an index
  plan,    \* call -> the kinds of its steps
  pc,      \* call -> where it is
  step,    \* call -> the step of the plan it is at
  node,    \* call -> resolvedNode
  answer,  \* call -> what came back for the request under way
  again,   \* call -> is the request a second try, after a 403?
  job,     \* call -> upid or pid, 0 for none
  seen,    \* call -> what the last answer said
  polls,   \* call -> polls of the task so far (i)
  sleep,   \* call -> ticks until its timer fires
  delay,   \* call -> delay
  waited,  \* call -> ticks since its deadline was set, up to Horizon
  looked,  \* ghost: call -> waited when the last poll was served
  result   \* call -> how it ended

request == <<node, answer, again, job, seen>>
clock   == <<polls, sleep, delay, waited, looked>>
vars == <<vm, jobs, plan, pc, step, request, clock, result>>

Least(a, b) == IF a < b THEN a ELSE b

\* Mutant: rounded down.
AttemptsFloor == TaskTimeout \div Interval
\* maxAttempts of waitForTask.
Attempts == (TaskTimeout + Interval - 1) \div Interval
Horizon  == CHOOSE h \in {TaskTimeout, ExecTimeout, WaitTimeout} :
              \A t \in {TaskTimeout, ExecTimeout, WaitTimeout} : t <= h

TaskKind == {"start", "shutdown", "stop", "create", "delete", "snapshot",
             "unsnapshot", "rollback", "backup"}
Kind     == TaskKind \cup {"config", "nothing", "exec", "list", "status"}
Exit     == {"OK", "warnings", "error", "0", "1", "killed", "gone"}
State    == {"absent", "stopped", "running"}

TypeOK ==
  /\ vm \in [node : Node, state : State, snap : BOOLEAN]
  /\ jobs \in Seq([by : Call, step : Nat, kind : Kind, node : Node, exit : Exit \cup {"running"}])
  /\ plan \in [Call -> Seq(Kind)]
  /\ pc \in [Call -> {"idle", "find", "ask", "poll", "sleep", "done"}]
  /\ step \in [Call -> Nat]
  /\ node \in [Call -> Node]
  /\ answer \in [Call -> {"none", "ok", "forbidden", "error"}]
  /\ again \in [Call -> BOOLEAN]
  /\ job \in [Call -> Nat] /\ \A c \in Call : job[c] <= Len(jobs)
  /\ seen \in [Call -> Exit \cup State \cup {"unknown", "listed", "missing"}]
  /\ polls \in [Call -> 0 .. Attempts] /\ sleep \in [Call -> 0 .. Interval + MaxDelay]
  /\ delay \in [Call -> 0 .. MaxDelay]
  /\ waited \in [Call -> 0 .. Horizon] /\ looked \in [Call -> 0 .. Horizon]
  /\ result \in [Call -> {"none", "ok", "failed", "timeout"}]

Init ==
  /\ vm \in [node : Node, state : State, snap : {FALSE}]
  /\ jobs = <<>>
  /\ plan = [c \in Call |-> <<>>] /\ pc = [c \in Call |-> "idle"]
  /\ step = [c \in Call |-> 0] /\ node = [c \in Call |-> vm.node]
  /\ answer = [c \in Call |-> "none"] /\ again = [c \in Call |-> FALSE]
  /\ job = [c \in Call |-> 0] /\ seen = [c \in Call |-> "unknown"]
  /\ polls = [c \in Call |-> 0] /\ sleep = [c \in Call |-> 0] /\ delay = [c \in Call |-> 0]
  /\ waited = [c \in Call |-> 0] /\ looked = [c \in Call |-> 0]
  /\ result = [c \in Call |-> "none"]

-----------------------------------------------------------------------------
(* The operations: where a call begins, and the plan it follows. *)

Begin(c, name, first, steps) ==
  /\ pc[c] = "idle" /\ name \in Allowed[c]
  /\ node' \in IF first = "ask" THEN {[node EXCEPT ![c] = n] : n \in Node} ELSE {node}
  /\ plan' = [plan EXCEPT ![c] = steps] /\ step' = [step EXCEPT ![c] = 1]
  /\ pc' = [pc EXCEPT ![c] = first]
  /\ UNCHANGED <<vm, jobs, answer, again, job, seen, clock, result>>

\* A tool may be given the node; otherwise it is looked for (findVmNode).
Find(c, name, steps) == \E first \in {"find", "ask"} : Begin(c, name, first, steps)

VmStart(c)    == Find(c, "start", <<"start">>)
VmShutdown(c) == Find(c, "shutdown", <<"shutdown">>)
VmStop(c)     == Find(c, "stop", <<"stop">>)
VmDelete(c)   == Find(c, "delete", <<"delete">>)
\* The node is a parameter; the start follows on the same node.
VmCreate(c)   == \E steps \in {<<"create">>, <<"create", "start">>} : Begin(c, "create", "ask", steps)
\* A config with no entry is an error before anything is sent.
VmConfigSet(c)    == \E k \in {"config", "nothing"} : Find(c, "config", <<k>>)
VmNotesSet(c)     == Find(c, "config", <<"config">>)
VmDiskSet(c)      == Find(c, "config", <<"config">>)
VmConfigDelete(c) == Find(c, "config", <<"config">>)
ExecCommand(c)    == Find(c, "exec", <<"exec">>)
SnapshotCreate(c)   == Find(c, "snapshot", <<"snapshot">>)
SnapshotDelete(c)   == Find(c, "unsnapshot", <<"unsnapshot">>)
SnapshotRollback(c) == Find(c, "rollback", <<"rollback">>)
BackupCreate(c)     == Find(c, "backup", <<"backup">>)
\* The library's own compositions, each step of which finds the node anew.
Reset(c)   == Begin(c, "reset", "find", <<"stop", "start">>)
Ensure(c)  == Begin(c, "ensure", "find", <<"list", "snapshot">>)
WaitFor(c) == Begin(c, "wait", "find", <<"status">>)

StartCall(c) ==
  \/ VmStart(c) \/ VmShutdown(c) \/ VmStop(c) \/ VmDelete(c) \/ VmCreate(c)
  \/ VmConfigSet(c) \/ VmNotesSet(c) \/ VmDiskSet(c) \/ VmConfigDelete(c)
  \/ ExecCommand(c) \/ SnapshotCreate(c) \/ SnapshotDelete(c) \/ SnapshotRollback(c)
  \/ BackupCreate(c) \/ Reset(c) \/ Ensure(c) \/ WaitFor(c)

KindOf(c) == plan[c][step[c]]

-----------------------------------------------------------------------------
(* PVE and the VM, external. *)

Waits(c) == pc[c] \in {"find", "ask", "poll"} /\ answer[c] = "none"

\* The request goes to a VM that is on that node, in a state that takes it.
Accepts(c) ==
  CASE KindOf(c) = "create" -> vm.state = "absent"
    [] KindOf(c) = "exec"   -> vm.state = "running" /\ vm.node = node[c]
    [] OTHER                -> vm.state # "absent" /\ vm.node = node[c]

\* A task is asked for on the node it runs on, a process through the agent of its VM.
Known(c) ==
  /\ jobs[job[c]].node = node[c]
  /\ KindOf(c) = "exec" => jobs[job[c]].exit # "gone" /\ vm.node = node[c]

\* What the task needs of the VM when it comes to its turn.
Fits(k) ==
  CASE k = "create" -> vm.state = "absent"
    [] k \in {"start", "delete"} -> vm.state = "stopped"
    [] k = "shutdown" -> vm.state = "running"
    [] k = "snapshot" -> vm.state # "absent" /\ ~vm.snap
    [] k \in {"unsnapshot", "rollback"} -> vm.state # "absent" /\ vm.snap
    [] OTHER -> vm.state # "absent"

Effect(j) ==
  CASE jobs[j].kind = "create" -> [node |-> jobs[j].node, state |-> "stopped", snap |-> FALSE]
    [] jobs[j].kind = "start" -> [vm EXCEPT !.state = "running"]
    [] jobs[j].kind \in {"stop", "shutdown", "rollback"} -> [vm EXCEPT !.state = "stopped"]
    [] jobs[j].kind = "delete" -> [vm EXCEPT !.state = "absent", !.snap = FALSE]
    [] jobs[j].kind = "snapshot" -> [vm EXCEPT !.snap = TRUE]
    [] jobs[j].kind = "unsnapshot" -> [vm EXCEPT !.snap = FALSE]
    [] OTHER -> vm

\* Processes end with the guest they run in.
Survivors(s, js) ==
  [j \in DOMAIN js |-> IF s # "running" /\ js[j].kind = "exec" /\ js[j].exit = "running"
                       THEN [js[j] EXCEPT !.exit = "gone"] ELSE js[j]]

Starts(c, exit) ==
  /\ jobs' = Append(jobs, [by |-> c, step |-> step[c], kind |-> KindOf(c),
                           node |-> node[c], exit |-> exit])
  /\ job' = [job EXCEPT ![c] = Len(jobs) + 1]
  /\ UNCHANGED seen

Reads(c, what) == seen' = [seen EXCEPT ![c] = what] /\ UNCHANGED <<jobs, job>>

\* The request is carried out, and answered with success.
Serve(c) ==
  /\ Waits(c)
  /\ \/ /\ pc[c] = "find" /\ vm.state # "absent"
        /\ node' = [node EXCEPT ![c] = vm.node]
        /\ UNCHANGED <<jobs, job, seen, looked>>
     \/ /\ pc[c] = "ask" /\ Accepts(c)
        /\ \/ KindOf(c) \in TaskKind \cup {"exec"} /\ Starts(c, "running")
           \/ KindOf(c) = "config" /\ Starts(c, "OK")
           \/ KindOf(c) = "list" /\ Reads(c, IF vm.snap THEN "listed" ELSE "missing")
           \/ KindOf(c) = "status" /\ Reads(c, vm.state)
        /\ UNCHANGED <<node, looked>>
     \/ /\ pc[c] = "poll" /\ Known(c)
        /\ Reads(c, IF jobs[job[c]].exit = "running" THEN "unknown" ELSE jobs[job[c]].exit)
        /\ looked' = [looked EXCEPT ![c] = IF KindOf(c) = "exec" THEN 0 ELSE waited[c]]
        /\ UNCHANGED node
  /\ answer' = [answer EXCEPT ![c] = "ok"]
  /\ UNCHANGED <<vm, plan, pc, step, again, polls, sleep, delay, waited, result>>

\* The request is not carried out: no permission, an error of PVE, no connection.
Refuse(c) ==
  /\ Waits(c)
  /\ \E a \in {"forbidden", "error"} : answer' = [answer EXCEPT ![c] = a]
  /\ UNCHANGED <<vm, jobs, plan, pc, step, node, again, job, seen, clock, result>>

\* The request was carried out, and its answer is lost.
LoseAnswer(c) ==
  /\ answer[c] = "ok"
  /\ answer' = [answer EXCEPT ![c] = "error"]
  /\ UNCHANGED <<vm, jobs, plan, pc, step, node, again, job, seen, clock, result>>

JobEnds(j) ==
  /\ jobs[j].exit = "running"
  /\ \E e \in Exit :
       /\ \/ /\ jobs[j].kind = "exec" /\ e \in {"0", "1", "killed"}
             /\ UNCHANGED vm
          \/ /\ jobs[j].kind # "exec" /\ e \in {"OK", "warnings"}
             /\ Fits(jobs[j].kind) /\ vm' = Effect(j)
          \/ /\ jobs[j].kind # "exec" /\ e = "error"
             /\ UNCHANGED vm
       /\ jobs' = Survivors(vm'.state, [jobs EXCEPT ![j].exit = e])
  /\ UNCHANGED <<plan, pc, step, request, clock, result>>

\* Whatever others do: the guest powers off, the VM is migrated, another client of PVE
\* starts, stops, creates or deletes it or its snapshot.
Disturb ==
  /\ vm' \in {v \in [node : Node, state : State, snap : BOOLEAN] : v.state = "absent" => ~v.snap}
  /\ jobs' = Survivors(vm'.state, jobs)
  /\ UNCHANGED <<plan, pc, step, request, clock, result>>

-----------------------------------------------------------------------------
(* The caller. *)

Goto(c, where) ==
  /\ pc' = [pc EXCEPT ![c] = where]
  /\ answer' = [answer EXCEPT ![c] = "none"] /\ again' = [again EXCEPT ![c] = FALSE]
  /\ UNCHANGED <<vm, jobs, plan, node, seen>>

End(c, how) ==
  /\ Goto(c, "done") /\ result' = [result EXCEPT ![c] = how]
  /\ UNCHANGED <<step, job, clock>>

Proceed(c) ==
  IF step[c] = Len(plan[c]) THEN End(c, "ok")
  ELSE /\ step' = [step EXCEPT ![c] = @ + 1]
       /\ Goto(c, IF KindOf(c) = "create" THEN "ask" ELSE "find")
       /\ UNCHANGED <<job, clock, result>>

SleepFor(c, ticks) ==
  /\ Goto(c, "sleep") /\ sleep' = [sleep EXCEPT ![c] = ticks]
  /\ UNCHANGED <<step, job, looked, result>>

Heard(c, where) == pc[c] = where /\ answer[c] = "ok"

\* Mutant: whatever the error was.
RetryAnyError(c) ==
  /\ answer[c] \in {"forbidden", "error"} /\ ~again[c]
  /\ answer' = [answer EXCEPT ![c] = "none"] /\ again' = [again EXCEPT ![c] = TRUE]
  /\ UNCHANGED <<vm, jobs, plan, pc, step, node, job, seen, clock, result>>

\* request(): after a 403 a fresh ticket is taken and the request sent once more.
Retry(c) ==
  /\ answer[c] = "forbidden" /\ ~again[c]
  /\ answer' = [answer EXCEPT ![c] = "none"] /\ again' = [again EXCEPT ![c] = TRUE]
  /\ UNCHANGED <<vm, jobs, plan, pc, step, node, job, seen, clock, result>>

Fails(c) ==
  /\ \/ answer[c] = "error"
     \/ answer[c] = "forbidden" /\ again[c]
  /\ End(c, "failed")

OnNode(c) ==
  /\ Heard(c, "find")
  /\ IF KindOf(c) = "nothing" THEN End(c, "failed")
     ELSE Goto(c, "ask") /\ UNCHANGED <<step, job, clock, result>>

OnConfig(c) == Heard(c, "ask") /\ KindOf(c) = "config" /\ Proceed(c)

OnList(c) ==
  /\ Heard(c, "ask") /\ KindOf(c) = "list"
  /\ IF seen[c] = "listed" THEN End(c, "ok") ELSE Proceed(c)

\* waitFor: the deadline is looked at after the answer and before the sleep.
OnStatus(c) ==
  /\ Heard(c, "ask") /\ KindOf(c) = "status"
  /\ IF seen[c] = "running" THEN End(c, "ok")
     ELSE IF waited[c] >= WaitTimeout THEN End(c, "timeout")
     ELSE SleepFor(c, Interval) /\ UNCHANGED <<polls, delay, waited>>

\* waitForTask and guestExec begin: the first polls at once, the second sleeps.
OnPosted(c) ==
  /\ Heard(c, "ask") /\ KindOf(c) \in TaskKind \cup {"exec"}
  /\ waited' = [waited EXCEPT ![c] = 0]
  /\ IF KindOf(c) = "exec"
     THEN SleepFor(c, MinDelay) /\ delay' = [delay EXCEPT ![c] = MinDelay] /\ UNCHANGED polls
     ELSE /\ Goto(c, "poll") /\ polls' = [polls EXCEPT ![c] = 0]
          /\ UNCHANGED <<step, job, sleep, delay, looked, result>>

\* Mutant: a task that has stopped has succeeded.
OnTaskStopped(c) ==
  /\ Heard(c, "poll") /\ KindOf(c) \in TaskKind
  /\ IF seen[c] = "unknown"
     THEN /\ SleepFor(c, Interval) /\ polls' = [polls EXCEPT ![c] = @ + 1]
          /\ UNCHANGED <<delay, waited>>
     ELSE Proceed(c)

\* Mutant: the number of polls is not limited.
OnTaskUnlimited(c) ==
  /\ Heard(c, "poll") /\ KindOf(c) \in TaskKind
  /\ CASE seen[c] = "unknown" -> SleepFor(c, Interval) /\ UNCHANGED <<polls, delay, waited>>
       [] seen[c] = "OK" -> Proceed(c)
       [] OTHER -> End(c, "failed")

OnTask(c) ==
  /\ Heard(c, "poll") /\ KindOf(c) \in TaskKind
  /\ CASE seen[c] = "unknown" ->
            /\ SleepFor(c, Interval) /\ polls' = [polls EXCEPT ![c] = @ + 1]
            /\ UNCHANGED <<delay, waited>>
       [] seen[c] = "OK" -> Proceed(c)
       [] OTHER -> End(c, "failed")

OnExec(c) ==
  /\ Heard(c, "poll") /\ KindOf(c) = "exec"
  /\ IF seen[c] # "unknown" THEN Proceed(c)
     ELSE IF waited[c] >= ExecTimeout THEN End(c, "timeout")
     ELSE LET d == Least(2 * delay[c], MaxDelay)
          IN  /\ SleepFor(c, d) /\ delay' = [delay EXCEPT ![c] = d]
              /\ UNCHANGED <<polls, waited>>

Handle(c) ==
  \/ Retry(c) \/ Fails(c) \/ OnNode(c) \/ OnConfig(c) \/ OnList(c) \/ OnStatus(c)
  \/ OnPosted(c) \/ OnTask(c) \/ OnExec(c)

\* Mutant: one poll more.
WakeOnceMore(c) ==
  /\ pc[c] = "sleep" /\ sleep[c] = 0
  /\ IF KindOf(c) \in TaskKind /\ polls[c] > Attempts THEN End(c, "timeout")
     ELSE /\ Goto(c, IF KindOf(c) = "status" THEN "find" ELSE "poll")
          /\ UNCHANGED <<step, job, clock, result>>

\* A sleep is over; the task has its last poll before its last sleep.
Wake(c) ==
  /\ pc[c] = "sleep" /\ sleep[c] = 0
  /\ IF KindOf(c) \in TaskKind /\ polls[c] >= Attempts THEN End(c, "timeout")
     ELSE /\ Goto(c, IF KindOf(c) = "status" THEN "find" ELSE "poll")
          /\ UNCHANGED <<step, job, clock, result>>

\* waitFor's signal, looked at before each poll.
Abort(c) == pc[c] = "sleep" /\ sleep[c] = 0 /\ KindOf(c) = "status" /\ End(c, "failed")

\* Only a call with a deadline looks at the time.
Timed(c) ==
  \/ pc[c] \in {"poll", "sleep"}
  \/ pc[c] \in {"find", "ask"} /\ KindOf(c) = "status"

Tick ==
  /\ \E c \in Call : Timed(c) /\ (sleep[c] > 0 \/ waited[c] < Horizon)
  /\ sleep' = [c \in Call |-> IF sleep[c] > 0 THEN sleep[c] - 1 ELSE 0]
  /\ waited' = [c \in Call |-> IF Timed(c) THEN Least(waited[c] + 1, Horizon) ELSE waited[c]]
  /\ UNCHANGED <<vm, jobs, plan, pc, step, request, polls, delay, looked, result>>

Next ==
  \/ \E c \in Call : \/ StartCall(c) \/ Serve(c) \/ Refuse(c) \/ LoseAnswer(c)
                     \/ Handle(c) \/ Wake(c) \/ Abort(c)
  \/ \E j \in DOMAIN jobs : JobEnds(j)
  \/ Disturb \/ Tick

\* A request is answered or fails; timers fire.  A task or a process may never end.
Fairness ==
  /\ \A c \in Call : WF_vars(Serve(c) \/ Refuse(c)) /\ WF_vars(Handle(c)) /\ WF_vars(Wake(c))
  /\ WF_vars(Tick)

Spec == Init /\ [][Next]_vars /\ Fairness

-----------------------------------------------------------------------------
\* The jobs that step k of call c started.
JobsOf(c, k) == {j \in DOMAIN jobs : jobs[j].by = c /\ jobs[j].step = k}
Succeeded(j) == jobs[j].exit \in IF jobs[j].kind = "exec" THEN {"0", "1", "killed"} ELSE {"OK"}

\* A call reports success only when every step of its plan that changes something was
\* carried out and its own task or process has ended well, whatever other calls, the guest
\* and PVE did meanwhile (waitForTask, guestExec; the handlers that await them).  Only
\* ensure may stop at its first step.
OkIsDone ==
  \A c \in Call : result[c] = "ok" =>
    \A k \in 1 .. Len(plan[c]) :
      plan[c][k] \notin {"list", "status"} /\ ~(plan[c][1] = "list" /\ seen[c] = "listed") =>
        \E j \in JobsOf(c, k) : jobs[j].kind = plan[c][k] /\ Succeeded(j)

\* What a call asks PVE for is done at most once, though a request may be sent again and an
\* answer be lost; and a step is begun only when the one before it has ended well: a VM is
\* not started by a reset whose stop is still under way, or by a create that failed.
OnceInOrder ==
  \A c \in Call : \A k \in 1 .. Len(plan[c]) :
    /\ \A i, j \in JobsOf(c, k) : i = j
    /\ k > 1 /\ JobsOf(c, k) # {} =>
         plan[c][k - 1] = "list" \/ \E j \in JobsOf(c, k - 1) : Succeeded(j)

\* A call that gives up has waited for its whole timeout; a task was still running when
\* there was one interval left.
GivesUpLate ==
  \A c \in Call : result[c] = "timeout" =>
    CASE KindOf(c) = "exec"   -> waited[c] >= ExecTimeout
      [] KindOf(c) = "status" -> waited[c] >= WaitTimeout
      [] OTHER -> waited[c] >= TaskTimeout /\ looked[c] >= (Attempts - 1) * Interval

\* Every call ends, also when its task, its process or the state it waits for never does.
CallsSettle == \A c \in Call : pc[c] # "idle" ~> pc[c] = "done"
=============================================================================
