--------------------------- MODULE VmTasks_proofs ---------------------------
(***************************************************************************)
(* Proofs about VmTasks, for any number of calls and nodes, and any        *)
(* timeouts and intervals.                                                 *)
(***************************************************************************)
EXTENDS VmTasks, Integers, TLAPS

Job == [by : Call, step : Nat, kind : Kind, node : Node, exit : Exit \cup {"running"}]

-----------------------------------------------------------------------------
(* Numbers *)

\* The polls of waitForTask span the timeout, and one poll fewer does not.
LEMMA AttemptsSpan ==
  /\ Attempts \in Nat \ {0}
  /\ Attempts * Interval >= TaskTimeout
  /\ (Attempts - 1) * Interval < TaskTimeout
<1>1. ASSUME NEW t \in Nat \ {0}, NEW i \in Nat \ {0}
      PROVE  LET n == (t + i - 1) \div i
             IN  n \in Nat \ {0} /\ n * i >= t /\ (n - 1) * i < t
  <2> DEFINE n == (t + i - 1) \div i
  <2>1. /\ n \in Int
        /\ n * i <= t + i - 1 /\ t + i - 1 < (n + 1) * i
    OBVIOUS
  <2>2. (n + 1) * i = n * i + i /\ (n - 1) * i = n * i - i
    BY <2>1
  <2>3. n * i >= t /\ (n - 1) * i < t
    BY <2>1, <2>2
  <2>4. n > 0
    BY <2>1, <2>3
  <2>5. QED
    BY <2>1, <2>3, <2>4
<1>2. QED
  BY <1>1, TimeAssumption DEF Attempts

LEMMA HorizonBounds ==
  /\ Horizon \in Nat
  /\ TaskTimeout <= Horizon /\ ExecTimeout <= Horizon /\ WaitTimeout <= Horizon
<1> DEFINE Times == {TaskTimeout, ExecTimeout, WaitTimeout}
<1>1. \E h \in Times : \A t \in Times : t <= h
  BY TimeAssumption
<1>2. QED
  BY <1>1, TimeAssumption DEF Horizon

\* What is due after n polls of a task, which the clock of a call may not reach.
Due(n) == Least(n * Interval, Horizon)

LEMMA DueBounds ==
  /\ Due(0) = 0
  /\ \A n \in Nat : Due(n) \in Nat /\ Due(n) <= Horizon /\ Due(n + 1) <= Due(n) + Interval
  /\ Due(Attempts) >= TaskTimeout
  /\ Due(Attempts - 1) >= (Attempts - 1) * Interval
<1>1. \A n \in Nat : n * Interval \in Nat /\ (n + 1) * Interval = n * Interval + Interval
  BY TimeAssumption
<1>2. 0 * Interval = 0
  BY TimeAssumption
<1>3. \A n \in Nat : Due(n) \in Nat /\ Due(n) <= Horizon /\ Due(n + 1) <= Due(n) + Interval
  BY <1>1, HorizonBounds, TimeAssumption DEF Due, Least
<1>4. Due(0) = 0
  BY <1>2, HorizonBounds DEF Due, Least
<1>5. Attempts - 1 \in Nat /\ Attempts \in Nat
  BY AttemptsSpan
<1>6. (Attempts - 1) * Interval \in Nat /\ Attempts * Interval \in Nat
  BY <1>1, <1>5
<1>7. Due(Attempts) >= TaskTimeout /\ Due(Attempts - 1) >= (Attempts - 1) * Interval
  BY <1>6, AttemptsSpan, HorizonBounds, TimeAssumption DEF Due, Least
<1>8. QED
  BY <1>3, <1>4, <1>7

-----------------------------------------------------------------------------
(* What is kept of each call *)

\* A call follows its plan.
Planned(c) ==
  /\ \A k \in 1 .. Len(plan[c]) : /\ plan[c][k] = "status" => Len(plan[c]) = 1
                                  /\ plan[c][k] = "list" => k = 1
  /\ IF pc[c] = "idle" THEN step[c] = 0 ELSE step[c] \in 1 .. Len(plan[c])
  /\ pc[c] = "poll" => KindOf(c) \in TaskKind \cup {"exec"}
  /\ pc[c] = "sleep" => KindOf(c) \in TaskKind \cup {"exec", "status"}
  /\ pc[c] \in {"idle", "sleep", "done"} => answer[c] = "none"
  /\ result[c] # "none" => pc[c] = "done"

\* The call has yet to ask for its step; it waits for what it asked for.
Unasked(c) ==
  \/ pc[c] = "find"
  \/ pc[c] = "ask" /\ answer[c] \in {"none", "forbidden"}
  \/ pc[c] # "idle" /\ KindOf(c) = "status"
Awaits(c) ==
  \/ pc[c] = "poll"
  \/ pc[c] = "sleep" /\ KindOf(c) # "status"
  \/ pc[c] = "ask" /\ answer[c] = "ok" /\ KindOf(c) \in TaskKind \cup {"exec", "config"}

\* It has started at most one job for each step so far, and knows which.
Tasked(c) ==
  /\ \A j \in DOMAIN jobs : jobs[j].by = c => jobs[j].step \in 1 .. step[c]
  /\ \A i, j \in DOMAIN jobs :
       jobs[i].by = c /\ jobs[j].by = c /\ jobs[i].step = jobs[j].step => i = j
  /\ Unasked(c) => \A j \in DOMAIN jobs : jobs[j].by = c => jobs[j].step # step[c]
  /\ Awaits(c) => job[c] \in JobsOf(c, step[c]) /\ jobs[job[c]].kind = KindOf(c)
  /\ pc[c] = "ask" /\ answer[c] = "ok" /\ KindOf(c) = "config" => jobs[job[c]].exit = "OK"
  /\ pc[c] = "poll" /\ answer[c] = "ok" /\ seen[c] # "unknown" =>
       seen[c] \notin {"running", "gone"} /\ jobs[job[c]].exit = seen[c]

\* The job of step k has ended well.
Done(c, k) == \E j \in JobsOf(c, k) : jobs[j].kind = plan[c][k] /\ Succeeded(j)

\* The job of every step that has one has.
AllDone(c) ==
  \A k \in 1 .. Len(plan[c]) :
    \/ plan[c][k] \in {"list", "status"}
    \/ plan[c][1] = "list" /\ seen[c] = "listed"
    \/ Done(c, k)

Behind(c) ==
  /\ \A k \in 1 .. Len(plan[c]) : k < step[c] => plan[c][k] = "list" \/ Done(c, k)
  /\ result[c] = "ok" => AllDone(c)

\* The call has waited long enough to give up.
Late(c) ==
  CASE KindOf(c) = "exec"   -> waited[c] >= ExecTimeout
    [] KindOf(c) = "status" -> waited[c] >= WaitTimeout
    [] OTHER -> waited[c] >= TaskTimeout /\ looked[c] >= (Attempts - 1) * Interval

\* The polls of a task and the clock.
Spans(c) ==
  /\ pc[c] = "poll" /\ KindOf(c) \in TaskKind =>
       /\ polls[c] < Attempts /\ waited[c] >= Due(polls[c])
       /\ answer[c] = "ok" => looked[c] >= Due(polls[c])
  /\ pc[c] = "sleep" /\ KindOf(c) \in TaskKind =>
       /\ polls[c] > 0 /\ looked[c] >= Due(polls[c] - 1)
       /\ waited[c] + sleep[c] >= Due(polls[c])
  /\ result[c] = "timeout" => Late(c)

\* A process ends in other ways than a task.
JobExits ==
  \A j \in DOMAIN jobs :
    jobs[j].exit \in IF jobs[j].kind = "exec" THEN {"running", "0", "1", "killed", "gone"}
                     ELSE {"running", "OK", "warnings", "error"}

Work(c) == Planned(c) /\ Tasked(c) /\ Behind(c)
IInv == TypeOK /\ JobExits /\ \A c \in Call : Work(c) /\ Spans(c)

-----------------------------------------------------------------------------
(* The beginning of a call *)

PlanFits(steps) ==
  /\ steps \in Seq(Kind) /\ Len(steps) > 0
  /\ \A k \in 1 .. Len(steps) : /\ steps[k] = "status" => Len(steps) = 1
                                /\ steps[k] = "list" => k = 1

LEMMA OneStepFits == \A k \in Kind : PlanFits(<<k>>)
BY DEF PlanFits

LEMMA TwoStepsFit ==
  /\ PlanFits(<<"create", "start">>) /\ PlanFits(<<"stop", "start">>)
  /\ PlanFits(<<"list", "snapshot">>)
BY DEF PlanFits, Kind, TaskKind

\* Whichever the operation, its plan is one of those.
LEMMA StartForm ==
  ASSUME NEW c \in Call, StartCall(c)
  PROVE  \E name, steps, first : /\ PlanFits(steps) /\ first \in {"find", "ask"}
                                 /\ Begin(c, name, first, steps)
<1> USE OneStepFits, TwoStepsFit DEF Find, Kind, TaskKind
<1>1. CASE VmStart(c) \/ VmShutdown(c) \/ VmStop(c) \/ VmDelete(c)
  BY <1>1 DEF VmStart, VmShutdown, VmStop, VmDelete
<1>2. CASE VmCreate(c)
  BY <1>2 DEF VmCreate
<1>3. CASE VmConfigSet(c) \/ VmNotesSet(c) \/ VmDiskSet(c) \/ VmConfigDelete(c)
  BY <1>3 DEF VmConfigSet, VmNotesSet, VmDiskSet, VmConfigDelete
<1>4. CASE ExecCommand(c) \/ SnapshotCreate(c) \/ SnapshotDelete(c) \/ SnapshotRollback(c)
           \/ BackupCreate(c)
  BY <1>4 DEF ExecCommand, SnapshotCreate, SnapshotDelete, SnapshotRollback, BackupCreate
<1>5. CASE Reset(c) \/ Ensure(c) \/ WaitFor(c)
  BY <1>5 DEF Reset, Ensure, WaitFor
<1>6. QED
  BY <1>1, <1>2, <1>3, <1>4, <1>5 DEF StartCall

-----------------------------------------------------------------------------
(* Types *)

LEMMA InitTypes == Init => TypeOK
<1> SUFFICES ASSUME Init PROVE TypeOK
  OBVIOUS
<1>1. 0 \in 0 .. Attempts /\ 0 \in 0 .. Interval + MaxDelay /\ 0 \in 0 .. MaxDelay /\ 0 \in 0 .. Horizon
  BY AttemptsSpan, HorizonBounds, TimeAssumption
<1>2. vm.node \in Node
  BY DEF Init
<1>3. jobs \in Seq([by : Call, step : Nat, kind : Kind, node : Node, exit : Exit \cup {"running"}])
  BY DEF Init
<1>4. plan \in [Call -> Seq(Kind)]
  BY DEF Init
<1>5. vm \in [node : Node, state : State, snap : BOOLEAN]
  BY DEF Init
<1>6. Len(jobs) = 0
  BY DEF Init
<1>7. \A c \in Call : job[c] <= Len(jobs)
  BY <1>6 DEF Init
<1> QED
  BY <1>1, <1>2, <1>3, <1>4, <1>5, <1>7 DEF Init, TypeOK

LEMMA KindType ==
  ASSUME TypeOK, NEW c \in Call, Planned(c), pc[c] # "idle"
  PROVE  KindOf(c) \in Kind
BY DEF TypeOK, Planned, KindOf

LEMMA StartTypes ==
  ASSUME TypeOK, NEW c \in Call, StartCall(c)
  PROVE  TypeOK'
<1>1. PICK name, steps, first : /\ PlanFits(steps) /\ first \in {"find", "ask"}
                                /\ Begin(c, name, first, steps)
  BY StartForm
<1>2. node' \in [Call -> Node]
  <2>1. node' = node \/ \E n \in Node : node' = [node EXCEPT ![c] = n]
    BY <1>1 DEF Begin
  <2>2. QED
    BY <2>1 DEF TypeOK
<1>3. plan' \in [Call -> Seq(Kind)] /\ step' \in [Call -> Nat]
  BY <1>1 DEF Begin, PlanFits, TypeOK
<1>4. pc' \in [Call -> {"idle", "find", "ask", "poll", "sleep", "done"}]
  BY <1>1 DEF Begin, TypeOK
<1> QED
  BY <1>1, <1>2, <1>3, <1>4 DEF Begin, clock, TypeOK

LEMMA GotoTypes ==
  ASSUME TypeOK, NEW c \in Call, NEW w \in {"find", "ask", "poll", "sleep", "done"}, Goto(c, w)
  PROVE  /\ pc' \in [Call -> {"idle", "find", "ask", "poll", "sleep", "done"}]
         /\ answer' \in [Call -> {"none", "ok", "forbidden", "error"}]
         /\ again' \in [Call -> BOOLEAN]
         /\ UNCHANGED <<vm, jobs, plan, node, seen>>
BY DEF Goto, TypeOK

LEMMA MoveTypes ==
  ASSUME TypeOK, NEW c \in Call, NEW w \in {"find", "ask", "poll", "sleep", "done"}, Goto(c, w),
         UNCHANGED <<step, job, clock, result>>
  PROVE  TypeOK'
<1>1. UNCHANGED <<step, job, polls, sleep, delay, waited, looked, result>>
  BY DEF clock
<1>2. /\ pc' \in [Call -> {"idle", "find", "ask", "poll", "sleep", "done"}]
      /\ answer' \in [Call -> {"none", "ok", "forbidden", "error"}]
      /\ again' \in [Call -> BOOLEAN]
      /\ UNCHANGED <<vm, jobs, plan, node, seen>>
  BY GotoTypes
<1>3. QED
  BY <1>1, <1>2 DEF TypeOK

LEMMA EndTypes ==
  ASSUME TypeOK, NEW c \in Call, NEW how \in {"ok", "failed", "timeout"}, End(c, how)
  PROVE  TypeOK'
<1>1. Goto(c, "done")
  BY DEF End
<1>2. result' \in [Call -> {"none", "ok", "failed", "timeout"}]
  BY DEF End, TypeOK
<1>3. QED
  BY <1>1, <1>2, GotoTypes DEF End, clock, TypeOK

LEMMA ProceedTypes ==
  ASSUME TypeOK, NEW c \in Call, Proceed(c)
  PROVE  TypeOK'
<1>1. CASE End(c, "ok")
  BY <1>1, EndTypes
<1>2. CASE ~End(c, "ok")
  <2>1. PICK w \in {"find", "ask", "poll", "sleep", "done"} :
          /\ Goto(c, w) /\ step' = [step EXCEPT ![c] = @ + 1] /\ UNCHANGED <<job, clock, result>>
    BY <1>2 DEF Proceed
  <2>2. step' \in [Call -> Nat]
    BY <2>1 DEF TypeOK
  <2>3. QED
    BY <2>1, <2>2, GotoTypes DEF clock, TypeOK
<1>3. QED
  BY <1>1, <1>2

LEMMA SleepTypes ==
  ASSUME TypeOK, NEW c \in Call, NEW t \in 0 .. Interval + MaxDelay, SleepFor(c, t),
         polls' \in [Call -> 0 .. Attempts], delay' \in [Call -> 0 .. MaxDelay],
         waited' \in [Call -> 0 .. Horizon]
  PROVE  TypeOK'
<1>1. Goto(c, "sleep") /\ UNCHANGED <<step, job, looked, result>>
  BY DEF SleepFor
<1>2. sleep' \in [Call -> 0 .. Interval + MaxDelay]
  BY DEF SleepFor, TypeOK
<1>3. QED
  BY <1>1, <1>2, GotoTypes DEF TypeOK

LEMMA HandleTypes ==
  ASSUME TypeOK, NEW c \in Call, Planned(c), Spans(c), Handle(c)
  PROVE  TypeOK'
<1> USE TimeAssumption
<1>1. CASE Retry(c)
  BY <1>1 DEF Retry, clock, TypeOK
<1>2. CASE Fails(c)
  BY <1>2, EndTypes DEF Fails
<1>3. CASE OnNode(c)
  <2>1. CASE End(c, "failed")
    BY <2>1, EndTypes
  <2>2. CASE Goto(c, "ask") /\ UNCHANGED <<step, job, clock, result>>
    BY <2>2, MoveTypes
  <2>3. QED
    BY <1>3, <2>1, <2>2 DEF OnNode
<1>4. CASE OnConfig(c)
  BY <1>4, ProceedTypes DEF OnConfig
<1>5. CASE OnList(c)
  BY <1>5, ProceedTypes, EndTypes DEF OnList
<1>6. CASE OnStatus(c)
  <2>1. CASE End(c, "ok") \/ End(c, "timeout")
    BY <2>1, EndTypes
  <2>2. CASE SleepFor(c, Interval) /\ UNCHANGED <<polls, delay, waited>>
    <3>1. Interval \in 0 .. Interval + MaxDelay
      OBVIOUS
    <3>2. QED
      BY <2>2, <3>1, SleepTypes DEF TypeOK
  <2>3. QED
    BY <1>6, <2>1, <2>2 DEF OnStatus
<1>7. CASE OnPosted(c)
  <2>1. waited' \in [Call -> 0 .. Horizon]
    BY <1>7, HorizonBounds DEF OnPosted, TypeOK
  <2>2. CASE KindOf(c) = "exec"
    <3>1. MinDelay \in 0 .. MaxDelay /\ MinDelay \in 0 .. Interval + MaxDelay
      OBVIOUS
    <3>2. SleepFor(c, MinDelay) /\ polls' \in [Call -> 0 .. Attempts]
      BY <1>7, <2>2 DEF OnPosted, TypeOK
    <3>3. delay' \in [Call -> 0 .. MaxDelay]
      BY <1>7, <2>2, <3>1 DEF OnPosted, TypeOK
    <3>4. QED
      BY <2>1, <3>1, <3>2, <3>3, SleepTypes
  <2>3. CASE KindOf(c) # "exec"
    <3>1. Goto(c, "poll") /\ UNCHANGED <<step, job, sleep, delay, looked, result>>
      BY <1>7, <2>3 DEF OnPosted
    <3>2. polls' \in [Call -> 0 .. Attempts]
      <4>1. 0 \in 0 .. Attempts
        BY AttemptsSpan
      <4>2. QED
        BY <1>7, <2>3, <4>1 DEF OnPosted, TypeOK
    <3>3. QED
      BY <2>1, <3>1, <3>2, GotoTypes DEF TypeOK
  <2>4. QED
    BY <2>2, <2>3
<1>8. CASE OnTask(c)
  <2>1. CASE Proceed(c) \/ End(c, "failed")
    BY <2>1, ProceedTypes, EndTypes
  <2>2. CASE SleepFor(c, Interval) /\ polls' = [polls EXCEPT ![c] = @ + 1] /\ UNCHANGED <<delay, waited>>
    <3>1. Interval \in 0 .. Interval + MaxDelay
      OBVIOUS
    <3>2. polls[c] < Attempts
      BY <1>8 DEF OnTask, Heard, Spans
    <3>3. polls' \in [Call -> 0 .. Attempts]
      BY <2>2, <3>2, AttemptsSpan DEF TypeOK
    <3>4. QED
      BY <2>2, <3>1, <3>3, SleepTypes DEF TypeOK
  <2>3. QED
    BY <1>8, <2>1, <2>2 DEF OnTask
<1>9. CASE OnExec(c)
  <2>1. CASE Proceed(c) \/ End(c, "timeout")
    BY <2>1, ProceedTypes, EndTypes
  <2>2. CASE ~Proceed(c) /\ ~End(c, "timeout")
    <3>1. PICK d : /\ d = Least(2 * delay[c], MaxDelay)
                   /\ SleepFor(c, d) /\ delay' = [delay EXCEPT ![c] = d] /\ UNCHANGED <<polls, waited>>
      BY <1>9, <2>2 DEF OnExec
    <3>2. delay[c] \in 0 .. MaxDelay
      BY DEF TypeOK
    <3>3. d \in 0 .. MaxDelay /\ d \in 0 .. Interval + MaxDelay
      BY <3>1, <3>2 DEF Least
    <3>4. delay' \in [Call -> 0 .. MaxDelay]
      BY <3>1, <3>3 DEF TypeOK
    <3>5. QED
      BY <3>1, <3>3, <3>4, SleepTypes DEF TypeOK
  <2>3. QED
    BY <2>1, <2>2
<1>10. QED
  BY <1>1, <1>2, <1>3, <1>4, <1>5, <1>6, <1>7, <1>8, <1>9 DEF Handle

\* Jobs are never forgotten, and one that has ended stays as it is.
Kept(js, ks) ==
  /\ DOMAIN js \subseteq DOMAIN ks
  /\ \A j \in DOMAIN js : /\ ks[j].by = js[j].by /\ ks[j].step = js[j].step
                          /\ ks[j].kind = js[j].kind
                          /\ js[j].exit = "running" \/ ks[j].exit = js[j].exit

LEMMA JobsType ==
  ASSUME TypeOK
  PROVE  /\ jobs \in Seq(Job) /\ Len(jobs) \in Nat /\ DOMAIN jobs = 1 .. Len(jobs)
         /\ \A j \in DOMAIN jobs : jobs[j] \in Job
<1>1. jobs \in Seq(Job)
  BY DEF TypeOK, Job
<1>2. QED
  BY <1>1

LEMMA SurvivorsKept ==
  ASSUME NEW js \in Seq(Job), NEW s
  PROVE  /\ Survivors(s, js) \in Seq(Job) /\ Len(Survivors(s, js)) = Len(js)
         /\ DOMAIN Survivors(s, js) = DOMAIN js /\ Kept(js, Survivors(s, js))
         /\ \A j \in DOMAIN js : \/ Survivors(s, js)[j] = js[j]
                                 \/ js[j].kind = "exec" /\ Survivors(s, js)[j].exit = "gone"
<1>1. DOMAIN js = 1 .. Len(js) /\ Len(js) \in Nat /\ \A j \in DOMAIN js : js[j] \in Job
  OBVIOUS
<1> DEFINE f(j) == IF s # "running" /\ js[j].kind = "exec" /\ js[j].exit = "running"
                   THEN [js[j] EXCEPT !.exit = "gone"] ELSE js[j]
<1>2. \A j \in DOMAIN js : /\ f(j) \in Job /\ f(j).by = js[j].by /\ f(j).step = js[j].step
                           /\ f(j).kind = js[j].kind
                           /\ js[j].exit = "running" \/ f(j).exit = js[j].exit
                           /\ f(j) = js[j] \/ (js[j].kind = "exec" /\ f(j).exit = "gone")
  <2> SUFFICES ASSUME NEW j \in DOMAIN js
               PROVE  /\ f(j) \in Job /\ f(j).by = js[j].by /\ f(j).step = js[j].step
                      /\ f(j).kind = js[j].kind
                      /\ js[j].exit = "running" \/ f(j).exit = js[j].exit
                      /\ f(j) = js[j] \/ (js[j].kind = "exec" /\ f(j).exit = "gone")
    OBVIOUS
  <2>1. js[j] \in Job /\ "gone" \in Exit
    BY <1>1 DEF Exit
  <2>2. CASE s # "running" /\ js[j].kind = "exec" /\ js[j].exit = "running"
    <3>1. f(j) = [js[j] EXCEPT !.exit = "gone"]
      BY <2>2
    <3>2. f(j) \in Job /\ f(j).by = js[j].by /\ f(j).step = js[j].step
          /\ f(j).kind = js[j].kind /\ f(j).exit = "gone"
      BY <2>1, <3>1 DEF Job
    <3>3. QED
      BY <2>2, <3>2
  <2>3. CASE ~(s # "running" /\ js[j].kind = "exec" /\ js[j].exit = "running")
    <3>1. f(j) = js[j]
      BY <2>3
    <3>2. QED
      BY <2>1, <3>1
  <2>4. QED
    BY <2>2, <2>3
<1>3. Survivors(s, js) = [j \in 1 .. Len(js) |-> f(j)]
  BY <1>1 DEF Survivors
<1> HIDE DEF f
<1>4. Survivors(s, js) \in Seq(Job) /\ Len(Survivors(s, js)) = Len(js)
  BY <1>1, <1>2, <1>3
<1> QED
  BY <1>1, <1>2, <1>3, <1>4 DEF Kept

LEMMA ServeTypes ==
  ASSUME TypeOK, NEW c \in Call, Planned(c), Tasked(c), Serve(c)
  PROVE  TypeOK'
<1>1. answer' \in [Call -> {"none", "ok", "forbidden", "error"}]
  BY DEF Serve, TypeOK
<1>2. Waits(c) /\ UNCHANGED <<vm, plan, pc, step, again, polls, sleep, delay, waited, result>>
  BY DEF Serve
<1>3. CASE pc[c] = "find"
  <2>1. node' = [node EXCEPT ![c] = vm.node] /\ UNCHANGED <<jobs, job, seen, looked>>
    BY <1>3 DEF Serve
  <2>2. node' \in [Call -> Node]
    BY <2>1 DEF TypeOK
  <2>3. QED
    BY <1>1, <1>2, <2>1, <2>2 DEF TypeOK
<1>4. CASE pc[c] = "ask"
  <2>1. UNCHANGED <<node, looked>>
    BY <1>4 DEF Serve
  <2>2. ASSUME NEW e \in {"running", "OK"}, Starts(c, e)
        PROVE  TypeOK'
    <3>1. KindOf(c) \in Kind /\ step[c] \in Nat /\ node[c] \in Node
      BY <1>4, KindType DEF TypeOK
    <3> DEFINE new == [by |-> c, step |-> step[c], kind |-> KindOf(c), node |-> node[c], exit |-> e]
    <3>2. new \in Job
      BY <3>1, <2>2 DEF Job, Exit
    <3>3. jobs' = Append(jobs, new) /\ job' = [job EXCEPT ![c] = Len(jobs) + 1] /\ UNCHANGED seen
      BY <2>2 DEF Starts
    <3> HIDE DEF new
    <3>4. jobs \in Seq(Job) /\ Len(jobs) \in Nat
      BY JobsType
    <3>5. jobs' \in Seq(Job) /\ Len(jobs') = Len(jobs) + 1
      BY <3>2, <3>3, <3>4
    <3>6. job' \in [Call -> Nat] /\ \A d \in Call : job'[d] <= Len(jobs')
      <4>1. job \in [Call -> Nat] /\ \A d \in Call : job[d] <= Len(jobs)
        BY DEF TypeOK
      <4>2. QED
        BY <3>3, <3>4, <3>5, <4>1
    <3>7. QED
      BY <1>1, <1>2, <2>1, <3>3, <3>5, <3>6 DEF TypeOK, Job
  <2>3. ASSUME NEW w \in State \cup {"listed", "missing"}, Reads(c, w)
        PROVE  TypeOK'
    BY <1>1, <1>2, <2>1, <2>3 DEF Reads, TypeOK
  <2>4. vm.state \in State
    BY DEF TypeOK
  <2>5. QED
    BY <1>4, <2>2, <2>3, <2>4 DEF Serve
<1>5. CASE pc[c] = "poll"
  <2>1. job[c] \in DOMAIN jobs
    BY <1>5 DEF Tasked, Awaits, JobsOf
  <2>2. jobs[job[c]].exit \in Exit \cup {"running"}
    <3>1. jobs[job[c]] \in Job
      BY <2>1, JobsType
    <3>2. QED
      BY <3>1 DEF Job
  <2> DEFINE w == IF jobs[job[c]].exit = "running" THEN "unknown" ELSE jobs[job[c]].exit
  <2>3. w \in Exit \cup {"unknown"}
    BY <2>2
  <2>4. UNCHANGED <<node, jobs, job>> /\ seen' = [seen EXCEPT ![c] = w]
    BY <1>5 DEF Serve, Reads
  <2> HIDE DEF w
  <2>5. looked' \in [Call -> 0 .. Horizon]
    <3>1. PICK n \in 0 .. Horizon : looked' = [looked EXCEPT ![c] = n]
      BY <1>5, HorizonBounds DEF Serve, TypeOK
    <3>2. QED
      BY <3>1 DEF TypeOK
  <2>6. QED
    BY <1>1, <1>2, <2>3, <2>4, <2>5 DEF TypeOK
<1>6. QED
  BY <1>2, <1>3, <1>4, <1>5 DEF Waits

LEMMA OtherTypes ==
  ASSUME TypeOK, NEW c \in Call, Refuse(c) \/ LoseAnswer(c) \/ Wake(c) \/ Abort(c)
  PROVE  TypeOK'
<1>1. CASE Refuse(c)
  BY <1>1 DEF Refuse, clock, TypeOK
<1>2. CASE LoseAnswer(c)
  BY <1>2 DEF LoseAnswer, clock, TypeOK
<1>3. CASE Wake(c)
  <2>1. CASE End(c, "timeout")
    BY <2>1, EndTypes
  <2>2. CASE ~End(c, "timeout")
    <3>1. PICK w \in {"find", "ask", "poll", "sleep", "done"} :
            Goto(c, w) /\ UNCHANGED <<step, job, clock, result>>
      BY <1>3, <2>2 DEF Wake
    <3>2. QED
      BY <3>1, MoveTypes
  <2>3. QED
    BY <2>1, <2>2
<1>4. CASE Abort(c)
  BY <1>4, EndTypes DEF Abort
<1>5. QED
  BY <1>1, <1>2, <1>3, <1>4

\* What the step does to the jobs.
LEMMA JobEndsKeeps ==
  ASSUME TypeOK, JobExits, NEW j \in DOMAIN jobs, JobEnds(j)
  PROVE  /\ TypeOK' /\ JobExits' /\ Kept(jobs, jobs') /\ DOMAIN jobs' = DOMAIN jobs
         /\ UNCHANGED <<plan, pc, step, request, clock, result>>
<1>1. /\ UNCHANGED <<plan, pc, step, request, clock, result>> /\ jobs[j].exit = "running"
  BY DEF JobEnds
<1>2. PICK e \in Exit :
        /\ e \in IF jobs[j].kind = "exec" THEN {"0", "1", "killed"} ELSE {"OK", "warnings", "error"}
        /\ vm' = vm \/ vm' = Effect(j)
        /\ jobs' = Survivors(vm'.state, [jobs EXCEPT ![j].exit = e])
  BY DEF JobEnds
<1> DEFINE js == [jobs EXCEPT ![j].exit = e]
<1>3. jobs \in Seq(Job) /\ jobs[j] \in Job
  BY JobsType
<1>4. /\ js \in Seq(Job) /\ DOMAIN js = DOMAIN jobs /\ Len(js) = Len(jobs)
      /\ js[j] = [jobs[j] EXCEPT !.exit = e] /\ js[j].exit = e
      /\ js[j].by = jobs[j].by /\ js[j].kind = jobs[j].kind /\ js[j].step = jobs[j].step
      /\ \A i \in DOMAIN jobs : i # j => js[i] = jobs[i]
  BY <1>3 DEF Job
<1>5. Kept(jobs, js)
  BY <1>1, <1>4 DEF Kept
<1>6. jobs' = Survivors(vm'.state, js)
  BY <1>2
<1> HIDE DEF js
<1>7. /\ jobs' \in Seq(Job) /\ Len(jobs') = Len(js) /\ DOMAIN jobs' = DOMAIN js /\ Kept(js, jobs')
      /\ \A i \in DOMAIN js : \/ jobs'[i] = js[i]
                              \/ js[i].kind = "exec" /\ jobs'[i].exit = "gone"
  BY <1>4, <1>6, SurvivorsKept
<1>8. Kept(jobs, jobs') /\ DOMAIN jobs' = DOMAIN jobs
  BY <1>4, <1>5, <1>7 DEF Kept
<1>9. JobExits'
  <2>1. \A i \in DOMAIN js : js[i].exit \in IF js[i].kind = "exec" THEN {"running", "0", "1", "killed", "gone"}
                                            ELSE {"running", "OK", "warnings", "error"}
    <3>1. \A i \in DOMAIN jobs :
            jobs[i].exit \in IF jobs[i].kind = "exec" THEN {"running", "0", "1", "killed", "gone"}
                             ELSE {"running", "OK", "warnings", "error"}
      BY DEF JobExits
    <3>2. QED
      <4>1. \A i \in DOMAIN js \ {j} : js[i] = jobs[i]
        BY <1>4
      <4>2. js[j].exit \in IF js[j].kind = "exec" THEN {"running", "0", "1", "killed", "gone"}
                           ELSE {"running", "OK", "warnings", "error"}
        BY <1>2, <1>4
      <4>3. QED
        BY <1>4, <3>1, <4>1, <4>2
  <2>2. QED
    BY <1>7, <2>1 DEF JobExits, Kept
<1>10. vm' \in [node : Node, state : State, snap : BOOLEAN]
  <2>1. jobs[j].node \in Node
    BY <1>3 DEF Job
  <2>2. QED
    <3>1. vm \in [node : Node, state : State, snap : BOOLEAN]
      BY DEF TypeOK
    <3>2. Effect(j) \in [node : Node, state : State, snap : BOOLEAN]
      BY <2>1, <3>1 DEF Effect, State
    <3>3. QED
      BY <1>2, <3>1, <3>2
<1>11. TypeOK'
  BY <1>1, <1>4, <1>7, <1>10 DEF request, clock, TypeOK, Job
<1> QED
  BY <1>1, <1>8, <1>9, <1>11

LEMMA DisturbKeeps ==
  ASSUME TypeOK, JobExits, Disturb
  PROVE  /\ TypeOK' /\ JobExits' /\ Kept(jobs, jobs') /\ DOMAIN jobs' = DOMAIN jobs
         /\ UNCHANGED <<plan, pc, step, request, clock, result>>
<1>1. UNCHANGED <<plan, pc, step, request, clock, result>> /\ jobs' = Survivors(vm'.state, jobs)
  BY DEF Disturb
<1>2. jobs \in Seq(Job)
  BY JobsType
<1>3. /\ jobs' \in Seq(Job) /\ Len(jobs') = Len(jobs) /\ DOMAIN jobs' = DOMAIN jobs /\ Kept(jobs, jobs')
      /\ \A i \in DOMAIN jobs : \/ jobs'[i] = jobs[i]
                                \/ jobs[i].kind = "exec" /\ jobs'[i].exit = "gone"
  BY <1>1, <1>2, SurvivorsKept
<1>4. JobExits'
  BY <1>3 DEF JobExits, Kept
<1>5. vm' \in [node : Node, state : State, snap : BOOLEAN]
  BY DEF Disturb
<1>6. TypeOK'
  BY <1>1, <1>3, <1>5 DEF request, clock, TypeOK, Job
<1> QED
  BY <1>1, <1>3, <1>4, <1>6

LEMMA TickTypes ==
  ASSUME TypeOK, Tick
  PROVE  TypeOK'
<1>1. UNCHANGED <<vm, jobs, plan, pc, step, request, polls, delay, looked, result>>
  BY DEF Tick
<1>2. sleep' \in [Call -> 0 .. Interval + MaxDelay]
  <2>1. \A c \in Call : (IF sleep[c] > 0 THEN sleep[c] - 1 ELSE 0) \in 0 .. Interval + MaxDelay
    <3>1. \A c \in Call : sleep[c] \in 0 .. Interval + MaxDelay
      BY DEF TypeOK
    <3>2. Interval + MaxDelay \in Nat
      BY TimeAssumption
    <3>3. QED
      BY <3>1, <3>2
  <2>2. QED
    BY <2>1 DEF Tick
<1>3. waited' \in [Call -> 0 .. Horizon]
  <2>1. \A c \in Call : (IF Timed(c) THEN Least(waited[c] + 1, Horizon) ELSE waited[c]) \in 0 .. Horizon
    BY HorizonBounds DEF Least, TypeOK
  <2>2. QED
    BY <2>1 DEF Tick
<1> QED
  BY <1>1, <1>2, <1>3 DEF request, TypeOK

-----------------------------------------------------------------------------
(* Steps of others *)

Step(c) ==
  \/ StartCall(c) \/ Serve(c) \/ Refuse(c) \/ LoseAnswer(c) \/ Handle(c) \/ Wake(c) \/ Abort(c)

\* Nothing of call d changes but, it may be, its clock.
Same(d) ==
  /\ plan'[d] = plan[d] /\ pc'[d] = pc[d] /\ step'[d] = step[d]
  /\ answer'[d] = answer[d] /\ job'[d] = job[d] /\ seen'[d] = seen[d]
  /\ polls'[d] = polls[d] /\ looked'[d] = looked[d] /\ result'[d] = result[d]

NoneOf(d) == \A j \in DOMAIN jobs' \ DOMAIN jobs : jobs'[j].by # d

LEMMA GotoSame ==
  ASSUME TypeOK, NEW c \in Call, NEW d \in Call, d # c, NEW w, Goto(c, w)
  PROVE  /\ plan'[d] = plan[d] /\ pc'[d] = pc[d] /\ answer'[d] = answer[d] /\ seen'[d] = seen[d]
         /\ jobs' = jobs
BY DEF Goto, TypeOK

LEMMA EndSame ==
  ASSUME TypeOK, NEW c \in Call, NEW d \in Call, d # c, NEW how, End(c, how)
  PROVE  Same(d) /\ jobs' = jobs /\ UNCHANGED <<sleep, waited>>
BY GotoSame DEF End, clock, Same, TypeOK

LEMMA ProceedSame ==
  ASSUME TypeOK, NEW c \in Call, NEW d \in Call, d # c, Proceed(c)
  PROVE  Same(d) /\ jobs' = jobs /\ UNCHANGED <<sleep, waited>>
<1>1. CASE End(c, "ok")
  BY <1>1, EndSame
<1>2. CASE ~End(c, "ok")
  <2>1. PICK w : /\ Goto(c, w) /\ step' = [step EXCEPT ![c] = @ + 1] /\ UNCHANGED <<job, clock, result>>
    BY <1>2 DEF Proceed
  <2>2. QED
    BY <2>1, GotoSame DEF clock, Same, TypeOK
<1>3. QED
  BY <1>1, <1>2

LEMMA SleepSame ==
  ASSUME TypeOK, NEW c \in Call, NEW d \in Call, d # c, NEW t, SleepFor(c, t), polls'[d] = polls[d]
  PROVE  Same(d) /\ jobs' = jobs /\ sleep'[d] = sleep[d]
BY GotoSame DEF SleepFor, Same, TypeOK

LEMMA MoveSame ==
  ASSUME TypeOK, NEW c \in Call, NEW d \in Call, d # c, NEW w, Goto(c, w),
         UNCHANGED <<step, job, clock, result>>
  PROVE  Same(d) /\ jobs' = jobs /\ UNCHANGED <<sleep, waited>>
BY GotoSame DEF clock, Same

LEMMA HandleSame ==
  ASSUME TypeOK, NEW c \in Call, NEW d \in Call, d # c, Handle(c)
  PROVE  Same(d) /\ jobs' = jobs /\ sleep'[d] = sleep[d] /\ waited'[d] = waited[d]
<1>1. CASE Retry(c)
  BY <1>1 DEF Retry, clock, Same, TypeOK
<1>2. CASE Fails(c)
  BY <1>2, EndSame DEF Fails
<1>3. CASE OnNode(c)
  BY <1>3, EndSame, MoveSame DEF OnNode
<1>4. CASE OnConfig(c) \/ OnList(c)
  BY <1>4, EndSame, ProceedSame DEF OnConfig, OnList
<1>5. CASE OnStatus(c)
  BY <1>5, EndSame, SleepSame DEF OnStatus
<1>6. CASE OnPosted(c)
  <2>1. waited'[d] = waited[d]
    BY <1>6 DEF OnPosted, TypeOK
  <2>2. CASE KindOf(c) = "exec"
    BY <1>6, <2>1, <2>2, SleepSame DEF OnPosted
  <2>3. CASE KindOf(c) # "exec"
    BY <1>6, <2>1, <2>3, GotoSame DEF OnPosted, Same, TypeOK
  <2>4. QED
    BY <2>2, <2>3
<1>7. CASE OnTask(c)
  <2>1. CASE Proceed(c) \/ End(c, "failed")
    BY <2>1, ProceedSame, EndSame
  <2>2. CASE SleepFor(c, Interval) /\ polls' = [polls EXCEPT ![c] = @ + 1] /\ UNCHANGED <<delay, waited>>
    BY <2>2, SleepSame DEF TypeOK
  <2>3. QED
    BY <1>7, <2>1, <2>2 DEF OnTask
<1>8. CASE OnExec(c)
  <2>1. CASE Proceed(c) \/ End(c, "timeout")
    BY <2>1, ProceedSame, EndSame
  <2>2. CASE ~Proceed(c) /\ ~End(c, "timeout")
    <3>1. PICK t : SleepFor(c, t) /\ UNCHANGED <<polls, waited>>
      BY <1>8, <2>2 DEF OnExec
    <3>2. QED
      BY <3>1, SleepSame
  <2>3. QED
    BY <2>1, <2>2
<1>9. QED
  BY <1>1, <1>2, <1>3, <1>4, <1>5, <1>6, <1>7, <1>8 DEF Handle

LEMMA JobsKeptWhenSame ==
  ASSUME jobs' = jobs
  PROVE  Kept(jobs, jobs') /\ \A d \in Call : NoneOf(d)
BY DEF Kept, NoneOf

LEMMA ServeKeeps ==
  ASSUME TypeOK, NEW c \in Call, Serve(c)
  PROVE  Kept(jobs, jobs') /\ \A d \in Call \ {c} : NoneOf(d)
<1>1. CASE jobs' = jobs
  BY <1>1, JobsKeptWhenSame
<1>2. CASE jobs' # jobs
  <2>1. PICK e : jobs' = Append(jobs, [by |-> c, step |-> step[c], kind |-> KindOf(c),
                                       node |-> node[c], exit |-> e])
    BY <1>2 DEF Serve, Starts, Reads
  <2>2. /\ DOMAIN jobs' = DOMAIN jobs \cup {Len(jobs) + 1}
        /\ \A j \in DOMAIN jobs : jobs'[j] = jobs[j]
        /\ jobs'[Len(jobs) + 1].by = c
    BY <2>1, JobsType
  <2>3. QED
    BY <2>2 DEF Kept, NoneOf
<1>3. QED
  BY <1>1, <1>2

LEMMA StepSame ==
  ASSUME TypeOK, NEW c \in Call, NEW d \in Call, d # c, Step(c)
  PROVE  /\ Same(d) /\ sleep'[d] = sleep[d] /\ waited'[d] = waited[d]
         /\ Kept(jobs, jobs') /\ NoneOf(d)
<1>1. CASE StartCall(c)
  <2>1. PICK name, steps, first : Begin(c, name, first, steps)
    BY <1>1, StartForm
  <2>2. QED
    BY <2>1, JobsKeptWhenSame DEF Begin, clock, Same, TypeOK
<1>2. CASE Serve(c)
  <2>1. Same(d) /\ sleep' = sleep /\ waited' = waited
    BY <1>2 DEF Serve, Starts, Reads, Same, TypeOK
  <2>2. QED
    BY <1>2, <2>1, ServeKeeps
<1>3. CASE Refuse(c)
  BY <1>3, JobsKeptWhenSame DEF Refuse, clock, Same, TypeOK
<1>4. CASE LoseAnswer(c)
  BY <1>4, JobsKeptWhenSame DEF LoseAnswer, clock, Same, TypeOK
<1>5. CASE Handle(c)
  BY <1>5, HandleSame, JobsKeptWhenSame
<1>6. CASE Wake(c) \/ Abort(c)
  <2>1. CASE \E how : End(c, how)
    BY <2>1, EndSame, JobsKeptWhenSame
  <2>2. CASE ~\E how : End(c, how)
    <3>1. PICK w : Goto(c, w) /\ UNCHANGED <<step, job, clock, result>>
      BY <1>6, <2>2 DEF Wake, Abort
    <3>2. QED
      BY <3>1, MoveSame, JobsKeptWhenSame
  <2>3. QED
    BY <2>1, <2>2
<1>7. QED
  BY <1>1, <1>2, <1>3, <1>4, <1>5, <1>6 DEF Step

\* The jobs of a call that has no part in the step are the same, and those that had
\* ended well still have.
LEMMA JobsStay ==
  ASSUME NEW d \in Call, Kept(jobs, jobs'), NoneOf(d)
  PROVE  /\ \A k : JobsOf(d, k)' = JobsOf(d, k)
         /\ \A j \in DOMAIN jobs : Succeeded(j) => Succeeded(j)'
<1>1. \A j \in DOMAIN jobs : Succeeded(j) => Succeeded(j)'
  BY DEF Kept, Succeeded
<1>2. \A k : JobsOf(d, k)' = JobsOf(d, k)
  BY DEF Kept, NoneOf, JobsOf
<1> QED
  BY <1>1, <1>2

LEMMA Bystander ==
  ASSUME TypeOK, NEW d \in Call, Work(d), Same(d), Kept(jobs, jobs'), NoneOf(d)
  PROVE  Work(d)'
<1>1. KindOf(d)' = KindOf(d)
  BY DEF Same, KindOf
<1>2. Planned(d)'
  BY <1>1 DEF Work, Planned, Same
<1>3. Unasked(d)' = Unasked(d) /\ Awaits(d)' = Awaits(d)
  BY <1>1 DEF Unasked, Awaits, Same
<1>4. Awaits(d) => job[d] \in DOMAIN jobs
  BY DEF Work, Tasked, JobsOf
<1>5. Tasked(d)'
  <2>1. \A j \in DOMAIN jobs' : jobs'[j].by = d =>
          j \in DOMAIN jobs /\ jobs[j].by = d /\ jobs'[j].step = jobs[j].step
    BY DEF Kept, NoneOf
  <2>2. \A j \in DOMAIN jobs' : jobs'[j].by = d => jobs'[j].step \in 1 .. step'[d]
    BY <2>1 DEF Work, Tasked, Same
  <2>3. \A i, j \in DOMAIN jobs' :
          jobs'[i].by = d /\ jobs'[j].by = d /\ jobs'[i].step = jobs'[j].step => i = j
    BY <2>1 DEF Work, Tasked
  <2>4. Unasked(d)' => \A j \in DOMAIN jobs' : jobs'[j].by = d => jobs'[j].step # step'[d]
    BY <1>3, <2>1 DEF Work, Tasked, Same
  <2>5. Awaits(d)' => job'[d] \in JobsOf(d, step[d])' /\ jobs'[job'[d]].kind = KindOf(d)'
    BY <1>1, <1>3, <1>4, JobsStay DEF Work, Tasked, Same, Kept
  <2>6. pc'[d] = "ask" /\ answer'[d] = "ok" /\ KindOf(d)' = "config" => jobs'[job'[d]].exit = "OK"
    BY <1>1, <1>4 DEF Work, Tasked, Awaits, Same, Kept
  <2>7. pc'[d] = "poll" /\ answer'[d] = "ok" /\ seen'[d] # "unknown" =>
          seen'[d] \notin {"running", "gone"} /\ jobs'[job'[d]].exit = seen'[d]
    BY <1>4 DEF Work, Tasked, Awaits, Same, Kept
  <2>8. QED
    BY <2>2, <2>3, <2>4, <2>5, <2>6, <2>7 DEF Tasked
<1>6. Behind(d)'
  <2>1. \A k : Done(d, k) => Done(d, k)'
    BY JobsStay DEF Done, Same, Kept, JobsOf
  <2>2. QED
    BY <2>1 DEF Work, Behind, AllDone, Same
<1> QED
  BY <1>2, <1>5, <1>6 DEF Work

LEMMA BystanderSpans ==
  ASSUME TypeOK, NEW d \in Call, Spans(d), Same(d), sleep'[d] = sleep[d], waited'[d] = waited[d]
  PROVE  Spans(d)'
<1>1. KindOf(d)' = KindOf(d)
  BY DEF Same, KindOf
<1>2. Late(d)' = Late(d)
  BY <1>1 DEF Late, Same
<1>3. QED
  BY <1>1, <1>2 DEF Spans, Same

-----------------------------------------------------------------------------
(* The steps of a call *)

LEMMA EndWork ==
  ASSUME TypeOK, NEW c \in Call, Work(c), pc[c] # "idle", NEW how, End(c, how),
         how = "ok" => AllDone(c)
  PROVE  Work(c)'
<1>1. /\ pc'[c] = "done" /\ answer'[c] = "none" /\ result'[c] = how
      /\ UNCHANGED <<jobs, plan, step, seen, job>>
  BY DEF End, Goto, TypeOK
<1>2. KindOf(c)' = KindOf(c)
  BY <1>1 DEF KindOf
<1>3. Planned(c)'
  BY <1>1 DEF Work, Planned
<1>4. Tasked(c)'
  BY <1>1, <1>2 DEF Work, Tasked, Unasked, Awaits
<1>5. Behind(c)'
  <2>1. \A k : Done(c, k)' = Done(c, k)
    BY <1>1 DEF Done, JobsOf, Succeeded
  <2>2. QED
    BY <1>1, <2>1 DEF Work, Behind, AllDone
<1> QED
  BY <1>3, <1>4, <1>5 DEF Work

LEMMA EndSpans ==
  ASSUME TypeOK, NEW c \in Call, NEW how, End(c, how), how = "timeout" => Late(c)
  PROVE  Spans(c)'
<1>1. /\ pc'[c] = "done" /\ result'[c] = how /\ UNCHANGED <<plan, step, waited, looked>>
  BY DEF End, Goto, clock, TypeOK
<1>2. Late(c)' = Late(c)
  BY <1>1 DEF Late, KindOf
<1>3. QED
  BY <1>1, <1>2 DEF Spans

\* A call goes on to its next step when the job of this one has ended well.
LEMMA ProceedWork ==
  ASSUME TypeOK, NEW c \in Call, Work(c), pc[c] \notin {"idle", "done"}, Proceed(c),
         KindOf(c) = "list" \/ Done(c, step[c])
  PROVE  Work(c)' /\ Spans(c)'
<1>1. step[c] \in 1 .. Len(plan[c]) /\ Len(plan[c]) \in Nat /\ result[c] = "none"
  BY DEF Work, Planned, TypeOK
<1>2. \A k \in 1 .. Len(plan[c]) : k <= step[c] => plan[c][k] = "list" \/ Done(c, k)
  BY <1>1 DEF Work, Behind, KindOf
<1>3. CASE step[c] = Len(plan[c])
  <2>1. End(c, "ok")
    BY <1>3 DEF Proceed
  <2>2. AllDone(c)
    BY <1>1, <1>2, <1>3 DEF AllDone
  <2>3. QED
    BY <2>1, <2>2, EndWork, EndSpans
<1>4. CASE step[c] # Len(plan[c])
  <2>1. /\ pc'[c] \in {"find", "ask"} /\ answer'[c] = "none" /\ step'[c] = step[c] + 1
        /\ UNCHANGED <<jobs, plan, seen, job, result>>
    BY <1>4 DEF Proceed, Goto, TypeOK
  <2>2. Planned(c)'
    BY <1>1, <1>4, <2>1 DEF Work, Planned
  <2>3. Tasked(c)'
    <3>1. \A j \in DOMAIN jobs : jobs[j].by = c => jobs[j].step \in 1 .. step[c]
      BY DEF Work, Tasked
    <3>2. \A j \in DOMAIN jobs : jobs[j].by = c =>
            jobs[j].step \in 1 .. step[c] + 1 /\ jobs[j].step # step[c] + 1
      BY <1>1, <3>1
    <3>3. QED
      BY <2>1, <3>2 DEF Work, Tasked, Awaits
  <2>4. Behind(c)'
    <3>1. \A k : Done(c, k)' = Done(c, k)
      BY <2>1 DEF Done, JobsOf, Succeeded
    <3>2. QED
      BY <1>1, <1>2, <2>1, <3>1 DEF Behind
  <2>5. Spans(c)'
    BY <1>1, <2>1 DEF Spans
  <2>6. QED
    BY <2>2, <2>3, <2>4, <2>5 DEF Work
<1>5. QED
  BY <1>3, <1>4

\* A call that changes its place within its step.
LEMMA PlaceWork ==
  ASSUME TypeOK, NEW c \in Call, Work(c), pc[c] \notin {"idle", "done"}, NEW w, Goto(c, w),
         UNCHANGED <<step, job, result>>,
         \/ w = "find" /\ KindOf(c) = "status"
         \/ w = "ask" /\ Unasked(c)
         \/ w \in {"poll", "sleep"} /\ KindOf(c) \in TaskKind \cup {"exec"} /\ Awaits(c)
         \/ w = "sleep" /\ KindOf(c) = "status"
  PROVE  Work(c)'
<1>1. /\ pc'[c] = w /\ answer'[c] = "none" /\ UNCHANGED <<jobs, plan, seen, job, step, result>>
  BY DEF Goto, TypeOK
<1>2. KindOf(c)' = KindOf(c) /\ JobsOf(c, step[c])' = JobsOf(c, step[c])
  BY <1>1 DEF KindOf, JobsOf
<1>3. Planned(c)'
  BY <1>1, <1>2 DEF Work, Planned
<1>4. Tasked(c)'
  <2>1. Awaits(c)' => Awaits(c)
    BY <1>1, <1>2 DEF Awaits, TaskKind
  <2>2. Unasked(c)' => Unasked(c)
    BY <1>1, <1>2 DEF Unasked, TaskKind
  <2>3. QED
    BY <1>1, <1>2, <2>1, <2>2 DEF Work, Tasked
<1>5. Behind(c)'
  <2>1. \A k : Done(c, k)' = Done(c, k)
    BY <1>1 DEF Done, JobsOf, Succeeded
  <2>2. QED
    BY <1>1, <2>1 DEF Work, Behind, AllDone
<1> QED
  BY <1>3, <1>4, <1>5 DEF Work

LEMMA StartWork ==
  ASSUME TypeOK, NEW c \in Call, Work(c), StartCall(c)
  PROVE  Work(c)' /\ Spans(c)'
<1>1. PICK name, steps, first : /\ PlanFits(steps) /\ first \in {"find", "ask"}
                                /\ Begin(c, name, first, steps)
  BY StartForm
<1>2. /\ pc[c] = "idle" /\ plan'[c] = steps /\ step'[c] = 1 /\ pc'[c] = first
      /\ UNCHANGED <<jobs, answer, seen, job, result>>
  BY <1>1 DEF Begin, TypeOK
<1>3. answer[c] = "none" /\ step[c] = 0 /\ result[c] = "none"
  BY <1>2 DEF Work, Planned, TypeOK
<1>4. Planned(c)'
  BY <1>1, <1>2, <1>3 DEF Planned, PlanFits
<1>5. \A j \in DOMAIN jobs : jobs[j].by # c
  BY <1>3 DEF Work, Tasked
<1>6. Tasked(c)'
  BY <1>1, <1>2, <1>3, <1>5 DEF Tasked, Awaits
<1>7. Behind(c)'
  <2>1. \A k \in 1 .. Len(steps) : ~(k < 1)
    BY <1>1 DEF PlanFits
  <2>2. QED
    BY <1>2, <1>3, <2>1 DEF Behind
<1>8. Spans(c)'
  BY <1>1, <1>2, <1>3 DEF Spans
<1> QED
  BY <1>4, <1>6, <1>7, <1>8 DEF Work

\* A request that is refused, an answer that is lost, a request that is sent again.
LEMMA AnswerWork ==
  ASSUME TypeOK, NEW c \in Call, Work(c), Spans(c), Refuse(c) \/ LoseAnswer(c) \/ Retry(c)
  PROVE  Work(c)' /\ Spans(c)'
<1>1. /\ UNCHANGED <<jobs, plan, pc, step, job, seen, polls, sleep, waited, looked, result>>
      /\ answer[c] \in {"none", "ok", "forbidden", "error"} /\ answer'[c] # "ok"
  BY DEF Refuse, LoseAnswer, Retry, clock, TypeOK
<1>2. answer'[c] \in {"none", "forbidden"} => answer[c] \in {"none", "forbidden"}
  BY DEF Refuse, LoseAnswer, Retry, Waits, TypeOK
<1>3. /\ KindOf(c)' = KindOf(c) /\ Late(c)' = Late(c)
      /\ \A k : JobsOf(c, k)' = JobsOf(c, k) /\ Done(c, k)' = Done(c, k)
  BY <1>1 DEF KindOf, Late, JobsOf, Done, Succeeded
<1>4. Planned(c)'
  <2>1. pc[c] \notin {"idle", "sleep", "done"}
    BY DEF Work, Planned, Refuse, Waits, LoseAnswer, Retry
  <2>2. QED
    BY <1>1, <1>3, <2>1 DEF Work, Planned
<1>5. Tasked(c)'
  <2>1. (Unasked(c)' => Unasked(c)) /\ (Awaits(c)' => Awaits(c))
    BY <1>1, <1>2, <1>3 DEF Unasked, Awaits
  <2>2. QED
    BY <1>1, <1>3, <2>1 DEF Work, Tasked
<1>6. Behind(c)'
  BY <1>1, <1>3 DEF Work, Behind, AllDone
<1>7. Spans(c)'
  BY <1>1, <1>3 DEF Spans
<1> QED
  BY <1>4, <1>5, <1>6, <1>7 DEF Work

LEMMA ServeWork ==
  ASSUME TypeOK, JobExits, NEW c \in Call, Work(c), Spans(c), Serve(c)
  PROVE  Work(c)' /\ Spans(c)'
<1>1. /\ Waits(c) /\ answer'[c] = "ok" /\ answer[c] = "none"
      /\ UNCHANGED <<plan, pc, step, polls, sleep, waited, result>>
  BY DEF Serve, Waits, TypeOK
<1>2. pc[c] \in {"find", "ask", "poll"} /\ result[c] = "none" /\ step[c] \in 1 .. Len(plan[c])
  BY <1>1 DEF Waits, Work, Planned, TypeOK
<1>3. KindOf(c)' = KindOf(c)
  BY <1>1 DEF KindOf
<1>4. Planned(c)'
  BY <1>1, <1>2, <1>3 DEF Work, Planned
<1>5. CASE jobs' = jobs /\ UNCHANGED job
  <2>1. /\ \A k : JobsOf(c, k)' = JobsOf(c, k) /\ Done(c, k)' = Done(c, k)
    BY <1>1, <1>5 DEF JobsOf, Done, Succeeded
  <2>2. Behind(c)'
    BY <1>1, <1>2, <2>1 DEF Work, Behind
  <2>3. pc[c] = "ask" => KindOf(c) \notin TaskKind \cup {"exec", "config"}
    <3>1. SUFFICES ASSUME pc[c] = "ask", KindOf(c) \in TaskKind \cup {"exec", "config"}
                   PROVE  FALSE
      OBVIOUS
    <3>2. PICK e : jobs' = Append(jobs, [by |-> c, step |-> step[c], kind |-> KindOf(c),
                                         node |-> node[c], exit |-> e])
      BY <3>1 DEF Serve, Starts, TaskKind
    <3>3. QED
      BY <1>5, <3>2, JobsType
  <2>4. (Unasked(c)' => Unasked(c)) /\ (Awaits(c)' => Awaits(c))
    BY <1>1, <1>3, <2>3 DEF Unasked, Awaits
  <2>5. pc[c] = "poll" /\ seen'[c] # "unknown" =>
          seen'[c] \notin {"running", "gone"} /\ jobs[job[c]].exit = seen'[c]
    <3>1. SUFFICES ASSUME pc[c] = "poll", seen'[c] # "unknown"
                   PROVE  seen'[c] \notin {"running", "gone"} /\ jobs[job[c]].exit = seen'[c]
      OBVIOUS
    <3>2. /\ Known(c)
          /\ seen'[c] = IF jobs[job[c]].exit = "running" THEN "unknown" ELSE jobs[job[c]].exit
      BY <3>1 DEF Serve, Reads, TypeOK
    <3>3. KindOf(c) = "exec" => jobs[job[c]].exit # "gone"
      BY <3>2 DEF Known
    <3>4. KindOf(c) # "exec" => jobs[job[c]].exit # "gone"
      BY <3>1 DEF Work, Tasked, Awaits, JobsOf, JobExits
    <3>5. QED
      BY <3>1, <3>2, <3>3, <3>4
  <2>6. Tasked(c)'
    BY <1>1, <1>3, <1>5, <2>1, <2>3, <2>4, <2>5 DEF Work, Tasked
  <2>7. Spans(c)'
    <3>1. pc[c] = "poll" /\ KindOf(c) \in TaskKind => looked'[c] = waited[c]
      BY DEF Serve, TaskKind, TypeOK
    <3>2. QED
      BY <1>1, <1>2, <1>3, <3>1 DEF Spans
  <2>8. QED
    BY <1>4, <2>2, <2>6, <2>7 DEF Work
<1>6. CASE ~(jobs' = jobs /\ UNCHANGED job)
  <2>1. PICK e : /\ pc[c] = "ask" /\ Starts(c, e) /\ UNCHANGED looked
                 /\ \/ KindOf(c) \in TaskKind \cup {"exec"}
                    \/ KindOf(c) = "config" /\ e = "OK"
    BY <1>6 DEF Serve, Reads
  <2> DEFINE n == Len(jobs) + 1
  <2>2. /\ DOMAIN jobs' = DOMAIN jobs \cup {n} /\ n \notin DOMAIN jobs
        /\ \A j \in DOMAIN jobs : jobs'[j] = jobs[j]
        /\ jobs'[n].by = c /\ jobs'[n].step = step[c] /\ jobs'[n].kind = KindOf(c)
        /\ jobs'[n].exit = e
        /\ job'[c] = n /\ UNCHANGED seen
    <3> DEFINE new == [by |-> c, step |-> step[c], kind |-> KindOf(c), node |-> node[c], exit |-> e]
    <3>1. jobs' = Append(jobs, new) /\ job' = [job EXCEPT ![c] = n] /\ UNCHANGED seen
      BY <2>1 DEF Starts
    <3>2. new.by = c /\ new.step = step[c] /\ new.kind = KindOf(c) /\ new.exit = e
      OBVIOUS
    <3>3. jobs \in Seq(Job) /\ DOMAIN jobs = 1 .. Len(jobs) /\ Len(jobs) \in Nat
      BY JobsType
    <3> HIDE DEF new
    <3>4. /\ DOMAIN jobs' = DOMAIN jobs \cup {n} /\ n \notin DOMAIN jobs
          /\ \A j \in DOMAIN jobs : jobs'[j] = jobs[j]
          /\ jobs'[n] = new
      BY <3>1, <3>3
    <3>5. job'[c] = n
      BY <3>1 DEF TypeOK
    <3>6. QED
      BY <3>1, <3>2, <3>4, <3>5
  <2> HIDE DEF n
  <2>3. Unasked(c) /\ ~Unasked(c)'
    BY <1>1, <1>3, <2>1 DEF Unasked, TaskKind
  <2>4. \A j \in DOMAIN jobs : jobs[j].by = c =>
          jobs[j].step \in 1 .. step[c] /\ jobs[j].step # step[c]
    BY <2>3 DEF Work, Tasked
  <2>5. Tasked(c)'
    <3>1. \A j \in DOMAIN jobs' : jobs'[j].by = c =>
            \/ j = n
            \/ /\ j \in DOMAIN jobs /\ jobs[j].by = c /\ jobs'[j].step = jobs[j].step
               /\ jobs'[j].step \in 1 .. step[c] /\ jobs'[j].step # step[c]
      BY <2>2, <2>4
    <3>2. \A j \in DOMAIN jobs' : jobs'[j].by = c => jobs'[j].step \in 1 .. step[c]
      <4>1. step[c] \in 1 .. step[c]
        BY <1>2
      <4>2. QED
        BY <2>2, <3>1, <4>1
    <3>3. \A i, j \in DOMAIN jobs' :
            jobs'[i].by = c /\ jobs'[j].by = c /\ jobs'[i].step = jobs'[j].step => i = j
      BY <2>2, <3>1 DEF Work, Tasked
    <3>4. job'[c] \in JobsOf(c, step[c])' /\ jobs'[job'[c]].kind = KindOf(c)
      BY <1>1, <2>2 DEF JobsOf
    <3>5. KindOf(c) = "config" => jobs'[job'[c]].exit = "OK"
      BY <2>1, <2>2 DEF TaskKind
    <3>6. pc'[c] # "poll" /\ UNCHANGED <<step, pc>>
      BY <1>1, <2>1
    <3>7. QED
      BY <1>3, <2>3, <3>2, <3>3, <3>4, <3>5, <3>6 DEF Tasked
  <2>6. Behind(c)'
    <3>1. \A k : Done(c, k) => Done(c, k)'
      BY <1>1, <2>2 DEF Done, JobsOf, Succeeded
    <3>2. QED
      BY <1>1, <1>2, <3>1 DEF Work, Behind
  <2>7. Spans(c)'
    BY <1>1, <1>2, <2>1 DEF Spans
  <2>8. QED
    BY <1>4, <2>5, <2>6, <2>7 DEF Work
<1>7. QED
  BY <1>5, <1>6

LEMMA HandleWork ==
  ASSUME TypeOK, JobExits, NEW c \in Call, Work(c), Spans(c), Handle(c)
  PROVE  Work(c)' /\ Spans(c)'
<1>1. /\ pc[c] \notin {"idle", "sleep", "done"} /\ result[c] = "none"
      /\ step[c] \in 1 .. Len(plan[c]) /\ KindOf(c) = plan[c][step[c]]
  <2>1. answer[c] # "none"
    BY DEF Handle, Retry, Fails, OnNode, OnConfig, OnList, OnStatus, OnPosted, OnTask, OnExec, Heard
  <2>2. pc[c] \notin {"idle", "sleep", "done"}
    BY <2>1 DEF Work, Planned
  <2>3. QED
    BY <2>2 DEF Work, Planned, KindOf, TypeOK
\* An end in failure, and a place that nothing is said of the clock in.
<1>2. ASSUME End(c, "failed")
      PROVE  Work(c)' /\ Spans(c)'
  BY <1>1, <1>2, EndWork, EndSpans
<1>3. ASSUME End(c, "ok"), AllDone(c)
      PROVE  Work(c)' /\ Spans(c)'
  BY <1>1, <1>3, EndWork, EndSpans
<1>4. ASSUME End(c, "timeout"), Late(c)
      PROVE  Work(c)' /\ Spans(c)'
  BY <1>1, <1>4, EndWork, EndSpans
<1>5. ASSUME NEW w, Goto(c, w), UNCHANGED <<plan, step, result>>, w \in {"find", "ask"} \/ KindOf(c) \notin TaskKind
      PROVE  Spans(c)'
  <2>1. pc'[c] = w /\ result'[c] = "none" /\ KindOf(c)' = KindOf(c)
    BY <1>1, <1>5 DEF Goto, KindOf, TypeOK
  <2>2. QED
    BY <1>5, <2>1 DEF Spans
<1>6. CASE Retry(c)
  BY <1>6, AnswerWork
<1>7. CASE Fails(c)
  BY <1>2, <1>7 DEF Fails
<1>8. CASE OnNode(c)
  <2>1. CASE Goto(c, "ask") /\ UNCHANGED <<step, job, clock, result>>
    <3>1. Unasked(c) /\ UNCHANGED plan
      BY <1>8, <2>1 DEF OnNode, Heard, Unasked, Goto
    <3>2. QED
      BY <1>1, <1>5, <2>1, <3>1, PlaceWork
  <2>2. QED
    BY <1>2, <1>8, <2>1 DEF OnNode
<1>9. CASE OnConfig(c)
  <2>1. pc[c] = "ask" /\ answer[c] = "ok" /\ KindOf(c) = "config" /\ Proceed(c)
    BY <1>9 DEF OnConfig, Heard
  <2>2. Done(c, step[c])
    BY <1>1, <2>1 DEF Work, Tasked, Awaits, Done, Succeeded
  <2>3. QED
    BY <1>1, <2>1, <2>2, ProceedWork
<1>10. CASE OnList(c)
  <2>1. KindOf(c) = "list"
    BY <1>10 DEF OnList
  <2>2. plan[c][1] = "list"
    BY <1>1, <2>1 DEF Work, Planned
  <2>3. seen[c] = "listed" => AllDone(c)
    BY <2>2 DEF AllDone
  <2>4. QED
    BY <1>1, <1>3, <1>10, <2>1, <2>3, ProceedWork DEF OnList
<1>11. CASE OnStatus(c)
  <2>1. KindOf(c) = "status"
    BY <1>11 DEF OnStatus
  <2>2. AllDone(c)
    <3>1. Len(plan[c]) = 1
      BY <1>1, <2>1 DEF Work, Planned
    <3>2. \A k \in 1 .. Len(plan[c]) : plan[c][k] = "status"
      <4>1. \A k \in 1 .. Len(plan[c]) : k = step[c]
        BY <1>1, <3>1
      <4>2. QED
        BY <1>1, <2>1, <4>1
    <3>3. QED
      BY <3>2 DEF AllDone
  <2>3. waited[c] >= WaitTimeout => Late(c)
    BY <2>1 DEF Late
  <2>4. CASE SleepFor(c, Interval)
    <3>1. Goto(c, "sleep") /\ UNCHANGED <<plan, step, job, result>>
      BY <2>4 DEF SleepFor, Goto
    <3>2. KindOf(c) \notin TaskKind
      BY <2>1 DEF TaskKind
    <3>3. QED
      BY <1>1, <1>5, <2>1, <3>1, <3>2, PlaceWork
  <2>5. QED
    BY <1>3, <1>4, <1>11, <2>2, <2>3, <2>4 DEF OnStatus
<1>12. CASE OnPosted(c)
  <2>1. Awaits(c) /\ KindOf(c) \in TaskKind \cup {"exec"}
    BY <1>12 DEF OnPosted, Heard, Awaits
  <2>2. CASE KindOf(c) = "exec"
    <3>1. Goto(c, "sleep") /\ UNCHANGED <<plan, step, job, result>>
      BY <1>12, <2>2 DEF OnPosted, SleepFor, Goto
    <3>2. KindOf(c) \notin TaskKind
      BY <2>2 DEF TaskKind
    <3>3. QED
      BY <1>1, <1>5, <2>1, <3>1, <3>2, PlaceWork
  <2>3. CASE KindOf(c) # "exec"
    <3>1. Goto(c, "poll") /\ UNCHANGED <<plan, step, job, result>>
      BY <1>12, <2>3 DEF OnPosted, Goto
    <3>2. /\ pc'[c] = "poll" /\ answer'[c] = "none" /\ result'[c] = "none"
          /\ polls'[c] = 0 /\ waited'[c] = 0
      BY <1>1, <1>12, <2>3, <3>1 DEF OnPosted, Goto, TypeOK
    <3>3. Spans(c)'
      BY <3>2, DueBounds, AttemptsSpan DEF Spans
    <3>4. QED
      BY <1>1, <2>1, <3>1, <3>3, PlaceWork
  <2>4. QED
    BY <2>2, <2>3
<1>13. CASE OnTask(c)
  <2>1. pc[c] = "poll" /\ answer[c] = "ok" /\ KindOf(c) \in TaskKind /\ Awaits(c)
    BY <1>13 DEF OnTask, Heard, Awaits
  <2>2. /\ polls[c] < Attempts /\ waited[c] >= Due(polls[c]) /\ looked[c] >= Due(polls[c])
    BY <2>1 DEF Spans
  <2>3. CASE seen[c] = "unknown"
    <3>1. /\ SleepFor(c, Interval) /\ polls' = [polls EXCEPT ![c] = @ + 1]
          /\ UNCHANGED <<delay, waited>>
      BY <1>13, <2>3 DEF OnTask
    <3>2. Goto(c, "sleep") /\ UNCHANGED <<plan, step, job, result>>
      BY <3>1 DEF SleepFor, Goto
    <3>3. /\ pc'[c] = "sleep" /\ result'[c] = "none" /\ polls'[c] = polls[c] + 1
          /\ sleep'[c] = Interval /\ waited'[c] = waited[c] /\ looked'[c] = looked[c]
      BY <1>1, <3>1, <3>2 DEF SleepFor, Goto, TypeOK
    <3>4. polls[c] \in Nat /\ waited[c] \in Nat /\ looked[c] \in Nat /\ Interval \in Nat
      BY AttemptsSpan, HorizonBounds, TimeAssumption DEF TypeOK
    <3>5. Due(polls[c] + 1) <= Due(polls[c]) + Interval /\ Due(polls[c]) \in Nat
          /\ Due(polls[c] + 1) \in Nat
      BY <3>4, DueBounds
    <3>6. waited'[c] + sleep'[c] >= Due(polls'[c])
      BY <2>2, <3>3, <3>4, <3>5
    <3>7. polls'[c] > 0 /\ looked'[c] >= Due(polls'[c] - 1)
      <4>1. polls'[c] - 1 = polls[c] /\ polls'[c] > 0
        BY <3>3, <3>4
      <4>2. QED
        BY <2>2, <3>3, <4>1
    <3>8. Spans(c)'
      BY <3>3, <3>6, <3>7 DEF Spans
    <3>9. QED
      BY <1>1, <2>1, <3>2, <3>8, PlaceWork
  <2>4. CASE seen[c] = "OK"
    <3>1. Proceed(c)
      BY <1>13, <2>4 DEF OnTask
    <3>2. Done(c, step[c])
      BY <1>1, <2>1, <2>4 DEF Work, Tasked, Done, Succeeded, TaskKind
    <3>3. QED
      BY <1>1, <3>1, <3>2, ProceedWork
  <2>5. CASE seen[c] \notin {"unknown", "OK"}
    BY <1>2, <1>13, <2>5 DEF OnTask
  <2>6. QED
    BY <2>3, <2>4, <2>5
<1>14. CASE OnExec(c)
  <2>1. pc[c] = "poll" /\ answer[c] = "ok" /\ KindOf(c) = "exec" /\ Awaits(c)
    BY <1>14 DEF OnExec, Heard, Awaits
  <2>2. CASE seen[c] # "unknown"
    <3>1. Proceed(c)
      BY <1>14, <2>2 DEF OnExec
    <3>2. Done(c, step[c])
      BY <1>1, <2>1, <2>2 DEF Work, Tasked, Done, Succeeded, JobsOf, JobExits
    <3>3. QED
      BY <1>1, <3>1, <3>2, ProceedWork
  <2>3. CASE seen[c] = "unknown" /\ waited[c] >= ExecTimeout
    <3>1. Late(c)
      BY <2>1, <2>3 DEF Late
    <3>2. QED
      BY <1>4, <1>14, <2>3, <3>1 DEF OnExec
  <2>4. CASE seen[c] = "unknown" /\ ~(waited[c] >= ExecTimeout)
    <3>1. PICK t : SleepFor(c, t)
      BY <1>14, <2>4 DEF OnExec
    <3>2. Goto(c, "sleep") /\ UNCHANGED <<plan, step, job, result>> /\ KindOf(c) \notin TaskKind
      BY <2>1, <3>1 DEF SleepFor, Goto, TaskKind
    <3>3. QED
      BY <1>1, <1>5, <2>1, <3>2, PlaceWork
  <2>5. QED
    BY <2>2, <2>3, <2>4
<1>15. QED
  BY <1>6, <1>7, <1>8, <1>9, <1>10, <1>11, <1>12, <1>13, <1>14 DEF Handle

LEMMA WakeWork ==
  ASSUME TypeOK, NEW c \in Call, Work(c), Spans(c), Wake(c) \/ Abort(c)
  PROVE  Work(c)' /\ Spans(c)'
<1>1. /\ pc[c] = "sleep" /\ sleep[c] = 0 /\ result[c] = "none"
      /\ KindOf(c) \in TaskKind \cup {"exec", "status"}
  BY DEF Wake, Abort, Work, Planned, TypeOK
<1>2. /\ polls[c] \in 0 .. Attempts /\ Attempts \in Nat /\ waited[c] \in Nat /\ looked[c] \in Nat
  BY AttemptsSpan, HorizonBounds DEF TypeOK
<1>3. CASE End(c, "failed")
  BY <1>1, <1>3, EndWork, EndSpans
<1>4. CASE KindOf(c) \in TaskKind /\ polls[c] >= Attempts /\ End(c, "timeout")
  <2>1. polls[c] = Attempts
    BY <1>2, <1>4
  <2>2. waited[c] + 0 >= Due(Attempts) /\ looked[c] >= Due(Attempts - 1)
    BY <1>1, <1>4, <2>1 DEF Spans
  <2>3. waited[c] >= TaskTimeout /\ looked[c] >= (Attempts - 1) * Interval
    <3>1. Due(Attempts) \in Nat /\ Due(Attempts - 1) \in Nat /\ TaskTimeout \in Nat
      BY AttemptsSpan, DueBounds, TimeAssumption
    <3>2. (Attempts - 1) * Interval \in Int
      BY AttemptsSpan, TimeAssumption
    <3>3. QED
      BY <1>2, <2>2, <3>1, <3>2, DueBounds
  <2>4. Late(c)
    BY <1>4, <2>3 DEF Late, TaskKind
  <2>5. QED
    BY <1>1, <1>4, <2>4, EndWork, EndSpans
<1>5. CASE Goto(c, "find") /\ KindOf(c) = "status" /\ UNCHANGED <<step, job, clock, result>>
  <2>1. Work(c)'
    BY <1>1, <1>5, PlaceWork
  <2>2. pc'[c] = "find" /\ result'[c] = "none"
    BY <1>1, <1>5 DEF Goto, TypeOK
  <2>3. QED
    BY <2>1, <2>2 DEF Spans
<1>6. CASE /\ Goto(c, "poll") /\ KindOf(c) # "status" /\ UNCHANGED <<step, job, clock, result>>
           /\ ~(KindOf(c) \in TaskKind /\ polls[c] >= Attempts)
  <2>1. Awaits(c) /\ KindOf(c) \in TaskKind \cup {"exec"}
    BY <1>1, <1>6 DEF Awaits
  <2>2. Work(c)'
    BY <1>1, <1>6, <2>1, PlaceWork
  <2>3. /\ pc'[c] = "poll" /\ answer'[c] = "none" /\ result'[c] = "none" /\ KindOf(c)' = KindOf(c)
        /\ polls'[c] = polls[c] /\ waited'[c] = waited[c]
    BY <1>1, <1>6 DEF Goto, KindOf, clock, TypeOK
  <2>4. KindOf(c) \in TaskKind => polls[c] < Attempts /\ waited[c] >= Due(polls[c])
    <3>1. SUFFICES ASSUME KindOf(c) \in TaskKind
                   PROVE  polls[c] < Attempts /\ waited[c] >= Due(polls[c])
      OBVIOUS
    <3>2. waited[c] + 0 >= Due(polls[c])
      BY <1>1, <3>1 DEF Spans
    <3>3. QED
      BY <1>2, <1>6, <3>1, <3>2
  <2>5. QED
    BY <2>2, <2>3, <2>4 DEF Spans
<1>7. QED
  BY <1>1, <1>3, <1>4, <1>5, <1>6 DEF Wake, Abort

LEMMA StepWork ==
  ASSUME TypeOK, JobExits, NEW c \in Call, Work(c), Spans(c), Step(c)
  PROVE  TypeOK' /\ Work(c)' /\ Spans(c)'
<1>1. Planned(c) /\ Tasked(c)
  BY DEF Work
<1>2. CASE StartCall(c)
  BY <1>2, StartTypes, StartWork
<1>3. CASE Serve(c)
  BY <1>1, <1>3, ServeTypes, ServeWork
<1>4. CASE Refuse(c) \/ LoseAnswer(c)
  BY <1>4, OtherTypes, AnswerWork
<1>5. CASE Handle(c)
  BY <1>1, <1>5, HandleTypes, HandleWork
<1>6. CASE Wake(c) \/ Abort(c)
  BY <1>6, OtherTypes, WakeWork
<1>7. QED
  BY <1>2, <1>3, <1>4, <1>5, <1>6 DEF Step

\* Only a request that is served changes the jobs.
LEMMA JobsByServe ==
  ASSUME NEW c \in Call, StartCall(c) \/ Refuse(c) \/ LoseAnswer(c) \/ Handle(c) \/ Wake(c) \/ Abort(c)
  PROVE  jobs' = jobs
<1>1. ASSUME NEW how, End(c, how)
      PROVE  jobs' = jobs
  BY <1>1 DEF End, Goto
<1>2. ASSUME NEW t, SleepFor(c, t)
      PROVE  jobs' = jobs
  BY <1>2 DEF SleepFor, Goto
<1>3. ASSUME Proceed(c)
      PROVE  jobs' = jobs
  BY <1>1, <1>3 DEF Proceed, Goto
<1>4. CASE StartCall(c)
  BY <1>4, StartForm DEF Begin
<1>5. CASE Refuse(c) \/ LoseAnswer(c)
  BY <1>5 DEF Refuse, LoseAnswer
<1>6. CASE Wake(c) \/ Abort(c)
  BY <1>1, <1>6 DEF Wake, Abort, Goto
<1>7. CASE Retry(c) \/ Fails(c) \/ OnNode(c) \/ OnConfig(c) \/ OnList(c)
  BY <1>1, <1>3, <1>7 DEF Retry, Fails, OnNode, OnConfig, OnList, Goto
<1>8. CASE OnStatus(c) \/ OnPosted(c)
  BY <1>1, <1>2, <1>8 DEF OnStatus, OnPosted, Goto
<1>9. CASE OnTask(c) \/ OnExec(c)
  BY <1>1, <1>2, <1>3, <1>9 DEF OnTask, OnExec
<1>10. QED
  BY <1>4, <1>5, <1>6, <1>7, <1>8, <1>9 DEF Handle

\* A job that is started has yet to end; a config is set at once.
LEMMA StepExits ==
  ASSUME TypeOK, JobExits, NEW c \in Call, Step(c)
  PROVE  JobExits'
<1>1. CASE jobs' = jobs
  BY <1>1 DEF JobExits
<1>2. CASE jobs' # jobs
  <2>1. Serve(c)
    BY <1>2, JobsByServe DEF Step
  <2>2. PICK e : /\ Starts(c, e)
                 /\ e = "running" \/ (KindOf(c) = "config" /\ e = "OK")
    BY <1>2, <2>1 DEF Serve, Reads
  <2> DEFINE n == Len(jobs) + 1
  <2>3. /\ DOMAIN jobs' = DOMAIN jobs \cup {n}
        /\ \A j \in DOMAIN jobs : jobs'[j] = jobs[j]
        /\ jobs'[n].kind = KindOf(c) /\ jobs'[n].exit = e
    BY <2>2, JobsType DEF Starts
  <2> HIDE DEF n
  <2>4. QED
    BY <2>2, <2>3 DEF JobExits
<1>3. QED
  BY <1>1, <1>2

-----------------------------------------------------------------------------
(* The clock *)

LEMMA TickSpans ==
  ASSUME TypeOK, Tick, NEW c \in Call, Spans(c), Planned(c)
  PROVE  Spans(c)'
<1>1. /\ UNCHANGED <<plan, pc, step, answer, polls, looked, result>>
      /\ waited'[c] = IF Timed(c) THEN Least(waited[c] + 1, Horizon) ELSE waited[c]
      /\ sleep'[c] = IF sleep[c] > 0 THEN sleep[c] - 1 ELSE 0
  BY DEF Tick, request
<1>2. /\ waited[c] \in 0 .. Horizon /\ looked[c] \in Nat /\ polls[c] \in Nat
      /\ sleep[c] \in Nat /\ Horizon \in Nat
  BY AttemptsSpan, HorizonBounds, TimeAssumption DEF TypeOK
<1>3. /\ waited'[c] >= waited[c] /\ waited'[c] \in Nat
      /\ waited[c] < Horizon /\ Timed(c) => waited'[c] = waited[c] + 1
      /\ waited[c] = Horizon => waited'[c] = Horizon
  BY <1>1, <1>2 DEF Least
<1>4. KindOf(c)' = KindOf(c)
  BY <1>1 DEF KindOf
<1>5. ASSUME pc[c] = "poll", KindOf(c) \in TaskKind
      PROVE  /\ polls'[c] < Attempts /\ waited'[c] >= Due(polls'[c])
             /\ answer'[c] = "ok" => looked'[c] >= Due(polls'[c])
  <2>1. /\ polls[c] < Attempts /\ waited[c] >= Due(polls[c])
        /\ answer[c] = "ok" => looked[c] >= Due(polls[c])
    BY <1>5 DEF Spans
  <2>2. Due(polls[c]) \in Nat
    BY <1>2, DueBounds
  <2>3. waited'[c] >= Due(polls[c])
    BY <1>2, <1>3, <2>1, <2>2
  <2>4. QED
    BY <1>1, <2>1, <2>3
<1>6. ASSUME pc[c] = "sleep", KindOf(c) \in TaskKind
      PROVE  /\ polls'[c] > 0 /\ looked'[c] >= Due(polls'[c] - 1)
             /\ waited'[c] + sleep'[c] >= Due(polls'[c])
  <2>1. /\ polls[c] > 0 /\ looked[c] >= Due(polls[c] - 1)
        /\ waited[c] + sleep[c] >= Due(polls[c])
    BY <1>6 DEF Spans
  <2>2. Due(polls[c]) \in Nat /\ Due(polls[c]) <= Horizon
    BY <1>2, DueBounds
  <2>3. Timed(c)
    BY <1>6 DEF Timed
  <2>4. waited'[c] + sleep'[c] >= Due(polls[c])
    <3>1. sleep'[c] \in Nat /\ sleep'[c] + 1 >= sleep[c]
      BY <1>1, <1>2
    <3>2. QED
      BY <1>2, <1>3, <2>1, <2>2, <2>3, <3>1
  <2>5. QED
    BY <1>1, <2>1, <2>4
<1>7. ASSUME result[c] = "timeout"
      PROVE  Late(c)'
  <2>1. Late(c)
    BY <1>7 DEF Spans
  <2>2. pc[c] = "done"
    BY <1>7 DEF Planned
  <2>3. waited'[c] = waited[c]
    BY <1>1, <2>2 DEF Timed
  <2>4. QED
    BY <1>1, <1>4, <2>1, <2>3 DEF Late
<1>8. QED
  BY <1>1, <1>4, <1>5, <1>6, <1>7 DEF Spans

-----------------------------------------------------------------------------
(* The inductive invariant *)

LEMMA InitIInv == Init => IInv
<1> SUFFICES ASSUME Init PROVE IInv
  OBVIOUS
<1>1. TypeOK
  BY InitTypes
<1>2. jobs = <<>> /\ DOMAIN jobs = {}
  BY DEF Init
<1>3. JobExits
  BY <1>2 DEF JobExits
<1>4. ASSUME NEW c \in Call
      PROVE  Work(c) /\ Spans(c)
  <2>1. /\ plan[c] = <<>> /\ pc[c] = "idle" /\ step[c] = 0 /\ answer[c] = "none"
        /\ result[c] = "none"
    BY DEF Init
  <2>2. Planned(c)
    BY <2>1 DEF Planned
  <2>3. Tasked(c)
    BY <1>2, <2>1 DEF Tasked, Awaits
  <2>4. Behind(c)
    BY <2>1 DEF Behind
  <2>5. Spans(c)
    BY <2>1 DEF Spans
  <2>6. QED
    BY <2>2, <2>3, <2>4, <2>5 DEF Work
<1>5. QED
  BY <1>1, <1>3, <1>4 DEF IInv

\* The same jobs under other exits, the same calls.
LEMMA OthersKeep ==
  ASSUME IInv, TypeOK', JobExits', Kept(jobs, jobs'), DOMAIN jobs' = DOMAIN jobs,
         UNCHANGED <<plan, pc, step, request, clock, result>>
  PROVE  IInv'
<1>1. ASSUME NEW d \in Call
      PROVE  Work(d)' /\ Spans(d)'
  <2>1. TypeOK /\ Work(d) /\ Spans(d)
    BY DEF IInv
  <2>2. Same(d) /\ sleep'[d] = sleep[d] /\ waited'[d] = waited[d]
    BY DEF Same, request, clock
  <2>3. NoneOf(d)
    BY DEF NoneOf
  <2>4. QED
    BY <2>1, <2>2, <2>3, Bystander, BystanderSpans
<1>2. QED
  BY <1>1 DEF IInv

LEMMA NextIInv == IInv /\ [Next]_vars => IInv'
<1> SUFFICES ASSUME IInv, [Next]_vars PROVE IInv'
  OBVIOUS
<1>1. TypeOK /\ JobExits /\ \A c \in Call : Work(c) /\ Spans(c)
  BY DEF IInv
<1>2. ASSUME NEW c \in Call, Step(c)
      PROVE  IInv'
  <2>1. TypeOK' /\ Work(c)' /\ Spans(c)'
    BY <1>1, <1>2, StepWork
  <2>2. JobExits'
    BY <1>1, <1>2, StepExits
  <2>3. ASSUME NEW d \in Call, d # c
        PROVE  Work(d)' /\ Spans(d)'
    <3>1. /\ Same(d) /\ sleep'[d] = sleep[d] /\ waited'[d] = waited[d]
          /\ Kept(jobs, jobs') /\ NoneOf(d)
      BY <1>1, <1>2, <2>3, StepSame
    <3>2. QED
      BY <1>1, <3>1, Bystander, BystanderSpans
  <2>4. QED
    BY <2>1, <2>2, <2>3 DEF IInv
<1>3. CASE \E j \in DOMAIN jobs : JobEnds(j)
  BY <1>1, <1>3, JobEndsKeeps, OthersKeep
<1>4. CASE Disturb
  BY <1>1, <1>4, DisturbKeeps, OthersKeep
<1>5. CASE Tick
  <2>1. TypeOK'
    BY <1>1, <1>5, TickTypes
  <2>2. UNCHANGED <<jobs, plan, pc, step, answer, job, seen, polls, looked, result>>
    BY <1>5 DEF Tick, request
  <2>3. JobExits'
    BY <1>1, <2>2 DEF JobExits
  <2>4. ASSUME NEW d \in Call
        PROVE  Work(d)' /\ Spans(d)'
    <3>1. Same(d)
      BY <2>2 DEF Same
    <3>2. Spans(d)'
      BY <1>1, <1>5, TickSpans DEF Work
    <3>3. QED
      BY <1>1, <2>2, <3>1, <3>2, Bystander, JobsKeptWhenSame
  <2>5. QED
    BY <2>1, <2>3, <2>4 DEF IInv
<1>6. CASE UNCHANGED vars
  <2>1. UNCHANGED <<vm, jobs, plan, pc, step, request, clock, result>>
    BY <1>6 DEF vars
  <2>2. TypeOK'
    BY <1>1, <2>1 DEF request, clock, TypeOK
  <2>3. JobExits'
    BY <1>1, <2>1 DEF JobExits
  <2>4. QED
    BY <2>1, <2>2, <2>3, OthersKeep, JobsKeptWhenSame
<1>7. QED
  BY <1>2, <1>3, <1>4, <1>5, <1>6 DEF Next, Step

LEMMA Inductive == Spec => []IInv
BY InitIInv, NextIInv, PTL DEF Spec

-----------------------------------------------------------------------------
\* Every variable keeps its type: also a call that is overtaken by the others, loses its
\* answers or outlives its VM counts no more polls than maxAttempts, and remembers a upid
\* or pid that PVE gave out (waitForTask, guestExec).
THEOREM TypeCorrect == Spec => []TypeOK
<1>1. IInv => TypeOK
  BY DEF IInv
<1> QED
  BY <1>1, Inductive, PTL

\* A call that reports success has done what it says, however many calls run on the VM:
\* every step of its plan was carried out, and its own task or process has ended well
\* (the handlers that await waitForTask and guestExec).
THEOREM SuccessIsDone == Spec => []OkIsDone
<1>1. IInv => OkIsDone
  BY DEF IInv, Work, Behind, AllDone, Done, OkIsDone
<1> QED
  BY <1>1, Inductive, PTL

\* PVE does each step of a call at most once, though a refused request is sent again, and
\* begins it only when the step before has ended well (request, reset, vm_create).
THEOREM AskedOnceInOrder == Spec => []OnceInOrder
<1>1. ASSUME IInv, NEW c \in Call, NEW k \in 1 .. Len(plan[c])
      PROVE  /\ \A i, j \in JobsOf(c, k) : i = j
             /\ k > 1 /\ JobsOf(c, k) # {} =>
                  plan[c][k - 1] = "list" \/ \E j \in JobsOf(c, k - 1) : Succeeded(j)
  <2>1. TypeOK /\ Tasked(c) /\ Behind(c) /\ Planned(c)
    BY <1>1 DEF IInv, Work
  <2>2. \A i, j \in JobsOf(c, k) : i = j
    BY <2>1 DEF Tasked, JobsOf
  <2>3. ASSUME k > 1, JobsOf(c, k) # {}
        PROVE  plan[c][k - 1] = "list" \/ \E j \in JobsOf(c, k - 1) : Succeeded(j)
    <3>1. step[c] \in Nat /\ k \in 1 .. step[c]
      <4>1. PICK j \in JobsOf(c, k) : TRUE
        BY <2>3
      <4>2. QED
        BY <2>1, <4>1 DEF Tasked, JobsOf, TypeOK
    <3>2. k - 1 \in 1 .. Len(plan[c]) /\ k - 1 < step[c]
      BY <2>1, <2>3, <3>1 DEF TypeOK
    <3>3. QED
      BY <2>1, <3>2 DEF Behind, Done
  <2>4. QED
    BY <2>2, <2>3
<1>2. IInv => OnceInOrder
  BY <1>1 DEF OnceInOrder
<1> QED
  BY <1>2, Inductive, PTL

\* A call gives up only after its whole timeout, for any timeout and interval, also when the
\* one is no multiple of the other (maxAttempts of waitForTask, the deadlines of guestExec
\* and waitFor).
THEOREM GivesUpOnlyLate == Spec => []GivesUpLate
<1>1. IInv => GivesUpLate
  BY DEF IInv, Spans, Late, GivesUpLate
<1> QED
  BY <1>1, Inductive, PTL
=============================================================================
