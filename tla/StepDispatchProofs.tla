------------------------- MODULE StepDispatchProofs -------------------------
(***************************************************************************)
(* Why a reported success was executed, why an agent executes a task twice *)
(* only after two requests met between the look into its table and the     *)
(* entry, and why nothing is executed that nobody waits for.               *)
(*                                                                         *)
(* A request is in the hands of an agent only while its client waits for   *)
(* the answer, or after the client gave up (InHands).  So what an agent    *)
(* executes for a client that still waits is the one execution of its task, *)
(* and the table says so (Watched): a verdict can only follow its end.     *)
(***************************************************************************)
EXTENDS StepDispatch, TLAPS

Remote == {"dispatch", "awaitRun", "poll"}

(* The retries of the round are negative: there is no attempt.             *)
NoTries == RetriesNow < 0

(* Where a goroutine can be, and what its counters are then.               *)
Places ==
  \A h \in Hosts :
    /\ at[h] \in Remote => h \notin Locals /\ goes[h] > 0
    /\ at[h] = "local" => h \in Locals /\ goes[h] > 0
    /\ at[h] = "ok" => NoTries \/ goes[h] > 0
    /\ at[h] \notin {"dispatch", "awaitRun"} => try[h] = 0
    /\ at[h] \in {"idle", "ok", "failed"} => attempt[h] = 0
    /\ round = 0 => at[h] = "idle"
    /\ round > 0 => (h \in Targets[step] \/ at[h] = "idle")

(* The executor is within a step, or not.                                  *)
Within ==
  /\ round > 0 => run = "running"
  /\ \A s \in StepIds : status[s] = "running" => s = step /\ round > 0

(* What was not sent yet, and what was not executed yet.                   *)
Ahead(r) ==
  LET h == r[1] IN
  \/ h \in Locals
  \/ r[2] > goes[h]
  \/ r[2] = goes[h] /\ at[h] = "dispatch" /\ r[3] >= try[h]
  \/ r[2] = goes[h] /\ at[h] = "awaitRun" /\ r[3] > try[h]

Unsent == \A r \in Requests : Ahead(r) => call[r] = "none"

Unexecuted ==
  \A r \in Requests :
    r[1] \notin Locals /\ call[r] \in {"none", "sent", "looked"} => work[r] = "none"

(* A local host executes the task of its goroutine and nothing else.       *)
LocalWork ==
  /\ \A h \in Hosts : at[h] = "local" => work[Req(h)] = "busy"
  /\ \A r \in Requests :
       r[1] \in Locals =>
         /\ work[r] # "none" => r[3] = 0 /\ r[2] <= goes[r[1]]
         /\ work[r] = "busy" => r[2] = goes[r[1]] /\ at[r[1]] = "local"

(* Every word of success stands for an execution, or for a round without a *)
(* single attempt.                                                         *)
Done(h, n) == \E k \in 0..RetryMax : work[<<h, n, k>>] = "success"

Backed ==
  /\ \A h \in Hosts : at[h] = "ok" => NoTries \/ Done(h, goes[h])
  /\ \A h \in Hosts : at[h] = "awaitRun" /\ call[Req(h)] = "success" => Done(h, goes[h])
  /\ \A t \in Tasks : entry[t] = "success" => Done(t[1], t[2])

(* An agent that has not restarted knows what it executes; a handler that  *)
(* has looked and found nothing was overtaken by no other, or raced.       *)
Known1 ==
  \A r \in Requests :
    r[1] \notin Locals /\ restarts[r[1]] = 0 /\ work[r] # "none" => entry[TaskOf(r)] # "none"

Overtaken ==
  \A q, r \in Requests :
    (/\ TaskOf(q) = TaskOf(r) /\ q # r /\ restarts[r[1]] = 0
     /\ call[r] = "looked"
     /\ call[q] = "looked" \/ (r[1] \notin Locals /\ work[q] # "none"))
    => TaskOf(r) \in raced

(* A request that an agent still works on is awaited, or given up.         *)
InHands ==
  \A r \in Requests :
    call[r] \in {"sent", "looked", "serving"} => Awaited(r) \/ TaskOf(r) \in gaveUp

Watched ==
  \A r \in Requests :
    r[1] \notin Locals /\ work[r] = "busy" /\ TaskOf(r) \notin gaveUp =>
      /\ entry[TaskOf(r)] = "running"
      /\ \/ Awaited(r) /\ call[r] \in {"serving", "running"}
         \/ r[2] = goes[r[1]] /\ at[r[1]] = "poll"
      /\ \A q \in Requests : TaskOf(q) = TaskOf(r) /\ work[q] = "busy" => q = r

IInv ==
  /\ TypeOK /\ Places /\ Within
  /\ Unsent /\ Unexecuted /\ LocalWork
  /\ Backed
  /\ Known1 /\ Overtaken /\ TwiceOnlyInTheGap
  /\ InHands /\ Watched

-----------------------------------------------------------------------------
(* Facts used everywhere.                                                  *)

LEMMA Pairs ==
  ASSUME NEW r \in Requests
  PROVE  /\ r = <<r[1], r[2], r[3]>>
         /\ r[1] \in Hosts /\ r[2] \in 1..MaxTasks /\ r[3] \in 0..RetryMax
         /\ TaskOf(r) \in Tasks
  BY DEF Requests, Tasks, TaskOf

LEMMA Ready ==
  ASSUME TypeOK, NEW h \in Hosts, goes[h] > 0
  PROVE  Req(h) \in Requests /\ Task(h) \in Tasks /\ TaskOf(Req(h)) = Task(h)
  BY DispatchAssumption DEF TypeOK, Req, Task, TaskOf, Requests, Tasks

(***************************************************************************)
(* What a step of a goroutine does, put into five kinds.  A kind says      *)
(* where the goroutine goes and what that means for its request.           *)
(***************************************************************************)
Beside == UNCHANGED <<live, run, step, status, round, entry, restarts, raced>>

(* The client closes the connection if it has one.                         *)
Hangs(h) ==
  /\ at[h] = "awaitRun" => HangUp(h)
  /\ at[h] # "awaitRun" => call' = call

(* It leaves with a verdict, or gives up.                                  *)
Settles(h) ==
  /\ gaveUp' = gaveUp \/ (at[h] \in {"awaitRun", "poll"} /\ GiveUp(h))
  /\ at[h] = "awaitRun" => call[Req(h)] \in Verdicts \/ GiveUp(h)
  /\ at[h] = "poll" => entry[Task(h)] # "running" \/ GiveUp(h)

Begins(h) ==
  /\ at[h] = "attempt" /\ goes[h] < MaxTasks
  /\ goes' = [goes EXCEPT ![h] = goes[h] + 1]
  /\ \/ /\ h \in Locals /\ at' = [at EXCEPT ![h] = "local"]
        /\ work' = [work EXCEPT ![<<h, goes[h] + 1, 0>>] = "busy"]
     \/ h \notin Locals /\ at' = [at EXCEPT ![h] = "dispatch"] /\ work' = work
  /\ Beside /\ UNCHANGED <<attempt, try, call, gaveUp>>

(* Why a goroutine may report success.                                     *)
Earned(h) ==
  \/ at[h] = "attempt" /\ NoTries
  \/ at[h] = "local" /\ work'[Req(h)] = "success"
  \/ at[h] = "awaitRun" /\ call[Req(h)] = "success"
  \/ at[h] = "poll" /\ entry[Task(h)] = "success"

Returned(h) ==
  \/ at[h] = "local" /\ \E o \in Verdicts : work' = [work EXCEPT ![Req(h)] = o]
  \/ at[h] # "local" /\ work' = work

Goes(h, p) ==
  /\ at' = [at EXCEPT ![h] = p]
  /\ \E n \in Nat :
       /\ attempt' = [attempt EXCEPT ![h] = n]
       /\ n > 0 => p = "attempt" /\ n <= RetriesNow
  /\ try' = [try EXCEPT ![h] = 0]

Quits(h) ==
  /\ at[h] \notin {"idle", "ok", "failed"}
  /\ Goes(h, "attempt") \/ Goes(h, "failed") \/ (Goes(h, "ok") /\ Earned(h))
  /\ Returned(h) /\ Hangs(h) /\ Settles(h)
  /\ Beside /\ goes' = goes

Repeats(h) ==
  /\ at[h] \in {"dispatch", "awaitRun"} /\ try[h] < RetryMax
  /\ at' = [at EXCEPT ![h] = "dispatch"] /\ try' = [try EXCEPT ![h] = try[h] + 1]
  /\ Hangs(h) /\ Settles(h)
  /\ Beside /\ UNCHANGED <<attempt, goes, work>>

Sends(h) ==
  /\ at[h] = "dispatch" /\ at' = [at EXCEPT ![h] = "awaitRun"]
  /\ call' = [call EXCEPT ![Req(h)] = "sent"]
  /\ Beside /\ UNCHANGED <<attempt, goes, try, work, gaveUp>>

Polls(h) ==
  /\ at[h] = "awaitRun" /\ call[Req(h)] = "running"
  /\ at' = [at EXCEPT ![h] = "poll"] /\ try' = [try EXCEPT ![h] = 0]
  /\ HangUp(h)
  /\ Beside /\ UNCHANGED <<attempt, goes, work, gaveUp>>

HostKind(h) == Begins(h) \/ Quits(h) \/ Repeats(h) \/ Sends(h) \/ Polls(h)

LEMMA Working ==
  ASSUME TypeOK, Places, NEW h \in Hosts, at[h] # "idle"
  PROVE  /\ round > 0 /\ step \in StepIds /\ RetriesNow \in Int
         /\ attempt[h] \in Nat /\ (attempt[h] > 0 => attempt[h] <= RetriesNow)
         /\ h \in Targets[step]
  <1>1. round > 0 /\ step \in StepIds
    BY DEF TypeOK, Places, StepIds
  <1>2. RetriesNow \in Int
    <2>1. round \in 1..Rounds[step]
      BY <1>1, DispatchAssumption DEF TypeOK, StepIds
    <2> QED
      BY <1>1, <2>1, DispatchAssumption DEF StepIds, RetriesNow
  <1> QED
    BY <1>1, <1>2 DEF TypeOK, Places

LEMMA Leaving ==
  ASSUME NEW h \in Hosts, NEW p, Leaves(h, p)
  PROVE  Goes(h, p)
  <1>1. 0 \in Nat /\ ~(0 > 0) /\ attempt' = [attempt EXCEPT ![h] = 0]
    BY DEF Leaves
  <1> QED
    BY <1>1 DEF Leaves, Goto, Goes

LEMMA Failing ==
  ASSUME TypeOK, Places, NEW h \in Hosts, at[h] # "idle", TaskFails(h)
  PROVE  Goes(h, "attempt") \/ Goes(h, "failed")
  <1>1. CASE attempt[h] < RetriesNow
    <2>1. attempt[h] + 1 \in Nat /\ attempt[h] + 1 <= RetriesNow
      BY <1>1, Working
    <2> QED
      BY <1>1, <2>1 DEF TaskFails, Goto, Goes
  <1>2. CASE ~(attempt[h] < RetriesNow)
    BY <1>2, Leaving DEF TaskFails
  <1> QED
    BY <1>1, <1>2

LEMMA Trying ==
  ASSUME NEW h \in Hosts, TryFails(h)
  PROVE  \/ /\ try[h] < RetryMax /\ at' = [at EXCEPT ![h] = "dispatch"]
            /\ try' = [try EXCEPT ![h] = try[h] + 1] /\ attempt' = attempt
         \/ TaskFails(h)
  BY DEF TryFails, Goto

LEMMA HostKinds ==
  ASSUME TypeOK, Places, NEW h \in Hosts, HostStep(h)
  PROVE  HostKind(h)
  <1> USE DEF evars, avars, hvars, Beside, HostKind
  <1>1. CASE Attempt(h)
    BY <1>1 DEF Attempt, Goto, Begins
  <1>2. CASE NoAttempt(h)
    BY <1>2, Leaving DEF NoAttempt, Quits, Returned, Hangs, Settles
  <1>12. CASE NoLoop(h)
    <2>1. at[h] = "attempt" /\ ~(attempt[h] <= RetriesNow)
      BY <1>12 DEF NoLoop, Entered
    <2>2. NoTries
      BY <2>1, Working DEF NoTries
    <2> QED
      BY <1>12, <2>1, <2>2, Leaving
         DEF NoLoop, Succeeds, Quits, Earned, Returned, Hangs, Settles
  <1>3. ASSUME NEW o \in Verdicts, LocalReturns(h, o) PROVE Quits(h)
    <2>1. Returned(h) /\ Hangs(h) /\ Settles(h)
      BY <1>3 DEF LocalReturns, Returned, Hangs, Settles
    <2>2. CASE o = "success" /\ Succeeds(h)
      <3>1. Req(h) \in Requests
        BY <1>3, Ready DEF LocalReturns, Places
      <3>2. Earned(h)
        BY <1>3, <2>2, <3>1 DEF LocalReturns, Earned, TypeOK
      <3> QED
        BY <1>3, <2>1, <2>2, <3>2, Leaving DEF LocalReturns, Succeeds, Quits
    <2>3. CASE TaskFails(h)
      BY <1>3, <2>1, <2>3, Failing DEF LocalReturns, Quits
    <2> QED
      BY <1>3, <2>2, <2>3 DEF LocalReturns
  <1>4. CASE Send(h)
    BY <1>4 DEF Send, Goto, Sends
  <1>5. CASE HeartbeatFails(h)
    BY <1>5, Failing, Trying DEF HeartbeatFails, Quits, Repeats, Returned, Hangs, Settles
  <1>6. CASE TakeAnswer(h)
    <2>1. CASE call[Req(h)] = "running" /\ Goto(h, "poll") /\ try' = [try EXCEPT ![h] = 0] /\ attempt' = attempt
      BY <1>6, <2>1 DEF TakeAnswer, Goto, Polls
    <2>2. CASE call[Req(h)] = "success" /\ Succeeds(h)
      BY <1>6, <2>2, Leaving DEF TakeAnswer, Succeeds, Quits, Earned, Returned, Hangs, Settles, Verdicts
    <2>3. CASE call[Req(h)] = "failed" /\ TryFails(h)
      BY <1>6, <2>3, Failing, Trying DEF TakeAnswer, Quits, Repeats, Returned, Hangs, Settles, Verdicts
    <2> QED
      BY <1>6, <2>1, <2>2, <2>3 DEF TakeAnswer
  <1>7. CASE RequestTimeout(h)
    BY <1>7, Failing, Trying DEF RequestTimeout, Quits, Repeats, Returned, Hangs, Settles
  <1>8. CASE RequestEnds(h)
    BY <1>8, Failing DEF RequestEnds, Quits, Returned, Hangs, Settles
  <1>9. CASE NoRequest(h)
    BY <1>9, Failing DEF NoRequest, Quits, Returned, Hangs, Settles
  <1>10. CASE TakeStatus(h)
    <2>1. CASE entry[Task(h)] = "success" /\ Succeeds(h)
      BY <1>10, <2>1, Leaving DEF TakeStatus, Succeeds, Quits, Earned, Returned, Hangs, Settles
    <2>2. CASE entry[Task(h)] \in {"failed", "none"} /\ TaskFails(h)
      BY <1>10, <2>2, Failing DEF TakeStatus, Quits, Returned, Hangs, Settles
    <2> QED
      BY <1>10, <2>1, <2>2 DEF TakeStatus
  <1>11. CASE PollBreaks(h)
    BY <1>11, Failing DEF PollBreaks, Quits, Returned, Hangs, Settles
  <1> QED
    BY <1>1, <1>2, <1>3, <1>4, <1>5, <1>6, <1>7, <1>8, <1>9, <1>10, <1>11, <1>12 DEF HostStep

-----------------------------------------------------------------------------
(* The types, and where a goroutine can be.                                *)

LEMMA TypesStart == Init => TypeOK /\ Places /\ Within
  <1> SUFFICES ASSUME Init PROVE TypeOK /\ Places /\ Within
    OBVIOUS
  <1>1. TypeOK
    BY DispatchAssumption DEF Init, TypeOK, StepIds, CallState, WorkState, Verdicts
  <1> QED
    BY <1>1 DEF Init, Places, Within, Remote, TypeOK

(* The part of the types that a goroutine changes.                         *)
HostsTyped ==
  /\ at \in [Hosts -> {"idle", "attempt", "dispatch", "awaitRun", "poll", "local",
                       "ok", "failed"}]
  /\ attempt \in [Hosts -> Nat]
  /\ \A h \in Hosts : attempt[h] > 0 => round > 0 /\ attempt[h] <= RetriesNow
  /\ goes \in [Hosts -> 0..MaxTasks]
  /\ try \in [Hosts -> 0..RetryMax]

RequestsTyped == call \in [Requests -> CallState] /\ work \in [Requests -> WorkState]

LEMMA MovesTyped ==
  ASSUME TypeOK, Places, NEW h \in Hosts, HostKind(h)
  PROVE  HostsTyped'
  <1> USE DispatchAssumption DEF HostsTyped, Beside, RetriesNow
  <1>0. HostsTyped
    BY DEF TypeOK
  <1>1. CASE Begins(h)
    <2>1. goes' \in [Hosts -> 0..MaxTasks]
      BY <1>0, <1>1 DEF Begins
    <2> QED
      BY <1>0, <1>1, <2>1 DEF Begins
  <1>2. CASE Quits(h)
    <2>1. PICK p \in {"attempt", "ok", "failed"} : Goes(h, p)
      BY <1>2 DEF Quits
    <2>2. PICK n \in Nat : /\ attempt' = [attempt EXCEPT ![h] = n]
                           /\ n > 0 => n <= RetriesNow
      BY <2>1 DEF Goes
    <2>3. round > 0 /\ RetriesNow' = RetriesNow /\ round' = round
      BY <1>2, Working DEF Quits, RetriesNow
    <2>4. attempt' \in [Hosts -> Nat]
      BY <2>2, <2>3 DEF TypeOK
    <2>5. ASSUME NEW g \in Hosts, attempt'[g] > 0 PROVE (round > 0 /\ attempt[g] <= RetriesNow)'
      BY <2>2, <2>3, <2>5 DEF TypeOK
    <2> QED
      BY <1>0, <1>2, <2>1, <2>4, <2>5 DEF Goes, Quits
  <1>3. CASE Repeats(h)
    BY <1>0, <1>3 DEF Repeats
  <1>4. CASE Sends(h)
    BY <1>0, <1>4 DEF Sends
  <1>5. CASE Polls(h)
    BY <1>0, <1>5 DEF Polls
  <1> QED
    BY <1>1, <1>2, <1>3, <1>4, <1>5 DEF HostKind

LEMMA MovesRequestsTyped ==
  ASSUME TypeOK, Places, NEW h \in Hosts, HostKind(h)
  PROVE  RequestsTyped' /\ gaveUp' \subseteq Tasks
  <1> USE DEF RequestsTyped, CallState, WorkState, Verdicts
  <1>1. call' \in [Requests -> CallState]
    BY DEF HostKind, Begins, Quits, Repeats, Sends, Polls, Hangs, HangUp, TypeOK
  <1>2. work' \in [Requests -> WorkState]
    BY DEF HostKind, Begins, Quits, Repeats, Sends, Polls, Returned, TypeOK
  <1>3. gaveUp' \subseteq Tasks
    <2>1. at[h] \in {"awaitRun", "poll"} => Task(h) \in Tasks
      BY Ready DEF Places, Remote
    <2> QED
      BY <2>1 DEF HostKind, Begins, Quits, Repeats, Sends, Polls, Settles, GiveUp, TypeOK
  <1> QED
    BY <1>1, <1>2, <1>3

LEMMA HostTypes ==
  ASSUME TypeOK, Places, NEW h \in Hosts, HostKind(h)
  PROVE  TypeOK'
  <1>1. HostsTyped' /\ RequestsTyped' /\ gaveUp' \subseteq Tasks
    BY MovesTyped, MovesRequestsTyped
  <1>2. Beside
    BY DEF HostKind, Begins, Quits, Repeats, Sends, Polls
  <1> QED
    BY <1>1, <1>2 DEF HostsTyped, RequestsTyped, Beside, TypeOK

(* A step of the executor leaves the goroutines alone, or it starts or ends *)
(* them when none is under way.                                            *)
Still ==
  /\ UNCHANGED <<hvars, avars, gaveUp, round>>
  /\ step' = step \/ round = 0

Resets ==
  /\ \A h \in Hosts : at[h] \in {"idle", "ok", "failed"}
  /\ at' \in [Hosts -> {"idle", "attempt"}]
  /\ \A h \in Hosts : at'[h] = "attempt" => round' > 0 /\ step' = step /\ h \in Targets[step]
  /\ UNCHANGED <<attempt, goes, try, avars, gaveUp>>

LEMMA Resting ==
  ASSUME Places, Joined \/ round = 0, NEW h \in Hosts
  PROVE  at[h] \in {"idle", "ok", "failed"}
  BY DEF Places, Joined

LEMMA ExecutorKinds ==
  ASSUME TypeOK, Places, ExecutorStep \/ CancelRun
  PROVE  Still \/ Resets
  <1> USE DEF Still, Resets
  <1>1. CASE SkipStep \/ RefuseStep \/ FailMustVars \/ RunReturns \/ CancelRun
    BY <1>1 DEF SkipStep, RefuseStep, FailMustVars, RunReturns, CancelRun, Choosing, evars
  <1>2. CASE BeginStep
    BY <1>2, Resting DEF BeginStep, Choosing, StartHosts, TypeOK
  <1>3. CASE NextRound
    BY <1>3, Resting DEF NextRound, StartHosts, Joined, TypeOK
  <1>4. CASE StepSucceeds
    BY <1>4, Resting DEF StepSucceeds, FinishStep
  <1>5. CASE StepFails
    BY <1>5, Resting DEF StepFails, FinishStep
  <1> QED
    BY <1>1, <1>2, <1>3, <1>4, <1>5 DEF ExecutorStep

LEMMA ExecutorTypes ==
  ASSUME TypeOK, Places, Within, ExecutorStep \/ CancelRun
  PROVE  TypeOK'
  <1>1. HostsTyped /\ RequestsTyped
    BY DEF TypeOK, HostsTyped, RequestsTyped
  <1>2. (live \in BOOLEAN /\ run \in {"running", "ok", "failed"} /\ step \in 1..(LastStep + 1))'
    <2>1. live' \in BOOLEAN /\ run' \in {"running", "ok", "failed"}
      BY DEF ExecutorStep, SkipStep, RefuseStep, FailMustVars, BeginStep, NextRound, StepSucceeds,
             StepFails, RunReturns, CancelRun, FinishStep, TypeOK, evars
    <2>2. step' = step \/ (step \in StepIds /\ step' = step + 1)
      BY DEF ExecutorStep, SkipStep, RefuseStep, FailMustVars, BeginStep, NextRound, StepSucceeds,
             StepFails, RunReturns, CancelRun, Choosing, Joined, TypeOK, StepIds, evars
    <2>3. step' \in 1..(LastStep + 1)
      <3>1. step \in 1..(LastStep + 1) /\ LastStep \in Nat
        BY DispatchAssumption DEF TypeOK
      <3> QED
        BY <2>2, <3>1 DEF StepIds
    <2> QED
      BY <2>1, <2>3
  <1>3. (status \in [StepIds -> {"none", "running", "success", "failed"}])'
    <2>1. PICK x \in {"running", "success", "failed"} :
            status' = status \/ status' = [status EXCEPT ![step] = x]
      BY DEF ExecutorStep, SkipStep, RefuseStep, FailMustVars, BeginStep, NextRound, StepSucceeds,
             StepFails, RunReturns, CancelRun, FinishStep, evars
    <2> QED
      BY <2>1 DEF TypeOK
  <1>4. (round \in Nat /\ (round > 0 => step <= LastStep /\ round <= Rounds[step]))'
    <2>1. CASE BeginStep
      <3>1. step \in StepIds /\ Rounds[step] \in Nat \ {0}
        BY <2>1, DispatchAssumption DEF BeginStep, Choosing, TypeOK, StepIds
      <3> QED
        BY <2>1, <3>1 DEF BeginStep, StepIds
    <2>2. CASE NextRound
      <3>1. step \in StepIds /\ Rounds[step] \in Nat /\ round \in Nat
        BY <2>2, DispatchAssumption DEF NextRound, Joined, TypeOK, StepIds
      <3> QED
        BY <2>2, <3>1 DEF NextRound, StepIds
    <2>3. CASE StepSucceeds \/ StepFails
      BY <2>3 DEF StepSucceeds, StepFails, FinishStep
    <2>4. CASE SkipStep
      BY <2>4 DEF SkipStep, Choosing
    <2>5. CASE RefuseStep \/ FailMustVars \/ RunReturns \/ CancelRun
      BY <2>5 DEF RefuseStep, FailMustVars, RunReturns, CancelRun, TypeOK, evars
    <2> QED
      BY <2>1, <2>2, <2>3, <2>4, <2>5 DEF ExecutorStep
  <1>5. (attempt \in [Hosts -> Nat] /\ goes \in [Hosts -> 0..MaxTasks] /\ try \in [Hosts -> 0..RetryMax]
         /\ at \in [Hosts -> {"idle", "attempt", "dispatch", "awaitRun", "poll", "local", "ok", "failed"}])'
    BY <1>1, ExecutorKinds DEF HostsTyped, Still, Resets, hvars
  <1>6. (\A h \in Hosts : attempt[h] > 0 => round > 0 /\ attempt[h] <= RetriesNow)'
    <2>1. CASE Still
      <3> SUFFICES ASSUME NEW h \in Hosts, attempt[h] > 0 PROVE round' > 0 /\ attempt[h] <= RetriesNow'
        BY <2>1 DEF Still, hvars
      <3>1. at[h] \notin {"idle", "ok", "failed"} /\ round > 0
        BY <1>1 DEF HostsTyped, Places
      <3>2. round' = round /\ step' = step
        BY <3>1, Resting DEF ExecutorStep, SkipStep, RefuseStep, FailMustVars, BeginStep, NextRound, StepSucceeds,
             StepFails, RunReturns, CancelRun, Choosing, evars
      <3> QED
        BY <1>1, <3>2 DEF HostsTyped, RetriesNow
    <2>2. CASE Resets
      BY <1>1, <2>2 DEF Resets, HostsTyped, Places
    <2> QED
      BY <2>1, <2>2, ExecutorKinds
  <1>7. UNCHANGED <<call, work, entry, restarts, raced, gaveUp>>
    BY ExecutorKinds DEF Still, Resets, avars
  <1> QED
    BY <1>1, <1>2, <1>3, <1>4, <1>5, <1>6, <1>7 DEF TypeOK

LEMMA AgentTypes ==
  ASSUME TypeOK, AgentStep
  PROVE  TypeOK'
  <1> USE DEF TypeOK, CallState, WorkState, Verdicts, Reply, evars, hvars, RetriesNow
  <1>1. ASSUME NEW r \in Requests, Reject(r) PROVE TypeOK'
    BY <1>1 DEF Reject
  <1>2. ASSUME NEW r \in Requests, Known(r) PROVE TypeOK'
    BY <1>2, Pairs DEF Known
  <1>3. ASSUME NEW r \in Requests, Unknown(r) PROVE TypeOK'
    BY <1>3, Pairs DEF Unknown
  <1>4. ASSUME NEW r \in Requests, Enter(r) PROVE TypeOK'
    BY <1>4, Pairs DEF Enter
  <1>5. ASSUME NEW r \in Requests, NEW o \in Verdicts, Finish(r, o) PROVE TypeOK'
    BY <1>5, Pairs DEF Finish
  <1>6. ASSUME NEW r \in Requests, Answer(r) PROVE TypeOK'
    BY <1>6 DEF Answer
  <1>7. ASSUME NEW h \in Hosts, AgentRestarts(h) PROVE TypeOK'
    <2>1. restarts' \in [Hosts -> 0..MaxRestarts]
      BY <1>7, DispatchAssumption DEF AgentRestarts
    <2>2. call' \in [Requests -> CallState] /\ work' \in [Requests -> WorkState]
      BY <1>7 DEF AgentRestarts
    <2> QED
      BY <1>7, <2>1, <2>2 DEF AgentRestarts
  <1> QED
    BY <1>1, <1>2, <1>3, <1>4, <1>5, <1>6, <1>7 DEF AgentStep

LEMMA TypesKept ==
  ASSUME TypeOK, Places, Within, [Next]_vars
  PROVE  TypeOK'
  <1>1. CASE UNCHANGED vars
    BY <1>1 DEF vars, evars, hvars, avars, TypeOK, RetriesNow
  <1> QED
    BY <1>1, HostTypes, HostKinds, ExecutorTypes, AgentTypes DEF Next

LEMMA HostPlaces ==
  ASSUME TypeOK, Places, NEW h \in Hosts, HostKind(h)
  PROVE  Places'
  <1>0. HostsTyped /\ round' = round /\ step' = step /\ NoTries' = NoTries
    BY DEF TypeOK, HostsTyped, HostKind, Begins, Quits, Repeats, Sends, Polls, Beside, NoTries,
           RetriesNow
  <1>1. at[h] # "idle" /\ round > 0 /\ h \in Targets[step]
    BY Working DEF HostKind, Begins, Quits, Repeats, Sends, Polls
  <1>2. ASSUME NEW g \in Hosts, g # h
        PROVE  at'[g] = at[g] /\ goes'[g] = goes[g] /\ try'[g] = try[g] /\ attempt'[g] = attempt[g]
    BY <1>0, <1>2 DEF HostsTyped, HostKind, Begins, Quits, Goes, Repeats, Sends, Polls
  <1>3. /\ at'[h] \in Remote => h \notin Locals /\ goes'[h] > 0
        /\ at'[h] = "local" => h \in Locals /\ goes'[h] > 0
        /\ at'[h] = "ok" => NoTries' \/ goes'[h] > 0
    BY <1>0 DEF HostsTyped, HostKind, Begins, Quits, Goes, Repeats, Sends, Polls, Earned, Places, Remote
  <1>4. at'[h] \notin {"dispatch", "awaitRun"} => try'[h] = 0
    BY <1>0 DEF HostsTyped, HostKind, Begins, Quits, Goes, Repeats, Sends, Polls, Places
  <1>5. at'[h] # "idle" /\ (at'[h] \in {"ok", "failed"} => attempt'[h] = 0)
    BY <1>0, <1>1 DEF HostsTyped, HostKind, Begins, Quits, Goes, Repeats, Sends, Polls
  <1> QED
    BY <1>0, <1>1, <1>2, <1>3, <1>4, <1>5 DEF Places

LEMMA PlacesKept ==
  ASSUME TypeOK, Places, [Next]_vars
  PROVE  Places'
  <1>1. CASE AgentStep \/ UNCHANGED vars
    <2>1. UNCHANGED <<hvars, round, step>>
      BY <1>1 DEF AgentStep, Reject, Known, Unknown, Enter, Finish, Answer, AgentRestarts, vars, evars
    <2> QED
      BY <2>1 DEF hvars, Places, NoTries, RetriesNow
  <1>2. CASE Still
    BY <1>2 DEF Still, hvars, Places, Remote, NoTries, RetriesNow
  <1>3. CASE Resets
    BY <1>3 DEF Resets, Places, Remote, TypeOK
  <1> QED
    BY <1>1, <1>2, <1>3, HostPlaces, HostKinds, ExecutorKinds DEF Next

LEMMA WithinKept ==
  ASSUME TypeOK, Within, [Next]_vars
  PROVE  Within'
  <1>1. CASE UNCHANGED <<run, step, status, round>>
    BY <1>1 DEF Within
  <1>2. CASE SkipStep
    BY <1>2 DEF SkipStep, Choosing, Within
  <1>3. CASE RefuseStep
    BY <1>3 DEF RefuseStep, Choosing, Within
  <1>4. CASE FailMustVars
    BY <1>4 DEF FailMustVars, Choosing, Within, TypeOK
  <1>5. CASE BeginStep
    BY <1>5 DEF BeginStep, Choosing, Within, TypeOK
  <1>6. CASE NextRound
    BY <1>6 DEF NextRound, Joined, Within, TypeOK
  <1>7. CASE StepSucceeds
    BY <1>7 DEF StepSucceeds, FinishStep, Within, TypeOK
  <1>8. CASE StepFails
    BY <1>8 DEF StepFails, FinishStep, Within, TypeOK
  <1>9. CASE RunReturns
    BY <1>9, DispatchAssumption DEF RunReturns, Within, TypeOK
  <1>10. CASE CancelRun \/ AgentStep \/ (\E h \in Hosts : HostStep(h)) \/ UNCHANGED vars
    BY <1>1, <1>10 DEF CancelRun, AgentStep, Reject, Known, Unknown, Enter, Finish, Answer, AgentRestarts,
         HostStep, Attempt, NoAttempt, NoLoop, LocalReturns, Send, HeartbeatFails, TakeAnswer, RequestTimeout,
         RequestEnds, NoRequest, TakeStatus, PollBreaks, vars, evars
  <1> QED
    BY <1>2, <1>3, <1>4, <1>5, <1>6, <1>7, <1>8, <1>9, <1>10 DEF Next, ExecutorStep

-----------------------------------------------------------------------------
(* Requests go out in order, are looked up before they are executed, and a *)
(* local host executes one task at a time.                                 *)

LEMMA Named ==
  ASSUME NEW r \in Requests, NEW h \in Hosts
  PROVE  r = Req(h) <=> r[1] = h /\ r[2] = goes[h] /\ r[3] = try[h]
  BY Pairs DEF Req

(* What a step of a goroutine leaves alone.                                *)
LEMMA Others ==
  ASSUME TypeOK, NEW h \in Hosts, HostKind(h)
  PROVE  /\ Beside
         /\ \A g \in Hosts \ {h} : at'[g] = at[g] /\ goes'[g] = goes[g] /\ try'[g] = try[g]
         /\ \A r \in Requests : r # Req(h) => call'[r] = call[r]
         /\ \A r \in Requests : r[1] # h => work'[r] = work[r]
         /\ gaveUp \subseteq gaveUp'
  <1> USE DEF HostKind, Begins, Quits, Goes, Repeats, Sends, Polls
  <1>1. Beside
    OBVIOUS
  <1>2. \A g \in Hosts \ {h} : at'[g] = at[g] /\ goes'[g] = goes[g] /\ try'[g] = try[g]
    BY DEF TypeOK
  <1>3. \A r \in Requests : r # Req(h) => call'[r] = call[r]
    BY DEF Hangs, HangUp, TypeOK
  <1>4. ASSUME NEW r \in Requests, r[1] # h PROVE work'[r] = work[r]
    <2>1. r # Req(h) /\ r # <<h, goes[h] + 1, 0>>
      BY <1>4 DEF Req
    <2> QED
      BY <2>1 DEF Returned, TypeOK
  <1>5. gaveUp \subseteq gaveUp'
    BY DEF Settles, GiveUp
  <1> QED
    BY <1>1, <1>2, <1>3, <1>4, <1>5

LEMMA HostUnsent ==
  ASSUME TypeOK, Places, Unsent, NEW h \in Hosts, HostKind(h)
  PROVE  Unsent'
  <1> SUFFICES ASSUME NEW r \in Requests, Ahead(r)' PROVE call'[r] = "none"
    BY DEF Unsent
  <1>1. CASE r[1] # h
    <2>1. r # Req(h) /\ r[1] \in Hosts \ {h}
      BY <1>1, Pairs, Named
    <2> QED
      BY <2>1, Others DEF Ahead, Unsent
  <1>2. CASE r[1] = h
    <2>1. CASE h \in Locals
      BY <1>2, <2>1 DEF Ahead, Unsent, Places, Remote, HostKind, Begins, Quits, Repeats, Sends, Polls, Hangs
    <2>2. CASE h \notin Locals
      <3>0. HostsTyped /\ RetryMax \in Nat /\ r[2] \in Nat /\ r[3] \in Nat
        BY SMTT(40), Pairs, DispatchAssumption DEF TypeOK, HostsTyped
      <3>1. CASE Begins(h)
        <4>1. try[h] = 0 /\ at'[h] = "dispatch" /\ goes'[h] = goes[h] + 1 /\ call' = call
          BY <2>2, <3>0, <3>1 DEF Begins, HostsTyped, Places
        <4> QED
          BY <1>2, <2>2, <3>0, <4>1 DEF Ahead, Unsent, HostsTyped
      <3>2. CASE Quits(h)
        <4>1. at'[h] \in {"attempt", "ok", "failed"} /\ goes' = goes
          BY <3>0, <3>2 DEF Quits, Goes, HostsTyped
        <4>2. r[2] > goes[h]
          BY <1>2, <2>2, <4>1 DEF Ahead
        <4> QED
          BY <1>2, <3>0, <4>2, Named, Others DEF Ahead, Unsent, HostsTyped
      <3>3. CASE Repeats(h)
        <4>1. at'[h] = "dispatch" /\ goes' = goes /\ try'[h] = try[h] + 1
          BY <3>0, <3>3 DEF Repeats, HostsTyped
        <4>2. r[2] > goes[h] \/ (r[2] = goes[h] /\ r[3] > try[h])
          BY <1>2, <2>2, <3>0, <4>1 DEF Ahead, HostsTyped
        <4>3. Ahead(r) /\ r # Req(h)
          BY <1>2, <3>0, <3>3, <4>2, Named DEF Repeats, Ahead, HostsTyped
        <4> QED
          BY <4>3, Others DEF Unsent
      <3>4. CASE Sends(h)
        <4>1. at'[h] = "awaitRun" /\ goes' = goes /\ try' = try
          BY <3>0, <3>4 DEF Sends, HostsTyped
        <4>2. Ahead(r) /\ r # Req(h)
          BY <1>2, <2>2, <3>0, <3>4, <4>1, Named DEF Sends, Ahead, HostsTyped
        <4> QED
          BY <4>2, Others DEF Unsent
      <3>5. CASE Polls(h)
        <4>1. at'[h] = "poll" /\ goes' = goes
          BY <3>0, <3>5 DEF Polls, HostsTyped
        <4>2. r[2] > goes[h]
          BY <1>2, <2>2, <4>1 DEF Ahead
        <4> QED
          BY <1>2, <3>0, <4>2, Named, Others DEF Ahead, Unsent, HostsTyped
      <3> QED
        BY <3>1, <3>2, <3>3, <3>4, <3>5 DEF HostKind
    <2> QED
      BY <2>1, <2>2
  <1> QED
    BY <1>1, <1>2

LEMMA HostUnexecuted ==
  ASSUME TypeOK, Places, Unsent, Unexecuted, NEW h \in Hosts, HostKind(h)
  PROVE  Unexecuted'
  <1> SUFFICES ASSUME NEW r \in Requests, r[1] \notin Locals, call'[r] \in {"none", "sent", "looked"}
               PROVE work'[r] = "none"
    BY DEF Unexecuted
  <1>1. work'[r] = work[r]
    <2>1. CASE r[1] # h
      BY <2>1, Others
    <2>2. CASE r[1] = h
      BY <2>2 DEF HostKind, Begins, Quits, Repeats, Sends, Polls, Returned, Places
    <2> QED
      BY <2>1, <2>2
  <1>2. call[r] \in {"none", "sent", "looked"}
    <2>1. CASE r = Req(h)
      <3>1. CASE Sends(h)
        <4>1. Ahead(r)
          BY <2>1, <3>1, Pairs, Named DEF Sends, Ahead
        <4> QED
          BY <4>1 DEF Unsent
      <3>2. CASE ~Sends(h)
        BY <2>1, <3>2 DEF HostKind, Begins, Quits, Repeats, Polls, Hangs, HangUp, TypeOK
      <3> QED
        BY <3>1, <3>2
    <2>2. CASE r # Req(h)
      BY <2>2, Others
    <2> QED
      BY <2>1, <2>2
  <1> QED
    BY <1>1, <1>2 DEF Unexecuted

LEMMA HostLocalWork ==
  ASSUME TypeOK, Places, LocalWork, NEW h \in Hosts, HostKind(h)
  PROVE  LocalWork'
  <1>0. HostsTyped /\ work \in [Requests -> WorkState] /\ RetryMax \in Nat
    BY DispatchAssumption DEF TypeOK, HostsTyped
  <1>1. ASSUME NEW g \in Hosts, at'[g] = "local" PROVE work'[Req(g)'] = "busy"
    <2>1. CASE g # h
      <3>1. at[g] = "local" /\ Req(g)' = Req(g) /\ g \in Hosts \ {h}
        BY <1>1, <2>1, Others DEF Req
      <3>2. Req(g) \in Requests /\ Req(g)[1] # h
        BY <2>1, <3>1, Ready DEF Places, Req
      <3> QED
        BY <3>1, <3>2, Others DEF LocalWork
    <2>2. CASE g = h
      <3>1. Begins(h) /\ h \in Locals
        BY <1>0, <1>1, <2>2 DEF HostKind, Begins, Quits, Goes, Repeats, Sends, Polls, HostsTyped
      <3>2. Req(h)' = <<h, goes[h] + 1, 0>> /\ <<h, goes[h] + 1, 0>> \in Requests
        <4>0. goes[h] \in 0..MaxTasks /\ goes[h] < MaxTasks /\ MaxTasks \in Nat /\ try[h] = 0
          BY <1>0, <3>1, DispatchAssumption DEF Begins, Places, HostsTyped
        <4>1. goes[h] + 1 \in 1..MaxTasks /\ 0 \in 0..RetryMax /\ try[h] = 0
          BY <1>0, <4>0
        <4>2. goes'[h] = goes[h] + 1 /\ try' = try
          BY <1>0, <3>1 DEF Begins, HostsTyped
        <4> QED
          BY <4>1, <4>2 DEF Req, Requests
      <3> QED
        BY <1>0, <2>2, <3>1, <3>2 DEF Begins
    <2> QED
      BY <2>1, <2>2
  <1>2. ASSUME NEW r \in Requests, r[1] \in Locals
        PROVE  /\ work'[r] # "none" => r[3] = 0 /\ r[2] <= goes'[r[1]]
               /\ work'[r] = "busy" => r[2] = goes'[r[1]] /\ at'[r[1]] = "local"
    <2>0. r[1] \in Hosts /\ r[2] \in Nat /\ r[3] \in Nat
      BY Pairs
    <2>1. CASE r[1] # h
      BY <1>2, <2>0, <2>1, Others DEF LocalWork
    <2>2. CASE r[1] = h
      <3>1. Begins(h) \/ (Quits(h) /\ at[h] \in {"attempt", "local"})
        BY <1>2, <2>2 DEF HostKind, Quits, Repeats, Sends, Polls, Places, Remote, TypeOK
      <3>2. CASE Begins(h)
        <4>1. at'[h] = "local" /\ goes'[h] = goes[h] + 1 /\ at[h] = "attempt"
          BY <1>0, <1>2, <2>2, <3>2 DEF Begins, HostsTyped
        <4>2. CASE r = <<h, goes[h] + 1, 0>>
          <5>1. r[2] = goes[h] + 1 /\ r[3] = 0
            BY <4>2
          <5> QED
            BY <2>0, <2>2, <4>1, <5>1
        <4>3. CASE r # <<h, goes[h] + 1, 0>>
          <5>1. work'[r] = work[r]
            BY <1>0, <3>2, <4>3 DEF Begins
          <5> QED
            BY <1>0, <1>2, <2>0, <2>2, <4>1, <5>1 DEF LocalWork, HostsTyped
        <4> QED
          BY <4>2, <4>3
      <3>3. CASE Quits(h) /\ at[h] \in {"attempt", "local"}
        <4>1. goes' = goes
          BY <3>3 DEF Quits
        <4>2. CASE r = Req(h)
          BY <1>0, <1>2, <2>2, <3>3, <4>1, <4>2, Named DEF Quits, Returned, LocalWork, Places, Verdicts
        <4>3. CASE r # Req(h)
          <5>1. work'[r] = work[r]
            BY <1>0, <3>3, <4>3 DEF Quits, Returned
          <5>2. work[r] # "busy"
            BY <1>2, <2>2, <3>3, <4>3, Named DEF LocalWork, Places
          <5> QED
            BY <1>2, <2>2, <4>1, <5>1, <5>2 DEF LocalWork
        <4> QED
          BY <4>2, <4>3
      <3> QED
        BY <3>1, <3>2, <3>3
    <2> QED
      BY <2>1, <2>2
  <1> QED
    BY <1>1, <1>2 DEF LocalWork

(* Steps of the agents, request by request.                                *)
LEMMA AgentCalls ==
  ASSUME TypeOK, AgentStep, NEW r \in Requests
  PROVE  /\ call[r] = "none" => call'[r] = "none"
         /\ call'[r] = "sent" => call[r] = "sent"
         /\ call'[r] = "looked" => call[r] = "looked" \/ (call[r] = "sent" /\ Unknown(r))
  <1> USE DEF TypeOK, Reply
  <1>1. ASSUME NEW q \in Requests, Reject(q) \/ Known(q) \/ Unknown(q) \/ Enter(q) \/ Answer(q)
        PROVE  /\ call[q] # "none" /\ call'[q] # "sent" /\ (call'[q] = "looked" => call[q] = "sent" /\ Unknown(q))
               /\ r # q => call'[r] = call[r]
    BY <1>1, Pairs DEF Reject, Known, Unknown, Enter, Answer, Verdicts
  <1>2. ASSUME NEW q \in Requests, NEW o \in Verdicts, Finish(q, o) PROVE call' = call
    BY <1>2 DEF Finish
  <1>3. ASSUME NEW h \in Hosts, AgentRestarts(h) PROVE call'[r] = call[r] \/ (call'[r] = "over" /\ call[r] # "none")
    BY <1>3 DEF AgentRestarts
  <1> QED
    BY <1>1, <1>2, <1>3 DEF AgentStep

LEMMA AgentWorks ==
  ASSUME TypeOK, Unsent, Unexecuted, AgentStep, NEW r \in Requests, work'[r] # work[r]
  PROVE  /\ r[1] \notin Locals
         /\ \/ Enter(r) /\ work[r] = "none" /\ work'[r] = "busy"
            \/ (\E o \in Verdicts : Finish(r, o)) /\ work[r] = "busy" /\ work'[r] \in Verdicts
            \/ AgentRestarts(r[1]) /\ work[r] = "busy" /\ work'[r] = "failed"
  <1> USE DEF TypeOK
  <1>1. ASSUME NEW q \in Requests, Reject(q) \/ Known(q) \/ Unknown(q) \/ Answer(q) PROVE work' = work
    BY <1>1 DEF Reject, Known, Unknown, Answer
  <1>2. ASSUME NEW q \in Requests, Enter(q)
        PROVE  r = q /\ r[1] \notin Locals /\ work[r] = "none" /\ work'[r] = "busy"
    <2>1. r = q /\ call[r] = "looked" /\ work'[r] = "busy"
      BY <1>2 DEF Enter
    <2> QED
      BY <2>1 DEF Unsent, Unexecuted, Ahead
  <1>3. ASSUME NEW q \in Requests, NEW o \in Verdicts, Finish(q, o)
        PROVE r = q /\ r[1] \notin Locals /\ work[r] = "busy" /\ work'[r] \in Verdicts
    BY <1>3 DEF Finish
  <1>4. ASSUME NEW h \in Hosts, AgentRestarts(h) 
        PROVE r[1] = h /\ r[1] \notin Locals /\ work[r] = "busy" /\ work'[r] = "failed"
    BY <1>4 DEF AgentRestarts
  <1> QED
    BY <1>1, <1>2, <1>3, <1>4 DEF AgentStep

(* The steps that leave requests and executions alone.                     *)
LEMMA Quiet ==
  ASSUME TypeOK, Places, Next
  PROVE  \/ Still \/ Resets
         \/ \E h \in Hosts : HostKind(h)
         \/ AgentStep /\ UNCHANGED <<at, goes, try, gaveUp>>
  <1>1. AgentStep => UNCHANGED <<at, goes, try, gaveUp>>
    BY DEF AgentStep, Reject, Known, Unknown, Enter, Finish, Answer, AgentRestarts, hvars
  <1> QED
    BY <1>1, ExecutorKinds, HostKinds DEF Next

LEMMA UnsentKept ==
  ASSUME TypeOK, Places, Unsent, [Next]_vars
  PROVE  Unsent'
  <1>1. CASE Still \/ UNCHANGED vars
    BY <1>1 DEF Still, vars, hvars, avars, Unsent, Ahead
  <1>2. CASE Resets
    <2>1. ASSUME NEW r \in Requests, Ahead(r)' PROVE Ahead(r)
      BY <1>2, <2>1, Pairs DEF Resets, Ahead
    <2> QED
      BY <1>2, <2>1 DEF Resets, avars, Unsent
  <1>3. CASE AgentStep /\ UNCHANGED <<at, goes, try, gaveUp>>
    BY <1>3, AgentCalls DEF Unsent, Ahead
  <1> QED
    BY <1>1, <1>2, <1>3, Quiet, HostUnsent

LEMMA UnexecutedKept ==
  ASSUME TypeOK, Places, Unsent, Unexecuted, [Next]_vars
  PROVE  Unexecuted'
  <1>1. CASE Still \/ Resets \/ UNCHANGED vars
    BY <1>1 DEF Still, Resets, vars, avars, Unexecuted
  <1>2. CASE AgentStep
    <2> SUFFICES ASSUME NEW r \in Requests, r[1] \notin Locals, call'[r] \in {"none", "sent", "looked"}
                 PROVE work'[r] = "none"
      BY DEF Unexecuted
    <2>1. call[r] \in {"none", "sent", "looked"} /\ ~Enter(r)
      <3>1. call[r] = "none" \/ call'[r] # "none"
        BY <1>2 DEF AgentStep, Reject, Known, Unknown, Enter, Finish, Answer, AgentRestarts, Reply, TypeOK, Verdicts
      <3>2. ~Enter(r)
        BY DEF Enter, Reply, TypeOK
      <3> QED
        BY <1>2, <3>1, <3>2, AgentCalls
    <2> QED
      BY <1>2, <2>1, AgentWorks DEF Unexecuted
  <1> QED
    BY <1>1, <1>2, Quiet, HostUnexecuted

LEMMA LocalWorkKept ==
  ASSUME TypeOK, Places, Unsent, Unexecuted, LocalWork, [Next]_vars
  PROVE  LocalWork'
  <1>1. CASE Still \/ UNCHANGED vars
    BY <1>1 DEF Still, vars, hvars, avars, LocalWork, Req
  <1>2. CASE Resets
    BY <1>2, Pairs DEF Resets, avars, LocalWork
  <1>3. CASE AgentStep /\ UNCHANGED <<at, goes, try, gaveUp>>
    <2>1. \A r \in Requests : r[1] \in Locals => work'[r] = work[r]
      BY <1>3, AgentWorks
    <2>2. ASSUME NEW h \in Hosts, at[h] = "local" PROVE Req(h) \in Requests /\ Req(h)[1] \in Locals
      BY <2>2, Ready DEF Places, Req
    <2> QED
      BY <1>3, <2>1, <2>2 DEF LocalWork, Req
  <1> QED
    BY <1>1, <1>2, <1>3, Quiet, HostLocalWork

-----------------------------------------------------------------------------
(* A success stands for an execution, and stays one.                       *)

LEMMA WorkKept ==
  ASSUME TypeOK, Places, Unsent, Unexecuted, LocalWork, [Next]_vars,
         NEW r \in Requests, work[r] \in Verdicts
  PROVE  work'[r] = work[r]
  <1> USE DEF Verdicts
  <1>1. CASE Still \/ Resets \/ UNCHANGED vars
    BY <1>1 DEF Still, Resets, vars, avars
  <1>2. CASE AgentStep
    BY <1>2, AgentWorks
  <1>3. ASSUME NEW h \in Hosts, HostKind(h) PROVE work'[r] = work[r]
    <2>0. r[2] \in Nat /\ r[3] \in Nat /\ goes[r[1]] \in Nat /\ HostsTyped
      BY SMTT(40), Pairs, DispatchAssumption DEF TypeOK, HostsTyped
    <2>1. CASE Begins(h) /\ h \in Locals
      <3>1. r # <<h, goes[h] + 1, 0>>
        BY <2>0, <2>1 DEF LocalWork
      <3> QED
        BY <2>0, <2>1, <3>1 DEF Begins, HostsTyped, TypeOK
    <2>2. CASE Quits(h) /\ at[h] = "local"
      BY <2>2 DEF Quits, Returned, LocalWork, TypeOK
    <2>3. CASE work' = work
      BY <2>3
    <2> QED
      BY <1>3, <2>1, <2>2, <2>3 DEF HostKind, Begins, Quits, Repeats, Sends, Polls, Returned
  <1> QED
    BY <1>1, <1>2, <1>3, Quiet

LEMMA DoneKept ==
  ASSUME TypeOK, Places, Unsent, Unexecuted, LocalWork, [Next]_vars,
         NEW t \in Tasks, Done(t[1], t[2])
  PROVE  Done(t[1], t[2])'
  <1>1. PICK k \in 0..RetryMax : work[<<t[1], t[2], k>>] = "success"
    BY DEF Done
  <1>2. <<t[1], t[2], k>> \in Requests
    BY DEF Tasks, Requests
  <1> QED
    BY <1>1, <1>2, WorkKept DEF Done, Verdicts

LEMMA OfRequest ==
  ASSUME NEW r \in Requests, work[r] = "success"
  PROVE  Done(r[1], r[2])
  BY Pairs DEF Done

LEMMA HostBacked ==
  ASSUME TypeOK, Places, Unsent, Unexecuted, LocalWork, Backed, [Next]_vars,
         NEW h \in Hosts, HostKind(h)
  PROVE  Backed'
  <1>0. HostsTyped
    BY DEF TypeOK, HostsTyped
  <1>1. ASSUME NEW g \in Hosts, goes[g] > 0, Done(g, goes[g]) PROVE Done(g, goes[g])'  \/ goes'[g] # goes[g]
    <2>1. <<g, goes[g]>> \in Tasks
      BY <1>1, Ready DEF Task
    <2> QED
      BY <1>1, <2>1, DoneKept DEF Done
  <1>2. ASSUME NEW g \in Hosts \ {h}
        PROVE  /\ at'[g] = "ok" => NoTries \/ Done(g, goes[g])'
               /\ at'[g] = "awaitRun" /\ call'[Req(g)'] = "success" => Done(g, goes[g])'
    <2>1. at'[g] = at[g] /\ goes'[g] = goes[g] /\ Req(g)' = Req(g)
      BY <1>2, Others DEF Req
    <2>2. /\ at[g] = "ok" => NoTries \/ goes[g] > 0
          /\ at[g] = "awaitRun" => goes[g] > 0 /\ Req(g) \in Requests /\ Req(g) # Req(h)
      BY <1>2, Ready DEF Places, Remote, Req
    <2>3. at[g] = "awaitRun" => call'[Req(g)] = call[Req(g)]
      BY <2>2, Others
    <2> QED
      BY <1>1, <1>2, <2>1, <2>2, <2>3 DEF Backed
  <1>3. ASSUME at'[h] = "ok", ~NoTries PROVE Done(h, goes[h])'
    <2>1. Quits(h) /\ Earned(h) /\ goes'[h] = goes[h]
      BY <1>0, <1>3 DEF HostKind, Begins, Quits, Goes, Repeats, Sends, Polls, HostsTyped
    <2>2. goes[h] > 0 /\ Req(h) \in Requests /\ Task(h) \in Tasks
      BY <1>3, <2>1, Ready DEF Earned, Places, Remote
    <2>3. CASE at[h] = "local"
      <3>1. work'[<<h, goes[h], try[h]>>] = "success" /\ try[h] \in 0..RetryMax
        BY <1>0, <2>1, <2>3 DEF Earned, Req, HostsTyped
      <3> QED
        BY <2>1, <3>1 DEF Done
    <2>4. CASE at[h] # "local"
      <3>1. Done(h, goes[h])
        BY <1>3, <2>1, <2>2, <2>4 DEF Earned, Backed, Task
      <3> QED
        BY <1>1, <2>1, <2>2, <3>1
    <2> QED
      BY <2>3, <2>4
  <1>6. NoTries' = NoTries
    BY Others DEF Beside, NoTries, RetriesNow
  <1>4. ~(at'[h] = "awaitRun" /\ call'[Req(h)'] = "success")
    <2> SUFFICES ASSUME at'[h] = "awaitRun" PROVE call'[Req(h)'] = "sent"
      OBVIOUS
    <2>1. Sends(h) /\ Req(h)' = Req(h)
      BY <1>0 DEF HostKind, Begins, Quits, Goes, Repeats, Sends, Polls, HostsTyped, Req
    <2>2. Req(h) \in Requests
      BY <2>1, Ready DEF Sends, Places, Remote
    <2> QED
      BY <2>1, <2>2 DEF Sends, TypeOK
  <1>5. \A t \in Tasks : entry'[t] = "success" => Done(t[1], t[2])'
    BY Others, DoneKept DEF Beside, Backed
  <1> QED
    BY <1>2, <1>3, <1>4, <1>5, <1>6 DEF Backed

LEMMA AgentBacked ==
  ASSUME TypeOK, Places, Unsent, Unexecuted, LocalWork, Backed, [Next]_vars,
         AgentStep, UNCHANGED <<at, goes, try, gaveUp>>
  PROVE  Backed'
  <1>1. ASSUME NEW t \in Tasks, Done(t[1], t[2]) PROVE Done(t[1], t[2])'
    BY <1>1, DoneKept
  <1>2. ASSUME NEW h \in Hosts, at[h] = "ok" PROVE (NoTries \/ Done(h, goes[h]))'
    <2>1. NoTries' = NoTries
      BY DEF AgentStep, Reject, Known, Unknown, Enter, Finish, Answer, AgentRestarts, evars,
             NoTries, RetriesNow
    <2> QED
      BY <1>1, <1>2, <2>1, Ready DEF Backed, Places, Task
  <1>3. ASSUME NEW t \in Tasks, entry'[t] = "success" PROVE Done(t[1], t[2])'
    <2>1. CASE entry[t] = "success"
      BY <1>1, <2>1 DEF Backed
    <2>2. CASE entry[t] # "success"
      <3>1. PICK r \in Requests : Finish(r, "success") /\ TaskOf(r) = t
        BY <1>3, <2>2 DEF AgentStep, Reject, Known, Unknown, Enter, Finish, Answer, AgentRestarts, TypeOK, Verdicts
      <3>2. work'[r] = "success"
        BY <3>1 DEF Finish, TypeOK
      <3>3. Done(r[1], r[2])'
        BY <3>2, Pairs DEF Done
      <3> QED
        BY <3>1, <3>3 DEF TaskOf
    <2> QED
      BY <2>1, <2>2
  <1>4. ASSUME NEW h \in Hosts, at[h] = "awaitRun", call'[Req(h)] = "success" PROVE Done(h, goes[h])'
    <2>0. Req(h) \in Requests /\ Task(h) \in Tasks /\ TaskOf(Req(h)) = Task(h)
      BY <1>4, Ready DEF Places, Remote
    <2>1. CASE call[Req(h)] = "success"
      BY <1>1, <1>4, <2>0, <2>1 DEF Backed, Task
    <2>2. CASE call[Req(h)] # "success"
      <3>1. Known(Req(h)) \/ Answer(Req(h))
        BY <1>4, <2>0, <2>2 DEF AgentStep, Reject, Known, Unknown, Enter, Finish, Answer, AgentRestarts, Reply, TypeOK
      <3>2. CASE Known(Req(h))
        <4>1. entry[Task(h)] = "success"
          BY <1>4, <2>0, <3>2 DEF Known, Reply, TypeOK
        <4> QED
          BY <1>1, <2>0, <4>1 DEF Backed, Task
      <3>3. CASE Answer(Req(h))
        <4>1. work[Req(h)] = "success"
          BY <1>4, <2>0, <3>3 DEF Answer, Reply, TypeOK
        <4>2. Done(h, goes[h])
          BY <2>0, <4>1, OfRequest DEF Req
        <4> QED
          BY <1>1, <2>0, <4>2 DEF Task
      <3> QED
        BY <3>1, <3>2, <3>3
    <2> QED
      BY <2>1, <2>2
  <1> QED
    BY <1>2, <1>3, <1>4 DEF Backed, Req

LEMMA BackedKept ==
  ASSUME TypeOK, Places, Unsent, Unexecuted, LocalWork, Backed, [Next]_vars
  PROVE  Backed'
  <1>1. CASE Still \/ UNCHANGED vars
    <2>1. \A h \in Hosts : at[h] = "ok" => NoTries' = NoTries
      BY <1>1 DEF Still, Places, vars, evars, NoTries, RetriesNow
    <2> QED
      BY <1>1, <2>1 DEF Still, vars, hvars, avars, Backed, Req, Done
  <1>2. CASE Resets
    BY <1>2 DEF Resets, avars, Backed, Req, Done
  <1> QED
    BY <1>1, <1>2, Quiet, HostBacked, AgentBacked

-----------------------------------------------------------------------------
(* Two executions of one task meet in the gap, or follow a restart.        *)

LEMMA RestartsGrow ==
  ASSUME TypeOK, Places, [Next]_vars, NEW h \in Hosts
  PROVE  /\ restarts[h] > 0 => restarts'[h] > 0
         /\ AgentRestarts(h) => restarts'[h] > 0
  <1>0. restarts[h] \in Nat /\ restarts \in [Hosts -> 0..MaxRestarts]
    BY DispatchAssumption DEF TypeOK
  <1>1. ASSUME NEW g \in Hosts, AgentRestarts(g)
        PROVE  IF g = h THEN restarts'[h] = restarts[h] + 1 ELSE restarts'[h] = restarts[h]
    BY <1>0, <1>1 DEF AgentRestarts
  <1>2. AgentStep => restarts' = restarts \/ \E g \in Hosts : AgentRestarts(g)
    BY DEF AgentStep, Reject, Known, Unknown, Enter, Finish, Answer
  <1>3. CASE restarts' = restarts \/ \E g \in Hosts : AgentRestarts(g)
    BY <1>0, <1>1, <1>3
  <1>4. CASE ~AgentStep
    BY <1>3, <1>4, Quiet, Others DEF Still, Resets, Beside, vars, avars
  <1> QED
    BY <1>2, <1>3, <1>4

LEMMA AgentEntries ==
  ASSUME TypeOK, AgentStep, NEW t \in Tasks, entry'[t] # entry[t]
  PROVE  \/ \E r \in Requests : TaskOf(r) = t /\ Enter(r) /\ entry'[t] = "running"
         \/ \E r \in Requests, o \in Verdicts : TaskOf(r) = t /\ Finish(r, o) /\ entry'[t] = o
         \/ AgentRestarts(t[1])
  <1>1. ASSUME NEW r \in Requests, Enter(r) PROVE TaskOf(r) = t /\ entry'[t] = "running"
    BY <1>1 DEF Enter, TypeOK
  <1>2. ASSUME NEW r \in Requests, NEW o \in Verdicts, Finish(r, o) PROVE TaskOf(r) = t /\ entry'[t] = o
    BY <1>2 DEF Finish, TypeOK
  <1>3. ASSUME NEW h \in Hosts, AgentRestarts(h) PROVE t[1] = h
    BY <1>3 DEF AgentRestarts, TypeOK
  <1>4. ASSUME NEW r \in Requests, Reject(r) \/ Known(r) \/ Unknown(r) \/ Answer(r) PROVE entry' = entry
    BY <1>4 DEF Reject, Known, Unknown, Answer
  <1> QED
    BY <1>1, <1>2, <1>3, <1>4 DEF AgentStep

LEMMA Known1Kept ==
  ASSUME TypeOK, Places, Unsent, Unexecuted, Known1, [Next]_vars
  PROVE  Known1'
  <1>1. CASE Still \/ Resets \/ UNCHANGED vars
    BY <1>1 DEF Still, Resets, vars, avars, Known1
  <1>2. ASSUME NEW h \in Hosts, HostKind(h) PROVE Known1'
    <2>1. ASSUME NEW r \in Requests, r[1] \notin Locals PROVE work'[r] = work[r]
      <3>1. CASE r[1] # h
        BY <1>2, <2>1, <3>1, Others
      <3>2. CASE r[1] = h
        BY <1>2, <2>1, <3>2 DEF HostKind, Begins, Quits, Repeats, Sends, Polls, Returned, Places
      <3> QED
        BY <3>1, <3>2
    <2> QED
      BY <1>2, <2>1, Others DEF Beside, Known1
  <1>3. CASE AgentStep
    <2> SUFFICES ASSUME NEW r \in Requests, r[1] \notin Locals, restarts'[r[1]] = 0, work'[r] # "none"
                 PROVE entry'[TaskOf(r)] # "none"
      BY DEF Known1
    <2>0. TaskOf(r) \in Tasks /\ r[1] \in Hosts
      BY Pairs
    <2>1. restarts[r[1]] = 0 /\ ~AgentRestarts(r[1])
      <3>1. restarts[r[1]] \in Nat
        BY <2>0, DispatchAssumption DEF TypeOK
      <3> QED
        BY <2>0, <3>1, RestartsGrow
    <2>2. CASE work[r] # "none"
      <3>1. entry[TaskOf(r)] # "none"
        BY <2>1, <2>2 DEF Known1
      <3> QED
        BY <1>3, <2>0, <2>1, <3>1, AgentEntries DEF TaskOf, Verdicts
    <2>3. CASE work[r] = "none"
      <3>1. Enter(r)
        BY <1>3, <2>3, AgentWorks
      <3> QED
        BY <2>0, <3>1 DEF Enter, TypeOK
    <2> QED
      BY <2>2, <2>3
  <1> QED
    BY <1>1, <1>2, <1>3, Quiet

LEMMA OvertakenKept ==
  ASSUME TypeOK, Places, Unsent, Unexecuted, Known1, Overtaken, [Next]_vars
  PROVE  Overtaken'
  <1> SUFFICES ASSUME NEW q \in Requests, NEW r \in Requests,
                      TaskOf(q) = TaskOf(r), q # r, restarts'[r[1]] = 0, call'[r] = "looked",
                      call'[q] = "looked" \/ (r[1] \notin Locals /\ work'[q] # "none")
               PROVE  TaskOf(r) \in raced'
    BY DEF Overtaken, TaskOf
  <1>0. TaskOf(r) \in Tasks /\ r[1] \in Hosts /\ restarts[r[1]] = 0 /\ q[1] = r[1]
    <2>1. r[1] \in Hosts /\ restarts[r[1]] \in Nat
      BY Pairs, DispatchAssumption DEF TypeOK
    <2> QED
      BY <2>1, Pairs, RestartsGrow DEF TaskOf
  <1>1. CASE Still \/ Resets \/ UNCHANGED vars
    BY <1>0, <1>1 DEF Still, Resets, vars, avars, Overtaken
  <1>2. ASSUME NEW h \in Hosts, HostKind(h) PROVE TaskOf(r) \in raced'
    <2>1. ASSUME NEW x \in Requests, call'[x] = "looked" PROVE call[x] = "looked"
      BY <1>2, <2>1, Others DEF HostKind, Begins, Quits, Repeats, Sends, Polls, Hangs, HangUp, TypeOK
    <2>2. r[1] \notin Locals => work'[q] = work[q]
      <3>1. CASE q[1] # h
        BY <1>2, <3>1, Others
      <3>2. CASE q[1] = h
        BY <1>0, <1>2, <3>2 DEF HostKind, Begins, Quits, Repeats, Sends, Polls, Returned, Places
      <3> QED
        BY <3>1, <3>2
    <2> QED
      BY <1>0, <1>2, <2>1, <2>2, Others DEF Beside, Overtaken
  <1>3. CASE AgentStep
    <2>1. raced \subseteq raced'
      BY <1>3 DEF AgentStep, Reject, Known, Unknown, Enter, Finish, Answer, AgentRestarts
    <2>2. CASE call[r] = "looked" /\ (call[q] = "looked" \/ (r[1] \notin Locals /\ work[q] # "none"))
      BY <1>0, <2>1, <2>2 DEF Overtaken
    <2>3. CASE call[r] # "looked"
      <3>1. Unknown(r)
        BY <1>3, <2>3, AgentCalls
      <3>2. work' = work /\ call'[q] = call[q]
        BY <3>1 DEF Unknown, TypeOK
      <3>3. CASE call[q] = "looked"
        BY <3>1, <3>3 DEF Unknown, Rivals
      <3>4. CASE r[1] \notin Locals /\ work[q] # "none"
        BY <1>0, <3>1, <3>4 DEF Unknown, Known1
      <3> QED
        BY <3>2, <3>3, <3>4
    <2>4. CASE call[r] = "looked" /\ call[q] # "looked" /\ call'[q] = "looked"
      <3>1. Unknown(q)
        BY <1>3, <2>4, AgentCalls
      <3> QED
        BY <2>4, <3>1 DEF Unknown, Rivals
    <2>5. CASE call[r] = "looked" /\ r[1] \notin Locals /\ work[q] = "none" /\ work'[q] # "none"
      <3>1. Enter(q)
        BY <1>3, <2>5, AgentWorks
      <3>2. call[q] = "looked"
        BY <3>1 DEF Enter
      <3> QED
        BY <2>2, <2>5, <3>2
    <2> QED
      BY <2>2, <2>3, <2>4, <2>5
  <1> QED
    BY <1>1, <1>2, <1>3, Quiet

LEMMA GapKept ==
  ASSUME TypeOK, Places, Unsent, Unexecuted, LocalWork, Known1, Overtaken, TwiceOnlyInTheGap, [Next]_vars
  PROVE  TwiceOnlyInTheGap'
  <1> SUFFICES ASSUME NEW q \in Requests, NEW r \in Requests,
                      TaskOf(q) = TaskOf(r), q # r, work'[q] # "none", work'[r] # "none",
                      ~(restarts'[r[1]] > 0)
               PROVE  TaskOf(r) \in raced'
    BY DEF TwiceOnlyInTheGap, TaskOf
  <1>0. /\ q[1] = r[1] /\ q[2] = r[2] /\ q[3] # r[3]
        /\ r[1] \in Hosts /\ restarts[r[1]] = 0
    <2>1. r[1] \in Hosts /\ restarts[r[1]] \in Nat
      BY Pairs, DispatchAssumption DEF TypeOK
    <2>2. restarts[r[1]] = 0
      BY <2>1, RestartsGrow
    <2> QED
      BY <2>1, <2>2, Pairs DEF TaskOf
  <1>1. r[1] \notin Locals
    BY <1>0, LocalWorkKept DEF LocalWork
  <1>2. raced \subseteq raced'
    BY Quiet, Others DEF AgentStep, Reject, Known, Unknown, Enter, Finish, Answer, AgentRestarts, Still, Resets,
       Beside, vars, avars
  <1>3. CASE work[q] # "none" /\ work[r] # "none"
    BY <1>0, <1>2, <1>3 DEF TwiceOnlyInTheGap
  <1>4. ASSUME NEW x \in Requests, x[1] = r[1], work[x] = "none", work'[x] # "none" PROVE Enter(x)
    <2>1. CASE AgentStep
      BY <1>4, <2>1, AgentWorks
    <2>2. ASSUME NEW h \in Hosts, HostKind(h) PROVE work'[x] = work[x]
      <3>1. CASE x[1] # h
        BY <2>2, <3>1, Others
      <3>2. CASE x[1] = h
        BY <1>1, <1>4, <2>2, <3>2 DEF HostKind, Begins, Quits, Repeats, Sends, Polls, Returned, Places
      <3> QED
        BY <3>1, <3>2
    <2>3. CASE Still \/ Resets \/ UNCHANGED vars
      BY <1>4, <2>3 DEF Still, Resets, vars, avars
    <2> QED
      BY <1>4, <2>1, <2>2, <2>3, Quiet
  <1>5. CASE work[r] = "none"
    <2>1. Enter(r)
      BY <1>4, <1>5
    <2>2. work[q] = work'[q] /\ call[r] = "looked"
      BY <1>0, <2>1 DEF Enter, TypeOK
    <2> QED
      BY <1>0, <1>1, <1>2, <2>2 DEF Overtaken
  <1>6. CASE work[q] = "none"
    <2>1. Enter(q)
      BY <1>0, <1>4, <1>6
    <2>2. work[r] = work'[r] /\ call[q] = "looked"
      BY <1>0, <2>1 DEF Enter, TypeOK
    <2> QED
      BY <1>0, <1>1, <1>2, <2>2 DEF Overtaken
  <1> QED
    BY <1>3, <1>5, <1>6

-----------------------------------------------------------------------------
(* What an agent works on is awaited, or was given up.                     *)

LEMMA AwaitedRequest ==
  ASSUME NEW r \in Requests
  PROVE  Awaited(r) <=> at[r[1]] = "awaitRun" /\ r[2] = goes[r[1]] /\ r[3] = try[r[1]]
  BY Pairs, Named DEF Awaited

LEMMA OtherAwaited ==
  ASSUME TypeOK, NEW h \in Hosts, HostKind(h), NEW r \in Requests, r[1] # h
  PROVE  Awaited(r)' <=> Awaited(r)
  BY Others, Pairs DEF Awaited, Req

LEMMA InHandsKept ==
  ASSUME TypeOK, Places, Unsent, InHands, [Next]_vars
  PROVE  InHands'
  <1> SUFFICES ASSUME NEW r \in Requests, call'[r] \in {"sent", "looked", "serving"}
               PROVE  Awaited(r)' \/ TaskOf(r) \in gaveUp'
    BY DEF InHands, TaskOf
  <1>1. CASE Still \/ UNCHANGED vars
    BY <1>1 DEF Still, vars, hvars, avars, InHands, Awaited, Req
  <1>2. CASE Resets
    BY <1>2, Pairs DEF Resets, avars, InHands, Awaited
  <1>3. CASE AgentStep /\ UNCHANGED <<at, goes, try, gaveUp>>
    <2>1. call[r] \in {"sent", "looked", "serving"}
      BY <1>3 DEF AgentStep, Reject, Known, Unknown, Enter, Finish, Answer, AgentRestarts, Reply, TypeOK, Verdicts
    <2> QED
      BY <1>3, <2>1 DEF InHands, Awaited, Req
  <1>4. ASSUME NEW h \in Hosts, HostKind(h) PROVE Awaited(r)' \/ TaskOf(r) \in gaveUp'
    <2>1. CASE r[1] # h
      <3>1. r # Req(h)
        BY <2>1 DEF Req
      <3> QED
        BY <1>4, <2>1, <3>1, OtherAwaited, Others DEF InHands
    <2>2. CASE r[1] = h /\ ~Awaited(r)
      <3>1. CASE Sends(h) /\ r = Req(h)
        BY <2>2, <3>1 DEF Sends, Awaited, Req, TypeOK
      <3>2. CASE ~(Sends(h) /\ r = Req(h))
        <4>1. call'[r] = call[r]
          BY <1>4, <2>2, <3>2, Others DEF HostKind, Begins, Quits, Repeats, Polls, Hangs, Awaited
        <4> QED
          BY <1>4, <2>2, <4>1, Others DEF InHands
      <3> QED
        BY <3>1, <3>2
    <2>3. CASE r[1] = h /\ Awaited(r)
      <3>1. at[h] = "awaitRun" /\ r = Req(h)
        BY <2>3 DEF Awaited
      <3>2. Quits(h) \/ Repeats(h) \/ Polls(h)
        BY <1>4, <3>1 DEF HostKind, Begins, Sends
      <3>3. HangUp(h) /\ (call'[r] = call[r] \/ call'[r] = "over")
        BY <3>1, <3>2 DEF Quits, Repeats, Polls, Hangs, HangUp, TypeOK
      <3>4. ~Polls(h) /\ GiveUp(h)
        BY <3>1, <3>2, <3>3 DEF Quits, Repeats, Polls, Settles, Verdicts
      <3> QED
        BY <3>1, <3>4 DEF GiveUp, Task, TaskOf, Req
    <2> QED
      BY <2>1, <2>2, <2>3
  <1> QED
    BY <1>1, <1>2, <1>3, <1>4, Quiet

(* One executed request for a client that waits, as Watched says of it.    *)
Watch(r) ==
  /\ entry[TaskOf(r)] = "running"
  /\ \/ Awaited(r) /\ call[r] \in {"serving", "running"}
     \/ r[2] = goes[r[1]] /\ at[r[1]] = "poll"
  /\ \A q \in Requests : TaskOf(q) = TaskOf(r) /\ work[q] = "busy" => q = r

LEMMA WatchedHost ==
  ASSUME TypeOK, Places, Watched, NEW h \in Hosts, HostKind(h),
         NEW r \in Requests, r[1] \notin Locals, work'[r] = "busy", TaskOf(r) \notin gaveUp'
  PROVE  Watch(r)'
  <1>1. ASSUME NEW q \in Requests, q[1] \notin Locals PROVE work'[q] = work[q]
    <2>1. CASE q[1] # h
      BY <1>1, <2>1, Others
    <2>2. CASE q[1] = h
      BY <1>1, <2>2 DEF HostKind, Begins, Quits, Repeats, Sends, Polls, Returned, Places
    <2> QED
      BY <2>1, <2>2
  <1>2. Watch(r)
    BY <1>1, Others DEF Watched, Watch
  <1>3. entry' = entry
    BY Others DEF Beside
  <1>4. ASSUME NEW q \in Requests, TaskOf(q) = TaskOf(r), work'[q] = "busy" PROVE q = r
    <2>1. q[1] = r[1]
      BY <1>4 DEF TaskOf
    <2> QED
      BY <1>1, <1>2, <1>4, <2>1 DEF Watch
  <1>5. CASE r[1] # h
    <2>1. r # Req(h) /\ r[1] \in Hosts \ {h}
      BY <1>5, Pairs DEF Req
    <2> QED
      BY <1>2, <1>3, <1>4, <1>5, <2>1, OtherAwaited, Others DEF Watch, TaskOf
  <1>6. CASE r[1] = h
    <2>1. CASE at[h] = "poll" /\ r[2] = goes[h]
      <3>1. Quits(h)
        BY <2>1 DEF HostKind, Begins, Repeats, Sends, Polls
      <3>2. GiveUp(h)
        BY <1>2, <1>6, <2>1, <3>1 DEF Quits, Settles, Watch, Task, TaskOf
      <3> QED
        BY <1>6, <2>1, <3>2 DEF GiveUp, Task, TaskOf
    <2>2. CASE Awaited(r) /\ call[r] \in {"serving", "running"}
      <3>1. at[h] = "awaitRun" /\ r = Req(h)
        BY <1>6, <2>2 DEF Awaited
      <3>2. Quits(h) \/ Repeats(h) \/ Polls(h)
        BY <3>1 DEF HostKind, Begins, Sends
      <3>3. Polls(h) \/ GiveUp(h)
        BY <2>2, <3>1, <3>2 DEF Quits, Repeats, Settles, Verdicts
      <3>4. CASE Polls(h)
        <4>1. at'[h] = "poll" /\ r[2] = goes'[h]
          BY <3>1, <3>4 DEF Polls, Req, TypeOK
        <4> QED
          BY <1>2, <1>3, <1>4, <1>6, <4>1 DEF Watch, TaskOf
      <3>5. ~GiveUp(h)
        BY <3>1 DEF GiveUp, Task, TaskOf, Req
      <3> QED
        BY <3>3, <3>4, <3>5
    <2> QED
      BY <1>2, <1>6, <2>1, <2>2 DEF Watch
  <1> QED
    BY <1>5, <1>6

LEMMA WatchedAgent ==
  ASSUME TypeOK, Places, Unsent, Unexecuted, InHands, Watched,
         AgentStep, UNCHANGED <<at, goes, try, gaveUp>>,
         NEW r \in Requests, r[1] \notin Locals, work'[r] = "busy", TaskOf(r) \notin gaveUp'
  PROVE  Watch(r)'
  <1>1. Awaited(r)' <=> Awaited(r)
    BY DEF Awaited, Req
  <1>2. TaskOf(r) \in Tasks
    BY Pairs
  <1>3. CASE work[r] # "busy"
    <2>1. Enter(r)
      BY <1>3, AgentWorks DEF Verdicts
    <2>2. Awaited(r) /\ call[r] = "looked" /\ work[r] = "none"
      BY <2>1 DEF Enter, InHands, Unexecuted
    <2>3. entry'[TaskOf(r)] = "running" /\ call'[r] = "serving"
      BY <1>2, <2>1, <2>2 DEF Enter, Reply, TypeOK
    <2>4. ASSUME NEW q \in Requests, TaskOf(q) = TaskOf(r), work'[q] = "busy", q # r PROVE FALSE
      <3>1. work[q] = "busy" /\ q[1] = r[1] /\ q[2] = r[2]
        BY <2>1, <2>4 DEF Enter, TypeOK, TaskOf
      <3>2. Awaited(q) \/ at[r[1]] = "poll"
        BY <2>4, <3>1 DEF Watched
      <3> QED
        BY <2>2, <2>4, <3>1, <3>2 DEF Awaited
    <2> QED
      BY <1>1, <2>2, <2>3, <2>4 DEF Watch, TaskOf
  <1>4. CASE work[r] = "busy"
    <2>1. Watch(r)
      BY <1>4 DEF Watched, Watch
    <2>2. ASSUME NEW q \in Requests, TaskOf(q) = TaskOf(r), work'[q] = "busy", q # r PROVE FALSE
      <3>1. q[1] = r[1] /\ q[2] = r[2] /\ work[q] # "busy"
        BY <2>1, <2>2 DEF Watch, TaskOf
      <3>2. Enter(q)
        BY <2>2, <3>1, AgentWorks DEF Verdicts
      <3>3. Awaited(q)
        BY <2>2, <3>2 DEF Enter, InHands
      <3> QED
        BY <2>1, <2>2, <3>1, <3>3 DEF Watch, Awaited
    <2>3. entry'[TaskOf(r)] = "running"
      <3>1. ~AgentRestarts(r[1])
        BY <1>4 DEF AgentRestarts
      <3>2. ASSUME NEW q \in Requests, NEW o \in Verdicts, TaskOf(q) = TaskOf(r) PROVE ~Finish(q, o)
        BY <2>1, <3>2 DEF Finish, Watch, TypeOK, Verdicts
      <3> QED
        BY <1>2, <2>1, <3>1, <3>2, AgentEntries DEF Watch, TaskOf
    <2>4. Awaited(r) /\ call[r] \in {"serving", "running"} => call'[r] \in {"serving", "running"}
      <3> SUFFICES ASSUME Awaited(r), call[r] \in {"serving", "running"} PROVE call'[r] \in {"serving", "running"}
        OBVIOUS
      <3>1. ASSUME NEW q \in Requests, Reject(q) \/ Known(q) \/ Unknown(q) \/ Enter(q) PROVE call'[r] = call[r]
        BY <3>1 DEF Reject, Known, Unknown, Enter, Reply, TypeOK
      <3>2. ASSUME NEW q \in Requests, Answer(q) PROVE call'[r] \in {"serving", "running"}
        BY <1>4, <3>2 DEF Answer, Reply, TypeOK, Verdicts
      <3>3. ASSUME NEW q \in Requests, NEW o \in Verdicts, Finish(q, o) PROVE call'[r] = call[r]
        BY <3>3 DEF Finish
      <3>4. ASSUME NEW h \in Hosts, AgentRestarts(h) PROVE call'[r] = call[r]
        BY <1>4, <3>4 DEF AgentRestarts
      <3> QED
        BY <3>1, <3>2, <3>3, <3>4 DEF AgentStep
    <2> QED
      BY <1>1, <2>1, <2>2, <2>3, <2>4 DEF Watch, TaskOf
  <1> QED
    BY <1>3, <1>4

LEMMA WatchedKept ==
  ASSUME TypeOK, Places, Unsent, Unexecuted, InHands, Watched, [Next]_vars
  PROVE  Watched'
  <1>1. CASE Still \/ UNCHANGED vars
    BY <1>1 DEF Still, vars, hvars, avars, Watched, Awaited, Req
  <1>2. CASE Resets
    <2> SUFFICES ASSUME NEW r \in Requests, r[1] \notin Locals, work[r] = "busy", TaskOf(r) \notin gaveUp PROVE FALSE
      BY <1>2 DEF Resets, avars, Watched, TaskOf
    <2> QED
      BY <1>2, Pairs DEF Resets, Watched, Awaited
  <1>3. ASSUME NEW r \in Requests, r[1] \notin Locals, work'[r] = "busy", TaskOf(r) \notin gaveUp',
               (AgentStep /\ UNCHANGED <<at, goes, try, gaveUp>>) \/ (\E h \in Hosts : HostKind(h))
        PROVE  Watch(r)'
    BY <1>3, WatchedHost, WatchedAgent
  <1>4. CASE (AgentStep /\ UNCHANGED <<at, goes, try, gaveUp>>) \/ (\E h \in Hosts : HostKind(h))
    BY <1>3, <1>4 DEF Watched, Watch, TaskOf
  <1> QED
    BY <1>1, <1>2, <1>4, Quiet

-----------------------------------------------------------------------------
(* The theorems.                                                           *)

LEMMA Start == Init => IInv
  <1> SUFFICES ASSUME Init PROVE IInv
    OBVIOUS
  <1>1. TypeOK /\ Places /\ Within
    BY TypesStart
  <1>2. \A r \in Requests : call[r] = "none" /\ work[r] = "none"
    BY DEF Init
  <1>3. /\ \A h \in Hosts : at[h] = "idle"
        /\ \A t \in Tasks : entry[t] = "none"
    BY DEF Init
  <1>4. Unsent /\ Unexecuted /\ Known1 /\ Overtaken /\ TwiceOnlyInTheGap /\ InHands /\ Watched
    BY <1>2 DEF Unsent, Unexecuted, Known1, Overtaken, TwiceOnlyInTheGap, InHands, Watched
  <1>5. LocalWork /\ Backed
    BY <1>2, <1>3 DEF LocalWork, Backed
  <1> QED
    BY <1>1, <1>4, <1>5 DEF IInv

LEMMA Invariance == Spec => []IInv
  <1>1. ASSUME IInv, [Next]_vars PROVE IInv'
    <2>1. TypeOK' /\ Places' /\ Within'
      BY <1>1, TypesKept, PlacesKept, WithinKept DEF IInv
    <2>2. Unsent' /\ Unexecuted' /\ LocalWork'
      BY <1>1, UnsentKept, UnexecutedKept, LocalWorkKept DEF IInv
    <2>3. Backed'
      BY <1>1, BackedKept DEF IInv
    <2>4. Known1' /\ Overtaken' /\ TwiceOnlyInTheGap'
      BY <1>1, Known1Kept, OvertakenKept, GapKept DEF IInv
    <2>5. InHands' /\ Watched'
      BY <1>1, InHandsKept, WatchedKept DEF IInv
    <2> QED
      BY <2>1, <2>2, <2>3, <2>4, <2>5 DEF IInv
  <1> QED
    BY <1>1, Start, PTL DEF Spec

(* The counters and tables of the dispatcher and of the agents stay within *)
(* their types; no attempt is made beyond the retries of the step.         *)
THEOREM DispatchTypes == Spec => []TypeOK
  <1>1. IInv => TypeOK
    BY DEF IInv
  <1> QED
    BY <1>1, Invariance, PTL

(* An agent executes a task twice only after two requests for it met       *)
(* between getTask and setTask, or after the agent was restarted.          *)
THEOREM GapOnly == Spec => []TwiceOnlyInTheGap
  <1>1. IInv => TwiceOnlyInTheGap
    BY DEF IInv
  <1> QED
    BY <1>1, Invariance, PTL

(* What is executed is the task the goroutine of its host waits for, or    *)
(* one its client stopped waiting for without a verdict.                   *)
THEOREM NothingUnwatched == Spec => []NothingRunsUnwatched
  <1>1. ASSUME IInv, NEW r \in Requests, work[r] = "busy"
        PROVE  \/ TaskOf(r) = Task(r[1]) /\ at[r[1]] \in {"awaitRun", "poll", "local"}
               \/ TaskOf(r) \in gaveUp
    <2>1. r[2] = goes[r[1]] => TaskOf(r) = Task(r[1])
      BY DEF TaskOf, Task
    <2>2. CASE r[1] \in Locals
      BY <1>1, <2>1, <2>2 DEF IInv, LocalWork
    <2>3. CASE r[1] \notin Locals
      BY <1>1, <2>1, <2>3, AwaitedRequest DEF IInv, Watched
    <2> QED
      BY <2>2, <2>3
  <1>2. IInv => NothingRunsUnwatched
    BY <1>1 DEF NothingRunsUnwatched
  <1> QED
    BY <1>2, Invariance, PTL

LEMMA OnlyWhenJoined ==
  ASSUME TypeOK, [Next]_vars, Reported \/ WentOn
  PROVE  Joined /\ ~HostsFailed
  <1>0. round \in Nat /\ status \in [StepIds -> {"none", "running", "success", "failed"}]
    BY DEF TypeOK
  <1> USE <1>0 DEF Reported, WentOn
  <1>1. CASE UNCHANGED <<status, round>>
    BY <1>1
  <1>2. CASE ~UNCHANGED <<status, round>>
    <2>1. FailMustVars \/ BeginStep \/ NextRound \/ StepSucceeds \/ StepFails
      <3>1. AgentStep => UNCHANGED <<status, round>>
        BY DEF AgentStep, Reject, Known, Unknown, Enter, Finish, Answer, AgentRestarts, evars
      <3>2. \A h \in Hosts : HostStep(h) => UNCHANGED <<status, round>>
        BY DEF HostStep, Attempt, NoAttempt, NoLoop, LocalReturns, Send, HeartbeatFails, TakeAnswer, RequestTimeout,
               RequestEnds, NoRequest, TakeStatus, PollBreaks, evars
      <3> QED
        BY <1>2, <3>1, <3>2 DEF Next, ExecutorStep, CancelRun, SkipStep, RefuseStep, RunReturns, vars, evars
    <2>2. ~FailMustVars
      BY DEF FailMustVars
    <2>3. ~BeginStep
      BY DEF BeginStep, Choosing
    <2>4. ~StepFails
      BY DEF StepFails, FinishStep
    <2> QED
      BY <2>1, <2>2, <2>3, <2>4 DEF NextRound, StepSucceeds
  <1> QED
    BY <1>1, <1>2

(* A step is reported as successful, and followed by the next loop item or *)
(* handler, only after the last attempt on every target host was executed  *)
(* to a good end; but not if the retries of the round are negative, when   *)
(* runWithRetry makes no attempt and returns no error.                     *)
THEOREM TrueReports == Spec => ReportsAreTrue
  <1>1. ASSUME IInv, [Next]_vars, Reported \/ WentOn, ~NoTries, NEW h \in Targets[step]
        PROVE  Executed(h)
    <2>1. Joined /\ ~HostsFailed /\ round > 0 /\ step \in StepIds
      <3>1. round \in Nat /\ step \in 1..(LastStep + 1) /\ (round > 0 => step <= LastStep)
        BY <1>1 DEF IInv, TypeOK
      <3>2. Joined /\ ~HostsFailed
        BY <1>1, OnlyWhenJoined DEF IInv
      <3> QED
        BY <3>1, <3>2 DEF Joined, StepIds
    <2>2. h \in Hosts
      BY <1>1, <2>1, DispatchAssumption DEF StepIds
    <2>3. at[h] = "ok"
      BY <1>1, <2>1 DEF Joined, HostsFailed
    <2> QED
      BY <1>1, <2>2, <2>3 DEF IInv, Backed, Done, Executed
  <1>2. IInv /\ [Next]_vars
        => [Reported \/ WentOn => RetriesNow < 0 \/ \A h \in Targets[step] : Executed(h)]_vars
    BY <1>1 DEF NoTries
  <1> QED
    BY <1>2, Invariance, PTL DEF Spec, ReportsAreTrue
=============================================================================
