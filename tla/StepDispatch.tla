---------------------------- MODULE StepDispatch ----------------------------
(***************************************************************************)
(* A linear workflow (executor.go) whose steps run on hosts at once.  Each *)
(* host has a goroutine that retries the step (runWithRetry); every attempt *)
(* is a task of its own, because engine.go puts the time into its id.  The *)
(* dispatcher hands a task of a remote host to the agent of that host over *)
(* HTTP and repeats the request under the same id when no good answer came; *)
(* the agent (agent/main.go) recognises a task it has, executes it outside *)
(* of the request and answers with the outcome or with "running", and then *)
(* the dispatcher polls.                                                   *)
(*                                                                         *)
(* The network may hold a request back for as long as it likes, lose it or *)
(* lose its answer: the client then runs into its own timeout.  An agent   *)
(* may restart, with an empty table.  The hosts in Locals are dispatched in *)
(* the process of the executor.                                            *)
(***************************************************************************)
EXTENDS Integers

CONSTANTS
  Hosts,        \* the hosts of the inventory
  Locals,       \* those named local or at 127.0.0.1
  LastStep,     \* the steps of the workflow are 1..LastStep
  Targets,      \* the hosts of each step
  Tolerant,     \* the steps with continue_on_error
  Retries,      \* retries of each round of a step, or of the handler it calls, on a host
  Rounds,       \* how often each step goes over its hosts at most: loop items, handlers
  RetryMax,     \* retries of a request (RUNNER_AGENT_RETRY_MAX)
  MaxTasks,     \* bound: attempts on a host, over the whole run
  MaxRestarts   \* bound: restarts of an agent

ASSUME DispatchAssumption ==
  /\ Locals \subseteq Hosts
  /\ LastStep \in Nat
  /\ Targets \in [1..LastStep -> (SUBSET Hosts) \ {{}}]
  /\ Tolerant \subseteq 1..LastStep
  /\ Rounds \in [1..LastStep -> Nat \ {0}]
  /\ \A s \in 1..LastStep : \A n \in 1..Rounds[s] : Retries[s][n] \in Int
  /\ RetryMax \in Nat /\ MaxTasks \in Nat /\ MaxRestarts \in Nat

VARIABLES
  live,       \* whether the context of the run is not canceled
  run,        \* what Run has returned, if it has
  step,       \* the step in hand
  status,     \* what the observer was told of each step
  round,      \* the call of runOnTargets within the step, 0 between two steps
  at,         \* where the goroutine of a host is
  attempt,    \* runWithRetry's i
  goes,       \* the task of the attempt
  try,        \* dispatchRemote's attempt
  call,       \* how far each request to /run has come
  work,       \* what became of the execution a request started
  entry,      \* the agent's table of tasks
  restarts,   \* how often the agent of a host has restarted
  raced,      \* history: tasks looked up by two handlers before either entered it
  gaveUp      \* history: tasks the client stopped waiting for without a verdict

evars == <<run, step, status, round>>
hvars == <<at, attempt, goes, try>>
avars == <<call, work, entry, restarts, raced>>
vars  == <<live, evars, hvars, avars, gaveUp>>

StepIds  == 1..LastStep
Tasks    == Hosts \X (1..MaxTasks)
Requests == Hosts \X (1..MaxTasks) \X (0..RetryMax)

\* The number of retries is an int that nothing checks: it may be negative.
RetriesNow == Retries[step][round]

Verdicts  == {"success", "failed"}
CallState == {"none", "sent", "looked", "serving", "running", "over"} \cup Verdicts
WorkState == {"none", "busy"} \cup Verdicts

Task(h)   == <<h, goes[h]>>
Req(h)    == <<h, goes[h], try[h]>>
TaskOf(r) == <<r[1], r[2]>>

TypeOK ==
  /\ live \in BOOLEAN
  /\ run \in {"running", "ok", "failed"}
  /\ step \in 1..(LastStep + 1)
  /\ status \in [StepIds -> {"none", "running", "success", "failed"}]
  /\ round \in Nat /\ (round > 0 => step <= LastStep /\ round <= Rounds[step])
  /\ at \in [Hosts -> {"idle", "attempt", "dispatch", "awaitRun", "poll", "local",
                       "ok", "failed"}]
  /\ attempt \in [Hosts -> Nat]
  /\ \A h \in Hosts : attempt[h] > 0 => round > 0 /\ attempt[h] <= RetriesNow
  /\ goes \in [Hosts -> 0..MaxTasks]
  /\ try \in [Hosts -> 0..RetryMax]
  /\ call \in [Requests -> CallState]
  /\ work \in [Requests -> WorkState]
  /\ entry \in [Tasks -> {"none", "running"} \cup Verdicts]
  /\ restarts \in [Hosts -> 0..MaxRestarts]
  /\ raced \subseteq Tasks /\ gaveUp \subseteq Tasks

Init ==
  /\ live = TRUE
  /\ run = "running"
  /\ step = 1
  /\ status = [s \in StepIds |-> "none"]
  /\ round = 0
  /\ at = [h \in Hosts |-> "idle"]
  /\ attempt = [h \in Hosts |-> 0]
  /\ goes = [h \in Hosts |-> 0]
  /\ try = [h \in Hosts |-> 0]
  /\ call = [r \in Requests |-> "none"]
  /\ work = [r \in Requests |-> "none"]
  /\ entry = [t \in Tasks |-> "none"]
  /\ restarts = [h \in Hosts |-> 0]
  /\ raced = {} /\ gaveUp = {}

-----------------------------------------------------------------------------
(* The executor (Executor.Run).                                            *)

Choosing == run = "running" /\ round = 0 /\ step <= LastStep

\* runOnTargets starts one goroutine for each target.
StartHosts ==
  /\ at' = [h \in Hosts |-> IF h \in Targets[step] THEN "attempt" ELSE "idle"]
  /\ UNCHANGED <<attempt, goes, try>>

\* The step's condition does not hold.
SkipStep ==
  /\ Choosing
  /\ step' = step + 1
  /\ UNCHANGED <<live, run, status, round, hvars, avars, gaveUp>>

\* The condition or the targets of the step are not valid: nobody is told.
RefuseStep ==
  /\ Choosing
  /\ run' = "failed"
  /\ UNCHANGED <<live, step, status, round, hvars, avars, gaveUp>>

\* must_vars are missing: the run fails, also with continue_on_error.
FailMustVars ==
  /\ Choosing
  /\ status' = [status EXCEPT ![step] = "failed"]
  /\ run' = "failed"
  /\ UNCHANGED <<live, step, round, hvars, avars, gaveUp>>

BeginStep ==
  /\ Choosing
  /\ status' = [status EXCEPT ![step] = "running"]
  /\ round' = 1
  /\ StartHosts
  /\ UNCHANGED <<live, run, step, avars, gaveUp>>

\* wg.Wait() has returned.
Joined == run = "running" /\ round > 0 /\ \A h \in Targets[step] : at[h] \in {"ok", "failed"}

HostsFailed == \E h \in Targets[step] : at[h] = "failed"

FinishStep(outcome) ==
  /\ status' = [status EXCEPT ![step] = outcome]
  /\ round' = 0
  /\ at' = [h \in Hosts |-> "idle"]
  /\ UNCHANGED <<live, attempt, goes, try, avars, gaveUp>>

\* The next loop item, or a handler the step notifies.
NextRound ==
  /\ Joined /\ ~HostsFailed
  /\ round < Rounds[step]
  /\ round' = round + 1
  /\ StartHosts
  /\ UNCHANGED <<live, run, step, status, avars, gaveUp>>

StepSucceeds ==
  /\ Joined /\ ~HostsFailed
  /\ FinishStep("success")
  /\ step' = step + 1
  /\ UNCHANGED run

\* A host failed; or an expected variable or a handler is missing, which may
\* happen although none did.
StepFails ==
  /\ Joined
  /\ FinishStep("failed")
  /\ IF step \in Tolerant
     THEN step' = step + 1 /\ UNCHANGED run
     ELSE run' = "failed" /\ UNCHANGED step

RunReturns ==
  /\ run = "running" /\ step > LastStep
  /\ run' = "ok"
  /\ UNCHANGED <<live, step, status, round, hvars, avars, gaveUp>>

\* The caller cancels the context of the run.
CancelRun ==
  /\ live /\ run = "running"
  /\ live' = FALSE
  /\ UNCHANGED <<evars, hvars, avars, gaveUp>>

-----------------------------------------------------------------------------
(* The goroutine of a host: runWithRetry and HybridDispatcher.Dispatch.    *)

Goto(h, p) == at' = [at EXCEPT ![h] = p]

\* The goroutine of the host is done, and its counters are gone.
Leaves(h, p) ==
  /\ Goto(h, p)
  /\ attempt' = [attempt EXCEPT ![h] = 0]
  /\ try' = [try EXCEPT ![h] = 0]

Succeeds(h) == Leaves(h, "ok")

\* Mutant of TaskFails: one retry too many.
TaskFailsOnceMore(h) ==
  IF attempt[h] <= RetriesNow
  THEN /\ Goto(h, "attempt")
       /\ attempt' = [attempt EXCEPT ![h] = @ + 1]
       /\ try' = [try EXCEPT ![h] = 0]
  ELSE Leaves(h, "failed")

\* The attempt has failed.
TaskFails(h) ==
  IF attempt[h] < RetriesNow
  THEN /\ Goto(h, "attempt")
       /\ attempt' = [attempt EXCEPT ![h] = @ + 1]
       /\ try' = [try EXCEPT ![h] = 0]
  ELSE Leaves(h, "failed")

\* The request has failed; dispatchRemote repeats it under the same task id.
TryFails(h) ==
  IF try[h] < RetryMax
  THEN Goto(h, "dispatch") /\ try' = [try EXCEPT ![h] = @ + 1] /\ UNCHANGED attempt
  ELSE TaskFails(h)

\* The connection of the request is closed: what the handler answers is lost.
HangUp(h) ==
  call' = [call EXCEPT ![Req(h)] = IF @ \in {"sent", "looked"} THEN @ ELSE "over"]

GiveUp(h) == gaveUp' = gaveUp \cup {Task(h)}

\* The condition of the loop of attempts.
Entered(h) == attempt[h] <= RetriesNow

Attempt(h) ==
  /\ at[h] = "attempt" /\ live /\ Entered(h)
  /\ goes[h] < MaxTasks
  /\ goes' = [goes EXCEPT ![h] = @ + 1]
  /\ IF h \in Locals
     THEN /\ Goto(h, "local")
          /\ work' = [work EXCEPT ![<<h, goes[h] + 1, 0>>] = "busy"]
     ELSE Goto(h, "dispatch") /\ UNCHANGED work
  /\ UNCHANGED <<live, evars, attempt, try, call, entry, restarts, raced, gaveUp>>

\* The context is done before an attempt.
NoAttempt(h) ==
  /\ at[h] = "attempt" /\ ~live /\ Entered(h)
  /\ Leaves(h, "failed")
  /\ UNCHANGED <<live, evars, goes, avars, gaveUp>>

\* With negative retries the loop is not entered and there is no error to return:
\* the host counts as done, whatever the context says.
NoLoop(h) ==
  /\ at[h] = "attempt" /\ ~Entered(h)
  /\ Succeeds(h)
  /\ UNCHANGED <<live, evars, goes, avars, gaveUp>>

\* dispatchLocal: the module returns.
LocalReturns(h, o) ==
  /\ at[h] = "local"
  /\ work' = [work EXCEPT ![Req(h)] = o]
  /\ \/ o = "success" /\ Succeeds(h)
     \/ o = "failed" /\ TaskFails(h)
  /\ UNCHANGED <<live, evars, goes, call, entry, restarts, raced, gaveUp>>

Send(h) ==
  /\ at[h] = "dispatch" /\ live
  /\ call' = [call EXCEPT ![Req(h)] = "sent"]
  /\ Goto(h, "awaitRun")
  /\ UNCHANGED <<live, evars, attempt, goes, try, work, entry, restarts, raced, gaveUp>>

\* The heartbeat that goes ahead of the request, where it is switched on, fails.
HeartbeatFails(h) ==
  /\ at[h] = "dispatch" /\ live
  /\ TryFails(h)
  /\ UNCHANGED <<live, evars, goes, avars, gaveUp>>

\* Mutant of TakeAnswer: an answer that is not a success is a failure.
TakeAnswerNoPoll(h) ==
  /\ at[h] = "awaitRun" /\ live
  /\ \/ call[Req(h)] = "success" /\ Succeeds(h)
     \/ call[Req(h)] \in {"running", "failed"} /\ TryFails(h)
  /\ HangUp(h)
  /\ UNCHANGED <<live, evars, goes, work, entry, restarts, raced, gaveUp>>

\* The answer to /run: "running" is followed by polling, a failure by a retry.
TakeAnswer(h) ==
  /\ at[h] = "awaitRun" /\ live
  /\ \/ /\ call[Req(h)] = "running" /\ Goto(h, "poll")
        /\ try' = [try EXCEPT ![h] = 0] /\ UNCHANGED attempt
     \/ call[Req(h)] = "success" /\ Succeeds(h)
     \/ call[Req(h)] = "failed" /\ TryFails(h)
  /\ HangUp(h)
  /\ UNCHANGED <<live, evars, goes, work, entry, restarts, raced, gaveUp>>

\* The HTTP client's timeout, or a connection that breaks.
RequestTimeout(h) ==
  /\ at[h] = "awaitRun"
  /\ TryFails(h)
  /\ HangUp(h) /\ GiveUp(h)
  /\ UNCHANGED <<live, evars, goes, work, entry, restarts, raced>>

\* Mutant of TakeStatus: a task the agent does not know is done.
TakeStatusUnknownDone(h) ==
  /\ at[h] = "poll" /\ live
  /\ \/ entry[Task(h)] \in {"success", "none"} /\ Succeeds(h)
     \/ entry[Task(h)] = "failed" /\ TaskFails(h)
  /\ UNCHANGED <<live, evars, goes, avars, gaveUp>>

\* One answer of /status that is not "running".  A task the agent does not know
\* is a failure, and a failure ends the attempt without another request.
TakeStatus(h) ==
  /\ at[h] = "poll" /\ live
  /\ \/ entry[Task(h)] = "success" /\ Succeeds(h)
     \/ entry[Task(h)] \in {"failed", "none"} /\ TaskFails(h)
  /\ UNCHANGED <<live, evars, goes, avars, gaveUp>>

\* The polling breaks off: a /status request fails or times out, AsyncTimeout is
\* over, or the context is done.
PollBreaks(h) ==
  /\ at[h] = "poll"
  /\ TaskFails(h)
  /\ GiveUp(h)
  /\ UNCHANGED <<live, evars, goes, avars>>

\* The step's timeout, or the context of the run, ends the wait for an answer.
RequestEnds(h) ==
  /\ at[h] = "awaitRun"
  /\ TaskFails(h)
  /\ HangUp(h) /\ GiveUp(h)
  /\ UNCHANGED <<live, evars, goes, work, entry, restarts, raced>>

\* Or it keeps the request from being sent.
NoRequest(h) ==
  /\ at[h] = "dispatch"
  /\ TaskFails(h)
  /\ UNCHANGED <<live, evars, goes, avars, gaveUp>>

HostStep(h) ==
  \/ Attempt(h) \/ NoAttempt(h) \/ NoLoop(h)
  \/ \E o \in Verdicts : LocalReturns(h, o)
  \/ Send(h) \/ HeartbeatFails(h) \/ TakeAnswer(h) \/ RequestTimeout(h)
  \/ RequestEnds(h) \/ NoRequest(h) \/ TakeStatus(h) \/ PollBreaks(h)

-----------------------------------------------------------------------------
(* The agents (agent/main.go).                                             *)

\* Its client waits for the answer to the request.
Awaited(r) == at[r[1]] = "awaitRun" /\ r = Req(r[1])

Reply(r, x) == call' = [call EXCEPT ![r] = IF Awaited(r) THEN x ELSE "over"]

\* The request is not accepted: the token, the body or the action is wrong.
Reject(r) ==
  /\ call[r] = "sent"
  /\ Reply(r, "failed")
  /\ UNCHANGED <<live, evars, hvars, work, entry, restarts, raced, gaveUp>>

\* getTask: a known task is answered from the table.
Known(r) ==
  /\ call[r] = "sent" /\ entry[TaskOf(r)] # "none"
  /\ Reply(r, entry[TaskOf(r)])
  /\ UNCHANGED <<live, evars, hvars, work, entry, restarts, raced, gaveUp>>

Rivals(r) == {q \in Requests : TaskOf(q) = TaskOf(r) /\ q # r /\ call[q] = "looked"}

\* The handler has not found the task, and unlocks the table.
Unknown(r) ==
  /\ call[r] = "sent" /\ entry[TaskOf(r)] = "none"
  /\ call' = [call EXCEPT ![r] = "looked"]
  /\ raced' = IF Rivals(r) # {} THEN raced \cup {TaskOf(r)} ELSE raced
  /\ UNCHANGED <<live, evars, hvars, work, entry, restarts, gaveUp>>

\* setTask, and the goroutine that executes the task.
Enter(r) ==
  /\ call[r] = "looked"
  /\ Reply(r, "serving")
  /\ entry' = [entry EXCEPT ![TaskOf(r)] = "running"]
  /\ work' = [work EXCEPT ![r] = "busy"]
  /\ UNCHANGED <<live, evars, hvars, restarts, raced, gaveUp>>

\* Mutant of Finish: finished tasks leave the table.
FinishForgets(r, o) ==
  /\ r[1] \notin Locals /\ work[r] = "busy"
  /\ work' = [work EXCEPT ![r] = o]
  /\ entry' = [entry EXCEPT ![TaskOf(r)] = "none"]
  /\ UNCHANGED <<live, evars, hvars, call, restarts, raced, gaveUp>>

\* The module returns and updateTask stores the outcome.
Finish(r, o) ==
  /\ r[1] \notin Locals /\ work[r] = "busy"
  /\ work' = [work EXCEPT ![r] = o]
  /\ entry' = [entry EXCEPT ![TaskOf(r)] = o]
  /\ UNCHANGED <<live, evars, hvars, call, restarts, raced, gaveUp>>

\* The handler answers with the outcome, or with "running" when the threshold is
\* over, which may also be so when the outcome is there.
Answer(r) ==
  /\ call[r] = "serving"
  /\ \/ Reply(r, "running")
     \/ work[r] \in Verdicts /\ Reply(r, work[r])
  /\ UNCHANGED <<live, evars, hvars, work, entry, restarts, raced, gaveUp>>

\* The agent restarts: its table, its handlers and what they execute are gone.
AgentRestarts(h) ==
  /\ h \notin Locals /\ restarts[h] < MaxRestarts
  /\ restarts' = [restarts EXCEPT ![h] = @ + 1]
  /\ entry' = [t \in Tasks |-> IF t[1] = h THEN "none" ELSE entry[t]]
  /\ work' = [r \in Requests |-> IF r[1] = h /\ work[r] = "busy" THEN "failed" ELSE work[r]]
  /\ call' = [r \in Requests |-> IF r[1] = h /\ call[r] \in {"looked", "serving"}
                                 THEN "over" ELSE call[r]]
  /\ UNCHANGED <<live, evars, hvars, raced, gaveUp>>

-----------------------------------------------------------------------------
ExecutorStep ==
  \/ SkipStep \/ RefuseStep \/ FailMustVars \/ BeginStep
  \/ NextRound \/ StepSucceeds \/ StepFails \/ RunReturns

AgentStep ==
  \/ \E r \in Requests : \/ Reject(r) \/ Known(r) \/ Unknown(r) \/ Enter(r)
                         \/ \E o \in Verdicts : Finish(r, o)
                         \/ Answer(r)
  \/ \E h \in Hosts : AgentRestarts(h)

Next == ExecutorStep \/ CancelRun \/ (\E h \in Hosts : HostStep(h)) \/ AgentStep

Spec == Init /\ [][Next]_vars

-----------------------------------------------------------------------------
(* Properties.                                                             *)

Reported == \E s \in StepIds : status[s] = "running" /\ status'[s] = "success"
WentOn   == round > 0 /\ round' = round + 1
Executed(h) == \E k \in 0..RetryMax : work[<<h, goes[h], k>>] = "success"

\* A step is reported as successful, and a round followed by the next one, only
\* after the last attempt on every target was executed to a good end: not on the
\* word of a table that has forgotten the task or of an answer about another one.
\* The one success without an execution is a round whose retries are negative.
ReportsAreTrue ==
  [][Reported \/ WentOn => RetriesNow < 0 \/ \A h \in Targets[step] : Executed(h)]_vars

\* The agent executes a task twice only if two requests for it were between the
\* look into the table and the entry at the same time, or after a restart.
TwiceOnlyInTheGap ==
  \A q, r \in Requests :
    (TaskOf(q) = TaskOf(r) /\ q # r /\ work[q] # "none" /\ work[r] # "none")
       => TaskOf(r) \in raced \/ restarts[r[1]] > 0

\* Nothing is executed behind the executor's back: what an agent executes is the
\* task some goroutine waits for, unless the client stopped waiting without a
\* verdict.  So a retry, the next step or the end of the run overlap with earlier
\* work only then.
NothingRunsUnwatched ==
  \A r \in Requests :
    work[r] = "busy" =>
      \/ TaskOf(r) = Task(r[1]) /\ at[r[1]] \in {"awaitRun", "poll", "local"}
      \/ TaskOf(r) \in gaveUp
=============================================================================
