----------------------------- MODULE TurnKernel -----------------------------
(***************************************************************************)
(* The turns of one session in the runtime kernel: RunTurn, ResumeTurn and *)
(* CancelTurn calls that arrive on goroutines of their own, the iteration  *)
(* loop that asks the model and dispatches the tool calls it answers with, *)
(* the approval a tool call may wait for, and the session record that      *)
(* survives the process.                                                   *)
(*                                                                         *)
(* The session is shared without a lock: a call reads and writes the turn  *)
(* between the steps of other calls.  Only ResumeTurn takes the lock of    *)
(* its turn.  Every change of a turn ends in persistTurnSnapshot, which    *)
(* saves the session before the call goes on (PostgresStore; the JSON file *)
(* store writes later).  A crash keeps what was saved: the current turn.   *)
(***************************************************************************)
EXTENDS Naturals, FiniteSets

CONSTANTS
    Turns, Calls, None,
    Tools,          \* the tool calls the model may ask for
    ReadOnly,       \* those that change nothing: neither mutating nor destructive
    MaxIterations,  \* maxIterations, 16 in the code
    MaxAsk,         \* bound: tool calls in one answer of the model
    MaxCrashes      \* bound

ASSUME KernelAssumption ==
    /\ None \notin Turns \cup Calls \cup Tools
    /\ ReadOnly \subseteq Tools
    /\ MaxIterations \in Nat /\ MaxAsk \in Nat /\ MaxCrashes \in Nat

VARIABLES
    cur,            \* session.CurrentTurn
    life, rs,       \* Lifecycle and ResumeState of each turn ("none": no snapshot)
    offer,          \* the tool call of the turn's pending approval
    todo,           \* tool calls of its last iteration that have no result
    iter,           \* len(snapshot.Iterations)
    owner,          \* the turn that asked for a tool call
    stored,         \* the current turn as the store has it
    pc, turn,       \* per call: its next step, the turn it is about
    about, dec,     \* the tool call it executes or decides, the decision
    batch,          \* the tool calls it executes together whose result is not recorded
    reason,         \* it took a pending cancel reason when it registered
    stopped,        \* its context is cancelled
    inFlight,       \* inFlightTurnCancel
    pendingCancel,  \* pendingTurnCancel
    lock,           \* holder of the turn's operation lock
    begun,          \* turn ids that were sent
    started,        \* how often the tool call was executed: never, once, more often
    denied,         \* tool calls whose denial ended the turn
    crashes

session == <<cur, life, rs, offer, todo, iter, stored>>
context == <<turn, about, dec, batch, reason, stopped>>
cancels == <<inFlight, pendingCancel, lock>>
ghosts  == <<owner, begun, started, denied, crashes>>
vars    == <<session, pc, context, cancels, ghosts>>

Lives    == {"none", "running", "suspended", "resumable", "completed", "failed", "canceled"}
Resumes  == {"none", "approval", "ready", "resumable"}
Waiting  == {"suspended", "resumable"}                \* CanResume, "blocked" to the validator
Open     == {"running"} \cup Waiting                  \* may be cancelled
Steps    == {"idle", "admitted", "registered", "ready", "model", "finishing", "tools", "exec",
             "batch", "results", "locking", "deciding", "denying", "committing", "approved",
             "resuming", "drain", "canceling", "marking", "leaving"}

Init ==
    /\ cur = None
    /\ life = [t \in Turns |-> "none"]
    /\ rs = [t \in Turns |-> "none"]
    /\ offer = [t \in Turns |-> None]
    /\ todo = [t \in Turns |-> {}]
    /\ iter = [t \in Turns |-> 0]
    /\ stored = [turn |-> None, life |-> "none", rs |-> "none", offer |-> None, todo |-> {},
                 iter |-> 0]
    /\ owner = [x \in Tools |-> None]
    /\ pc = [c \in Calls |-> "idle"]
    /\ turn = [c \in Calls |-> None]
    /\ about = [c \in Calls |-> None]
    /\ dec = [c \in Calls |-> "none"]
    /\ batch = [c \in Calls |-> {}]
    /\ reason = [c \in Calls |-> FALSE]
    /\ stopped = [c \in Calls |-> FALSE]
    /\ inFlight = [t \in Turns |-> None]
    /\ pendingCancel = {}
    /\ lock = [t \in Turns |-> None]
    /\ begun = {}
    /\ started = [x \in Tools |-> 0]
    /\ denied = {}
    /\ crashes = 0

-----------------------------------------------------------------------------
(* Writing a turn.                                                          *)

Goto(c, step) == pc' = [pc EXCEPT ![c] = step]

(* persistTurnSnapshot: the turn becomes the current one and is saved.      *)
Save(t, l, r, o, td, n) ==
    /\ cur' = t
    /\ life' = [life EXCEPT ![t] = l]
    /\ rs' = [rs EXCEPT ![t] = r]
    /\ offer' = [offer EXCEPT ![t] = o]
    /\ todo' = [todo EXCEPT ![t] = td]
    /\ iter' = [iter EXCEPT ![t] = n]
    /\ stored' = [turn |-> t, life |-> l, rs |-> r, offer |-> o, todo |-> td, iter |-> n]

Mark(t, l, r, o) == Save(t, l, r, o, todo[t], iter[t])
Touch(t)         == Mark(t, life[t], rs[t], offer[t])

(* ensureCurrentTurnSnapshot finds only the current turn: a turn that was   *)
(* displaced gets a new snapshot.                                           *)
Ensure(t) ==
    \/ cur = t /\ Touch(t)
    \/ cur # t /\ Save(t, "running", "none", None, {}, 0)

MarkCanceled(t) ==
    \/ life[t] \in Open /\ Mark(t, "canceled", "none", None)
    \/ life[t] \notin Open /\ UNCHANGED session

MarkFailed(t) ==
    \/ life[t] = "running" /\ Mark(t, "failed", "none", None)
    \/ life[t] # "running" /\ Touch(t)

\* Mutant of MarkBlocked: the session is saved before the approval is in the snapshot.
MarkBlockedSavedEarly(t, x) ==
    \/ /\ life[t] = "running"
       /\ cur' = t
       /\ life' = [life EXCEPT ![t] = "suspended"]
       /\ rs' = [rs EXCEPT ![t] = "approval"]
       /\ offer' = [offer EXCEPT ![t] = x]
       /\ stored' = [turn |-> t, life |-> "suspended", rs |-> "approval", offer |-> None,
                     todo |-> todo[t], iter |-> iter[t]]
       /\ UNCHANGED <<todo, iter>>
    \/ life[t] # "running" /\ UNCHANGED session

(* markTurnBlocked with a pending approval; a turn that is not running      *)
(* refuses and the call returns the error.                                  *)
MarkBlocked(t, x) ==
    \/ life[t] = "running" /\ Mark(t, "suspended", "approval", x)
    \/ life[t] # "running" /\ UNCHANGED session

IsResume(c) == lock[turn[c]] = c

-----------------------------------------------------------------------------
(* RunTurn up to the loop.                                                  *)

(* registerTurnExecution: the call becomes the one a cancel reaches, and    *)
(* takes the cancel that came before it.                                    *)
Register(c, t) ==
    /\ inFlight' = [inFlight EXCEPT ![t] = c]
    /\ reason' = [reason EXCEPT ![c] = t \in pendingCancel]
    /\ pendingCancel' = pendingCancel \ {t}

(* runningRegularTurnForPendingInput *)
OtherTurnRuns(t) ==
    /\ cur \notin {None, t}
    /\ life[cur] = "running"
    /\ rs[cur] = "none"

(* A message is queued as pending input of the running turn, or its turn is *)
(* let in: the check and the first write of the session are steps apart.    *)
RunTurn(c, t) ==
    /\ pc[c] = "idle"
    /\ t \notin begun
    /\ begun' = begun \cup {t}
    /\ \/ /\ OtherTurnRuns(t)
          /\ Touch(cur)
          /\ UNCHANGED <<pc, turn>>
       \/ /\ ~OtherTurnRuns(t)
          /\ Goto(c, "admitted")
          /\ turn' = [turn EXCEPT ![c] = t]
          /\ UNCHANGED session
    /\ UNCHANGED <<about, dec, batch, reason, stopped, cancels, owner, started, denied, crashes>>

RunRegister(c) ==
    /\ pc[c] = "admitted"
    /\ Goto(c, "registered")
    /\ Register(c, turn[c])
    /\ UNCHANGED <<session, turn, about, dec, batch, stopped, lock, ghosts>>

(* The user message opens the snapshot; a cancel that came first ends it.   *)
RunAdd(c) ==
    /\ pc[c] = "registered"
    /\ \/ reason[c] /\ Save(turn[c], "canceled", "none", None, {}, 0) /\ Goto(c, "leaving")
       \/ ~reason[c] /\ Ensure(turn[c]) /\ Goto(c, "ready")
    /\ UNCHANGED <<context, cancels, ghosts>>

(* The pre-turn hook refused. *)
RunRefused(c) ==
    /\ pc[c] = "registered"
    /\ Goto(c, "leaving")
    /\ UNCHANGED <<session, context, cancels, ghosts>>

(* GetModel failed: only RunTurn fails the turn. *)
NoModel(c) ==
    /\ pc[c] = "ready"
    /\ \/ IsResume(c) /\ UNCHANGED session
       \/ ~IsResume(c) /\ cur = turn[c] /\ MarkFailed(turn[c])
       \/ ~IsResume(c) /\ cur # turn[c] /\ Save(turn[c], "failed", "none", None, {}, 0)
    /\ Goto(c, "leaving")
    /\ UNCHANGED <<context, cancels, ghosts>>

-----------------------------------------------------------------------------
(* runHostIterationLoop.                                                    *)

LoopStart(c) ==
    /\ pc[c] = "ready"
    /\ Ensure(turn[c])
    /\ Goto(c, "model")
    /\ UNCHANGED <<context, cancels, ghosts>>

\* Mutant of ModelAsks: the loop runs once more than maxIterations.
ModelAsksOnceMore(c, ask) ==
    LET t == turn[c] IN
    /\ pc[c] = "model"
    /\ iter[t] <= MaxIterations
    /\ Cardinality(ask) <= MaxAsk
    /\ \A x \in ask : owner[x] = None
    /\ owner' = [x \in Tools |-> IF x \in ask THEN t ELSE owner[x]]
    /\ Save(t, life[t], rs[t], offer[t], ask, iter[t] + 1)
    /\ Goto(c, "tools")
    /\ UNCHANGED <<context, cancels, begun, started, denied, crashes>>

(* The model asks for tool calls (none: its answer was incomplete and it is *)
(* asked again).                                                            *)
ModelAsks(c, ask) ==
    LET t == turn[c] IN
    /\ pc[c] = "model"
    /\ iter[t] < MaxIterations
    /\ Cardinality(ask) <= MaxAsk
    /\ \A x \in ask : owner[x] = None
    /\ owner' = [x \in Tools |-> IF x \in ask THEN t ELSE owner[x]]
    /\ Save(t, life[t], rs[t], offer[t], ask, iter[t] + 1)
    /\ Goto(c, "tools")
    /\ UNCHANGED <<context, cancels, begun, started, denied, crashes>>

ModelAnswers(c) ==
    /\ pc[c] = "model"
    /\ iter[turn[c]] < MaxIterations
    /\ Touch(turn[c])
    /\ Goto(c, IF life[turn[c]] = "running" THEN "finishing" ELSE "leaving")
    /\ UNCHANGED <<context, cancels, ghosts>>

(* The final answer is committed without looking at the lifecycle again.    *)
FinishCommit(c) ==
    /\ pc[c] = "finishing"
    /\ Mark(turn[c], "completed", "none", offer[turn[c]])
    /\ Goto(c, "leaving")
    /\ UNCHANGED <<context, cancels, ghosts>>

ModelTimesOut(c) ==
    LET t == turn[c] IN
    /\ pc[c] = "model"
    /\ iter[t] < MaxIterations
    /\ \/ life[t] = "running" /\ Mark(t, "resumable", "resumable", offer[t])
       \/ life[t] # "running" /\ UNCHANGED session
    /\ Goto(c, "leaving")
    /\ UNCHANGED <<context, cancels, ghosts>>

(* The model call returns context.Canceled. *)
ModelStopped(c) ==
    LET t == turn[c] IN
    /\ pc[c] = "model"
    /\ iter[t] < MaxIterations
    /\ stopped[c]
    /\ \/ life[t] # "canceled" /\ MarkCanceled(t)
       \/ life[t] = "canceled" /\ Touch(t)
    /\ Goto(c, "leaving")
    /\ UNCHANGED <<context, cancels, ghosts>>

(* The turn is saved and marked failed; an error before the model is called *)
(* leaves a turn of RunTurn that was displaced, and one that has ended.     *)
ModelFails(c) ==
    LET t == turn[c] IN
    /\ pc[c] = "model"
    /\ \/ MarkFailed(t)
       \/ cur # t /\ (IsResume(c) => life[t] # "running") /\ UNCHANGED session
    /\ Goto(c, "leaving")
    /\ UNCHANGED <<context, cancels, ghosts>>

IterationLimit(c) ==
    LET t == turn[c] IN
    /\ pc[c] = "model"
    /\ iter[t] >= MaxIterations
    /\ \/ life[t] = "running" /\ MarkFailed(t)
       \/ life[t] # "running" /\ UNCHANGED session
    /\ Goto(c, "leaving")
    /\ UNCHANGED <<context, cancels, ghosts>>

ToolsDone(c) ==
    /\ pc[c] = "tools"
    /\ todo[turn[c]] = {}
    /\ Goto(c, "model")
    /\ UNCHANGED <<session, context, cancels, ghosts>>

(* ctx.Err() before the next dispatch; RunTurn looks the snapshot up again. *)
ToolsStopped(c) ==
    LET t == turn[c] IN
    /\ pc[c] = "tools"
    /\ stopped[c]
    /\ todo[t] # {}
    /\ \/ (IsResume(c) \/ cur = t) /\ MarkCanceled(t)
       \/ ~IsResume(c) /\ cur # t /\ Save(t, "canceled", "none", None, {}, 0)
    /\ Goto(c, "leaving")
    /\ UNCHANGED <<context, cancels, ghosts>>

Once(n) == IF n < 2 THEN n + 1 ELSE n

Counted(xs) == started' = [x \in Tools |-> IF x \in xs THEN Once(started[x]) ELSE started[x]]

(* The invocation is recorded as running and the tool executes.             *)
Execute(c, x, step) ==
    /\ Touch(turn[c])
    /\ about' = [about EXCEPT ![c] = x]
    /\ Counted({x})
    /\ Goto(c, step)
    /\ UNCHANGED <<turn, dec, batch, reason, stopped, cancels, owner, begun, denied, crashes>>

(* Whether a dispatch needs an approval is up to the policy, the permission *)
(* mode and what was approved for the session so far: both are possible.    *)
ToolStart(c, x) ==
    /\ pc[c] = "tools"
    /\ ~stopped[c]
    /\ x \in todo[turn[c]]
    /\ Execute(c, x, "exec")

\* Mutant of Repeatable: what may be executed once more is not asked for its effect.
RepeatableAny(x) == x \in Tools

(* toolExecutionIsClearlyReadOnly                                           *)
Repeatable(x) == x \in ReadOnly

(* executeToolWithReadOnlyRetry: after a timeout or an error of the network *)
(* the tool is called again within the dispatch, where this is switched on. *)
RetryTool(c, x) ==
    /\ \/ pc[c] \in {"exec", "resuming"} /\ x = about[c]
       \/ pc[c] = "batch" /\ x \in batch[c]
    /\ Repeatable(x)
    /\ Counted({x})
    /\ UNCHANGED <<session, pc, context, cancels, owner, begun, denied, crashes>>

ToolBlocks(c, x) ==
    /\ pc[c] = "tools"
    /\ ~stopped[c]
    /\ x \in todo[turn[c]]
    /\ MarkBlocked(turn[c], x)
    /\ Goto(c, "leaving")
    /\ UNCHANGED <<context, cancels, ghosts>>

ToolDone(c) ==
    LET t == turn[c] IN
    /\ pc[c] = "exec"
    /\ Save(t, life[t], rs[t], offer[t], todo[t] \ {about[c]}, iter[t])
    /\ Goto(c, "tools")
    /\ UNCHANGED <<context, cancels, ghosts>>

ToolFails(c) ==
    LET t == turn[c] IN
    /\ pc[c] = "exec"
    /\ \/ MarkFailed(t)
       \/ life[t] # "running" /\ UNCHANGED session
    /\ Goto(c, "leaving")
    /\ UNCHANGED <<context, cancels, ghosts>>

(* Tool calls that change nothing and are safe together are dispatched at   *)
(* once (parallelDispatchEligibility): xs are those that are executed.      *)
BatchStart(c, xs) ==
    /\ pc[c] = "tools"
    /\ ~stopped[c]
    /\ xs # {} /\ xs \subseteq todo[turn[c]]
    /\ \A x \in xs : Repeatable(x)
    /\ Touch(turn[c])
    /\ batch' = [batch EXCEPT ![c] = xs]
    /\ Counted(xs)
    /\ Goto(c, "batch")
    /\ UNCHANGED <<turn, about, dec, reason, stopped, cancels, owner, begun, denied, crashes>>

(* wg.Wait() has returned; of a cancelled call no result is recorded.       *)
BatchReturns(c) ==
    LET t == turn[c] IN
    /\ pc[c] = "batch"
    /\ \/ ~stopped[c] /\ Goto(c, "results") /\ UNCHANGED session
       \/ /\ stopped[c] /\ Goto(c, "leaving")
          /\ \/ (IsResume(c) \/ cur = t) /\ MarkCanceled(t)
             \/ ~IsResume(c) /\ cur # t /\ Save(t, "canceled", "none", None, {}, 0)
    /\ UNCHANGED <<context, cancels, ghosts>>

BatchDone(c, x) ==
    LET t == turn[c] IN
    /\ pc[c] = "results"
    /\ x \in batch[c]
    /\ Save(t, life[t], rs[t], offer[t], todo[t] \ {x}, iter[t])
    /\ batch' = [batch EXCEPT ![c] = @ \ {x}]
    /\ Goto(c, IF batch[c] = {x} THEN "tools" ELSE "results")
    /\ UNCHANGED <<turn, about, dec, reason, stopped, cancels, ghosts>>

(* One of the batch was not executed but needs an approval, or has failed:  *)
(* the call returns, and those after it are left without a result.          *)
BatchBlocks(c, x) ==
    /\ pc[c] = "results"
    /\ x \in todo[turn[c]] \ batch[c] /\ Repeatable(x)
    /\ MarkBlocked(turn[c], x)
    /\ Goto(c, "leaving")
    /\ UNCHANGED <<context, cancels, ghosts>>

BatchFails(c) ==
    LET t == turn[c] IN
    /\ pc[c] = "results"
    /\ \/ MarkFailed(t)
       \/ life[t] # "running" /\ UNCHANGED session
    /\ Goto(c, "leaving")
    /\ UNCHANGED <<context, cancels, ghosts>>

-----------------------------------------------------------------------------
(* ResumeTurn.                                                              *)

(* A resume of turn t: without a decision, or with one about a tool call.   *)
ResumeArrive(c, t, d, x) ==
    /\ pc[c] = "idle"
    /\ t \in begun
    /\ d = "none" <=> x = None
    /\ x # None => owner[x] = t
    /\ Goto(c, "locking")
    /\ turn' = [turn EXCEPT ![c] = t]
    /\ dec' = [dec EXCEPT ![c] = d]
    /\ about' = [about EXCEPT ![c] = x]
    /\ UNCHANGED <<session, batch, reason, stopped, cancels, ghosts>>

\* Mutant of Resumable: the recovery preconditions are not checked.
ResumableUnchecked(c) ==
    LET t == turn[c] IN
    /\ cur = t
    /\ \/ dec[c] = "none" /\ rs[t] # "approval"
       \/ dec[c] # "none" /\ offer[t] = about[c]

(* ValidateTurnRecoveryPreconditions and exactApprovalForResumeDecision     *)
Resumable(c) ==
    LET t == turn[c] IN
    /\ cur = t
    /\ life[t] \in Waiting
    /\ \/ dec[c] = "none" /\ rs[t] # "approval"
       \/ dec[c] # "none" /\ offer[t] = about[c]

\* Mutant of ResumeStart: the operation lock of the turn is not waited for.
ResumeStartUnlocked(c) ==
    LET t == turn[c] IN
    /\ pc[c] = "locking"
    /\ lock' = [lock EXCEPT ![t] = c]
    /\ Register(c, t)
    /\ Goto(c, IF Resumable(c) THEN "deciding" ELSE "leaving")
    /\ UNCHANGED <<session, turn, about, dec, batch, stopped, ghosts>>

(* The call registers before it looks at the turn: a resume of a turn that  *)
(* is running replaces the cancel function of the call that runs it.        *)
ResumeStart(c) ==
    LET t == turn[c] IN
    /\ pc[c] = "locking"
    /\ lock[t] = None
    /\ lock' = [lock EXCEPT ![t] = c]
    /\ Register(c, t)
    /\ Goto(c, IF Resumable(c) THEN "deciding" ELSE "leaving")
    /\ UNCHANGED <<session, turn, about, dec, batch, stopped, ghosts>>

(* emitApprovalDecided, then completeDeniedApprovalTurn up to its checks.   *)
ResumeDeny(c) ==
    /\ pc[c] = "deciding"
    /\ dec[c] = "denied"
    /\ Touch(turn[c])
    /\ Goto(c, IF life[turn[c]] \in {"suspended", "running"} THEN "denying" ELSE "leaving")
    /\ UNCHANGED <<context, cancels, ghosts>>

\* Mutant of DenyCommit: the denied turn is completed in memory and not saved.
DenyCommitUnsaved(c) ==
    /\ pc[c] = "denying"
    /\ life' = [life EXCEPT ![turn[c]] = "completed"]
    /\ rs' = [rs EXCEPT ![turn[c]] = "none"]
    /\ offer' = [offer EXCEPT ![turn[c]] = None]
    /\ denied' = denied \cup {about[c]}
    /\ Goto(c, "leaving")
    /\ UNCHANGED <<cur, todo, iter, stored, context, cancels, owner, begun, started, crashes>>

DenyCommit(c) ==
    /\ pc[c] = "denying"
    /\ Mark(turn[c], "completed", "none", None)
    /\ denied' = denied \cup {about[c]}
    /\ Goto(c, "leaving")
    /\ UNCHANGED <<context, cancels, owner, begun, started, crashes>>

ResumeCanceled(c) ==
    /\ pc[c] = "deciding"
    /\ dec[c] # "denied"
    /\ reason[c]
    /\ MarkCanceled(turn[c])
    /\ Goto(c, "leaving")
    /\ UNCHANGED <<context, cancels, ghosts>>

(* The action token no longer matches: a new approval of the call is asked. *)
ResumeStale(c) ==
    /\ pc[c] = "deciding"
    /\ dec[c] = "approved"
    /\ ~reason[c]
    /\ offer[turn[c]] = about[c]
    /\ Mark(turn[c], "suspended", "approval", about[c])
    /\ Goto(c, "leaving")
    /\ UNCHANGED <<context, cancels, ghosts>>

(* validateSnapshotResuming. With a pending approval the decision must be   *)
(* about it; if it is gone the call goes the way of a plain resume.         *)
ResumeProceed(c) ==
    LET t == turn[c] IN
    /\ pc[c] = "deciding"
    /\ dec[c] # "denied"
    /\ ~reason[c]
    /\ Goto(c, IF life[t] \in Waiting THEN "committing" ELSE "leaving")
    /\ UNCHANGED <<session, context, cancels, ghosts>>

(* commitSnapshotResuming: saved before the approved tool is dispatched.    *)
ResumeCommit(c) ==
    /\ pc[c] = "committing"
    /\ Mark(turn[c], "running", "none", None)
    /\ Goto(c, IF dec[c] = "approved" THEN "approved" ELSE "ready")
    /\ UNCHANGED <<context, cancels, ghosts>>

ApprovedStart(c) ==
    /\ pc[c] = "approved"
    /\ Execute(c, about[c], "resuming")

(* The dispatcher asks for an approval again. *)
ApprovedBlocks(c) ==
    /\ pc[c] = "approved"
    /\ MarkBlocked(turn[c], about[c])
    /\ Goto(c, "leaving")
    /\ UNCHANGED <<context, cancels, ghosts>>

(* recordResumedToolResult makes the turn running whatever it is by now.    *)
ResumedDone(c) ==
    LET t == turn[c] IN
    /\ pc[c] = "resuming"
    /\ Save(t, "running", "ready", None, todo[t] \ {about[c]}, iter[t])
    /\ Goto(c, "drain")
    /\ UNCHANGED <<context, cancels, ghosts>>

ResumedFails(c) ==
    LET t == turn[c] IN
    /\ pc[c] = "resuming"
    /\ \/ life[t] = "running" /\ MarkFailed(t)
       \/ life[t] # "running" /\ UNCHANGED session
    /\ Goto(c, "leaving")
    /\ UNCHANGED <<context, cancels, ghosts>>

(* The result cannot be recorded: the call returns and leaves the turn.     *)
ResumedLost(c) ==
    /\ pc[c] = "resuming"
    /\ Touch(turn[c])
    /\ Goto(c, "leaving")
    /\ UNCHANGED <<context, cancels, ghosts>>

(* drainRemainingToolCallsAfterResume looks at no cancelled context.        *)
DrainStart(c, x) ==
    /\ pc[c] = "drain"
    /\ x \in todo[turn[c]]
    /\ Execute(c, x, "resuming")

DrainBlocks(c, x) ==
    /\ pc[c] = "drain"
    /\ x \in todo[turn[c]]
    /\ MarkBlocked(turn[c], x)
    /\ Goto(c, "leaving")
    /\ UNCHANGED <<context, cancels, ghosts>>

DrainDone(c) ==
    /\ pc[c] = "drain"
    /\ todo[turn[c]] = {}
    /\ Goto(c, "ready")
    /\ UNCHANGED <<session, context, cancels, ghosts>>

-----------------------------------------------------------------------------
(* The end of a call, CancelTurn, and the process.                          *)

(* releaseTurnExecution deletes the cancel function of the turn, whichever  *)
(* call put it there.                                                       *)
Release(c) == inFlight' = [inFlight EXCEPT ![turn[c]] = None]

Leave(c) ==
    /\ pc[c] = "leaving"
    /\ Release(c)
    /\ lock' = [lock EXCEPT ![turn[c]] = IF @ = c THEN None ELSE @]
    /\ Goto(c, "idle")
    /\ turn' = [turn EXCEPT ![c] = None]
    /\ about' = [about EXCEPT ![c] = None]
    /\ dec' = [dec EXCEPT ![c] = "none"]
    /\ batch' = [batch EXCEPT ![c] = {}]
    /\ reason' = [reason EXCEPT ![c] = FALSE]
    /\ stopped' = [stopped EXCEPT ![c] = FALSE]
    /\ UNCHANGED <<session, pendingCancel, ghosts>>

(* requestTurnCancel: stop the call in flight, or leave the reason for the  *)
(* next one and go on to mark the turn.                                     *)
Cancel(c, t) ==
    /\ pc[c] = "idle"
    /\ \/ /\ inFlight[t] # None
          /\ stopped' = [stopped EXCEPT ![inFlight[t]] = TRUE]
          /\ UNCHANGED <<pc, turn, pendingCancel>>
       \/ /\ inFlight[t] = None
          /\ pendingCancel' = pendingCancel \cup {t}
          /\ Goto(c, "canceling")
          /\ turn' = [turn EXCEPT ![c] = t]
          /\ UNCHANGED stopped
    /\ UNCHANGED <<session, about, dec, batch, reason, inFlight, lock, ghosts>>

CancelCheck(c) ==
    LET t == turn[c] IN
    /\ pc[c] = "canceling"
    /\ \/ cur = t /\ life[t] \in Open /\ Goto(c, "marking") /\ UNCHANGED turn
       \/ ~(cur = t /\ life[t] \in Open) /\ Goto(c, "idle") /\ turn' = [turn EXCEPT ![c] = None]
    /\ UNCHANGED <<session, about, dec, batch, reason, stopped, cancels, ghosts>>

CancelCommit(c) ==
    /\ pc[c] = "marking"
    /\ Mark(turn[c], "canceled", "none", None)
    /\ Goto(c, "idle")
    /\ turn' = [turn EXCEPT ![c] = None]
    /\ UNCHANGED <<about, dec, batch, reason, stopped, cancels, ghosts>>

(* The process stops and starts again with the session the store has.       *)
Crash ==
    LET Kept(t, kept, lost) == IF t = stored.turn THEN kept ELSE lost IN
    /\ crashes < MaxCrashes
    /\ crashes' = crashes + 1
    /\ cur' = stored.turn
    /\ life' = [t \in Turns |-> Kept(t, stored.life, "none")]
    /\ rs' = [t \in Turns |-> Kept(t, stored.rs, "none")]
    /\ offer' = [t \in Turns |-> Kept(t, stored.offer, None)]
    /\ todo' = [t \in Turns |-> Kept(t, stored.todo, {})]
    /\ iter' = [t \in Turns |-> Kept(t, stored.iter, 0)]
    /\ pc' = [c \in Calls |-> "idle"]
    /\ turn' = [c \in Calls |-> None]
    /\ about' = [c \in Calls |-> None]
    /\ dec' = [c \in Calls |-> "none"]
    /\ batch' = [c \in Calls |-> {}]
    /\ reason' = [c \in Calls |-> FALSE]
    /\ stopped' = [c \in Calls |-> FALSE]
    /\ inFlight' = [t \in Turns |-> None]
    /\ pendingCancel' = {}
    /\ lock' = [t \in Turns |-> None]
    /\ UNCHANGED <<stored, owner, begun, started, denied>>

-----------------------------------------------------------------------------
Loop(c) ==
    \/ NoModel(c) \/ LoopStart(c)
    \/ \E ask \in SUBSET Tools : ModelAsks(c, ask)
    \/ ModelAnswers(c) \/ FinishCommit(c) \/ ModelTimesOut(c) \/ ModelStopped(c) \/ ModelFails(c)
    \/ IterationLimit(c)
    \/ ToolsDone(c) \/ ToolsStopped(c) \/ ToolDone(c) \/ ToolFails(c)
    \/ BatchReturns(c) \/ BatchFails(c)
    \/ \E xs \in SUBSET Tools : BatchStart(c, xs)
    \/ \E x \in Tools : \/ ToolStart(c, x) \/ ToolBlocks(c, x)
                        \/ RetryTool(c, x) \/ BatchDone(c, x) \/ BatchBlocks(c, x)

Resume(c) ==
    \/ ResumeStart(c) \/ ResumeDeny(c) \/ DenyCommit(c) \/ ResumeCanceled(c) \/ ResumeStale(c)
    \/ ResumeProceed(c) \/ ResumeCommit(c) \/ ApprovedStart(c) \/ ApprovedBlocks(c)
    \/ ResumedDone(c) \/ ResumedFails(c) \/ ResumedLost(c) \/ DrainDone(c)
    \/ \E x \in Tools : DrainStart(c, x) \/ DrainBlocks(c, x)

(* What a call does once it has arrived. *)
Step(c) ==
    \/ RunRegister(c) \/ RunAdd(c) \/ RunRefused(c)
    \/ Loop(c) \/ Resume(c)
    \/ Leave(c) \/ CancelCheck(c) \/ CancelCommit(c)

Arrive(c) ==
    \E t \in Turns :
        \/ RunTurn(c, t)
        \/ Cancel(c, t)
        \/ ResumeArrive(c, t, "none", None)
        \/ \E x \in Tools, d \in {"approved", "denied"} : ResumeArrive(c, t, d, x)

Next == Crash \/ \E c \in Calls : Arrive(c) \/ Step(c)

Spec == Init /\ [][Next]_vars

-----------------------------------------------------------------------------
TypeOK ==
    /\ cur \in Turns \cup {None}
    /\ life \in [Turns -> Lives]
    /\ rs \in [Turns -> Resumes]
    /\ offer \in [Turns -> Tools \cup {None}]
    /\ todo \in [Turns -> SUBSET Tools]
    /\ iter \in [Turns -> 0..MaxIterations]
    /\ owner \in [Tools -> Turns \cup {None}]
    /\ stored \in [turn : Turns \cup {None}, life : Lives, rs : Resumes,
                   offer : Tools \cup {None}, todo : SUBSET Tools, iter : 0..MaxIterations]
    /\ pc \in [Calls -> Steps]
    /\ turn \in [Calls -> Turns \cup {None}]
    /\ about \in [Calls -> Tools \cup {None}]
    /\ dec \in [Calls -> {"none", "approved", "denied"}]
    /\ batch \in [Calls -> SUBSET Tools]
    /\ reason \in [Calls -> BOOLEAN]
    /\ stopped \in [Calls -> BOOLEAN]
    /\ inFlight \in [Turns -> Calls \cup {None}]
    /\ pendingCancel \subseteq Turns
    /\ lock \in [Turns -> Calls \cup {None}]
    /\ begun \subseteq Turns
    /\ started \in [Tools -> 0..2]
    /\ denied \subseteq Tools
    /\ crashes \in 0..MaxCrashes

(* A tool call that may change something is executed at most once, whatever *)
(* resumes, cancels, stale approvals, concurrent turns and crashes come     *)
(* between the question and its result: an approval is never spent twice.   *)
(* A read-only call may be executed again, by a retry of its dispatch or    *)
(* after a batch that was blocked half way.                                 *)
StartedOnce == \A x \in Tools \ ReadOnly : started[x] <= 1

(* A tool call whose denial ended its turn was not and will not be          *)
(* executed; a read-only one may have been, in a batch.                     *)
DeniedNeverRuns == \A x \in denied \ ReadOnly : started[x] = 0

(* A suspended turn can be decided, after a crash too: the approval it      *)
(* waits for is in its snapshot, is about a call of its last iteration that *)
(* has no result yet, and that call, if it may change something, has not    *)
(* been executed.                                                           *)
SuspendedCanBeDecided ==
    \A t \in Turns : life[t] = "suspended" =>
        /\ rs[t] = "approval"
        /\ offer[t] \in todo[t]
        /\ offer[t] \notin ReadOnly => started[offer[t]] = 0

(* At most one call at a time works on a turn.                              *)
Working == {"ready", "model", "finishing", "tools", "exec", "batch", "results",
            "deciding", "denying", "committing", "approved", "resuming", "drain"}
OneWorker ==
    \A c, d \in Calls :
        pc[c] \in Working /\ pc[d] \in Working /\ turn[c] = turn[d] => c = d

(* "At any time at most one regular turn of a thread runs."                 *)
InLoop == {"model", "tools", "exec", "batch", "results", "resuming", "drain"}
OneRegularTurn ==
    \A c, d \in Calls : pc[c] \in InLoop /\ pc[d] \in InLoop => turn[c] = turn[d]
=============================================================================
