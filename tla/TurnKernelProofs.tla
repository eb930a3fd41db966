------------------------- MODULE TurnKernelProofs -------------------------
(***************************************************************************)
(* Why no tool call of a session that may change something is executed     *)
(* twice, and none after its denial.  No lock covers the session, so the argument is about who may   *)
(* work on a turn: at most one call is past the check that let it in       *)
(* (OneActive), because a turn that such a call works on never looks       *)
(* resumable to another one (BusyTurns).  A call that was executed and has *)
(* no result yet then belongs to the one call that executes it, or to a    *)
(* turn nothing can resume (Unfinished).  The tool calls that only read    *)
(* are left out of this: they are repeated, and batches leave them open.   *)
(***************************************************************************)
EXTENDS TurnKernel, TLAPS

(* The tool calls the argument is about.                                    *)
Changing == Tools \ ReadOnly

(* Calls that work on a turn that must not look resumable, those that have  *)
(* a resume under way, and both.                                            *)
Busy     == {"admitted", "registered", "ready", "model", "finishing", "tools", "exec",
             "batch", "results", "approved", "resuming", "drain"}
Deciding == {"deciding", "denying", "committing"}
Active   == Busy \cup Deciding
Running  == {"exec", "resuming"}

(* Where a call can be, and about what.                                     *)
Placed ==
    \A c \in Calls :
        /\ pc[c] # "idle" => turn[c] \in Turns
        /\ pc[c] \in Active \cup {"marking"} => turn[c] \in begun
        /\ pc[c] \in {"exec", "resuming", "approved"} => about[c] \in Tools
        /\ dec[c] # "none" => about[c] \in Tools
        /\ pc[c] = "denying" => dec[c] = "denied"

(* A turn that was not sent has left no trace.                              *)
Fresh ==
    \A t \in Turns \ begun :
        life[t] = "none" /\ offer[t] = None /\ todo[t] = {} /\ \A x \in Tools : owner[x] # t

(* A decision is taken under the lock of the turn.                          *)
Locked == \A c \in Calls : pc[c] \in Deciding => lock[turn[c]] = c

(* One call at a time is past the check that let it in.                     *)
OneActive == \A c, d \in Calls : pc[c] \in Active /\ pc[d] \in Active /\ turn[c] = turn[d] => c = d

(* A turn that is worked on does not look resumable.                        *)
BusyTurns ==
    \A c \in Calls : pc[c] \in Busy => life[turn[c]] \notin Waiting /\ offer[turn[c]] = None

(* A call belongs to the turn that asked for it.                            *)
Asked ==
    /\ \A t \in Turns : \A x \in todo[t] : owner[x] = t
    /\ \A x \in Changing : owner[x] = None => started[x] = 0

(* An approval that is offered is about an open call of the turn.           *)
Offered == \A t \in Turns : offer[t] # None => offer[t] \in todo[t]

(* So are the decision about it, and the execution of a call.               *)
Decided ==
    \A c \in Calls :
        \/ pc[c] \in Deciding /\ dec[c] # "none"
        \/ pc[c] \in {"approved", "exec", "resuming"}
        => about[c] \in todo[turn[c]]

(* An executed call without a result: the one call of the turn executes it, *)
(* or nobody works on the turn, and nobody can resume it.                   *)
Unfinished ==
    \A t \in Turns : \A x \in todo[t] \cap Changing : started[x] # 0 =>
        /\ life[t] \notin Waiting
        /\ \A c \in Calls : pc[c] \in Active /\ turn[c] = t => pc[c] \in Running /\ about[c] = x

(* A suspended turn waits for an approval.                                  *)
Suspension == \A t \in Turns : life[t] = "suspended" => rs[t] = "approval" /\ offer[t] # None

(* The turn of a denied call is over.                                       *)
DeniedClosed ==
    \A x \in denied :
        /\ x \in Changing => started[x] = 0
        /\ owner[x] \in Turns
        /\ life[owner[x]] \notin Waiting
        /\ \A c \in Calls : pc[c] \in Active => turn[c] # owner[x]

(* The store has the current turn as it is.                                 *)
StoredIsCurrent ==
    /\ stored.turn = cur
    /\ cur # None =>
        /\ stored.life = life[cur] /\ stored.rs = rs[cur] /\ stored.offer = offer[cur]
        /\ stored.todo = todo[cur] /\ stored.iter = iter[cur]

IInv ==
    /\ TypeOK /\ Placed /\ Fresh /\ Locked /\ OneActive /\ BusyTurns /\ Asked
    /\ Offered /\ Decided /\ Unfinished /\ StartedOnce /\ Suspension /\ DeniedClosed /\ StoredIsCurrent
-----------------------------------------------------------------------------
(* What a step of a call can do.  Every step is of one of these kinds, which *)
(* the proofs below are about instead of the sixty actions.                  *)

Others(c) ==
    \A d \in Calls \ {c} :
        pc'[d] = pc[d] /\ turn'[d] = turn[d] /\ about'[d] = about[d] /\ dec'[d] = dec[d]

Itself(c) == turn'[c] = turn[c] /\ dec'[c] = dec[c]

TurnKept(t) == life'[t] = life[t] /\ rs'[t] = rs[t] /\ offer'[t] = offer[t] /\ todo'[t] = todo[t]

Elsewhere(t) == \A u \in Turns \ {t} : TurnKept(u)

(* No tool call that may change something is executed.                      *)
StartedKept == \A x \in Changing : started'[x] = started[x]

LocksHold(c) == \A d \in Calls \ {c} : \A t \in Turns : lock[t] = d => lock'[t] = d

(* The calls that do not work on a turn: arriving, leaving, cancelling.     *)
Quiet(c) ==
    /\ pc[c] \notin Active /\ pc'[c] \notin Active
    /\ Others(c) /\ LocksHold(c)
    /\ \A t \in Turns : TurnKept(t)
    /\ begun \subseteq begun' /\ UNCHANGED <<owner, started, denied>>

(* A new turn is let in. *)
Admit(c) ==
    \E t \in Turns \ begun :
        /\ pc[c] = "idle" /\ pc'[c] = "admitted" /\ turn'[c] = t /\ dec'[c] = dec[c]
        /\ Others(c) /\ UNCHANGED lock
        /\ \A u \in Turns : TurnKept(u)
        /\ begun' = begun \cup {t} /\ UNCHANGED <<owner, started, denied>>

(* A resume is let in.                                                      *)
Enter(c) ==
    /\ pc[c] = "locking" /\ pc'[c] = "deciding"
    /\ Others(c) /\ Itself(c) /\ about'[c] = about[c] /\ LocksHold(c)
    /\ lock[turn[c]] = None /\ lock'[turn[c]] = c
    /\ Resumable(c)
    /\ \A t \in Turns : TurnKept(t)
    /\ UNCHANGED <<owner, begun, started, denied>>

(* A step of a call that works on a turn; by default nothing else changes.  *)
Works(c) ==
    /\ pc[c] \in Active
    /\ Others(c) /\ Itself(c) /\ UNCHANGED lock
    /\ Elsewhere(turn[c])
    /\ UNCHANGED begun

(* The turn ends, or is opened again, or stays as it is.                    *)
Settles(t) ==
    /\ TurnKept(t) \/ life'[t] \notin Waiting
    /\ offer'[t] \in {offer[t], None}
    /\ todo'[t] = todo[t] \/ (todo'[t] \subseteq todo[t] /\ offer'[t] = None)

(* On to another step, or out. *)
Goes(c) ==
    /\ Works(c) /\ Settles(turn[c])
    /\ \/ pc'[c] = "leaving"
       \/ /\ pc[c] \in Busy \ Running
          /\ pc'[c] \in Busy \ {"approved", "exec", "resuming"}
       \/ /\ pc'[c] = pc[c] \/ (pc[c] \in Deciding /\ pc'[c] \in Deciding)
          /\ TurnKept(turn[c]) /\ about'[c] = about[c]
    /\ StartedKept /\ UNCHANGED <<owner, denied>>

(* The model asks for tool calls that nobody has asked for.                 *)
Asks(c) ==
    \E ask \in SUBSET Tools :
        /\ Works(c) /\ pc[c] = "model" /\ pc'[c] = "tools"
        /\ \A x \in ask : owner[x] = None
        /\ owner' = [x \in Tools |-> IF x \in ask THEN turn[c] ELSE owner[x]]
        /\ life'[turn[c]] = life[turn[c]] /\ rs'[turn[c]] = rs[turn[c]]
        /\ offer'[turn[c]] = offer[turn[c]] /\ todo'[turn[c]] = ask
        /\ UNCHANGED <<started, denied>>

(* The turn waits and the call leaves it.                                   *)
Parks(c) ==
    /\ Works(c) /\ pc[c] \notin Running /\ pc'[c] = "leaving"
    /\ todo'[turn[c]] = todo[turn[c]]
    /\ \/ life'[turn[c]] = "resumable" /\ offer'[turn[c]] = offer[turn[c]]
       \/ /\ life'[turn[c]] = "suspended" /\ rs'[turn[c]] = "approval"
          /\ offer'[turn[c]] \in todo[turn[c]]
    /\ UNCHANGED <<owner, started, denied>>

(* A tool call is executed.                                                 *)
Starts(c) ==
    \E x \in Tools :
        /\ Works(c) /\ pc[c] \in Busy \ Running /\ pc'[c] \in Running
        /\ about'[c] = x /\ x \in todo[turn[c]]
        /\ started' = [y \in Tools |-> IF y = x THEN Once(started[x]) ELSE started[y]]
        /\ TurnKept(turn[c]) /\ UNCHANGED <<owner, denied>>

(* It has a result. *)
Returns(c) ==
    /\ Works(c) /\ pc[c] \in Running /\ pc'[c] \in {"tools", "drain"}
    /\ todo'[turn[c]] = todo[turn[c]] \ {about[c]}
    /\ \/ life'[turn[c]] = "running"
       \/ life'[turn[c]] = life[turn[c]] /\ rs'[turn[c]] = rs[turn[c]]
    /\ offer'[turn[c]] \in {offer[turn[c]], None}
    /\ UNCHANGED <<owner, started, denied>>

(* A decision makes the turn running again.                                 *)
Reopens(c) ==
    /\ Works(c) /\ pc[c] = "committing"
    /\ \/ pc'[c] = "approved" /\ dec[c] # "none" /\ about'[c] = about[c]
       \/ pc'[c] = "ready"
    /\ life'[turn[c]] = "running" /\ offer'[turn[c]] = None /\ todo'[turn[c]] = todo[turn[c]]
    /\ UNCHANGED <<owner, started, denied>>

(* A denial ends it. *)
Denies(c) ==
    /\ Works(c) /\ pc[c] = "denying" /\ pc'[c] = "leaving"
    /\ life'[turn[c]] = "completed" /\ offer'[turn[c]] = None /\ todo'[turn[c]] = todo[turn[c]]
    /\ denied' = denied \cup {about[c]} /\ UNCHANGED <<owner, started>>

(* A cancel ends it from outside.                                           *)
Cancels(c) ==
    /\ pc[c] = "marking" /\ pc'[c] = "idle"
    /\ Others(c) /\ UNCHANGED lock
    /\ Elsewhere(turn[c])
    /\ life'[turn[c]] = "canceled" /\ offer'[turn[c]] = None /\ todo'[turn[c]] = todo[turn[c]]
    /\ UNCHANGED <<owner, begun, started, denied>>

Kinds(c) ==
    \/ Quiet(c) \/ Admit(c) \/ Enter(c)
    \/ Goes(c) \/ Asks(c) \/ Parks(c) \/ Starts(c) \/ Returns(c)
    \/ Reopens(c) \/ Denies(c) \/ Cancels(c)

(* The steps of the loop.                                                   *)
LEMMA LoopKinds ==
    ASSUME TypeOK, Placed, BusyTurns, NEW c \in Calls, Loop(c)
    PROVE  Kinds(c)
<1> DEFINE t == turn[c]
<1>1. pc[c] \in Active => t \in Turns
  BY DEF Placed, Busy, Deciding, Active
<1>0. pc[c] = "results" => life[t] \notin Waiting /\ offer[t] = None
  BY DEF BusyTurns, Busy
<1> USE <1>1 DEF TypeOK, Save, Mark, Touch, Ensure, MarkCanceled, MarkFailed, MarkBlocked, Goto, session, cancels, context, ghosts, Others, Itself, TurnKept, Elsewhere, LocksHold, Busy, Deciding, Active, Running, Waiting, Settles, Works, StartedKept, Changing
<1>2. ASSUME NoModel(c) PROVE Goes(c)
  BY <1>2 DEF NoModel, Goes
<1>3. ASSUME LoopStart(c) PROVE Goes(c)
  BY <1>3 DEF LoopStart, Goes
<1>4. ASSUME ModelAnswers(c) PROVE Goes(c)
  BY <1>4 DEF ModelAnswers, Goes
<1>5. ASSUME FinishCommit(c) PROVE Goes(c)
  BY <1>5 DEF FinishCommit, Goes
<1>6. ASSUME ModelTimesOut(c) PROVE Goes(c) \/ Parks(c)
  BY <1>6 DEF ModelTimesOut, Goes, Parks
<1>7. ASSUME ModelStopped(c) PROVE Goes(c)
  BY <1>7 DEF ModelStopped, Goes
<1>8. ASSUME ModelFails(c) PROVE Goes(c)
  BY <1>8 DEF ModelFails, Goes
<1>9. ASSUME IterationLimit(c) PROVE Goes(c)
  BY <1>9 DEF IterationLimit, Goes
<1>10. ASSUME ToolsDone(c) PROVE Goes(c)
  BY <1>10 DEF ToolsDone, Goes
<1>11. ASSUME ToolsStopped(c) PROVE Goes(c)
  BY <1>11 DEF ToolsStopped, Goes
<1>12. ASSUME ToolDone(c) PROVE Returns(c)
  BY <1>12 DEF ToolDone, Returns
<1>13. ASSUME ToolFails(c) PROVE Goes(c)
  BY <1>13 DEF ToolFails, Goes
<1>14. ASSUME NEW ask \in SUBSET Tools, ModelAsks(c, ask) PROVE Asks(c)
  BY <1>14 DEF ModelAsks, Asks
<1>15. ASSUME NEW x \in Tools, ToolStart(c, x) PROVE Starts(c)
  BY <1>15 DEF ToolStart, Execute, Counted, Starts
<1>16. ASSUME NEW x \in Tools, ToolBlocks(c, x) PROVE Goes(c) \/ Parks(c)
  BY <1>16 DEF ToolBlocks, Goes, Parks
<1>17. ASSUME NEW x \in Tools, RetryTool(c, x) PROVE Goes(c)
  BY <1>17 DEF RetryTool, Repeatable, Counted, Goes
<1>18. ASSUME NEW xs \in SUBSET Tools, BatchStart(c, xs) PROVE Goes(c)
  BY <1>18 DEF BatchStart, Repeatable, Counted, Goes
<1>19. ASSUME BatchReturns(c) PROVE Goes(c)
  BY <1>19 DEF BatchReturns, Goes
<1>20. ASSUME NEW x \in Tools, BatchDone(c, x) PROVE Goes(c)
  <2>1. Works(c) /\ pc[c] = "results" /\ pc'[c] \in {"tools", "results"} /\ owner' = owner
        /\ started' = started /\ denied' = denied
    BY <1>20 DEF BatchDone
  <2>2. /\ life'[t] = life[t] /\ rs'[t] = rs[t] /\ offer'[t] = offer[t]
        /\ todo'[t] = todo[t] \ {x}
    BY <1>20 DEF BatchDone
  <2>3. life[t] \notin Waiting /\ offer[t] = None
    BY <2>1, <1>0
  <2> QED BY <2>1, <2>2, <2>3 DEF Goes
<1>21. ASSUME NEW x \in Tools, BatchBlocks(c, x) PROVE Goes(c) \/ Parks(c)
  BY <1>21 DEF BatchBlocks, Goes, Parks
<1>22. ASSUME BatchFails(c) PROVE Goes(c)
  BY <1>22 DEF BatchFails, Goes
<1> HIDE DEF TypeOK, Save, Mark, Touch, Ensure, MarkCanceled, MarkFailed, MarkBlocked, Goto, session, cancels, context, ghosts, Others, Itself, TurnKept, Elsewhere, LocksHold, Busy, Deciding, Active, Running, Waiting, Settles, Works, StartedKept, Changing
<1> QED BY <1>2, <1>3, <1>4, <1>5, <1>6, <1>7, <1>8, <1>9, <1>10, <1>11, <1>12, <1>13, <1>14, <1>15, <1>16,
       <1>17, <1>18, <1>19, <1>20, <1>21, <1>22 DEF Loop, Kinds

(* The steps of a resume.                                                   *)
LEMMA ResumeKinds ==
    ASSUME TypeOK, Placed, Decided, NEW c \in Calls, Resume(c)
    PROVE  Kinds(c)
<1>1. pc[c] # "idle" => turn[c] \in Turns
  BY DEF Placed
<1>D. pc[c] = "deciding" /\ dec[c] = "approved" => about[c] \in todo[turn[c]]
  BY DEF Decided, Deciding
<1>A. pc[c] = "approved" => about[c] \in todo[turn[c]] /\ about[c] \in Tools
  BY DEF Decided, Placed
<1> USE <1>1, KernelAssumption DEF TypeOK, Save, Mark, Touch, Ensure, MarkCanceled, MarkFailed, MarkBlocked, Goto, session, cancels, context, ghosts, Others, Itself, TurnKept, Elsewhere, LocksHold, Busy, Deciding, Active, Running, Waiting, Settles, Works, StartedKept, Changing
<1>2. ASSUME ResumeStart(c) PROVE Quiet(c) \/ Enter(c)
  BY <1>2 DEF ResumeStart, Register, Quiet, Enter
<1>3. ASSUME ResumeDeny(c) PROVE Goes(c)
  BY <1>3 DEF ResumeDeny, Goes
<1>4. ASSUME DenyCommit(c) PROVE Denies(c)
  BY <1>4 DEF DenyCommit, Denies
<1>5. ASSUME ResumeCanceled(c) PROVE Goes(c)
  BY <1>5 DEF ResumeCanceled, Goes
<1>6. ASSUME ResumeStale(c) PROVE Parks(c)
  BY <1>6, <1>D DEF ResumeStale, Parks
<1>7. ASSUME ResumeProceed(c) PROVE Goes(c)
  BY <1>7 DEF ResumeProceed, Goes
<1>8. ASSUME ResumeCommit(c) PROVE Reopens(c)
  BY <1>8 DEF ResumeCommit, Reopens
<1>9. ASSUME ApprovedStart(c) PROVE Starts(c)
  BY <1>9, <1>A DEF ApprovedStart, Execute, Counted, Starts
<1>10. ASSUME ApprovedBlocks(c) PROVE Goes(c) \/ Parks(c)
  BY <1>10, <1>A DEF ApprovedBlocks, Goes, Parks
<1>11. ASSUME ResumedDone(c) PROVE Returns(c)
  BY <1>11 DEF ResumedDone, Returns
<1>12. ASSUME ResumedFails(c) PROVE Goes(c)
  BY <1>12 DEF ResumedFails, Goes
<1>13. ASSUME ResumedLost(c) PROVE Goes(c)
  BY <1>13 DEF ResumedLost, Goes
<1>14. ASSUME DrainDone(c) PROVE Goes(c)
  BY <1>14 DEF DrainDone, Goes
<1>15. ASSUME NEW x \in Tools, DrainStart(c, x) PROVE Starts(c)
  BY <1>15 DEF DrainStart, Execute, Counted, Starts
<1>16. ASSUME NEW x \in Tools, DrainBlocks(c, x) PROVE Goes(c) \/ Parks(c)
  BY <1>16 DEF DrainBlocks, Goes, Parks
<1> HIDE <1>1, KernelAssumption DEF TypeOK, Save, Mark, Touch, Ensure, MarkCanceled, MarkFailed, MarkBlocked, Goto, session, cancels, context, ghosts, Others, Itself, TurnKept, Elsewhere, LocksHold, Busy, Deciding, Active, Running, Waiting, Settles, Works, StartedKept, Changing
<1> QED BY <1>2, <1>3, <1>4, <1>5, <1>6, <1>7, <1>8, <1>9, <1>10, <1>11, <1>12, <1>13, <1>14, <1>15, <1>16 DEF Resume, Kinds

(* The other steps, and the arrivals.                                       *)
LEMMA OtherKinds ==
    ASSUME TypeOK, Placed, Decided, BusyTurns, NEW c \in Calls, Arrive(c) \/ Step(c)
    PROVE  Kinds(c)
<1>1. pc[c] # "idle" => turn[c] \in Turns
  BY DEF Placed
<1> USE <1>1, KernelAssumption DEF TypeOK, Save, Mark, Touch, Ensure, MarkCanceled, MarkFailed, MarkBlocked, Goto, session, cancels, context, ghosts, Others, Itself, TurnKept, Elsewhere, LocksHold, Busy, Deciding, Active, Running, Waiting, Settles, Works, StartedKept, Changing
<1>2. ASSUME RunRegister(c) PROVE Goes(c)
  BY <1>2 DEF RunRegister, Register, Goes
<1>3. ASSUME RunAdd(c) PROVE Goes(c)
  BY <1>3 DEF RunAdd, Goes
<1>4. ASSUME RunRefused(c) PROVE Goes(c)
  BY <1>4 DEF RunRefused, Goes
<1>5. ASSUME Leave(c) PROVE Quiet(c)
  BY <1>5 DEF Leave, Release, Quiet
<1>6. ASSUME CancelCheck(c) PROVE Quiet(c)
  BY <1>6 DEF CancelCheck, Quiet
<1>7. ASSUME CancelCommit(c) PROVE Cancels(c)
  BY <1>7 DEF CancelCommit, Cancels
<1>8. ASSUME NEW u \in Turns, RunTurn(c, u) PROVE Quiet(c) \/ Admit(c)
  BY <1>8 DEF RunTurn, OtherTurnRuns, Quiet, Admit
<1>9. ASSUME NEW u \in Turns, Cancel(c, u) PROVE Quiet(c)
  BY <1>9 DEF Cancel, Quiet
<1>10. ASSUME NEW u \in Turns, NEW d, NEW x, ResumeArrive(c, u, d, x) PROVE Quiet(c)
  BY <1>10 DEF ResumeArrive, Quiet
<1> HIDE <1>1, KernelAssumption DEF TypeOK, Save, Mark, Touch, Ensure, MarkCanceled, MarkFailed, MarkBlocked, Goto, session, cancels, context, ghosts, Others, Itself, TurnKept, Elsewhere, LocksHold, Busy, Deciding, Active, Running, Waiting, Settles, Works, StartedKept, Changing
<1> QED BY LoopKinds, ResumeKinds, <1>2, <1>3, <1>4, <1>5, <1>6, <1>7, <1>8, <1>9, <1>10 DEF Arrive, Step, Kinds

-----------------------------------------------------------------------------
(* Types, places and the store, action by action.                           *)

LEMMA LoopTypes ==
    ASSUME TypeOK, Placed, StoredIsCurrent, Fresh, NEW c \in Calls, Loop(c)
    PROVE  TypeOK' /\ Placed' /\ StoredIsCurrent'
<1>1. pc[c] # "idle" => turn[c] \in Turns
  BY DEF Placed
<1>0. 0 \in 0..MaxIterations
  BY KernelAssumption
<1> USE <1>1, KernelAssumption DEF TypeOK, Placed, StoredIsCurrent, Save, Mark, Touch, Ensure, MarkCanceled, MarkFailed, MarkBlocked, Goto, session, cancels, context, ghosts,
           Lives, Resumes, Steps, Open, Waiting, Busy, Deciding, Active
<1>2. ASSUME NoModel(c) PROVE TypeOK' /\ Placed' /\ StoredIsCurrent'
  <2>1. CASE UNCHANGED session
    BY <1>2, <2>1 DEF NoModel
  <2>2. CASE Mark(turn[c], "failed", "none", None)
    BY <1>2, <2>2 DEF NoModel
  <2>3. CASE Touch(turn[c])
    BY <1>2, <2>3 DEF NoModel
  <2>4. CASE Save(turn[c], "failed", "none", None, {}, 0)
    BY <1>2, <2>4, <1>0 DEF NoModel
  <2> QED BY <1>2, <2>1, <2>2, <2>3, <2>4 DEF NoModel
<1>3. ASSUME LoopStart(c) PROVE TypeOK' /\ Placed' /\ StoredIsCurrent'
  <2>1. CASE Touch(turn[c])
    BY <1>3, <2>1 DEF LoopStart
  <2>2. CASE Save(turn[c], "running", "none", None, {}, 0)
    BY <1>3, <2>2, <1>0 DEF LoopStart
  <2> QED BY <1>3, <2>1, <2>2 DEF LoopStart
<1>4. ASSUME ModelAnswers(c) PROVE TypeOK' /\ Placed' /\ StoredIsCurrent'
  BY <1>4 DEF ModelAnswers
<1>5. ASSUME FinishCommit(c) PROVE TypeOK' /\ Placed' /\ StoredIsCurrent'
  BY <1>5 DEF FinishCommit
<1>6. ASSUME ModelTimesOut(c) PROVE TypeOK' /\ Placed' /\ StoredIsCurrent'
  <2>1. CASE Mark(turn[c], "resumable", "resumable", offer[turn[c]])
    BY <1>6, <2>1 DEF ModelTimesOut
  <2>2. CASE UNCHANGED session
    BY <1>6, <2>2 DEF ModelTimesOut
  <2> QED BY <1>6, <2>1, <2>2 DEF ModelTimesOut
<1>7. ASSUME ModelStopped(c) PROVE TypeOK' /\ Placed' /\ StoredIsCurrent'
  <2>1. CASE Mark(turn[c], "canceled", "none", None)
    BY <1>7, <2>1 DEF ModelStopped
  <2>2. CASE Touch(turn[c])
    BY <1>7, <2>2 DEF ModelStopped
  <2>3. CASE UNCHANGED session
    BY <1>7, <2>3 DEF ModelStopped
  <2> QED BY <1>7, <2>1, <2>2, <2>3 DEF ModelStopped
<1>8. ASSUME ModelFails(c) PROVE TypeOK' /\ Placed' /\ StoredIsCurrent'
  <2>1. CASE Mark(turn[c], "failed", "none", None)
    BY <1>8, <2>1 DEF ModelFails
  <2>2. CASE Touch(turn[c])
    BY <1>8, <2>2 DEF ModelFails
  <2>3. CASE UNCHANGED session
    BY <1>8, <2>3 DEF ModelFails
  <2> QED BY <1>8, <2>1, <2>2, <2>3 DEF ModelFails
<1>9. ASSUME IterationLimit(c) PROVE TypeOK' /\ Placed' /\ StoredIsCurrent'
  <2>1. CASE Mark(turn[c], "failed", "none", None)
    BY <1>9, <2>1 DEF IterationLimit
  <2>2. CASE Touch(turn[c])
    BY <1>9, <2>2 DEF IterationLimit
  <2>3. CASE UNCHANGED session
    BY <1>9, <2>3 DEF IterationLimit
  <2> QED BY <1>9, <2>1, <2>2, <2>3 DEF IterationLimit
<1>10. ASSUME ToolsDone(c) PROVE TypeOK' /\ Placed' /\ StoredIsCurrent'
  BY <1>10 DEF ToolsDone
<1>11. ASSUME ToolsStopped(c) PROVE TypeOK' /\ Placed' /\ StoredIsCurrent'
  <2>1. CASE Mark(turn[c], "canceled", "none", None)
    BY <1>11, <2>1 DEF ToolsStopped
  <2>2. CASE UNCHANGED session
    BY <1>11, <2>2 DEF ToolsStopped
  <2>3. CASE Save(turn[c], "canceled", "none", None, {}, 0)
    BY <1>11, <2>3, <1>0 DEF ToolsStopped
  <2> QED BY <1>11, <2>1, <2>2, <2>3 DEF ToolsStopped
<1>12. ASSUME ToolDone(c) PROVE TypeOK' /\ Placed' /\ StoredIsCurrent'
  BY <1>12 DEF ToolDone
<1>13. ASSUME ToolFails(c) PROVE TypeOK' /\ Placed' /\ StoredIsCurrent'
  <2>1. CASE Mark(turn[c], "failed", "none", None)
    BY <1>13, <2>1 DEF ToolFails
  <2>2. CASE Touch(turn[c])
    BY <1>13, <2>2 DEF ToolFails
  <2>3. CASE UNCHANGED session
    BY <1>13, <2>3 DEF ToolFails
  <2> QED BY <1>13, <2>1, <2>2, <2>3 DEF ToolFails
<1>14. ASSUME NEW ask \in SUBSET Tools, ModelAsks(c, ask) PROVE TypeOK' /\ Placed' /\ StoredIsCurrent'
  BY <1>14 DEF ModelAsks
<1>15. ASSUME NEW x \in Tools, ToolStart(c, x) PROVE TypeOK' /\ Placed' /\ StoredIsCurrent'
  BY <1>15 DEF ToolStart, Execute, Counted, Once
<1>16. ASSUME NEW x \in Tools, ToolBlocks(c, x) PROVE TypeOK' /\ Placed' /\ StoredIsCurrent'
  <2>1. CASE Mark(turn[c], "suspended", "approval", x)
    BY <1>16, <2>1 DEF ToolBlocks
  <2>2. CASE UNCHANGED session
    BY <1>16, <2>2 DEF ToolBlocks
  <2> QED BY <1>16, <2>1, <2>2 DEF ToolBlocks
<1>17. ASSUME NEW x \in Tools, RetryTool(c, x) PROVE TypeOK' /\ Placed' /\ StoredIsCurrent'
  BY <1>17 DEF RetryTool, Counted, Once
<1>18. ASSUME NEW xs \in SUBSET Tools, BatchStart(c, xs) PROVE TypeOK' /\ Placed' /\ StoredIsCurrent'
  BY <1>18 DEF BatchStart, Counted, Once
<1>19. ASSUME BatchReturns(c) PROVE TypeOK' /\ Placed' /\ StoredIsCurrent'
  <2>1. CASE pc'[c] = "results"
    BY <1>19, <2>1 DEF BatchReturns
  <2>2. CASE pc'[c] # "results" /\ Mark(turn[c], "canceled", "none", None)
    BY <1>19, <2>2 DEF BatchReturns
  <2>3. CASE pc'[c] # "results" /\ UNCHANGED session
    BY <1>19, <2>3 DEF BatchReturns
  <2>4. CASE Save(turn[c], "canceled", "none", None, {}, 0)
    BY <1>19, <2>4, <1>0 DEF BatchReturns
  <2> QED BY <1>19, <2>1, <2>2, <2>3, <2>4 DEF BatchReturns
<1>20. ASSUME NEW x \in Tools, BatchDone(c, x) PROVE TypeOK' /\ Placed' /\ StoredIsCurrent'
  BY <1>20 DEF BatchDone
<1>21. ASSUME NEW x \in Tools, BatchBlocks(c, x) PROVE TypeOK' /\ Placed' /\ StoredIsCurrent'
  <2>1. CASE Mark(turn[c], "suspended", "approval", x)
    BY <1>21, <2>1 DEF BatchBlocks
  <2>2. CASE UNCHANGED session
    BY <1>21, <2>2 DEF BatchBlocks
  <2> QED BY <1>21, <2>1, <2>2 DEF BatchBlocks
<1>22. ASSUME BatchFails(c) PROVE TypeOK' /\ Placed' /\ StoredIsCurrent'
  <2>1. CASE Mark(turn[c], "failed", "none", None)
    BY <1>22, <2>1 DEF BatchFails
  <2>2. CASE Touch(turn[c])
    BY <1>22, <2>2 DEF BatchFails
  <2>3. CASE UNCHANGED session
    BY <1>22, <2>3 DEF BatchFails
  <2> QED BY <1>22, <2>1, <2>2, <2>3 DEF BatchFails
<1> HIDE <1>1, KernelAssumption DEF TypeOK, Placed, StoredIsCurrent, Save, Mark, Touch, Ensure, MarkCanceled, MarkFailed, MarkBlocked, Goto, session, cancels, context, ghosts,
           Lives, Resumes, Steps, Open, Waiting, Busy, Deciding, Active
<1> QED BY <1>2, <1>3, <1>4, <1>5, <1>6, <1>7, <1>8, <1>9, <1>10, <1>11, <1>12, <1>13, <1>14, <1>15, <1>16,
       <1>17, <1>18, <1>19, <1>20, <1>21, <1>22 DEF Loop

LEMMA ResumeTypes ==
    ASSUME TypeOK, Placed, StoredIsCurrent, Fresh, NEW c \in Calls, Resume(c)
    PROVE  TypeOK' /\ Placed' /\ StoredIsCurrent'
<1>1. pc[c] # "idle" => turn[c] \in Turns
  BY DEF Placed
<1>0. 0 \in 0..MaxIterations
  BY KernelAssumption
<1> USE <1>1, KernelAssumption DEF TypeOK, Placed, StoredIsCurrent, Save, Mark, Touch, Ensure, MarkCanceled, MarkFailed, MarkBlocked, Goto, session, cancels, context, ghosts,
           Lives, Resumes, Steps, Open, Waiting, Busy, Deciding, Active
<1>2. ASSUME ResumeStart(c) PROVE TypeOK' /\ Placed' /\ StoredIsCurrent'
  BY <1>2 DEF ResumeStart, Register, Resumable, Fresh
<1>3. ASSUME ResumeDeny(c) PROVE TypeOK' /\ Placed' /\ StoredIsCurrent'
  BY <1>3 DEF ResumeDeny
<1>4. ASSUME DenyCommit(c) PROVE TypeOK' /\ Placed' /\ StoredIsCurrent'
  BY <1>4 DEF DenyCommit
<1>5. ASSUME ResumeCanceled(c) PROVE TypeOK' /\ Placed' /\ StoredIsCurrent'
  <2>1. CASE Mark(turn[c], "canceled", "none", None)
    BY <1>5, <2>1 DEF ResumeCanceled
  <2>2. CASE UNCHANGED session
    BY <1>5, <2>2 DEF ResumeCanceled
  <2> QED BY <1>5, <2>1, <2>2 DEF ResumeCanceled
<1>6. ASSUME ResumeStale(c) PROVE TypeOK' /\ Placed' /\ StoredIsCurrent'
  BY <1>6 DEF ResumeStale
<1>7. ASSUME ResumeProceed(c) PROVE TypeOK' /\ Placed' /\ StoredIsCurrent'
  BY <1>7 DEF ResumeProceed
<1>8. ASSUME ResumeCommit(c) PROVE TypeOK' /\ Placed' /\ StoredIsCurrent'
  BY <1>8 DEF ResumeCommit
<1>9. ASSUME ApprovedStart(c) PROVE TypeOK' /\ Placed' /\ StoredIsCurrent'
  BY <1>9 DEF ApprovedStart, Execute, Counted, Once
<1>10. ASSUME ApprovedBlocks(c) PROVE TypeOK' /\ Placed' /\ StoredIsCurrent'
  <2>1. CASE Mark(turn[c], "suspended", "approval", about[c])
    BY <1>10, <2>1 DEF ApprovedBlocks
  <2>2. CASE UNCHANGED session
    BY <1>10, <2>2 DEF ApprovedBlocks
  <2> QED BY <1>10, <2>1, <2>2 DEF ApprovedBlocks
<1>11. ASSUME ResumedDone(c) PROVE TypeOK' /\ Placed' /\ StoredIsCurrent'
  BY <1>11 DEF ResumedDone
<1>12. ASSUME ResumedFails(c) PROVE TypeOK' /\ Placed' /\ StoredIsCurrent'
  <2>1. CASE Mark(turn[c], "failed", "none", None)
    BY <1>12, <2>1 DEF ResumedFails
  <2>2. CASE Touch(turn[c])
    BY <1>12, <2>2 DEF ResumedFails
  <2>3. CASE UNCHANGED session
    BY <1>12, <2>3 DEF ResumedFails
  <2> QED BY <1>12, <2>1, <2>2, <2>3 DEF ResumedFails
<1>13. ASSUME ResumedLost(c) PROVE TypeOK' /\ Placed' /\ StoredIsCurrent'
  BY <1>13 DEF ResumedLost
<1>14. ASSUME DrainDone(c) PROVE TypeOK' /\ Placed' /\ StoredIsCurrent'
  BY <1>14 DEF DrainDone
<1>15. ASSUME NEW x \in Tools, DrainStart(c, x) PROVE TypeOK' /\ Placed' /\ StoredIsCurrent'
  BY <1>15 DEF DrainStart, Execute, Counted, Once
<1>16. ASSUME NEW x \in Tools, DrainBlocks(c, x) PROVE TypeOK' /\ Placed' /\ StoredIsCurrent'
  <2>1. CASE Mark(turn[c], "suspended", "approval", x)
    BY <1>16, <2>1 DEF DrainBlocks
  <2>2. CASE UNCHANGED session
    BY <1>16, <2>2 DEF DrainBlocks
  <2> QED BY <1>16, <2>1, <2>2 DEF DrainBlocks
<1> HIDE <1>1, KernelAssumption DEF TypeOK, Placed, StoredIsCurrent, Save, Mark, Touch, Ensure, MarkCanceled, MarkFailed, MarkBlocked, Goto, session, cancels, context, ghosts,
           Lives, Resumes, Steps, Open, Waiting, Busy, Deciding, Active
<1> QED BY <1>2, <1>3, <1>4, <1>5, <1>6, <1>7, <1>8, <1>9, <1>10, <1>11, <1>12, <1>13, <1>14, <1>15, <1>16 DEF Resume

LEMMA OtherTypes ==
    ASSUME TypeOK, Placed, StoredIsCurrent, Fresh, NEW c \in Calls, Arrive(c) \/ Step(c)
    PROVE  TypeOK' /\ Placed' /\ StoredIsCurrent'
<1>1. pc[c] # "idle" => turn[c] \in Turns
  BY DEF Placed
<1>0. 0 \in 0..MaxIterations
  BY KernelAssumption
<1> USE <1>1, KernelAssumption DEF TypeOK, Placed, StoredIsCurrent, Save, Mark, Touch, Ensure, MarkCanceled, MarkFailed, MarkBlocked, Goto, session, cancels, context, ghosts,
           Lives, Resumes, Steps, Open, Waiting, Busy, Deciding, Active
<1>2. ASSUME RunRegister(c) PROVE TypeOK' /\ Placed' /\ StoredIsCurrent'
  BY <1>2 DEF RunRegister, Register
<1>3. ASSUME RunAdd(c) PROVE TypeOK' /\ Placed' /\ StoredIsCurrent'
  <2>1. CASE reason[c] /\ Save(turn[c], "canceled", "none", None, {}, 0)
    BY <1>3, <2>1, <1>0 DEF RunAdd
  <2>2. CASE ~reason[c] /\ Touch(turn[c])
    <3>1. TypeOK'
      <4>1. turn[c] \in Turns /\ pc' = [pc EXCEPT ![c] = "ready"]
        BY <1>3, <2>2 DEF RunAdd
      <4>2. /\ cur' \in Turns
            /\ life' = life /\ rs' = rs /\ offer' = offer /\ todo' = todo /\ iter' = iter
            /\ stored' = [turn |-> turn[c], life |-> life[turn[c]], rs |-> rs[turn[c]],
                           offer |-> offer[turn[c]], todo |-> todo[turn[c]], iter |-> iter[turn[c]]]
        BY <2>2, <4>1
      <4>3. /\ life[turn[c]] \in Lives /\ rs[turn[c]] \in Resumes
            /\ offer[turn[c]] \in Tools \cup {None} /\ todo[turn[c]] \in SUBSET Tools
            /\ iter[turn[c]] \in 0..MaxIterations
        BY <4>1
      <4> HIDE DEF Touch, Mark, Save, Ensure, Placed, StoredIsCurrent
      <4> QED BY <1>3, <4>1, <4>2, <4>3 DEF RunAdd
    <3>2. Placed'
      BY <1>3, <2>2 DEF RunAdd
    <3>3. StoredIsCurrent'
      BY <1>3, <2>2 DEF RunAdd
    <3> QED BY <3>1, <3>2, <3>3
  <2>3. CASE ~reason[c] /\ Save(turn[c], "running", "none", None, {}, 0)
    BY <1>3, <2>3, <1>0 DEF RunAdd
  <2> QED BY <1>3, <2>1, <2>2, <2>3 DEF RunAdd
<1>4. ASSUME RunRefused(c) PROVE TypeOK' /\ Placed' /\ StoredIsCurrent'
  BY <1>4 DEF RunRefused
<1>5. ASSUME Leave(c) PROVE TypeOK' /\ Placed' /\ StoredIsCurrent'
  BY <1>5 DEF Leave, Release
<1>6. ASSUME CancelCheck(c) PROVE TypeOK' /\ Placed' /\ StoredIsCurrent'
  BY <1>6 DEF CancelCheck, Fresh
<1>7. ASSUME CancelCommit(c) PROVE TypeOK' /\ Placed' /\ StoredIsCurrent'
  BY <1>7 DEF CancelCommit
<1>8. ASSUME NEW u \in Turns, RunTurn(c, u) PROVE TypeOK' /\ Placed' /\ StoredIsCurrent'
  <2>1. CASE OtherTurnRuns(u) /\ Touch(cur)
    BY <1>8, <2>1 DEF RunTurn, OtherTurnRuns
  <2>2. CASE UNCHANGED session /\ turn' = [turn EXCEPT ![c] = u]
    BY <1>8, <2>2 DEF RunTurn
  <2> QED BY <1>8, <2>1, <2>2 DEF RunTurn
<1>9. ASSUME NEW u \in Turns, Cancel(c, u) PROVE TypeOK' /\ Placed' /\ StoredIsCurrent'
  <2>1. CASE inFlight[u] = None
    BY <1>9, <2>1 DEF Cancel
  <2>2. CASE inFlight[u] # None
    <3>1. inFlight[u] \in Calls
      BY <2>2
    <3>2. stopped' \in [Calls -> BOOLEAN]
      BY <1>9, <2>2 DEF Cancel
    <3> QED BY <1>9, <2>2, <3>1, <3>2 DEF Cancel
  <2> QED BY <2>1, <2>2
<1>10. ASSUME NEW u \in Turns, ResumeArrive(c, u, "none", None) PROVE TypeOK' /\ Placed' /\ StoredIsCurrent'
  BY <1>10 DEF ResumeArrive
<1>11. ASSUME NEW u \in Turns, NEW x \in Tools, NEW d \in {"approved", "denied"}, ResumeArrive(c, u, d, x) PROVE TypeOK' /\ Placed' /\ StoredIsCurrent'
  BY <1>11 DEF ResumeArrive
<1> HIDE <1>1, KernelAssumption DEF TypeOK, Placed, StoredIsCurrent, Save, Mark, Touch, Ensure, MarkCanceled, MarkFailed, MarkBlocked, Goto, session, cancels, context, ghosts,
           Lives, Resumes, Steps, Open, Waiting, Busy, Deciding, Active
<1> QED BY LoopTypes, ResumeTypes, <1>2, <1>3, <1>4, <1>5, <1>6, <1>7, <1>8, <1>9, <1>10, <1>11 DEF Arrive, Step

-----------------------------------------------------------------------------
(* What each kind of step does to each part of the invariant.               *)

(* The other calls that are let in work on other turns.                     *)
LEMMA OthersElsewhere ==
    ASSUME IInv, NEW c \in Calls, Works(c), NEW d \in Calls \ {c}, pc[d] \in Active
    PROVE  turn[d] \in Turns \ {turn[c]} /\ TurnKept(turn[d])
<1>1. turn[d] \in Turns /\ turn[d] # turn[c]
  BY DEF IInv, Placed, OneActive, Works, Busy, Deciding, Active
<1> QED BY <1>1 DEF Works, Elsewhere

LEMMA KeepsFresh ==
    ASSUME IInv, TypeOK', Placed', NEW c \in Calls, Kinds(c)
    PROVE  Fresh'
<1> USE KernelAssumption DEF IInv, TypeOK, Placed, Fresh,
           Others, Itself, TurnKept, Elsewhere, LocksHold, Settles, Works, Busy, Deciding, Active, Running, Waiting
<1>1. CASE Quiet(c)
  BY <1>1 DEF Quiet
<1>2. CASE Admit(c)
  BY <1>2 DEF Admit
<1>3. CASE Enter(c)
  BY <1>3 DEF Enter
<1>4. CASE Goes(c)
  BY <1>4 DEF Goes
<1>5. CASE Asks(c)
  BY <1>5 DEF Asks
<1>6. CASE Parks(c)
  BY <1>6 DEF Parks
<1>7. CASE Starts(c)
  BY <1>7 DEF Starts
<1>8. CASE Returns(c)
  BY <1>8 DEF Returns
<1>9. CASE Reopens(c)
  BY <1>9 DEF Reopens
<1>10. CASE Denies(c)
  BY <1>10 DEF Denies
<1>11. CASE Cancels(c)
  BY <1>11 DEF Cancels
<1> HIDE KernelAssumption DEF IInv, TypeOK, Placed, Fresh,
           Others, Itself, TurnKept, Elsewhere, LocksHold, Settles, Works, Busy, Deciding, Active, Running, Waiting
<1> QED BY <1>1, <1>2, <1>3, <1>4, <1>5, <1>6, <1>7, <1>8, <1>9, <1>10, <1>11 DEF Kinds

LEMMA KeepsLocked ==
    ASSUME IInv, TypeOK', Placed', NEW c \in Calls, Kinds(c)
    PROVE  Locked'
<1> USE KernelAssumption DEF IInv, TypeOK, Placed, Locked,
           Others, Itself, TurnKept, Elsewhere, LocksHold, Settles, Works, Busy, Deciding, Active, Running, Waiting
<1>1. CASE Quiet(c)
  <2>1. pc'[c] \notin Deciding /\ \A d \in Calls \ {c} : pc'[d] = pc[d] /\ turn'[d] = turn[d]
    BY <1>1 DEF Quiet
  <2>2. \A d \in Calls \ {c} : pc[d] \in Deciding => turn[d] \in Turns /\ lock'[turn[d]] = d
    BY <1>1 DEF Quiet
  <2> QED BY <2>1, <2>2
<1>2. CASE Admit(c)
  BY <1>2 DEF Admit
<1>3. CASE Enter(c)
  <2>1. lock'[turn'[c]] = c /\ \A d \in Calls \ {c} : pc'[d] = pc[d] /\ turn'[d] = turn[d]
    BY <1>3 DEF Enter
  <2>2. \A d \in Calls \ {c} : pc[d] \in Deciding => turn[d] \in Turns /\ lock'[turn[d]] = d
    BY <1>3 DEF Enter
  <2> QED BY <2>1, <2>2
<1>4. CASE Goes(c)
  <2>1. pc'[c] \in Deciding => pc[c] \in Deciding
    BY <1>4 DEF Goes
  <2>2. lock' = lock /\ turn'[c] = turn[c] /\ \A d \in Calls \ {c} : pc'[d] = pc[d] /\ turn'[d] = turn[d]
    BY <1>4 DEF Goes
  <2> QED BY <2>1, <2>2
<1>5. CASE Asks(c)
  BY <1>5 DEF Asks
<1>6. CASE Parks(c)
  BY <1>6 DEF Parks
<1>7. CASE Starts(c)
  BY <1>7 DEF Starts
<1>8. CASE Returns(c)
  BY <1>8 DEF Returns
<1>9. CASE Reopens(c)
  BY <1>9 DEF Reopens
<1>10. CASE Denies(c)
  BY <1>10 DEF Denies
<1>11. CASE Cancels(c)
  BY <1>11 DEF Cancels
<1> HIDE KernelAssumption DEF IInv, TypeOK, Placed, Locked,
           Others, Itself, TurnKept, Elsewhere, LocksHold, Settles, Works, Busy, Deciding, Active, Running, Waiting
<1> QED BY <1>1, <1>2, <1>3, <1>4, <1>5, <1>6, <1>7, <1>8, <1>9, <1>10, <1>11 DEF Kinds

(* Who works on a turn has been let in before.                              *)
LEMMA NobodyNew ==
    ASSUME IInv, NEW c \in Calls, Others(c),
           pc'[c] \in Active => pc[c] \in Active /\ turn'[c] = turn[c]
    PROVE  OneActive'
<1>1. \A d \in Calls : pc'[d] \in Active => pc[d] \in Active /\ turn'[d] = turn[d]
  BY DEF Others
<1> QED BY <1>1 DEF IInv, OneActive

(* Another resume finds the lock taken, or a turn that is worked on.         *)
LEMMA KeepsOneActive ==
    ASSUME IInv, TypeOK', Placed', NEW c \in Calls, Kinds(c)
    PROVE  OneActive'
<1>1. CASE Quiet(c)
  BY <1>1, NobodyNew DEF Quiet
<1>2. CASE Admit(c)
  <2> PICK t \in Turns \ begun : turn'[c] = t /\ Others(c)
    BY <1>2 DEF Admit
  <2>1. \A d \in Calls : pc[d] \in Active => turn[d] \in begun
    BY DEF IInv, Placed
  <2>2. \A d \in Calls \ {c} : pc'[d] \in Active => pc[d] \in Active /\ turn'[d] = turn[d] /\ turn'[d] # turn'[c]
    BY <2>1 DEF Others
  <2> QED BY <2>2 DEF IInv, OneActive
<1>3. CASE Enter(c)
  <2>1. turn'[c] = turn[c] /\ life[turn[c]] \in Waiting /\ lock[turn[c]] = None /\ Others(c)
    BY <1>3 DEF Enter, Itself, Resumable
  <2>2. ASSUME NEW d \in Calls, pc[d] \in Active, turn[d] = turn[c] PROVE FALSE
    <3>1. CASE pc[d] \in Busy
      BY <2>1, <2>2, <3>1 DEF IInv, BusyTurns
    <3>2. CASE pc[d] \in Deciding
      BY <2>1, <2>2, <3>2, KernelAssumption DEF IInv, Locked
    <3> QED BY <2>2, <3>1, <3>2 DEF Active
  <2>3. \A d \in Calls \ {c} : pc'[d] \in Active => pc[d] \in Active /\ turn'[d] = turn[d] /\ turn'[d] # turn'[c]
    BY <2>1, <2>2 DEF Others
  <2> QED BY <2>3 DEF IInv, OneActive
<1>4. CASE Works(c)
  BY <1>4, NobodyNew DEF Works, Itself
<1>5. CASE Cancels(c)
  BY <1>5, NobodyNew DEF Cancels, Active, Busy, Deciding
<1> QED BY <1>1, <1>2, <1>3, <1>4, <1>5 DEF Kinds, Goes, Asks, Parks, Starts, Returns, Reopens, Denies

LEMMA OthersBusy ==
    ASSUME IInv, NEW c \in Calls, Works(c), NEW d \in Calls \ {c}, pc'[d] \in Busy
    PROVE  life'[turn'[d]] \notin Waiting /\ offer'[turn'[d]] = None
<1>1. pc[d] \in Busy /\ turn'[d] = turn[d]
  BY DEF Works, Others
<1>2. life[turn[d]] \notin Waiting /\ offer[turn[d]] = None
  BY <1>1 DEF IInv, BusyTurns
<1>3. TurnKept(turn[d])
  BY <1>1, OthersElsewhere DEF Active
<1> QED BY <1>1, <1>2, <1>3 DEF TurnKept

LEMMA KeepsBusyTurns ==
    ASSUME IInv, TypeOK', Placed', NEW c \in Calls, Kinds(c)
    PROVE  BusyTurns'
<1>0. BusyTurns /\ Placed /\ Fresh
  BY DEF IInv
<1>1. \A d \in Calls : pc[d] \in Busy => turn[d] \in Turns
  BY <1>0 DEF Placed, Busy
<1>2. CASE Quiet(c) \/ Enter(c)
  <2>1. pc'[c] \notin Busy /\ Others(c) /\ \A u \in Turns : TurnKept(u)
    BY <1>2 DEF Quiet, Enter, Active, Busy
  <2> QED BY <1>0, <1>1, <2>1 DEF BusyTurns, Others, TurnKept
<1>3. CASE Admit(c)
  <2> PICK t \in Turns \ begun : turn'[c] = t /\ Others(c) /\ \A u \in Turns : TurnKept(u)
    BY <1>3 DEF Admit
  <2>1. life'[t] \notin Waiting /\ offer'[t] = None
    BY <1>0 DEF Fresh, TurnKept, Waiting
  <2> QED BY <1>0, <1>1, <2>1 DEF BusyTurns, Others, TurnKept
<1>4. CASE Cancels(c)
  <2>1. /\ pc'[c] \notin Busy /\ Others(c) /\ Elsewhere(turn[c])
        /\ life'[turn[c]] \notin Waiting /\ offer'[turn[c]] = None
    BY <1>4 DEF Cancels, Busy, Waiting
  <2> QED BY <1>0, <1>1, <2>1 DEF BusyTurns, Others, Elsewhere, TurnKept
<1>5. CASE Works(c)
  <2>1. turn'[c] = turn[c]
    BY <1>5 DEF Works, Itself
  <2>2. pc[c] \in Busy => life[turn[c]] \notin Waiting /\ offer[turn[c]] = None
    BY <1>0 DEF BusyTurns
  <2>3. ASSUME pc'[c] \in Busy PROVE life'[turn[c]] \notin Waiting /\ offer'[turn[c]] = None
    <3>1. ~Parks(c) /\ ~Denies(c) /\ ~Quiet(c) /\ ~Admit(c) /\ ~Enter(c) /\ ~Cancels(c)
      BY <1>5, <2>3 DEF Parks, Denies, Quiet, Admit, Enter, Cancels, Works, Active, Busy, Deciding
    <3>2. Goes(c) => pc[c] \in Busy /\ Settles(turn[c])
      BY <2>3 DEF Goes, Busy, Deciding
    <3>3. Asks(c) => pc[c] \in Busy /\ life'[turn[c]] = life[turn[c]] /\ offer'[turn[c]] = offer[turn[c]]
      BY DEF Asks, Busy
    <3>4. Starts(c) => pc[c] \in Busy /\ TurnKept(turn[c])
      BY DEF Starts
    <3>5. Returns(c) => /\ pc[c] \in Busy /\ life'[turn[c]] \in {"running", life[turn[c]]}
                        /\ offer'[turn[c]] \in {offer[turn[c]], None}
      BY DEF Returns, Running, Busy
    <3>6. Reopens(c) => life'[turn[c]] = "running" /\ offer'[turn[c]] = None
      BY DEF Reopens
    <3> QED BY <2>2, <3>1, <3>2, <3>3, <3>4, <3>5, <3>6 DEF Kinds, Settles, TurnKept, Waiting
  <2>4. \A d \in Calls \ {c} : pc'[d] \in Busy => life'[turn'[d]] \notin Waiting /\ offer'[turn'[d]] = None
    BY <1>5, OthersBusy
  <2> QED BY <2>1, <2>3, <2>4 DEF BusyTurns
<1> QED BY <1>2, <1>3, <1>4, <1>5 DEF Kinds, Goes, Asks, Parks, Starts, Returns, Reopens, Denies

LEMMA KeepsAsked ==
    ASSUME IInv, TypeOK', Placed', NEW c \in Calls, Kinds(c)
    PROVE  Asked'
<1>0. Asked
  BY DEF IInv
<1>1. ASSUME owner' = owner, StartedKept, \A u \in Turns : todo'[u] \subseteq todo[u]
      PROVE  Asked'
  BY <1>0, <1>1 DEF Asked, StartedKept
<1>2. ASSUME Elsewhere(turn[c]), todo'[turn[c]] \subseteq todo[turn[c]]
      PROVE  \A u \in Turns : todo'[u] \subseteq todo[u]
  BY <1>2 DEF Elsewhere, TurnKept
<1>3. CASE Quiet(c) \/ Admit(c) \/ Enter(c)
  <2>1. /\ \A u \in Turns : TurnKept(u)
        /\ owner' = owner /\ StartedKept
    BY <1>3 DEF Quiet, Admit, Enter, StartedKept
  <2> QED BY <1>1, <2>1 DEF TurnKept
<1>4. CASE Goes(c)
  <2>1. Elsewhere(turn[c]) /\ Settles(turn[c]) /\ owner' = owner /\ StartedKept
    BY <1>4 DEF Goes, Works
  <2>2. todo'[turn[c]] \subseteq todo[turn[c]]
    BY <2>1 DEF Settles
  <2> QED BY <1>1, <1>2, <2>1, <2>2
<1>5. CASE Asks(c)
  <2> PICK ask \in SUBSET Tools :
           /\ Works(c) /\ pc[c] = "model"
           /\ \A x \in ask : owner[x] = None
           /\ owner' = [x \in Tools |-> IF x \in ask THEN turn[c] ELSE owner[x]]
           /\ todo'[turn[c]] = ask /\ started' = started
    BY <1>5 DEF Asks
  <2>1. turn[c] \in Turns /\ turn[c] # None /\ \A u \in Turns \ {turn[c]} : todo'[u] = todo[u]
    BY KernelAssumption DEF IInv, Placed, Works, Elsewhere, TurnKept
  <2>2. \A u \in Turns : \A x \in todo[u] : x \in Tools /\ owner[x] = u /\ u # None
    BY <1>0, KernelAssumption DEF IInv, TypeOK, Asked
  <2>3. ASSUME NEW u \in Turns, NEW x \in todo'[u] PROVE owner'[x] = u
    <3>1. CASE u = turn[c]
      BY <3>1, <2>3
    <3>2. CASE u # turn[c]
      <4>1. x \in todo[u]
        BY <2>1, <2>3, <3>2
      <4>2. x \in Tools \ ask /\ owner[x] = u
        BY <2>2, <4>1
      <4> QED BY <4>2
    <3> QED BY <3>1, <3>2
  <2>4. ASSUME NEW x \in Changing, owner'[x] = None PROVE started'[x] = 0
    <3>1. x \notin ask /\ owner[x] = None
      BY <2>1, <2>4 DEF Changing
    <3> QED BY <1>0, <3>1 DEF Asked
  <2> QED BY <2>3, <2>4 DEF Asked
<1>6. CASE Parks(c) \/ Reopens(c) \/ Denies(c) \/ Cancels(c)
  <2>1. Elsewhere(turn[c]) /\ todo'[turn[c]] = todo[turn[c]] /\ owner' = owner /\ StartedKept
    BY <1>6 DEF Parks, Reopens, Denies, Cancels, Works, StartedKept
  <2> QED BY <1>1, <1>2, <2>1
<1>7. CASE Starts(c)
  <2> PICK x \in Tools : /\ Works(c) /\ TurnKept(turn[c]) /\ owner' = owner
                         /\ x \in todo[turn[c]]
                         /\ started' = [y \in Tools |-> IF y = x THEN Once(started[x]) ELSE started[y]]
    BY <1>7 DEF Starts
  <2>1. turn[c] \in Turns /\ turn[c] # None
    BY KernelAssumption DEF IInv, Placed, Works, Active, Busy, Deciding
  <2>2. owner[x] # None
    BY <1>0, <2>1 DEF Asked
  <2>3. \A y \in Changing \ {x} : started'[y] = started[y]
    BY DEF Changing
  <2>4. \A u \in Turns : todo'[u] = todo[u]
    BY DEF Works, Elsewhere, TurnKept
  <2> QED BY <1>0, <2>2, <2>3, <2>4 DEF Asked
<1>8. CASE Returns(c)
  <2>1. /\ Elsewhere(turn[c]) /\ todo'[turn[c]] \subseteq todo[turn[c]]
        /\ owner' = owner /\ StartedKept
    BY <1>8 DEF Returns, Works, StartedKept
  <2> QED BY <1>1, <1>2, <2>1
<1> QED BY <1>3, <1>4, <1>5, <1>6, <1>7, <1>8 DEF Kinds

LEMMA KeepsOffered ==
    ASSUME IInv, TypeOK', Placed', NEW c \in Calls, Kinds(c)
    PROVE  Offered'
<1> USE KernelAssumption DEF IInv, TypeOK, Placed, Offered, BusyTurns,
           Others, Itself, TurnKept, Elsewhere, LocksHold, Settles, Works, Busy, Deciding, Active, Running, Waiting
<1>1. CASE Quiet(c)
  BY <1>1 DEF Quiet
<1>2. CASE Admit(c)
  BY <1>2 DEF Admit
<1>3. CASE Enter(c)
  BY <1>3 DEF Enter
<1> HIDE KernelAssumption DEF IInv, TypeOK, Placed, Offered, BusyTurns,
           Others, Itself, TurnKept, Elsewhere, LocksHold, Settles, Works, Busy, Deciding, Active, Running, Waiting
<1>4. CASE Goes(c)
  <2>1. Elsewhere(turn[c]) /\ Settles(turn[c])
    BY <1>4 DEF Goes, Works
  <2>2. \A u \in Turns : offer'[u] = None \/ (offer'[u] = offer[u] /\ todo'[u] = todo[u])
    BY <2>1 DEF Elsewhere, Settles, TurnKept
  <2> QED BY <2>2 DEF IInv, Offered
<1>5. CASE Asks(c)
  <2>1. Elsewhere(turn[c]) /\ pc[c] = "model" /\ offer'[turn[c]] = offer[turn[c]]
    BY <1>5 DEF Asks, Works
  <2>2. offer[turn[c]] = None
    BY <2>1 DEF IInv, BusyTurns, Busy
  <2>3. \A u \in Turns : offer'[u] = None \/ (offer'[u] = offer[u] /\ todo'[u] = todo[u])
    BY <2>1, <2>2 DEF Elsewhere, TurnKept
  <2> QED BY <2>3 DEF IInv, Offered
<1>6. CASE Parks(c)
  <2>1. /\ Elsewhere(turn[c]) /\ todo'[turn[c]] = todo[turn[c]]
        /\ offer'[turn[c]] = offer[turn[c]] \/ offer'[turn[c]] \in todo[turn[c]]
    BY <1>6 DEF Parks, Works
  <2>2. \A u \in Turns : /\ todo'[u] = todo[u]
                         /\ offer'[u] = offer[u] \/ offer'[u] \in todo[u]
    BY <2>1 DEF Elsewhere, TurnKept
  <2> QED BY <2>2 DEF IInv, Offered
<1>7. CASE Starts(c)
  <2>1. \A u \in Turns : offer'[u] = offer[u] /\ todo'[u] = todo[u]
    BY <1>7 DEF Starts, Works, Elsewhere, TurnKept
  <2> QED BY <2>1 DEF IInv, Offered
<1>8. CASE Returns(c)
  <2>1. /\ Elsewhere(turn[c]) /\ pc[c] \in Running
        /\ offer'[turn[c]] \in {offer[turn[c]], None}
    BY <1>8 DEF Returns, Works
  <2>2. offer[turn[c]] = None
    BY <2>1 DEF IInv, BusyTurns, Busy, Running
  <2>3. \A u \in Turns : offer'[u] = None \/ (offer'[u] = offer[u] /\ todo'[u] = todo[u])
    BY <2>1, <2>2 DEF Elsewhere, TurnKept
  <2> QED BY <2>3 DEF IInv, Offered
<1>9. CASE Reopens(c)
  <2>1. \A u \in Turns : offer'[u] = None \/ (offer'[u] = offer[u] /\ todo'[u] = todo[u])
    BY <1>9 DEF Reopens, Works, Elsewhere, TurnKept
  <2> QED BY <2>1 DEF IInv, Offered
<1>10. CASE Denies(c)
  <2>1. \A u \in Turns : offer'[u] = None \/ (offer'[u] = offer[u] /\ todo'[u] = todo[u])
    BY <1>10 DEF Denies, Works, Elsewhere, TurnKept
  <2> QED BY <2>1 DEF IInv, Offered
<1>11. CASE Cancels(c)
  <2>1. \A u \in Turns : offer'[u] = None \/ (offer'[u] = offer[u] /\ todo'[u] = todo[u])
    BY <1>11 DEF Cancels, Elsewhere, TurnKept
  <2> QED BY <2>1 DEF IInv, Offered
<1> QED BY <1>1, <1>2, <1>3, <1>4, <1>5, <1>6, <1>7, <1>8, <1>9, <1>10, <1>11 DEF Kinds

(* About what a call decides or executes a tool call of its turn.           *)
Holds(d) ==
    \/ pc[d] \in Deciding /\ dec[d] # "none"
    \/ pc[d] \in {"approved", "exec", "resuming"}

LEMMA KeepsDecided ==
    ASSUME IInv, TypeOK', Placed', NEW c \in Calls, Kinds(c)
    PROVE  Decided'
<1>0. Decided /\ Placed /\ Offered
  BY DEF IInv
<1>1. \A d \in Calls : Holds(d) => pc[d] \in Active /\ turn[d] \in Turns /\ about[d] \in todo[turn[d]]
  BY <1>0 DEF Holds, Decided, Placed, Active, Busy, Deciding
<1>2. ASSUME Others(c), \A d \in Calls \ {c} : pc[d] \in Active => todo'[turn[d]] = todo[turn[d]],
             Holds(c)' => about'[c] \in todo'[turn'[c]]
      PROVE  Decided'
  <2>1. \A d \in Calls \ {c} : Holds(d)' => Holds(d) /\ about'[d] = about[d] /\ turn'[d] = turn[d]
    BY <1>2 DEF Holds, Others
  <2>2. \A d \in Calls : Holds(d)' => about'[d] \in todo'[turn'[d]]
    BY <1>1, <1>2, <2>1
  <2> QED BY <2>2 DEF Decided, Holds
<1>3. \A d \in Calls : pc[d] \in Active => turn[d] \in Turns
  BY <1>0 DEF Placed, Active, Busy, Deciding
<1>4. CASE Quiet(c) \/ Admit(c) \/ Cancels(c)
  <2>1. Others(c) /\ ~Holds(c)'
    BY <1>4 DEF Quiet, Admit, Cancels, Holds, Active, Busy, Deciding
  <2>2. \A u \in Turns : todo'[u] = todo[u]
    BY <1>4 DEF Quiet, Admit, Cancels, Elsewhere, TurnKept
  <2> QED BY <1>2, <1>3, <2>1, <2>2
<1>5. CASE Enter(c)
  <2>1. Others(c) /\ turn'[c] = turn[c] /\ dec'[c] = dec[c] /\ about'[c] = about[c] /\ pc'[c] = "deciding"
    BY <1>5 DEF Enter, Itself
  <2>2. \A u \in Turns : todo'[u] = todo[u]
    BY <1>5 DEF Enter, TurnKept
  <2>3. ASSUME dec[c] # "none" PROVE about[c] \in todo[turn[c]] /\ turn[c] \in Turns
    <3>1. offer[turn[c]] = about[c]
      BY <1>5, <2>3 DEF Enter, Resumable
    <3>2. about[c] # None /\ turn[c] \in Turns
      BY <1>0, <1>5, <2>3, KernelAssumption DEF Placed, Enter
    <3> QED BY <1>0, <3>1, <3>2 DEF Offered
  <2>4. Holds(c)' => dec[c] # "none"
    BY <2>1 DEF Holds
  <2>5. Holds(c)' => about'[c] \in todo'[turn'[c]]
    BY <2>1, <2>2, <2>3, <2>4
  <2> QED BY <1>2, <1>3, <2>1, <2>2, <2>5
<1>6. CASE Works(c)
  <2>1. Others(c) /\ turn'[c] = turn[c] /\ dec'[c] = dec[c]
    BY <1>6 DEF Works, Itself
  <2>2. \A d \in Calls \ {c} : pc[d] \in Active => todo'[turn[d]] = todo[turn[d]]
    BY <1>6, OthersElsewhere DEF TurnKept
  <2>3. Goes(c) \/ Asks(c) \/ Parks(c) \/ Starts(c) \/ Returns(c) \/ Reopens(c) \/ Denies(c)
    BY <1>6 DEF Kinds, Quiet, Admit, Enter, Cancels, Works, Active, Busy, Deciding
  <2>4. ASSUME Holds(c)' PROVE about'[c] \in todo'[turn[c]]
    <3>1. ~Asks(c) /\ ~Parks(c) /\ ~Returns(c) /\ ~Denies(c)
      BY <2>4 DEF Holds, Deciding, Asks, Parks, Returns, Denies
    <3>2. CASE Goes(c)
      <4>1. Holds(c) /\ TurnKept(turn[c]) /\ about'[c] = about[c]
        BY <2>1, <2>4, <3>2 DEF Goes, Holds, Busy, Deciding
      <4> QED BY <1>1, <4>1 DEF TurnKept
    <3>3. CASE Starts(c)
      BY <3>3 DEF Starts, TurnKept
    <3>4. CASE Reopens(c)
      <4>1. pc[c] \in Deciding /\ dec[c] # "none" /\ todo'[turn[c]] = todo[turn[c]] /\ about'[c] = about[c]
        BY <2>4, <3>4 DEF Reopens, Holds, Deciding
      <4> QED BY <1>1, <4>1 DEF Holds
    <3> QED BY <2>3, <3>1, <3>2, <3>3, <3>4
  <2> QED BY <1>2, <2>1, <2>2, <2>4
<1> QED BY <1>4, <1>5, <1>6 DEF Kinds, Goes, Asks, Parks, Starts, Returns, Reopens, Denies

(* A turn that the step is not about.                                       *)
LEMMA UnfinishedElsewhere ==
    ASSUME Unfinished, NEW c \in Calls, Others(c), NEW u \in Turns, TurnKept(u),
           pc'[c] \notin Active \/ turn'[c] # u,
           NEW x \in todo[u] \cap Changing, started[x] # 0
    PROVE  /\ life'[u] \notin Waiting
           /\ \A d \in Calls : pc'[d] \in Active /\ turn'[d] = u => pc'[d] \in Running /\ about'[d] = x
BY DEF Unfinished, Others, TurnKept

LEMMA KeepsUnfinished ==
    ASSUME IInv, TypeOK', Placed', NEW c \in Calls, Kinds(c)
    PROVE  Unfinished'
<1> DEFINE t == turn[c]
<1> SUFFICES ASSUME NEW u \in Turns, NEW x \in todo'[u] \cap Changing, started'[x] # 0
             PROVE  /\ life'[u] \notin Waiting
                    /\ \A d \in Calls : pc'[d] \in Active /\ turn'[d] = u => pc'[d] \in Running /\ about'[d] = x
  BY DEF Unfinished
<1>1. Unfinished /\ Asked /\ Fresh /\ OneActive /\ BusyTurns /\ Placed /\ TypeOK
  BY DEF IInv
<1>2. ASSUME Works(c) PROVE t \in Turns /\ \A d \in Calls \ {c} : pc'[d] \in Active => turn'[d] # t
  <2>1. t \in Turns
    BY <1>1, <1>2 DEF Works, Placed, Active, Busy, Deciding
  <2>2. \A d \in Calls \ {c} : pc[d] \in Active => turn[d] # t
    BY <1>2, OthersElsewhere
  <2> QED BY <1>2, <2>1, <2>2 DEF Works, Others
(* The other turns: x is asked by one turn only, so it was begun before.    *)
<1>3. ASSUME Works(c), u # t, x \in todo[u], started[x] # 0
      PROVE  /\ life'[u] \notin Waiting
             /\ \A d \in Calls : pc'[d] \in Active /\ turn'[d] = u => pc'[d] \in Running /\ about'[d] = x
  BY <1>1, <1>3, UnfinishedElsewhere DEF Works, Itself, Elsewhere
(* The turn itself: a call that is not executing has nothing unfinished.    *)
<1>4. ASSUME Works(c), u = t, x \in todo[t], started[x] # 0
      PROVE  life[t] \notin Waiting /\ pc[c] \in Running /\ about[c] = x
  BY <1>1, <1>2, <1>4 DEF Unfinished, Works
<1>5. CASE Quiet(c)
  BY <1>1, <1>5, UnfinishedElsewhere DEF Quiet, TurnKept
<1>6. CASE Admit(c)
  <2> PICK v \in Turns \ begun : turn'[c] = v /\ Others(c) /\ started' = started
                                 /\ \A w \in Turns : TurnKept(w)
    BY <1>6 DEF Admit
  <2>1. x \in todo[u] /\ started[x] # 0
    BY DEF TurnKept
  <2>2. u # v
    BY <1>1, <2>1 DEF Fresh
  <2> QED BY <1>1, <2>1, <2>2, UnfinishedElsewhere
<1>7. CASE Enter(c)
  <2>1. x \in todo[u] /\ started[x] # 0
    BY <1>7 DEF Enter, TurnKept
  <2>2. u # t
    BY <1>1, <1>7, <2>1 DEF Unfinished, Enter, Resumable
  <2> QED BY <1>1, <1>7, <2>1, <2>2, UnfinishedElsewhere DEF Enter, Itself
<1>8. CASE Goes(c)
  <2>1. x \in todo[u] /\ started[x] # 0
    BY <1>2, <1>8 DEF Goes, Works, Settles, Elsewhere, TurnKept, StartedKept
  <2>2. CASE u = t
    <3>1. life[t] \notin Waiting /\ pc[c] \in Running /\ about[c] = x
      BY <1>4, <1>8, <2>1, <2>2 DEF Goes
    <3>2. pc'[c] = "leaving" \/ (pc'[c] = pc[c] /\ about'[c] = about[c])
      BY <1>8, <3>1 DEF Goes, Running, Deciding
    <3>3. life'[t] \notin Waiting
      BY <1>8, <3>1 DEF Goes, Settles, TurnKept
    <3> QED BY <1>2, <1>8, <2>2, <3>1, <3>2, <3>3 DEF Goes, Active, Busy, Deciding
  <2> QED BY <1>3, <1>8, <2>1, <2>2 DEF Goes
<1>9. CASE Asks(c)
  <2>1. started[x] # 0
    BY <1>9 DEF Asks
  <2>2. u # t
    BY <1>1, <1>9, <2>1 DEF Asks, Asked, Changing
  <2>3. x \in todo[u]
    BY <1>9, <2>2 DEF Asks, Works, Elsewhere, TurnKept
  <2> QED BY <1>3, <1>9, <2>1, <2>2, <2>3 DEF Asks
<1>10. CASE Parks(c)
  <2>1. x \in todo[u] /\ started[x] # 0
    BY <1>10 DEF Parks, Works, Elsewhere, TurnKept
  <2>2. u # t
    BY <1>4, <1>10, <2>1 DEF Parks
  <2> QED BY <1>3, <1>10, <2>1, <2>2 DEF Parks
<1>11. CASE Starts(c)
  <2> PICK y \in Tools : /\ Works(c) /\ pc[c] \in Busy \ Running /\ pc'[c] \in Running
                         /\ about'[c] = y /\ y \in todo[t]
                         /\ started' = [z \in Tools |-> IF z = y THEN Once(started[y]) ELSE started[z]]
                         /\ TurnKept(t)
    BY <1>11 DEF Starts
  <2>1. x \in todo[u] /\ x \in Tools
    BY <1>1 DEF Works, Elsewhere, TurnKept, Changing
  <2>2. CASE u = t
    <3>1. started[x] = 0
      BY <1>4, <2>1, <2>2
    <3>2. x = y
      BY <1>1, <2>1, <3>1 DEF TypeOK
    <3>3. life'[t] \notin Waiting
      BY <1>1 DEF BusyTurns, TurnKept
    <3> QED BY <1>2, <2>2, <3>2, <3>3
  <2>3. CASE u # t
    <3>1. owner[x] = u /\ owner[y] = t
      BY <1>1, <1>2, <2>1 DEF Asked
    <3>2. started[x] # 0
      BY <1>1, <2>1, <2>3, <3>1 DEF TypeOK
    <3> QED BY <1>3, <2>1, <2>3, <3>2
  <2> QED BY <2>2, <2>3
<1>12. CASE Returns(c)
  <2>1. x \in todo[u] /\ started[x] # 0
    BY <1>12 DEF Returns, Works, Elsewhere, TurnKept
  <2>2. u # t
    BY <1>4, <1>12, <2>1 DEF Returns
  <2> QED BY <1>3, <1>12, <2>1, <2>2 DEF Returns
<1>13. CASE Reopens(c)
  <2>1. x \in todo[u] /\ started[x] # 0
    BY <1>13 DEF Reopens, Works, Elsewhere, TurnKept
  <2>2. u # t
    BY <1>4, <1>13, <2>1 DEF Reopens, Running
  <2> QED BY <1>3, <1>13, <2>1, <2>2 DEF Reopens
<1>14. CASE Denies(c)
  <2>1. x \in todo[u] /\ started[x] # 0
    BY <1>14 DEF Denies, Works, Elsewhere, TurnKept
  <2>2. u # t
    BY <1>4, <1>14, <2>1 DEF Denies, Running
  <2> QED BY <1>3, <1>14, <2>1, <2>2 DEF Denies
<1>15. CASE Cancels(c)
  <2>1. x \in todo[u] /\ started[x] # 0 /\ pc'[c] \notin Active /\ Others(c)
    BY <1>15 DEF Cancels, Elsewhere, TurnKept, Active, Busy, Deciding
  <2>2. CASE u = t
    <3>1. life'[u] \notin Waiting
      BY <1>15, <2>2 DEF Cancels, Waiting
    <3> QED BY <1>1, <2>1, <3>1 DEF Unfinished, Others
  <2>3. CASE u # t
    BY <1>1, <1>15, <2>1, <2>3, UnfinishedElsewhere DEF Cancels, Elsewhere
  <2> QED BY <2>2, <2>3
<1> QED BY <1>5, <1>6, <1>7, <1>8, <1>9, <1>10, <1>11, <1>12, <1>13, <1>14, <1>15, Kinds(c) DEF Kinds

LEMMA KeepsStartedOnce ==
    ASSUME IInv, TypeOK', Placed', NEW c \in Calls, Kinds(c)
    PROVE  StartedOnce'
<1>1. CASE Starts(c)
  <2> PICK x \in Tools : /\ Works(c) /\ pc[c] \in Busy \ Running /\ x \in todo[turn[c]]
                         /\ started' = [y \in Tools |-> IF y = x THEN Once(started[x]) ELSE started[y]]
    BY <1>1 DEF Starts
  <2>1. turn[c] \in Turns /\ pc[c] \in Active \ Running
    BY DEF IInv, Placed, Works, Busy, Deciding, Active
  <2>2. x \in Changing => started[x] = 0
    BY <2>1 DEF IInv, Unfinished
  <2>3. Once(0) = 1
    BY DEF Once
  <2>4. \A y \in Changing : started'[y] = IF y = x THEN 1 ELSE started[y]
    BY <2>2, <2>3 DEF Changing
  <2> QED BY <2>4 DEF IInv, StartedOnce, Changing
<1>2. CASE ~Starts(c)
  <2>1. StartedKept
    BY <1>2 DEF Kinds, Quiet, Admit, Enter, Goes, Asks, Parks, Returns, Reopens, Denies, Cancels,
                StartedKept
  <2> QED BY <2>1 DEF IInv, StartedOnce, StartedKept, Changing
<1> QED BY <1>1, <1>2

LEMMA KeepsSuspension ==
    ASSUME IInv, TypeOK', Placed', NEW c \in Calls, Kinds(c)
    PROVE  Suspension'
<1>0. Suspension /\ BusyTurns
  BY DEF IInv
<1>1. CASE \A u \in Turns : TurnKept(u)
  BY <1>0, <1>1 DEF Suspension, TurnKept
<1>2. ASSUME Elsewhere(turn[c]),
             turn[c] \in Turns /\ life'[turn[c]] = "suspended"
               => rs'[turn[c]] = "approval" /\ offer'[turn[c]] # None
      PROVE  Suspension'
  BY <1>0, <1>2 DEF Suspension, Elsewhere, TurnKept
<1>3. pc[c] \in Busy => life[turn[c]] # "suspended"
  BY <1>0 DEF BusyTurns, Waiting
<1>4. None \notin Tools
  BY KernelAssumption
<1>5. CASE Goes(c)
  <2>1. Elsewhere(turn[c]) /\ Settles(turn[c])
    BY <1>5 DEF Goes, Works
  <2>2. CASE TurnKept(turn[c])
    BY <1>1, <2>1, <2>2 DEF Elsewhere
  <2>3. CASE life'[turn[c]] \notin Waiting
    BY <1>2, <2>1, <2>3 DEF Waiting
  <2> QED BY <2>1, <2>2, <2>3 DEF Settles
<1>6. CASE Asks(c)
  <2>1. Elsewhere(turn[c]) /\ life'[turn[c]] = life[turn[c]] /\ pc[c] \in Busy
    BY <1>6 DEF Asks, Works, Busy
  <2> QED BY <1>2, <1>3, <2>1
<1>7. CASE Parks(c)
  <2>1. /\ Elsewhere(turn[c])
        /\ \/ life'[turn[c]] = "resumable"
           \/ rs'[turn[c]] = "approval" /\ offer'[turn[c]] \in todo[turn[c]]
    BY <1>7 DEF Parks, Works
  <2>2. turn[c] \in Turns => todo[turn[c]] \subseteq Tools
    BY DEF IInv, TypeOK
  <2> QED BY <1>2, <1>4, <2>1, <2>2
<1>8. CASE Starts(c)
  <2>1. Elsewhere(turn[c]) /\ TurnKept(turn[c])
    BY <1>8 DEF Starts, Works
  <2> QED BY <1>1, <2>1 DEF Elsewhere
<1>9. CASE Returns(c)
  <2>1. Elsewhere(turn[c]) /\ pc[c] \in Busy /\ life'[turn[c]] \in {"running", life[turn[c]]}
    BY <1>9 DEF Returns, Works, Running, Busy
  <2> QED BY <1>2, <1>3, <2>1
<1>10. CASE Reopens(c)
  <2>1. Elsewhere(turn[c]) /\ life'[turn[c]] = "running"
    BY <1>10 DEF Reopens, Works
  <2> QED BY <1>2, <2>1
<1>11. CASE Denies(c)
  <2>1. Elsewhere(turn[c]) /\ life'[turn[c]] = "completed"
    BY <1>11 DEF Denies, Works
  <2> QED BY <1>2, <2>1
<1>12. CASE Cancels(c)
  <2>1. Elsewhere(turn[c]) /\ life'[turn[c]] = "canceled"
    BY <1>12 DEF Cancels
  <2> QED BY <1>2, <2>1
<1>13. Quiet(c) \/ Admit(c) \/ Enter(c) => \A u \in Turns : TurnKept(u)
  BY DEF Quiet, Admit, Enter
<1> QED BY <1>1, <1>5, <1>6, <1>7, <1>8, <1>9, <1>10, <1>11, <1>12, <1>13 DEF Kinds

LEMMA KeepsDeniedClosed ==
    ASSUME IInv, TypeOK', Placed', NEW c \in Calls, Kinds(c)
    PROVE  DeniedClosed'
<1> DEFINE Closed(x) ==
      /\ x \in Changing => started[x] = 0
      /\ owner[x] \in Turns
      /\ life[owner[x]] \notin Waiting
      /\ \A d \in Calls : pc[d] \in Active => turn[d] # owner[x]
<1>1. \A x \in denied : x \in Tools /\ Closed(x)
  BY DEF IInv, TypeOK, DeniedClosed
<1>2. SUFFICES ASSUME NEW x \in denied' PROVE Closed(x)'
  BY DEF DeniedClosed
(* Nobody works on the turn of a denied call, so a step of a worker leaves it. *)
<1>3. ASSUME Works(c), x \in denied, owner'[x] = owner[x],
             x \in Changing => started'[x] = started[x]
      PROVE  Closed(x)'
  <2>1. turn[c] # owner[x] /\ pc[c] \in Active
    BY <1>1, <1>3 DEF Works
  <2>2. TurnKept(owner[x])
    BY <1>1, <1>3, <2>1 DEF Works, Elsewhere
  <2>3. \A d \in Calls : pc'[d] \in Active => turn'[d] # owner[x]
    BY <1>1, <1>3, <2>1 DEF Works, Others, Itself
  <2> QED BY <1>1, <1>3, <2>2, <2>3 DEF TurnKept
<1>4. CASE Quiet(c)
  <2>1. x \in denied /\ owner' = owner /\ started' = started
    BY <1>4 DEF Quiet
  <2>2. life'[owner[x]] = life[owner[x]]
    BY <1>1, <1>4, <2>1 DEF Quiet, TurnKept
  <2>3. \A d \in Calls : pc'[d] \in Active => turn'[d] # owner[x]
    BY <1>1, <1>4, <2>1 DEF Quiet, Others
  <2> QED BY <1>1, <2>1, <2>2, <2>3
<1>5. CASE Admit(c)
  <2> PICK t \in Turns \ begun : turn'[c] = t /\ Others(c) /\ \A u \in Turns : TurnKept(u)
    BY <1>5 DEF Admit
  <2>1. x \in denied /\ owner' = owner /\ started' = started
    BY <1>5 DEF Admit
  <2>2. owner[x] # t
    BY <1>1, <2>1 DEF IInv, Fresh
  <2>3. life'[owner[x]] = life[owner[x]]
    BY <1>1, <2>1 DEF TurnKept
  <2>4. \A d \in Calls : pc'[d] \in Active => turn'[d] # owner[x]
    BY <1>1, <2>1, <2>2 DEF Others
  <2> QED BY <1>1, <2>1, <2>3, <2>4
<1>6. CASE Enter(c)
  <2>1. x \in denied /\ owner' = owner /\ started' = started
    BY <1>6 DEF Enter
  <2>2. owner[x] # turn[c]
    BY <1>1, <1>6, <2>1 DEF Enter, Resumable
  <2>3. life'[owner[x]] = life[owner[x]]
    BY <1>1, <1>6, <2>1 DEF Enter, TurnKept
  <2>4. \A d \in Calls : pc'[d] \in Active => turn'[d] # owner[x]
    BY <1>1, <1>6, <2>1, <2>2 DEF Enter, Others, Itself
  <2> QED BY <1>1, <2>1, <2>3, <2>4
<1>7. CASE Goes(c)
  BY <1>3, <1>7 DEF Goes, StartedKept
<1>8. CASE Asks(c)
  <2>1. x \in denied /\ started' = started /\ Works(c)
    BY <1>8 DEF Asks
  <2>2. owner[x] # None
    BY <1>1, <2>1, KernelAssumption
  <2>3. owner'[x] = owner[x]
    BY <1>1, <1>8, <2>1, <2>2 DEF Asks
  <2> QED BY <1>3, <2>1, <2>3
<1>9. CASE Parks(c) \/ Returns(c) \/ Reopens(c)
  BY <1>3, <1>9 DEF Parks, Returns, Reopens
<1>10. CASE Starts(c)
  <2> PICK y \in Tools : /\ Works(c) /\ y \in todo[turn[c]] /\ owner' = owner /\ denied' = denied
                         /\ started' = [z \in Tools |-> IF z = y THEN Once(started[y]) ELSE started[z]]
    BY <1>10 DEF Starts
  <2>1. turn[c] \in Turns
    BY DEF IInv, Placed, Works, Active, Busy, Deciding
  <2>2. owner[y] = turn[c] /\ turn[c] # owner[x]
    BY <1>1, <2>1 DEF IInv, Asked, Works
  <2>3. started'[x] = started[x]
    BY <1>1, <2>2
  <2> QED BY <1>3, <2>3
<1>11. CASE Denies(c)
  <2>1. /\ Works(c) /\ pc[c] = "denying" /\ pc'[c] \notin Active
        /\ owner' = owner /\ started' = started /\ life'[turn[c]] \notin Waiting
        /\ denied' = denied \cup {about[c]}
    BY <1>11 DEF Denies, Waiting, Active, Busy, Deciding
  <2>2. CASE x # about[c]
    BY <1>3, <2>1, <2>2
  <2>3. CASE x = about[c]
    <3>1. turn[c] \in Turns /\ about[c] \in todo[turn[c]]
      BY <2>1 DEF IInv, Placed, Decided, Deciding
    <3>2. owner[x] = turn[c]
      BY <2>3, <3>1 DEF IInv, Asked
    <3>3. x \in Changing => started[x] = 0
      BY <2>1, <2>3, <3>1 DEF IInv, Unfinished, Running, Active, Busy, Deciding
    <3>4. \A d \in Calls : pc'[d] \in Active => turn'[d] # turn[c]
      BY <2>1, OthersElsewhere DEF Works, Others
    <3> QED BY <2>1, <3>1, <3>2, <3>3, <3>4
  <2> QED BY <2>2, <2>3
<1>12. CASE Cancels(c)
  <2>1. /\ x \in denied /\ owner' = owner /\ started' = started /\ pc'[c] \notin Active
        /\ Others(c) /\ Elsewhere(turn[c]) /\ life'[turn[c]] \notin Waiting
    BY <1>12 DEF Cancels, Waiting, Active, Busy, Deciding
  <2>2. life'[owner[x]] \notin Waiting
    BY <1>1, <2>1 DEF Elsewhere, TurnKept
  <2>3. \A d \in Calls : pc'[d] \in Active => turn'[d] # owner[x]
    BY <1>1, <2>1 DEF Others
  <2> QED BY <1>1, <2>1, <2>2, <2>3
<1> QED BY <1>4, <1>5, <1>6, <1>7, <1>8, <1>9, <1>10, <1>11, <1>12 DEF Kinds

-----------------------------------------------------------------------------
(* The steps together.                                                      *)

LEMMA CallStep ==
    ASSUME IInv, NEW c \in Calls, Arrive(c) \/ Step(c)
    PROVE  IInv'
<1>1. Kinds(c)
  BY OtherKinds DEF IInv
<1>2. TypeOK' /\ Placed' /\ StoredIsCurrent'
  BY OtherTypes DEF IInv
<1>3. Fresh' /\ Locked' /\ OneActive' /\ BusyTurns' /\ Asked'
  BY <1>1, <1>2, KeepsFresh, KeepsLocked, KeepsOneActive, KeepsBusyTurns, KeepsAsked
<1>4. Offered' /\ Decided' /\ Unfinished' /\ StartedOnce' /\ Suspension' /\ DeniedClosed'
  BY <1>1, <1>2, KeepsOffered, KeepsDecided, KeepsUnfinished, KeepsStartedOnce, KeepsSuspension,
     KeepsDeniedClosed
<1> QED BY <1>2, <1>3, <1>4 DEF IInv

(* A crash keeps the current turn as it was, and nobody works on it.        *)
LEMMA CrashTurns ==
    ASSUME IInv, Crash
    PROVE  /\ cur' = cur /\ stored' = stored
           /\ cur \in Turns => TurnKept(cur) /\ iter'[cur] = iter[cur]
           /\ \A t \in Turns \ {cur} : /\ life'[t] = "none" /\ rs'[t] = "none" /\ offer'[t] = None
                                       /\ todo'[t] = {} /\ iter'[t] = 0
           /\ \A c \in Calls : pc'[c] = "idle"
BY KernelAssumption DEF IInv, TypeOK, StoredIsCurrent, Crash, TurnKept

LEMMA CrashTypes ==
    ASSUME IInv, Crash
    PROVE  TypeOK' /\ Placed' /\ StoredIsCurrent'
<1> USE KernelAssumption DEF IInv
<1>0. 0 \in 0..MaxIterations
  OBVIOUS
<1>1. TypeOK'
  <2>1. /\ life' \in [Turns -> Lives] /\ rs' \in [Turns -> Resumes]
        /\ offer' \in [Turns -> Tools \cup {None}] /\ todo' \in [Turns -> SUBSET Tools]
        /\ iter' \in [Turns -> 0..MaxIterations]
    BY <1>0 DEF Crash, TypeOK, Lives, Resumes
  <2>2. pc' \in [Calls -> Steps]
    BY DEF Crash, Steps
  <2>3. crashes' \in 0..MaxCrashes
    BY DEF Crash, TypeOK
  <2>4. cur' \in Turns \cup {None} /\ stored' = stored /\ owner' = owner /\ begun' = begun
        /\ started' = started /\ denied' = denied
    BY DEF Crash, TypeOK
  <2>5. /\ turn' \in [Calls -> Turns \cup {None}] /\ about' \in [Calls -> Tools \cup {None}]
        /\ dec' \in [Calls -> {"none", "approved", "denied"}]
        /\ batch' \in [Calls -> SUBSET Tools]
        /\ reason' \in [Calls -> BOOLEAN] /\ stopped' \in [Calls -> BOOLEAN]
        /\ inFlight' \in [Turns -> Calls \cup {None}] /\ pendingCancel' \subseteq Turns
        /\ lock' \in [Turns -> Calls \cup {None}]
    BY DEF Crash
  <2> QED BY <2>1, <2>2, <2>3, <2>4, <2>5 DEF TypeOK
<1>2. Placed'
  BY DEF Crash, Placed, Active, Busy, Deciding
<1>3. StoredIsCurrent'
  BY CrashTurns DEF StoredIsCurrent, TurnKept, TypeOK
<1> QED BY <1>1, <1>2, <1>3

LEMMA CrashStep ==
    ASSUME IInv, Crash
    PROVE  IInv'
<1>1. TypeOK' /\ Placed' /\ StoredIsCurrent'
  BY CrashTypes
<1>2. UNCHANGED <<owner, begun, started, denied>>
  BY DEF Crash
<1>3. \A t \in Turns : TurnKept(t) \/ (life'[t] = "none" /\ offer'[t] = None /\ todo'[t] = {})
  BY CrashTurns
<1>4. \A c \in Calls : pc'[c] = "idle"
  BY CrashTurns
<1> USE <1>2, <1>3, <1>4 DEF TurnKept, Active, Busy, Deciding, Waiting
<1>5. Fresh'
  BY DEF IInv, Fresh
<1>6. Locked' /\ OneActive' /\ BusyTurns' /\ Decided'
  BY DEF Locked, OneActive, BusyTurns, Decided
<1>7. Asked'
  BY DEF IInv, Asked
<1>8. Offered'
  BY DEF IInv, Offered
<1>9. Unfinished'
  BY DEF IInv, Unfinished
<1>10. StartedOnce' /\ Suspension'
  BY DEF IInv, StartedOnce, Suspension
<1>11. DeniedClosed'
  BY DEF IInv, DeniedClosed
<1> QED BY <1>1, <1>5, <1>6, <1>7, <1>8, <1>9, <1>10, <1>11 DEF IInv

LEMMA StepInv == IInv /\ [Next]_vars => IInv'
<1> SUFFICES ASSUME IInv, [Next]_vars PROVE IInv'
  OBVIOUS
<1>1. CASE Crash
  BY <1>1, CrashStep
<1>2. ASSUME NEW c \in Calls, Arrive(c) \/ Step(c) PROVE IInv'
  BY <1>2, CallStep
<1>3. CASE UNCHANGED vars
  BY <1>3 DEF vars, session, context, cancels, ghosts, IInv, TypeOK, Placed, Fresh, Locked, OneActive,
              BusyTurns, Asked, Offered, Decided, Unfinished, StartedOnce, Suspension, DeniedClosed,
              StoredIsCurrent
<1> QED BY <1>1, <1>2, <1>3 DEF Next

LEMMA InitInv == Init => IInv
<1> SUFFICES ASSUME Init PROVE IInv
  OBVIOUS
<1> USE KernelAssumption
<1>1. TypeOK
  <2>1. 0 \in 0..MaxIterations /\ 0 \in 0..MaxCrashes
    OBVIOUS
  <2> QED BY <2>1 DEF Init, TypeOK, Lives, Resumes, Steps
<1>2. Placed /\ Locked /\ OneActive /\ BusyTurns /\ Decided
  BY DEF Init, Placed, Locked, OneActive, BusyTurns, Decided, Active, Busy, Deciding
<1>3. Fresh /\ Asked /\ Offered /\ Unfinished
  BY DEF Init, Fresh, Asked, Offered, Unfinished, Changing
<1>4. StartedOnce /\ Suspension /\ DeniedClosed /\ StoredIsCurrent
  BY DEF Init, StartedOnce, Suspension, DeniedClosed, StoredIsCurrent
<1> QED BY <1>1, <1>2, <1>3, <1>4 DEF IInv

LEMMA Invariance == Spec => []IInv
BY InitInv, StepInv, PTL DEF Spec

-----------------------------------------------------------------------------
(* The state has its type.                                                  *)
THEOREM TurnTypes == Spec => []TypeOK
<1>1. IInv => TypeOK
  BY DEF IInv
<1> QED BY <1>1, Invariance, PTL

(* A tool call that may change something is executed at most once: the      *)
(* approval of a mutating call is not spent twice.                          *)
THEOREM NeverStartedTwice == Spec => []StartedOnce
<1>1. IInv => StartedOnce
  BY DEF IInv
<1> QED BY <1>1, Invariance, PTL

(* A tool call whose denial ended its turn is never executed, if it may     *)
(* change something.                                                        *)
THEOREM DenialHolds == Spec => []DeniedNeverRuns
<1>1. IInv => DeniedNeverRuns
  BY DEF IInv, TypeOK, DeniedClosed, DeniedNeverRuns, Changing
<1> QED BY <1>1, Invariance, PTL

(* A suspended turn has an open approval, of a call without a result; one   *)
(* that may change something was not executed.                              *)
THEOREM SuspensionDecidable == Spec => []SuspendedCanBeDecided
<1>1. IInv => SuspendedCanBeDecided
  <2> SUFFICES ASSUME IInv, NEW t \in Turns, life[t] = "suspended"
               PROVE  /\ rs[t] = "approval" /\ offer[t] \in todo[t]
                      /\ offer[t] \notin ReadOnly => started[offer[t]] = 0
    BY DEF SuspendedCanBeDecided
  <2>1. rs[t] = "approval" /\ offer[t] \in todo[t]
    BY DEF IInv, Suspension, Offered
  <2>2. offer[t] \notin ReadOnly => started[offer[t]] = 0
    BY <2>1 DEF IInv, TypeOK, Unfinished, Waiting, Changing
  <2> QED BY <2>1, <2>2
<1> QED BY <1>1, Invariance, PTL

(* At most one call works on a turn, although only a resume locks it.       *)
THEOREM OneWorkerPerTurn == Spec => []OneWorker
<1>1. IInv => OneWorker
  BY DEF IInv, OneActive, OneWorker, Working, Active, Busy, Deciding
<1> QED BY <1>1, Invariance, PTL
=============================================================================
