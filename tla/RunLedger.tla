------------------------------ MODULE RunLedger ------------------------------
(***************************************************************************)
(* What the runner server promises about each run to those who watch it:   *)
(* through the run-state store, the event stream and the ops-manual sink.  *)
(* A run is announced, and then either starts once, gets one verdict and   *)
(* finishes once, or is canceled and never starts; the sink hears of it    *)
(* once.  No calls, workers, queue, jobs, metas or write failures:         *)
(* RunService shows how the code gets there.                               *)
(***************************************************************************)
EXTENDS Naturals, Sequences, RunLifecycle

CONSTANTS Runs

VARIABLES status,     \* the run-state store, "none" for a run it does not hold
          canceled,   \* runs canceled before they started
          withdrawn,  \* runs whose submission was refused and undone
          events,     \* the event stream of each run
          told        \* what the sink was told of each run

vars == <<status, canceled, withdrawn, events, told>>

Init ==
  /\ status = [r \in Runs |-> "none"]
  /\ canceled = {}
  /\ withdrawn = {}
  /\ events = [r \in Runs |-> <<>>]
  /\ told = [r \in Runs |-> <<>>]

Has(r, e) == \E i \in 1..Len(events[r]) : events[r][i] = e

Announced(r) == Has(r, "run_queued")
Started(r)   == Has(r, "run_start")
Ended(r)     == Has(r, "run_finish")

\* A run is executed between its two events.
Open(r) == Started(r) /\ ~Ended(r) /\ r \notin canceled

Publish(r, e) ==
  /\ events' = [events EXCEPT ![r] = Append(@, e)]
  /\ UNCHANGED <<status, canceled, withdrawn, told>>

Becomes(r, s) ==
  /\ status' = [status EXCEPT ![r] = s]
  /\ UNCHANGED <<canceled, withdrawn, events, told>>

Announce(r) ==
  /\ ~Announced(r) /\ ~Started(r)
  /\ status[r] = "none"
  /\ Publish(r, "run_queued")

\* A cancel reaches a run before it starts; nothing was said of the run yet.
Cancel(r) ==
  /\ ~Started(r) /\ ~Ended(r)
  /\ status[r] = "none" /\ told[r] = <<>>
  /\ r \notin withdrawn
  /\ canceled' = canceled \cup {r}
  /\ UNCHANGED <<status, withdrawn, events, told>>

\* The submission is undone; the run may have been canceled meanwhile.
Withdraw(r) ==
  /\ ~Started(r)
  /\ status[r] = "none"
  /\ withdrawn' = withdrawn \cup {r}
  /\ UNCHANGED <<status, canceled, events, told>>

Start(r) ==
  /\ Announced(r) /\ ~Started(r) /\ ~Ended(r)
  /\ status[r] = "none" /\ told[r] = <<>>
  /\ r \notin canceled \cup withdrawn
  /\ Publish(r, "run_start")

\* The life of a run that started: queued, running, one verdict.
Create(r) == Open(r) /\ status[r] = "none"   /\ Becomes(r, "queued")
Begin(r)  == Open(r) /\ status[r] = "queued" /\ Becomes(r, "running")

Conclude(r, s) ==
  /\ Open(r)
  /\ status[r] = "running" /\ s \in {"success", "failed", "canceled"}
  /\ Becomes(r, s)

\* The run state of a run that was canceled before it started.
Refuse(r) ==
  /\ r \in canceled /\ ~Started(r)
  /\ status[r] = "none"
  /\ Becomes(r, "canceled")

\* A run that started finishes once; each cancel of one that did not says so.
Finish(r) ==
  /\ r \in canceled \/ Open(r)
  /\ Publish(r, "run_finish")

\* The sink is told once, between start and finish: the verdict.  It hears of a
\* canceled run that it is canceled, and of a refused request that it failed.
Tell(r, s) ==
  /\ told[r] = <<>> /\ IsTerminalRunStatus(s)
  /\ IsTerminalRunStatus(status[r]) => status[r] = s
  /\ \/ Open(r)
     \/ r \in canceled /\ s = "canceled"
     \/ events[r] = <<>> /\ status[r] = "none" /\ s = "failed"
  /\ told' = [told EXCEPT ![r] = <<s>>]
  /\ UNCHANGED <<status, canceled, withdrawn, events>>

\* A new process marks what the last one left running.
Interrupt ==
  /\ status' = [r \in Runs |-> MarkInterrupted(status[r])]
  /\ UNCHANGED <<canceled, withdrawn, events, told>>

Next ==
  \/ \E r \in Runs :
        \/ Announce(r) \/ Cancel(r) \/ Withdraw(r) \/ Start(r) \/ Create(r) \/ Begin(r)
        \/ Refuse(r) \/ Finish(r)
        \/ \E s \in RunStatus : Conclude(r, s) \/ Tell(r, s)
  \/ Interrupt

Spec == Init /\ [][Next]_vars
===============================================================================
