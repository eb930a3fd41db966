----------------------------- MODULE RunLifecycle -----------------------------
(***************************************************************************)
(* The life cycle of one run of a workflow: the statuses of the package    *)
(* pkg/runner/state and the transitions the run-state stores accept.       *)
(* The empty status "" is what a zero RunState carries; "none" stands for  *)
(* a run a store does not hold.                                            *)
(***************************************************************************)

\* validRunStatus.
RunStatus == {"queued", "running", "success", "failed", "canceled", "interrupted"}

\* IsTerminalRunStatus.
IsTerminalRunStatus(s) == s \in {"success", "failed", "canceled", "interrupted"}

\* ValidateRunTransition returns nil: the table allowedRunTransitions. A status
\* the table does not list ("none" here) allows nothing.
ValidateRunTransition(from, to) ==
  \/ from = ""        /\ to \in {"queued", "running"}
  \/ from = "queued"  /\ to \in {"queued", "running", "failed", "canceled", "interrupted"}
  \/ from = "running" /\ to \in {"running", "success", "failed", "canceled", "interrupted"}
  \/ IsTerminalRunStatus(from) /\ to = from

\* MarkInterruptedRunning, on one run: only the running ones are marked.
MarkInterrupted(s) == IF s = "running" THEN "interrupted" ELSE s
===============================================================================
