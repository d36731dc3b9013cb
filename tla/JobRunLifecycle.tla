--------------------------- MODULE JobRunLifecycle ---------------------------
(***************************************************************************)
(* What the table job_runs records of the runs, without what they do to    *)
(* the mailboxes: a run inserts its row, ends with a result or is          *)
(* abandoned with its row still "Running", and rows leave the table by     *)
(* retention or by hand.  EmailManager implements this; TrayHistory adds   *)
(* the tray that shows the rows and deletes them.                          *)
(***************************************************************************)
EXTENDS Naturals

CONSTANTS
  Procs,    \* processes that can run a transfer
  MaxRuns   \* bound: runs started

ASSUME MaxRunsAssumption == MaxRuns \in Nat

VARIABLES
  rows,     \* rows[i]: the status of row i, "Absent" where there is none
  nextRun,  \* the next AUTOINCREMENT id
  run       \* run[p]: the row of p's run in progress, 0 between runs

history == <<rows, nextRun, run>>

RunIds   == 1..MaxRuns
Results  == {"Completed", "Failed"}
Statuses == Results \cup {"Absent", "Running"}

InProgress(i) == \E p \in Procs : run[p] = i

HistoryInit ==
  /\ rows = [i \in RunIds |-> "Absent"]
  /\ nextRun = 1
  /\ run = [p \in Procs |-> 0]

\* The retention removes rows from the oldest on; it is counted in days, so
\* it does not reach a run in progress.
Cutoffs == {c \in 0..MaxRuns : \A q \in Procs : run[q] # 0 => c < run[q]}
Purged(cutoff) == [i \in RunIds |-> IF i <= cutoff THEN "Absent" ELSE rows[i]]

\* A start that fails after the purge.
Purge ==
  /\ \E cutoff \in Cutoffs : rows' = Purged(cutoff)
  /\ UNCHANGED <<nextRun, run>>

\* A start that fails after the insert leaves a row without a run.
Start(p) ==
  /\ run[p] = 0
  /\ nextRun <= MaxRuns
  /\ \E cutoff \in Cutoffs : rows' = [Purged(cutoff) EXCEPT ![nextRun] = "Running"]
  /\ nextRun' = nextRun + 1
  /\ run' \in {run, [run EXCEPT ![p] = nextRun]}

\* The run is over; "Running" stands for a result that was never written,
\* because the process was killed or CompleteRunAsync failed.
End(p, result) ==
  /\ run[p] # 0
  /\ rows' = [rows EXCEPT ![run[p]] = IF @ = "Absent" THEN @ ELSE result]
  /\ run' = [run EXCEPT ![p] = 0]
  /\ UNCHANGED nextRun

\* A row is deleted by hand.
Delete(i) ==
  /\ rows' = [rows EXCEPT ![i] = "Absent"]
  /\ UNCHANGED <<nextRun, run>>

HistoryNext ==
  \/ Purge
  \/ \E p \in Procs : Start(p)
  \/ \E p \in Procs, result \in Results \cup {"Running"} : End(p, result)
  \/ \E i \in RunIds : Delete(i)

HistorySpec == HistoryInit /\ [][HistoryNext]_history
=============================================================================
