-------------------------- MODULE MCOperationsConsole --------------------------
(***************************************************************************)
(* OperationsConsole for TLC, with the job runs JobRunStatistics is        *)
(* checked on: up to three, over four days of two ticks.                   *)
(***************************************************************************)
EXTENDS OperationsConsole, TLC

CONSTANTS stranger

\* A run that transferred, a longer one that partly failed, one whose only
\* message failed and one that never ended.
Row(id, startedAt, status, detected, failed, duration) ==
  [id |-> id, startedAt |-> startedAt, status |-> status, detected |-> detected,
   transferred |-> detected - failed, failed |-> failed, duration |-> duration]

RowsOf(id) ==
  UNION {{Row(id, t, "completed", 2, 0, 1), Row(id, t, "completed_with_failures", 5, 4, 4),
          Row(id, t, "failed", 1, 1, 0), Row(id, t, "running", 0, 0, NoDuration)} : t \in 0..7}

MCInputs ==
  {{}} \cup {{a} : a \in RowsOf(1)}
       \cup {{a, b} : a \in RowsOf(1), b \in RowsOf(2)}
       \cup {{a, b, c} : a \in RowsOf(1), b \in {r \in RowsOf(2) : r.startedAt > 3},
                         c \in {r \in RowsOf(3) : r.startedAt > 5}}
=============================================================================
