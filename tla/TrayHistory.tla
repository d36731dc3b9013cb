----------------------------- MODULE TrayHistory -----------------------------
(***************************************************************************)
(* The tray: TrayApplicationContext, which samples the background mutex    *)
(* every second and starts the scheduled task when it is not held, and     *)
(* SummaryForm, which shows the rows of job_runs as cards and deletes the  *)
(* row of a card after a confirmation.  The context keeps two of these     *)
(* forms, and each has its own cards and its own sample of the mutex: a    *)
(* timer tick refreshes both, opening or deleting refreshes one.           *)
(*                                                                         *)
(* The tray runs on one thread, and its other handlers only run while it   *)
(* waits for schtasks.exe or shows the confirmation dialog (the            *)
(* asynchronous calls of Microsoft.Data.Sqlite complete synchronously).    *)
(* The jobs are other processes: they go on between any two reads.         *)
(***************************************************************************)
EXTENDS JobRunLifecycle

CONSTANTS
  Background,       \* the process started with --background
  MaxDisturbances   \* bound: things that go wrong

ASSUME TrayAssumption == Background \in Procs /\ MaxDisturbances \in Nat

VARIABLES
  up,             \* the background process lives, so its mutex exists
  sampled,        \* TrayApplicationContext.backgroundRunning
  refreshing,     \* RefreshAsync is between its sample and its rows
  visible,        \* visible[w]: the window is open
  windowSampled,  \* windowSampled[w]: its SummaryForm.backgroundRunning
  shown,          \* shown[w][i]: the status on its card i, "none" without one
  asking,         \* asking[w]: the run its confirmation is about, 0 without one
  disturbances    \* how many things went wrong so far

window   == <<visible, windowSampled, shown, asking>>
trayOnly == <<sampled, refreshing, window>>
vars     == <<history, up, trayOnly, disturbances>>

\* TrayApplicationContext.summary and fullWindow.
Windows == {"flyout", "full"}

OpenWindows == {w \in Windows : visible[w]}
-----------------------------------------------------------------------------
Disturb ==
  /\ disturbances < MaxDisturbances
  /\ disturbances' = disturbances + 1

(***************************************************************************)
(* The jobs.                                                               *)
(***************************************************************************)

\* At logon, or on schtasks /Run: the task ignores a second instance.
StartBackground ==
  /\ ~up
  /\ up' = TRUE
  /\ UNCHANGED <<history, trayOnly, disturbances>>

\* The background process starts a run at a cron occurrence, the others
\* (--once, --dry-run) when they are launched; these take no mutex.
StartRun(p) ==
  /\ p = Background => up
  /\ Start(p)
  /\ run'[p] # 0
  /\ UNCHANGED <<up, trayOnly, disturbances>>

EndRun(p) ==
  /\ \E result \in Results : End(p, result)
  /\ UNCHANGED <<up, trayOnly, disturbances>>

\* StartRunAsync fails after the purge, or the first entry after the insert.
FailStart(p) ==
  /\ Disturb
  /\ p = Background => up
  /\ Purge \/ (Start(p) /\ run'[p] = 0)
  /\ UNCHANGED <<up, trayOnly>>

\* CompleteRunAsync fails: the row stays "Running".
FailEnd(p) ==
  /\ Disturb
  /\ End(p, "Running")
  /\ UNCHANGED <<up, trayOnly>>

\* A process is killed, by schtasks /End too.
Kill(p) ==
  /\ Disturb
  /\ IF run[p] # 0 THEN End(p, "Running") ELSE p = Background /\ UNCHANGED history
  /\ p = Background => up
  /\ up' = (up /\ p # Background)
  /\ UNCHANGED trayOnly
-----------------------------------------------------------------------------
(***************************************************************************)
(* The cards.                                                              *)
(***************************************************************************)

\* Whether no newer row is in the table.
Newest(table, i) == \A j \in RunIds : j > i => table[j] = "Absent"

\* Mutants: the card of a row that has gone stays; older rows still running
\* are taken for failed; only the mutex is looked at.
ShownAbsent(table, flag, i) ==
  IF table[i] = "Running" /\ (~flag \/ ~Newest(table, i)) THEN "Interrupted"
  ELSE table[i]
ShownFailed(table, flag, i) ==
  IF table[i] = "Absent" THEN "none"
  ELSE IF table[i] = "Running" /\ ~flag THEN "Interrupted"
  ELSE IF table[i] = "Running" /\ ~Newest(table, i) THEN "Failed"
  ELSE table[i]
ShownByMutex(table, flag, i) ==
  IF table[i] = "Absent" THEN "none"
  ELSE IF table[i] = "Running" /\ ~flag THEN "Interrupted"
  ELSE table[i]

\* A running row is shown as interrupted when the background job is not
\* known to run, or a newer run exists.
Shown(table, flag, i) ==
  IF table[i] = "Absent" THEN "none"
  ELSE IF table[i] = "Running" /\ (~flag \/ ~Newest(table, i)) THEN "Interrupted"
  ELSE table[i]

\* The forms in opened show a table with a sample of the mutex.
UpdateHistory(opened, table, flag) ==
  /\ windowSampled' = [w \in Windows |-> IF w \in opened THEN flag ELSE windowSampled[w]]
  /\ shown' = [w \in Windows |->
       IF w \in opened THEN [i \in RunIds |-> Shown(table, flag, i)] ELSE shown[w]]

\* Other handlers of the tray run: during RefreshAsync only while it waits
\* for schtasks /Run, which it does once a minute when it saw no mutex.
MessageLoop == refreshing => ~sampled

\* Mutant: once the mutex was not seen, it is not looked for again.
RefreshOnce ==
  /\ ~refreshing
  /\ refreshing' = TRUE
  /\ sampled' = (sampled /\ up)
  /\ UNCHANGED <<history, up, window, disturbances>>

\* The timer tick: sample the mutex.
Refresh ==
  /\ ~refreshing
  /\ refreshing' = TRUE
  /\ sampled' = up
  /\ UNCHANGED <<history, up, window, disturbances>>

\* The open windows show the rows of this moment with the sample from before.
Display ==
  /\ refreshing
  /\ refreshing' = FALSE
  /\ UpdateHistory(OpenWindows, rows, sampled)
  /\ UNCHANGED <<history, up, sampled, visible, asking, disturbances>>

\* schtasks.exe cannot be started or the rows cannot be read, or the logs for
\* the flyout, which is updated first.
FailDisplay ==
  /\ Disturb
  /\ refreshing
  /\ refreshing' = FALSE
  /\ \E opened \in {{}, OpenWindows \ {"full"}} : UpdateHistory(opened, rows, sampled)
  /\ UNCHANGED <<history, up, sampled, visible, asking>>

\* ShowSummaryAsync and ShowFullWindowAsync read the rows but do not sample
\* again, also when the window is open already.
ShowSummary(w) ==
  /\ MessageLoop
  /\ visible' = [visible EXCEPT ![w] = TRUE]
  /\ UpdateHistory({w}, rows, sampled)
  /\ UNCHANGED <<history, up, sampled, refreshing, asking, disturbances>>

\* The flyout hides when it loses the focus, the full window is closed, except
\* while a dialog of their own is open.  Their cards are not seen again before
\* ShowSummary fills them, so they are forgotten here.
Hide(w) ==
  /\ MessageLoop
  /\ visible[w]
  /\ asking[w] = 0
  /\ visible' = [visible EXCEPT ![w] = FALSE]
  /\ windowSampled' = [windowSampled EXCEPT ![w] = FALSE]
  /\ shown' = [shown EXCEPT ![w] = [i \in RunIds |-> "none"]]
  /\ UNCHANGED <<history, up, sampled, refreshing, asking, disturbances>>

\* The button is enabled on every card not shown as running.  The dialog
\* blocks its own window, and not one opened after it.
RequestDelete(w, i) ==
  /\ MessageLoop
  /\ visible[w]
  /\ asking[w] = 0
  /\ shown[w][i] \notin {"none", "Running"}
  /\ asking' = [asking EXCEPT ![w] = i]
  /\ UNCHANGED <<history, up, sampled, refreshing, visible, windowSampled, shown, disturbances>>

\* Mutant: the other cards of the window are not updated after a deletion.
AnswerDeleteKeeps(w) ==
  /\ MessageLoop
  /\ asking[w] # 0
  /\ asking' = [asking EXCEPT ![w] = 0]
  /\ \/ Delete(asking[w]) /\ shown' = [shown EXCEPT ![w][asking[w]] = "none"]
     \/ UNCHANGED <<history, shown>>
  /\ UNCHANGED <<up, sampled, refreshing, visible, windowSampled, disturbances>>

\* Yes deletes the row of the card, whatever became of it meanwhile, and this
\* window shows the rest; no, or a deletion that fails, changes nothing.
AnswerDelete(w) ==
  /\ MessageLoop
  /\ asking[w] # 0
  /\ asking' = [asking EXCEPT ![w] = 0]
  /\ \/ Delete(asking[w]) /\ UpdateHistory({w}, rows', windowSampled[w])
     \/ UNCHANGED <<history, windowSampled, shown>>
  /\ UNCHANGED <<up, sampled, refreshing, visible, disturbances>>

\* The row is deleted, but the rest cannot be read: the cards stay.
FailAnswer(w) ==
  /\ Disturb
  /\ MessageLoop
  /\ asking[w] # 0
  /\ asking' = [asking EXCEPT ![w] = 0]
  /\ Delete(asking[w])
  /\ UNCHANGED <<up, sampled, refreshing, visible, windowSampled, shown>>
-----------------------------------------------------------------------------
Init ==
  /\ HistoryInit
  /\ up = FALSE
  /\ sampled = FALSE
  /\ refreshing = FALSE
  /\ visible = [w \in Windows |-> FALSE]
  /\ windowSampled = [w \in Windows |-> FALSE]
  /\ shown = [w \in Windows |-> [i \in RunIds |-> "none"]]
  /\ asking = [w \in Windows |-> 0]
  /\ disturbances = 0

Next ==
  \/ StartBackground
  \/ \E p \in Procs : StartRun(p) \/ EndRun(p) \/ FailStart(p) \/ FailEnd(p) \/ Kill(p)
  \/ Refresh
  \/ Display
  \/ FailDisplay
  \/ \E w \in Windows :
       \/ ShowSummary(w)
       \/ Hide(w)
       \/ \E i \in RunIds : RequestDelete(w, i)
       \/ AnswerDelete(w)
       \/ FailAnswer(w)

Spec == Init /\ [][Next]_vars

\* The timer ticks every second and schtasks.exe ends.
TrayFairSpec == Spec /\ WF_vars(Refresh) /\ WF_vars(Display)

\* The task is started again, cron starts runs, and runs end.
FairSpec ==
  /\ TrayFairSpec
  /\ WF_vars(StartBackground)
  /\ WF_vars(StartRun(Background))
  /\ \A p \in Procs : WF_vars(EndRun(p))
-----------------------------------------------------------------------------
(***************************************************************************)
(* Properties.                                                             *)
(***************************************************************************)

\* The type invariant.
TypeOK ==
  /\ rows \in [RunIds -> Statuses]
  /\ nextRun \in 1..(MaxRuns + 1)
  /\ run \in [Procs -> 0..MaxRuns]
  /\ {up, sampled, refreshing} \subseteq BOOLEAN
  /\ visible \in [Windows -> BOOLEAN]
  /\ windowSampled \in [Windows -> BOOLEAN]
  /\ shown \in [Windows -> [RunIds -> (Statuses \ {"Absent"}) \cup {"none", "Interrupted"}]]
  /\ asking \in [Windows -> 0..MaxRuns]
  /\ disturbances \in 0..MaxDisturbances

\* A card never contradicts a result: what it shows as completed or failed
\* has that result, or no row any more, however old the card is.
ResultsShownTruly ==
  \A w \in Windows, i \in RunIds :
    shown[w][i] \in Results => rows[i] \in {shown[w][i], "Absent"}

\* The newest row is running and the window saw the mutex, and yet offers the
\* row for deletion.
Misjudges(w, i) ==
  rows[i] = "Running" /\ Newest(rows, i) /\ windowSampled[w] /\ shown[w][i] = "Interrupted"

\* The last step deleted, on an answer in window v, a row newer than i.
DeletedNewer(v, i) ==
  /\ asking[v] > i
  /\ rows[asking[v]] # "Absent"
  /\ rows'[asking[v]] = "Absent"
  /\ asking'[v] = 0

\* A window that saw the mutex comes to offer the newest running row only when
\* a newer row is deleted in the other window, or in this one with the reading
\* of the remaining rows failing: no start, end, kill or retention of a run,
\* no refresh and no deletion that goes well makes a window misjudge it.
OnlyDeletionsMislead ==
  [][\A w \in Windows, i \in RunIds :
       Misjudges(w, i)' /\ ~Misjudges(w, i) =>
         \E v \in Windows :
           DeletedNewer(v, i) /\ (v # w \/ disturbances' # disturbances)]_vars

\* A row without a run is shown as interrupted in the end, and so can be
\* deleted, although the job may live: on the newest row that takes the next
\* run (none is left when the bound on runs is reached).
AbandonedIsInterrupted ==
  \A w \in Windows, i \in RunIds :
    rows[i] = "Running" /\ ~InProgress(i) ~>
      \/ shown[w][i] = "Interrupted" \/ rows[i] = "Absent" \/ ~visible[w]
      \/ Newest(rows, i) /\ nextRun > MaxRuns

\* The newest run of a live background process is shown as running in the
\* end, although a window may have been filled from an outdated sample, or
\* before a newer row was deleted in the other window.
LiveRunIsShown ==
  \A w \in Windows, i \in RunIds :
    up /\ run[Background] = i /\ rows[i] = "Running" /\ Newest(rows, i) ~>
      shown[w][i] = "Running" \/ ~up \/ run[Background] # i \/ rows[i] # "Running"
        \/ ~Newest(rows, i) \/ ~visible[w]

\* SummaryForm.OnDeleteRequested "deletes the selected completed run": a run
\* in progress keeps its row.
LiveRowsSurvive ==
  \A p \in Procs : run[p] # 0 => rows[run[p]] # "Absent"
=============================================================================
