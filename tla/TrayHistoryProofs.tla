--------------------------- MODULE TrayHistoryProofs ---------------------------
(***************************************************************************)
(* Theorems about the tray, for every set of processes, every number of    *)
(* runs and whatever goes wrong.                                           *)
(*                                                                         *)
(* What a card shows was computed from a table and a sample that may both  *)
(* be outdated.  The invariant says what of it still holds of the table as *)
(* it is: a result is final.  The proof has two halves, what a step does   *)
(* to the rows and what it does to the cards of one window, and the action *)
(* property follows from both.                                             *)
(***************************************************************************)
EXTENDS TrayHistory, TLAPS

USE MaxRunsAssumption, TrayAssumption

\* Rows not numbered yet do not exist, and have no card.
RowsAreFresh ==
  \A i \in RunIds : i >= nextRun => rows[i] = "Absent" /\ \A w \in Windows : shown[w][i] = "none"

\* A run in progress has a row of its own, running or deleted.
RunsAreOwned ==
  \A p, q \in Procs : run[p] # 0 =>
    /\ run[p] < nextRun
    /\ rows[run[p]] \in {"Running", "Absent"}
    /\ run[p] = run[q] => p = q

TrayInv == TypeOK /\ RowsAreFresh /\ RunsAreOwned /\ ResultsShownTruly
-----------------------------------------------------------------------------
(***************************************************************************)
(* What a step does to the rows.                                           *)
(***************************************************************************)
\* Only a running row changes other than by leaving the table, and nothing
\* appears but at the next id.
RowsGo ==
  /\ rows' \in [RunIds -> Statuses]
  /\ nextRun' \in 1..(MaxRuns + 1) /\ nextRun' >= nextRun
  /\ run' \in [Procs -> 0..MaxRuns]
  /\ \A i \in RunIds : i < nextRun /\ rows[i] # "Running" => rows'[i] \in {rows[i], "Absent"}
  /\ \A i \in RunIds : i >= nextRun' => rows'[i] = "Absent"
  /\ RunsAreOwned'

\* A row leaves the table only with all that are older.
OldestFirst ==
  \A i, j \in RunIds : i < j /\ rows[j] # "Absent" /\ rows'[j] = "Absent" => rows'[i] = "Absent"

LEMMA PurgeEffect ==
  ASSUME TrayInv, NEW cutoff \in Cutoffs
  PROVE  /\ cutoff \in Nat
         /\ Purged(cutoff) \in [RunIds -> Statuses]
         /\ \A i \in RunIds : Purged(cutoff)[i] = IF i <= cutoff THEN "Absent" ELSE rows[i]
         /\ \A p \in Procs : run[p] # 0 => Purged(cutoff)[run[p]] = rows[run[p]]
<1>1. cutoff \in Nat /\ \A p \in Procs : run[p] # 0 => run[p] \in RunIds /\ ~(run[p] <= cutoff)
  BY DEF Cutoffs, TrayInv, TypeOK, RunIds
<1>. QED
  BY <1>1 DEF Purged, TrayInv, TypeOK, Statuses

LEMMA StartRows ==
  ASSUME TrayInv, NEW p \in Procs, Start(p)
  PROVE  RowsGo /\ OldestFirst
<1>1. PICK cutoff \in Cutoffs : rows' = [Purged(cutoff) EXCEPT ![nextRun] = "Running"]
  BY DEF Start
<1>2. /\ nextRun \in RunIds /\ nextRun' = nextRun + 1 /\ nextRun' \in 1..(MaxRuns + 1)
      /\ run[p] = 0
  BY DEF Start, TrayInv, TypeOK, RunIds
<1>3. /\ rows'[nextRun] = "Running"
      /\ \A i \in RunIds \ {nextRun} : rows'[i] = Purged(cutoff)[i]
      /\ rows' \in [RunIds -> Statuses]
  BY <1>1, <1>2, PurgeEffect DEF Statuses
<1>4. /\ run' \in [Procs -> 0..MaxRuns]
      /\ \A q \in Procs \ {p} : run'[q] = run[q]
      /\ run'[p] \in {0, nextRun}
  BY <1>2 DEF Start, TrayInv, TypeOK, RunIds
<1>5. \A i \in RunIds : i >= nextRun => rows[i] = "Absent"
  BY DEF TrayInv, RowsAreFresh
<1>6. \A i \in RunIds : i < nextRun => rows'[i] \in {rows[i], "Absent"}
  BY <1>2, <1>3, PurgeEffect DEF RunIds
<1>7. \A i \in RunIds : i >= nextRun' => rows'[i] = "Absent"
  <2>1. \A i \in RunIds : i >= nextRun' => i # nextRun /\ i >= nextRun
    BY <1>2 DEF RunIds
  <2>. QED
    BY <1>2, <1>3, <1>5, <2>1, PurgeEffect
<1>8. ASSUME NEW q \in Procs, run[q] # 0
      PROVE  /\ run[q] \in RunIds /\ run[q] # nextRun /\ run[q] < nextRun'
             /\ rows'[run[q]] = rows[run[q]]
  <2>1. run[q] \in RunIds /\ run[q] < nextRun
    BY <1>8 DEF TrayInv, TypeOK, RunsAreOwned, RunIds
  <2>2. run[q] # nextRun /\ run[q] < nextRun'
    BY <1>2, <2>1 DEF RunIds
  <2>. QED
    BY <1>3, <1>8, <2>1, <2>2, PurgeEffect
<1>9. RunsAreOwned'
  BY <1>2, <1>3, <1>4, <1>8 DEF TrayInv, RunsAreOwned, RunIds
<1>10. OldestFirst
  <2>. SUFFICES ASSUME NEW i \in RunIds, NEW j \in RunIds, i < j,
                       rows[j] # "Absent", rows'[j] = "Absent"
                PROVE  rows'[i] = "Absent"
    BY DEF OldestFirst
  <2>1. j # nextRun /\ i # nextRun
    BY <1>2, <1>3, <1>5 DEF RunIds
  <2>2. j <= cutoff
    BY <1>3, <2>1, PurgeEffect
  <2>3. i <= cutoff
    BY <2>2, PurgeEffect DEF RunIds
  <2>. QED
    BY <1>3, <2>1, <2>3, PurgeEffect
<1>. QED
  BY <1>2, <1>3, <1>4, <1>6, <1>7, <1>9, <1>10 DEF RowsGo, RunIds

LEMMA PurgeRows ==
  ASSUME TrayInv, Purge
  PROVE  RowsGo /\ OldestFirst
<1>1. PICK cutoff \in Cutoffs : rows' = Purged(cutoff)
  BY DEF Purge
<1>2. UNCHANGED <<nextRun, run>> /\ nextRun \in 1..(MaxRuns + 1)
  BY DEF Purge, TrayInv, TypeOK
<1>3. \A i \in RunIds : rows'[i] = IF i <= cutoff THEN "Absent" ELSE rows[i]
  BY <1>1, PurgeEffect
<1>4. RunsAreOwned'
  BY <1>1, <1>2, PurgeEffect DEF TrayInv, RunsAreOwned
<1>5. OldestFirst
  BY <1>3, PurgeEffect DEF OldestFirst, RunIds
<1>. QED
  BY <1>1, <1>2, <1>3, <1>4, <1>5, PurgeEffect DEF RowsGo, TrayInv, TypeOK, RowsAreFresh

LEMMA EndRows ==
  ASSUME TrayInv, NEW p \in Procs, NEW result \in Results \cup {"Running"}, End(p, result)
  PROVE  RowsGo /\ OldestFirst
<1>1. /\ nextRun' = nextRun /\ nextRun \in 1..(MaxRuns + 1)
      /\ run[p] \in RunIds /\ run[p] # 0 /\ run[p] < nextRun
      /\ rows[run[p]] \in {"Running", "Absent"}
  BY DEF End, TrayInv, TypeOK, RunsAreOwned, RunIds
<1>2. /\ \A i \in RunIds \ {run[p]} : rows'[i] = rows[i]
      /\ rows'[run[p]] = IF rows[run[p]] = "Absent" THEN "Absent" ELSE result
      /\ rows' \in [RunIds -> Statuses]
  BY <1>1 DEF End, TrayInv, TypeOK, Statuses
<1>3. /\ run' \in [Procs -> 0..MaxRuns] /\ run'[p] = 0
      /\ \A q \in Procs \ {p} : run'[q] = run[q]
  BY DEF End, TrayInv, TypeOK
<1>4. RunsAreOwned'
  <2>. SUFFICES ASSUME NEW q \in Procs, run'[q] # 0
                PROVE  /\ run'[q] = run[q] /\ run[q] < nextRun
                       /\ rows'[run[q]] \in {"Running", "Absent"}
                       /\ \A r \in Procs : run'[q] = run'[r] => q = r
    BY <1>1 DEF RunsAreOwned
  <2>1. q # p /\ run'[q] = run[q]
    BY <1>3
  <2>2. run[q] # run[p] /\ run[q] \in RunIds /\ run[q] < nextRun
    BY <1>1, <2>1 DEF TrayInv, TypeOK, RunsAreOwned, RunIds
  <2>3. rows'[run[q]] \in {"Running", "Absent"}
    BY <1>2, <2>1, <2>2 DEF TrayInv, RunsAreOwned
  <2>4. ASSUME NEW r \in Procs, run'[q] = run'[r] PROVE q = r
    <3>1. r # p /\ run'[r] = run[r]
      BY <1>3, <2>1, <2>4
    <3>. QED
      BY <2>1, <2>4, <3>1 DEF TrayInv, RunsAreOwned
  <2>. QED
    BY <2>1, <2>2, <2>3, <2>4
<1>5. OldestFirst
  BY <1>1, <1>2 DEF OldestFirst, Results
<1>6. \A i \in RunIds : /\ i < nextRun /\ rows[i] # "Running" => rows'[i] \in {rows[i], "Absent"}
                        /\ i >= nextRun' => rows'[i] = "Absent"
  BY <1>1, <1>2 DEF TrayInv, RowsAreFresh, RunIds
<1>. QED
  BY <1>1, <1>2, <1>3, <1>4, <1>5, <1>6 DEF RowsGo

LEMMA DeleteRows ==
  ASSUME TrayInv, NEW i \in RunIds, Delete(i)
  PROVE  RowsGo
<1>1. /\ UNCHANGED <<nextRun, run>>
      /\ rows' \in [RunIds -> Statuses]
      /\ \A j \in RunIds : rows'[j] \in {rows[j], "Absent"}
  BY DEF Delete, TrayInv, TypeOK, Statuses
<1>2. RunsAreOwned'
  BY <1>1 DEF TrayInv, TypeOK, RunsAreOwned, RunIds
<1>3. nextRun \in 1..(MaxRuns + 1) /\ nextRun' >= nextRun /\ run' \in [Procs -> 0..MaxRuns]
  BY <1>1 DEF TrayInv, TypeOK
<1>4. \A j \in RunIds : j >= nextRun' => rows'[j] = "Absent"
  BY <1>1 DEF TrayInv, RowsAreFresh
<1>. QED
  BY <1>1, <1>2, <1>3, <1>4 DEF RowsGo

LEMMA SameRows ==
  ASSUME TrayInv, UNCHANGED history
  PROVE  RowsGo /\ OldestFirst
<1>1. UNCHANGED <<rows, nextRun, run>>
  BY DEF history
<1>2. RunsAreOwned'
  BY <1>1 DEF TrayInv, RunsAreOwned
<1>3. OldestFirst
  BY <1>1 DEF OldestFirst
<1>. QED
  BY <1>1, <1>2, <1>3 DEF RowsGo, TrayInv, TypeOK, RowsAreFresh

\* A step of a job leaves the windows alone and the rows in order.
LEMMA JobStep ==
  ASSUME TrayInv, NEW p \in Procs,
         StartRun(p) \/ EndRun(p) \/ FailStart(p) \/ FailEnd(p) \/ Kill(p)
  PROVE  /\ RowsGo /\ OldestFirst
         /\ up' \in BOOLEAN /\ disturbances' \in 0..MaxDisturbances
         /\ UNCHANGED trayOnly
<1>0. up \in BOOLEAN /\ disturbances \in 0..MaxDisturbances
  BY DEF TrayInv, TypeOK
<1>1. disturbances' \in 0..MaxDisturbances /\ up' \in BOOLEAN /\ UNCHANGED trayOnly
  <2>1. CASE StartRun(p) \/ EndRun(p)
    BY <1>0, <2>1 DEF StartRun, EndRun
  <2>2. CASE FailStart(p) \/ FailEnd(p) \/ Kill(p)
    <3>1. UNCHANGED trayOnly /\ Disturb
      BY <2>2 DEF FailStart, FailEnd, Kill
    <3>2. disturbances' \in 0..MaxDisturbances
      BY <1>0, <3>1 DEF Disturb
    <3>3. up' \in BOOLEAN
      BY <1>0, <2>2 DEF FailStart, FailEnd, Kill
    <3>. QED
      BY <3>1, <3>2, <3>3
  <2>. QED
    BY <2>1, <2>2
<1>2. CASE Start(p)
  BY <1>1, <1>2, StartRows
<1>3. CASE Purge
  BY <1>1, <1>3, PurgeRows
<1>4. CASE \E result \in Results \cup {"Running"} : End(p, result)
  BY <1>1, <1>4, EndRows
<1>5. CASE UNCHANGED history
  BY <1>1, <1>5, SameRows
<1>. QED
  BY <1>2, <1>3, <1>4, <1>5 DEF StartRun, EndRun, FailStart, FailEnd, Kill, Results
-----------------------------------------------------------------------------
(***************************************************************************)
(* What a step does to the cards of one window.                            *)
(***************************************************************************)
CardsKept(w) == windowSampled'[w] = windowSampled[w] /\ shown'[w] = shown[w]
CardsFilled(w) == shown'[w] = [i \in RunIds |-> Shown(rows', windowSampled'[w], i)]
CardsForgotten(w) == shown'[w] = [i \in RunIds |-> "none"]

CardsGo ==
  /\ windowSampled' \in [Windows -> BOOLEAN]
  /\ shown' = [w \in Windows |-> shown'[w]]
  /\ \A w \in Windows : CardsKept(w) \/ CardsFilled(w) \/ CardsForgotten(w)

LEMMA SameCards ==
  ASSUME TrayInv, UNCHANGED <<windowSampled, shown>>
  PROVE  CardsGo /\ \A w \in Windows : CardsKept(w)
BY DEF CardsGo, CardsKept, TrayInv, TypeOK

LEMMA UpdatedCards ==
  ASSUME TrayInv, NEW opened \in SUBSET Windows, NEW flag \in BOOLEAN, UpdateHistory(opened, rows', flag)
  PROVE  CardsGo /\ \A w \in opened : CardsFilled(w)
<1>1. /\ windowSampled' = [w \in Windows |-> IF w \in opened THEN flag ELSE windowSampled[w]]
      /\ shown' = [w \in Windows |->
           IF w \in opened THEN [i \in RunIds |-> Shown(rows', flag, i)] ELSE shown[w]]
  BY DEF UpdateHistory
<1>2. windowSampled' \in [Windows -> BOOLEAN] /\ shown' = [w \in Windows |-> shown'[w]]
  BY <1>1 DEF TrayInv, TypeOK
<1>3. \A w \in Windows : IF w \in opened THEN CardsFilled(w) ELSE CardsKept(w)
  BY <1>1 DEF CardsFilled, CardsKept
<1>. QED
  BY <1>2, <1>3 DEF CardsGo

\* The invariant needs no more of a step than this.
LEMMA Preserved ==
  ASSUME TrayInv, RowsGo, CardsGo,
         {up', sampled', refreshing'} \subseteq BOOLEAN, visible' \in [Windows -> BOOLEAN],
         asking' \in [Windows -> 0..MaxRuns], disturbances' \in 0..MaxDisturbances
  PROVE  TrayInv'
<1>1. ASSUME NEW w \in Windows, NEW i \in RunIds
      PROVE  /\ shown'[w][i] \in (Statuses \ {"Absent"}) \cup {"none", "Interrupted"}
             /\ i >= nextRun' => shown'[w][i] = "none"
             /\ shown'[w][i] \in Results => rows'[i] \in {shown'[w][i], "Absent"}
             /\ shown'[w] = [j \in RunIds |-> shown'[w][j]]
  <2>1. CASE CardsKept(w)
    <3>1. shown'[w] = shown[w] /\ shown[w] = [j \in RunIds |-> shown[w][j]]
      BY <2>1 DEF CardsKept, TrayInv, TypeOK
    <3>2. /\ shown[w][i] \in (Statuses \ {"Absent"}) \cup {"none", "Interrupted"}
          /\ i >= nextRun' => i >= nextRun
      BY DEF RowsGo, TrayInv, TypeOK, RunIds
    <3>3. i >= nextRun => shown[w][i] = "none"
      BY DEF TrayInv, RowsAreFresh
    <3>4. shown[w][i] \in Results => rows'[i] \in {shown[w][i], "Absent"}
      <4>. SUFFICES ASSUME shown[w][i] \in Results PROVE rows'[i] \in {shown[w][i], "Absent"}
        OBVIOUS
      <4>1. i < nextRun
        BY <3>3 DEF Results, TrayInv, TypeOK, RunIds
      <4>2. rows[i] \in {shown[w][i], "Absent"}
        BY DEF TrayInv, ResultsShownTruly
      <4>. QED
        BY <4>1, <4>2 DEF RowsGo, Results
    <3>. QED
      BY <3>1, <3>2, <3>3, <3>4
  <2>2. CASE CardsFilled(w)
    <3>1. shown'[w][i] = Shown(rows', windowSampled'[w], i) /\ shown'[w] = [j \in RunIds |-> shown'[w][j]]
      BY <2>2 DEF CardsFilled
    <3>2. /\ rows'[i] = "Absent" => shown'[w][i] = "none"
          /\ rows'[i] # "Absent" => shown'[w][i] \in {"Interrupted", rows'[i]}
      BY <3>1 DEF Shown
    <3>. QED
      BY <3>1, <3>2 DEF RowsGo, Statuses, Results
  <2>3. CASE CardsForgotten(w)
    BY <2>3 DEF CardsForgotten, Results
  <2>. QED
    BY <2>1, <2>2, <2>3 DEF CardsGo
<1>2. shown' \in [Windows -> [RunIds -> (Statuses \ {"Absent"}) \cup {"none", "Interrupted"}]]
  <2> DEFINE Cards == (Statuses \ {"Absent"}) \cup {"none", "Interrupted"}
  <2>1. ASSUME NEW w \in Windows PROVE shown'[w] \in [RunIds -> Cards]
    <3>1. \A i \in RunIds : shown'[w][i] \in Cards
      BY <1>1
    <3>2. shown'[w] = [j \in RunIds |-> shown'[w][j]]
      <4>1. CASE RunIds = {}
        BY <4>1 DEF CardsGo, CardsKept, CardsFilled, CardsForgotten, TrayInv, TypeOK
      <4>2. CASE RunIds # {}
        BY <1>1, <4>2
      <4>. QED
        BY <4>1, <4>2
    <3>. HIDE DEF Cards
    <3>. QED
      BY <3>1, <3>2
  <2>. HIDE DEF Cards
  <2>2. shown' \in [Windows -> [RunIds -> Cards]]
    BY <2>1 DEF CardsGo
  <2>. QED
    BY <2>2 DEF Cards
<1>3. TypeOK'
  BY <1>2 DEF TypeOK, RowsGo, CardsGo
<1>4. RowsAreFresh' /\ ResultsShownTruly' /\ RunsAreOwned'
  BY <1>1 DEF RowsGo, RowsAreFresh, ResultsShownTruly
<1>. QED
  BY <1>3, <1>4 DEF TrayInv
-----------------------------------------------------------------------------
(***************************************************************************)
(* The steps of the tray.                                                  *)
(***************************************************************************)
\* All but an answer leave the rows alone.
LEMMA TrayStep ==
  ASSUME TrayInv,
         \/ StartBackground \/ Refresh \/ Display \/ FailDisplay
         \/ \E w \in Windows : ShowSummary(w) \/ Hide(w) \/ \E i \in RunIds : RequestDelete(w, i)
  PROVE  UNCHANGED history /\ CardsGo /\ TrayInv'
<1>0. /\ {up, sampled, refreshing} \subseteq BOOLEAN /\ visible \in [Windows -> BOOLEAN]
      /\ asking \in [Windows -> 0..MaxRuns] /\ disturbances \in 0..MaxDisturbances
  BY DEF TrayInv, TypeOK
<1>1. CASE StartBackground \/ Refresh
  <2>1. /\ UNCHANGED <<history, windowSampled, shown, visible, asking, disturbances>>
        /\ {up', sampled', refreshing'} \subseteq BOOLEAN
    BY <1>0, <1>1 DEF StartBackground, Refresh, trayOnly, window
  <2>. QED
    BY <1>0, <2>1, SameRows, SameCards, Preserved
<1>2. CASE Display \/ FailDisplay
  <2>1. /\ UNCHANGED <<history, up, sampled, visible, asking>> /\ refreshing' \in BOOLEAN
        /\ \E opened \in SUBSET Windows : UpdateHistory(opened, rows, sampled)
    BY <1>2 DEF Display, FailDisplay, OpenWindows
  <2>2. disturbances' \in 0..MaxDisturbances
    BY <1>0, <1>2 DEF Display, FailDisplay, Disturb
  <2>3. rows' = rows
    BY <2>1 DEF history
  <2>4. CardsGo
    BY <1>0, <2>1, <2>3, UpdatedCards
  <2>. QED
    BY <1>0, <2>1, <2>2, <2>4, SameRows, Preserved
<1>3. CASE \E w \in Windows : ShowSummary(w)
  <2>1. PICK w \in Windows : ShowSummary(w)
    BY <1>3
  <2>2. /\ UNCHANGED <<history, up, sampled, refreshing, asking, disturbances>>
        /\ visible' \in [Windows -> BOOLEAN] /\ UpdateHistory({w}, rows, sampled)
    BY <1>0, <2>1 DEF ShowSummary
  <2>3. rows' = rows
    BY <2>2 DEF history
  <2>4. CardsGo
    BY <1>0, <2>2, <2>3, UpdatedCards
  <2>. QED
    BY <1>0, <2>2, <2>4, SameRows, Preserved
<1>4. CASE \E w \in Windows : Hide(w)
  <2>1. PICK w \in Windows : Hide(w)
    BY <1>4
  <2>2. /\ UNCHANGED <<history, up, sampled, refreshing, asking, disturbances>>
        /\ visible' \in [Windows -> BOOLEAN]
    BY <1>0, <2>1 DEF Hide
  <2>3. /\ windowSampled' \in [Windows -> BOOLEAN]
        /\ shown' = [v \in Windows |-> shown'[v]]
        /\ CardsForgotten(w)
        /\ \A v \in Windows \ {w} : CardsKept(v)
    BY <2>1 DEF Hide, CardsForgotten, CardsKept, TrayInv, TypeOK
  <2>4. CardsGo
    BY <2>3 DEF CardsGo
  <2>. QED
    BY <1>0, <2>2, <2>4, SameRows, Preserved
<1>5. CASE \E w \in Windows, i \in RunIds : RequestDelete(w, i)
  <2>1. /\ UNCHANGED <<history, up, sampled, refreshing, visible, windowSampled, shown, disturbances>>
        /\ asking' \in [Windows -> 0..MaxRuns]
    BY <1>0, <1>5 DEF RequestDelete, RunIds
  <2>. QED
    BY <1>0, <2>1, SameRows, SameCards, Preserved
<1>. QED
  BY <1>1, <1>2, <1>3, <1>4, <1>5

\* A deletion refills its own window, unless the rows cannot be read again.
LEMMA AnswerStep ==
  ASSUME TrayInv, NEW v \in Windows, AnswerDelete(v) \/ FailAnswer(v)
  PROVE  /\ CardsGo /\ TrayInv' /\ asking'[v] = 0
         /\ \/ UNCHANGED history
            \/ Delete(asking[v]) /\ (CardsFilled(v) \/ disturbances' # disturbances)
<1>0. /\ {up, sampled, refreshing} \subseteq BOOLEAN /\ visible \in [Windows -> BOOLEAN]
      /\ asking \in [Windows -> 0..MaxRuns] /\ disturbances \in 0..MaxDisturbances
      /\ windowSampled \in [Windows -> BOOLEAN]
  BY DEF TrayInv, TypeOK
<1>1. /\ UNCHANGED <<up, sampled, refreshing, visible>>
      /\ asking' = [asking EXCEPT ![v] = 0] /\ asking[v] \in RunIds
  BY <1>0 DEF AnswerDelete, FailAnswer, RunIds
<1>2. asking' \in [Windows -> 0..MaxRuns] /\ asking'[v] = 0
  BY <1>0, <1>1
<1>3. CASE AnswerDelete(v)
  <2>1. disturbances' = disturbances
    BY <1>3 DEF AnswerDelete
  <2>2. CASE Delete(asking[v]) /\ UpdateHistory({v}, rows', windowSampled[v])
    <3>1. CardsGo /\ CardsFilled(v)
      BY <1>0, <2>2, UpdatedCards
    <3>2. RowsGo
      BY <1>1, <2>2, DeleteRows
    <3>. QED
      BY <1>0, <1>1, <1>2, <2>1, <2>2, <3>1, <3>2, Preserved
  <2>3. CASE UNCHANGED <<history, windowSampled, shown>>
    <3>1. CardsGo /\ RowsGo
      BY <2>3, SameRows, SameCards
    <3>2. TrayInv'
      BY <1>0, <1>1, <1>2, <2>1, <3>1, Preserved
    <3>. QED
      BY <1>2, <2>3, <3>1, <3>2
  <2>. QED
    BY <1>3, <2>2, <2>3 DEF AnswerDelete
<1>4. CASE FailAnswer(v)
  <2>1. /\ disturbances' \in 0..MaxDisturbances /\ disturbances' # disturbances
        /\ Delete(asking[v]) /\ UNCHANGED <<windowSampled, shown>>
    BY <1>0, <1>4 DEF FailAnswer, Disturb
  <2>2. CardsGo /\ RowsGo
    BY <1>1, <2>1, DeleteRows, SameCards
  <2>. QED
    BY <1>0, <1>1, <1>2, <2>1, <2>2, Preserved
<1>. QED
  BY <1>3, <1>4

LEMMA TrayInvariance == Spec => []TrayInv
<1>1. Init => TrayInv
  <2>. SUFFICES ASSUME Init PROVE TrayInv
    OBVIOUS
  <2>1. /\ rows = [i \in RunIds |-> "Absent"]
        /\ shown = [w \in Windows |-> [i \in RunIds |-> "none"]]
        /\ run = [p \in Procs |-> 0] /\ nextRun = 1
    BY DEF Init, HistoryInit
  <2>2. TypeOK
    <3>1. {up, sampled, refreshing} \subseteq BOOLEAN
      BY DEF Init
    <3>2. /\ asking \in [Windows -> 0..MaxRuns] /\ disturbances \in 0..MaxDisturbances
          /\ visible \in [Windows -> BOOLEAN] /\ windowSampled \in [Windows -> BOOLEAN]
      BY DEF Init
    <3>3. nextRun \in 1..(MaxRuns + 1) /\ run \in [Procs -> 0..MaxRuns]
      BY <2>1
    <3>. QED
      BY <2>1, <3>1, <3>2, <3>3 DEF TypeOK, Statuses
  <2>3. RowsAreFresh /\ RunsAreOwned
    BY <2>1 DEF RowsAreFresh, RunsAreOwned
  <2>4. ResultsShownTruly
    BY <2>1 DEF ResultsShownTruly, Results
  <2>. QED
    BY <2>2, <2>3, <2>4 DEF TrayInv
<1>2. TrayInv /\ [Next]_vars => TrayInv'
  <2>. SUFFICES ASSUME TrayInv, [Next]_vars PROVE TrayInv'
    OBVIOUS
  <2>1. ASSUME UNCHANGED trayOnly, up' \in BOOLEAN, disturbances' \in 0..MaxDisturbances, RowsGo
        PROVE  TrayInv'
    <3>1. CardsGo
      BY <2>1, SameCards DEF trayOnly, window
    <3>. QED
      BY <2>1, <3>1, Preserved DEF trayOnly, window, TrayInv, TypeOK
  <2>2. CASE UNCHANGED vars
    BY <2>1, <2>2, SameRows DEF vars, TrayInv, TypeOK
  <2>3. CASE \E p \in Procs : StartRun(p) \/ EndRun(p) \/ FailStart(p) \/ FailEnd(p) \/ Kill(p)
    BY <2>1, <2>3, JobStep
  <2>. QED
    BY <2>2, <2>3, TrayStep, AnswerStep DEF Next
<1>. QED
  BY <1>1, <1>2, PTL DEF Spec

\* Type correctness of the tray and of the rows it shows.
THEOREM TrayTypeCorrect == Spec => []TypeOK
BY TrayInvariance, PTL DEF TrayInv

\* However old a card is, what it shows as completed or failed has that
\* result, or no row any more.
THEOREM ShownResultsAreTrue == Spec => []ResultsShownTruly
BY TrayInvariance, PTL DEF TrayInv
-----------------------------------------------------------------------------
(***************************************************************************)
(* What makes a window misjudge the newest running row.                    *)
(***************************************************************************)
\* The cards are not filled by that step, so the row was running before, and
\* behind a newer one; no step but an answer takes that one alone away.
LEMMA MisjudgedBehindNewer ==
  ASSUME TrayInv, RowsGo, CardsGo, NEW w \in Windows, NEW i \in RunIds,
         Misjudges(w, i)', ~Misjudges(w, i)
  PROVE  /\ ~CardsFilled(w)
         /\ rows'[i] = "Running"
         /\ \E j \in RunIds : i < j /\ rows[j] # "Absent" /\ rows'[j] = "Absent"
<1>1. /\ rows'[i] = "Running" /\ Newest(rows', i)
      /\ windowSampled'[w] /\ shown'[w][i] = "Interrupted"
  BY DEF Misjudges, Newest
<1>2. ~CardsFilled(w)
  <2>1. Shown(rows', windowSampled'[w], i) = "Running"
    BY <1>1 DEF Shown
  <2>. QED
    BY <1>1, <2>1 DEF CardsFilled
<1>3. shown[w][i] = "Interrupted" /\ windowSampled[w]
  BY <1>1, <1>2 DEF CardsGo, CardsKept, CardsForgotten
<1>4. i < nextRun
  BY <1>3 DEF TrayInv, TypeOK, RowsAreFresh, RunIds
<1>5. rows[i] = "Running"
  BY <1>1, <1>4 DEF RowsGo
<1>6. PICK j \in RunIds : j > i /\ rows[j] # "Absent"
  BY <1>3, <1>5 DEF Misjudges, Newest
<1>7. i < j /\ rows'[j] = "Absent"
  BY <1>1, <1>6 DEF Newest, RunIds
<1>. QED
  BY <1>1, <1>2, <1>6, <1>7

\* A window that saw the mutex comes to offer the newest running row only by
\* a deletion in the other window, or in its own with the refill failing.
THEOREM OffersOnlyAfterDeletion == Spec => OnlyDeletionsMislead
<1> DEFINE Misled(w, i) == Misjudges(w, i)' /\ ~Misjudges(w, i) =>
                 \E v \in Windows : DeletedNewer(v, i) /\ (v # w \/ disturbances' # disturbances)
<1>1. ASSUME TrayInv, [Next]_vars, NEW w \in Windows, NEW i \in RunIds
      PROVE  Misled(w, i)
  <2>. SUFFICES ASSUME Misjudges(w, i)', ~Misjudges(w, i)
                PROVE  \E v \in Windows :
                         DeletedNewer(v, i) /\ (v # w \/ disturbances' # disturbances)
    OBVIOUS
  <2>1. ASSUME RowsGo, OldestFirst, CardsGo PROVE FALSE
    BY <1>1, <2>1, MisjudgedBehindNewer DEF OldestFirst
  <2>2. CASE UNCHANGED vars
    <3>1. UNCHANGED <<history, windowSampled, shown>>
      BY <2>2 DEF vars, trayOnly, window
    <3>. QED
      BY <1>1, <2>1, <3>1, SameRows, SameCards
  <2>3. CASE \E p \in Procs : StartRun(p) \/ EndRun(p) \/ FailStart(p) \/ FailEnd(p) \/ Kill(p)
    <3>1. RowsGo /\ OldestFirst /\ UNCHANGED <<windowSampled, shown>>
      BY <1>1, <2>3, JobStep DEF trayOnly, window
    <3>. QED
      BY <1>1, <2>1, <3>1, SameCards
  <2>4. CASE \/ StartBackground \/ Refresh \/ Display \/ FailDisplay
             \/ \E v \in Windows :
                  ShowSummary(v) \/ Hide(v) \/ \E j \in RunIds : RequestDelete(v, j)
    BY <1>1, <2>1, <2>4, TrayStep, SameRows
  <2>5. CASE \E v \in Windows : AnswerDelete(v) \/ FailAnswer(v)
    <3>1. PICK v \in Windows : AnswerDelete(v) \/ FailAnswer(v)
      BY <2>5
    <3>2. CardsGo /\ asking'[v] = 0
      BY <1>1, <3>1, AnswerStep
    <3>3. Delete(asking[v]) /\ (CardsFilled(v) \/ disturbances' # disturbances)
      BY <1>1, <2>1, <3>1, <3>2, AnswerStep, SameRows
    <3>4. asking[v] \in RunIds
      BY <1>1, <3>1 DEF AnswerDelete, FailAnswer, TrayInv, TypeOK, RunIds
    <3>5. RowsGo
      BY <1>1, <3>3, <3>4, DeleteRows
    <3>6. PICK j \in RunIds : i < j /\ rows[j] # "Absent" /\ rows'[j] = "Absent"
      BY <1>1, <3>2, <3>5, MisjudgedBehindNewer
    <3>7. j = asking[v]
      BY <1>1, <3>3, <3>6 DEF Delete, TrayInv, TypeOK
    <3>8. DeletedNewer(v, i)
      BY <3>2, <3>6, <3>7 DEF DeletedNewer, RunIds
    <3>9. ~CardsFilled(w)
      BY <1>1, <3>2, <3>5, MisjudgedBehindNewer
    <3>. QED
      BY <3>3, <3>8, <3>9
  <2>. QED
    BY <1>1, <2>2, <2>3, <2>4, <2>5 DEF Next
<1>2. TrayInv /\ [Next]_vars => \A w \in Windows, i \in RunIds : Misled(w, i)
  BY <1>1
<1>. QED
  BY <1>2, TrayInvariance, PTL DEF Spec, OnlyDeletionsMislead
=============================================================================
