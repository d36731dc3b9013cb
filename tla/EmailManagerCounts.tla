--------------------------- MODULE EmailManagerCounts ---------------------------
(***************************************************************************)
(* The numbers in the history of runs are right.                           *)
(*                                                                         *)
(* A run counts in memory and its row follows, so what a row says is       *)
(* bounded through what its run has counted: a completed run accounts for  *)
(* the emails it read (RunsAccount), no run counts an import Gmail did not *)
(* receive (ImportsCovered), and a single process counts no email that has *)
(* not left the inbox (MovesCovered).                                      *)
(***************************************************************************)
EXTENDS EmailManagerProofs, SumFunctionLemmas

USE ProcsAssumption, MessagesAssumption, BoundsAssumption

LEMMA RunIdsFinite == IsFiniteSet(RunIds)
BY FS_Interval DEF RunIds

(***************************************************************************)
(* A completed run accounts for the emails it read.                        *)
(***************************************************************************)
Done(c) == c.imported + c.alreadyPresent + c.pending

\* Unless it is failing, a run has counted every email of its batch that is
\* not left to do, the one at its finally block included.
AccountsFor(p) ==
  /\ IsFiniteSet(todo[p])
  /\ pc[p] \in {"idle", "read"} => todo[p] = {} /\ counts[p] = Zero
  /\ failing[p] => pc[p] \in {"updateEmail", "complete"}
  /\ ~failing[p] =>
       counts[p].sourceCount + (IF pc[p] = "updateEmail" THEN 1 ELSE 0)
         = Done(counts[p]) + Cardinality(todo[p])
  /\ ~failing[p] /\ pc[p] \in {"finish", "complete"} => todo[p] = {}
  /\ IF dryRun[p] THEN counts[p].imported = 0 ELSE counts[p].pending = 0

\* The row of a run says whether it is dry.
RowMarked(p) ==
  Live(p) /\ jobRuns[run[p]].status # "Absent" => jobRuns[run[p]].dryRun = dryRun[p]

RunsAccount == \A p \in Procs : AccountsFor(p) /\ RowMarked(p)

AccountsLocals(p) == <<pc[p], todo[p], counts[p], found[p], failing[p], dryRun[p]>>

\* A step of p leaves the others where they are.
LEMMA OthersAccount ==
  ASSUME NEW p \in Procs, AccountsFor(p), AccountsLocals(p)' = AccountsLocals(p)
  PROVE  AccountsFor(p)'
BY DEF AccountsFor, AccountsLocals

\* The ways control leaves an operation.
LEMMA ThrowAccounts ==
  ASSUME TypeOK, NEW p \in Procs, AccountsFor(p), pc[p] # "idle", Throw(p)
  PROVE  AccountsFor(p)'
<1>1. /\ pc'[p] \in {"updateEmail", "complete"} /\ failing'[p] = TRUE
      /\ UNCHANGED <<todo, counts, dryRun>>
  BY DEF Throw, TypeOK, LocalsOK, EmailSteps
<1>. QED
  BY <1>1 DEF AccountsFor

LEMMA GotoAccounts ==
  ASSUME TypeOK, NEW p \in Procs, AccountsFor(p), NEW step,
         pc[p] \notin {"idle", "read", "updateEmail", "complete"},
         step \notin {"idle", "read", "updateEmail"},
         step \in {"finish", "complete"} => todo[p] = {},
         Goto(p, step)
  PROVE  AccountsFor(p)'
<1>1. pc'[p] = step /\ UNCHANGED <<todo, counts, dryRun, failing>>
  BY DEF Goto, TypeOK, LocalsOK
<1>2. ~failing[p]
  BY DEF AccountsFor
<1>. QED
  BY <1>1, <1>2 DEF AccountsFor

LEMMA OutcomeAccounts ==
  ASSUME TypeOK, NEW p \in Procs, AccountsFor(p), pc[p] \in EmailSteps,
         NEW counter \in {"imported", "alreadyPresent", "pending"},
         counter = "imported" => ~dryRun[p], counter = "pending" => dryRun[p],
         Outcome(p, counter)
  PROVE  AccountsFor(p)'
<1>1. /\ pc'[p] = "updateEmail" /\ UNCHANGED <<todo, dryRun, failing>>
      /\ counts'[p] = [counts[p] EXCEPT ![counter] = @ + 1]
  BY DEF Outcome, TypeOK, LocalsOK
<1>2. counts[p] \in Counts
  BY DEF TypeOK, LocalsOK
<1>3. /\ counts'[p].sourceCount = counts[p].sourceCount
      /\ Done(counts'[p]) = Done(counts[p]) + 1
      /\ IF dryRun[p] THEN counts'[p].imported = counts[p].imported
                      ELSE counts'[p].pending = counts[p].pending
  BY <1>1, <1>2 DEF Done, Counts
<1>4. Cardinality(todo[p]) \in Nat /\ Done(counts[p]) \in Nat /\ ~failing[p]
  BY <1>2, FS_CardinalityType DEF AccountsFor, EmailSteps, Done, Counts
<1>5. counts[p].sourceCount = Done(counts[p]) + Cardinality(todo[p])
  BY <1>2, <1>4 DEF AccountsFor, EmailSteps, Counts
<1>6. counts'[p].sourceCount + 1 = Done(counts'[p]) + Cardinality(todo[p])
  BY <1>2, <1>3, <1>4, <1>5 DEF Counts
<1>. QED
  BY <1>1, <1>3, <1>4, <1>6 DEF AccountsFor

LEMMA EndRunAccounts ==
  ASSUME TypeOK, NEW p \in Procs, EndRun(p)
  PROVE  AccountsFor(p)' /\ ~Live(p)'
<1>1. /\ pc'[p] = "idle" /\ todo'[p] = {} /\ counts'[p] = Zero /\ dryRun'[p] = FALSE
      /\ failing'[p] = FALSE
  BY DEF EndRun, TypeOK, LocalsOK
<1>2. IsFiniteSet({}) /\ Cardinality({}) = 0
  BY FS_EmptySet
<1>3. Zero.sourceCount = 0 /\ Done(Zero) = 0 /\ Zero.pending = 0 /\ Zero.imported = 0
  BY DEF Zero, Done
<1>. QED
  BY <1>1, <1>2, <1>3 DEF AccountsFor, Live

LEMMA ReadAccounts ==
  ASSUME TypeOK, NEW p \in Procs, AccountsFor(p), ReadSource(p)
  PROVE  AccountsFor(p)'
<1>1. CASE Throw(p)
  BY <1>1, ThrowAccounts DEF ReadSource
<1>2. CASE ~Throw(p)
  <2>1. PICK limit \in BatchLimits :
          /\ pc[p] = "read"
          /\ pc' = [pc EXCEPT ![p] = "updateSource"]
          /\ todo' = [todo EXCEPT ![p] = ReadBatch(limit)]
          /\ counts' = [counts EXCEPT ![p]["sourceCount"] = Cardinality(ReadBatch(limit))]
          /\ UNCHANGED <<run, dryRun, found, failing>>
    BY <1>2 DEF ReadSource, Measured
  <2>2. IsFiniteSet(ReadBatch(limit)) /\ Cardinality(ReadBatch(limit)) \in Nat
    BY ReadBatchType DEF TypeOK, StoresOK
  <2>3. counts[p] = Zero /\ ~failing[p]
    BY <2>1 DEF AccountsFor
  <2>4. /\ pc'[p] = "updateSource" /\ todo'[p] = ReadBatch(limit)
        /\ counts'[p] = [counts[p] EXCEPT !["sourceCount"] = Cardinality(ReadBatch(limit))]
        /\ UNCHANGED <<dryRun, failing>>
    BY <2>1 DEF TypeOK, LocalsOK
  <2>. DEFINE n == Cardinality(ReadBatch(limit))
  <2>5. /\ counts'[p].sourceCount = n /\ counts'[p].imported = 0
        /\ counts'[p].alreadyPresent = 0 /\ counts'[p].pending = 0
    BY <2>3, <2>4 DEF Zero
  <2>6. Done(counts'[p]) = 0
    BY <2>5 DEF Done
  <2>. QED
    BY <2>2, <2>3, <2>4, <2>5, <2>6 DEF AccountsFor
<1>. QED
  BY <1>1, <1>2

LEMMA UpdateEmailAccounts ==
  ASSUME TypeOK, NEW p \in Procs, AccountsFor(p), UpdateEmail(p)
  PROVE  AccountsFor(p)'
<1>1. CASE Throw(p)
  BY <1>1, ThrowAccounts DEF UpdateEmail
<1>2. CASE ~Throw(p)
  <2>1. PICK e \in todo[p] :
          /\ pc[p] = "updateEmail"
          /\ pc' = [pc EXCEPT ![p] =
                      IF failing[p] THEN "complete" ELSE LoopStep(todo[p] \ {e})]
          /\ todo' = [todo EXCEPT ![p] = @ \ {e}]
          /\ UNCHANGED <<run, dryRun, counts, failing>>
    BY <1>2 DEF UpdateEmail, Measured
  <2>2. /\ pc'[p] = IF failing[p] THEN "complete" ELSE LoopStep(todo[p] \ {e})
        /\ todo'[p] = todo[p] \ {e}
        /\ UNCHANGED <<dryRun, counts, failing>>
    BY <2>1 DEF TypeOK, LocalsOK
  <2>3. /\ IsFiniteSet(todo[p] \ {e})
        /\ Cardinality(todo[p] \ {e}) = Cardinality(todo[p]) - 1
        /\ Cardinality(todo[p]) \in Nat
    BY FS_RemoveElement, FS_CardinalityType DEF AccountsFor
  <2>4. counts[p].sourceCount \in Nat /\ Done(counts[p]) \in Nat
    BY DEF TypeOK, LocalsOK, Counts, Done
  <2>5. ~failing[p] => counts[p].sourceCount + 1 = Done(counts[p]) + Cardinality(todo[p])
    BY <2>1 DEF AccountsFor
  <2>6. ~failing[p] => counts[p].sourceCount = Done(counts[p]) + Cardinality(todo[p] \ {e})
    BY <2>3, <2>4, <2>5
  <2>7. ~failing[p] => counts[p].sourceCount + 0 = Done(counts[p]) + Cardinality(todo[p] \ {e})
    BY <2>4, <2>6
  <2>. QED
    BY <2>2, <2>3, <2>7 DEF AccountsFor, LoopStep
<1>. QED
  BY <1>1, <1>2

LEMMA RunStepAccounts ==
  ASSUME TypeOK, DryRunsInspect, NEW p \in Procs, AccountsFor(p), RunStep(p)
  PROVE  AccountsFor(p)'
<1>1. CASE CompleteRun(p)
  BY <1>1, EndRunAccounts DEF CompleteRun
<1>2. CASE UpdateSource(p) \/ Finish(p)
  <2>1. \/ Throw(p)
        \/ pc[p] = "updateSource" /\ Goto(p, LoopStep(todo[p]))
        \/ pc[p] = "finish" /\ Goto(p, "complete")
    BY <1>2 DEF UpdateSource, Finish, Measured
  <2>2. pc[p] # "idle" /\ (pc[p] = "finish" /\ ~failing[p] => todo[p] = {})
    BY <1>2 DEF UpdateSource, Finish, AccountsFor
  <2>3. pc[p] = "finish" => ~failing[p]
    BY DEF AccountsFor
  <2>. QED
    BY <2>1, <2>2, <2>3, ThrowAccounts, GotoAccounts DEF LoopStep
<1>3. CASE StateLookup(p) \/ DestinationLookup(p)
  <2>1. /\ pc[p] \in EmailSteps /\ pc[p] \notin {"idle", "read", "updateEmail", "complete"}
        /\ \/ Throw(p)
           \/ \E step \in {"sourceArchive", "stateWrite"} : Present(p, step)
           \/ Goto(p, "destinationLookup")
           \/ NotPresent(p)
    BY <1>3 DEF StateLookup, DestinationLookup, Measured, EmailSteps
  <2>2. ASSUME NEW step \in {"sourceArchive", "stateWrite"}, Present(p, step), ~dryRun[p]
        PROVE  AccountsFor(p)'
    <3>1. pc'[p] = step /\ UNCHANGED <<todo, counts, dryRun, failing>>
      BY <2>2 DEF Present, TypeOK, LocalsOK
    <3>2. ~failing[p]
      BY <2>1 DEF AccountsFor
    <3>. QED
      BY <2>1, <3>1, <3>2 DEF AccountsFor
  <2>3. ASSUME NEW step, Present(p, step), dryRun[p]
        PROVE  AccountsFor(p)'
    BY <2>1, <2>3, OutcomeAccounts DEF Present
  <2>4. CASE NotPresent(p)
    <3>1. CASE dryRun[p]
      BY <2>1, <2>4, <3>1, OutcomeAccounts DEF NotPresent
    <3>2. CASE ~dryRun[p]
      BY <2>1, <2>4, <3>2, GotoAccounts DEF NotPresent
    <3>. QED
      BY <3>1, <3>2
  <2>. QED
    BY <2>1, <2>2, <2>3, <2>4, ThrowAccounts, GotoAccounts
<1>4. CASE Import(p) \/ StateWrite(p) \/ SourceArchive(p)
  <2>1. /\ pc[p] \in EmailSteps /\ pc[p] \notin {"idle", "read", "updateEmail", "complete"}
        /\ ~dryRun[p]
        /\ \/ Throw(p)
           \/ \E step \in {"sourceArchive", "stateWrite"} : Goto(p, step)
           \/ Outcome(p, IF found[p] THEN "alreadyPresent" ELSE "imported")
    BY <1>4 DEF Import, StateWrite, SourceArchive, Measured, EmailSteps, DryRunsInspect
  <2>. QED
    BY <2>1, ThrowAccounts, GotoAccounts, OutcomeAccounts
<1>. QED
  BY <1>1, <1>2, <1>3, <1>4, ReadAccounts, UpdateEmailAccounts DEF RunStep
\* A run touches nothing of the others, and rows keep their mark.
LEMMA RunStepOthers ==
  ASSUME TypeOK, NEW p \in Procs, RunStep(p)
  PROVE  \A q \in Procs \ {p} : AccountsLocals(q)' = AccountsLocals(q) /\ run'[q] = run[q]
<1>1. CASE ReadSource(p) \/ UpdateSource(p) \/ UpdateEmail(p) \/ Finish(p) \/ CompleteRun(p)
  BY <1>1 DEF ReadSource, UpdateSource, UpdateEmail, Finish, CompleteRun, Measured, Throw,
     Goto, EndRun, AccountsLocals, TypeOK, LocalsOK
<1>2. CASE StateLookup(p) \/ DestinationLookup(p)
  BY <1>2 DEF StateLookup, DestinationLookup, Measured, Throw, Goto, Present, NotPresent,
     Outcome, AccountsLocals, TypeOK, LocalsOK
<1>3. CASE Import(p) \/ StateWrite(p) \/ SourceArchive(p)
  BY <1>3 DEF Import, StateWrite, SourceArchive, Measured, Throw, Goto, Outcome,
     AccountsLocals, TypeOK, LocalsOK
<1>. QED
  BY <1>1, <1>2, <1>3 DEF RunStep

LEMMA RunStepRows ==
  ASSUME TypeOK, HistoryInv, NEW p \in Procs, RunStep(p)
  PROVE  /\ UNCHANGED jobRuns \/ \E status : UpdateRow(p, status)
         /\ \A i \in RunIds : jobRuns'[i].status # "Absent" =>
              jobRuns[i].status # "Absent" /\ jobRuns'[i].dryRun = jobRuns[i].dryRun
<1>1. UNCHANGED jobRuns \/ \E status : UpdateRow(p, status)
  <2>1. CASE CompleteRun(p)
    BY <2>1 DEF CompleteRun, stores
  <2>2. CASE ~CompleteRun(p)
    BY <2>2, InnerStep DEF UpdateRun
  <2>. QED
    BY <2>1, <2>2
<1>2. ASSUME NEW status, UpdateRow(p, status), NEW i \in RunIds, jobRuns'[i].status # "Absent"
      PROVE  jobRuns[i].status # "Absent" /\ jobRuns'[i].dryRun = jobRuns[i].dryRun
  BY <1>2 DEF UpdateRow, TypeOK, StoresOK
<1>. QED
  BY <1>1, <1>2

LEMMA RunStepMarks ==
  ASSUME TypeOK, HistoryInv, RunsAccount, NEW p \in Procs, RunStep(p), NEW q \in Procs
  PROVE  RowMarked(q)'
<1>. SUFFICES ASSUME Live(q)', jobRuns'[run'[q]].status # "Absent"
              PROVE  jobRuns'[run'[q]].dryRun = dryRun'[q]
  BY DEF RowMarked
<1>1. Live(q) /\ run'[q] = run[q] /\ dryRun'[q] = dryRun[q]
  <2>1. CASE q # p
    BY <2>1, RunStepOthers DEF AccountsLocals, Live
  <2>2. CASE q = p /\ ~CompleteRun(p)
    <3>1. dryRun'[p] = dryRun[p]
      BY <2>2 DEF RunStep, ReadSource, UpdateSource, UpdateEmail, Finish, StateLookup,
         DestinationLookup, Import, StateWrite, SourceArchive, Measured, Throw, Goto,
         Present, NotPresent, Outcome
    <3>. QED
      BY <2>2, <3>1, InnerStep
  <2>3. CASE q = p /\ CompleteRun(p)
    BY <2>3, EndRunAccounts DEF CompleteRun
  <2>. QED
    BY <2>1, <2>2, <2>3
<1>2. run[q] \in RunIds
  BY <1>1 DEF HistoryInv, RowsAreOwned
<1>. QED
  BY <1>1, <1>2, RunStepRows DEF RunsAccount, RowMarked

LEMMA StartRunAccounts ==
  ASSUME TypeOK, HistoryInv, RunsAccount, NEW p \in Procs, NEW dry \in BOOLEAN, StartRun(p, dry)
  PROVE  RunsAccount'
<1>1. PICK cutoff \in Cutoffs :
        \/ /\ InsertRow(p, dry, cutoff)
           /\ \/ UNCHANGED locals
              \/ Begin(p, dry, "read", FALSE)
              \/ Begin(p, dry, "complete", TRUE)
        \/ jobRuns' = Purged(cutoff) /\ UNCHANGED locals
  BY DEF StartRun
<1>2. NoRow.status = "Absent"
  BY DEF NoRow
<1>3. nextRun \in RunIds /\ pc[p] = "idle"
  BY DEF StartRun, TypeOK, StoresOK, RunIds
<1>4. \A q \in Procs : Live(q) => run[q] \in RunIds /\ run[q] # nextRun
  BY DEF HistoryInv, RowsAreOwned, RunIds
<1>5. ASSUME NEW i \in RunIds \ {nextRun}, jobRuns'[i].status # "Absent"
      PROVE  jobRuns[i].status # "Absent" /\ jobRuns'[i].dryRun = jobRuns[i].dryRun
  BY <1>1, <1>2, <1>5 DEF InsertRow, Purged
<1>6. ASSUME NEW q \in Procs, UNCHANGED locals \/ q # p
      PROVE  AccountsFor(q)' /\ RowMarked(q)'
  <2>1. AccountsLocals(q)' = AccountsLocals(q) /\ run'[q] = run[q]
    BY <1>1, <1>6 DEF locals, Begin, AccountsLocals, TypeOK, LocalsOK
  <2>2. AccountsFor(q)'
    BY <2>1, OthersAccount DEF RunsAccount
  <2>3. RowMarked(q)'
    BY <1>4, <1>5, <2>1 DEF RunsAccount, RowMarked, Live, AccountsLocals
  <2>. QED
    BY <2>2, <2>3
<1>7. ASSUME ~UNCHANGED locals
      PROVE  AccountsFor(p)' /\ RowMarked(p)'
  <2>1. /\ InsertRow(p, dry, cutoff)
        /\ Begin(p, dry, "read", FALSE) \/ Begin(p, dry, "complete", TRUE)
    BY <1>1, <1>7
  <2>2. /\ run'[p] = nextRun /\ dryRun'[p] = dry /\ UNCHANGED <<todo, counts>>
        /\ \/ pc'[p] = "read" /\ ~failing'[p]
           \/ pc'[p] = "complete" /\ failing'[p]
    BY <2>1 DEF Begin, TypeOK, LocalsOK
  <2>3. jobRuns'[nextRun].dryRun = dry
    BY <1>3, <2>1 DEF InsertRow, Purged
  <2>4. todo[p] = {} /\ counts[p] = Zero /\ Cardinality({}) = 0 /\ IsFiniteSet({})
    BY <1>3, FS_EmptySet DEF RunsAccount, AccountsFor
  <2>5. Zero.sourceCount = 0 /\ Done(Zero) = 0 /\ Zero.pending = 0 /\ Zero.imported = 0
    BY DEF Zero, Done
  <2>6. AccountsFor(p)'
    BY <2>2, <2>4, <2>5 DEF AccountsFor
  <2>7. RowMarked(p)'
    BY <2>2, <2>3 DEF RowMarked
  <2>. QED
    BY <2>6, <2>7
<1>. QED
  BY <1>6, <1>7 DEF RunsAccount

LEMMA OthersAccounts ==
  ASSUME TypeOK, HistoryInv, RunsAccount,
         \/ \E p \in Procs : Crash(p)
         \/ \E m \in Msgs : Deliver(m)
         \/ ResetUidValidity
         \/ \E i \in RunIds : DeleteRun(i)
         \/ UNCHANGED vars
  PROVE  RunsAccount'
<1>1. \A q \in Procs : Live(q) => run[q] \in RunIds
  BY DEF HistoryInv, RowsAreOwned
<1>2. ASSUME NEW p \in Procs, Crash(p)
      PROVE  RunsAccount'
  <2>1. AccountsFor(p)' /\ ~Live(p)' /\ UNCHANGED jobRuns
    BY <1>2, EndRunAccounts DEF Crash, stores
  <2>2. \A q \in Procs \ {p} : AccountsLocals(q)' = AccountsLocals(q) /\ run'[q] = run[q]
    BY <1>2 DEF Crash, EndRun, AccountsLocals, TypeOK, LocalsOK
  <2>3. \A q \in Procs \ {p} : AccountsFor(q)'
    BY <2>2, OthersAccount DEF RunsAccount
  <2>4. \A q \in Procs : RowMarked(q)'
    BY <2>1, <2>2 DEF RunsAccount, RowMarked, Live, AccountsLocals
  <2>. QED
    BY <2>1, <2>3, <2>4 DEF RunsAccount
<1>3. ASSUME UNCHANGED locals,
             \A i \in RunIds : jobRuns'[i] = jobRuns[i] \/ jobRuns'[i].status = "Absent"
      PROVE  RunsAccount'
  <2>1. \A q \in Procs : AccountsFor(q)'
    BY <1>3, OthersAccount DEF RunsAccount, locals, AccountsLocals
  <2>2. \A q \in Procs : RowMarked(q)'
    BY <1>1, <1>3 DEF RunsAccount, RowMarked, Live, locals
  <2>. QED
    BY <2>1, <2>2 DEF RunsAccount
<1>4. CASE (\E m \in Msgs : Deliver(m)) \/ ResetUidValidity \/ UNCHANGED vars
  BY <1>3, <1>4 DEF Deliver, ResetUidValidity, vars, stores
<1>5. ASSUME NEW i \in RunIds, DeleteRun(i) PROVE RunsAccount'
  BY <1>3, <1>5 DEF DeleteRun, NoRow, TypeOK, StoresOK
<1>. QED
  BY <1>2, <1>4, <1>5

LEMMA AccountsInvariance == Spec => []RunsAccount
<1>1. Init => RunsAccount
  <2>. SUFFICES ASSUME Init, NEW p \in Procs PROVE AccountsFor(p) /\ RowMarked(p)
    BY DEF RunsAccount
  <2>1. /\ pc[p] = "idle" /\ todo[p] = {} /\ counts[p] = Zero /\ dryRun[p] = FALSE
        /\ failing[p] = FALSE
    BY DEF Init
  <2>2. IsFiniteSet({}) /\ Cardinality({}) = 0
    BY FS_EmptySet
  <2>3. Zero.sourceCount = 0 /\ Done(Zero) = 0 /\ Zero.pending = 0 /\ Zero.imported = 0
    BY DEF Zero, Done
  <2>. QED
    BY <2>1, <2>2, <2>3 DEF AccountsFor, RowMarked, Live
<1>2. TypeOK /\ HistoryInv /\ DryRunsInspect /\ RunsAccount /\ [Next]_vars => RunsAccount'
  <2>. SUFFICES ASSUME TypeOK, HistoryInv, DryRunsInspect, RunsAccount, [Next]_vars
                PROVE  RunsAccount'
    OBVIOUS
  <2>1. ASSUME NEW p \in Procs, RunStep(p) PROVE RunsAccount'
    BY <2>1, RunStepAccounts, RunStepOthers, OthersAccount, RunStepMarks DEF RunsAccount
  <2>. QED
    BY <2>1, StartRunAccounts, OthersAccounts DEF Next
<1>. QED
  BY <1>1, <1>2, TypeCorrect, HistoryInvariance, DryInvariance, PTL DEF Spec

\* A run shown as completed accounts for every email it read, however many
\* processes run and whatever else fails, is killed or deleted.
THEOREM CompletedRunsAccount == Spec => []CompletedRunAccounts
<1>1. Init => CompletedRunAccounts
  BY DEF Init, CompletedRunAccounts, NoRow
<1>2. TypeOK /\ HistoryInv /\ RunsAccount /\ CompletedRunAccounts /\ [Next]_vars
        => CompletedRunAccounts'
  <2>. SUFFICES ASSUME TypeOK, HistoryInv, RunsAccount, CompletedRunAccounts, [Next]_vars,
                       NEW i \in RunIds, jobRuns'[i].status = "Completed"
                PROVE  LET c == jobRuns'[i].counts IN
                         /\ c.sourceCount = c.imported + c.alreadyPresent + c.pending
                         /\ IF jobRuns'[i].dryRun THEN c.imported = 0 ELSE c.pending = 0
    BY DEF CompletedRunAccounts
  <2>1. CASE jobRuns'[i] = jobRuns[i]
    BY <2>1 DEF CompletedRunAccounts
  <2>2. ASSUME NEW p \in Procs, RunStep(p), jobRuns'[i] # jobRuns[i]
        PROVE  /\ CompleteRun(p) /\ run[p] = i /\ ~failing[p] /\ jobRuns'[i].counts = counts[p]
               /\ jobRuns'[i].dryRun = dryRun[p]
    <3>1. i = run[p]
      BY <2>2, RunStepRows, UpdateRowEffect
    <3>2. Live(p)
      BY <2>2, InnerStep DEF CompleteRun, Live
    <3>3. jobRuns[i].status \in {"Running", "Absent"}
      BY <3>1, <3>2 DEF HistoryInv, RowsAreOwned
    <3>4. CompleteRun(p)
      <4>1. CASE ~CompleteRun(p)
        <5>1. jobRuns'[i].status = jobRuns[i].status
          BY <2>2, <4>1, InnerStep, UpdateRunEffect
        <5>. QED
          BY <3>3, <5>1
      <4>. QED
        BY <4>1
    <3>5. UpdateRow(p, IF failing[p] THEN "Failed" ELSE "Completed")
      BY <2>2, <3>4 DEF CompleteRun, stores
    <3>6. /\ jobRuns[i].status # "Absent" /\ ~failing[p]
          /\ jobRuns'[i].counts = counts[p] /\ jobRuns'[i].dryRun = jobRuns[i].dryRun
      BY <2>2, <3>1, <3>5 DEF UpdateRow, TypeOK, StoresOK
    <3>7. jobRuns[i].dryRun = dryRun[p]
      BY <3>1, <3>2, <3>6 DEF RunsAccount, RowMarked
    <3>. QED
      BY <3>1, <3>4, <3>6, <3>7
  <2>3. ASSUME NEW p \in Procs, NEW dry \in BOOLEAN, StartRun(p, dry)
        PROVE  jobRuns'[i] = jobRuns[i]
    <3>1. PICK cutoff : InsertRow(p, dry, cutoff) \/ jobRuns' = Purged(cutoff)
      BY <2>3 DEF StartRun
    <3>2. jobRuns'[nextRun].status = "Running" \/ jobRuns' = Purged(cutoff)
      BY <2>3, <3>1 DEF StartRun, InsertRow, Purged, TypeOK, StoresOK, RunIds
    <3>3. jobRuns'[i] = jobRuns[i] \/ jobRuns'[i] = NoRow
      BY <3>1, <3>2 DEF InsertRow, Purged
    <3>. QED
      BY <3>3 DEF NoRow
  <2>4. CASE \/ \E p \in Procs : Crash(p)
             \/ \E m \in Msgs : Deliver(m)
             \/ ResetUidValidity
             \/ UNCHANGED vars
    BY <2>1, <2>4 DEF Crash, Deliver, ResetUidValidity, vars, stores
  <2>5. ASSUME NEW j \in RunIds, DeleteRun(j)
        PROVE  jobRuns'[i] = jobRuns[i]
    BY <2>5 DEF DeleteRun, NoRow, TypeOK, StoresOK
  <2>6. ASSUME NEW p \in Procs, RunStep(p), jobRuns'[i] # jobRuns[i]
        PROVE  LET c == jobRuns'[i].counts IN
                 /\ c.sourceCount = c.imported + c.alreadyPresent + c.pending
                 /\ IF jobRuns'[i].dryRun THEN c.imported = 0 ELSE c.pending = 0
    <3>1. /\ pc[p] = "complete" /\ ~failing[p] /\ jobRuns'[i].counts = counts[p]
          /\ jobRuns'[i].dryRun = dryRun[p]
      BY <2>2, <2>6 DEF CompleteRun
    <3>2. todo[p] = {} /\ counts[p].sourceCount + 0 = Done(counts[p]) + Cardinality(todo[p])
      BY <3>1 DEF RunsAccount, AccountsFor
    <3>3. Cardinality({}) = 0
      BY FS_EmptySet
    <3>4. counts[p] \in Counts
      BY DEF TypeOK, LocalsOK
    <3>5. counts[p].sourceCount = counts[p].imported + counts[p].alreadyPresent + counts[p].pending
      BY <3>2, <3>3, <3>4 DEF Done, Counts
    <3>6. IF dryRun[p] THEN counts[p].imported = 0 ELSE counts[p].pending = 0
      BY DEF RunsAccount, AccountsFor
    <3>. QED
      BY <3>1, <3>5, <3>6
  <2>. QED
    BY <2>1, <2>3, <2>4, <2>5, <2>6 DEF Next
<1>. QED
  BY <1>1, <1>2, TypeCorrect, HistoryInvariance, AccountsInvariance, PTL DEF Spec
-----------------------------------------------------------------------------
(***************************************************************************)
(* No import is reported that Gmail did not receive.                       *)
(***************************************************************************)
\* An email that p imported and has not counted yet.
Credit(p) == IF pc[p] \in {"stateWrite", "sourceArchive"} /\ ~found[p] THEN 1 ELSE 0

\* a[i] of the copies Gmail holds are imports of run i, enough for what the
\* row says and for what the run has counted or still may.
Covers(a) ==
  /\ a \in [RunIds -> Nat]
  /\ SumFunction(a) <= SumFunction(gmail)
  /\ \A i \in RunIds : jobRuns[i].counts.imported <= a[i]
  /\ \A p \in Procs : Live(p) => counts[p].imported + Credit(p) <= a[run[p]]

ImportsCovered == \E a : Covers(a)

LEMMA ZeroCounts ==
  /\ Zero.imported = 0 /\ Zero.alreadyPresent = 0
  /\ NoRow.counts = Zero /\ NoRow.dryRun = FALSE /\ NoRow.status = "Absent"
BY DEF Zero, NoRow

LEMMA CountTypes ==
  ASSUME TypeOK
  PROVE  /\ \A p \in Procs : /\ counts[p].imported \in Nat /\ counts[p].alreadyPresent \in Nat
                             /\ Credit(p) \in Nat
         /\ \A i \in RunIds : /\ jobRuns[i].counts.imported \in Nat
                              /\ jobRuns[i].counts.alreadyPresent \in Nat
BY DEF TypeOK, StoresOK, LocalsOK, Rows, Counts, Credit

\* Only an import earns a run the right to count one.
LEMMA CreditFalls ==
  ASSUME TypeOK, NEW p \in Procs, RunStep(p), ~Import(p), ~CompleteRun(p)
  PROVE  counts'[p].imported + Credit(p)' <= counts[p].imported + Credit(p)
<1>1. counts[p].imported \in Nat /\ Credit(p) \in {0, 1}
  BY CountTypes DEF Credit
<1>2. ASSUME counts'[p].imported = counts[p].imported, Credit(p)' = 0
      PROVE  counts'[p].imported + Credit(p)' <= counts[p].imported + Credit(p)
  BY <1>1, <1>2
<1>3. CASE Throw(p)
  <2>1. counts'[p] = counts[p] /\ Credit(p)' = 0
    BY <1>3 DEF Throw, Credit, TypeOK, LocalsOK
  <2>. QED
    BY <1>2, <2>1
<1>4. ASSUME NEW step, Goto(p, step), step \notin {"stateWrite", "sourceArchive"}
      PROVE  counts'[p].imported + Credit(p)' <= counts[p].imported + Credit(p)
  <2>1. counts'[p] = counts[p] /\ Credit(p)' = 0
    BY <1>4 DEF Goto, Credit, TypeOK, LocalsOK
  <2>. QED
    BY <1>2, <2>1
<1>5. ASSUME NEW counter \in {"alreadyPresent", "pending"}, Outcome(p, counter)
      PROVE  counts'[p].imported + Credit(p)' <= counts[p].imported + Credit(p)
  <2>1. counts'[p].imported = counts[p].imported /\ Credit(p)' = 0
    BY <1>5 DEF Outcome, Credit, TypeOK, LocalsOK, Counts
  <2>. QED
    BY <1>2, <2>1
<1>6. ASSUME NEW step, Present(p, step)
      PROVE  counts'[p].imported + Credit(p)' <= counts[p].imported + Credit(p)
  <2>1. CASE dryRun[p]
    BY <1>5, <1>6, <2>1 DEF Present
  <2>2. CASE ~dryRun[p]
    <3>1. counts'[p] = counts[p] /\ Credit(p)' = 0
      BY <1>6, <2>2 DEF Present, Credit, TypeOK, LocalsOK
    <3>. QED
      BY <1>2, <3>1
  <2>. QED
    BY <2>1, <2>2
<1>7. CASE ReadSource(p) \/ UpdateSource(p) \/ UpdateEmail(p) \/ Finish(p)
  <2>1. counts'[p].imported = counts[p].imported /\ Credit(p)' = 0
    BY <1>7 DEF ReadSource, UpdateSource, UpdateEmail, Finish, Measured, Throw, Goto,
       LoopStep, Credit, TypeOK, LocalsOK, Counts
  <2>. QED
    BY <1>2, <2>1
<1>8. CASE StateLookup(p) \/ DestinationLookup(p)
  <2>1. \/ Throw(p)
        \/ \E step : Present(p, step)
        \/ Goto(p, "destinationLookup")
        \/ Outcome(p, "pending")
        \/ Goto(p, "import")
    BY <1>8 DEF StateLookup, DestinationLookup, Measured, NotPresent
  <2>. QED
    BY <1>3, <1>4, <1>5, <1>6, <2>1
<1>9. CASE StateWrite(p)
  <2>1. Throw(p) \/ (Goto(p, "sourceArchive") /\ pc[p] = "stateWrite")
    BY <1>9 DEF StateWrite, Measured
  <2>2. CASE Goto(p, "sourceArchive") /\ pc[p] = "stateWrite"
    <3>1. counts'[p] = counts[p] /\ Credit(p)' = Credit(p)
      BY <2>2 DEF Goto, Credit, TypeOK, LocalsOK
    <3>. QED
      BY <1>1, <3>1
  <2>. QED
    BY <1>3, <2>1, <2>2
<1>10. CASE SourceArchive(p)
  <2>1. /\ pc[p] = "sourceArchive"
        /\ \/ Throw(p)
           \/ found[p] /\ Outcome(p, "alreadyPresent")
           \/ ~found[p] /\ Outcome(p, "imported")
    BY <1>10 DEF SourceArchive, Measured
  <2>2. CASE ~found[p] /\ Outcome(p, "imported")
    <3>1. counts'[p].imported = counts[p].imported + 1 /\ Credit(p)' = 0
      BY <2>2 DEF Outcome, Credit, TypeOK, LocalsOK, Counts
    <3>2. Credit(p) = 1
      BY <2>1, <2>2 DEF Credit
    <3>. QED
      BY <1>1, <3>1, <3>2
  <2>. QED
    BY <1>3, <1>5, <2>1, <2>2
<1>. QED
  BY <1>7, <1>8, <1>9, <1>10 DEF RunStep

\* What a run writes to its row is what it has counted.
LEMMA RowsFollow ==
  ASSUME TypeOK, HistoryInv, NEW p \in Procs, RunStep(p), NEW i \in RunIds
  PROVE  \/ jobRuns'[i].counts = jobRuns[i].counts /\ jobRuns'[i].dryRun = jobRuns[i].dryRun
         \/ /\ i = run[p] /\ Live(p) /\ jobRuns[i].status # "Absent"
            /\ jobRuns'[i].counts = counts[p] /\ jobRuns'[i].dryRun = jobRuns[i].dryRun
<1>1. Live(p)
  BY InnerStep DEF CompleteRun, Live
<1>2. run[p] \in RunIds
  BY <1>1 DEF HistoryInv, RowsAreOwned
<1>3. ASSUME NEW status, UpdateRow(p, status)
      PROVE  \/ jobRuns'[i] = jobRuns[i]
             \/ /\ i = run[p] /\ jobRuns[i].status # "Absent" /\ jobRuns'[i].counts = counts[p]
                /\ jobRuns'[i].dryRun = jobRuns[i].dryRun
  BY <1>2, <1>3 DEF UpdateRow, TypeOK, StoresOK
<1>. QED
  BY <1>1, <1>3, RunStepRows

LEMMA RunStepCovers ==
  ASSUME TypeOK, TypeOK', HistoryInv, ImportsCovered, NEW p \in Procs, RunStep(p), ~Import(p)
  PROVE  ImportsCovered'
<1>1. PICK a : Covers(a)
  BY DEF ImportsCovered
<1>2. UNCHANGED gmail
  BY DEF RunStep, ReadSource, UpdateSource, StateLookup, DestinationLookup, StateWrite,
     SourceArchive, UpdateEmail, Finish, CompleteRun, Measured, MarkImported,
     MoveToTransferred, UpdateRun, UpdateRow, stores
<1>3. ASSUME NEW i \in RunIds PROVE jobRuns'[i].counts.imported <= a[i]
  <2>1. CASE jobRuns'[i].counts = jobRuns[i].counts
    BY <1>1, <2>1 DEF Covers
  <2>2. CASE i = run[p] /\ Live(p) /\ jobRuns'[i].counts = counts[p]
    <3>1. counts[p].imported + Credit(p) <= a[i] /\ a[i] \in Nat
      BY <1>1, <2>2 DEF Covers
    <3>. QED
      BY <2>2, <3>1, CountTypes
  <2>. QED
    BY <2>1, <2>2, RowsFollow
<1>4. ASSUME NEW q \in Procs, Live(q)'
      PROVE  counts'[q].imported + Credit(q)' <= a[run'[q]]
  <2>1. CASE q # p
    <3>1. AccountsLocals(q)' = AccountsLocals(q) /\ run'[q] = run[q]
      BY <2>1, RunStepOthers
    <3>2. Credit(q)' = Credit(q) /\ counts'[q] = counts[q] /\ Live(q)
      BY <1>4, <3>1 DEF AccountsLocals, Credit, Live
    <3>. QED
      BY <1>1, <3>1, <3>2 DEF Covers
  <2>2. CASE q = p
    <3>1. ~CompleteRun(p)
      BY <1>4, <2>2, EndRunAccounts DEF CompleteRun
    <3>2. run' = run /\ Live(p) /\ run[p] \in RunIds
      BY <3>1, InnerStep DEF HistoryInv, RowsAreOwned
    <3>3. counts[p].imported + Credit(p) <= a[run[p]] /\ a[run[p]] \in Nat
      BY <1>1, <3>2 DEF Covers
    <3>4. counts'[p].imported \in Nat /\ Credit(p)' \in Nat
      BY DEF TypeOK, LocalsOK, Counts, Credit
    <3>. QED
      BY <2>2, <3>1, <3>2, <3>3, <3>4, CreditFalls, CountTypes
  <2>. QED
    BY <2>1, <2>2
<1>5. Covers(a)'
  BY <1>1, <1>2, <1>3, <1>4 DEF Covers
<1>. QED
  BY <1>5 DEF ImportsCovered

\* An import raises the copies and the run's share of them together.
LEMMA ImportCovers ==
  ASSUME TypeOK, HistoryInv, ImportsCovered, NEW p \in Procs, Import(p)
  PROVE  ImportsCovered'
<1>1. PICK a : Covers(a)
  BY DEF ImportsCovered
<1>2. PICK e \in todo[p] :
        \/ ImportInto(e.msg) /\ (Goto(p, "stateWrite") \/ Throw(p))
        \/ UNCHANGED stores /\ Throw(p)
  BY DEF Import, Measured
<1>3. Live(p) /\ run[p] \in RunIds /\ pc[p] = "import"
  BY DEF Import, Live, HistoryInv, RowsAreOwned
<1>4. UNCHANGED <<jobRuns, run, counts>>
  BY <1>2 DEF ImportInto, stores, Goto, Throw
<1>5. a \in [RunIds -> Nat]
  BY <1>1 DEF Covers
<1>more. PICK b \in [RunIds -> Nat] :
         \A i \in RunIds : b[i] = IF i = run[p] THEN a[i] + 1 ELSE a[i]
  <2>. DEFINE c == [i \in RunIds |-> IF i = run[p] THEN a[i] + 1 ELSE a[i]]
  <2>1. c \in [RunIds -> Nat]
    BY <1>5
  <2>2. \A i \in RunIds : c[i] = IF i = run[p] THEN a[i] + 1 ELSE a[i]
    OBVIOUS
  <2>. HIDE DEF c
  <2>. QED
    BY <2>1, <2>2
<1>6. \A i \in RunIds : jobRuns'[i].counts.imported <= a[i]
  BY <1>1, <1>4 DEF Covers
<1>7. ASSUME NEW q \in Procs, Live(q)', q # p
      PROVE  counts'[q].imported + Credit(q)' <= a[run[q]] /\ run[q] \in RunIds
  <2>1. AccountsLocals(q)' = AccountsLocals(q)
    BY <1>7, RunStepOthers DEF RunStep
  <2>2. Credit(q)' = Credit(q) /\ Live(q)
    BY <1>7, <2>1 DEF AccountsLocals, Credit, Live
  <2>. QED
    BY <1>1, <1>4, <2>2 DEF Covers, HistoryInv, RowsAreOwned
<1>8. counts[p].imported <= a[run[p]] /\ counts[p].imported \in Nat /\ a[run[p]] \in Nat
  <2>1. counts[p].imported + Credit(p) <= a[run[p]]
    BY <1>1, <1>3 DEF Covers
  <2>. QED
    BY <1>3, <1>5, <2>1, CountTypes
<1>9. CASE ImportInto(e.msg)
  <2>1. gmail \in [Msgs -> Nat] /\ gmail' \in [Msgs -> Nat] /\ e.msg \in Msgs
        /\ \A m \in Msgs : gmail'[m] = IF m = e.msg THEN gmail[m] + 1 ELSE gmail[m]
    BY <1>9 DEF ImportInto, TypeOK, StoresOK, LocalsOK, Emails
  <2>2. IsFiniteSet(RunIds)
    BY RunIdsFinite
  <2>3. SumFunction(b) = SumFunction(a) + 1
    BY <1>3, <1>5, <1>more, <2>2, SumBump
  <2>4. SumFunction(gmail') = SumFunction(gmail) + 1
    BY <2>1, SumBump
  <2>5. SumFunction(b) <= SumFunction(gmail')
    <3>1. SumFunction(a) <= SumFunction(gmail)
      BY <1>1 DEF Covers
    <3>2. SumFunction(a) \in Nat /\ SumFunction(gmail) \in Nat
      BY <1>5, <2>1, <2>2, SumType
    <3>. QED
      BY <2>3, <2>4, <3>1, <3>2
  <2>6. \A i \in RunIds : jobRuns'[i].counts.imported <= b[i]
    <3>1. \A i \in RunIds : jobRuns'[i].counts.imported \in Nat
      BY <1>4, CountTypes
    <3>. QED
      BY <1>3, <1>5, <1>6, <1>more, <3>1
  <2>7. counts'[p].imported + Credit(p)' <= b[run'[p]]
    <3>1. Credit(p)' \in {0, 1}
      BY DEF Credit
    <3>. QED
      BY <1>3, <1>4, <1>5, <1>8, <1>more, <3>1
  <2>8. ASSUME NEW q \in Procs, Live(q)', q # p
        PROVE  counts'[q].imported + Credit(q)' <= b[run'[q]]
    <3>1. Credit(q)' \in {0, 1} /\ counts'[q].imported \in Nat
      BY <1>4, CountTypes DEF Credit
    <3>. QED
      BY <1>4, <1>5, <1>7, <1>more, <2>8, <3>1
  <2>9. Covers(b)'
    <3>1. ASSUME NEW q \in Procs, Live(q)'
          PROVE  counts'[q].imported + Credit(q)' <= b[run'[q]]
      BY <2>7, <2>8, <3>1, Zenon
    <3>2. /\ b \in [RunIds -> Nat]
          /\ SumFunction(b) <= SumFunction(gmail')
          /\ \A i \in RunIds : jobRuns'[i].counts.imported <= b[i]
      BY <1>5, <1>more, <2>5, <2>6
    <3>. QED
      BY <3>1, <3>2, Zenon DEF Covers
  <2>. QED
    BY <2>9 DEF ImportsCovered
<1>10. CASE UNCHANGED gmail /\ Throw(p)
  <2>1. Credit(p)' = 0
    BY <1>10 DEF Throw, Credit, TypeOK, LocalsOK
  <2>2. counts'[p].imported + Credit(p)' <= a[run'[p]]
    BY <1>4, <1>8, <2>1
  <2>3. Covers(a)'
    BY <1>1, <1>4, <1>6, <1>7, <1>10, <2>2 DEF Covers
  <2>. QED
    BY <2>3 DEF ImportsCovered
<1>11. UNCHANGED stores => UNCHANGED gmail
  BY DEF stores
<1>. QED
  BY <1>2, <1>9, <1>10, <1>11
\* The steps that count nothing.
LEMMA CoversRemain ==
  ASSUME TypeOK, HistoryInv, ImportsCovered, UNCHANGED gmail,
         \A i \in RunIds : jobRuns'[i].counts \in {jobRuns[i].counts, Zero},
         \A q \in Procs : Live(q)' =>
            \/ AccountsLocals(q)' = AccountsLocals(q) /\ run'[q] = run[q]
            \/ run'[q] \in RunIds /\ counts'[q] = Zero /\ Credit(q)' = 0
  PROVE  ImportsCovered'
<1>1. PICK a : Covers(a)
  BY DEF ImportsCovered
<1>2. a \in [RunIds -> Nat]
  BY <1>1 DEF Covers
<1>3. ASSUME NEW i \in RunIds PROVE jobRuns'[i].counts.imported <= a[i]
  BY <1>1, <1>2, ZeroCounts DEF Covers
<1>4. ASSUME NEW q \in Procs, Live(q)'
      PROVE  counts'[q].imported + Credit(q)' <= a[run'[q]]
  <2>1. CASE AccountsLocals(q)' = AccountsLocals(q) /\ run'[q] = run[q]
    <3>1. Credit(q)' = Credit(q) /\ counts'[q] = counts[q] /\ Live(q)
      BY <1>4, <2>1 DEF AccountsLocals, Credit, Live
    <3>. QED
      BY <1>1, <2>1, <3>1 DEF Covers
  <2>2. CASE run'[q] \in RunIds /\ counts'[q] = Zero /\ Credit(q)' = 0
    BY <1>2, <2>2, ZeroCounts
  <2>. QED
    BY <1>4, <2>1, <2>2
<1>5. Covers(a)'
  BY <1>1, <1>2, <1>3, <1>4 DEF Covers
<1>. QED
  BY <1>5 DEF ImportsCovered

\* What the steps outside of a run do to rows and runs.
LEMMA StartRunResets ==
  ASSUME TypeOK, RunsAccount, NEW p \in Procs, NEW dry \in BOOLEAN, StartRun(p, dry)
  PROVE  /\ UNCHANGED <<place, uids, gmail, importedMessages>>
         /\ \A i \in RunIds : jobRuns'[i] = jobRuns[i] \/ jobRuns'[i].counts = Zero
         /\ \A q \in Procs :
              \/ AccountsLocals(q)' = AccountsLocals(q) /\ run'[q] = run[q]
              \/ /\ q = p /\ pc'[q] \in {"read", "complete"} /\ counts'[q] = Zero
                 /\ todo'[q] = {} /\ run'[q] = nextRun /\ nextRun \in RunIds
                 /\ jobRuns'[nextRun].dryRun = dryRun'[q]
<1>1. PICK cutoff \in Cutoffs :
        \/ /\ InsertRow(p, dry, cutoff)
           /\ \/ UNCHANGED locals
              \/ Begin(p, dry, "read", FALSE)
              \/ Begin(p, dry, "complete", TRUE)
        \/ /\ jobRuns' = Purged(cutoff)
           /\ UNCHANGED <<place, uids, gmail, importedMessages, nextRun, locals>>
  BY DEF StartRun
<1>2. nextRun \in RunIds /\ pc[p] = "idle"
  BY DEF StartRun, TypeOK, StoresOK, RunIds
<1>3. UNCHANGED <<place, uids, gmail, importedMessages>>
  BY <1>1 DEF InsertRow
<1>4. ASSUME NEW i \in RunIds
      PROVE  jobRuns'[i] = jobRuns[i] \/ jobRuns'[i].counts = Zero
  <2>1. Purged(cutoff) \in [RunIds -> Rows]
    BY DEF Purged, NoRow, Zero, Rows, Counts, TypeOK, StoresOK
  <2>2. Purged(cutoff)[i] = jobRuns[i] \/ Purged(cutoff)[i].counts = Zero
    BY ZeroCounts DEF Purged
  <2>3. jobRuns' = Purged(cutoff) \/ jobRuns'[i] = Purged(cutoff)[i] \/ jobRuns'[i].counts = Zero
    <3>1. CASE InsertRow(p, dry, cutoff)
      <4>1. i = nextRun => jobRuns'[i].counts = Zero
        BY <2>1, <3>1 DEF InsertRow
      <4>2. i # nextRun => jobRuns'[i] = Purged(cutoff)[i]
        BY <2>1, <3>1 DEF InsertRow
      <4>. QED
        BY <4>1, <4>2
    <3>. QED
      BY <1>1, <3>1
  <2>. QED
    BY <2>2, <2>3
<1>5. todo[p] = {} /\ counts[p] = Zero
  BY <1>2 DEF RunsAccount, AccountsFor
<1>6. CASE UNCHANGED locals
  BY <1>3, <1>4, <1>6 DEF locals, AccountsLocals
<1>7. CASE /\ InsertRow(p, dry, cutoff)
           /\ Begin(p, dry, "read", FALSE) \/ Begin(p, dry, "complete", TRUE)
  <2>1. \A q \in Procs \ {p} : AccountsLocals(q)' = AccountsLocals(q) /\ run'[q] = run[q]
    BY <1>7 DEF Begin, AccountsLocals, TypeOK, LocalsOK
  <2>2. /\ pc'[p] \in {"read", "complete"} /\ counts'[p] = Zero /\ todo'[p] = {}
        /\ run'[p] = nextRun /\ dryRun'[p] = dry
    BY <1>5, <1>7 DEF Begin, TypeOK, LocalsOK
  <2>3. jobRuns'[nextRun].dryRun = dry
    BY <1>2, <1>7 DEF InsertRow, Purged
  <2>. QED
    BY <1>2, <1>3, <1>4, <2>1, <2>2, <2>3
<1>. QED
  BY <1>1, <1>6, <1>7

LEMMA OthersReset ==
  ASSUME TypeOK,
         \/ \E p \in Procs : Crash(p)
         \/ \E m \in Msgs : Deliver(m)
         \/ ResetUidValidity
         \/ \E i \in RunIds : DeleteRun(i)
         \/ UNCHANGED vars
  PROVE  /\ UNCHANGED gmail
         /\ \A i \in RunIds : jobRuns'[i] \in {jobRuns[i], NoRow}
         /\ \A q \in Procs : Live(q)' => AccountsLocals(q)' = AccountsLocals(q) /\ run'[q] = run[q]
<1>1. ASSUME NEW p \in Procs, Crash(p)
      PROVE  /\ UNCHANGED <<gmail, jobRuns>>
             /\ \A q \in Procs : Live(q)' => AccountsLocals(q)' = AccountsLocals(q) /\ run'[q] = run[q]
  <2>1. ~Live(p)' /\ UNCHANGED <<gmail, jobRuns>>
    BY <1>1, EndRunAccounts DEF Crash, stores
  <2>2. \A q \in Procs \ {p} : AccountsLocals(q)' = AccountsLocals(q) /\ run'[q] = run[q]
    BY <1>1 DEF Crash, EndRun, AccountsLocals, TypeOK, LocalsOK
  <2>. QED
    BY <2>1, <2>2
<1>2. CASE (\E m \in Msgs : Deliver(m)) \/ ResetUidValidity \/ UNCHANGED vars
  BY <1>2 DEF Deliver, ResetUidValidity, vars, stores, locals, AccountsLocals
<1>3. ASSUME NEW i \in RunIds, DeleteRun(i)
      PROVE  /\ UNCHANGED <<gmail, locals>>
             /\ \A j \in RunIds : jobRuns'[j] \in {jobRuns[j], NoRow}
  BY <1>3 DEF DeleteRun, TypeOK, StoresOK
<1>4. CASE \E i \in RunIds : DeleteRun(i)
  BY <1>3, <1>4 DEF locals, AccountsLocals
<1>. QED
  BY <1>1, <1>2, <1>4

LEMMA ImportsCoveredInvariance == Spec => []ImportsCovered
<1>1. Init => ImportsCovered
  <2>. SUFFICES ASSUME Init PROVE ImportsCovered
    OBVIOUS
  <2>. DEFINE a == [i \in RunIds |-> 0]
  <2>1. a \in [RunIds -> Nat] /\ \A i \in RunIds : a[i] = 0
    OBVIOUS
  <2>2. IsFiniteSet(RunIds)
    BY RunIdsFinite
  <2>3. gmail \in [Msgs -> Nat]
    BY DEF Init
  <2>4. \A i \in RunIds : jobRuns[i] = NoRow
    BY DEF Init
  <2>5. \A p \in Procs : ~Live(p)
    BY DEF Init, Live
  <2>. HIDE DEF a
  <2>6. SumFunction(a) = 0 /\ SumFunction(gmail) \in Nat
    BY <2>1, <2>2, <2>3, SumZero, SumType
  <2>7. Covers(a)
    BY <2>1, <2>4, <2>5, <2>6, ZeroCounts DEF Covers
  <2>. QED
    BY <2>7 DEF ImportsCovered
<1>2. TypeOK /\ TypeOK' /\ HistoryInv /\ RunsAccount /\ ImportsCovered /\ [Next]_vars
        => ImportsCovered'
  <2>. SUFFICES ASSUME TypeOK, TypeOK', HistoryInv, RunsAccount, ImportsCovered, [Next]_vars
                PROVE  ImportsCovered'
    OBVIOUS
  <2>1. ASSUME NEW p \in Procs, RunStep(p) PROVE ImportsCovered'
    BY <2>1, RunStepCovers, ImportCovers
  <2>2. ASSUME NEW p \in Procs, NEW dry \in BOOLEAN, StartRun(p, dry) PROVE ImportsCovered'
    <3>1. \A q \in Procs : Live(q)' =>
             \/ AccountsLocals(q)' = AccountsLocals(q) /\ run'[q] = run[q]
             \/ run'[q] \in RunIds /\ counts'[q] = Zero /\ Credit(q)' = 0
      BY <2>2, StartRunResets DEF Credit
    <3>. QED
      BY <2>2, <3>1, StartRunResets, CoversRemain
  <2>3. CASE \/ \E p \in Procs : Crash(p)
             \/ \E m \in Msgs : Deliver(m)
             \/ ResetUidValidity
             \/ \E i \in RunIds : DeleteRun(i)
             \/ UNCHANGED vars
    <3>1. /\ UNCHANGED gmail
          /\ \A i \in RunIds : jobRuns'[i].counts \in {jobRuns[i].counts, Zero}
          /\ \A q \in Procs : Live(q)' =>
                AccountsLocals(q)' = AccountsLocals(q) /\ run'[q] = run[q]
      BY <2>3, OthersReset, ZeroCounts
    <3>. QED
      BY <3>1, CoversRemain
  <2>. QED
    BY <2>1, <2>2, <2>3 DEF Next
<1>. QED
  BY <1>1, <1>2, TypeCorrect, HistoryInvariance, AccountsInvariance, PTL DEF Spec

\* The history never reports more imports than Gmail received, whatever runs
\* at the same time, fails, is killed, purged or deleted: no run counts an
\* import it did not make, and no two runs count the same one.
THEOREM ImportsNeverOverstated == Spec => []ImportedNeverOverstated
<1>1. TypeOK /\ ImportsCovered => ImportedNeverOverstated
  <2>. SUFFICES ASSUME TypeOK, ImportsCovered PROVE ImportedNeverOverstated
    OBVIOUS
  <2>. DEFINE f == [i \in RunIds |-> jobRuns[i].counts.imported]
  <2>1. PICK a : Covers(a)
    BY DEF ImportsCovered
  <2>2. /\ f \in [RunIds -> Nat] /\ a \in [RunIds -> Nat]
        /\ \A i \in RunIds : f[i] <= a[i]
    BY <2>1, CountTypes DEF Covers
  <2>3. IsFiniteSet(RunIds) /\ gmail \in [Msgs -> Nat]
    BY RunIdsFinite DEF TypeOK, StoresOK
  <2>. HIDE DEF f
  <2>4. SumFunction(f) <= SumFunction(a)
    BY <2>2, <2>3, SumMonotone
  <2>5. SumFunction(f) \in Nat /\ SumFunction(a) \in Nat /\ SumFunction(gmail) \in Nat
    BY <2>2, <2>3, SumType
  <2>6. SumFunction(f) <= SumFunction(gmail)
    BY <2>1, <2>4, <2>5 DEF Covers
  <2>. QED
    BY <2>6 DEF ImportedNeverOverstated, f
<1>. QED
  BY <1>1, TypeCorrect, ImportsCoveredInvariance, PTL
-----------------------------------------------------------------------------
(***************************************************************************)
(* No email is counted that has not left the inbox.                        *)
(***************************************************************************)
\* The emails a run has left to do are in the inbox, the one it is about to
\* finish excepted.
LeftInInbox ==
  \A p \in Procs : \A e \in todo[p] :
    \/ pc[p] \in {"finish", "complete"}
    \/ pc[p] = "updateEmail" /\ IsCurrent(p, e)
    \/ place[e.msg] = "inbox"

\* A batch holds no message twice.
LEMMA BatchDistinct ==
  ASSUME TypeOK, StepsJustified, UidsSound, NEW p \in Procs,
         NEW e \in todo[p], NEW f \in todo[p], e.msg = f.msg
  PROVE  e = f
<1>1. e \in Emails /\ f \in Emails
  BY DEF TypeOK, LocalsOK
<1>2. /\ e.id[1] = f.id[1] /\ e.id[1] \in DOMAIN uids
      /\ e.id[2] \in DOMAIN uids[e.id[1]] /\ f.id[2] \in DOMAIN uids[e.id[1]]
      /\ uids[e.id[1]][e.id[2]] = e.msg /\ uids[e.id[1]][f.id[2]] = f.msg
  BY DEF StepsJustified, BatchSound, IsIssued, Named
<1>3. e.id[2] = f.id[2]
  BY <1>2 DEF UidsSound
<1>. QED
  BY <1>1, <1>2, <1>3 DEF Emails, SourceIds

\* A move takes the email of that source id, and only that one.
LEMMA ArchiveMoves ==
  ASSUME TypeOK, StepsJustified, NEW p \in Procs, NEW e \in todo[p],
         ~UidValidityChanged(e.id), MoveToTransferred(e.id), NEW m \in Msgs
  PROVE  place'[m] = IF m = e.msg /\ place[m] = "inbox" THEN "transferred" ELSE place[m]
<1>1. /\ e.id[2] \in DOMAIN uids[UidValidity] /\ uids[UidValidity][e.id[2]] = e.msg
  BY DEF StepsJustified, BatchSound, IsIssued, Named, UidValidityChanged
<1>. QED
  BY <1>1 DEF MoveToTransferred

\* Who moves nothing away, and asks nothing of an email it had finished.
LEMMA LeftStays ==
  ASSUME TypeOK, LeftInInbox,
         \A m \in Msgs : place[m] = "inbox" => place'[m] = "inbox",
         \A p \in Procs :
           \/ todo'[p] = {}
           \/ /\ todo'[p] = todo[p]
              /\ \/ pc'[p] \in {pc[p], "complete"}
                 \/ pc[p] \notin {"updateEmail", "finish", "complete"}
  PROVE  LeftInInbox'
<1>. SUFFICES ASSUME NEW p \in Procs, NEW e \in todo'[p],
                     pc'[p] \notin {"finish", "complete"},
                     ~(pc'[p] = "updateEmail" /\ IsCurrent(p, e)')
              PROVE  place'[e.msg] = "inbox"
  BY DEF LeftInInbox
<1>1. /\ todo'[p] = todo[p] /\ e \in todo[p]
      /\ pc'[p] = pc[p] \/ pc[p] \notin {"updateEmail", "finish", "complete"}
  OBVIOUS
<1>2. IsCurrent(p, e)' <=> IsCurrent(p, e)
  BY <1>1 DEF IsCurrent
<1>3. e.msg \in Msgs
  BY <1>1 DEF TypeOK, LocalsOK, Emails
<1>4. place[e.msg] = "inbox"
  BY <1>1, <1>2 DEF LeftInInbox
<1>. QED
  BY <1>3, <1>4

LEMMA LeftRead ==
  ASSUME Procs = {Background}, TypeOK, LeftInInbox, ReadSource(Background)
  PROVE  LeftInInbox'
<1>. DEFINE p == Background
<1>1. UNCHANGED place
  BY DEF ReadSource, Measured, stores
<1>2. CASE Throw(p)
  <2>1. todo'[p] = todo[p] /\ pc'[p] = "complete"
    BY <1>2 DEF Throw, ReadSource, EmailSteps, TypeOK, LocalsOK
  <2>. QED
    BY <1>1, <2>1, LeftStays
<1>3. CASE ~Throw(p)
  <2>1. PICK limit \in BatchLimits : todo'[p] = ReadBatch(limit)
    BY <1>3 DEF ReadSource, Measured, TypeOK, LocalsOK
  <2>2. \A e \in ReadBatch(limit) : place[e.msg] = "inbox"
    BY DEF ReadBatch, InboxEmails
  <2>. QED
    BY <1>1, <2>1, <2>2 DEF LeftInInbox
<1>. QED
  BY <1>2, <1>3

LEMMA LeftArchive ==
  ASSUME Procs = {Background}, TypeOK, StepsJustified, UidsSound, LeftInInbox,
         SourceArchive(Background)
  PROVE  LeftInInbox'
<1>. DEFINE p == Background
<1>1. PICK e \in todo[p] :
        /\ pc[p] = "sourceArchive" /\ IsCurrent(p, e)
        /\ \/ UNCHANGED place
           \/ ~UidValidityChanged(e.id) /\ MoveToTransferred(e.id)
        /\ Throw(p) \/ \E counter : Outcome(p, counter)
  BY DEF SourceArchive, Measured, stores
<1>2. pc'[p] = "updateEmail" /\ todo'[p] = todo[p]
  BY <1>1 DEF Throw, Outcome, EmailSteps, TypeOK, LocalsOK
<1>3. ASSUME NEW f \in todo[p], f # e
      PROVE  place'[f.msg] = "inbox"
  <2>1. f.msg # e.msg /\ f.msg \in Msgs
    BY <1>3, BatchDistinct DEF TypeOK, LocalsOK, Emails
  <2>2. place[f.msg] = "inbox"
    BY <1>1 DEF LeftInInbox
  <2>. QED
    BY <1>1, <2>1, <2>2, ArchiveMoves
<1>4. IsCurrent(p, e)'
  BY <1>1, <1>2 DEF IsCurrent
<1>. QED
  BY <1>2, <1>3, <1>4 DEF LeftInInbox

LEMMA LeftUpdate ==
  ASSUME Procs = {Background}, TypeOK, StepsJustified, LeftInInbox, UpdateEmail(Background)
  PROVE  LeftInInbox'
<1>. DEFINE p == Background
<1>1. UNCHANGED place
  BY DEF UpdateEmail, Measured, UpdateRun, UpdateRow, stores
<1>2. CASE Throw(p)
  <2>1. todo'[p] = todo[p] /\ pc'[p] = "complete"
    BY <1>2 DEF Throw, UpdateEmail, EmailSteps, TypeOK, LocalsOK
  <2>. QED
    BY <1>1, <2>1, LeftStays
<1>3. CASE ~Throw(p)
  <2>1. PICK e \in todo[p] :
          pc[p] = "updateEmail" /\ IsCurrent(p, e) /\ todo'[p] = todo[p] \ {e}
    BY <1>3 DEF UpdateEmail, Measured, TypeOK, LocalsOK
  <2>2. \A f \in todo[p] \ {e} : ~IsCurrent(p, f)
    BY <2>1, CurrentUnique
  <2>. QED
    BY <1>1, <2>1, <2>2 DEF LeftInInbox
<1>. QED
  BY <1>2, <1>3
LEMMA LeftStep ==
  ASSUME Procs = {Background}, TypeOK, StepsJustified, UidsSound, LeftInInbox, [Next]_vars
  PROVE  LeftInInbox'
<1>1. CASE \E p \in Procs : \/ UpdateSource(p) \/ StateLookup(p) \/ DestinationLookup(p)
                            \/ Import(p) \/ StateWrite(p) \/ Finish(p)
  <2>1. PICK p \in Procs : \/ UpdateSource(p) \/ StateLookup(p) \/ DestinationLookup(p)
                           \/ Import(p) \/ StateWrite(p) \/ Finish(p)
    BY <1>1
  <2>2. UNCHANGED place
    BY <2>1 DEF UpdateSource, StateLookup, DestinationLookup, Import, StateWrite, Finish,
       Measured, ImportInto, MarkImported, UpdateRun, UpdateRow, stores
  <2>3. /\ todo'[p] = todo[p]
        /\ pc'[p] = "complete" \/ pc[p] \notin {"updateEmail", "finish", "complete"}
    <3>1. CASE UpdateSource(p) \/ StateLookup(p) \/ DestinationLookup(p)
      BY <3>1 DEF UpdateSource, StateLookup, DestinationLookup, Measured, Throw, Goto,
         Present, NotPresent, Outcome
    <3>2. CASE Import(p) \/ StateWrite(p)
      BY <3>2 DEF Import, StateWrite, Measured, Throw, Goto
    <3>3. CASE Finish(p)
      BY <3>3 DEF Finish, Measured, Throw, Goto, EmailSteps, TypeOK, LocalsOK
    <3>. QED
      BY <2>1, <3>1, <3>2, <3>3
  <2>. QED
    BY <2>2, <2>3, LeftStays
<1>2. CASE \E p \in Procs : CompleteRun(p) \/ Crash(p)
  <2>1. PICK p \in Procs : CompleteRun(p) \/ Crash(p)
    BY <1>2
  <2>2. UNCHANGED place /\ todo'[p] = {}
    BY <2>1 DEF CompleteRun, Crash, EndRun, UpdateRow, stores, TypeOK, LocalsOK
  <2>. QED
    BY <2>2, LeftStays
<1>3. CASE \E p \in Procs, dry \in BOOLEAN : StartRun(p, dry)
  <2>1. PICK p \in Procs, dry \in BOOLEAN : StartRun(p, dry)
    BY <1>3
  <2>2. UNCHANGED place /\ todo'[p] = todo[p] /\ pc[p] \notin {"updateEmail", "finish", "complete"}
    BY <2>1 DEF StartRun, InsertRow, Begin, locals
  <2>. QED
    BY <2>2, LeftStays
<1>4. CASE \/ \E m \in Msgs : Deliver(m)
           \/ ResetUidValidity
           \/ \E i \in RunIds : DeleteRun(i)
           \/ UNCHANGED vars
  <2>1. /\ \A m \in Msgs : place[m] = "inbox" => place'[m] = "inbox"
        /\ UNCHANGED <<pc, todo>>
    BY <1>4 DEF Deliver, ResetUidValidity, DeleteRun, vars, stores, locals, TypeOK, StoresOK
  <2>. QED
    BY <2>1, LeftStays
<1>. QED
  BY <1>1, <1>2, <1>3, <1>4, LeftRead, LeftArchive, LeftUpdate DEF Next, RunStep

LEMMA LeftInvariance ==
  ASSUME Procs = {Background}
  PROVE  Spec => []LeftInInbox
<1>1. Init => LeftInInbox
  BY DEF Init, LeftInInbox
<1>2. TypeOK /\ Inv /\ UidsSound /\ LeftInInbox /\ [Next]_vars => LeftInInbox'
  BY LeftStep DEF Inv
<1>. QED
  BY <1>1, <1>2, TypeCorrect, Invariance, UidsInvariance, PTL DEF Spec

\* What a run counts as dealt with, and what has left the inbox.
Handled(c) == c.imported + c.alreadyPresent
Moved == {m \in Msgs : place[m] = "transferred"}

\* a[i] of the messages that left the inbox were moved by run i, enough for
\* what its row says and what it has counted, unless it is dry.
Explains(a) ==
  /\ a \in [RunIds -> Nat]
  /\ SumFunction(a) <= Cardinality(Moved)
  /\ \A i \in RunIds : ~jobRuns[i].dryRun => Handled(jobRuns[i].counts) <= a[i]
  /\ \A p \in Procs : Live(p) /\ ~dryRun[p] => Handled(counts[p]) <= a[run[p]]

MovesCovered == \E a : Explains(a)

LEMMA MovedType ==
  IsFiniteSet(Moved) /\ Cardinality(Moved) \in Nat
<1>1. Moved \subseteq Msgs
  BY DEF Moved
<1>. QED
  BY <1>1, FS_Subset, FS_CardinalityType

LEMMA HandledType ==
  ASSUME TypeOK
  PROVE  /\ \A p \in Procs : Handled(counts[p]) \in Nat
         /\ \A i \in RunIds : Handled(jobRuns[i].counts) \in Nat
BY CountTypes DEF Handled

\* Only archiving an email counts one in a run that is not dry.
LEMMA HandledStays ==
  ASSUME TypeOK, NEW p \in Procs, RunStep(p), ~SourceArchive(p), ~CompleteRun(p), ~dryRun'[p]
  PROVE  Handled(counts'[p]) = Handled(counts[p]) /\ ~dryRun[p]
<1>1. CASE UpdateSource(p) \/ UpdateEmail(p) \/ Finish(p) \/ Import(p) \/ StateWrite(p)
  BY <1>1 DEF UpdateSource, UpdateEmail, Finish, Import, StateWrite, Measured, Throw, Goto
<1>2. CASE StateLookup(p) \/ DestinationLookup(p)
  BY <1>2 DEF StateLookup, DestinationLookup, Measured, Throw, Goto, Present, NotPresent,
     Outcome
<1>3. CASE ReadSource(p)
  <2>1. /\ UNCHANGED dryRun
        /\ counts'[p].imported = counts[p].imported
        /\ counts'[p].alreadyPresent = counts[p].alreadyPresent
    BY <1>3 DEF ReadSource, Measured, Throw, TypeOK, LocalsOK, Counts
  <2>. QED
    BY <2>1 DEF Handled
<1>. QED
  BY <1>1, <1>2, <1>3 DEF RunStep

\* A share covers whatever counts no more than before.
LEMMA ExplainsRemains ==
  ASSUME TypeOK, HistoryInv, RunsAccount, NEW a, Explains(a), NEW b \in [RunIds -> Nat],
         \A i \in RunIds : a[i] <= b[i],
         SumFunction(b) <= Cardinality(Moved'),
         \A i \in RunIds :
           \/ jobRuns'[i].counts = jobRuns[i].counts /\ jobRuns'[i].dryRun = jobRuns[i].dryRun
           \/ jobRuns'[i].counts = Zero
           \/ \E p \in Procs :
                /\ i = run[p] /\ Live(p) /\ jobRuns[i].status # "Absent"
                /\ jobRuns'[i].counts = counts[p] /\ jobRuns'[i].dryRun = jobRuns[i].dryRun,
         \A q \in Procs : Live(q)' /\ ~dryRun'[q] =>
            /\ run'[q] \in RunIds
            /\ \/ counts'[q] = Zero
               \/ /\ Handled(counts'[q]) = Handled(counts[q]) /\ run'[q] = run[q]
                  /\ ~dryRun[q] /\ Live(q)
               \/ Handled(counts'[q]) <= b[run'[q]]
  PROVE  MovesCovered'
<1>1. a \in [RunIds -> Nat] /\ Handled(Zero) = 0
  BY ZeroCounts DEF Explains, Handled
<1>2. ASSUME NEW i \in RunIds, ~jobRuns'[i].dryRun
      PROVE  Handled(jobRuns'[i].counts) <= b[i]
  <2>1. Handled(jobRuns'[i].counts) \in Nat /\ Handled(jobRuns'[i].counts) <= a[i]
    <3>1. CASE jobRuns'[i].counts = jobRuns[i].counts /\ jobRuns'[i].dryRun = jobRuns[i].dryRun
      BY <1>2, <3>1, HandledType DEF Explains
    <3>2. CASE jobRuns'[i].counts = Zero
      BY <1>1, <3>2
    <3>3. ASSUME NEW p \in Procs, i = run[p], Live(p), jobRuns[i].status # "Absent",
                 jobRuns'[i].counts = counts[p], jobRuns'[i].dryRun = jobRuns[i].dryRun
          PROVE  Handled(jobRuns'[i].counts) \in Nat /\ Handled(jobRuns'[i].counts) <= a[i]
      <4>1. ~dryRun[p]
        BY <1>2, <3>3 DEF RunsAccount, RowMarked
      <4>. QED
        BY <3>3, <4>1, HandledType DEF Explains
    <3>. QED
      BY <3>1, <3>2, <3>3
  <2>. QED
    BY <1>1, <2>1
<1>3. ASSUME NEW q \in Procs, Live(q)', ~dryRun'[q]
      PROVE  Handled(counts'[q]) <= b[run'[q]]
  <2>1. run'[q] \in RunIds
    BY <1>3
  <2>2. CASE counts'[q] = Zero
    BY <1>1, <2>1, <2>2
  <2>3. CASE /\ Handled(counts'[q]) = Handled(counts[q]) /\ run'[q] = run[q]
             /\ ~dryRun[q] /\ Live(q)
    <3>1. Handled(counts[q]) <= a[run[q]] /\ Handled(counts[q]) \in Nat
      BY <2>3, HandledType DEF Explains
    <3>. QED
      BY <1>1, <2>1, <2>3, <3>1
  <2>. QED
    BY <1>3, <2>2, <2>3
<1>4. Explains(b)'
  BY <1>2, <1>3 DEF Explains
<1>. QED
  BY <1>4 DEF MovesCovered
LEMMA RowsFollowSome ==
  ASSUME TypeOK, HistoryInv, NEW p \in Procs, RunStep(p)
  PROVE  \A i \in RunIds :
           \/ jobRuns'[i].counts = jobRuns[i].counts /\ jobRuns'[i].dryRun = jobRuns[i].dryRun
           \/ jobRuns'[i].counts = Zero
           \/ \E q \in Procs :
                /\ i = run[q] /\ Live(q) /\ jobRuns[i].status # "Absent"
                /\ jobRuns'[i].counts = counts[q] /\ jobRuns'[i].dryRun = jobRuns[i].dryRun
BY RowsFollow

\* The others go on where they are.
LEMMA BystandersExplained ==
  ASSUME TypeOK, HistoryInv, NEW p \in Procs, RunStep(p), NEW q \in Procs \ {p}, Live(q)'
  PROVE  /\ run'[q] = run[q] /\ run[q] \in RunIds /\ dryRun'[q] = dryRun[q]
         /\ counts'[q] = counts[q] /\ Live(q)
<1>1. AccountsLocals(q)' = AccountsLocals(q) /\ run'[q] = run[q]
  BY RunStepOthers
<1>. QED
  BY <1>1 DEF AccountsLocals, Live, HistoryInv, RowsAreOwned

LEMMA RunStepExplains ==
  ASSUME TypeOK, HistoryInv, RunsAccount, MovesCovered, NEW p \in Procs, RunStep(p),
         ~SourceArchive(p)
  PROVE  MovesCovered'
<1>1. PICK a : Explains(a)
  BY DEF MovesCovered
<1>2. Moved' = Moved
  BY DEF RunStep, ReadSource, UpdateSource, StateLookup, DestinationLookup, Import,
     StateWrite, UpdateEmail, Finish, CompleteRun, Measured, ImportInto, MarkImported,
     UpdateRun, UpdateRow, stores, Moved
<1>3. /\ a \in [RunIds -> Nat] /\ \A i \in RunIds : a[i] <= a[i]
      /\ SumFunction(a) <= Cardinality(Moved')
  BY <1>1, <1>2 DEF Explains
<1>4. ASSUME NEW q \in Procs, Live(q)', ~dryRun'[q]
      PROVE  /\ run'[q] \in RunIds
             /\ Handled(counts'[q]) = Handled(counts[q]) /\ run'[q] = run[q]
             /\ ~dryRun[q] /\ Live(q)
  <2>1. CASE q # p
    BY <1>4, <2>1, BystandersExplained
  <2>2. CASE q = p
    <3>1. ~CompleteRun(p)
      BY <1>4, <2>2, EndRunAccounts DEF CompleteRun
    <3>2. run' = run /\ Live(p) /\ run[p] \in RunIds
      BY <3>1, InnerStep DEF HistoryInv, RowsAreOwned
    <3>. QED
      BY <1>4, <2>2, <3>1, <3>2, HandledStays
  <2>. QED
    BY <2>1, <2>2
<1>. QED
  BY <1>1, <1>3, <1>4, RowsFollowSome, ExplainsRemains

\* Archiving moves one message when it counts one.
LEMMA ArchiveExplains ==
  ASSUME TypeOK, HistoryInv, RunsAccount, StepsJustified, LeftInInbox, DryRunsInspect,
         MovesCovered, NEW p \in Procs, SourceArchive(p)
  PROVE  MovesCovered'
<1>1. PICK a : Explains(a)
  BY DEF MovesCovered
<1>2. PICK e \in todo[p] :
        /\ pc[p] = "sourceArchive"
        /\ \/ Throw(p) /\ UNCHANGED place
           \/ ~UidValidityChanged(e.id) /\ MoveToTransferred(e.id) /\ Throw(p)
           \/ /\ ~UidValidityChanged(e.id) /\ MoveToTransferred(e.id)
              /\ Outcome(p, IF found[p] THEN "alreadyPresent" ELSE "imported")
  BY DEF SourceArchive, Measured, stores
<1>3. Live(p) /\ run[p] \in RunIds /\ ~dryRun[p] /\ RunStep(p) /\ e.msg \in Msgs
  BY <1>2 DEF Live, HistoryInv, RowsAreOwned, DryRunsInspect, RunStep, TypeOK, LocalsOK, Emails
<1>4. UNCHANGED <<run, dryRun>>
  BY <1>2 DEF Throw, Outcome
<1>5. /\ a \in [RunIds -> Nat] /\ \A i \in RunIds : a[i] <= a[i]
      /\ SumFunction(a) <= Cardinality(Moved)
      /\ Handled(counts[p]) <= a[run[p]] /\ Handled(counts[p]) \in Nat
  BY <1>1, <1>3, HandledType DEF Explains
<1>6. ASSUME NEW m \in Msgs, ~UidValidityChanged(e.id), MoveToTransferred(e.id)
      PROVE  place'[m] = IF m = e.msg /\ place[m] = "inbox" THEN "transferred" ELSE place[m]
  BY <1>6, ArchiveMoves
<1>7. CASE Throw(p)
  <2>1. Moved \subseteq Moved' /\ IsFiniteSet(Moved')
    <3>1. Moved \subseteq Moved'
      BY <1>2, <1>6 DEF Moved
    <3>2. Moved' \subseteq Msgs
      BY DEF Moved
    <3>. QED
      BY <3>1, <3>2, FS_Subset
  <2>2. /\ Cardinality(Moved) <= Cardinality(Moved')
        /\ Cardinality(Moved) \in Nat /\ Cardinality(Moved') \in Nat
    BY <2>1, FS_Subset, FS_CardinalityType
  <2>3. SumFunction(a) \in Nat
    <3>1. IsFiniteSet(RunIds)
      BY RunIdsFinite
    <3>. QED
      BY <1>5, <3>1, SumType
  <2>4. SumFunction(a) <= Cardinality(Moved')
    BY <1>5, <2>2, <2>3
  <2>5. counts' = counts
    BY <1>7 DEF Throw
  <2>6. ASSUME NEW q \in Procs, Live(q)', ~dryRun'[q]
        PROVE  /\ run'[q] \in RunIds
               /\ Handled(counts'[q]) = Handled(counts[q]) /\ run'[q] = run[q]
               /\ ~dryRun[q] /\ Live(q)
    BY <1>3, <1>4, <2>5, <2>6, BystandersExplained
  <2>. QED
    BY <1>1, <1>3, <1>5, <2>4, <2>6, RowsFollowSome, ExplainsRemains
<1>8. CASE /\ ~UidValidityChanged(e.id) /\ MoveToTransferred(e.id)
           /\ Outcome(p, IF found[p] THEN "alreadyPresent" ELSE "imported")
  <2>1. place[e.msg] = "inbox"
    BY <1>2 DEF LeftInInbox
  <2>2. Moved' = Moved \cup {e.msg} /\ e.msg \notin Moved
    BY <1>3, <1>6, <1>8, <2>1 DEF Moved
  <2>3. Cardinality(Moved') = Cardinality(Moved) + 1 /\ Cardinality(Moved) \in Nat
    BY <2>2, MovedType, FS_AddElement
  <2>4. PICK b \in [RunIds -> Nat] :
          \A i \in RunIds : b[i] = IF i = run[p] THEN a[i] + 1 ELSE a[i]
    <3>. DEFINE c == [i \in RunIds |-> IF i = run[p] THEN a[i] + 1 ELSE a[i]]
    <3>1. c \in [RunIds -> Nat]
      BY <1>5
    <3>2. \A i \in RunIds : c[i] = IF i = run[p] THEN a[i] + 1 ELSE a[i]
      OBVIOUS
    <3>. HIDE DEF c
    <3>. QED
      BY <3>1, <3>2
  <2>5. SumFunction(b) = SumFunction(a) + 1 /\ SumFunction(a) \in Nat
    <3>1. IsFiniteSet(RunIds)
      BY RunIdsFinite
    <3>. QED
      BY <1>3, <1>5, <2>4, <3>1, SumBump, SumType
  <2>6. SumFunction(b) <= Cardinality(Moved')
    BY <1>5, <2>3, <2>5
  <2>7. \A i \in RunIds : a[i] <= b[i]
    BY <1>5, <2>4
  <2>8. Handled(counts'[p]) <= b[run'[p]]
    <3>1. Handled(counts'[p]) = Handled(counts[p]) + 1
      <4>1. counts'[p] = [counts[p] EXCEPT
                            ![IF found[p] THEN "alreadyPresent" ELSE "imported"] = @ + 1]
        BY <1>8 DEF Outcome, TypeOK, LocalsOK
      <4>2. counts[p] \in Counts
        BY DEF TypeOK, LocalsOK
      <4>3. CASE found[p]
        BY <4>1, <4>2, <4>3 DEF Handled, Counts
      <4>4. CASE ~found[p]
        BY <4>1, <4>2, <4>4 DEF Handled, Counts
      <4>. QED
        BY <4>3, <4>4
    <3>2. b[run'[p]] = a[run[p]] + 1
      BY <1>3, <1>4, <2>4
    <3>. QED
      BY <1>3, <1>5, <3>1, <3>2
  <2>9. ASSUME NEW q \in Procs, Live(q)', ~dryRun'[q]
        PROVE  /\ run'[q] \in RunIds
               /\ \/ /\ Handled(counts'[q]) = Handled(counts[q]) /\ run'[q] = run[q]
                     /\ ~dryRun[q] /\ Live(q)
                  \/ Handled(counts'[q]) <= b[run'[q]]
    <3>1. CASE q = p
      BY <1>3, <1>4, <2>8, <3>1
    <3>2. CASE q # p
      BY <1>3, <2>9, <3>2, BystandersExplained
    <3>. QED
      BY <3>1, <3>2
  <2>. QED
    BY <1>1, <1>3, <2>4, <2>6, <2>7, <2>9, RowsFollowSome, ExplainsRemains
<1>. QED
  BY <1>2, <1>7, <1>8

LEMMA MovesCoveredInvariance ==
  ASSUME Procs = {Background}
  PROVE  Spec => []MovesCovered
<1>1. Init => MovesCovered
  <2>. SUFFICES ASSUME Init PROVE MovesCovered
    OBVIOUS
  <2>. DEFINE a == [i \in RunIds |-> 0]
  <2>1. a \in [RunIds -> Nat] /\ \A i \in RunIds : a[i] = 0
    OBVIOUS
  <2>2. IsFiniteSet(RunIds)
    BY RunIdsFinite
  <2>3. \A i \in RunIds : Handled(jobRuns[i].counts) = 0
    BY ZeroCounts DEF Init, Handled
  <2>4. \A p \in Procs : ~Live(p)
    BY DEF Init, Live
  <2>. HIDE DEF a
  <2>5. SumFunction(a) <= Cardinality(Moved)
    <3>1. SumFunction(a) = 0
      BY <2>1, <2>2, SumZero
    <3>. QED
      BY <3>1, MovedType
  <2>6. Explains(a)
    BY <2>1, <2>3, <2>4, <2>5 DEF Explains
  <2>. QED
    BY <2>6 DEF MovesCovered
<1>2. TypeOK /\ Inv /\ HistoryInv /\ DryRunsInspect /\ RunsAccount /\ LeftInInbox /\ MovesCovered
        /\ [Next]_vars => MovesCovered'
  <2>. SUFFICES ASSUME TypeOK, Inv, HistoryInv, DryRunsInspect, RunsAccount, LeftInInbox,
                       MovesCovered, [Next]_vars
                PROVE  MovesCovered'
    OBVIOUS
  <2>1. ASSUME NEW p \in Procs, RunStep(p) PROVE MovesCovered'
    BY <2>1, RunStepExplains, ArchiveExplains DEF Inv
  <2>2. PICK a : Explains(a)
    BY DEF MovesCovered
  <2>3. a \in [RunIds -> Nat] /\ \A i \in RunIds : a[i] <= a[i]
    BY <2>2 DEF Explains
  <2>4. ASSUME NEW p \in Procs, NEW dry \in BOOLEAN, StartRun(p, dry) PROVE MovesCovered'
    <3>1. SumFunction(a) <= Cardinality(Moved')
      <4>1. Moved' = Moved
        BY <2>4, StartRunResets DEF Moved
      <4>. QED
        BY <2>2, <4>1 DEF Explains
    <3>2. ASSUME NEW q \in Procs, Live(q)', ~dryRun'[q]
          PROVE  /\ run'[q] \in RunIds
                 /\ \/ counts'[q] = Zero
                    \/ /\ Handled(counts'[q]) = Handled(counts[q]) /\ run'[q] = run[q]
                       /\ ~dryRun[q] /\ Live(q)
      <4>1. \/ AccountsLocals(q)' = AccountsLocals(q) /\ run'[q] = run[q]
            \/ run'[q] \in RunIds /\ counts'[q] = Zero
        BY <2>4, StartRunResets
      <4>. QED
        BY <3>2, <4>1 DEF AccountsLocals, Live, HistoryInv, RowsAreOwned
    <3>. QED
      BY <2>2, <2>3, <2>4, <3>1, <3>2, StartRunResets, ExplainsRemains
  <2>5. CASE \/ \E p \in Procs : Crash(p)
             \/ \E m \in Msgs : Deliver(m)
             \/ ResetUidValidity
             \/ \E i \in RunIds : DeleteRun(i)
             \/ UNCHANGED vars
    <3>1. Moved' = Moved
      BY <2>5 DEF Crash, Deliver, ResetUidValidity, DeleteRun, vars, stores, Moved, TypeOK, StoresOK
    <3>2. SumFunction(a) <= Cardinality(Moved')
      BY <2>2, <3>1 DEF Explains
    <3>3. \A i \in RunIds : jobRuns'[i] = jobRuns[i] \/ jobRuns'[i].counts = Zero
      BY <2>5, OthersReset, ZeroCounts
    <3>4. ASSUME NEW q \in Procs, Live(q)', ~dryRun'[q]
          PROVE  /\ run'[q] \in RunIds
                 /\ Handled(counts'[q]) = Handled(counts[q]) /\ run'[q] = run[q]
                 /\ ~dryRun[q] /\ Live(q)
      <4>1. AccountsLocals(q)' = AccountsLocals(q) /\ run'[q] = run[q]
        BY <2>5, <3>4, OthersReset
      <4>. QED
        BY <3>4, <4>1 DEF AccountsLocals, Live, HistoryInv, RowsAreOwned
    <3>. QED
      BY <2>2, <2>3, <3>2, <3>3, <3>4, ExplainsRemains
  <2>. QED
    BY <2>1, <2>4, <2>5 DEF Next
<1>. QED
  BY <1>1, <1>2, TypeCorrect, Invariance, HistoryInvariance, DryInvariance,
     AccountsInvariance, LeftInvariance, PTL DEF Spec

\* While one process runs: every email the history of real runs counts as
\* imported or already present has left the inbox, even in runs that failed,
\* and no email is counted by two runs.
THEOREM CountedAreMoved ==
  ASSUME Procs = {Background}
  PROVE  Spec => []CountedEmailsMoved
<1>1. TypeOK /\ MovesCovered => CountedEmailsMoved
  <2>. SUFFICES ASSUME TypeOK, MovesCovered PROVE CountedEmailsMoved
    OBVIOUS
  <2>. DEFINE f == [i \in RunIds |->
                      IF jobRuns[i].dryRun THEN 0
                      ELSE jobRuns[i].counts.imported + jobRuns[i].counts.alreadyPresent]
  <2>1. PICK a : Explains(a)
    BY DEF MovesCovered
  <2>2. /\ f \in [RunIds -> Nat] /\ a \in [RunIds -> Nat]
        /\ \A i \in RunIds : f[i] <= a[i]
    BY <2>1, CountTypes DEF Explains, Handled
  <2>3. IsFiniteSet(RunIds)
    BY RunIdsFinite
  <2>. HIDE DEF f
  <2>4. SumFunction(f) <= SumFunction(a)
    BY <2>2, <2>3, SumMonotone
  <2>5. SumFunction(f) \in Nat /\ SumFunction(a) \in Nat /\ Cardinality(Moved) \in Nat
    BY <2>2, <2>3, SumType, MovedType
  <2>6. SumFunction(f) <= Cardinality(Moved)
    BY <2>1, <2>4, <2>5 DEF Explains
  <2>. QED
    BY <2>6 DEF CountedEmailsMoved, f, Moved
<1>. QED
  BY <1>1, TypeCorrect, MovesCoveredInvariance, PTL
=============================================================================
