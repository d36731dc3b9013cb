--------------------------- MODULE LegacyTransferRuns ---------------------------
(***************************************************************************)
(* What the runs of LegacyTransfer leave behind, for any number of         *)
(* messages, runs and faults: their summaries add up and their statistics  *)
(* agree with them, the records are the claims the deduplication by UIDL   *)
(* promises, the cleanup forgets no message the scan still meets, and only *)
(* a fault makes a second copy of a message.                               *)
(*                                                                         *)
(* The claims withstand every cleanup where the floor of the retention     *)
(* exceeds the mailbox; the scan stays remembered where one instance runs  *)
(* at a time and the floor covers two windows of the scan.                 *)
(***************************************************************************)
EXTENDS LegacyTransferProofs, SumFunctionLemmas
-----------------------------------------------------------------------------
(***************************************************************************)
(* The counts of a run and of its summary.                                 *)
(***************************************************************************)
Adds(c) == c.processed = c.skipped + c.failed + c.transferred /\ c.processed <= c.detected

\* The counts add up all along, and the messages not yet processed are those of
\* the batch, until an exception abandons it.
LocalAccount(r) ==
  LET c == job[r].counts
  IN /\ Adds(c)
     /\ pc[r] \in Beginning => c = NoCounts /\ ~job[r].thrown
     /\ pc[r] \in Working => c.detected = c.processed + Len(batch[r]) /\ ~job[r].thrown
     /\ pc[r] \in {"cleanup", "delete"} => c.detected = c.processed /\ ~job[r].thrown
     /\ pc[r] \in Closing /\ ~job[r].thrown => c.detected = c.processed

\* The summary adds up too, and is final once the job is completed.
SummaryAccount(r) ==
  LET c == jobRuns[r].counts
  IN /\ Adds(c)
     /\ pc[r] = "unborn" => c = NoCounts
     /\ \/ pc[r] = "returned"
        \/ pc[r] \in {"refresh", "saveStatistics"} /\ ~job[r].thrown
        => c.processed = c.detected

\* Where a run may have imported the message it works on without counting it.
Importing == {"markImported", "lookup", "remark"}

\* The imports a run has to its credit: those it counted and the one under way
\* while it lives, those of its summary afterwards.
Credit(r) ==
  IF Live(r) THEN job[r].counts.transferred + (IF pc[r] \in Importing THEN 1 ELSE 0)
  ELSE jobRuns[r].counts.transferred

AccountsInv ==
  /\ \A r \in Runs : LocalAccount(r) /\ SummaryAccount(r)
  /\ \A r \in Runs : Live(r) => jobRuns[r].counts.transferred <= job[r].counts.transferred
  /\ SumFunction([r \in Runs |-> Credit(r)]) <= SumFunction(gmail)

LEMMA CountsAdd ==
  ASSUME NEW c \in Counts, Adds(c)
  PROVE  /\ \A n \in Nat : c = NoCounts =>
              /\ Adds(WithDetected(c, n))
              /\ WithDetected(c, n).detected = n /\ WithDetected(c, n).processed = 0
              /\ WithDetected(c, n).transferred = 0
         /\ \A d \in {MarkSkipped(c), CountFailed(c), MarkTransferred(c)} :
              /\ d.detected = c.detected /\ d.processed = c.processed + 1
              /\ c.processed + 1 <= c.detected => Adds(d)
         /\ MarkSkipped(c).transferred = c.transferred
         /\ CountFailed(c).transferred = c.transferred
         /\ MarkTransferred(c).transferred = c.transferred + 1
BY DEF Counts, NoCounts, Adds, WithDetected, MarkSkipped, CountFailed, MarkTransferred

LEMMA NothingAdds == Adds(NoCounts) /\ NoCounts.processed = NoCounts.detected
BY DEF Adds, NoCounts

\* What the end of a run, or its catch block, leaves of its locals.
LEMMA LeavingCounts ==
  ASSUME TypeInv, NEW r \in Runs
  PROVE  /\ ToCatch(r) =>
              /\ pc'[r] = "complete" /\ batch'[r] = <<>>
              /\ job'[r].counts = job[r].counts /\ job'[r].thrown
         /\ \A how \in Ended : End(r, how) =>
              /\ pc'[r] = how /\ job'[r].counts = NoCounts
<1>1. RunsOK /\ job[r] \in Job
  BY DEF TypeInv, RunsOK
<1>2. ASSUME ToCatch(r)
      PROVE  /\ pc'[r] = "complete" /\ batch'[r] = <<>>
             /\ job'[r].counts = job[r].counts /\ job'[r].thrown
  <2>1. /\ pc'[r] = "complete" /\ batch'[r] = <<>>
        /\ job'[r] = [job[r] EXCEPT !.thrown = TRUE, !.toRead = <<>>]
    BY <1>1, <1>2, RunsAfterToCatch
  <2>. QED
    BY <1>1, <2>1 DEF Job
<1>3. ASSUME NEW how \in Ended, End(r, how)
      PROVE  pc'[r] = how /\ job'[r].counts = NoCounts
  <2>1. pc'[r] = how /\ job'[r] = [NoJob EXCEPT !.startedAt = job[r].startedAt]
    BY <1>1, <1>3, RunsAfterEnd
  <2>. QED
    BY <2>1 DEF NoJob
<1>. QED
  BY <1>2, <1>3

\* What counting a message does to the locals of a run.
LEMMA CountedOne ==
  ASSUME TypeInv, NEW r \in Runs, NEW counted, Counts1(r, counted), LocalAccount(r)
  PROVE  /\ pc'[r] = (IF batch'[r] = <<>> THEN "cleanup" ELSE "claim")
         /\ batch'[r] \in Seq(References) /\ Len(batch'[r]) = Len(batch[r]) - 1
         /\ job'[r].counts = counted /\ counted \in Counts /\ Adds(counted)
         /\ counted.detected = job[r].counts.detected
         /\ counted.processed = job[r].counts.processed + 1
         /\ job'[r].thrown = job[r].thrown
         /\ counted.transferred =
              job[r].counts.transferred + (IF pc[r] \in Importing THEN 1 ELSE 0)
<1>. DEFINE c == job[r].counts
<1>1. RunsOK /\ job[r] \in Job /\ c \in Counts /\ batch[r] \in Seq(References)
  BY DEF TypeInv, RunsOK, Job
<1>2. pc[r] \in Working /\ NextMessage(r, counted)
  BY DEF Counts1
<1>3. batch[r] # <<>>
  BY <1>1, <1>2 DEF RunsOK
<1>4. /\ counted \in {MarkSkipped(c), CountFailed(c), MarkTransferred(c)}
      /\ pc[r] \in Importing <=> counted = MarkTransferred(c) /\ pc[r] \in {"markImported", "remark"}
  <2>1. pc[r] # "lookup"
    BY DEF Counts1
  <2>. QED
    BY <2>1 DEF Counts1, Importing
<1>5. counted \in Counts
  BY <1>1, <1>4, CountUpdates
<1>6. /\ pc'[r] = (IF Tail(batch[r]) = <<>> THEN "cleanup" ELSE "claim")
      /\ batch'[r] = Tail(batch[r])
      /\ job'[r] = [job[r] EXCEPT !.counts = counted, !.rawMessage = {}, !.calls = 0]
  BY <1>1, <1>2, <1>5, RunsAfterNextMessage
<1>7. job'[r].counts = counted /\ job'[r].thrown = job[r].thrown
  BY <1>1, <1>6 DEF Job
<1>8. batch'[r] \in Seq(References) /\ Len(batch'[r]) = Len(batch[r]) - 1 /\ Len(batch[r]) \in Nat
  BY <1>1, <1>3, <1>6, HeadTailProperties, LenProperties
<1>9. Adds(c) /\ c.detected = c.processed + Len(batch[r])
  BY <1>2 DEF LocalAccount
<1>10. Len(batch[r]) >= 1
  BY <1>1, <1>3, EmptySeq, LenProperties
<1>11. c.processed + 1 <= c.detected
  BY <1>1, <1>8, <1>9, <1>10 DEF Counts
<1>12. /\ Adds(counted) /\ counted.detected = c.detected /\ counted.processed = c.processed + 1
  BY <1>1, <1>4, <1>9, <1>11, CountsAdd
<1>13. counted.transferred = c.transferred + (IF pc[r] \in Importing THEN 1 ELSE 0)
  <2>1. /\ MarkSkipped(c).transferred = c.transferred
        /\ CountFailed(c).transferred = c.transferred
        /\ MarkTransferred(c).transferred = c.transferred + 1
        /\ c.transferred \in Nat
    BY <1>1, <1>9, CountsAdd DEF Counts
  <2>2. \/ pc[r] \in Importing /\ counted = MarkTransferred(c)
        \/ pc[r] \notin Importing /\ counted \in {MarkSkipped(c), CountFailed(c)}
    BY DEF Counts1, Importing
  <2>. HIDE DEF c
  <2>. QED
    BY <2>1, <2>2
<1>. QED
  BY <1>5, <1>6, <1>7, <1>8, <1>12, <1>13

LEMMA LocalAccountKept ==
  ASSUME TypeInv, NEW r \in Runs, Start(r) \/ RunStep(r) \/ Kill(r), LocalAccount(r)
  PROVE  LocalAccount(r)'
<1>. DEFINE c == job[r].counts
<1>1. RunsOK /\ job[r] \in Job /\ c \in Counts /\ c.detected \in Nat /\ c.processed \in Nat
      /\ batch[r] \in Seq(References) /\ Len(batch[r]) \in Nat /\ pc[r] \in Steps
  BY LenProperties DEF TypeInv, RunsOK, Job, Counts
<1>2. Adds(c)
  BY DEF LocalAccount
<1>3. CASE Quiet(r)
  <2>1. /\ batch'[r] = batch[r]
        /\ job'[r].counts = job[r].counts /\ job'[r].thrown = job[r].thrown
        /\ \/ pc[r] \in Beginning /\ pc'[r] \in Beginning \cup {"complete"}
           \/ pc[r] \in Working /\ pc'[r] \in Holding
           \/ pc[r] \in {"cleanup", "delete"} /\ pc'[r] \in {"delete", "complete"}
           \/ pc[r] \in Closing /\ pc'[r] \in Closing
    BY <1>3 DEF Quiet
  <2>2. NoCounts.detected = NoCounts.processed
    BY DEF NoCounts
  <2>. QED
    BY <1>2, <2>1, <2>2 DEF LocalAccount, Beginning, Closing, Working, Holding
<1>4. CASE Reads(r)
  <2>1. /\ c = NoCounts /\ ~job'[r].thrown /\ Len(batch'[r]) \in Nat
    BY <1>1, <1>4, LenProperties DEF Reads, LocalAccount, Beginning
  <2>2. CASE pc'[r] = "metadata"
    BY <1>2, <1>4, <2>1, <2>2 DEF Reads, LocalAccount, Beginning, Closing, Working, Holding
  <2>3. CASE pc'[r] = "claim"
    <3>. DEFINE d == job'[r].counts
    <3>1. Adds(d) /\ d.detected = Len(batch'[r]) /\ d.processed = 0
      BY <1>1, <1>2, <1>4, <2>1, <2>3, CountsAdd DEF Reads
    <3>. QED
      BY <2>1, <2>3, <3>1 DEF LocalAccount, Beginning, Closing, Working, Holding
  <2>. QED
    BY <1>4, <2>2, <2>3 DEF Reads
<1>5. CASE Lists(r)
  <2>. DEFINE d == job'[r].counts
  <2>1. c = NoCounts /\ ~job'[r].thrown /\ Len(batch'[r]) \in Nat
    BY <1>1, <1>5, LenProperties DEF Lists, LocalAccount, Beginning
  <2>2. Adds(d) /\ d.detected = Len(batch'[r]) /\ d.processed = 0
    BY <1>1, <1>2, <1>5, <2>1, CountsAdd DEF Lists
  <2>3. pc'[r] = "complete" => Len(batch'[r]) = 0
    BY <1>5, EmptySeq, LenProperties DEF Lists
  <2>. QED
    BY <1>5, <2>1, <2>2, <2>3 DEF Lists, LocalAccount, Beginning, Closing, Working, Holding
<1>6. ASSUME NEW counted, Counts1(r, counted)
      PROVE  LocalAccount(r)'
  <2>. DEFINE d == job'[r].counts
  <2>1. c.detected = c.processed + Len(batch[r]) /\ ~job[r].thrown
    BY <1>6 DEF Counts1, LocalAccount
  <2>2. /\ pc'[r] = (IF batch'[r] = <<>> THEN "cleanup" ELSE "claim")
        /\ batch'[r] \in Seq(References) /\ Len(batch'[r]) = Len(batch[r]) - 1
        /\ Adds(d) /\ d.detected = c.detected /\ d.processed = c.processed + 1
        /\ job'[r].thrown = job[r].thrown
    BY <1>6, CountedOne
  <2>. HIDE DEF c, d
  <2>3. d.detected = d.processed + Len(batch'[r])
    <3>1. ASSUME NEW x \in Nat, NEW y \in Nat, NEW l \in Nat, x = y + l
          PROVE  x = (y + 1) + (l - 1)
      BY <3>1
    <3>2. c.detected \in Nat /\ c.processed \in Nat /\ c.detected = c.processed + Len(batch[r])
      BY <1>1, <2>1
    <3>3. c.detected = (c.processed + 1) + (Len(batch[r]) - 1)
      BY ONLY <1>1, <3>1, <3>2
    <3>. QED
      BY <2>2, <3>3
  <2>4. batch'[r] = <<>> => d.detected = d.processed
    <3>1. batch'[r] = <<>> => Len(batch'[r]) = 0
      BY <2>2, EmptySeq, LenProperties
    <3>2. d.processed \in Nat
      BY <1>1, <2>2
    <3>. QED
      BY <2>3, <3>1, <3>2
  <2>. QED
    BY <2>1, <2>2, <2>3, <2>4 DEF d, LocalAccount, Beginning, Closing, Working, Holding
<1>7. CASE ToCatch(r)
  <2>1. pc'[r] = "complete" /\ job'[r].counts = c /\ job'[r].thrown
    BY <1>7, LeavingCounts
  <2>. QED
    BY <1>2, <2>1 DEF LocalAccount, Beginning, Closing, Working, Holding
<1>8. ASSUME NEW how \in Ended, End(r, how)
      PROVE  LocalAccount(r)'
  <2>1. pc'[r] = how /\ job'[r].counts = NoCounts
    BY <1>8, LeavingCounts
  <2>. QED
    BY <2>1, NothingAdds DEF LocalAccount, Beginning, Closing, Working, Holding, Ended
<1>. QED
  BY <1>3, <1>4, <1>5, <1>6, <1>7, <1>8, StepKinds

\* The summaries a step of run r leaves: a deleted one is empty, its own one is
\* final once the job is completed.
LEMMA SummariesAfter ==
  ASSUME TypeInv, NEW r \in Runs, Start(r) \/ RunStep(r) \/ Kill(r)
  PROVE  /\ \A q \in Runs \ {r} : jobRuns'[q].counts \in {jobRuns[q].counts, NoCounts}
         /\ \/ jobRuns'[r].counts \in {jobRuns[r].counts, NoCounts}
            \/ pc[r] = "complete" /\ jobRuns'[r].counts = job[r].counts
         /\ pc[r] = "complete" /\ pc'[r] \in {"refresh", "returned"} =>
              jobRuns'[r].counts = job[r].counts
         /\ pc[r] \in {"refresh", "saveStatistics"} => UNCHANGED jobRuns
         /\ pc[r] = "unborn" => UNCHANGED jobRuns
<1>1. jobRuns \in [Runs -> JobRuns]
  BY DEF TypeInv, StoresOK
<1>2. CASE Start(r)
  BY <1>2, StartEffect DEF runStores
<1>3. CASE RunStep(r) \/ Kill(r)
  <2>1. /\ NoJobRun.counts = NoCounts /\ Started(r).counts = NoCounts
        /\ Finalized(r).counts = job[r].counts
    BY DEF NoJobRun, Started, Finalized
  <2>2. ASSUME NEW S \in SUBSET Stale(r), jobRuns' = Deleted(S), NEW q \in Runs
        PROVE  jobRuns'[q] \in {jobRuns[q], NoJobRun}
    BY <2>2 DEF Deleted
  <2>3. ASSUME NEW summary, jobRuns' = [jobRuns EXCEPT ![r] = summary]
        PROVE  jobRuns'[r] = summary /\ \A q \in Runs \ {r} : jobRuns'[q] = jobRuns[q]
    BY <1>1, <2>3
  <2>4. pc[r] # "unborn" /\ (pc'[r] = "killed" => pc'[r] \notin {"refresh", "returned"})
    BY <1>3, HourKept DEF Live
  <2>5. CASE /\ pc[r] = "reconcile" /\ pc'[r] \in {"saveStarted", "rejected"}
             /\ \E S \in SUBSET Stale(r) : jobRuns' = Deleted(S)
    BY <2>1, <2>2, <2>5
  <2>6. CASE /\ pc[r] = "saveStarted" /\ pc'[r] \in {"list", "rejected"}
             /\ jobRuns' \in {jobRuns, [jobRuns EXCEPT ![r] = Started(r)]}
    BY <2>1, <2>3, <2>6
  <2>7. CASE /\ pc[r] = "complete"
             /\ jobRuns' \in {jobRuns, [jobRuns EXCEPT ![r] = Finalized(r)]}
             /\ pc'[r] \in {"refresh", "returned"} => jobRuns' = [jobRuns EXCEPT ![r] = Finalized(r)]
    BY <2>1, <2>3, <2>7
  <2>8. CASE /\ pc[r] \notin Opening \cup {"complete"} \/ pc'[r] = "killed"
             /\ UNCHANGED jobRuns
    BY <2>4, <2>8
  <2>. QED
    BY <1>3, <2>5, <2>6, <2>7, <2>8, SummariesChange
<1>. QED
  BY <1>2, <1>3

LEMMA SummaryAccountKept ==
  ASSUME TypeInv, NEW r \in Runs, Start(r) \/ RunStep(r) \/ Kill(r),
         LocalAccount(r), SummaryAccount(r)
  PROVE  SummaryAccount(r)'
<1>. DEFINE d == jobRuns'[r].counts
<1>1. pc[r] \in Steps /\ Adds(job[r].counts)
  BY DEF TypeInv, RunsOK, LocalAccount
<1>2. Adds(d)
  BY <1>1, NothingAdds, SummariesAfter DEF SummaryAccount
<1>3. pc'[r] # "unborn"
  <2>1. ~ Start(r) => pc'[r] # "unborn"
    BY HourKept
  <2>. QED
    BY <2>1, StartEffect
<1>4. \/ pc'[r] = "returned" /\ ~job[r].thrown /\ pc[r] \in Closing
      \/ pc'[r] \in {"refresh", "saveStatistics"} /\ job'[r].thrown = job[r].thrown /\ pc[r] \in Closing
         /\ (pc'[r] = "refresh" => pc[r] = "complete")
         /\ (pc'[r] = "saveStatistics" => pc[r] # "complete")
      \/ pc'[r] \notin {"returned", "refresh", "saveStatistics"}
  <2>1. CASE Quiet(r)
    BY <2>1 DEF Quiet, Beginning, Holding, Closing
  <2>2. CASE Reads(r) \/ Lists(r)
    BY <2>2 DEF Reads, Lists
  <2>3. CASE \E counted : Counts1(r, counted)
    BY <2>3, CountedOne
  <2>4. CASE ToCatch(r)
    BY <2>4, LeavingCounts
  <2>5. ASSUME NEW how \in Ended, End(r, how), how = "returned" => pc[r] \in Closing /\ ~job[r].thrown
        PROVE  \/ pc'[r] = "returned" /\ ~job[r].thrown /\ pc[r] \in Closing
               \/ pc'[r] \notin {"returned", "refresh", "saveStatistics"}
    BY <2>5, LeavingCounts DEF Ended
  <2>. QED
    BY <2>1, <2>2, <2>3, <2>4, <2>5, StepKinds
<1>5. ASSUME \/ pc'[r] = "returned"
             \/ pc'[r] \in {"refresh", "saveStatistics"} /\ ~job'[r].thrown
      PROVE  d.processed = d.detected
  <2>1. pc[r] \in Closing /\ ~job[r].thrown
    BY <1>4, <1>5
  <2>2. CASE pc[r] = "complete"
    <3>1. d = job[r].counts
      BY <1>4, <1>5, <2>2, SummariesAfter
    <3>. QED
      BY <2>1, <3>1 DEF LocalAccount
  <2>3. CASE pc[r] \in {"refresh", "saveStatistics"}
    <3>1. d = jobRuns[r].counts
      BY <2>3, SummariesAfter
    <3>. QED
      BY <2>1, <2>3, <3>1 DEF SummaryAccount
  <2>. QED
    BY <2>1, <2>2, <2>3 DEF Closing
<1>. QED
  BY <1>2, <1>3, <1>5 DEF SummaryAccount

LEMMA CreditType ==
  ASSUME TypeInv
  PROVE  /\ [q \in Runs |-> Credit(q)] \in [Runs -> Nat]
         /\ \A q \in Runs : /\ Credit(q) \in Nat
                            /\ job[q].counts.transferred \in Nat
                            /\ jobRuns[q].counts.transferred \in Nat
<1>. SUFFICES ASSUME NEW q \in Runs
              PROVE  /\ Credit(q) \in Nat
                     /\ job[q].counts.transferred \in Nat
                     /\ jobRuns[q].counts.transferred \in Nat
  OBVIOUS
<1>1. job[q] \in Job /\ jobRuns[q] \in JobRuns
  BY DEF TypeInv, StoresOK, RunsOK
<1>2. job[q].counts.transferred \in Nat /\ jobRuns[q].counts.transferred \in Nat
  BY <1>1 DEF Job, JobRuns, Counts
<1>. QED
  BY <1>2 DEF Credit

\* A run gains a credit with the import it sees succeed, and only with it.
LEMMA OwnCredit ==
  ASSUME TypeInv, NEW r \in Runs, Start(r) \/ RunStep(r) \/ Kill(r),
         LocalAccount(r), SummaryAccount(r),
         Live(r) => jobRuns[r].counts.transferred <= job[r].counts.transferred
  PROVE  /\ Live(r)' => jobRuns'[r].counts.transferred <= job'[r].counts.transferred
         /\ \/ Credit(r)' <= Credit(r)
            \/ /\ Credit(r)' <= Credit(r) + 1
               /\ \E u \in job[r].rawMessage : gmail' = [gmail EXCEPT ![u] = gmail[u] + 1]
<1>. DEFINE c  == job[r].counts.transferred
            c1 == job'[r].counts.transferred
            d  == jobRuns[r].counts.transferred
            d1 == jobRuns'[r].counts.transferred
            Delivers == \E u \in job[r].rawMessage : gmail' = [gmail EXCEPT ![u] = gmail[u] + 1]
<1>. SUFFICES /\ Live(r)' => d1 <= c1
              /\ Credit(r)' <= Credit(r) \/ (Credit(r)' <= Credit(r) + 1 /\ Delivers)
  OBVIOUS
<1>1. /\ TypeInv' /\ pc[r] \in Steps /\ pc'[r] \in Steps
      /\ c \in Nat /\ c1 \in Nat /\ d \in Nat /\ d1 \in Nat
  <2>1. TypeInv'
    BY TypePreserved DEF Next
  <2>2. pc[r] \in Steps /\ job[r] \in Job /\ jobRuns[r] \in JobRuns
    BY DEF TypeInv, StoresOK, RunsOK
  <2>3. pc'[r] \in Steps /\ job'[r] \in Job /\ jobRuns'[r] \in JobRuns
    BY <2>1 DEF TypeInv, StoresOK, RunsOK
  <2>. QED
    BY <2>1, <2>2, <2>3 DEF Job, JobRuns, Counts
<1>2. NoCounts.transferred = 0
  BY DEF NoCounts
<1>3. d1 \in {d, 0} \/ (pc[r] = "complete" /\ d1 = c)
  <2>1. \/ jobRuns'[r].counts \in {jobRuns[r].counts, NoCounts}
        \/ pc[r] = "complete" /\ jobRuns'[r].counts = job[r].counts
    BY SummariesAfter
  <2>. QED
    BY <1>2, <2>1
<1>4. Live(r) => d <= c
  OBVIOUS
<1>5. pc[r] = "unborn" => c = 0 /\ d = 0 /\ d1 = 0
  BY <1>2, SummariesAfter DEF LocalAccount, SummaryAccount, Beginning
<1>6. pc[r] \notin Ended
  BY HourKept DEF Start, Live, Ended
<1>7. /\ Live(r) => Credit(r) = c + (IF pc[r] \in Importing THEN 1 ELSE 0)
      /\ ~Live(r) => Credit(r) = d
      /\ Live(r)' => Credit(r)' = c1 + (IF pc'[r] \in Importing THEN 1 ELSE 0)
      /\ ~Live(r)' => Credit(r)' = d1
  BY DEF Credit
<1>8. /\ Live(r) <=> pc[r] # "unborn"
      /\ Live(r)' <=> pc'[r] \notin Ended
  <2>1. pc'[r] # "unborn"
    BY HourKept, StartEffect
  <2>. QED
    BY <1>6, <2>1 DEF Live, Ended
<1>9. \/ c1 = c /\ pc'[r] \notin Ended /\ pc'[r] \notin Importing
      \/ c1 = c /\ pc[r] \in Importing /\ pc'[r] \in Importing
      \/ /\ c1 = c /\ pc[r] = "import" /\ pc'[r] = "markImported"
         /\ Delivers
      \/ /\ c1 = c + (IF pc[r] \in Importing THEN 1 ELSE 0)
         /\ pc'[r] \notin Ended \cup Importing /\ pc[r] \notin {"unborn", "complete"}
      \/ pc'[r] \in Ended
  <2>1. CASE Quiet(r)
    <3>1. c1 = c /\ pc'[r] \notin Ended
      BY <2>1 DEF Quiet, Ended, Beginning, Holding, Closing
    <3>2. pc'[r] \in Importing =>
            \/ pc[r] \in Importing
            \/ /\ pc[r] = "import" /\ pc'[r] = "markImported"
               /\ Delivers
      BY MessagePath DEF Importing
    <3>. QED
      BY <3>1, <3>2
  <2>2. CASE Reads(r) \/ Lists(r)
    <3>1. job[r].counts = NoCounts /\ pc[r] \notin Ended
      BY <2>2 DEF Reads, Lists, LocalAccount, Beginning, Ended
    <3>2. \A n \in Nat : WithDetected(NoCounts, n).transferred = 0
      BY DEF WithDetected, NoCounts
    <3>3. Len(batch'[r]) \in Nat
      BY <1>1, LenProperties DEF TypeInv, RunsOK
    <3>4. c1 = c
      BY <1>2, <2>2, <3>1, <3>2, <3>3 DEF Reads, Lists
    <3>. QED
      BY <2>2, <3>4 DEF Reads, Lists, Importing, Ended
  <2>3. ASSUME NEW counted, Counts1(r, counted)
        PROVE  /\ c1 = c + (IF pc[r] \in Importing THEN 1 ELSE 0)
               /\ pc'[r] \notin Ended \cup Importing /\ pc[r] \notin {"unborn", "complete"}
    <3>1. pc'[r] \in {"cleanup", "claim"} /\ c1 = c + (IF pc[r] \in Importing THEN 1 ELSE 0)
      BY <2>3, CountedOne
    <3>2. pc[r] \in Working
      BY <2>3 DEF Counts1
    <3>. QED
      BY <3>1, <3>2 DEF Ended, Importing, Working, Holding
  <2>4. CASE ToCatch(r)
    BY <2>4, LeavingCounts DEF Ended, Importing
  <2>5. ASSUME NEW how \in Ended, End(r, how)
        PROVE  pc'[r] \in Ended
    BY <2>5, LeavingCounts
  <2>. QED
    BY <2>1, <2>2, <2>3, <2>4, <2>5, StepKinds
<1>10. pc[r] = "complete" => pc[r] \notin Importing
  BY DEF Importing
<1>11. "unborn" \notin Importing /\ "import" \notin Importing /\ "markImported" \notin Ended
       /\ "markImported" \in Importing /\ Importing \cap Ended = {}
  BY DEF Importing, Ended
<1>12. pc[r] = "unborn" => pc'[r] \notin Ended
  BY HourKept, StartEffect DEF Ended, Live
<1>. DEFINE i  == IF pc[r] \in Importing THEN 1 ELSE 0
            i1 == IF pc'[r] \in Importing THEN 1 ELSE 0
<1>13. i \in {0, 1} /\ i1 \in {0, 1}
  OBVIOUS
<1>14. CASE pc'[r] \in Ended
  <2>1. Credit(r) = c + i /\ Credit(r)' = d1 /\ d <= c
    BY <1>4, <1>7, <1>8, <1>12, <1>14
  <2>2. ~Live(r)'
    BY <1>8, <1>14
  <2>. HIDE DEF c, c1, d, d1, i, i1, Delivers
  <2>. QED
    BY <1>1, <1>3, <1>13, <2>1, <2>2
<1>15. CASE pc[r] = "unborn"
  <2>1. c = 0 /\ d = 0 /\ d1 = 0 /\ Credit(r) = 0 /\ Credit(r)' = c1 + i1
    BY <1>5, <1>7, <1>8, <1>12, <1>15
  <2>2. c1 = 0 /\ i1 = 0
    BY <1>9, <1>11, <1>12, <1>15, <2>1
  <2>. HIDE DEF c, c1, d, d1, i, i1, Delivers
  <2>. QED
    BY <2>1, <2>2
<1>16. CASE pc[r] # "unborn" /\ pc'[r] \notin Ended
  <2>1. Credit(r) = c + i /\ Credit(r)' = c1 + i1 /\ d <= c
    BY <1>4, <1>7, <1>8, <1>16
  <2>2. \/ c1 = c /\ i1 = 0
        \/ c1 = c /\ i = 1 /\ i1 = 1 /\ pc[r] # "complete"
        \/ /\ c1 = c /\ i = 0 /\ i1 = 1 /\ pc[r] # "complete"
           /\ Delivers
        \/ c1 = c + i /\ i1 = 0 /\ pc[r] # "complete"
    BY <1>9, <1>10, <1>11, <1>16
  <2>3. c1 + i1 <= c + i \/ (c1 + i1 = c + i + 1 /\ Delivers)
    <3>. HIDE DEF c, c1, d, d1, i, i1, Delivers
    <3>. QED
      BY <1>1, <1>13, <2>2
  <2>4. d1 <= c1
    <3>. HIDE DEF c, c1, d, d1, i, i1, Delivers
    <3>. QED
      BY <1>1, <1>3, <1>13, <2>1, <2>2
  <2>. HIDE DEF c, c1, d, d1, i, i1, Delivers
  <2>. QED
    BY <1>1, <1>13, <2>1, <2>3, <2>4
<1>. QED
  BY <1>14, <1>15, <1>16

\* The credit of another run can only be lost, with its summary.
LEMMA OthersCredit ==
  ASSUME TypeInv, NEW r \in Runs, Start(r) \/ RunStep(r) \/ Kill(r), NEW q \in Runs \ {r}
  PROVE  /\ Live(q)' <=> Live(q)
         /\ job'[q] = job[q]
         /\ jobRuns'[q].counts.transferred <= jobRuns[q].counts.transferred
         /\ Credit(q)' <= Credit(q)
<1>1. pc'[q] = pc[q] /\ job'[q] = job[q]
  BY StepKeepsRuns DEF OnlyRun
<1>2. /\ job[q].counts.transferred \in Nat /\ jobRuns[q].counts.transferred \in Nat
  BY CreditType
<1>3. jobRuns'[q].counts.transferred \in {jobRuns[q].counts.transferred, 0}
  BY SummariesAfter DEF NoCounts
<1>4. Live(q)' <=> Live(q)
  BY <1>1 DEF Live
<1>. QED
  BY <1>1, <1>2, <1>3, <1>4 DEF Credit

LEMMA AccountsPreserved == TypeInv /\ AccountsInv /\ [Next]_vars => AccountsInv'
<1>. SUFFICES ASSUME TypeInv, AccountsInv, [Next]_vars PROVE AccountsInv'
  OBVIOUS
<1>1. CASE UNCHANGED <<pc, batch, job, jobRuns, gmail>>
  <2>1. \A r \in Runs : /\ LocalAccount(r)' /\ SummaryAccount(r)' /\ Credit(r)' = Credit(r)
                        /\ Live(r)' => jobRuns'[r].counts.transferred <= job'[r].counts.transferred
    BY <1>1 DEF AccountsInv, LocalAccount, SummaryAccount, Credit, Live
  <2>2. [r \in Runs |-> Credit(r)]' = [r \in Runs |-> Credit(r)]
    BY <2>1
  <2>. QED
    BY <1>1, <2>1, <2>2 DEF AccountsInv
<1>2. ASSUME NEW r \in Runs, Start(r) \/ RunStep(r) \/ Kill(r)
      PROVE  AccountsInv'
  <2>1. OnlyRun(r)
    BY <1>2, StepKeepsRuns
  <2>2. LocalAccount(r)' /\ SummaryAccount(r)'
    BY <1>2, LocalAccountKept, SummaryAccountKept DEF AccountsInv
  <2>3. ASSUME NEW q \in Runs \ {r}
        PROVE  LocalAccount(q)' /\ SummaryAccount(q)'
    <3>1. pc'[q] = pc[q] /\ batch'[q] = batch[q] /\ job'[q] = job[q]
      BY <2>1 DEF OnlyRun
    <3>2. jobRuns'[q].counts \in {jobRuns[q].counts, NoCounts}
      BY <1>2, SummariesAfter
    <3>3. LocalAccount(q) /\ SummaryAccount(q)
      BY DEF AccountsInv
    <3>. QED
      BY <3>1, <3>2, <3>3, NothingAdds DEF LocalAccount, SummaryAccount
  <2>4. /\ Live(r)' => jobRuns'[r].counts.transferred <= job'[r].counts.transferred
        /\ \/ Credit(r)' <= Credit(r)
           \/ /\ Credit(r)' <= Credit(r) + 1
              /\ \E u \in job[r].rawMessage : gmail' = [gmail EXCEPT ![u] = gmail[u] + 1]
    BY <1>2, OwnCredit DEF AccountsInv
  <2>5. \A q \in Runs \ {r} :
          /\ Credit(q)' <= Credit(q)
          /\ Live(q)' => jobRuns'[q].counts.transferred <= job'[q].counts.transferred
    <3>. SUFFICES ASSUME NEW q \in Runs \ {r}
                  PROVE  /\ Credit(q)' <= Credit(q)
                         /\ Live(q)' => jobRuns'[q].counts.transferred <= job'[q].counts.transferred
      OBVIOUS
    <3>1. /\ Live(q)' <=> Live(q)
          /\ job'[q] = job[q]
          /\ jobRuns'[q].counts.transferred <= jobRuns[q].counts.transferred
          /\ Credit(q)' <= Credit(q)
      BY <1>2, OthersCredit
    <3>2. TypeInv'
      BY TypePreserved
    <3>3. job[q].counts.transferred \in Nat /\ jobRuns[q].counts.transferred \in Nat
      BY CreditType
    <3>4. jobRuns'[q].counts.transferred \in Nat
      BY <3>2 DEF TypeInv, StoresOK, JobRuns, Counts
    <3>5. Live(q) => jobRuns[q].counts.transferred <= job[q].counts.transferred
      BY DEF AccountsInv
    <3>. QED
      BY <3>1, <3>3, <3>4, <3>5
  <2>6. SumFunction([q \in Runs |-> Credit(q)])' <= SumFunction(gmail')
    <3>. DEFINE f == [q \in Runs |-> Credit(q)]
                g == [q \in Runs |-> Credit(q)']
                up == 1
                down == -1
    <3>1. IsFiniteSet(Runs) /\ IsFiniteSet(Uidls)
      BY RunsAssumption, MailAssumption, FS_Interval DEF Runs
    <3>2. f \in [Runs -> Nat] /\ gmail \in [Uidls -> Nat]
      BY CreditType DEF TypeInv, StoresOK
    <3>3. TypeInv'
      BY TypePreserved
    <3>4. g \in [Runs -> Nat] /\ gmail' \in [Uidls -> Nat]
      <4>1. \A q \in Runs : Credit(q)' \in Nat
        <5>. SUFFICES ASSUME NEW q \in Runs PROVE Credit(q)' \in Nat
          OBVIOUS
        <5>1. job'[q] \in Job /\ jobRuns'[q] \in JobRuns
          BY <3>3 DEF TypeInv, StoresOK, RunsOK
        <5>2. job'[q].counts.transferred \in Nat /\ jobRuns'[q].counts.transferred \in Nat
          BY <5>1 DEF Job, JobRuns, Counts
        <5>. QED
          BY <5>2 DEF Credit
      <4>. QED
        BY <3>3, <4>1 DEF TypeInv, StoresOK
    <3>5. SumFunction(f) <= SumFunction(gmail)
      BY DEF AccountsInv
    <3>6. /\ \A q \in Runs \ {r} : g[q] <= f[q]
          /\ \/ g[r] <= f[r]
             \/ /\ g[r] <= f[r] + 1
                /\ \E u \in job[r].rawMessage : gmail' = [gmail EXCEPT ![u] = gmail[u] + 1]
      BY <2>4, <2>5
    <3>7. SumFunction([q \in Runs |-> Credit(q)])' = SumFunction(g)
      OBVIOUS
    <3>. HIDE DEF f, g
    <3>8. SumFunction(f) \in Nat /\ SumFunction(g) \in Nat
          /\ SumFunction(gmail) \in Nat /\ SumFunction(gmail') \in Nat
      BY <3>1, <3>2, <3>4, SumType
    <3>9. CASE g[r] <= f[r]
      <4>1. SumFunction(g) <= SumFunction(f)
        BY <3>1, <3>2, <3>4, <3>6, <3>9, SumMonotone
      <4>2. \A u \in Uidls : gmail[u] <= gmail'[u]
        <5>1. ASSUME NEW v, gmail' = [gmail EXCEPT ![v] = gmail[v] + 1], NEW u \in Uidls
              PROVE  gmail[u] <= gmail'[u]
          BY <3>2, <5>1
        <5>. QED
          BY <1>2, <3>2, <5>1, GmailChange
      <4>3. SumFunction(gmail) <= SumFunction(gmail')
        BY <3>1, <3>2, <3>4, <4>2, SumMonotone
      <4>. QED
        BY <3>5, <3>7, <3>8, <4>1, <4>3
    <3>10. ASSUME g[r] <= f[r] + 1, NEW u \in job[r].rawMessage,
                  gmail' = [gmail EXCEPT ![u] = gmail[u] + 1]
           PROVE  SumFunction([q \in Runs |-> Credit(q)])' <= SumFunction(gmail')
      <4>1. u \in Uidls
        BY DEF TypeInv, RunsOK, Job
      <4>2. \A v \in Uidls : gmail'[v] = IF v = u THEN gmail[v] + 1 ELSE gmail[v]
        BY <3>2, <3>10, <4>1
      <4>3. SumFunction(gmail') = SumFunction(gmail) + 1
        BY <3>1, <3>2, <3>4, <4>1, <4>2, SumBump
      <4>4. down \in Int /\ \A q \in Runs : g[q] + (IF q = r THEN down ELSE 0) <= f[q]
        <5>1. \A q \in Runs : f[q] \in Nat /\ g[q] \in Nat
          BY <3>2, <3>4
        <5>. QED
          BY <3>6, <3>10, <5>1
      <4>5. SumFunction(g) + down <= SumFunction(f)
        <5>. HIDE DEF down
        <5>. QED
          BY <3>1, <3>2, <3>4, <4>4, SumShift
      <4>. QED
        BY <3>5, <3>7, <3>8, <4>3, <4>5
    <3>. QED
      BY <3>6, <3>9, <3>10
  <2>. QED
    BY <2>2, <2>3, <2>4, <2>5, <2>6 DEF AccountsInv
<1>3. CASE Tick \/ (\E u \in Uidls : Arrive(u)) \/ (\E n \in DOMAIN maildrop : Remove(n))
  BY <1>1, <1>3 DEF Tick, Arrive, Remove, mailboxes, runStores
<1>4. CASE UNCHANGED vars
  BY <1>1, <1>4 DEF vars, mailboxes, runStores
<1>. QED
  BY <1>2, <1>3, <1>4 DEF Next

LEMMA InitAccounts == Init => AccountsInv
<1>. SUFFICES ASSUME Init PROVE AccountsInv
  OBVIOUS
<1>1. \A r \in Runs : pc[r] = "unborn" /\ job[r].counts = NoCounts /\ ~job[r].thrown
                      /\ jobRuns[r].counts = NoCounts /\ ~Live(r) /\ Credit(r) = 0
  BY DEF Init, NoJob, NoJobRun, Live, Credit, NoCounts
<1>2. \A r \in Runs : LocalAccount(r) /\ SummaryAccount(r)
  BY <1>1, NothingAdds DEF LocalAccount, SummaryAccount, Beginning, Working, Holding, Closing
<1>3. IsFiniteSet(Runs) /\ IsFiniteSet(Uidls)
  BY RunsAssumption, MailAssumption, FS_Interval DEF Runs
<1>4. SumFunction([r \in Runs |-> Credit(r)]) = 0
  <2>. DEFINE f == [r \in Runs |-> Credit(r)]
  <2>1. f \in [Runs -> Nat] /\ \A r \in Runs : f[r] = 0
    BY <1>1
  <2>. HIDE DEF f
  <2>2. SumFunction(f) = 0
    BY <1>3, <2>1, SumZero
  <2>. QED
    BY <2>2 DEF f
<1>5. SumFunction(gmail) = 0
  <2>1. gmail \in [Uidls -> Nat] /\ \A u \in Uidls : gmail[u] = 0
    BY DEF Init
  <2>. QED
    BY <1>3, <2>1, SumZero
<1>. QED
  BY <1>1, <1>2, <1>4, <1>5 DEF AccountsInv

LEMMA AccountsTell == TypeInv /\ AccountsInv => SummariesTruthful
<1>. SUFFICES ASSUME TypeInv, AccountsInv PROVE SummariesTruthful
  OBVIOUS
<1>1. SumFunction([r \in Runs |-> jobRuns[r].counts.transferred]) <= SumFunction(gmail)
  <2>. DEFINE f == [r \in Runs |-> Credit(r)]
              d == [r \in Runs |-> jobRuns[r].counts.transferred]
  <2>1. IsFiniteSet(Runs) /\ IsFiniteSet(Uidls) /\ gmail \in [Uidls -> Nat]
    BY RunsAssumption, MailAssumption, FS_Interval DEF Runs, TypeInv, StoresOK
  <2>2. f \in [Runs -> Nat] /\ d \in [Runs -> Nat]
    BY CreditType
  <2>3. \A r \in Runs : d[r] <= f[r]
    <3>. SUFFICES ASSUME NEW r \in Runs PROVE jobRuns[r].counts.transferred <= Credit(r)
      OBVIOUS
    <3>1. job[r].counts.transferred \in Nat /\ jobRuns[r].counts.transferred \in Nat
      BY CreditType
    <3>2. Live(r) => jobRuns[r].counts.transferred <= job[r].counts.transferred
      BY DEF AccountsInv
    <3>. QED
      BY <3>1, <3>2 DEF Credit
  <2>4. SumFunction(f) <= SumFunction(gmail)
    BY DEF AccountsInv
  <2>. HIDE DEF f, d
  <2>5. SumFunction(d) <= SumFunction(f)
    BY <2>1, <2>2, <2>3, SumMonotone
  <2>6. SumFunction(f) \in Nat /\ SumFunction(d) \in Nat /\ SumFunction(gmail) \in Nat
    BY <2>1, <2>2, SumType
  <2>7. SumFunction(d) <= SumFunction(gmail)
    BY <2>4, <2>5, <2>6
  <2>. QED
    BY <2>7 DEF d
<1>. QED
  BY <1>1 DEF AccountsInv, SummaryAccount, SummariesTruthful, Adds

\* The counts of every summary add up, a run that returned has processed all it
\* detected, and the summaries together count no more transfers than Gmail
\* received messages (withDetectedCount to withTransferred of JobRunEntity along
\* every path of run(), however many runs overlap, throw or are killed).
THEOREM SummariesTellTheTruth == Spec => []SummariesTruthful
<1>1. Init => TypeInv /\ AccountsInv
  BY InitTypes, InitAccounts
<1>2. TypeInv /\ AccountsInv /\ [Next]_vars => (TypeInv /\ AccountsInv)'
  BY TypePreserved, AccountsPreserved
<1>. QED
  BY <1>1, <1>2, AccountsTell, PTL DEF Spec
-----------------------------------------------------------------------------
(***************************************************************************)
(* The statistics projection.                                              *)
(***************************************************************************)
Final(r)     == jobRuns[r].status \notin {"absent", "running"}
Fellow(q, r) == q # r /\ job[q].startedAt = job[r].startedAt

\* The summary of a run that completed stays as it is, and whoever stores
\* statistics after it read that summary.
Projected(r) ==
  /\ pc[r] \in {"refresh", "saveStatistics", "returned"} => Final(r)
  /\ pc[r] = "saveStatistics" => job[r].statistics[r] = jobRuns[r]
  /\ pc[r] = "returned" /\ jobRuns[r].counts.processed > 0 =>
       /\ projection[r] = jobRuns[r]
       /\ \A q \in Runs : pc[q] = "saveStatistics" => job[q].statistics[r] = jobRuns[r]

ProjectedInv ==
  \A r \in Runs : faults > 0 \/ (\E q \in Runs : Fellow(q, r)) \/ Projected(r)

\* What a step of run r where nothing goes wrong does to the statistics.
LEMMA StatisticsChange ==
  ASSUME TypeInv, NEW r \in Runs, RunStep(r) \/ Kill(r), faults' = 0
  PROVE  /\ faults = 0
         /\ \/ UNCHANGED projection
            \/ pc[r] = "saveStatistics" /\ projection' = job[r].statistics
         /\ pc'[r] = "saveStatistics" =>
              /\ pc[r] = "refresh" /\ UNCHANGED runStores
              /\ job'[r].statistics = jobRuns
         /\ pc'[r] = "refresh" => pc[r] = "complete"
         /\ pc'[r] = "returned" =>
              \/ pc[r] = "complete" /\ job[r].counts.processed = 0
              \/ /\ pc[r] = "saveStatistics" /\ UNCHANGED jobRuns
                 /\ projection' = job[r].statistics
<1>1. /\ ~Fault /\ faults \in Nat /\ pc \in [Runs -> Steps] /\ job \in [Runs -> Job]
      /\ job[r] \in Job /\ job[r].counts.processed \in Nat
  <2>1. faults \in Nat /\ job[r] \in Job
    BY DEF TypeInv, StoresOK, RunsOK
  <2>2. ~Fault
    BY <2>1 DEF Fault
  <2>. QED
    BY <2>1, <2>2 DEF TypeInv, RunsOK, Job, Counts
<1>2. \A step : Goto(r, step) => pc'[r] = step
  BY <1>1 DEF Goto
<1>3. faults = 0
  BY <1>1 DEF RunStep, Kill, ReconcileStaleRunningJobs, SaveStarted, ListMessages,
     FilterIncrementalMessages, GetMessageMetadata, ClaimForProcessing, GetMessage, ImportMessage,
     MarkImported, ReconcileImportedMessage, MarkReconciled, MarkFailed, ListImportedRecords,
     DeleteRecords, CompleteJob, GetStatistics, SaveStatistics, Fine
<1>4. CASE CompleteJob(r)
  <2>1. /\ pc[r] = "complete" /\ UNCHANGED projection
        /\ \/ Goto(r, "refresh")
           \/ ~ShouldRefresh(r) /\ Goto(r, Outcome(r))
    BY <1>1, <1>4, Zenon DEF CompleteJob, End
  <2>2. ~ShouldRefresh(r) => job[r].counts.processed = 0
    BY <1>1 DEF ShouldRefresh
  <2>3. Outcome(r) \in {"rejected", "returned"}
    BY DEF Outcome
  <2>. QED
    BY <1>2, <1>3, <2>1, <2>2, <2>3
<1>5. CASE GetStatistics(r)
  <2>1. /\ pc[r] = "refresh" /\ UNCHANGED runStores /\ Goto(r, "saveStatistics")
        /\ job' = [job EXCEPT ![r].statistics = jobRuns]
    BY <1>1, <1>5, Zenon DEF GetStatistics
  <2>2. job'[r].statistics = jobRuns
    BY <1>1, <2>1 DEF Job
  <2>. QED
    BY <1>2, <1>3, <2>1, <2>2 DEF runStores
<1>6. CASE SaveStatistics(r)
  <2>1. /\ pc[r] = "saveStatistics" /\ UNCHANGED jobRuns /\ projection' = job[r].statistics
        /\ Goto(r, Outcome(r))
    BY <1>1, <1>6, Zenon DEF SaveStatistics, End
  <2>2. Outcome(r) \in {"rejected", "returned"}
    BY DEF Outcome
  <2>. QED
    BY <1>2, <1>3, <2>1, <2>2
<1>7. CASE ~(CompleteJob(r) \/ GetStatistics(r) \/ SaveStatistics(r))
  <2>1. UNCHANGED projection
    BY <1>1, <1>7, Zenon DEF RunStep, Kill, ReconcileStaleRunningJobs, SaveStarted, ListMessages,
       FilterIncrementalMessages, GetMessageMetadata, ClaimForProcessing, GetMessage, ImportMessage,
       MarkImported, ReconcileImportedMessage, MarkReconciled, MarkFailed, ListImportedRecords,
       DeleteRecords, runStores
  <2>2. \E step \in {"killed", "saveStarted", "list", "complete", "filter", "claim", "metadata",
                     "fetch", "import", "cleanup", "markImported", "lookup", "remark",
                     "markFailed", "delete", "rejected"} : Goto(r, step)
    <3>1. CASE \/ Kill(r) \/ ReconcileStaleRunningJobs(r) \/ SaveStarted(r) \/ ListMessages(r)
               \/ FilterIncrementalMessages(r) \/ GetMessageMetadata(r)
      BY <1>1, <3>1, Zenon DEF Kill, ReconcileStaleRunningJobs, SaveStarted, ListMessages,
         FilterIncrementalMessages, GetMessageMetadata, End, ToCatch
    <3>2. CASE \/ ClaimForProcessing(r) \/ GetMessage(r) \/ ImportMessage(r)
      BY <1>1, <3>2, Zenon DEF ClaimForProcessing, GetMessage, ImportMessage, NextMessage, ToCatch
    <3>3. CASE \/ MarkImported(r) \/ ReconcileImportedMessage(r)
               \/ MarkReconciled(r) \/ MarkFailed(r)
      BY <1>1, <3>3, Zenon DEF MarkImported, ReconcileImportedMessage, MarkReconciled, MarkFailed,
         NextMessage, ToCatch
    <3>4. CASE ListImportedRecords(r) \/ DeleteRecords(r)
      BY <1>1, <3>4, Zenon DEF ListImportedRecords, DeleteRecords
    <3>. QED
      BY <1>7, <3>1, <3>2, <3>3, <3>4 DEF RunStep
  <2>. QED
    BY <1>2, <1>3, <2>1, <2>2
<1>. QED
  BY <1>4, <1>5, <1>6, <1>7

\* The summary of a run that is final is touched by no other.
LEMMA FinalKept ==
  ASSUME TypeInv, NEW r \in Runs, RunStep(r) \/ Kill(r), NEW q \in Runs \ {r}, Final(q)
  PROVE  jobRuns'[q] = jobRuns[q]
<1>1. jobRuns \in [Runs -> JobRuns]
  BY DEF TypeInv, StoresOK
<1>2. ASSUME NEW S \in SUBSET Stale(r), jobRuns' = Deleted(S)
      PROVE  jobRuns'[q] = jobRuns[q]
  <2>1. q \notin S
    BY DEF Stale, Final
  <2>. QED
    BY <1>2, <2>1 DEF Deleted
<1>3. ASSUME NEW summary, jobRuns' = [jobRuns EXCEPT ![r] = summary]
      PROVE  jobRuns'[q] = jobRuns[q]
  BY <1>1, <1>3
<1>. QED
  BY <1>2, <1>3, SummariesChange

\* The fellows of a run that started stay its fellows.
LEMMA FellowsStay ==
  ASSUME TypeInv, HoursOK, NEW s \in Runs, Start(s) \/ RunStep(s) \/ Kill(s),
         NEW r \in Runs, r # s \/ ~Start(s), job[r].startedAt > 0,
         NEW q \in Runs, Fellow(q, r)
  PROVE  Fellow(q, r)'
<1>1. OnlyRun(s)
  BY StepKeepsRuns
<1>2. job[q].startedAt > 0
  BY DEF Fellow
<1>3. CASE Start(s)
  <2>1. job[s].startedAt \in Nat /\ ~(job[s].startedAt > 0)
    BY <1>3 DEF Start, HoursOK, TypeInv, RunsOK, Job, Ticks
  <2>2. q # s /\ r # s
    BY <1>2, <1>3, <2>1
  <2>. QED
    BY <1>1, <2>2 DEF Fellow, OnlyRun
<1>4. CASE RunStep(s) \/ Kill(s)
  BY <1>1, <1>4, HourKept DEF Fellow, OnlyRun
<1>. QED
  BY <1>3, <1>4

LEMMA ProjectedPreserved == TypeInv /\ HoursOK /\ ProjectedInv /\ [Next]_vars => ProjectedInv'
<1>. SUFFICES ASSUME TypeInv, HoursOK, ProjectedInv, [Next]_vars, NEW r \in Runs,
                     ~(faults' > 0), \A q \in Runs : ~Fellow(q, r)'
              PROVE  Projected(r)'
  BY DEF ProjectedInv
<1>1. faults \in Nat /\ TypeInv'
  BY TypePreserved DEF TypeInv, StoresOK
<1>2. faults' = 0
  BY <1>1 DEF TypeInv, StoresOK
<1>3. CASE UNCHANGED <<pc, job, jobRuns, projection, faults>>
  <2>1. \A q \in Runs : Fellow(q, r)' <=> Fellow(q, r)
    BY <1>3 DEF Fellow
  <2>2. Projected(r)
    BY <1>2, <1>3, <2>1 DEF ProjectedInv
  <2>. QED
    BY <1>3, <2>2 DEF Projected, Final
<1>4. ASSUME NEW s \in Runs, Start(s) \/ RunStep(s) \/ Kill(s)
      PROVE  Projected(r)'
  <2>1. OnlyRun(s)
    BY <1>4, StepKeepsRuns
  <2>2. CASE pc'[r] \notin {"refresh", "saveStatistics", "returned"}
    BY <2>2 DEF Projected
  <2>3. CASE r = s /\ pc'[r] \in {"refresh", "saveStatistics", "returned"}
    <3>1. RunStep(r) \/ Kill(r)
      BY <1>4, <2>3, StartEffect
    <3>2. /\ faults = 0
          /\ pc'[r] = "saveStatistics" =>
               pc[r] = "refresh" /\ UNCHANGED runStores /\ job'[r].statistics = jobRuns
          /\ pc'[r] = "refresh" => pc[r] = "complete"
          /\ pc'[r] = "returned" =>
               \/ pc[r] = "complete" /\ job[r].counts.processed = 0
               \/ /\ pc[r] = "saveStatistics" /\ UNCHANGED jobRuns
                  /\ projection' = job[r].statistics
      BY <1>2, <3>1, StatisticsChange
    <3>3. Live(r)
      BY <3>1, HourKept
    <3>4. job[r].startedAt = now /\ job[r].startedAt > 0
      BY <3>3 DEF HoursOK, Live
    <3>5. \A q \in Runs : ~Fellow(q, r)
      <4>1. ~Start(s)
        BY <2>3, <3>3 DEF Start, Live
      <4>. QED
        BY <1>4, <2>3, <3>4, <4>1, FellowsStay
    <3>6. Projected(r)
      BY <3>2, <3>5 DEF ProjectedInv
    <3>7. \A q \in Runs \ {r} : ~Live(q)
      BY <3>4, <3>5 DEF Fellow, HoursOK
    <3>8. \A q \in Runs : pc'[q] = "saveStatistics" => q = r
      BY <2>1, <2>3, <3>7 DEF OnlyRun, Live, Ended
    <3>9. CASE pc[r] = "complete"
      <4>1. jobRuns' = [jobRuns EXCEPT ![r] = Finalized(r)]
        <5>1. pc'[r] \in {"refresh", "returned"}
          BY <2>3, <3>2, <3>9
        <5>. QED
          BY <3>1, <3>9, <5>1, SummariesChange DEF Opening
      <4>2. /\ jobRuns'[r] = Finalized(r)
        BY <4>1 DEF TypeInv, StoresOK
      <4>3. Final(r)'
        BY <4>2 DEF Final, Finalized, DetermineStatus
      <4>4. pc'[r] = "returned" => jobRuns'[r].counts.processed = 0
        BY <3>2, <3>9, <4>2 DEF Finalized
      <4>5. pc'[r] # "saveStatistics"
        BY <3>2, <3>9
      <4>. QED
        BY <4>3, <4>4, <4>5 DEF Projected
    <3>10. CASE pc[r] = "refresh"
      <4>1. pc'[r] = "saveStatistics" /\ UNCHANGED jobRuns /\ job'[r].statistics = jobRuns
        BY <2>3, <3>2, <3>10 DEF runStores
      <4>. QED
        BY <3>6, <3>10, <4>1 DEF Projected, Final
    <3>11. CASE pc[r] = "saveStatistics"
      <4>1. pc'[r] = "returned" /\ UNCHANGED jobRuns /\ projection' = job[r].statistics
        BY <2>3, <3>2, <3>11
      <4>. QED
        BY <3>6, <3>8, <3>11, <4>1 DEF Projected, Final
    <3>. QED
      BY <2>3, <3>2, <3>9, <3>10, <3>11
  <2>4. CASE r # s /\ pc'[r] \in {"refresh", "saveStatistics", "returned"}
    <3>1. pc[r] = pc'[r] /\ job'[r] = job[r]
      BY <2>1, <2>4 DEF OnlyRun
    <3>2. job[r].startedAt > 0
      BY <2>4, <3>1 DEF HoursOK
    <3>3. \A q \in Runs : ~Fellow(q, r)
      BY <1>4, <2>4, <3>2, FellowsStay
    <3>4. faults = 0
      <4>1. Start(s) => faults' = faults
        BY DEF Start, Fine
      <4>. QED
        BY <1>2, <1>4, <4>1, StatisticsChange
    <3>5. Projected(r)
      BY <3>3, <3>4 DEF ProjectedInv
    <3>6. CASE Start(s)
      <4>1. /\ UNCHANGED <<jobRuns, projection>> /\ pc'[s] = "reconcile"
        BY <3>6, StartEffect DEF runStores
      <4>2. \A q \in Runs : pc'[q] = "saveStatistics" => pc[q] = "saveStatistics" /\ job'[q] = job[q]
        BY <2>1, <4>1 DEF OnlyRun
      <4>. QED
        BY <3>1, <3>5, <4>1, <4>2 DEF Projected, Final
    <3>7. CASE RunStep(s) \/ Kill(s)
      <4>1. Live(s) /\ job[s].startedAt = now
        BY <3>7, HourKept DEF HoursOK
      <4>2. pc[r] = "returned"
        <5>1. ~Live(r)
          BY <2>4, <3>3, <4>1 DEF Fellow, HoursOK
        <5>. QED
          BY <2>4, <3>1, <5>1 DEF Live, Ended
      <4>3. Final(r) /\ jobRuns'[r] = jobRuns[r]
        BY <2>4, <3>5, <3>7, <4>2, FinalKept DEF Projected
      <4>4. ASSUME jobRuns[r].counts.processed > 0
            PROVE  /\ projection'[r] = jobRuns[r]
                   /\ \A q \in Runs : pc'[q] = "saveStatistics" => job'[q].statistics[r] = jobRuns[r]
        <5>1. /\ projection[r] = jobRuns[r]
              /\ \A q \in Runs : pc[q] = "saveStatistics" => job[q].statistics[r] = jobRuns[r]
          BY <3>5, <4>2, <4>4 DEF Projected
        <5>2. /\ UNCHANGED projection \/ (pc[s] = "saveStatistics" /\ projection' = job[s].statistics)
              /\ pc'[s] = "saveStatistics" => job'[s].statistics = jobRuns
          BY <1>2, <3>7, StatisticsChange
        <5>3. projection'[r] = jobRuns[r]
          BY <5>1, <5>2
        <5>4. \A q \in Runs : pc'[q] = "saveStatistics" => job'[q].statistics[r] = jobRuns[r]
          BY <2>1, <5>1, <5>2 DEF OnlyRun
        <5>. QED
          BY <5>3, <5>4
      <4>. QED
        BY <3>1, <4>2, <4>3, <4>4 DEF Projected, Final
    <3>. QED
      BY <1>4, <3>6, <3>7
  <2>. QED
    BY <2>2, <2>3, <2>4
<1>5. CASE Tick \/ \E u \in Uidls : Arrive(u)
  BY <1>3, <1>5 DEF Tick, Arrive, runStores
<1>6. CASE \E n \in DOMAIN maildrop : Remove(n)
  BY <1>1, <1>2, <1>6 DEF Remove, Fault
<1>7. CASE UNCHANGED vars
  BY <1>3, <1>7 DEF vars, runStores
<1>. QED
  BY <1>4, <1>5, <1>6, <1>7 DEF Next

LEMMA InitProjected == Init => ProjectedInv
BY DEF Init, ProjectedInv, Projected

\* The statistics stored after a run that processed something and returned know
\* its summary, and no later run makes them forget it (refreshStatisticsProjection
\* reads all job runs before it stores); only runs of the same hour overwrite
\* what the other one stored.
THEOREM ReturnedRunsProjected == Spec => []ReturnedRunProjected
<1>1. Init => TypeInv /\ RecordedInv /\ ProjectedInv
  BY InitTypes, InitRecorded, InitProjected
<1>2. TypeInv /\ RecordedInv /\ ProjectedInv /\ [Next]_vars => (TypeInv /\ RecordedInv /\ ProjectedInv)'
  BY TypePreserved, RecordedPreserved, ProjectedPreserved DEF RecordedInv
<1>3. TypeInv /\ ProjectedInv => ReturnedRunProjected
  <2>. SUFFICES ASSUME TypeInv, ProjectedInv, NEW r \in Runs, pc[r] = "returned",
                       jobRuns[r].counts.processed # 0, ~(faults > 0)
                PROVE  \/ projection[r] = jobRuns[r]
                       \/ \E q \in Runs \ {r} : job[q].startedAt = job[r].startedAt
    BY DEF ReturnedRunProjected
  <2>1. jobRuns[r].counts.processed \in Nat
    BY DEF TypeInv, StoresOK, JobRuns, Counts
  <2>2. (\E q \in Runs : Fellow(q, r)) \/ Projected(r)
    BY DEF ProjectedInv
  <2>. QED
    BY <2>1, <2>2 DEF Projected, Fellow
<1>. QED
  BY <1>1, <1>2, <1>3, PTL DEF Spec
-----------------------------------------------------------------------------
(***************************************************************************)
(* The deduplication by UIDL, implemented.                                 *)
(***************************************************************************)
\* A cleanup that is about to delete chose records that are imported still,
\* unless another cleanup deleted them first.
ForgetsOnlyImported ==
  \A r \in Runs : pc[r] = "delete" =>
    \A u \in job[r].candidates : records[u].status \in {"imported", "absent"}

CleanupsKeepClaims == [](ForgetsNoClaim /\ ForgetsOnlyImported)

\* A record that does not exist names nobody.
AbsentInv == \A u \in Uidls : records[u].status = "absent" => records[u].claimJobId = Nobody

LEMMA AbsentPreserved == TypeInv /\ AbsentInv /\ [Next]_vars => AbsentInv'
<1>. SUFFICES ASSUME TypeInv, AbsentInv, [Next]_vars PROVE AbsentInv'
  OBVIOUS
<1>1. records \in [Uidls -> Records]
  BY DEF TypeInv, StoresOK
<1>2. CASE UNCHANGED records
  BY <1>2 DEF AbsentInv
<1>3. ASSUME NEW u, NEW record, record.status # "absent",
             records' = [records EXCEPT ![u] = record]
      PROVE  AbsentInv'
  BY <1>1, <1>3 DEF AbsentInv
<1>4. ASSUME NEW S, records' = [u \in Uidls |-> IF u \in S THEN NoRecord ELSE records[u]]
      PROVE  AbsentInv'
  BY <1>4 DEF AbsentInv, NoRecord
<1>5. ASSUME NEW r \in Runs, Start(r) \/ RunStep(r) \/ Kill(r)
      PROVE  AbsentInv'
  <2>1. \A u : ProcessingRecord(records[u], r).status # "absent"
    BY DEF ProcessingRecord
  <2>2. CASE /\ pc[r] = "claim"
             /\ records' = [records EXCEPT ![Current(r).uidl] =
                              ProcessingRecord(records[Current(r).uidl], r)]
    BY <1>3, <2>1, <2>2
  <2>3. CASE \E record : /\ record.status \in {"failed", "imported"}
                         /\ records' = [records EXCEPT ![Current(r).uidl] = record]
    BY <1>3, <2>3
  <2>. QED
    BY <1>2, <1>4, <1>5, <2>2, <2>3, RecordsChange
<1>6. CASE Tick \/ (\E u \in Uidls : Arrive(u)) \/ (\E n \in DOMAIN maildrop : Remove(n))
           \/ UNCHANGED vars
  BY <1>2, <1>6 DEF Tick, Arrive, Remove, vars
<1>. QED
  BY <1>5, <1>6 DEF Next

\* The claims as the deduplication sees them.
Claims == [u \in Uidls |-> [status |-> records[u].status, run |-> records[u].claimJobId]]

LEMMA WriteRefines ==
  ASSUME TypeInv, NEW u \in Uidls, NEW record, records' = [records EXCEPT ![u] = record]
  PROVE  Claims' = [Claims EXCEPT ![u] = [status |-> record.status, run |-> record.claimJobId]]
<1>1. records \in [Uidls -> Records] /\ records' = [records EXCEPT ![u] = record]
  BY DEF TypeInv, StoresOK
<1>2. \A v \in Uidls : records'[v] = IF v = u THEN record ELSE records[v]
  BY <1>1
<1>. QED
  BY <1>2 DEF Claims

\* A step of a run is a step of the deduplication, or none.
LEMMA RunStepRefines ==
  ASSUME TypeInv, ClaimInv, AbsentInv, ForgetsOnlyImported,
         NEW r \in Runs, Start(r) \/ RunStep(r) \/ Kill(r)
  PROVE  \/ Claims' = Claims
         \/ \E u \in Uidls, q \in Runs :
              /\ Claims[u].status \in {"absent", "failed"}
              /\ Claims' = [Claims EXCEPT ![u] = [status |-> "processing", run |-> q]]
         \/ \E u \in Uidls, status \in {"imported", "failed"} :
              /\ Claims[u].status \in {"processing", "imported"}
              /\ Claims' = [Claims EXCEPT ![u] = [status |-> status, run |-> Claims[u].run]]
         \/ \E S \in SUBSET Uidls :
              /\ \A u \in S : Claims[u].status = "imported"
              /\ Claims' = [u \in Uidls |-> IF u \in S THEN [status |-> "absent", run |-> Nobody]
                                            ELSE Claims[u]]
<1>. DEFINE u == Current(r).uidl
<1>1. pc[r] \in Working => u \in Uidls
  BY TypeInvShapes, CurrentUidl
<1>2. \A v \in Uidls : Claims[v].status = records[v].status /\ Claims[v].run = records[v].claimJobId
  BY DEF Claims
<1>3. CASE UNCHANGED records
  BY <1>3 DEF Claims
<1>4. CASE /\ pc[r] = "claim" /\ CanTransfer(u)
           /\ records' = [records EXCEPT ![u] = ProcessingRecord(records[u], r)]
  <2>. DEFINE record == ProcessingRecord(records[u], r)
  <2>1. u \in Uidls /\ record.status = "processing" /\ record.claimJobId = r
    BY <1>1, <1>4 DEF ProcessingRecord, Working
  <2>2. Claims[u].status \in {"absent", "failed"}
    BY <1>2, <1>4, <2>1 DEF CanTransfer
  <2>. HIDE DEF u
  <2>3. Claims' = [Claims EXCEPT ![u] = [status |-> record.status, run |-> record.claimJobId]]
    <3>. HIDE DEF record
    <3>. QED
      BY <1>4, <2>1, WriteRefines DEF record
  <2>4. Claims' = [Claims EXCEPT ![u] = [status |-> "processing", run |-> r]]
    BY <2>1, <2>3
  <2>. QED
    BY <2>1, <2>2, <2>4
<1>5. CASE /\ pc[r] \in Holding
           /\ \E record : /\ record.status \in {"failed", "imported"}
                          /\ record.claimJobId \in {r, records[u].claimJobId}
                          /\ records' = [records EXCEPT ![u] = record]
  <2>1. PICK record : /\ record.status \in {"failed", "imported"}
                      /\ record.claimJobId \in {r, records[u].claimJobId}
                      /\ records' = [records EXCEPT ![u] = record]
    BY <1>5, Zenon
  <2>2. /\ u \in Uidls /\ records[u].claimJobId = r
        /\ records[u].status \in {"processing", "imported"}
    BY <1>1, <1>5 DEF ClaimInv, HoldsClaim, Working
  <2>. HIDE DEF u
  <2>3. Claims' = [Claims EXCEPT ![u] = [status |-> record.status, run |-> record.claimJobId]]
    BY <2>1, <2>2, WriteRefines
  <2>4. record.claimJobId = Claims[u].run /\ Claims[u].status \in {"processing", "imported"}
    BY <1>2, <2>1, <2>2
  <2>5. Claims' = [Claims EXCEPT ![u] = [status |-> record.status, run |-> Claims[u].run]]
    BY <2>3, <2>4
  <2>. QED
    BY <2>1, <2>2, <2>4, <2>5
<1>6. ASSUME pc[r] = "delete", NEW S \in SUBSET job[r].candidates,
             records' = [v \in Uidls |-> IF v \in S THEN NoRecord ELSE records[v]]
      PROVE  \E T \in SUBSET Uidls :
               /\ \A v \in T : Claims[v].status = "imported"
               /\ Claims' = [v \in Uidls |-> IF v \in T THEN [status |-> "absent", run |-> Nobody]
                                             ELSE Claims[v]]
  <2>. DEFINE T == {v \in Uidls : v \in S /\ records[v].status = "imported"}
  <2>1. \A v \in T : Claims[v].status = "imported"
    BY <1>2
  <2>2. \A v \in Uidls : v \in S /\ v \notin T =>
          records[v].status = "absent" /\ records[v].claimJobId = Nobody
    BY <1>6 DEF ForgetsOnlyImported, AbsentInv
  <2>3. \A v \in Uidls : [status |-> records'[v].status, run |-> records'[v].claimJobId] =
                           IF v \in T THEN [status |-> "absent", run |-> Nobody] ELSE Claims[v]
    BY <1>6, <2>2 DEF NoRecord, Claims
  <2>4. Claims' = [v \in Uidls |-> IF v \in T THEN [status |-> "absent", run |-> Nobody]
                                   ELSE Claims[v]]
    BY <2>3 DEF Claims
  <2>. QED
    BY <2>1, <2>4
<1>7. CASE \E S \in SUBSET job[r].candidates :
             /\ pc[r] = "delete"
             /\ records' = [v \in Uidls |-> IF v \in S THEN NoRecord ELSE records[v]]
  BY <1>6, <1>7
<1>8. \/ UNCHANGED records
      \/ /\ pc[r] = "claim" /\ CanTransfer(u)
         /\ records' = [records EXCEPT ![u] = ProcessingRecord(records[u], r)]
      \/ /\ pc[r] \in Holding
         /\ \E record : /\ record.status \in {"failed", "imported"}
                        /\ record.claimJobId \in {r, records[u].claimJobId}
                        /\ records' = [records EXCEPT ![u] = record]
      \/ \E S \in SUBSET job[r].candidates :
           /\ pc[r] = "delete"
           /\ records' = [v \in Uidls |-> IF v \in S THEN NoRecord ELSE records[v]]
  BY RecordsChange
<1>. HIDE DEF u
<1>. QED
  BY <1>3, <1>4, <1>5, <1>7, <1>8

LEMMA ClaimsInit == Init => Deduplication!Init
BY DEF Init, Deduplication!Init, Deduplication!Unclaimed, NoRecord

LEMMA StepRefines ==
  TypeInv /\ ClaimInv /\ AbsentInv /\ ForgetsOnlyImported /\ [Next]_vars =>
    [Deduplication!Next]_Claims
<1>. SUFFICES ASSUME TypeInv, ClaimInv, AbsentInv, ForgetsOnlyImported, [Next]_vars
              PROVE  Deduplication!Next \/ Claims' = Claims
  OBVIOUS
<1>1. ASSUME NEW r \in Runs, Start(r) \/ RunStep(r) \/ Kill(r)
      PROVE  Deduplication!Next \/ Claims' = Claims
  <2>1. ASSUME NEW u \in Uidls, NEW q \in Runs, Claims[u].status \in {"absent", "failed"},
               Claims' = [Claims EXCEPT ![u] = [status |-> "processing", run |-> q]]
        PROVE  Deduplication!Next
    BY <2>1, Zenon DEF Claims, Deduplication!Next, Deduplication!Claim
  <2>2. ASSUME NEW u \in Uidls, NEW status \in {"imported", "failed"},
               Claims[u].status \in {"processing", "imported"},
               Claims' = [Claims EXCEPT ![u] = [status |-> status, run |-> Claims[u].run]]
        PROVE  Deduplication!Next
    BY <2>2, Zenon DEF Claims, Deduplication!Next, Deduplication!Settle
  <2>3. ASSUME NEW S \in SUBSET Uidls, \A u \in S : Claims[u].status = "imported",
               Claims' = [u \in Uidls |-> IF u \in S THEN [status |-> "absent", run |-> Nobody]
                                          ELSE Claims[u]]
        PROVE  Deduplication!Next
    BY <2>3, Zenon DEF Claims, Deduplication!Next, Deduplication!Forget, Deduplication!Unclaimed
  <2>. QED
    BY <1>1, <2>1, <2>2, <2>3, RunStepRefines
<1>2. CASE Tick \/ (\E u \in Uidls : Arrive(u)) \/ (\E n \in DOMAIN maildrop : Remove(n))
           \/ UNCHANGED vars
  <2>1. UNCHANGED records
    BY <1>2 DEF Tick, Arrive, Remove, vars
  <2>. QED
    BY <2>1 DEF Claims
<1>. QED
  BY <1>1, <1>2 DEF Next

\* However runs overlap and whatever goes wrong, the processed emails are the
\* claims of UidlClaims: a UIDL is claimed by one run, only that run settles it,
\* and only an imported one is forgotten, as long as no cleanup deletes what
\* was claimed since it was chosen.
THEOREM ClaimsImplemented == Spec /\ CleanupsKeepClaims => ClaimsKept
<1>1. Init => TypeInv /\ ClaimInv /\ AbsentInv /\ Deduplication!Init
  <2>1. Init => AbsentInv
    BY DEF Init, AbsentInv, NoRecord
  <2>. QED
    BY <2>1, InitTypes, InitClaims, ClaimsInit
<1>2. TypeInv /\ ClaimInv /\ AbsentInv /\ ForgetsNoClaim /\ [Next]_vars =>
        (TypeInv /\ ClaimInv /\ AbsentInv)'
  BY TypePreserved, ClaimsPreserved, AbsentPreserved
<1>. QED
  BY <1>1, <1>2, StepRefines, PTL DEF Spec, CleanupsKeepClaims, ClaimsKept, Deduplication!Spec, Claims

\* Of runs that do not overlap, the one at its cleanup deletes what it chose.
SerialInv ==
  /\ \A r, q \in Runs : Live(r) /\ Live(q) => r = q
  /\ \A r \in Runs : pc[r] = "delete" => \A u \in job[r].candidates : records[u].status = "imported"

\* A cleanup that is about to delete has just chosen imported records it need not
\* retain.
LEMMA CandidatesChosen ==
  ASSUME TypeInv, NEW r \in Runs, Start(r) \/ RunStep(r) \/ Kill(r), pc'[r] = "delete"
  PROVE  /\ UNCHANGED records
         /\ job'[r].candidates \subseteq ImportedUidls \ Newest(ImportedUidls, MinimumRetainedCount)
<1>1. /\ pc \in [Runs -> Steps] /\ job \in [Runs -> Job] /\ job[r] \in Job
  BY DEF TypeInv, RunsOK
<1>2. pc[r] \in {"cleanup", "delete"}
  <2>1. ~(Reads(r) \/ Lists(r))
    BY DEF Reads, Lists
  <2>2. ~\E counted : Counts1(r, counted)
    <3>1. ASSUME NEW counted, NextMessage(r, counted)
          PROVE  pc'[r] \in {"cleanup", "claim"}
      BY <1>1, <3>1 DEF NextMessage, Goto
    <3>. QED
      BY <3>1 DEF Counts1
  <2>3. ~ToCatch(r) /\ ~\E how \in Ended : End(r, how)
    BY <1>1 DEF ToCatch, End, Goto, Ended
  <2>4. Quiet(r) => pc[r] \in {"cleanup", "delete"}
    BY DEF Quiet, Beginning, Holding, Closing
  <2>. QED
    BY <2>1, <2>2, <2>3, <2>4, StepKinds
<1>3. ~DeleteRecords(r) /\ ~Kill(r)
  BY <1>1 DEF DeleteRecords, Kill, End, Goto
<1>4. ListImportedRecords(r)
  BY <1>2, <1>3 DEF Start, RunStep, ReconcileStaleRunningJobs, SaveStarted, ListMessages,
     FilterIncrementalMessages, GetMessageMetadata, ClaimForProcessing, GetMessage, ImportMessage,
     MarkImported, ReconcileImportedMessage, MarkReconciled, MarkFailed, CompleteJob,
     GetStatistics, SaveStatistics
<1>. DEFINE retained   == Newest(ImportedUidls, MinimumRetainedCount)
            expired    == {u \in ImportedUidls \ retained :
                             records[u].importedAt.hour < now - RetentionTicks}
            candidates == Newest(expired, CleanupBatchSize)
<1>5. /\ records' = records
      /\ job' = [job EXCEPT ![r].candidates = candidates]
  <2>1. ~Goto(r, "complete")
    BY <1>1 DEF Goto
  <2>. QED
    BY <1>4, <2>1, Zenon DEF ListImportedRecords
<1>6. candidates \subseteq ImportedUidls \ retained
  BY DEF Newest
<1>. HIDE DEF candidates, retained
<1>7. job'[r].candidates = candidates
  BY <1>1, <1>5 DEF Job
<1>. QED
  BY <1>5, <1>6, <1>7 DEF retained

\* Whoever takes a step is the only one to.
LEMMA OthersEnded ==
  ASSUME MaxLive = 1, TypeInv, SerialInv, NEW r \in Runs, Start(r) \/ RunStep(r) \/ Kill(r),
         NEW q \in Runs \ {r}
  PROVE  ~Live(q)
<1>1. CASE Start(r)
  <2>. DEFINE L == {p \in Runs : Live(p)}
  <2>1. Cardinality(L) < 1
    BY <1>1 DEF Start
  <2>2. IsFiniteSet(L)
    <3>1. IsFiniteSet(Runs)
      BY RunsAssumption, FS_Interval DEF Runs
    <3>2. L \subseteq Runs
      OBVIOUS
    <3>. HIDE DEF L
    <3>. QED
      BY <3>1, <3>2, FS_Subset
  <2>3. L = {}
    <3>. HIDE DEF L
    <3>1. Cardinality(L) \in Nat
      BY <2>2, FS_CardinalityType
    <3>2. Cardinality(L) = 0
      BY <2>1, <3>1
    <3>. QED
      BY <2>2, <3>2, FS_EmptySet
  <2>. QED
    BY <2>3
<1>2. CASE RunStep(r) \/ Kill(r)
  <2>1. Live(r)
    BY <1>2, HourKept
  <2>. QED
    BY <2>1 DEF SerialInv
<1>. QED
  BY <1>1, <1>2

LEMMA SerialPreserved ==
  ASSUME MaxLive = 1
  PROVE  TypeInv /\ SerialInv /\ [Next]_vars => SerialInv'
<1>. SUFFICES ASSUME TypeInv, SerialInv, [Next]_vars PROVE SerialInv'
  OBVIOUS
<1>1. ASSUME NEW r \in Runs, Start(r) \/ RunStep(r) \/ Kill(r)
      PROVE  SerialInv'
  <2>1. OnlyRun(r)
    BY <1>1, StepKeepsRuns
  <2>2. \A q \in Runs \ {r} : ~Live(q)
    BY <1>1, OthersEnded
  <2>3. \A q \in Runs \ {r} : ~Live(q)'
    BY <2>1, <2>2 DEF OnlyRun, Live
  <2>4. \A q \in Runs : pc'[q] = "delete" => q = r
    BY <2>3 DEF Live, Ended
  <2>5. pc'[r] = "delete" => \A u \in job'[r].candidates : records'[u].status = "imported"
    BY <1>1, CandidatesChosen DEF ImportedUidls
  <2>. QED
    BY <2>3, <2>4, <2>5 DEF SerialInv
<1>2. CASE Tick \/ (\E u \in Uidls : Arrive(u)) \/ (\E n \in DOMAIN maildrop : Remove(n))
           \/ UNCHANGED vars
  <2>1. UNCHANGED <<records, pc, job>>
    BY <1>2 DEF Tick, Arrive, Remove, vars
  <2>. QED
    BY <2>1 DEF SerialInv, Live
<1>. QED
  BY <1>1, <1>2 DEF Next

\* The scheduled function has one instance (EmailTransferFunction.maxInstances):
\* its runs do not overlap, and then both hold without any condition, whatever
\* fails, is killed or is removed from the maildrop.
THEOREM OneInstanceKeepsClaims ==
  ASSUME MaxLive = 1
  PROVE  Spec => []ClaimHeld /\ ClaimsKept
<1>1. Init => TypeInv /\ SerialInv
  <2>1. Init => SerialInv
    BY DEF Init, SerialInv, Live
  <2>. QED
    BY <2>1, InitTypes
<1>2. TypeInv /\ SerialInv /\ [Next]_vars => (TypeInv /\ SerialInv)'
  BY TypePreserved, SerialPreserved
<1>3. SerialInv => ForgetsNoClaim /\ ForgetsOnlyImported
  BY DEF SerialInv, ForgetsNoClaim, ForgetsOnlyImported, Live, Ended, Holding
<1>. QED
  BY <1>1, <1>2, <1>3, ClaimsExclude, ClaimsImplemented, PTL
     DEF Spec, CleanupsKeepClaims, CleanupsForgetNoClaim
-----------------------------------------------------------------------------
(***************************************************************************)
(* What a run reads.                                                       *)
(***************************************************************************)
\* The references run r carries.
Carried(r) == Range(batch[r]) \cup Range(job[r].toRead)

\* A run carries references only from listing them to processing them.
ListsOK(r) ==
  /\ pc[r] \notin {"filter", "metadata"} => job[r].toRead = <<>>
  /\ pc[r] \notin Working \cup {"metadata"} => batch[r] = <<>>

\* What becomes of the references of a run: it keeps those it has, lists the end
\* of the maildrop, or reads what now has the number of one it listed.
LEMMA CarriedChange ==
  ASSUME TypeInv, NEW r \in Runs, Start(r) \/ RunStep(r) \/ Kill(r)
  PROVE  /\ \A m \in Carried(r)' :
              \/ m \in Carried(r)
              \/ /\ m.number \in DOMAIN maildrop /\ maildrop[m.number] = m.uidl
                 /\ \/ pc[r] = "list" /\ m.number + ScanLimit > Len(maildrop)
                    \/ pc[r] = "metadata" /\ \E d \in Carried(r) : d.number = m.number
         /\ ListsOK(r) => ListsOK(r)'
<1>. DEFINE Goal ==
       /\ \A m \in Carried(r)' :
            \/ m \in Carried(r)
            \/ /\ m.number \in DOMAIN maildrop /\ maildrop[m.number] = m.uidl
               /\ \/ pc[r] = "list" /\ m.number + ScanLimit > Len(maildrop)
                  \/ pc[r] = "metadata" /\ \E d \in Carried(r) : d.number = m.number
       /\ ListsOK(r) => ListsOK(r)'
<1>1. /\ RunsOK /\ maildrop \in Seq(Uidls) /\ pc \in [Runs -> Steps]
      /\ batch \in [Runs -> Seq(References)]
      /\ job \in [Runs -> Job] /\ job[r] \in Job /\ NoJob \in Job
      /\ batch[r] \in Seq(References) /\ job[r].toRead \in Seq(References)
  BY NoJobType DEF TypeInv, StoresOK, RunsOK, Job
<1>2. \A step : Goto(r, step) => pc'[r] = step
  BY <1>1 DEF Goto
<1>3. Range(<<>>) = {}
  BY DEF Range
<1>4. ASSUME NEW s \in Seq(References), s # <<>>
      PROVE  Range(Tail(s)) \subseteq Range(s)
  BY <1>4, HeadTailProperties DEF Range
<1>5. CASE ToCatch(r) \/ (\E how \in Ended : End(r, how))
  <2>1. CASE ToCatch(r)
    <3>1. batch'[r] = <<>> /\ job'[r] = [job[r] EXCEPT !.thrown = TRUE, !.toRead = <<>>]
      BY <1>1, <2>1, RunsAfterToCatch
    <3>2. job'[r].toRead = <<>>
      BY <1>1, <3>1 DEF Job
    <3>. QED
      BY <1>3, <3>1, <3>2 DEF Carried, ListsOK
  <2>2. CASE \E how \in Ended : End(r, how)
    <3>1. batch'[r] = <<>> /\ job'[r] = [NoJob EXCEPT !.startedAt = job[r].startedAt]
      BY <1>1, <2>2, RunsAfterEnd
    <3>2. job'[r].toRead = <<>>
      BY <3>1 DEF NoJob
    <3>. QED
      BY <1>3, <3>1, <3>2 DEF Carried, ListsOK
  <2>. QED
    BY <1>5, <2>1, <2>2
<1>6. ASSUME batch'[r] = batch[r], job'[r].toRead = job[r].toRead,
             pc[r] \notin {"list", "filter", "metadata"},
             pc'[r] \notin {"filter", "metadata"}, pc[r] \in Working => pc'[r] \in Working
      PROVE  Goal
  BY <1>6 DEF Carried, ListsOK
<1>7. CASE ReconcileStaleRunningJobs(r) \/ SaveStarted(r) \/ Start(r)
  <2>1. \/ \E how \in Ended : End(r, how)
        \/ /\ UNCHANGED batch /\ pc[r] \in {"unborn", "reconcile", "saveStarted"}
           /\ \E step \in {"reconcile", "saveStarted", "list"} : Goto(r, step)
           /\ \/ UNCHANGED job \/ job' = [job EXCEPT ![r].startedAt = now]
              \/ job' = [job EXCEPT ![r].reconciled = (Stale(r) # {})]
    BY <1>7, Zenon DEF Start, ReconcileStaleRunningJobs, SaveStarted, Ended
  <2>2. CASE ~\E how \in Ended : End(r, how)
    <3>1. batch'[r] = batch[r] /\ job'[r].toRead = job[r].toRead
      BY <1>1, <2>1, <2>2 DEF Job
    <3>. QED
      BY <1>2, <1>6, <2>1, <2>2, <3>1 DEF Working, Holding
  <2>. QED
    BY <1>5, <2>2
<1>8. CASE ListMessages(r)
  <2>. DEFINE listed == MessageReferences(ScanLimit)
              step   == IF listed = <<>> THEN "complete" ELSE "claim"
  <2>1. \A m \in Range(listed) :
          /\ m.number \in DOMAIN maildrop /\ maildrop[m.number] = m.uidl
          /\ m.number + ScanLimit > Len(maildrop)
    <3>. SUFFICES ASSUME NEW i \in DOMAIN listed
                  PROVE  /\ listed[i].number \in DOMAIN maildrop
                         /\ maildrop[listed[i].number] = listed[i].uidl
                         /\ listed[i].number + ScanLimit > Len(maildrop)
      BY DEF Range
    <3>1. ScanLimit \in Nat /\ Len(maildrop) \in Nat
      BY <1>1, LimitsAssumption DEF ScanLimit, Min2
    <3>2. i \in 1..Min2(ScanLimit, Len(maildrop)) /\ listed[i].number = Len(maildrop) + 1 - i
      BY DEF MessageReferences
    <3>3. listed[i].number + ScanLimit > Len(maildrop)
      <4>. HIDE DEF listed
      <4>. QED
        BY <3>1, <3>2 DEF Min2
    <3>. QED
      BY <3>3, ReferencesListed
  <2>2. listed \in Seq(References) /\ (listed = <<>> => step = "complete")
        /\ (listed # <<>> => step = "claim")
    BY ReferencesListed
  <2>3. \/ ToCatch(r)
        \/ /\ Goto(r, "filter") /\ UNCHANGED batch
           /\ job' = [job EXCEPT ![r].toRead = listed]
        \/ /\ Goto(r, step) /\ batch' = [batch EXCEPT ![r] = listed]
           /\ job' = [job EXCEPT ![r].counts = WithDetected(@, Len(listed))]
    BY <1>8, Zenon DEF ListMessages
  <2>4. pc[r] = "list"
    BY <1>8 DEF ListMessages
  <2>. HIDE DEF listed, step
  <2>5. ASSUME Goto(r, "filter"), UNCHANGED batch, job' = [job EXCEPT ![r].toRead = listed]
        PROVE  Goal
    <3>1. job'[r].toRead = listed /\ batch'[r] = batch[r] /\ pc'[r] = "filter"
      BY <1>1, <1>2, <2>5 DEF Job
    <3>2. Carried(r)' \subseteq Carried(r) \cup Range(listed)
      BY <3>1 DEF Carried
    <3>3. ListsOK(r) => ListsOK(r)'
      BY <2>4, <3>1 DEF ListsOK, Working, Holding
    <3>. QED
      BY <2>1, <2>4, <3>2, <3>3
  <2>6. ASSUME Goto(r, step), batch' = [batch EXCEPT ![r] = listed],
               job' = [job EXCEPT ![r].counts = WithDetected(@, Len(listed))]
        PROVE  Goal
    <3>1. job'[r].toRead = job[r].toRead /\ batch'[r] = listed /\ pc'[r] = step
      BY <1>1, <1>2, <2>6 DEF Job
    <3>2. Carried(r)' \subseteq Carried(r) \cup Range(listed)
      BY <3>1 DEF Carried
    <3>3. ListsOK(r) => ListsOK(r)'
      BY <2>2, <2>4, <3>1 DEF ListsOK, Working
    <3>. QED
      BY <2>1, <2>4, <3>2, <3>3
  <2>. QED
    BY <1>5, <2>3, <2>5, <2>6
<1>9. CASE FilterIncrementalMessages(r)
  <2>. DEFINE wanted == Pick(job[r].toRead, Wanted(job[r].toRead))
              step   == IF wanted = <<>> THEN "complete" ELSE "metadata"
  <2>1. Wanted(job[r].toRead) \in SUBSET DOMAIN job[r].toRead
    BY DEF Wanted
  <2>2. Range(wanted) \subseteq Range(job[r].toRead)
    <3>1. \A k \in DOMAIN wanted : \E i \in Wanted(job[r].toRead) : wanted[k] = job[r].toRead[i]
      BY <1>1, <2>1, PickChooses
    <3>. QED
      BY <2>1, <3>1 DEF Range
  <2>3. (wanted = <<>> => step = "complete") /\ (wanted # <<>> => step = "metadata")
    OBVIOUS
  <2>4. \/ ToCatch(r)
        \/ Goto(r, step) /\ UNCHANGED batch /\ job' = [job EXCEPT ![r].toRead = wanted]
    BY <1>9, Zenon DEF FilterIncrementalMessages
  <2>5. pc[r] = "filter"
    BY <1>9 DEF FilterIncrementalMessages
  <2>. HIDE DEF wanted, step
  <2>6. ASSUME Goto(r, step), UNCHANGED batch, job' = [job EXCEPT ![r].toRead = wanted]
        PROVE  Goal
    <3>1. job'[r].toRead = wanted /\ batch'[r] = batch[r] /\ pc'[r] = step
      BY <1>1, <1>2, <2>6 DEF Job
    <3>2. Carried(r)' \subseteq Carried(r)
      BY <2>2, <3>1 DEF Carried
    <3>3. ListsOK(r) => ListsOK(r)'
      BY <2>3, <2>5, <3>1 DEF ListsOK, Working, Holding
    <3>. QED
      BY <3>2, <3>3
  <2>. QED
    BY <1>5, <2>4, <2>6
<1>10. CASE GetMessageMetadata(r)
  <2>. DEFINE n    == Head(job[r].toRead).number
              rest == Tail(job[r].toRead)
              read == [number |-> n, uidl |-> maildrop[n]]
              step == IF rest = <<>> THEN "claim" ELSE "metadata"
  <2>1. pc[r] = "metadata" /\ job[r].toRead # <<>>
    BY <1>1, <1>10 DEF RunsOK, GetMessageMetadata
  <2>2. /\ Range(rest) \subseteq Range(job[r].toRead)
        /\ \E d \in Range(job[r].toRead) : d.number = n
    <3>1. 1 \in DOMAIN job[r].toRead /\ Head(job[r].toRead) = job[r].toRead[1]
      BY <1>1, <2>1
    <3>. QED
      BY <1>1, <1>4, <2>1, <3>1 DEF Range
  <2>3. \/ ToCatch(r)
        \/ /\ n \in DOMAIN maildrop /\ batch' = [batch EXCEPT ![r] = Append(@, read)]
           /\ job' = [job EXCEPT ![r].toRead = rest,
                                 ![r].counts = IF rest = <<>>
                                               THEN WithDetected(@, Len(batch[r]) + 1) ELSE @]
           /\ Goto(r, step)
    BY <1>10, Zenon DEF GetMessageMetadata
  <2>4. read.number = n /\ read.uidl = maildrop[n]
    OBVIOUS
  <2>5. (rest = <<>> => step = "claim") /\ (rest # <<>> => step = "metadata")
    OBVIOUS
  <2>. HIDE DEF n, rest, read, step
  <2>6. Range(Append(batch[r], read)) \subseteq Range(batch[r]) \cup {read}
    <3>1. /\ \A i \in 1..Len(batch[r]) : Append(batch[r], read)[i] = batch[r][i]
          /\ Append(batch[r], read)[Len(batch[r]) + 1] = read
          /\ DOMAIN Append(batch[r], read) = 1..(Len(batch[r]) + 1)
          /\ DOMAIN batch[r] = 1..Len(batch[r]) /\ Len(batch[r]) \in Nat
      BY <1>1
    <3>. QED
      BY <3>1 DEF Range
  <2>7. ASSUME n \in DOMAIN maildrop, batch' = [batch EXCEPT ![r] = Append(@, read)],
               job' = [job EXCEPT ![r].toRead = rest,
                                  ![r].counts = IF rest = <<>>
                                                THEN WithDetected(@, Len(batch[r]) + 1) ELSE @],
               Goto(r, step)
        PROVE  Goal
    <3>1. job'[r].toRead = rest /\ batch'[r] = Append(batch[r], read) /\ pc'[r] = step
      BY <1>1, <1>2, <2>7 DEF Job
    <3>2. Carried(r)' \subseteq Carried(r) \cup {read}
      BY <2>2, <2>6, <3>1 DEF Carried
    <3>3. \E d \in Carried(r) : d.number = n
      BY <2>2 DEF Carried
    <3>4. ListsOK(r) => ListsOK(r)'
      BY <2>5, <3>1 DEF ListsOK, Working
    <3>. QED
      BY <2>1, <2>4, <2>7, <3>2, <3>3, <3>4
  <2>. QED
    BY <1>5, <2>3, <2>7
<1>11. CASE ClaimForProcessing(r) \/ MarkImported(r) \/ MarkReconciled(r) \/ MarkFailed(r)
  <2>1. /\ pc[r] \in Working /\ batch[r] # <<>>
        /\ \/ ToCatch(r)
           \/ UNCHANGED <<batch, job>> /\ \E step \in Working : Goto(r, step)
           \/ \E counted : NextMessage(r, counted)
    <3>1. pc[r] \in Working
      BY <1>11, Zenon DEF ClaimForProcessing, MarkImported, MarkReconciled, MarkFailed, Working,
         Holding
    <3>2. batch[r] # <<>>
      BY <1>1, <3>1 DEF RunsOK
    <3>3. \/ ToCatch(r)
          \/ UNCHANGED <<batch, job>> /\ \E step \in Working : Goto(r, step)
          \/ \E counted : NextMessage(r, counted)
      BY <1>11, Zenon DEF ClaimForProcessing, MarkImported, MarkReconciled, MarkFailed, Working,
         Holding
    <3>. QED
      BY <3>1, <3>2, <3>3
  <2>2. ASSUME NEW counted, NextMessage(r, counted)
        PROVE  Goal
    <3>. DEFINE step == IF Tail(batch[r]) = <<>> THEN "cleanup" ELSE "claim"
    <3>1. batch'[r] = Tail(batch[r]) /\ job'[r].toRead = job[r].toRead /\ Goto(r, step)
      BY <1>1, <2>2 DEF NextMessage, Job
    <3>2. /\ Tail(batch[r]) = <<>> => step = "cleanup"
          /\ Tail(batch[r]) # <<>> => step = "claim"
      OBVIOUS
    <3>. HIDE DEF step
    <3>3. ListsOK(r) => ListsOK(r)'
      BY <1>2, <2>1, <3>1, <3>2 DEF ListsOK, Working, Holding
    <3>4. Carried(r)' \subseteq Carried(r)
      BY <1>1, <1>4, <2>1, <3>1 DEF Carried
    <3>. QED
      BY <3>3, <3>4
  <2>3. ASSUME UNCHANGED <<batch, job>>, NEW step \in Working, Goto(r, step)
        PROVE  Goal
    BY <1>2, <1>6, <2>1, <2>3 DEF Working, Holding
  <2>. QED
    BY <1>5, <2>1, <2>2, <2>3
<1>12. CASE GetMessage(r) \/ ImportMessage(r) \/ ReconcileImportedMessage(r)
  <2>1. /\ pc[r] \in {"fetch", "import", "lookup"} /\ UNCHANGED batch
        /\ \E step \in {"import", "markImported", "remark", "markFailed"} : Goto(r, step)
        /\ \/ UNCHANGED job
           \/ job' = [job EXCEPT ![r].rawMessage = {maildrop[Current(r).number]}]
           \/ job' = [job EXCEPT ![r].calls = @ + 1]
    BY <1>12, Zenon DEF GetMessage, ImportMessage, ReconcileImportedMessage
  <2>2. batch'[r] = batch[r] /\ job'[r].toRead = job[r].toRead
    BY <1>1, <2>1 DEF Job
  <2>. QED
    BY <1>2, <1>6, <2>1, <2>2 DEF Working, Holding
<1>13. CASE ListImportedRecords(r) \/ DeleteRecords(r) \/ CompleteJob(r) \/ GetStatistics(r)
            \/ SaveStatistics(r) \/ Kill(r)
  <2>1. \/ ToCatch(r) \/ \E how \in Ended : End(r, how)
        \/ /\ UNCHANGED batch /\ pc[r] \in {"cleanup", "delete"} \cup Closing
           /\ \E step \in {"delete", "complete", "refresh", "saveStatistics"} : Goto(r, step)
           /\ \/ UNCHANGED job
              \/ \E S : job' = [job EXCEPT ![r].candidates = S]
              \/ job' = [job EXCEPT ![r].statistics = jobRuns]
    BY <1>13, Zenon DEF ListImportedRecords, DeleteRecords, CompleteJob, GetStatistics,
       SaveStatistics, Kill, Outcome, Ended, Closing
  <2>2. CASE ~(ToCatch(r) \/ \E how \in Ended : End(r, how))
    <3>1. batch'[r] = batch[r] /\ job'[r].toRead = job[r].toRead
      BY <1>1, <2>1, <2>2 DEF Job
    <3>. QED
      BY <1>2, <1>6, <2>1, <2>2, <3>1 DEF Working, Holding, Closing
  <2>. QED
    BY <1>5, <2>2
<1>. QED
  BY <1>7, <1>8, <1>9, <1>10, <1>11, <1>12, <1>13 DEF RunStep
-----------------------------------------------------------------------------
(***************************************************************************)
(* What the retention floor covers.                                        *)
(***************************************************************************)
\* What a scan lists once a run is recorded, as every run that lists is.
Window == Min2(MaxMessagesPerRun, IncrementalScanLimit)

\* A UIDL that was imported once: markFailed and the next claim keep the date.
Dated(u) == records[u].importedAt.order > 0

DatesOK ==
  \A u \in Uidls :
    /\ records[u].importedAt.hour <= now
    /\ records[u].status = "imported" => Dated(u)

\* As long as no number has changed, messages are dated in the order of their
\* numbers but for less than a window: a run carries the references of one
\* window, and nothing dated is a window ahead of them.
ScanOrder ==
  /\ \A m, n \in DOMAIN maildrop : maildrop[m] = maildrop[n] => m = n
  /\ \A u \in Uidls : records[u] # NoRecord => u \in InMaildrop
  /\ \A r \in Runs : \A a, b \in Carried(r) : a.number + Window > b.number
  /\ \A r \in Runs : \A a \in Carried(r), n \in DOMAIN maildrop :
       Dated(maildrop[n]) => a.number + Window > n
  /\ \A m, n \in DOMAIN maildrop :
       Dated(maildrop[m]) /\ Dated(maildrop[n]) /\ Newer(maildrop[m], maildrop[n])
         => m + Window > n
  /\ \A r \in Runs : pc[r] = "delete" =>
       \A u \in job[r].candidates, n \in DOMAIN maildrop :
         maildrop[n] = u => n + Window <= Len(maildrop)

RetentionInv ==
  /\ \A r \in Runs : ListsOK(r)
  /\ DatesOK
  /\ gone = {} => ScanOrder

WindowCovered ==
  MaxLive = 1 /\ MinimumRetainedCount >= 2 * Window - 1

LEMMA WindowType == Window \in Nat /\ Window > 0
BY LimitsAssumption DEF Window, Min2

\* The record of one UIDL after a step of run r.
LEMMA RecordAfter ==
  ASSUME TypeInv, NEW r \in Runs, Start(r) \/ RunStep(r) \/ Kill(r), NEW u \in Uidls
  PROVE  \/ records'[u] = records[u]
         \/ /\ pc[r] \in Working /\ u = Current(r).uidl
            /\ records'[u].status # "absent"
            /\ \/ /\ records'[u].importedAt = records[u].importedAt
                  /\ records'[u].status # "imported"
               \/ records'[u].importedAt = Now
         \/ pc[r] = "delete" /\ u \in job[r].candidates /\ records'[u] = NoRecord
<1>. DEFINE v == Current(r).uidl
<1>1. records \in [Uidls -> Records]
  BY DEF TypeInv, StoresOK
<1>2. ASSUME NEW record, records' = [records EXCEPT ![v] = record]
      PROVE  records'[u] = records[u] \/ (u = v /\ records'[u] = record)
  BY <1>1, <1>2
<1>3. CASE UNCHANGED records
  BY <1>3
<1>4. CASE pc[r] = "claim" /\ records' = [records EXCEPT ![v] = ProcessingRecord(records[v], r)]
  <2>. DEFINE record == ProcessingRecord(records[v], r)
  <2>1. /\ record.status = "processing" /\ record.importedAt = records[v].importedAt
        /\ pc[r] \in Working
    BY <1>4 DEF ProcessingRecord, Working
  <2>. HIDE DEF record, v
  <2>2. records' = [records EXCEPT ![v] = record]
    BY <1>4 DEF record
  <2>. QED
    BY <1>2, <2>1, <2>2 DEF v
<1>5. ASSUME pc[r] \in Holding, NEW record, records' = [records EXCEPT ![v] = record],
             \/ record.status = "failed" /\ record.importedAt = records[v].importedAt
             \/ record.status = "imported" /\ record.importedAt = Now
      PROVE  \/ records'[u] = records[u]
             \/ /\ pc[r] \in Working /\ u = v
                /\ records'[u].status # "absent"
                /\ \/ /\ records'[u].importedAt = records[u].importedAt
                      /\ records'[u].status # "imported"
                   \/ records'[u].importedAt = Now
  <2>. HIDE DEF v
  <2>. QED
    BY <1>2, <1>5 DEF Working
<1>6. ASSUME pc[r] = "delete", NEW S \in SUBSET job[r].candidates,
             records' = [w \in Uidls |-> IF w \in S THEN NoRecord ELSE records[w]]
      PROVE  records'[u] = records[u] \/ (u \in job[r].candidates /\ records'[u] = NoRecord)
  BY <1>6
<1>. QED
  BY <1>3, <1>4, <1>5, <1>6, RecordsChange

LEMMA ListsPreserved ==
  ASSUME TypeInv, \A r \in Runs : ListsOK(r), [Next]_vars
  PROVE  \A r \in Runs : ListsOK(r)'
<1>1. ASSUME NEW r \in Runs, Start(r) \/ RunStep(r) \/ Kill(r)
      PROVE  \A q \in Runs : ListsOK(q)'
  <2>1. OnlyRun(r)
    BY <1>1, StepKeepsRuns
  <2>2. ListsOK(r)'
    BY <1>1, CarriedChange
  <2>. QED
    BY <2>1, <2>2 DEF OnlyRun, ListsOK
<1>2. CASE Tick \/ (\E u \in Uidls : Arrive(u)) \/ (\E n \in DOMAIN maildrop : Remove(n))
           \/ UNCHANGED vars
  <2>1. UNCHANGED <<pc, batch, job>>
    BY <1>2 DEF Tick, Arrive, Remove, vars
  <2>. QED
    BY <2>1 DEF ListsOK
<1>. QED
  BY <1>1, <1>2 DEF Next

LEMMA DatesPreserved ==
  ASSUME TypeInv, DatesOK, [Next]_vars
  PROVE  DatesOK'
<1>1. records \in [Uidls -> Records] /\ now \in Nat
  BY DEF TypeInv, StoresOK, Ticks
<1>2. ASSUME NEW r \in Runs, Start(r) \/ RunStep(r) \/ Kill(r), NEW u \in Uidls
      PROVE  /\ records'[u].importedAt.hour <= now'
             /\ records'[u].status = "imported" => records'[u].importedAt.order > 0
  <2>1. now' = now
    <3>1. CASE Start(r)
      BY <3>1 DEF Start
    <3>. QED
      BY <1>2, <3>1, HourKept DEF time
  <2>2. Now.hour = now /\ Now.order > records[u].importedAt.order /\ Now.order \in Nat
    BY NowType DEF TypeInv, Dates
  <2>3. records[u].importedAt.order \in Nat /\ records[u].importedAt.hour <= now
    BY <1>1 DEF Records, Dates, DatesOK
  <2>4. NoRecord.importedAt.hour = 0 /\ NoRecord.status = "absent"
    BY DEF NoRecord, NoDate
  <2>. QED
    BY <1>1, <1>2, <2>1, <2>2, <2>3, <2>4, RecordAfter DEF DatesOK, Dated
<1>3. CASE Tick \/ (\E u \in Uidls : Arrive(u)) \/ (\E n \in DOMAIN maildrop : Remove(n))
           \/ UNCHANGED vars
  <2>1. UNCHANGED records /\ now' \in {now, now + 1}
    BY <1>3 DEF Tick, Arrive, Remove, vars, time
  <2>2. \A u \in Uidls : records[u].importedAt.hour \in Nat
    BY <1>1 DEF Records, Dates, Ticks
  <2>. QED
    BY <1>1, <2>1, <2>2 DEF DatesOK, Dated
<1>. QED
  BY <1>2, <1>3 DEF Next, DatesOK, Dated

\* An imported message in the window is among the newest: fewer than two windows
\* of messages can be newer.
LEMMA WindowRetained ==
  ASSUME TypeInv, DatesOK, ScanOrder, MinimumRetainedCount >= 2 * Window - 1,
         NEW u \in ImportedUidls, NEW n \in DOMAIN maildrop, maildrop[n] = u,
         n + Window > Len(maildrop)
  PROVE  u \in Newest(ImportedUidls, MinimumRetainedCount)
<1>. DEFINE N == {v \in ImportedUidls : Newer(v, u)}
            P == (n - Window + 1)..(n + Window - 1)
            x == n
            Q == P \ {x}
            position == [v \in N |-> CHOOSE m \in DOMAIN maildrop : maildrop[m] = v]
<1>1. /\ n \in Nat /\ DOMAIN maildrop = 1..Len(maildrop) /\ Len(maildrop) \in Nat
      /\ Window \in Nat /\ Window > 0 /\ MinimumRetainedCount \in Nat
  BY WindowType, LimitsAssumption DEF TypeInv, StoresOK
<1>2. ASSUME NEW v \in N
      PROVE  position[v] \in Q /\ maildrop[position[v]] = v
  <2>. DEFINE m == position[v]
  <2>1. v \in Uidls /\ records[v].status = "imported" /\ Newer(v, u) /\ u \in Uidls
    BY DEF ImportedUidls
  <2>2. v \in InMaildrop
    BY <2>1 DEF ScanOrder, NoRecord
  <2>3. m \in DOMAIN maildrop /\ maildrop[m] = v
    BY <2>2 DEF InMaildrop
  <2>4. Dated(v) /\ Dated(u)
    BY <2>1 DEF DatesOK, ImportedUidls
  <2>. HIDE DEF position
  <2>. HIDE DEF m
  <2>5. m + Window > n
    BY <2>1, <2>3, <2>4 DEF ScanOrder
  <2>6. m # n
    <3>1. records[u].importedAt.hour \in Nat /\ records[u].importedAt.order \in Nat
      BY <2>1 DEF TypeInv, StoresOK, Records, Dates, Ticks
    <3>2. ~Newer(u, u)
      BY <3>1 DEF Newer
    <3>. QED
      BY <2>1, <2>3, <3>2
  <2>7. m \in Nat /\ m <= Len(maildrop)
    BY <1>1, <2>3
  <2>8. m \in Q
    BY <1>1, <2>5, <2>6, <2>7
  <2>. QED
    BY <2>3, <2>8 DEF m
<1>3. IsFiniteSet(Q) /\ Cardinality(Q) = 2 * Window - 2
  <2>1. IsFiniteSet(P) /\ Cardinality(P) = 2 * Window - 1
    <3>. DEFINE a == n - Window + 1
                b == n + Window - 1
    <3>1. a \in Int /\ b \in Int /\ ~(a > b) /\ b - a + 1 = 2 * Window - 1
      BY <1>1
    <3>. HIDE DEF a, b
    <3>2. IsFiniteSet(a..b) /\ Cardinality(a..b) = b - a + 1
      BY <3>1, FS_Interval
    <3>. QED
      BY <3>1, <3>2 DEF a, b
  <2>2. x \in P
    BY <1>1
  <2>. HIDE DEF P, x
  <2>3. IsFiniteSet(P \ {x}) /\ Cardinality(P \ {x}) = Cardinality(P) - 1
    BY <2>1, <2>2, FS_RemoveElement
  <2>. QED
    BY <1>1, <2>1, <2>3
<1>. HIDE DEF Q
<1>4. position \in Injection(N, Q)
  <2>1. position \in [N -> Q]
    BY <1>2
  <2>2. \A v, w \in N : position[v] = position[w] => v = w
    <3>. HIDE DEF position
    <3>. QED
      BY <1>2
  <2>. HIDE DEF position
  <2>. QED
    BY <2>1, <2>2 DEF Injection, IsInjective
<1>. HIDE DEF position, N
<1>5. IsFiniteSet(N) /\ Cardinality(N) <= Cardinality(Q)
  BY <1>3, <1>4, FS_Injection
<1>6. Cardinality(N) \in Nat
  BY <1>5, FS_CardinalityType
<1>7. Cardinality(N) < MinimumRetainedCount
  BY <1>1, <1>3, <1>5, <1>6
<1>. QED
  BY <1>7 DEF Newest, N

\* Only a run under way carries references.
LEMMA OthersCarryNothing ==
  ASSUME MaxLive = 1, TypeInv, SerialInv, \A q \in Runs : ListsOK(q),
         NEW r \in Runs, Start(r) \/ RunStep(r) \/ Kill(r), NEW q \in Runs \ {r}
  PROVE  Carried(q) = {} /\ Carried(q)' = {} /\ pc'[q] # "delete"
<1>1. pc[q] \in Ended \cup {"unborn"}
  BY OthersEnded DEF Live
<1>2. batch[q] = <<>> /\ job[q].toRead = <<>>
  BY <1>1 DEF ListsOK, Working, Holding, Ended
<1>3. Carried(q) = {}
  BY <1>2 DEF Carried, Range
<1>4. pc'[q] = pc[q] /\ Carried(q)' = Carried(q)
  BY StepKeepsRuns DEF OnlyRun, Carried
<1>. QED
  BY <1>1, <1>3, <1>4 DEF Ended

\* The references of a run after its step lie where those before it did, or at
\* the end of the maildrop, which is where it lists.
LEMMA NumbersChange ==
  ASSUME TypeInv, LiveRunRecorded, \A q \in Runs : ListsOK(q),
         NEW r \in Runs, Start(r) \/ RunStep(r) \/ Kill(r)
  PROVE  \/ \A a \in Carried(r)' : \E d \in Carried(r) : d.number = a.number
         \/ /\ pc[r] = "list"
            /\ \A a \in Carried(r)' :
                 a.number \in DOMAIN maildrop /\ a.number + Window > Len(maildrop)
<1>1. CASE pc[r] # "list"
  BY <1>1, CarriedChange
<1>2. CASE pc[r] = "list"
  <2>1. Carried(r) = {}
    <3>1. batch[r] = <<>> /\ job[r].toRead = <<>>
      BY <1>2 DEF ListsOK, Working, Holding
    <3>. QED
      BY <3>1 DEF Carried, Range
  <2>2. HasPriorRuns
    BY <1>2 DEF LiveRunRecorded, Live, Ended, HasPriorRuns
  <2>3. ScanLimit = Window
    BY <2>2 DEF ScanLimit, Window
  <2>. QED
    BY <1>2, <2>1, <2>3, CarriedChange
<1>. QED
  BY <1>1, <1>2

LEMMA CurrentCarried ==
  ASSUME TypeInv, NEW r \in Runs, pc[r] \in Working
  PROVE  /\ Current(r) \in Carried(r) /\ Current(r).uidl \in Uidls
         /\ AsListed(batch[r]) =>
              /\ Current(r).number \in DOMAIN maildrop
              /\ maildrop[Current(r).number] = Current(r).uidl
<1>1. batch[r] \in Seq(References) /\ batch[r] # <<>>
  BY DEF TypeInv, RunsOK
<1>2. 1 \in DOMAIN batch[r] /\ Head(batch[r]) = batch[r][1]
  BY <1>1
<1>3. Current(r).uidl \in Uidls
  BY TypeInvShapes, CurrentUidl
<1>. QED
  BY <1>2, <1>3 DEF Current, Carried, Range, AsListed

LEMMA ScanOrderAfterRunStep ==
  ASSUME WindowCovered, TypeInv, LiveRunRecorded, SerialInv, Delivered,
         \A q \in Runs : ListsOK(q), DatesOK, ScanOrder,
         NEW r \in Runs, Start(r) \/ RunStep(r) \/ Kill(r)
  PROVE  ScanOrder'
<1>. DEFINE k == Current(r).number
            c == Current(r).uidl
            Date(u) == records[u].importedAt
<1>1. /\ maildrop' = maildrop /\ DOMAIN maildrop = 1..Len(maildrop) /\ Len(maildrop) \in Nat
      /\ Window \in Nat /\ Window > 0 /\ records \in [Uidls -> Records]
      /\ \A n \in DOMAIN maildrop : maildrop[n] \in Uidls
  BY MaildropKept, WindowType DEF TypeInv, StoresOK
<1>2. \A q \in Runs \ {r} : Carried(q) = {} /\ Carried(q)' = {} /\ pc'[q] # "delete"
  BY OthersCarryNothing DEF WindowCovered
<1>3. pc[r] \in Working =>
        /\ Current(r) \in Carried(r) /\ c \in Uidls /\ k \in DOMAIN maildrop /\ maildrop[k] = c
  BY CurrentCarried DEF Delivered
<1>4. \A q \in Runs : \A d \in Carried(q) : d.number \in Nat
  <2>. SUFFICES ASSUME NEW q \in Runs PROVE Carried(q) \subseteq References
    BY DEF References
  <2>1. batch[q] \in Seq(References) /\ job[q].toRead \in Seq(References)
    BY DEF TypeInv, RunsOK, Job
  <2>. QED
    BY <2>1 DEF Carried, Range
<1>5. \A u \in Uidls : Date(u).hour \in Nat /\ Date(u).order \in Nat /\ Date(u).hour <= now
  BY <1>1 DEF Records, Dates, Ticks, DatesOK
<1>6. /\ Uidls # {} => Now.hour = now /\ Now.order \in Nat
      /\ \A u \in Uidls : Date(u).order < Now.order
  BY NowType DEF TypeInv, Dates
\* A date changes to the present at the message the run works on, or is lost.
<1>7. ASSUME NEW u \in Uidls
      PROVE  \/ Date(u)' = Date(u)
             \/ pc[r] \in Working /\ u = c /\ Date(u)' = Now
             \/ Date(u)' = NoDate
  BY RecordAfter DEF NoRecord
<1>8. now \in Nat
  BY DEF TypeInv, StoresOK, Ticks
<1>9. (\A m, n \in DOMAIN maildrop : maildrop[m] = maildrop[n] => m = n)'
  BY <1>1 DEF ScanOrder
<1>10. (\A u \in Uidls : records[u] # NoRecord => u \in InMaildrop)'
  BY <1>1, <1>3, RecordAfter DEF ScanOrder, InMaildrop
<1>11. ASSUME NEW q \in Runs, NEW a \in Carried(q)', NEW b \in Carried(q)'
       PROVE  a.number + Window > b.number
  <2>1. q = r
    BY <1>2
  <2>2. CASE \A e \in Carried(r)' : \E d \in Carried(r) : d.number = e.number
    BY <2>1, <2>2 DEF ScanOrder
  <2>3. CASE \A e \in Carried(r)' :
               e.number \in DOMAIN maildrop /\ e.number + Window > Len(maildrop)
    <3>1. /\ a.number + Window > Len(maildrop) /\ b.number \in 1..Len(maildrop)
          /\ a.number \in 1..Len(maildrop)
      BY <1>1, <2>1, <2>3
    <3>. QED
      BY <1>1, <3>1
  <2>. QED
    BY <2>2, <2>3, NumbersChange
<1>12. ASSUME NEW q \in Runs, NEW a \in Carried(q)', NEW n \in DOMAIN maildrop,
              Dated(maildrop[n])'
       PROVE  a.number + Window > n
  <2>1. q = r
    BY <1>2
  <2>2. CASE /\ pc[r] = "list"
             /\ \A e \in Carried(r)' :
                  e.number \in DOMAIN maildrop /\ e.number + Window > Len(maildrop)
    <3>1. a.number + Window > Len(maildrop) /\ a.number \in 1..Len(maildrop)
      BY <1>1, <2>1, <2>2
    <3>. QED
      BY <1>1, <3>1
  <2>3. ASSUME NEW d \in Carried(r), d.number = a.number
        PROVE  a.number + Window > n
    <3>1. CASE Dated(maildrop[n])
      BY <2>3, <3>1 DEF ScanOrder
    <3>2. CASE ~Dated(maildrop[n])
      <4>1. Date(maildrop[n])' # Date(maildrop[n]) /\ Date(maildrop[n])' # NoDate
        BY <1>1, <1>12, <3>2 DEF Dated, NoDate
      <4>2. pc[r] \in Working /\ maildrop[n] = c
        BY <1>1, <1>7, <4>1
      <4>3. n = k /\ Current(r) \in Carried(r)
        BY <1>3, <4>2 DEF ScanOrder
      <4>. QED
        BY <2>3, <4>3 DEF ScanOrder
    <3>. QED
      BY <3>1, <3>2
  <2>. QED
    BY <2>1, <2>2, <2>3, NumbersChange
<1>13. ASSUME NEW m \in DOMAIN maildrop, NEW n \in DOMAIN maildrop,
              NEW u \in Uidls, NEW v \in Uidls, maildrop[m] = u, maildrop[n] = v,
              Dated(u)', Dated(v)', Newer(u, v)'
       PROVE  m + Window > n
  <2>2. Date(u)' # NoDate /\ Date(v)' # NoDate
    BY <1>13 DEF Dated, NoDate
  <2>3. \/ Date(u)'.hour > Date(v)'.hour
        \/ Date(u)'.hour = Date(v)'.hour /\ Date(u)'.order > Date(v)'.order
    BY <1>13 DEF Newer
  <2>4. Date(u)'.order > 0 /\ Date(v)'.order > 0
    BY <1>13 DEF Dated
  <2>. HIDE DEF Date, c, k
  <2>5. CASE Date(u)' = Date(u) /\ Date(v)' = Date(v)
    <3>1. Dated(u) /\ Dated(v) /\ Newer(u, v)
      BY <2>3, <2>4, <2>5 DEF Dated, Newer, Date
    <3>. QED
      BY <1>13, <3>1 DEF ScanOrder
  <2>6. CASE pc[r] \in Working /\ u = c /\ Date(u)' = Now /\ Date(v)' = Date(v)
    <3>1. Dated(v)
      BY <2>4, <2>6 DEF Dated, Date
    <3>2. m = k /\ Current(r) \in Carried(r)
      BY <1>3, <1>13, <2>6 DEF ScanOrder
    <3>. QED
      BY <1>13, <3>1, <3>2 DEF ScanOrder, k
  <2>7. CASE Date(v)' = Now
    <3>1. Date(u)' = Date(u) \/ Date(u)' = Now
      BY <1>7, <2>2
    <3>. QED
      BY <1>5, <1>6, <1>8, <2>3, <2>7, <3>1
  <2>. QED
    BY <1>7, <2>2, <2>5, <2>6, <2>7
<1>14. ASSUME NEW q \in Runs, pc'[q] = "delete", NEW u \in job'[q].candidates,
              NEW n \in DOMAIN maildrop, maildrop[n] = u
       PROVE  n + Window <= Len(maildrop)
  <2>1. q = r
    BY <1>2, <1>14
  <2>2. u \in ImportedUidls /\ u \notin Newest(ImportedUidls, MinimumRetainedCount)
    BY <1>14, <2>1, CandidatesChosen
  <2>3. ~(n + Window > Len(maildrop))
    BY <1>14, <2>2, WindowRetained DEF WindowCovered
  <2>. QED
    BY <1>1, <2>3
<1>. QED
  BY <1>1, <1>9, <1>10, <1>11, <1>12, <1>13, <1>14 DEF ScanOrder

LEMMA ScanOrderAfterArrival ==
  ASSUME TypeInv, SerialInv, ScanOrder, NEW u \in Uidls, Arrive(u)
  PROVE  ScanOrder'
<1>1. /\ maildrop \in Seq(Uidls) /\ DOMAIN maildrop = 1..Len(maildrop) /\ Len(maildrop) \in Nat
      /\ Window \in Nat
  BY WindowType DEF TypeInv, StoresOK
<1>2. /\ u \notin InMaildrop /\ maildrop' = Append(maildrop, u)
      /\ UNCHANGED <<records, pc, batch, job>>
  BY DEF Arrive
<1>3. /\ DOMAIN maildrop' = 1..(Len(maildrop) + 1) /\ Len(maildrop') = Len(maildrop) + 1
      /\ \A n \in DOMAIN maildrop : maildrop'[n] = maildrop[n]
      /\ maildrop'[Len(maildrop) + 1] = u
  BY <1>1, <1>2
<1>4. \A n \in DOMAIN maildrop' : n \in DOMAIN maildrop \/ maildrop'[n] = u
  BY <1>1, <1>3
<1>5. records[u] = NoRecord
  BY <1>2 DEF ScanOrder
<1>6. ~Dated(u)
  BY <1>5 DEF Dated, NoRecord, NoDate
<1>7. \A n \in DOMAIN maildrop : maildrop[n] # u
  BY <1>2 DEF InMaildrop
<1>8. \A n \in DOMAIN maildrop' : maildrop'[n] = u => n = Len(maildrop) + 1
  BY <1>1, <1>3, <1>7
<1>9. /\ \A r \in Runs : Carried(r)' = Carried(r)
      /\ \A v : (Dated(v)' <=> Dated(v)) /\ \A w : (Newer(v, w)' <=> Newer(v, w))
  BY <1>2 DEF Carried, Dated, Newer
<1>10. \A m, n \in DOMAIN maildrop' : maildrop'[m] = maildrop'[n] => m = n
  BY <1>3, <1>4, <1>7, <1>8 DEF ScanOrder
<1>11. \A v \in Uidls : records'[v] # NoRecord => v \in InMaildrop'
  <2>1. InMaildrop \subseteq InMaildrop'
    BY <1>1, <1>3 DEF InMaildrop
  <2>. QED
    BY <1>2, <2>1 DEF ScanOrder
<1>12. \A r \in Runs : \A a, b \in Carried(r)' : a.number + Window > b.number
  BY <1>9 DEF ScanOrder
<1>13. \A r \in Runs : \A a \in Carried(r)', n \in DOMAIN maildrop' :
         records'[maildrop'[n]].importedAt.order > 0 => a.number + Window > n
  BY <1>2, <1>3, <1>4, <1>6, <1>9 DEF ScanOrder, Dated
<1>14. (\A m, n \in DOMAIN maildrop :
          Dated(maildrop[m]) /\ Dated(maildrop[n]) /\ Newer(maildrop[m], maildrop[n])
            => m + Window > n)'
  <2>. SUFFICES ASSUME NEW m \in DOMAIN maildrop', NEW n \in DOMAIN maildrop',
                       Dated(maildrop[m])', Dated(maildrop[n])',
                       Newer(maildrop[m], maildrop[n])'
                PROVE  m + Window > n
    OBVIOUS
  <2>1. m \in DOMAIN maildrop /\ n \in DOMAIN maildrop
    BY <1>2, <1>4, <1>6 DEF Dated
  <2>2. maildrop'[m] = maildrop[m] /\ maildrop'[n] = maildrop[n]
    BY <1>3, <2>1
  <2>3. Dated(maildrop[m]) /\ Dated(maildrop[n]) /\ Newer(maildrop[m], maildrop[n])
    BY <1>2, <2>2 DEF Dated, Newer
  <2>. QED
    BY <2>1, <2>3 DEF ScanOrder
<1>15. ASSUME NEW r \in Runs, pc'[r] = "delete", NEW v \in job'[r].candidates,
              NEW n \in DOMAIN maildrop', maildrop'[n] = v
       PROVE  n + Window <= Len(maildrop')
  <2>1. records[v].status = "imported"
    BY <1>2, <1>15 DEF SerialInv
  <2>2. v # u
    BY <1>5, <2>1 DEF NoRecord
  <2>3. n \in DOMAIN maildrop /\ maildrop[n] = v
    BY <1>3, <1>4, <1>15, <2>2
  <2>4. n + Window <= Len(maildrop)
    BY <1>2, <1>15, <2>3 DEF ScanOrder
  <2>. QED
    BY <1>1, <1>3, <2>3, <2>4
<1>. QED
  BY <1>10, <1>11, <1>12, <1>13, <1>14, <1>15 DEF ScanOrder, Dated

LEMMA RetentionPreserved ==
  ASSUME WindowCovered
  PROVE  /\ TypeInv /\ RecordedInv /\ DeliveredInv /\ SerialInv /\ RetentionInv /\ [Next]_vars
         => RetentionInv'
<1>. SUFFICES ASSUME TypeInv, RecordedInv, DeliveredInv, SerialInv, RetentionInv, [Next]_vars
              PROVE  RetentionInv'
  OBVIOUS
<1>1. /\ \A r \in Runs : ListsOK(r)'
      /\ DatesOK'
  BY ListsPreserved, DatesPreserved DEF RetentionInv
<1>2. ASSUME gone' = {} PROVE ScanOrder'
  <2>1. gone = {} /\ ScanOrder /\ Delivered
    BY <1>2, NumbersKept DEF RetentionInv, DeliveredInv
  <2>2. ASSUME NEW r \in Runs, Start(r) \/ RunStep(r) \/ Kill(r)
        PROVE  ScanOrder'
    BY <2>1, <2>2, ScanOrderAfterRunStep DEF RetentionInv, RecordedInv
  <2>3. ASSUME NEW u \in Uidls, Arrive(u)
        PROVE  ScanOrder'
    BY <2>1, <2>3, ScanOrderAfterArrival
  <2>4. ~\E n \in DOMAIN maildrop : Remove(n)
    BY <1>2 DEF Remove
  <2>5. CASE Tick \/ UNCHANGED vars
    <3>1. UNCHANGED <<maildrop, records, pc, batch, job>>
      BY <2>5 DEF Tick, vars, mailboxes
    <3>. QED
      BY <2>1, <3>1 DEF ScanOrder, InMaildrop, Carried, Dated, Newer
  <2>. QED
    BY <2>2, <2>3, <2>4, <2>5 DEF Next
<1>. QED
  BY <1>1, <1>2 DEF RetentionInv

LEMMA InitRetention == Init => RetentionInv
<1>. SUFFICES ASSUME Init PROVE RetentionInv
  OBVIOUS
<1>1. \A r \in Runs : batch[r] = <<>> /\ job[r].toRead = <<>>
  BY DEF Init, NoJob
<1>2. \A r \in Runs : Carried(r) = {} /\ pc[r] = "unborn"
  BY <1>1 DEF Carried, Range, Init
<1>3. \A u \in Uidls : records[u] = NoRecord
  BY DEF Init
<1>4. DOMAIN maildrop = {}
  BY DEF Init
<1>5. DatesOK
  BY <1>3 DEF DatesOK, NoRecord, NoDate, Init
<1>6. ScanOrder
  BY <1>2, <1>3, <1>4 DEF ScanOrder
<1>. QED
  BY <1>1, <1>5, <1>6 DEF RetentionInv, ListsOK

LEMMA RetentionKeepsScan ==
  ASSUME TypeInv, LiveRunRecorded, RetentionInv, [Next]_vars, gone' = {},
         NEW u \in InScan, records[u].status = "imported"
  PROVE  records'[u].status # "absent"
<1>1. ScanOrder /\ maildrop \in Seq(Uidls)
  BY NumbersKept DEF RetentionInv, TypeInv, StoresOK
<1>2. PICK n \in DOMAIN maildrop : maildrop[n] = u /\ n + ScanLimit > Len(maildrop)
  BY DEF InScan
<1>3. u \in Uidls /\ n \in Nat /\ Len(maildrop) \in Nat
  BY <1>1, <1>2
<1>4. ASSUME NEW r \in Runs, Start(r) \/ RunStep(r) \/ Kill(r)
      PROVE  records'[u].status # "absent"
  <2>1. CASE pc[r] = "delete" /\ u \in job[r].candidates
    <3>1. n + Window <= Len(maildrop)
      BY <1>1, <1>2, <2>1 DEF ScanOrder
    <3>2. HasPriorRuns
      BY <2>1 DEF LiveRunRecorded, Live, Ended, HasPriorRuns
    <3>3. ScanLimit = Window
      BY <3>2 DEF ScanLimit, Window
    <3>. QED
      BY <1>2, <1>3, <3>1, <3>3, WindowType
  <2>. QED
    BY <1>3, <1>4, <2>1, RecordAfter
<1>5. CASE Tick \/ (\E v \in Uidls : Arrive(v)) \/ (\E m \in DOMAIN maildrop : Remove(m))
           \/ UNCHANGED vars
  BY <1>5 DEF Tick, Arrive, Remove, vars
<1>. QED
  BY <1>4, <1>5 DEF Next

\* The code runs one instance of the function, scans 25 messages and retains at
\* least 100 records: under these conditions, and for any number of messages and
\* runs, whatever fails or is killed, no cleanup forgets an imported message the
\* next run would list.
THEOREM ScanStaysRemembered ==
  ASSUME WindowCovered
  PROVE  Spec => ScanRemembered
<1>1. Init => TypeInv /\ RecordedInv /\ DeliveredInv /\ SerialInv /\ RetentionInv
  <2>1. Init => SerialInv
    BY DEF Init, SerialInv, Live
  <2>. QED
    BY <2>1, InitTypes, InitRecorded, InitDelivered, InitRetention
<1>2. TypeInv /\ RecordedInv /\ DeliveredInv /\ SerialInv /\ RetentionInv /\ [Next]_vars =>
        (TypeInv /\ RecordedInv /\ DeliveredInv /\ SerialInv /\ RetentionInv)'
  <2>1. MaxLive = 1
    BY DEF WindowCovered
  <2>2. TypeInv /\ SerialInv /\ [Next]_vars => SerialInv'
    BY <2>1, SerialPreserved
  <2>. QED
    BY <2>2, TypePreserved, RecordedPreserved, DeliveredPreserved, RetentionPreserved
<1>3. TypeInv /\ RecordedInv /\ RetentionInv /\ [Next]_vars =>
        [gone' = {} =>
           \A u \in InScan : records[u].status = "imported" => records'[u].status # "absent"]_vars
  BY RetentionKeepsScan DEF RecordedInv
<1>. QED
  BY <1>1, <1>2, <1>3, PTL DEF Spec, ScanRemembered
-----------------------------------------------------------------------------
(***************************************************************************)
(* The copies of a message in Gmail.                                       *)
(***************************************************************************)
Retrying == {"fetch", "import", "lookup", "remark", "markFailed"}

\* The message of a UIDL may be imported, again if it was before, without
\* anything more going wrong.
Reopened(u) ==
  \/ records[u].status = "failed"
  \/ \E r \in Runs : pc[r] \in Retrying /\ Current(r).uidl = u

LEMMA FaultsChange ==
  ASSUME NEW r \in Runs, Start(r) \/ RunStep(r) \/ Kill(r)
  PROVE  faults' = faults \/ faults' = faults + 1
<1>1. Fine \/ Fault
  BY Zenon DEF Start, Kill, RunStep, ReconcileStaleRunningJobs, SaveStarted, ListMessages,
     FilterIncrementalMessages, GetMessageMetadata, ClaimForProcessing, GetMessage, ImportMessage,
     MarkImported, ReconcileImportedMessage, MarkReconciled, MarkFailed, ListImportedRecords,
     DeleteRecords, CompleteJob, GetStatistics, SaveStatistics
<1>. QED
  BY <1>1 DEF Fine, Fault

\* How a run comes to where it may import its message.
LEMMA RetryingPath ==
  ASSUME TypeInv, NEW r \in Runs, Start(r) \/ RunStep(r) \/ Kill(r), pc'[r] \in Retrying
  PROVE  /\ batch'[r] = batch[r]
         /\ \/ pc[r] \in Retrying
            \/ pc[r] = "claim" /\ CanTransfer(Current(r).uidl)
            \/ pc[r] = "markImported" /\ faults' = faults + 1
<1>1. pc \in [Runs -> Steps]
  BY DEF TypeInv, RunsOK
<1>2. \A step : Goto(r, step) => pc'[r] = step
  BY <1>1 DEF Goto
<1>3. CASE ClaimForProcessing(r)
  <2>1. \/ pc[r] = "claim" /\ CanTransfer(Current(r).uidl) /\ UNCHANGED batch
        \/ \E step \in {"claim", "cleanup", "complete"} : Goto(r, step)
    BY <1>3, Zenon DEF ClaimForProcessing, NextMessage, ToCatch
  <2>. QED
    BY <1>2, <2>1 DEF Retrying
<1>4. CASE GetMessage(r) \/ ReconcileImportedMessage(r) \/ ImportMessage(r)
  <2>1. pc[r] \in Retrying /\ UNCHANGED batch
    BY <1>4 DEF GetMessage, ReconcileImportedMessage, ImportMessage, Retrying
  <2>. QED
    BY <2>1
<1>5. CASE MarkImported(r) \/ MarkReconciled(r)
  <2>1. \/ \E step \in {"claim", "cleanup"} : Goto(r, step)
        \/ pc[r] = "markImported" /\ UNCHANGED batch /\ Fault
        \/ pc[r] = "remark" /\ UNCHANGED batch
    BY <1>5, Zenon DEF MarkImported, MarkReconciled, NextMessage
  <2>. QED
    BY <1>2, <2>1 DEF Retrying, Fault
<1>6. CASE ~(ClaimForProcessing(r) \/ GetMessage(r) \/ ReconcileImportedMessage(r)
             \/ ImportMessage(r) \/ MarkImported(r) \/ MarkReconciled(r))
  <2>1. \E step \in Steps \ Retrying : Goto(r, step)
    BY <1>6, Zenon DEF Start, Kill, RunStep, ReconcileStaleRunningJobs, SaveStarted, ListMessages,
       FilterIncrementalMessages, GetMessageMetadata, MarkFailed, ListImportedRecords,
       DeleteRecords, CompleteJob, GetStatistics, SaveStatistics, ToCatch, End, NextMessage,
       Outcome, Steps, Holding, Ended, Retrying
  <2>. QED
    BY <1>2, <2>1
<1>. QED
  BY <1>3, <1>4, <1>5, <1>6

\* Only a claim of a UIDL without a record, or a fault, opens the way again.
LEMMA ReopenedChange ==
  ASSUME TypeInv, NEW r \in Runs, Start(r) \/ RunStep(r) \/ Kill(r),
         NEW u \in Uidls, Reopened(u)', ~Reopened(u)
  PROVE  /\ u = Current(r).uidl
         /\ \/ pc[r] = "claim" /\ records[u].status = "absent"
            \/ faults' = faults + 1
<1>1. OnlyRun(r)
  BY StepKeepsRuns
<1>2. records'[u].status # "failed"
  <2>1. records \in [Uidls -> Records]
    BY DEF TypeInv, StoresOK
  <2>. SUFFICES ASSUME records'[u].status = "failed" PROVE FALSE
    OBVIOUS
  <2>2. records[u].status # "failed"
    BY DEF Reopened
  <2>3. ASSUME NEW record, records' = [records EXCEPT ![Current(r).uidl] = record]
        PROVE  Current(r).uidl = u /\ record.status = "failed"
    BY <2>1, <2>2, <2>3
  <2>4. ~\E S \in SUBSET job[r].candidates :
           records' = [v \in Uidls |-> IF v \in S THEN NoRecord ELSE records[v]]
    BY <2>2 DEF NoRecord
  <2>5. ProcessingRecord(records[Current(r).uidl], r).status = "processing"
    BY DEF ProcessingRecord
  <2>6. pc[r] = "markFailed" /\ Current(r).uidl = u
    BY <2>2, <2>3, <2>4, <2>5, RecordsChange
  <2>. QED
    BY <2>6 DEF Reopened, Retrying
<1>3. PICK q \in Runs : pc'[q] \in Retrying /\ Current(q)'.uidl = u
  BY <1>2 DEF Reopened
<1>4. q = r
  BY <1>1, <1>3 DEF OnlyRun, Reopened, Current
<1>5. batch'[r] = batch[r] /\ Current(r).uidl = u
  BY <1>3, <1>4, RetryingPath DEF Current
<1>6. pc[r] \notin Retrying
  BY <1>5 DEF Reopened
<1>7. CASE pc[r] = "claim" /\ CanTransfer(Current(r).uidl)
  BY <1>5, <1>7 DEF CanTransfer, Reopened
<1>. QED
  BY <1>3, <1>4, <1>5, <1>6, <1>7, RetryingPath

\* A copy more is the import of a run under way, and closes the way or is a fault.
LEMMA CopiesChange ==
  ASSUME TypeInv, ClaimInv', NEW r \in Runs, Start(r) \/ RunStep(r) \/ Kill(r),
         NEW c \in Uidls, gmail'[c] # gmail[c]
  PROVE  /\ pc[r] = "import" /\ c \in job[r].rawMessage /\ gmail'[c] = gmail[c] + 1
         /\ batch' = batch
         /\ \/ ~Reopened(Current(r).uidl)'
            \/ faults' = faults + 1
<1>1. /\ gmail \in [Uidls -> Nat] /\ pc \in [Runs -> Steps]
  BY DEF TypeInv, StoresOK, RunsOK
<1>2. ImportMessage(r)
  BY DEF Start, Kill, RunStep, ReconcileStaleRunningJobs, SaveStarted, ListMessages,
     FilterIncrementalMessages, GetMessageMetadata, ClaimForProcessing, GetMessage, MarkImported,
     ReconcileImportedMessage, MarkReconciled, MarkFailed, ListImportedRecords, DeleteRecords,
     CompleteJob, GetStatistics, SaveStatistics, mailboxes
<1>3. /\ pc[r] = "import" /\ UNCHANGED batch
      /\ \E u \in job[r].rawMessage : gmail' = [gmail EXCEPT ![u] = gmail[u] + 1]
      /\ Goto(r, "markImported") \/ Fault
  BY <1>1, <1>2, Zenon DEF ImportMessage
<1>4. c \in job[r].rawMessage /\ gmail'[c] = gmail[c] + 1
  BY <1>1, <1>3
<1>5. CASE Goto(r, "markImported")
  <2>. DEFINE v == Current(r).uidl
  <2>1. pc'[r] = "markImported" /\ Current(r)' = Current(r)
    BY <1>1, <1>3, <1>5 DEF Goto, Current
  <2>2. records'[v].claimJobId = r /\ records'[v].status = "processing"
    BY <2>1 DEF ClaimInv, HoldsClaim, Holding
  <2>3. ASSUME NEW q \in Runs, pc'[q] \in Retrying, Current(q)'.uidl = v
        PROVE  FALSE
    <3>1. records'[v].claimJobId = q
      BY <2>3 DEF ClaimInv, HoldsClaim, Retrying, Holding
    <3>. QED
      BY <2>1, <2>2, <2>3, <3>1 DEF Retrying
  <2>. QED
    BY <1>3, <1>4, <2>1, <2>2, <2>3 DEF Reopened
<1>. QED
  BY <1>3, <1>4, <1>5 DEF Fault

\* Behind every scan to come: no run carries it, and none will list it.
Forgotten(u) ==
  \A n \in DOMAIN maildrop : maildrop[n] = u =>
    /\ n + Window <= Len(maildrop)
    /\ \A r \in Runs : \A a \in Carried(r) : a.number # n

\* As long as no number has changed, each copy but the first took a fault, and
\* so will the next one unless the way is open, which took a fault itself.
WindowCopies ==
  \A u \in Uidls : gmail[u] > 0 =>
    /\ gmail[u] - 1 + (IF Reopened(u) THEN 1 ELSE 0) <= faults
    /\ records[u].status = "absent" => Forgotten(u)
    /\ u \in InMaildrop

WindowCopiesInv == gone = {} => WindowCopies

LEMMA WindowCopiesAfterRunStep ==
  ASSUME WindowCovered, TypeInv, ClaimInv, ClaimInv', LiveRunRecorded, SerialInv, Delivered,
         \A q \in Runs : ListsOK(q), ScanOrder, WindowCopies,
         NEW r \in Runs, Start(r) \/ RunStep(r) \/ Kill(r)
  PROVE  WindowCopies'
<1>. SUFFICES ASSUME NEW u \in Uidls, gmail'[u] > 0
              PROVE  /\ gmail'[u] - 1 + (IF Reopened(u)' THEN 1 ELSE 0) <= faults'
                     /\ records'[u].status = "absent" => Forgotten(u)'
                     /\ u \in InMaildrop'
  BY DEF WindowCopies
<1>1. /\ maildrop' = maildrop /\ gmail[u] \in Nat /\ faults \in Nat /\ faults' \in {faults, faults + 1}
      /\ DOMAIN maildrop = 1..Len(maildrop) /\ Len(maildrop) \in Nat /\ Window \in Nat
  BY MaildropKept, FaultsChange, WindowType DEF TypeInv, StoresOK
<1>2. pc[r] \in Working =>
        /\ Current(r) \in Carried(r)
        /\ Current(r).number \in DOMAIN maildrop
        /\ maildrop[Current(r).number] = Current(r).uidl
  BY CurrentCarried DEF Delivered
<1>3. gmail'[u] # gmail[u] =>
        /\ pc[r] = "import" /\ u = Current(r).uidl /\ Reopened(u)
        /\ records[u].status # "absent" /\ gmail'[u] = gmail[u] + 1
        /\ ~Reopened(u)' \/ faults' = faults + 1
  <2>. SUFFICES ASSUME gmail'[u] # gmail[u]
                PROVE  /\ pc[r] = "import" /\ u = Current(r).uidl /\ Reopened(u)
                       /\ records[u].status # "absent" /\ gmail'[u] = gmail[u] + 1
                       /\ ~Reopened(u)' \/ faults' = faults + 1
    OBVIOUS
  <2>1. /\ pc[r] = "import" /\ u \in job[r].rawMessage /\ gmail'[u] = gmail[u] + 1
        /\ ~Reopened(Current(r).uidl)' \/ faults' = faults + 1
    BY CopiesChange
  <2>2. u = Current(r).uidl
    BY <2>1 DEF Delivered
  <2>3. records[u].status # "absent"
    BY <2>1, <2>2 DEF ClaimInv, HoldsClaim, Holding
  <2>4. Current(r)' = Current(r)
    BY CopiesChange DEF Current
  <2>5. Reopened(u)' => Reopened(Current(r).uidl)'
    BY <2>2, <2>4
  <2>. QED
    BY <2>1, <2>2, <2>3, <2>5 DEF Reopened, Retrying
<1>4. ASSUME Reopened(u)', ~Reopened(u), gmail[u] > 0
      PROVE  faults' = faults + 1
  <2>. SUFFICES ASSUME pc[r] = "claim", u = Current(r).uidl, records[u].status = "absent"
                PROVE  FALSE
    BY <1>4, ReopenedChange
  <2>1. Forgotten(u)
    BY <1>4 DEF WindowCopies
  <2>. QED
    BY <1>2, <2>1 DEF Forgotten, Working
<1>5. gmail'[u] - 1 + (IF Reopened(u)' THEN 1 ELSE 0) <= faults'
  <2>1. gmail[u] > 0 => gmail[u] - 1 + (IF Reopened(u) THEN 1 ELSE 0) <= faults
    BY DEF WindowCopies
  <2>. QED
    BY <1>1, <1>3, <1>4, <2>1
<1>6. u \in InMaildrop'
  <2>1. CASE gmail[u] > 0
    BY <1>1, <2>1 DEF WindowCopies, InMaildrop
  <2>2. CASE ~(gmail[u] > 0)
    BY <1>1, <1>2, <1>3, <2>2 DEF InMaildrop, Working, Holding
  <2>. QED
    BY <2>1, <2>2
<1>7. ASSUME records'[u].status = "absent", NEW n \in DOMAIN maildrop, maildrop[n] = u
      PROVE  /\ n + Window <= Len(maildrop)
             /\ \A q \in Runs : \A a \in Carried(q)' : a.number # n
  <2>1. /\ n + Window <= Len(maildrop)
        /\ \A d \in Carried(r) : d.number # n
    <3>1. CASE records[u].status = "absent"
      <4>1. gmail[u] > 0
        BY <1>3, <3>1
      <4>. QED
        BY <1>7, <3>1, <4>1 DEF WindowCopies, Forgotten
    <3>2. CASE records[u].status # "absent"
      <4>1. pc[r] = "delete" /\ u \in job[r].candidates
        BY <1>7, <3>2, RecordAfter
      <4>2. batch[r] = <<>> /\ job[r].toRead = <<>>
        BY <4>1 DEF ListsOK, Working, Holding
      <4>3. Carried(r) = {}
        BY <4>2 DEF Carried, Range
      <4>. QED
        BY <1>7, <4>1, <4>3 DEF ScanOrder
    <3>. QED
      BY <3>1, <3>2
  <2>2. ASSUME NEW a \in Carried(r)', a.number = n
        PROVE  FALSE
    <3>1. ~(n \in DOMAIN maildrop /\ n + Window > Len(maildrop))
      BY <1>1, <2>1
    <3>. QED
      BY <2>1, <2>2, <3>1, NumbersChange
  <2>3. \A q \in Runs \ {r} : Carried(q)' = {}
    BY OthersCarryNothing DEF WindowCovered
  <2>. QED
    BY <2>1, <2>2, <2>3
<1>8. records'[u].status = "absent" => Forgotten(u)'
  BY <1>1, <1>7 DEF Forgotten
<1>. QED
  BY <1>5, <1>6, <1>8

LEMMA WindowCopiesPreserved ==
  ASSUME WindowCovered
  PROVE  /\ TypeInv /\ ClaimInv /\ ClaimInv' /\ RecordedInv /\ DeliveredInv /\ SerialInv
         /\ RetentionInv /\ WindowCopiesInv /\ [Next]_vars
         => WindowCopiesInv'
<1>. SUFFICES ASSUME TypeInv, ClaimInv, ClaimInv', RecordedInv, DeliveredInv, SerialInv,
                     RetentionInv, WindowCopiesInv, [Next]_vars, gone' = {}
              PROVE  WindowCopies'
  BY DEF WindowCopiesInv
<1>1. gone = {} /\ ScanOrder /\ Delivered /\ WindowCopies
  BY NumbersKept DEF RetentionInv, DeliveredInv, WindowCopiesInv
<1>2. ASSUME NEW r \in Runs, Start(r) \/ RunStep(r) \/ Kill(r)
      PROVE  WindowCopies'
  BY <1>1, <1>2, WindowCopiesAfterRunStep DEF RetentionInv, RecordedInv
<1>3. ASSUME NEW v \in Uidls, Arrive(v)
      PROVE  WindowCopies'
  <2>1. /\ v \notin InMaildrop /\ maildrop' = Append(maildrop, v)
        /\ UNCHANGED <<gmail, records, pc, batch, job, faults>>
    BY <1>3 DEF Arrive
  <2>2. /\ maildrop \in Seq(Uidls) /\ Len(maildrop) \in Nat /\ DOMAIN maildrop = 1..Len(maildrop)
        /\ Window \in Nat
    BY WindowType DEF TypeInv, StoresOK
  <2>3. /\ Len(maildrop') = Len(maildrop) + 1 /\ DOMAIN maildrop' = 1..(Len(maildrop) + 1)
        /\ \A n \in DOMAIN maildrop : maildrop'[n] = maildrop[n]
        /\ maildrop'[Len(maildrop) + 1] = v
    BY <2>1, <2>2
  <2>4. InMaildrop \subseteq InMaildrop'
    BY <2>2, <2>3 DEF InMaildrop
  <2>5. ASSUME NEW u \in Uidls, u \in InMaildrop, Forgotten(u)
        PROVE  Forgotten(u)'
    <3>. SUFFICES ASSUME NEW n \in DOMAIN maildrop', maildrop'[n] = u
                  PROVE  /\ n + Window <= Len(maildrop')
                         /\ \A r \in Runs : \A a \in Carried(r)' : a.number # n
      BY DEF Forgotten
    <3>1. n \in DOMAIN maildrop /\ maildrop[n] = u
      BY <2>1, <2>2, <2>3, <2>5
    <3>2. n + Window <= Len(maildrop) /\ \A r \in Runs : \A a \in Carried(r) : a.number # n
      BY <2>5, <3>1 DEF Forgotten
    <3>3. \A r \in Runs : Carried(r)' = Carried(r)
      BY <2>1 DEF Carried
    <3>. QED
      BY <2>2, <2>3, <3>1, <3>2, <3>3
  <2>6. \A u : Reopened(u)' <=> Reopened(u)
    BY <2>1 DEF Reopened, Current
  <2>. QED
    BY <1>1, <2>1, <2>4, <2>5, <2>6 DEF WindowCopies
<1>4. ~\E n \in DOMAIN maildrop : Remove(n)
  BY DEF Remove
<1>5. CASE Tick \/ UNCHANGED vars
  <2>1. UNCHANGED <<maildrop, gmail, records, pc, batch, job, faults>>
    BY <1>5 DEF Tick, vars, mailboxes
  <2>. QED
    BY <1>1, <2>1 DEF WindowCopies, Forgotten, InMaildrop, Carried, Reopened, Current
<1>. QED
  BY <1>2, <1>3, <1>4, <1>5 DEF Next

\* Under the conditions of the code, and as long as no message is removed from
\* the maildrop, each copy of a message in Gmail but the first took something
\* that went wrong, however many records the cleanups have forgotten: none of a
\* message that can be listed again.
THEOREM OneInstanceDuplicatesNeedFaults ==
  ASSUME WindowCovered
  PROVE  Spec => [](gone = {} => DuplicatesNeedFaults)
<1>. DEFINE Known == TypeInv /\ RecordedInv /\ DeliveredInv /\ SerialInv /\ RetentionInv /\ ClaimInv
<1>1. Init => Known /\ WindowCopiesInv
  <2>1. Init => SerialInv
    BY DEF Init, SerialInv, Live
  <2>2. Init => WindowCopiesInv
    BY DEF Init, WindowCopiesInv, WindowCopies
  <2>. QED
    BY <2>1, <2>2, InitTypes, InitRecorded, InitDelivered, InitRetention, InitClaims
<1>2. Known /\ WindowCopiesInv /\ [Next]_vars => (Known /\ WindowCopiesInv)'
  <2>1. MaxLive = 1
    BY DEF WindowCovered
  <2>2. TypeInv /\ SerialInv /\ [Next]_vars => SerialInv'
    BY <2>1, SerialPreserved
  <2>3. SerialInv => ForgetsNoClaim
    BY DEF SerialInv, ForgetsNoClaim, Live, Ended, Holding
  <2>4. Known /\ [Next]_vars => Known'
    BY <2>2, <2>3, TypePreserved, RecordedPreserved, DeliveredPreserved, RetentionPreserved,
       ClaimsPreserved
  <2>. QED
    BY <2>4, WindowCopiesPreserved
<1>3. TypeInv /\ WindowCopiesInv => (gone = {} => DuplicatesNeedFaults)
  <2>. SUFFICES ASSUME TypeInv, WindowCopies, NEW u \in Uidls, gmail[u] > 0
                PROVE  gmail[u] - 1 <= faults
    BY DEF WindowCopiesInv, DuplicatesNeedFaults
  <2>1. gmail[u] \in Nat /\ faults \in Nat
    BY DEF TypeInv, StoresOK
  <2>2. gmail[u] - 1 + (IF Reopened(u) THEN 1 ELSE 0) <= faults
    BY DEF WindowCopies
  <2>. QED
    BY <2>1, <2>2
<1>. QED
  BY <1>1, <1>2, <1>3, PTL DEF Spec
-----------------------------------------------------------------------------
(***************************************************************************)
(* The copies, whoever removes messages.                                   *)
(***************************************************************************)
\* The retention floor is above the number of messages the account has seen.
AllRetained == Cardinality(Uidls) <= MinimumRetainedCount

NothingForgotten == \A r \in Runs : pc[r] = "delete" => job[r].candidates = {}

LEMMA NothingToForget ==
  ASSUME AllRetained
  PROVE  TypeInv /\ NothingForgotten /\ [Next]_vars => NothingForgotten'
<1>. SUFFICES ASSUME TypeInv, NothingForgotten, [Next]_vars PROVE NothingForgotten'
  OBVIOUS
<1>1. ImportedUidls \ Newest(ImportedUidls, MinimumRetainedCount) = {}
  <2>. SUFFICES ASSUME NEW u \in ImportedUidls
                PROVE  u \in Newest(ImportedUidls, MinimumRetainedCount)
    OBVIOUS
  <2>. DEFINE N == {v \in ImportedUidls : Newer(v, u)}
  <2>1. u \in Uidls /\ N \in SUBSET Uidls
    BY DEF ImportedUidls
  <2>2. u \notin N
    <3>1. records[u].importedAt.hour \in Nat /\ records[u].importedAt.order \in Nat
      BY <2>1 DEF TypeInv, StoresOK, Records, Dates, Ticks
    <3>2. ~Newer(u, u)
      BY <3>1 DEF Newer
    <3>. QED
      BY <3>2
  <2>. HIDE DEF N
  <2>3. Cardinality(N) <= Cardinality(Uidls) /\ Cardinality(N) # Cardinality(Uidls)
        /\ IsFiniteSet(N)
    BY <2>1, <2>2, MailAssumption, FS_Subset
  <2>4. Cardinality(N) \in Nat /\ Cardinality(Uidls) \in Nat /\ MinimumRetainedCount \in Nat
    BY <2>3, MailAssumption, LimitsAssumption, FS_CardinalityType
  <2>5. Cardinality(N) < MinimumRetainedCount
    BY <2>3, <2>4 DEF AllRetained
  <2>. QED
    BY <2>5 DEF Newest, N
<1>2. ASSUME NEW r \in Runs, Start(r) \/ RunStep(r) \/ Kill(r)
      PROVE  NothingForgotten'
  <2>1. pc'[r] = "delete" => job'[r].candidates = {}
    BY <1>1, <1>2, CandidatesChosen
  <2>2. OnlyRun(r)
    BY <1>2, StepKeepsRuns
  <2>. QED
    BY <2>1, <2>2 DEF NothingForgotten, OnlyRun
<1>3. CASE Tick \/ (\E u \in Uidls : Arrive(u)) \/ (\E n \in DOMAIN maildrop : Remove(n))
           \/ UNCHANGED vars
  BY <1>3 DEF Tick, Arrive, Remove, vars, NothingForgotten
<1>. QED
  BY <1>2, <1>3 DEF Next

LEMMA NothingForgottenAlways ==
  ASSUME AllRetained
  PROVE  Spec => []NothingForgotten
<1>1. Init => TypeInv /\ NothingForgotten
  <2>1. Init => NothingForgotten
    BY DEF Init, NothingForgotten
  <2>. QED
    BY <2>1, InitTypes
<1>. QED
  BY <1>1, TypePreserved, NothingToForget, PTL DEF Spec

\* However runs overlap, no two of them work on one UIDL and the records are the
\* claims of UidlClaims, whatever fails, is killed or is removed from the
\* maildrop, until the account has seen more messages than the floor retains.
THEOREM RetainingAllKeepsClaims ==
  ASSUME AllRetained
  PROVE  Spec => []ClaimHeld /\ ClaimsKept
<1>1. NothingForgotten => ForgetsNoClaim /\ ForgetsOnlyImported
  BY DEF NothingForgotten, ForgetsNoClaim, ForgetsOnlyImported
<1>. QED
  BY <1>1, NothingForgottenAlways, ClaimsExclude, ClaimsImplemented, PTL
     DEF CleanupsKeepClaims, CleanupsForgetNoClaim

Arrived == InMaildrop \cup gone

\* rank is the order in which the messages arrived: a message has the number of
\* its rank less at most what was removed, and no message from the number of a
\* reference on arrived before the message it was listed for.
Arrivals(rank) ==
  /\ rank \in [Uidls -> Nat]
  /\ \A m, n \in DOMAIN maildrop : m < n => rank[maildrop[m]] < rank[maildrop[n]]
  /\ \A n \in DOMAIN maildrop :
       n <= rank[maildrop[n]] /\ rank[maildrop[n]] <= n + Cardinality(gone)
  /\ \A u \in gone : rank[u] <= Len(maildrop) + Cardinality(gone)
  /\ \A u, v \in Arrived : rank[u] = rank[v] => u = v
  /\ InMaildrop \cap gone = {}
  /\ \A r \in Runs : \A a \in Carried(r) :
       /\ a.uidl \in Arrived
       /\ a.number <= rank[a.uidl]
       /\ \A n \in DOMAIN maildrop : n >= a.number => rank[maildrop[n]] >= rank[a.uidl]

\* The UIDLs message c may be retrieved for: those of the messages right before
\* it, one for each removed, and its own.
Near(rank, c) ==
  {v \in Arrived : c \in Arrived /\ rank[v] <= rank[c] /\ rank[c] <= rank[v] + Cardinality(gone)}

\* S[c] are the UIDLs message c was imported for.  Each copy more than they are
\* took a fault that removed nothing, and so will one for those that may have
\* theirs imported again.
Copies(S, rank) ==
  /\ S \in [Uidls -> SUBSET Uidls]
  /\ \A c \in Uidls : S[c] \subseteq Near(rank, c)
  /\ \A c \in Uidls : \A v \in S[c] : records[v].status # "absent"
  /\ \A r \in Runs : pc[r] = "import" =>
       \A c \in job[r].rawMessage : Current(r).uidl \in Near(rank, c)
  /\ \A c \in Uidls :
       gmail[c] + Cardinality({v \in S[c] : Reopened(v)})
         <= Cardinality(S[c]) + faults - Cardinality(gone)

CopiesInv == \E S, rank : Arrivals(rank) /\ Copies(S, rank)

LEMMA GoneFinite == TypeInv => IsFiniteSet(gone) /\ Cardinality(gone) \in Nat
BY MailAssumption, FS_Subset, FS_CardinalityType DEF TypeInv, StoresOK

LEMMA ArrivalsAfterRunStep ==
  ASSUME TypeInv, NEW rank, Arrivals(rank), NEW r \in Runs, Start(r) \/ RunStep(r) \/ Kill(r)
  PROVE  Arrivals(rank)' /\ Arrived' = Arrived
<1>1. /\ maildrop' = maildrop /\ gone' = gone /\ InMaildrop' = InMaildrop /\ Arrived' = Arrived
  BY MaildropKept DEF InMaildrop, Arrived
<1>2. DOMAIN maildrop = 1..Len(maildrop) /\ \A n \in DOMAIN maildrop : maildrop[n] \in Uidls
  BY DEF TypeInv, StoresOK
<1>3. ASSUME NEW q \in Runs, NEW a \in Carried(q)'
      PROVE  /\ a.uidl \in Arrived
             /\ a.number <= rank[a.uidl]
             /\ \A n \in DOMAIN maildrop : n >= a.number => rank[maildrop[n]] >= rank[a.uidl]
  <2>1. CASE a \in Carried(q)
    BY <2>1 DEF Arrivals
  <2>2. CASE a \notin Carried(q)
    <3>1. q = r
      BY <2>2, StepKeepsRuns DEF OnlyRun, Carried
    <3>2. a.number \in DOMAIN maildrop /\ maildrop[a.number] = a.uidl
      BY <2>2, <3>1, CarriedChange
    <3>3. a.uidl \in Arrived
      BY <3>2 DEF Arrived, InMaildrop
    <3>4. a.number <= rank[a.uidl]
      BY <3>2 DEF Arrivals
    <3>5. ASSUME NEW n \in DOMAIN maildrop, n >= a.number
          PROVE  rank[maildrop[n]] >= rank[a.uidl]
      <4>1. rank[maildrop[n]] \in Nat /\ n \in Nat /\ a.number \in Nat
        BY <1>2, <3>2 DEF Arrivals
      <4>2. CASE n = a.number
        BY <3>2, <4>1, <4>2
      <4>3. CASE n > a.number
        <5>1. rank[maildrop[a.number]] < rank[maildrop[n]]
          BY <3>2, <4>1, <4>3 DEF Arrivals
        <5>2. rank[maildrop[a.number]] \in Nat
          BY <1>2, <3>2 DEF Arrivals
        <5>. QED
          BY <3>2, <4>1, <5>1, <5>2
      <4>. QED
        BY <3>5, <4>1, <4>2, <4>3
    <3>. QED
      BY <3>3, <3>4, <3>5
  <2>. QED
    BY <2>1, <2>2
<1>. QED
  BY <1>1, <1>3 DEF Arrivals

LEMMA ArrivalsAfterArrival ==
  ASSUME TypeInv, NEW rank, Arrivals(rank), NEW u \in Uidls, Arrive(u)
  PROVE  /\ u \notin Arrived /\ Arrived' = Arrived \cup {u}
         /\ \E later : Arrivals(later)' /\ \A v \in Arrived : later[v] = rank[v]
<1>. DEFINE last == Len(maildrop) + Cardinality(gone) + 1
<1>. PICK later : later = [rank EXCEPT ![u] = last]
  OBVIOUS
<1>1. /\ u \notin Arrived /\ maildrop' = Append(maildrop, u)
      /\ UNCHANGED <<gone, pc, batch, job>>
  BY DEF Arrive, Arrived
<1>2. /\ maildrop \in Seq(Uidls) /\ Len(maildrop) \in Nat /\ DOMAIN maildrop = 1..Len(maildrop)
      /\ Cardinality(gone) \in Nat /\ \A n \in DOMAIN maildrop : maildrop[n] \in Uidls
      /\ last \in Nat
  BY GoneFinite DEF TypeInv, StoresOK
<1>3. /\ Len(maildrop') = Len(maildrop) + 1 /\ DOMAIN maildrop' = 1..(Len(maildrop) + 1)
      /\ \A n \in DOMAIN maildrop : maildrop'[n] = maildrop[n] /\ maildrop[n] # u
      /\ maildrop'[Len(maildrop) + 1] = u
  BY <1>1, <1>2 DEF Arrived, InMaildrop
<1>4. /\ InMaildrop' = InMaildrop \cup {u} /\ Arrived' = Arrived \cup {u}
  <2>1. InMaildrop' = InMaildrop \cup {u}
    BY <1>2, <1>3 DEF InMaildrop
  <2>. QED
    BY <1>1, <2>1 DEF Arrived
<1>5. later \in [Uidls -> Nat] /\ later[u] = last /\ \A v \in Uidls \ {u} : later[v] = rank[v]
  BY <1>2 DEF Arrivals
<1>6. Arrived \subseteq Uidls
  BY <1>2 DEF Arrived, InMaildrop, TypeInv, StoresOK
<1>. HIDE DEF last
<1>7. \A v \in Arrived : later[v] = rank[v] /\ rank[v] \in Nat /\ rank[v] < last
  <2>1. ASSUME NEW v \in Arrived
        PROVE  rank[v] < last
    <3>1. CASE v \in gone
      BY <1>2, <1>6, <3>1 DEF Arrivals, last
    <3>2. CASE v \in InMaildrop
      <4>1. PICK n \in DOMAIN maildrop : v = maildrop[n]
        BY <3>2 DEF InMaildrop
      <4>2. rank[v] <= n + Cardinality(gone) /\ rank[v] \in Nat /\ n \in Nat /\ n <= Len(maildrop)
        BY <1>2, <1>6, <4>1 DEF Arrivals
      <4>. QED
        BY <1>2, <4>2 DEF last
    <3>. QED
      BY <3>1, <3>2 DEF Arrived
  <2>. QED
    BY <1>1, <1>5, <1>6, <2>1 DEF Arrivals
<1>8. \A n \in DOMAIN maildrop : maildrop[n] \in Arrived
  BY DEF Arrived, InMaildrop
<1>9. \A n \in DOMAIN maildrop' : n \in DOMAIN maildrop \/ n = Len(maildrop) + 1
  BY <1>2, <1>3
<1>10. \A m, n \in DOMAIN maildrop' : m < n => later[maildrop'[m]] < later[maildrop'[n]]
  <2>. SUFFICES ASSUME NEW m \in DOMAIN maildrop', NEW n \in DOMAIN maildrop', m < n
                PROVE  later[maildrop'[m]] < later[maildrop'[n]]
    OBVIOUS
  <2>1. m \in DOMAIN maildrop
    BY <1>2, <1>3
  <2>2. CASE n \in DOMAIN maildrop
    BY <1>3, <1>7, <1>8, <2>1, <2>2 DEF Arrivals
  <2>3. CASE n = Len(maildrop) + 1
    BY <1>3, <1>5, <1>7, <1>8, <2>1, <2>3
  <2>. QED
    BY <1>9, <2>2, <2>3
<1>11. \A n \in DOMAIN maildrop' :
         n <= later[maildrop'[n]] /\ later[maildrop'[n]] <= n + Cardinality(gone')
  <2>. SUFFICES ASSUME NEW n \in DOMAIN maildrop'
                PROVE  n <= later[maildrop'[n]] /\ later[maildrop'[n]] <= n + Cardinality(gone)
    BY <1>1
  <2>1. CASE n \in DOMAIN maildrop
    BY <1>3, <1>7, <1>8, <2>1 DEF Arrivals
  <2>2. CASE n = Len(maildrop) + 1
    BY <1>2, <1>3, <1>5, <2>2 DEF last
  <2>. QED
    BY <1>9, <2>1, <2>2
<1>12. \A v \in gone' : later[v] <= Len(maildrop') + Cardinality(gone')
  <2>. SUFFICES ASSUME NEW v \in gone
                PROVE  later[v] <= Len(maildrop) + 1 + Cardinality(gone)
    BY <1>1, <1>3
  <2>1. later[v] = rank[v] /\ rank[v] \in Nat
    BY <1>7 DEF Arrived
  <2>. QED
    BY <1>2, <2>1 DEF Arrivals
<1>13. \A v, w \in Arrived' : later[v] = later[w] => v = w
  <2>1. \A v, w \in Arrived : later[v] = later[w] => v = w
    BY <1>7 DEF Arrivals
  <2>2. \A v \in Arrived : later[v] # later[u]
    BY <1>2, <1>5, <1>7
  <2>. QED
    BY <1>4, <2>1, <2>2
<1>14. InMaildrop' \cap gone' = {}
  BY <1>1, <1>4 DEF Arrivals, Arrived
<1>15. ASSUME NEW q \in Runs, NEW a \in Carried(q)'
       PROVE  /\ a.uidl \in Arrived'
              /\ a.number <= later[a.uidl]
              /\ \A n \in DOMAIN maildrop' : n >= a.number => later[maildrop'[n]] >= later[a.uidl]
  <2>1. a \in Carried(q)
    BY <1>1, <1>15 DEF Carried
  <2>2. /\ a.uidl \in Arrived /\ later[a.uidl] = rank[a.uidl] /\ rank[a.uidl] \in Nat
        /\ rank[a.uidl] < last /\ a.number <= rank[a.uidl]
    BY <1>7, <2>1 DEF Arrivals
  <2>3. ASSUME NEW n \in DOMAIN maildrop', n >= a.number
        PROVE  later[maildrop'[n]] >= later[a.uidl]
    <3>1. CASE n \in DOMAIN maildrop
      <4>1. later[maildrop'[n]] = rank[maildrop[n]]
        BY <1>3, <1>7, <1>8, <3>1
      <4>. QED
        BY <2>1, <2>2, <2>3, <3>1, <4>1 DEF Arrivals
    <3>2. CASE n = Len(maildrop) + 1
      BY <1>2, <1>3, <1>5, <2>2, <3>2
    <3>. QED
      BY <1>9, <3>1, <3>2
  <2>. QED
    BY <1>4, <2>2, <2>3
<1>16. Arrivals(later)'
  BY <1>5, <1>10, <1>11, <1>12, <1>13, <1>14, <1>15 DEF Arrivals
<1>. QED
  BY <1>1, <1>4, <1>7, <1>16

\* w is what is left of a sequence without its element k.
LeftWithout(w, m, k) ==
  /\ Len(w) = Len(m) - 1 /\ DOMAIN w = 1..(Len(m) - 1)
  /\ \A n \in DOMAIN w :
       LET old == IF n < k THEN n ELSE n + 1 IN old \in DOMAIN m /\ w[n] = m[old]

LEMMA WithoutOne ==
  ASSUME NEW S, NEW m \in Seq(S), NEW k \in 1..Len(m), NEW w,
         w = SubSeq(m, 1, k - 1) \o SubSeq(m, k + 1, Len(m))
  PROVE  LeftWithout(w, m, k)
<1>. DEFINE s == SubSeq(m, 1, k - 1)
            t == SubSeq(m, k + 1, Len(m))
<1>1. s \in Seq(S) /\ Len(s) = k - 1 /\ \A n \in 1..(k - 1) : s[n] = m[n]
  OBVIOUS
<1>2. /\ t \in Seq(S) /\ Len(t) = Len(m) - k
      /\ \A n \in 1..(Len(m) - k) : t[n] = m[k + n]
  OBVIOUS
<1>. HIDE DEF s, t
<1>3. /\ s \o t \in Seq(S) /\ Len(s \o t) = Len(s) + Len(t)
      /\ \A n \in 1..(Len(s) + Len(t)) :
           (s \o t)[n] = IF n <= Len(s) THEN s[n] ELSE t[n - Len(s)]
  BY <1>1, <1>2, ConcatProperties
<1>4. w = s \o t
  BY DEF s, t
<1>5. Len(s) + Len(t) = Len(m) - 1 /\ Len(m) \in Nat /\ DOMAIN m = 1..Len(m)
  BY <1>1, <1>2
<1>6. w \in Seq(S) /\ Len(w) = Len(m) - 1 /\ DOMAIN w = 1..(Len(m) - 1)
  <2>1. w \in Seq(S) /\ Len(w) = Len(s) + Len(t)
    BY <1>3, <1>4, Zenon
  <2>2. DOMAIN w = 1..Len(w)
    BY <2>1
  <2>. QED
    BY <1>5, <2>1, <2>2
<1>7. ASSUME NEW n \in 1..(Len(m) - 1)
      PROVE  LET old == IF n < k THEN n ELSE n + 1 IN old \in DOMAIN m /\ w[n] = m[old]
  <2>1. w[n] = IF n <= k - 1 THEN s[n] ELSE t[n - (k - 1)]
    BY <1>1, <1>3, <1>4, <1>5
  <2>2. CASE n < k
    <3>1. n \in 1..(k - 1) /\ n \in DOMAIN m
      BY <1>5, <2>2
    <3>2. n <= k - 1
      BY <1>5, <2>2
    <3>3. w[n] = s[n] /\ s[n] = m[n]
      BY <1>1, <2>1, <3>1, <3>2, Zenon
    <3>. QED
      BY <2>2, <3>1, <3>3, Zenon
  <2>3. CASE ~(n < k)
    <3>1. n - (k - 1) \in 1..(Len(m) - k) /\ k + (n - (k - 1)) = n + 1 /\ n + 1 \in DOMAIN m
      BY <1>5, <2>3
    <3>2. t[n - (k - 1)] = m[k + (n - (k - 1))]
      BY <1>2, <3>1, Zenon
    <3>3. ~(n <= k - 1)
      BY <1>5, <2>3
    <3>4. w[n] = t[n - (k - 1)]
      BY <2>1, <3>3, Zenon
    <3>. QED
      BY <2>3, <3>1, <3>2, <3>4, Zenon
  <2>. QED
    BY <2>2, <2>3
<1>. QED
  BY <1>6, <1>7 DEF LeftWithout

LEMMA ArrivalsAfterRemoval ==
  ASSUME TypeInv, NEW rank, Arrivals(rank), NEW k \in DOMAIN maildrop, Remove(k)
  PROVE  /\ Arrivals(rank)' /\ Arrived' = Arrived
         /\ Cardinality(gone') = Cardinality(gone) + 1
<1>. DEFINE x == maildrop[k]
            Old(n) == IF n < k THEN n ELSE n + 1
<1>1. /\ maildrop' = SubSeq(maildrop, 1, k - 1) \o SubSeq(maildrop, k + 1, Len(maildrop))
      /\ gone' = gone \cup {x} /\ UNCHANGED <<pc, batch, job>>
  BY DEF Remove
<1>2. /\ maildrop \in Seq(Uidls) /\ Len(maildrop) \in Nat /\ DOMAIN maildrop = 1..Len(maildrop)
      /\ k \in Nat /\ 1 <= k /\ k <= Len(maildrop)
      /\ IsFiniteSet(gone) /\ Cardinality(gone) \in Nat
      /\ \A n \in DOMAIN maildrop : maildrop[n] \in Uidls /\ rank[maildrop[n]] \in Nat
  BY GoneFinite DEF TypeInv, StoresOK, Arrivals
<1>3. /\ Len(maildrop') = Len(maildrop) - 1 /\ DOMAIN maildrop' = 1..(Len(maildrop) - 1)
      /\ \A n \in DOMAIN maildrop' : Old(n) \in DOMAIN maildrop /\ maildrop'[n] = maildrop[Old(n)]
  <2>1. maildrop \in Seq(Uidls) /\ k \in 1..Len(maildrop)
    BY <1>2
  <2>2. LeftWithout(maildrop', maildrop, k)
    BY <1>1, <2>1, WithoutOne
  <2>. QED
    BY <2>2 DEF LeftWithout
<1>4. x \in InMaildrop /\ x \notin gone
  BY DEF InMaildrop, Arrivals
<1>5. Cardinality(gone') = Cardinality(gone) + 1
  BY <1>1, <1>2, <1>4, FS_AddElement
<1>6. \A n \in DOMAIN maildrop : n # k => \E m \in DOMAIN maildrop' : Old(m) = n
  <2>. SUFFICES ASSUME NEW n \in DOMAIN maildrop, n # k
                PROVE  \E m \in DOMAIN maildrop' : Old(m) = n
    OBVIOUS
  <2>1. CASE n < k
    BY <1>2, <1>3, <2>1
  <2>2. CASE n > k
    <3>1. n - 1 \in DOMAIN maildrop' /\ Old(n - 1) = n
      BY <1>2, <1>3, <2>2
    <3>. QED
      BY <3>1
  <2>. QED
    BY <1>2, <2>1, <2>2
<1>7. Arrived' = Arrived /\ InMaildrop' \subseteq InMaildrop
  <2>1. InMaildrop' \subseteq InMaildrop
    BY <1>3 DEF InMaildrop
  <2>2. \A v \in InMaildrop : v = x \/ v \in InMaildrop'
    BY <1>3, <1>6 DEF InMaildrop
  <2>. QED
    BY <1>1, <1>4, <2>1, <2>2 DEF Arrived
<1>8. x \notin InMaildrop'
  <2>1. \A n \in DOMAIN maildrop' : Old(n) # k
    BY <1>2, <1>3
  <2>2. \A n \in DOMAIN maildrop : maildrop[n] = x => n = k
    <3>. SUFFICES ASSUME NEW n \in DOMAIN maildrop, maildrop[n] = x, n # k PROVE FALSE
      OBVIOUS
    <3>1. n < k \/ k < n
      BY <1>2
    <3>2. rank[x] < rank[x]
      BY <3>1 DEF Arrivals
    <3>. QED
      BY <1>2, <3>2
  <2>. QED
    BY <1>3, <2>1, <2>2 DEF InMaildrop
<1>9. InMaildrop' \cap gone' = {}
  BY <1>1, <1>7, <1>8 DEF Arrivals
<1>10. \A m, n \in DOMAIN maildrop' : m < n => Old(m) < Old(n)
  BY <1>2, <1>3
<1>11. \A n \in DOMAIN maildrop' : n <= Old(n) /\ Old(n) <= n + 1 /\ n \in Nat /\ Old(n) \in Nat
  BY <1>2, <1>3
<1>. HIDE DEF Old, x
<1>12. \A m, n \in DOMAIN maildrop' : m < n => rank[maildrop'[m]] < rank[maildrop'[n]]
  BY <1>3, <1>10 DEF Arrivals
<1>13. \A n \in DOMAIN maildrop' :
         n <= rank[maildrop'[n]] /\ rank[maildrop'[n]] <= n + Cardinality(gone')
  <2>. SUFFICES ASSUME NEW n \in DOMAIN maildrop'
                PROVE  /\ n <= rank[maildrop[Old(n)]]
                       /\ rank[maildrop[Old(n)]] <= n + Cardinality(gone) + 1
    BY <1>2, <1>3, <1>5, <1>11
  <2>1. /\ Old(n) \in DOMAIN maildrop /\ Old(n) <= rank[maildrop[Old(n)]]
        /\ rank[maildrop[Old(n)]] <= Old(n) + Cardinality(gone)
        /\ rank[maildrop[Old(n)]] \in Nat
    BY <1>2, <1>3 DEF Arrivals
  <2>. QED
    BY <1>2, <1>11, <2>1
<1>14. \A v \in gone' : rank[v] <= Len(maildrop') + Cardinality(gone')
  <2>1. \A v \in gone : rank[v] <= Len(maildrop) + Cardinality(gone)
    BY DEF Arrivals
  <2>2. rank[x] <= k + Cardinality(gone) /\ rank[x] \in Nat
    BY <1>2 DEF Arrivals, x
  <2>3. rank[x] <= Len(maildrop) + Cardinality(gone)
    BY <1>2, <2>2
  <2>4. Len(maildrop') + Cardinality(gone') = Len(maildrop) + Cardinality(gone)
    BY <1>2, <1>3, <1>5
  <2>. QED
    BY <1>1, <2>1, <2>3, <2>4
<1>15. ASSUME NEW q \in Runs, NEW a \in Carried(q)'
       PROVE  /\ a.uidl \in Arrived'
              /\ a.number <= rank[a.uidl]
              /\ \A n \in DOMAIN maildrop' : n >= a.number => rank[maildrop'[n]] >= rank[a.uidl]
  <2>1. a \in Carried(q)
    BY <1>1, <1>15 DEF Carried
  <2>2. a.number \in Nat
    <3>1. batch[q] \in Seq(References) /\ job[q].toRead \in Seq(References)
      BY DEF TypeInv, RunsOK, Job
    <3>2. Carried(q) \subseteq References
      BY <3>1 DEF Carried, Range
    <3>. QED
      BY <2>1, <3>2 DEF References
  <2>3. ASSUME NEW n \in DOMAIN maildrop', n >= a.number
        PROVE  rank[maildrop'[n]] >= rank[a.uidl]
    <3>1. Old(n) \in DOMAIN maildrop /\ Old(n) >= a.number /\ maildrop'[n] = maildrop[Old(n)]
      BY <1>3, <1>11, <2>2, <2>3
    <3>. QED
      BY <2>1, <3>1 DEF Arrivals
  <2>. QED
    BY <1>7, <2>1, <2>3 DEF Arrivals
<1>16. Arrivals(rank)'
  BY <1>7, <1>9, <1>12, <1>13, <1>14, <1>15 DEF Arrivals
<1>. QED
  BY <1>5, <1>7, <1>16

\* At most one element, x, came to a part of a finite set.
LEMMA OneMore ==
  ASSUME NEW T, IsFiniteSet(T), NEW A \in SUBSET T, NEW B \in SUBSET T, NEW x,
         B \ {x} \subseteq A \ {x}
  PROVE  /\ Cardinality(A) \in Nat /\ Cardinality(B) \in Nat
         /\ Cardinality(B) <= Cardinality(A) + 1
         /\ x \notin B \/ x \in A => Cardinality(B) <= Cardinality(A)
         /\ x \in A /\ x \notin B => Cardinality(B) + 1 <= Cardinality(A)
<1>1. IsFiniteSet(A) /\ IsFiniteSet(B) /\ IsFiniteSet(A \ {x}) /\ IsFiniteSet(B \ {x})
  BY FS_Subset
<1>2. /\ Cardinality(A) \in Nat /\ Cardinality(B) \in Nat
      /\ Cardinality(A \ {x}) \in Nat /\ Cardinality(B \ {x}) \in Nat
  BY <1>1, FS_CardinalityType
<1>3. Cardinality(B \ {x}) <= Cardinality(A \ {x})
  BY <1>1, FS_Subset
<1>4. \A C \in {A, B} : Cardinality(C \ {x}) = IF x \in C THEN Cardinality(C) - 1 ELSE Cardinality(C)
  BY <1>1, FS_RemoveElement
<1>. QED
  BY <1>2, <1>3, <1>4

\* The ranks near the one of c are |gone| + 1.
LEMMA FewAreNear ==
  ASSUME TypeInv, NEW rank, Arrivals(rank), NEW c \in Uidls
  PROVE  /\ IsFiniteSet(Near(rank, c))
         /\ Cardinality(Near(rank, c)) \in Nat
         /\ Cardinality(Near(rank, c)) <= Cardinality(gone) + 1
<1>. DEFINE g    == Cardinality(gone)
            near == Near(rank, c)
            Away == [v \in near |-> rank[c] - rank[v]]
<1>1. /\ g \in Nat /\ rank \in [Uidls -> Nat] /\ near \subseteq Uidls
      /\ \A u, v \in near : rank[u] = rank[v] => u = v
      /\ \A v \in near : rank[v] <= rank[c] /\ rank[c] <= rank[v] + g
  <2>1. Arrived \subseteq Uidls
    BY DEF Arrived, InMaildrop, TypeInv, StoresOK
  <2>. QED
    BY <2>1, GoneFinite DEF Arrivals, Near
<1>2. IsFiniteSet(near) /\ Cardinality(near) \in Nat
  BY <1>1, MailAssumption, FS_Subset, FS_CardinalityType
<1>. HIDE DEF near, g
<1>3. Away \in [near -> 0..g]
  <2>1. ASSUME NEW v \in near
        PROVE  rank[c] - rank[v] \in 0..g
    BY <1>1
  <2>. QED
    BY <2>1
<1>4. Away \in Injection(near, 0..g)
  <2>1. \A u, v \in near : Away[u] = Away[v] => u = v
    BY <1>1
  <2>. HIDE DEF Away
  <2>. QED
    BY <1>3, <2>1 DEF Injection, IsInjective
<1>5. IsFiniteSet(0..g) /\ Cardinality(0..g) = g + 1
  BY <1>1, FS_Interval
<1>6. Cardinality(near) <= Cardinality(0..g)
  BY <1>2, <1>4, <1>5, FS_Injection
<1>. QED
  BY <1>2, <1>5, <1>6 DEF near, g

\* A step of the maildrop that leaves near what was.
LEMMA CopiesKept ==
  ASSUME UNCHANGED <<gmail, records, pc, batch, job>>, NEW S, NEW rank, NEW later, Copies(S, rank),
         \A c \in Uidls : Near(rank, c) \subseteq Near(later, c)',
         faults' - Cardinality(gone') = faults - Cardinality(gone), Arrived \subseteq Uidls,
         faults \in Int, faults' \in Int, Cardinality(gone) \in Int, Cardinality(gone') \in Int,
         \A c \in Uidls : Cardinality(S[c]) \in Int
  PROVE  Copies(S, later)'
<1>1. \A u : Reopened(u)' <=> Reopened(u)
  BY DEF Reopened, Current
<1>2. \A r \in Runs : pc'[r] = "import" =>
        \A c \in job'[r].rawMessage : Current(r)'.uidl \in Near(later, c)'
  <2>1. \A r \in Runs : pc[r] = "import" =>
          \A c \in job[r].rawMessage : Current(r).uidl \in Near(rank, c) /\ c \in Arrived
    BY DEF Copies, Near
  <2>2. ASSUME NEW c, c \in Arrived
        PROVE  c \in Uidls
    BY <2>2
  <2>. QED
    BY <2>1, <2>2 DEF Current
<1>3. \A c \in Uidls : \A v \in S[c] : records'[v].status # "absent"
  BY DEF Copies
<1>4. S \in [Uidls -> SUBSET Uidls] /\ \A c \in Uidls : S[c] \subseteq Near(later, c)'
  BY DEF Copies
<1>5. ASSUME NEW c \in Uidls
      PROVE  gmail'[c] + Cardinality({v \in S[c] : Reopened(v)'})
               <= Cardinality(S[c]) + faults' - Cardinality(gone')
  <2>1. {v \in S[c] : Reopened(v)'} = {v \in S[c] : Reopened(v)}
    BY <1>1
  <2>2. Cardinality(S[c]) + faults' - Cardinality(gone') = Cardinality(S[c]) + faults - Cardinality(gone)
    OBVIOUS
  <2>3. gmail'[c] + Cardinality({v \in S[c] : Reopened(v)})
          <= Cardinality(S[c]) + faults - Cardinality(gone)
    BY DEF Copies
  <2>. QED
    BY <2>1, <2>2, <2>3
<1>. QED
  BY <1>2, <1>3, <1>4, <1>5 DEF Copies

LEMMA CopiesAfterRunStep ==
  ASSUME TypeInv, ClaimInv, ClaimInv', NothingForgotten, NEW S, NEW rank,
         Arrivals(rank), Copies(S, rank), NEW r \in Runs, Start(r) \/ RunStep(r) \/ Kill(r)
  PROVE  \E later : Copies(later, rank)'
<1>1. PICK v : v = Current(r).uidl
  OBVIOUS
<1>2. PICK later : later = [c \in Uidls |-> IF gmail'[c] # gmail[c] THEN S[c] \cup {v} ELSE S[c]]
  OBVIOUS
<1>3. /\ gmail \in [Uidls -> Nat] /\ faults \in Nat /\ faults' \in {faults, faults + 1}
      /\ records \in [Uidls -> Records] /\ S \in [Uidls -> SUBSET Uidls]
      /\ IsFiniteSet(gone) /\ Cardinality(gone) \in Nat
  BY FaultsChange, GoneFinite DEF TypeInv, StoresOK, Copies
<1>4. gone' = gone /\ maildrop' = maildrop /\ \A c : Near(rank, c)' = Near(rank, c)
  BY MaildropKept, ArrivalsAfterRunStep DEF Near
<1>5. ASSUME NEW c \in Uidls, gmail'[c] # gmail[c]
      PROVE  /\ v \in Uidls /\ v \in Near(rank, c) /\ records[v].status # "absent" /\ Reopened(v)
             /\ gmail'[c] = gmail[c] + 1
             /\ ~Reopened(v)' \/ faults' = faults + 1
  <2>1. /\ pc[r] = "import" /\ c \in job[r].rawMessage /\ gmail'[c] = gmail[c] + 1
        /\ batch' = batch
        /\ ~Reopened(Current(r).uidl)' \/ faults' = faults + 1
    BY <1>5, CopiesChange
  <2>2. v \in Uidls
    BY <1>1, <2>1, CurrentCarried DEF Working, Holding
  <2>3. v \in Near(rank, c)
    BY <1>1, <1>5, <2>1 DEF Copies
  <2>4. records[v].status # "absent"
    BY <1>1, <2>1 DEF ClaimInv, HoldsClaim, Holding
  <2>5. Reopened(v)
    BY <1>1, <2>1 DEF Reopened, Retrying
  <2>6. v = Current(r)'.uidl
    BY <1>1, <2>1 DEF Current
  <2>7. Reopened(v)' => Reopened(Current(r).uidl)'
    BY <2>6
  <2>. QED
    BY <2>1, <2>2, <2>3, <2>4, <2>5, <2>7
<1>6. later \in [Uidls -> SUBSET Uidls] /\ \A c \in Uidls : later[c] \subseteq Near(rank, c)
  BY <1>2, <1>3, <1>5 DEF Copies
<1>7. \A w \in Uidls : records[w].status # "absent" => records'[w].status # "absent"
  <2>1. ASSUME NEW w \in Uidls
        PROVE  records'[w] = records[w] \/ records'[w].status # "absent"
    BY RecordAfter DEF NothingForgotten
  <2>. QED
    BY <2>1
<1>8. \A c \in Uidls : \A w \in later[c] : records'[w].status # "absent"
  BY <1>2, <1>3, <1>5, <1>7 DEF Copies
<1>9. ASSUME NEW q \in Runs, pc'[q] = "import", NEW c \in job'[q].rawMessage
      PROVE  Current(q)'.uidl \in Near(rank, c)
  <2>1. CASE q # r
    BY <1>9, <2>1, StepKeepsRuns DEF OnlyRun, Copies, Current
  <2>2. CASE q = r /\ pc[r] = "import" /\ job'[r].rawMessage = job[r].rawMessage
                   /\ batch'[r] = batch[r]
    BY <1>9, <2>2 DEF Copies, Current
  <2>3. CASE q = r /\ pc[r] = "fetch" /\ Current(r).number \in DOMAIN maildrop
                   /\ job'[r].rawMessage = {maildrop[Current(r).number]} /\ batch'[r] = batch[r]
    <3>1. PICK n : n = Current(r).number
      OBVIOUS
    <3>2. c = maildrop[n] /\ Current(q)'.uidl = v /\ n \in DOMAIN maildrop /\ n \in Nat /\ c \in Arrived
      BY <1>1, <1>9, <2>3, <3>1 DEF TypeInv, StoresOK, Current, Arrived, InMaildrop
    <3>3. /\ Current(r) \in Carried(r) /\ v \in Uidls
      BY <1>1, <2>3, CurrentCarried DEF Working, Holding
    <3>4. v \in Arrived /\ n <= rank[v] /\ rank[c] >= rank[v] /\ rank[v] \in Nat
      BY <1>1, <3>1, <3>2, <3>3 DEF Arrivals
    <3>5. rank[c] <= n + Cardinality(gone) /\ rank[c] \in Nat
      BY <3>2 DEF Arrivals, TypeInv, StoresOK
    <3>. QED
      BY <1>3, <3>2, <3>4, <3>5 DEF Near
  <2>. QED
    BY <1>9, <2>1, <2>2, <2>3, MessagePath
<1>10. ASSUME NEW c \in Uidls
       PROVE  gmail'[c] + Cardinality({w \in later[c] : Reopened(w)'})
                <= Cardinality(later[c]) + faults' - Cardinality(gone)
  <2>. DEFINE A == {w \in S[c] : Reopened(w)}
              B == {w \in later[c] : Reopened(w)'}
  <2>1. A \in SUBSET Uidls /\ B \in SUBSET Uidls /\ IsFiniteSet(Uidls)
    BY <1>3, <1>6, MailAssumption
  <2>2. B \ {v} \subseteq A \ {v}
    <3>. SUFFICES ASSUME NEW w \in B, w # v PROVE w \in A
      OBVIOUS
    <3>1. w \in S[c] /\ w \in Uidls
      BY <1>2, <1>3
    <3>. QED
      BY <1>1, <3>1, ReopenedChange
  <2>3. v \in B /\ v \in S[c] /\ v \notin A => faults' = faults + 1
    <3>. SUFFICES ASSUME v \in B, v \in S[c], v \notin A PROVE faults' = faults + 1
      OBVIOUS
    <3>1. v \in Uidls /\ records[v].status # "absent"
      BY <1>3 DEF Copies
    <3>. QED
      BY <1>1, <3>1, ReopenedChange
  <2>4. gmail[c] + Cardinality(A) <= Cardinality(S[c]) + faults - Cardinality(gone)
    BY DEF Copies
  <2>5. IsFiniteSet(S[c]) /\ Cardinality(S[c]) \in Nat /\ Cardinality(later[c]) \in Nat
    BY <1>3, <1>6, MailAssumption, FS_Subset, FS_CardinalityType
  <2>6. v \in A => v \in S[c]
    OBVIOUS
  <2>7. gmail'[c] # gmail[c] => /\ v \in S[c] => v \in A
                                /\ ~Reopened(v)' => v \notin B
    BY <1>5
  <2>8. v \in B => v \in later[c]
    OBVIOUS
  <2>. HIDE DEF A, B
  <2>9. /\ Cardinality(A) \in Nat /\ Cardinality(B) \in Nat
        /\ Cardinality(B) <= Cardinality(A) + 1
        /\ v \notin B \/ v \in A => Cardinality(B) <= Cardinality(A)
        /\ v \in A /\ v \notin B => Cardinality(B) + 1 <= Cardinality(A)
    BY <2>1, <2>2, OneMore
  <2>10. gmail'[c] + Cardinality(B) <= Cardinality(later[c]) + faults' - Cardinality(gone)
    <3>1. CASE gmail'[c] = gmail[c]
      <4>1. later[c] = S[c]
        BY <1>2, <3>1
      <4>. QED
        BY <1>3, <2>3, <2>4, <2>5, <2>8, <2>9, <3>1, <4>1
    <3>2. CASE gmail'[c] # gmail[c] /\ v \in S[c]
      <4>1. later[c] = S[c]
        BY <1>2, <3>2
      <4>2. v \notin B \/ faults' = faults + 1
        BY <1>5, <2>7, <3>2
      <4>. QED
        BY <1>3, <1>5, <2>4, <2>5, <2>7, <2>9, <3>2, <4>1, <4>2
    <3>3. CASE gmail'[c] # gmail[c] /\ v \notin S[c]
      <4>1. Cardinality(later[c]) = Cardinality(S[c]) + 1
        BY <1>2, <2>5, <3>3, FS_AddElement
      <4>2. v \notin B \/ faults' = faults + 1
        BY <1>5, <2>7, <3>3
      <4>. QED
        BY <1>3, <1>5, <2>4, <2>5, <2>9, <3>3, <4>1, <4>2
    <3>. QED
      BY <3>1, <3>2, <3>3
  <2>. QED
    BY <2>10 DEF B
<1>11. Copies(later, rank)'
  BY <1>4, <1>6, <1>8, <1>9, <1>10 DEF Copies
<1>. QED
  BY <1>11


LEMMA CopiesPreserved ==
  TypeInv /\ ClaimInv /\ ClaimInv' /\ NothingForgotten /\ CopiesInv /\ [Next]_vars => CopiesInv'
<1>. SUFFICES ASSUME TypeInv, ClaimInv, ClaimInv', NothingForgotten, [Next]_vars,
                     NEW S, NEW rank, Arrivals(rank), Copies(S, rank)
              PROVE  \E T, later : Arrivals(later)' /\ Copies(T, later)'
  BY DEF CopiesInv
<1>1. /\ faults \in Nat /\ Cardinality(gone) \in Nat /\ Arrived \subseteq Uidls
      /\ S \in [Uidls -> SUBSET Uidls]
  BY GoneFinite DEF Copies, Arrived, InMaildrop, TypeInv, StoresOK
<1>2. \A c \in Uidls : Cardinality(S[c]) \in Int
  <2>1. ASSUME NEW c \in Uidls
        PROVE  Cardinality(S[c]) \in Nat
    BY <1>1, MailAssumption, FS_Subset, FS_CardinalityType
  <2>. QED
    BY <2>1
<1>3. ASSUME NEW r \in Runs, Start(r) \/ RunStep(r) \/ Kill(r)
      PROVE  \E T, later : Arrivals(later)' /\ Copies(T, later)'
  BY <1>3, ArrivalsAfterRunStep, CopiesAfterRunStep
<1>4. ASSUME NEW u \in Uidls, Arrive(u)
      PROVE  \E T, later : Arrivals(later)' /\ Copies(T, later)'
  <2>1. Arrived' = Arrived \cup {u}
    BY <1>4, ArrivalsAfterArrival
  <2>2. PICK later : Arrivals(later)' /\ \A v \in Arrived : later[v] = rank[v]
    BY <1>4, ArrivalsAfterArrival
  <2>3. UNCHANGED <<gone, gmail, records, pc, batch, job, faults>>
    BY <1>4 DEF Arrive
  <2>4. \A c \in Uidls : Near(rank, c) \subseteq Near(later, c)'
    BY <2>1, <2>2, <2>3 DEF Near
  <2>5. Copies(S, later)'
    BY <1>1, <1>2, <2>3, <2>4, CopiesKept
  <2>. QED
    BY <2>2, <2>5
<1>5. ASSUME NEW k \in DOMAIN maildrop, Remove(k)
      PROVE  \E T, later : Arrivals(later)' /\ Copies(T, later)'
  <2>1. /\ Arrivals(rank)' /\ Arrived' = Arrived
        /\ Cardinality(gone') = Cardinality(gone) + 1
    BY <1>5, ArrivalsAfterRemoval
  <2>2. UNCHANGED <<gmail, records, pc, batch, job>> /\ faults' = faults + 1
    BY <1>5 DEF Remove, Fault
  <2>3. \A c \in Uidls : Near(rank, c) \subseteq Near(rank, c)'
    <3>1. \A c \in Uidls : rank[c] \in Nat
      BY DEF Arrivals
    <3>. QED
      BY <1>1, <2>1, <3>1 DEF Near
  <2>4. Copies(S, rank)'
    BY <1>1, <1>2, <2>1, <2>2, <2>3, CopiesKept
  <2>. QED
    BY <2>1, <2>4
<1>6. CASE Tick \/ UNCHANGED vars
  <2>1. UNCHANGED <<maildrop, gone, gmail, records, pc, batch, job, faults>>
    BY <1>6 DEF Tick, vars, mailboxes
  <2>2. Arrivals(rank)' /\ \A c \in Uidls : Near(rank, c)' = Near(rank, c)
    BY <2>1 DEF Arrivals, Near, Arrived, InMaildrop, Carried
  <2>3. Copies(S, rank)'
    BY <1>1, <1>2, <2>1, <2>2, CopiesKept
  <2>. QED
    BY <2>2, <2>3
<1>. QED
  BY <1>3, <1>4, <1>5, <1>6 DEF Next

LEMMA InitCopies == Init => CopiesInv
<1>. SUFFICES ASSUME Init PROVE CopiesInv
  OBVIOUS
<1>1. PICK S, rank : S = [c \in Uidls |-> {}] /\ rank = [c \in Uidls |-> 0]
  OBVIOUS
<1>2. \A r \in Runs : Carried(r) = {} /\ pc[r] = "unborn"
  BY DEF Init, Carried, Range, NoJob
<1>3. DOMAIN maildrop = {} /\ gone = {} /\ Arrived = {} /\ InMaildrop = {}
  BY DEF Init, Arrived, InMaildrop
<1>4. Arrivals(rank)
  BY <1>1, <1>2, <1>3 DEF Arrivals
<1>5. Cardinality({}) = 0
  BY FS_EmptySet
<1>6. Copies(S, rank)
  <2>1. \A c \in Uidls : S[c] = {} /\ {v \in S[c] : Reopened(v)} = {}
    BY <1>1
  <2>2. \A c \in Uidls : gmail[c] = 0 /\ faults = 0
    BY DEF Init
  <2>3. S \in [Uidls -> SUBSET Uidls]
    BY <1>1
  <2>4. ASSUME NEW c \in Uidls
        PROVE  gmail[c] + Cardinality({v \in S[c] : Reopened(v)})
                 <= Cardinality(S[c]) + faults - Cardinality(gone)
    <3>1. /\ Cardinality({v \in S[c] : Reopened(v)}) = 0 /\ Cardinality(S[c]) = 0
          /\ Cardinality(gone) = 0
      BY <1>3, <1>5, <2>1
    <3>. QED
      BY <2>2, <3>1
  <2>. QED
    BY <1>2, <2>1, <2>3, <2>4 DEF Copies
<1>. QED
  BY <1>4, <1>6 DEF CopiesInv

\* Whatever is removed from the maildrop, however runs overlap, each copy of a
\* message in Gmail but the first took something that went wrong, as long as the
\* account has seen no more messages than the floor retains.
THEOREM RetainedDuplicatesNeedFaults ==
  ASSUME AllRetained
  PROVE  Spec => []DuplicatesNeedFaults
<1>1. Init => TypeInv /\ ClaimInv /\ CopiesInv
  BY InitTypes, InitClaims, InitCopies
<1>2. TypeInv /\ ClaimInv /\ NothingForgotten /\ CopiesInv /\ [Next]_vars =>
        (TypeInv /\ ClaimInv /\ CopiesInv)'
  <2>1. NothingForgotten => ForgetsNoClaim
    BY DEF NothingForgotten, ForgetsNoClaim
  <2>. QED
    BY <2>1, TypePreserved, ClaimsPreserved, CopiesPreserved
<1>3. TypeInv /\ CopiesInv => DuplicatesNeedFaults
  <2>. SUFFICES ASSUME TypeInv, NEW S, NEW rank, Arrivals(rank), Copies(S, rank),
                       NEW u \in Uidls
                PROVE  gmail[u] - 1 <= faults
    BY DEF CopiesInv, DuplicatesNeedFaults
  <2>. DEFINE A == {v \in S[u] : Reopened(v)}
  <2>1. gmail[u] + Cardinality(A) <= Cardinality(S[u]) + faults - Cardinality(gone)
    BY DEF Copies
  <2>2. /\ IsFiniteSet(Near(rank, u)) /\ Cardinality(Near(rank, u)) \in Nat
        /\ Cardinality(Near(rank, u)) <= Cardinality(gone) + 1
    BY FewAreNear
  <2>3. S[u] \subseteq Near(rank, u) /\ A \subseteq Near(rank, u)
    BY DEF Copies
  <2>. HIDE DEF A
  <2>4. /\ Cardinality(S[u]) \in Nat /\ Cardinality(A) \in Nat
        /\ Cardinality(S[u]) <= Cardinality(Near(rank, u))
    BY <2>2, <2>3, FS_Subset, FS_CardinalityType
  <2>5. gmail[u] \in Nat /\ faults \in Nat /\ Cardinality(gone) \in Nat
    BY GoneFinite DEF TypeInv, StoresOK
  <2>. QED
    BY <2>1, <2>2, <2>4, <2>5
<1>. QED
  BY <1>1, <1>2, <1>3, NothingForgottenAlways, PTL DEF Spec

=============================================================================
