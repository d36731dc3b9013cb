---------------------------- MODULE LegacyTransfer ----------------------------
(***************************************************************************)
(* The retained POP3/Firebase job: EmailTransferJob.run executed by        *)
(* successive and by overlapping invocations of the scheduled function,    *)
(* with the stores it works on: the POP3 maildrop, Gmail, the Firestore    *)
(* collections of processed emails and job runs, and the statistics        *)
(* projection.                                                             *)
(*                                                                         *)
(* One action is one awaited operation of the job together with the        *)
(* synchronous code up to the next one.  Every POP3 operation opens a      *)
(* session of its own, and message numbers only mean something within one. *)
(* AmplitudeTrackerService swallows its errors, so tracking is left out.   *)
(*                                                                         *)
(* A tick is an hour, the period of the schedule.  The function times out  *)
(* after 60 seconds, so no invocation outlives its tick, and an invocation *)
(* of an earlier tick is always older than the 15 minutes after which its  *)
(* running record is stale.                                                *)
(*                                                                         *)
(* What goes wrong draws on one budget of faults: an operation that throws *)
(* before or after it took effect, a Gmail import whose reply is lost, an  *)
(* invocation that is killed, a message removed from the maildrop by       *)
(* another client (which renumbers the ones behind it).                    *)
(***************************************************************************)
EXTENDS Integers, Sequences, FiniteSets, Functions

CONSTANTS
  Uidls,                   \* the UIDLs of the source account
  WithoutMessageId,        \* those of messages without a Message-ID header
  MaxMessagesPerRun,       \* configuration: messages listed at most
  IncrementalScanLimit,    \* incrementalMessageScanLimit
  KnownBeforeStop,         \* consecutiveKnownImportedMessagesBeforeStop
  RetentionTicks,          \* configuration: retentionDays
  MinimumRetainedCount,    \* configuration: uidlCleanup.minimumRetainedCount
  CleanupBatchSize,        \* configuration: uidlCleanup.cleanupBatchSize
  MaxImportCalls,          \* calls of the Gmail import before it is given up
  MaxLive,                 \* bound: invocations that overlap
  MaxRuns,                 \* bound: invocations
  MaxTicks,                \* bound: hours
  MaxFaults                \* bound: things that go wrong

ASSUME MailAssumption == IsFiniteSet(Uidls) /\ WithoutMessageId \subseteq Uidls
ASSUME LimitsAssumption ==
  /\ MaxMessagesPerRun \in Nat \ {0}
  /\ IncrementalScanLimit \in Nat \ {0}
  /\ KnownBeforeStop \in Nat \ {0}
  /\ RetentionTicks \in Nat \ {0}
  /\ MinimumRetainedCount \in Nat
  /\ CleanupBatchSize \in Nat \ {0}
  /\ MaxImportCalls \in Nat \ {0}
ASSUME RunsAssumption == MaxRuns \in Nat

VARIABLES
  maildrop,    \* the messages of the POP3 account: maildrop[n] is number n
  gone,        \* the messages removed from it
  gmail,       \* gmail[u]: copies of message u in Gmail
  records,     \* records[u]: the processed email of UIDL u
  jobRuns,     \* jobRuns[r]: the stored summary of run r
  projection,  \* the job runs as the stored statistics know them
  now,         \* the current hour
  nextRun,     \* the next run
  pc,          \* pc[r]: what run r awaits, or how it ended
  batch,       \* batch[r]: the messages run r has not finished
  job,         \* job[r]: the other locals of run r
  faults       \* how many things went wrong so far

mailboxes == <<maildrop, gone, gmail>>
runStores == <<jobRuns, projection>>
time      == <<now, nextRun>>
vars      == <<mailboxes, records, runStores, time, pc, batch, job, faults>>
-----------------------------------------------------------------------------
(***************************************************************************)
(* The values.                                                             *)
(***************************************************************************)
Runs   == 1..MaxRuns
Nobody == 0
Ticks  == Nat

NoCounts ==
  [detected |-> 0, processed |-> 0, skipped |-> 0, failed |-> 0, transferred |-> 0]
Counts ==
  [detected : Nat, processed : Nat, skipped : Nat, failed : Nat, transferred : Nat]

\* A date: the hour, and the order within it.
Dates   == [hour : Ticks, order : Nat]
NoDate  == [hour |-> 0, order |-> 0]

\* A processed email, and the absence of one.
NoRecord == [status |-> "absent", claimJobId |-> Nobody, importedAt |-> NoDate]
Records  ==
  [status     : {"absent", "processing", "imported", "failed"},
   claimJobId : Runs \cup {Nobody},
   importedAt : Dates]

NoJobRun == [status |-> "absent", startedAt |-> 0, counts |-> NoCounts]
JobRuns  ==
  [status    : {"absent", "running", "completed", "completed_with_failures", "failed"},
   startedAt : Ticks,
   counts    : Counts]

\* A message of the maildrop as one session saw it.
References == [number : Nat, uidl : Uidls]

Job ==
  [startedAt  : Ticks,
   reconciled : BOOLEAN,                         \* a stale run was deleted
   thrown     : BOOLEAN,                         \* run() is in its catch block
   toRead     : Seq(References),                 \* metadata still to be read
   counts     : Counts,
   rawMessage : SUBSET Uidls,                    \* the message retrieved, if any
   calls      : Nat,                             \* calls of the Gmail import
   candidates : SUBSET Uidls,                    \* records the cleanup deletes
   statistics : [Runs -> JobRuns]]               \* the statistics it computed

NoJob ==
  [startedAt |-> 0, reconciled |-> FALSE, thrown |-> FALSE, toRead |-> <<>>,
   counts |-> NoCounts, rawMessage |-> {}, calls |-> 0, candidates |-> {},
   statistics |-> [r \in Runs |-> NoJobRun]]

Ended == {"returned", "rejected", "killed"}
\* Where a run holds the claim of the message it processes.
Holding == {"fetch", "import", "markImported", "lookup", "remark", "markFailed"}
Steps ==
  Holding \cup Ended \cup
  {"unborn", "reconcile", "saveStarted", "list", "filter", "metadata", "claim",
   "cleanup", "delete", "complete", "refresh", "saveStatistics"}

Live(r)    == pc[r] \notin Ended \cup {"unborn"}
Current(r) == Head(batch[r])
Min2(a, b) == IF a < b THEN a ELSE b
-----------------------------------------------------------------------------
Goto(r, step) == pc' = [pc EXCEPT ![r] = step]

Fault == faults < MaxFaults /\ faults' = faults + 1
Fine  == UNCHANGED faults

\* run() reaches its catch block: the job is completed a second time.
ToCatch(r) ==
  /\ Goto(r, "complete")
  /\ job' = [job EXCEPT ![r].thrown = TRUE, ![r].toRead = <<>>]
  /\ batch' = [batch EXCEPT ![r] = <<>>]

\* An ended run keeps nothing but the fact.
End(r, how) ==
  /\ Goto(r, how)
  /\ job' = [job EXCEPT ![r] = [NoJob EXCEPT !.startedAt = job[r].startedAt]]
  /\ batch' = [batch EXCEPT ![r] = <<>>]

\* withDetectedCount, markSkipped, markFailed, markTransferred.
WithDetected(c, n)    == [c EXCEPT !.detected = n]

\* Mutant: a skipped message is not a processed one.
MarkSkippedOnly(c)    == [c EXCEPT !.skipped = @ + 1]

MarkSkipped(c)        == [c EXCEPT !.processed = @ + 1, !.skipped = @ + 1]
CountFailed(c)        == [c EXCEPT !.processed = @ + 1, !.failed = @ + 1]
MarkTransferred(c)    == [c EXCEPT !.processed = @ + 1, !.transferred = @ + 1]

\* The message is dealt with: on to the next one, or to the cleanup, which is
\* never skipped here because a message was processed.
NextMessage(r, counted) ==
  /\ batch' = [batch EXCEPT ![r] = Tail(batch[r])]
  /\ job' = [job EXCEPT ![r].counts = counted, ![r].rawMessage = {}, ![r].calls = 0]
  /\ Goto(r, IF Tail(batch[r]) = <<>> THEN "cleanup" ELSE "claim")
-----------------------------------------------------------------------------
(***************************************************************************)
(* The start of a run.                                                     *)
(***************************************************************************)
Start(r) ==
  /\ r = nextRun
  /\ pc[r] = "unborn"
  /\ Cardinality({q \in Runs : Live(q)}) < MaxLive
  /\ Goto(r, "reconcile")
  /\ job' = [job EXCEPT ![r].startedAt = now]
  /\ nextRun' = nextRun + 1
  /\ UNCHANGED <<mailboxes, records, runStores, now, batch>> /\ Fine

\* Mutant: a threshold of zero.
StaleAtOnce(r) ==
  {q \in Runs : jobRuns[q].status = "running" /\ jobRuns[q].startedAt <= job[r].startedAt}

\* The running records at least 15 minutes older than the run.
Stale(r) ==
  {q \in Runs : jobRuns[q].status = "running" /\ jobRuns[q].startedAt < job[r].startedAt}

\* The job runs without those of S.
Deleted(S) == [q \in Runs |-> IF q \in S THEN NoJobRun ELSE jobRuns[q]]

\* reconcileStaleRunningJobs.  A delete that throws ends the run before it has
\* a record of its own.
ReconcileStaleRunningJobs(r) ==
  /\ pc[r] = "reconcile"
  /\ \/ /\ jobRuns' = Deleted(Stale(r))
        /\ Goto(r, "saveStarted")
        /\ job' = [job EXCEPT ![r].reconciled = (Stale(r) # {})]
        /\ UNCHANGED batch /\ Fine
     \/ /\ \E S \in SUBSET Stale(r) : jobRuns' = Deleted(S)
        /\ End(r, "rejected")
        /\ Fault
  /\ UNCHANGED <<mailboxes, records, projection, time>>

\* JobRunEntity.createStarted.
Started(r) == [status |-> "running", startedAt |-> job[r].startedAt, counts |-> NoCounts]

\* saveStarted, outside the try block of run().
SaveStarted(r) ==
  /\ pc[r] = "saveStarted"
  /\ LET started == [jobRuns EXCEPT ![r] = Started(r)]
     IN \/ jobRuns' = started /\ Goto(r, "list") /\ UNCHANGED <<batch, job>> /\ Fine
        \/ jobRuns' \in {started, jobRuns} /\ End(r, "rejected") /\ Fault
  /\ UNCHANGED <<mailboxes, records, projection, time>>
-----------------------------------------------------------------------------
(***************************************************************************)
(* Listing the messages.                                                   *)
(***************************************************************************)
HasPriorRuns == \E q \in Runs : jobRuns[q].status # "absent"

ScanLimit ==
  IF HasPriorRuns THEN Min2(MaxMessagesPerRun, IncrementalScanLimit) ELSE MaxMessagesPerRun

\* listMessageReferences: the most recent messages, the newest first.
MessageReferences(limit) ==
  LET n == Min2(limit, Len(maildrop))
  IN [i \in 1..n |-> [number |-> Len(maildrop) + 1 - i, uidl |-> maildrop[Len(maildrop) + 1 - i]]]

\* A run finds its own running record among the prior runs, so the branch that
\* lists the metadata of maxMessagesPerRun messages is never taken.
ListMessages(r) ==
  /\ pc[r] = "list"
  /\ \/ /\ LET listed == MessageReferences(ScanLimit)
           IN IF HasPriorRuns
              THEN /\ Goto(r, "filter")
                   /\ job' = [job EXCEPT ![r].toRead = listed]
                   /\ UNCHANGED batch
              ELSE /\ Goto(r, IF listed = <<>> THEN "complete" ELSE "claim")
                   /\ batch' = [batch EXCEPT ![r] = listed]
                   /\ job' = [job EXCEPT ![r].counts = WithDetected(@, Len(listed))]
        /\ Fine
     \/ ToCatch(r) /\ Fault
  /\ UNCHANGED <<mailboxes, records, runStores, time>>

\* The references whose metadata filterIncrementalMessages asks for: those not
\* imported, up to the first KnownBeforeStop imported ones in a row.
Wanted(references) ==
  LET Known(i) == records[references[i].uidl].status = "imported"
      Stops(i) == i >= KnownBeforeStop /\ \A j \in (i - KnownBeforeStop + 1)..i : Known(j)
  IN {i \in DOMAIN references : ~Known(i) /\ \A j \in 1..i : ~Stops(j)}

\* The elements of s at the positions in P.
Pick(s, P) ==
  LET At(k) == CHOOSE i \in P : Cardinality({j \in P : j < i}) = k - 1
  IN [k \in 1..Cardinality(P) |-> s[At(k)]]

\* findByUidls, and which references survive it.
FilterIncrementalMessages(r) ==
  /\ pc[r] = "filter"
  /\ \/ LET wanted == Pick(job[r].toRead, Wanted(job[r].toRead))
        IN /\ Goto(r, IF wanted = <<>> THEN "complete" ELSE "metadata")
           /\ job' = [job EXCEPT ![r].toRead = wanted]
           /\ UNCHANGED batch /\ Fine
     \/ ToCatch(r) /\ Fault
  /\ UNCHANGED <<mailboxes, records, runStores, time>>

\* getMessageMetadata, one session per message: whatever now has the number.
GetMessageMetadata(r) ==
  /\ pc[r] = "metadata"
  /\ LET n == Head(job[r].toRead).number
         rest == Tail(job[r].toRead)
     IN \/ /\ n \in DOMAIN maildrop
           /\ batch' = [batch EXCEPT ![r] = Append(@, [number |-> n, uidl |-> maildrop[n]])]
           /\ job' = [job EXCEPT ![r].toRead = rest,
                                 ![r].counts = IF rest = <<>>
                                               THEN WithDetected(@, Len(batch[r]) + 1) ELSE @]
           /\ Goto(r, IF rest = <<>> THEN "claim" ELSE "metadata")
           /\ Fine
        \/ n \notin DOMAIN maildrop /\ ToCatch(r) /\ Fine
        \/ ToCatch(r) /\ Fault
  /\ UNCHANGED <<mailboxes, records, runStores, time>>
-----------------------------------------------------------------------------
(***************************************************************************)
(* The processed emails.                                                   *)
(***************************************************************************)
\* Mutants: a record in processing, or an imported one, can be claimed.
CanTransferProcessing(u) == records[u].status # "imported"
CanTransferImported(u) == records[u].status # "processing"

CanTransfer(u) == records[u].status \in {"absent", "failed"}

\* createProcessingRecord, as it is stored over a document: the fields it does
\* not have, importedAt among them, are not written and the merge keeps them.
ProcessingRecord(document, r) ==
  [status |-> "processing", claimJobId |-> r, importedAt |-> document.importedAt]

\* The transaction of claimForProcessing.
Claimed(u, r) ==
  IF CanTransfer(u) THEN [records EXCEPT ![u] = ProcessingRecord(records[u], r)] ELSE records

\* The present, later than any date in the records: each follows a call of
\* Gmail, so two of them never share their millisecond.
Now ==
  LET orders == {records[u].importedAt.order : u \in Uidls}
  IN [hour |-> now, order |-> 1 + (CHOOSE o \in orders : \A p \in orders : p <= o)]

\* Mutant: the document is replaced instead of merged.
ImportedUnmerged(u) ==
  [records EXCEPT ![u] = [status |-> "imported", claimJobId |-> Nobody, importedAt |-> Now]]

\* markImported merges into whatever document there is.
Imported(u) ==
  [records EXCEPT ![u] =
     [status |-> "imported", claimJobId |-> records[u].claimJobId, importedAt |-> Now]]

\* So does markFailed, which names the run again and keeps importedAt.
Failed(u, r) ==
  [records EXCEPT ![u] =
     [status |-> "failed", claimJobId |-> r, importedAt |-> records[u].importedAt]]

\* claimForProcessing is outside the try block of processMessage: when it
\* throws, applied or not, the run gives up.
ClaimForProcessing(r) ==
  /\ pc[r] = "claim"
  /\ LET u == Current(r).uidl
     IN \/ /\ records' = Claimed(u, r)
           /\ IF CanTransfer(u)
              THEN Goto(r, "fetch") /\ UNCHANGED <<batch, job>>
              ELSE NextMessage(r, MarkSkipped(job[r].counts))
           /\ Fine
        \/ /\ records' \in {records, Claimed(u, r)}
           /\ ToCatch(r)
           /\ Fault
  /\ UNCHANGED <<mailboxes, runStores, time>>

\* Mutant: a message that cannot be retrieved is passed over.
GetMessageOrPass(r) ==
  /\ pc[r] = "fetch"
  /\ LET n == Current(r).number
     IN \/ /\ n \in DOMAIN maildrop
           /\ job' = [job EXCEPT ![r].rawMessage = {maildrop[n]}]
           /\ Goto(r, "import") /\ UNCHANGED batch /\ Fine
        \/ NextMessage(r, MarkSkipped(job[r].counts)) /\ Fault
  /\ UNCHANGED <<mailboxes, records, runStores, time>>

\* getMessage, in yet another session: the message that now has the number.
GetMessage(r) ==
  /\ pc[r] = "fetch"
  /\ LET n == Current(r).number
     IN \/ /\ n \in DOMAIN maildrop
           /\ job' = [job EXCEPT ![r].rawMessage = {maildrop[n]}]
           /\ Goto(r, "import") /\ Fine
        \/ n \notin DOMAIN maildrop /\ Goto(r, "markFailed") /\ UNCHANGED job /\ Fine
        \/ Goto(r, "markFailed") /\ UNCHANGED job /\ Fault
  /\ UNCHANGED <<mailboxes, records, runStores, time, batch>>

\* Mutant: giving up after the last call is taken for a success.
ImportMessageOptimistic(r) ==
  /\ pc[r] = "import"
  /\ \E u \in job[r].rawMessage :
       \/ gmail' = [gmail EXCEPT ![u] = @ + 1] /\ Goto(r, "markImported") /\ UNCHANGED job /\ Fine
       \/ /\ job' = [job EXCEPT ![r].calls = @ + 1]
          /\ Goto(r, IF job[r].calls + 1 < MaxImportCalls THEN "import" ELSE "markImported")
          /\ UNCHANGED gmail /\ Fault
  /\ UNCHANGED <<maildrop, gone, records, runStores, time, batch>>

\* One call of messages.import.  A call that fails, or whose reply is lost, is
\* repeated without asking whether Gmail has the message.
ImportMessage(r) ==
  /\ pc[r] = "import"
  /\ \E u \in job[r].rawMessage :
       LET delivered == [gmail EXCEPT ![u] = @ + 1]
       IN \/ gmail' = delivered /\ Goto(r, "markImported") /\ UNCHANGED job /\ Fine
          \/ /\ gmail' \in {gmail, delivered}
             /\ job' = [job EXCEPT ![r].calls = @ + 1]
             /\ Goto(r, IF job[r].calls + 1 < MaxImportCalls THEN "import" ELSE "markFailed")
             /\ Fault
  /\ UNCHANGED <<maildrop, gone, records, runStores, time, batch>>

\* The record marked is that of the UIDL listed, whatever was retrieved.
MarkImported(r) ==
  /\ pc[r] = "markImported"
  /\ LET u == Current(r).uidl
     IN \/ records' = Imported(u) /\ NextMessage(r, MarkTransferred(job[r].counts)) /\ Fine
        \/ /\ records' \in {records, Imported(u)}
           /\ Goto(r, "lookup") /\ UNCHANGED <<batch, job>>
           /\ Fault
  /\ UNCHANGED <<mailboxes, runStores, time>>

\* reconcileImportedMessage can only look a message up that has a Message-ID.
HasMessageId(r) == job[r].rawMessage \cap WithoutMessageId = {}

\* findImportedMessageByRfc822MessageId: an error, or an index that does not
\* know the message yet, is a fault.
ReconcileImportedMessage(r) ==
  /\ pc[r] = "lookup"
  /\ \/ HasMessageId(r) /\ Goto(r, "remark") /\ Fine
     \/ ~HasMessageId(r) /\ Goto(r, "markFailed") /\ Fine
     \/ HasMessageId(r) /\ Goto(r, "markFailed") /\ Fault
  /\ UNCHANGED <<mailboxes, records, runStores, time, batch, job>>

\* The second markImported, of reconcileImportedMessage.
MarkReconciled(r) ==
  /\ pc[r] = "remark"
  /\ LET u == Current(r).uidl
     IN \/ records' = Imported(u) /\ NextMessage(r, MarkTransferred(job[r].counts)) /\ Fine
        \/ /\ records' \in {records, Imported(u)}
           /\ Goto(r, "markFailed") /\ UNCHANGED <<batch, job>>
           /\ Fault
  /\ UNCHANGED <<mailboxes, runStores, time>>

\* The catch block of processMessage; an exception of its own ends the loop.
MarkFailed(r) ==
  /\ pc[r] = "markFailed"
  /\ LET u == Current(r).uidl
     IN \/ records' = Failed(u, r) /\ NextMessage(r, CountFailed(job[r].counts)) /\ Fine
        \/ records' \in {records, Failed(u, r)} /\ ToCatch(r) /\ Fault
  /\ UNCHANGED <<mailboxes, runStores, time>>
-----------------------------------------------------------------------------
(***************************************************************************)
(* The retention of the imported records.                                  *)
(***************************************************************************)
ImportedUidls == {u \in Uidls : records[u].status = "imported"}

Newer(u, v) ==
  LET a == records[u].importedAt
      b == records[v].importedAt
  IN a.hour > b.hour \/ (a.hour = b.hour /\ a.order > b.order)

\* Mutant: one record less is retained.
NewestOneShort(S, n) == {u \in S : Cardinality({v \in S : Newer(v, u)}) < n - 1}

\* The first n of S in the order of importedAt, the newest first.
Newest(S, n) == {u \in S : Cardinality({v \in S : Newer(v, u)}) < n}

\* cleanupImportedRecords, the selection.  Its errors are swallowed.
ListImportedRecords(r) ==
  /\ pc[r] = "cleanup"
  /\ \/ LET retained   == Newest(ImportedUidls, MinimumRetainedCount)
            expired    == {u \in ImportedUidls \ retained :
                             records[u].importedAt.hour < now - RetentionTicks}
            candidates == Newest(expired, CleanupBatchSize)
        IN /\ job' = [job EXCEPT ![r].candidates = candidates]
           /\ Goto(r, IF candidates = {} THEN "complete" ELSE "delete")
           /\ Fine
     \/ Goto(r, "complete") /\ UNCHANGED job /\ Fault
  /\ UNCHANGED <<mailboxes, records, runStores, time, batch>>

\* The deletes, all at once; some may fail.
DeleteRecords(r) ==
  /\ pc[r] = "delete"
  /\ LET Without(S) == [u \in Uidls |-> IF u \in S THEN NoRecord ELSE records[u]]
     IN \/ records' = Without(job[r].candidates) /\ Fine
        \/ (\E S \in SUBSET job[r].candidates : records' = Without(S)) /\ Fault
  /\ job' = [job EXCEPT ![r].candidates = {}]
  /\ Goto(r, "complete")
  /\ UNCHANGED <<mailboxes, runStores, time, batch>>
-----------------------------------------------------------------------------
(***************************************************************************)
(* The end of a run.                                                       *)
(***************************************************************************)
\* Mutant: a status the store does not know.
DetermineStatusUnknown(c) == IF c.failed = 0 THEN "completed" ELSE "completed_with_errors"

\* JobRunEntity.determineStatus: listing that failed counts no failure.
DetermineStatus(c) ==
  IF c.failed = 0 THEN "completed"
  ELSE IF c.transferred = 0 /\ c.skipped = 0 THEN "failed"
  ELSE "completed_with_failures"

Finalized(r) ==
  [status |-> DetermineStatus(job[r].counts), startedAt |-> job[r].startedAt,
   counts |-> job[r].counts]

\* Mutant: only a reconciliation refreshes the statistics.
ShouldRefreshReconciled(r) == job[r].reconciled

ShouldRefresh(r) == job[r].counts.processed > 0 \/ job[r].reconciled

Outcome(r) == IF job[r].thrown THEN "rejected" ELSE "returned"

\* completeJob.  In the try block its exception leads to the catch block,
\* which completes the job a second time; from there it rejects the run.
CompleteJob(r) ==
  /\ pc[r] = "complete"
  /\ LET finished == [jobRuns EXCEPT ![r] = Finalized(r)]
     IN \/ /\ jobRuns' = finished
           /\ IF ShouldRefresh(r)
              THEN Goto(r, "refresh") /\ UNCHANGED <<batch, job>>
              ELSE End(r, Outcome(r))
           /\ Fine
        \/ /\ jobRuns' \in {jobRuns, finished}
           /\ IF job[r].thrown THEN End(r, "rejected") ELSE ToCatch(r)
           /\ Fault
  /\ UNCHANGED <<mailboxes, records, projection, time>>

\* refreshStatisticsProjection reads the job runs...
GetStatistics(r) ==
  /\ pc[r] = "refresh"
  /\ \/ /\ Goto(r, "saveStatistics")
        /\ job' = [job EXCEPT ![r].statistics = jobRuns]
        /\ UNCHANGED batch /\ Fine
     \/ End(r, Outcome(r)) /\ Fault
  /\ UNCHANGED <<mailboxes, records, runStores, time>>

\* ...and stores what it made of them; its errors are swallowed.
SaveStatistics(r) ==
  /\ pc[r] = "saveStatistics"
  /\ \/ projection' = job[r].statistics /\ Fine
     \/ projection' \in {projection, job[r].statistics} /\ Fault
  /\ End(r, Outcome(r))
  /\ UNCHANGED <<mailboxes, records, jobRuns, time>>
-----------------------------------------------------------------------------
(***************************************************************************)
(* The environment.                                                        *)
(***************************************************************************)
\* The function times out or its instance dies.
Kill(r) ==
  /\ Live(r)
  /\ End(r, "killed")
  /\ Fault
  /\ UNCHANGED <<mailboxes, records, runStores, time>>

InMaildrop == {maildrop[n] : n \in DOMAIN maildrop}

\* A new message reaches the account.
Arrive(u) ==
  /\ u \notin InMaildrop \cup gone
  /\ maildrop' = Append(maildrop, u)
  /\ UNCHANGED <<gone, gmail, records, runStores, time, pc, batch, job, faults>>

\* Another client removes message number n.
Remove(n) ==
  /\ n \in DOMAIN maildrop
  /\ maildrop' = SubSeq(maildrop, 1, n - 1) \o SubSeq(maildrop, n + 1, Len(maildrop))
  /\ gone' = gone \cup {maildrop[n]}
  /\ Fault
  /\ UNCHANGED <<gmail, records, runStores, time, pc, batch, job>>

\* The next hour: every invocation of this one is over.
Tick ==
  /\ now < MaxTicks
  /\ \A r \in Runs : ~Live(r)
  /\ now' = now + 1
  /\ UNCHANGED <<mailboxes, records, runStores, nextRun, pc, batch, job, faults>>
-----------------------------------------------------------------------------
Init ==
  /\ maildrop = <<>>
  /\ gone = {}
  /\ gmail = [u \in Uidls |-> 0]
  /\ records = [u \in Uidls |-> NoRecord]
  /\ jobRuns = [r \in Runs |-> NoJobRun]
  /\ projection = [r \in Runs |-> NoJobRun]
  /\ now = 1
  /\ nextRun = 1
  /\ pc = [r \in Runs |-> "unborn"]
  /\ batch = [r \in Runs |-> <<>>]
  /\ job = [r \in Runs |-> NoJob]
  /\ faults = 0

\* A step of a started run.
RunStep(r) ==
  \/ ReconcileStaleRunningJobs(r)
  \/ SaveStarted(r)
  \/ ListMessages(r)
  \/ FilterIncrementalMessages(r)
  \/ GetMessageMetadata(r)
  \/ ClaimForProcessing(r)
  \/ GetMessage(r)
  \/ ImportMessage(r)
  \/ MarkImported(r)
  \/ ReconcileImportedMessage(r)
  \/ MarkReconciled(r)
  \/ MarkFailed(r)
  \/ ListImportedRecords(r)
  \/ DeleteRecords(r)
  \/ CompleteJob(r)
  \/ GetStatistics(r)
  \/ SaveStatistics(r)

Next ==
  \/ \E r \in Runs : Start(r) \/ RunStep(r) \/ Kill(r)
  \/ \E u \in Uidls : Arrive(u)
  \/ \E n \in DOMAIN maildrop : Remove(n)
  \/ Tick

Spec == Init /\ [][Next]_vars
-----------------------------------------------------------------------------
(***************************************************************************)
(* Properties.                                                             *)
(***************************************************************************)
\* The state is well formed.
TypeOK ==
  /\ maildrop \in Seq(Uidls)
  /\ gone \subseteq Uidls
  /\ gmail \in [Uidls -> Nat]
  /\ records \in [Uidls -> Records]
  /\ jobRuns \in [Runs -> JobRuns]
  /\ projection \in [Runs -> JobRuns]
  /\ now \in Ticks
  /\ nextRun \in Nat
  /\ pc \in [Runs -> Steps]
  /\ batch \in [Runs -> Seq(References)]
  /\ job \in [Runs -> Job]
  /\ faults \in Nat

\* uidl-deduplication.md: "two concurrent runs" never import "the same UIDL at
\* the same time".  While a run works on a UIDL the record says so and names
\* that run, whatever another run does.  (Only a cleanup could break it: two that
\* chose the same expired record delete it twice, and the second may delete a
\* claim made in between.  The floor of records keeps what a scan can claim out
\* of their reach, which is ScanRemembered.)
ClaimHeld ==
  \A r \in Runs : pc[r] \in Holding =>
    LET record == records[Current(r).uidl]
    IN /\ record.claimJobId = r
       /\ \/ record.status = "processing"
          \/ record.status = "imported" /\ pc[r] \in {"lookup", "remark", "markFailed"}

\* A UIDL marked imported is in Gmail, unless a message was removed from the
\* maildrop meanwhile: the job then retrieves by number another message than
\* it listed.
ImportedIsDelivered ==
  gone = {} => \A u \in Uidls : records[u].status = "imported" => gmail[u] > 0

\* Overlap alone never duplicates a message in Gmail: each further copy takes
\* something that went wrong.
DuplicatesNeedFaults == \A u \in Uidls : gmail[u] > 0 => gmail[u] - 1 <= faults

\* A record stays in processing for ever only behind a run that did not return:
\* a run that returns has settled all it claimed.
ReturnedRunSettled ==
  \A r \in Runs : pc[r] = "returned" =>
    \A u \in Uidls : ~(records[u].status = "processing" /\ records[u].claimJobId = r)

\* The counts of a finished summary add up, a run that returned has processed
\* all it detected, and no more messages are counted as transferred than Gmail
\* has received.
SummariesTruthful ==
  /\ \A r \in Runs :
       LET c == jobRuns[r].counts
       IN /\ c.processed = c.skipped + c.failed + c.transferred
          /\ c.processed <= c.detected
          /\ pc[r] = "returned" => c.processed = c.detected
  /\ SumFunction([r \in Runs |-> jobRuns[r].counts.transferred]) <= SumFunction(gmail)

\* No run deletes the record of one still in progress.
LiveRunRecorded ==
  \A r \in Runs :
    Live(r) /\ pc[r] \notin {"reconcile", "saveStarted"} => jobRuns[r].status # "absent"

\* The stored statistics know a run that processed something and returned,
\* unless a run that overlapped it overwrote them or something went wrong.
ReturnedRunProjected ==
  \A r \in Runs :
    \/ pc[r] # "returned" \/ jobRuns[r].counts.processed = 0 \/ faults > 0
    \/ projection[r] = jobRuns[r]
    \/ \E q \in Runs \ {r} : job[q].startedAt = job[r].startedAt

\* The messages the incremental scan reaches.
InScan == {maildrop[n] : n \in {m \in DOMAIN maildrop : m + ScanLimit > Len(maildrop)}}

\* The retention floor covers the scan: as long as no message is removed from
\* the maildrop (which brings older ones back into the scan), a message the
\* next run lists and that was imported still has its record, although messages
\* are not always imported in the order of their numbers.  (A scan of n needs a
\* floor of 2n - 1 records, and n more for each run that overlaps; the code
\* scans 25 and accepts no floor below 100.)
ScanRemembered ==
  [][gone' = {} =>
       \A u \in InScan : records[u].status = "imported" => records'[u].status # "absent"]_vars

\* LegacyTransfer keeps what the deduplication by UIDL promises.
Deduplication ==
  INSTANCE UidlClaims
    WITH claim <- [u \in Uidls |-> [status |-> records[u].status, run |-> records[u].claimJobId]]
ClaimsKept == Deduplication!Spec

\* email-transfer-job.spec.ts: the job "uses maxMessagesPerRun as the actual
\* POP3 scan limit on the first run".
FirstRunScansMaxMessages ==
  [][\A r \in Runs :
       /\ pc[r] = "list" /\ pc'[r] \in {"filter", "claim"}
       /\ \A q \in Runs \ {r} : jobRuns[q].status = "absent"
       => Len(job'[r].toRead \o batch'[r]) = Min2(MaxMessagesPerRun, Len(maildrop))]_vars
=============================================================================
