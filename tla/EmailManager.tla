----------------------------- MODULE EmailManager -----------------------------
(***************************************************************************)
(* The active local job: EmailManager.TransferAsync run by one or several  *)
(* processes (the background job, and the manual --once and --dry-run      *)
(* commands, which do not take the background mutex), with the stores it   *)
(* works on: the Orange inbox, Gmail, and the two SQLite tables            *)
(* imported_messages and job_runs.                                         *)
(*                                                                         *)
(* One action is one awaited operation of TransferAsync together with the  *)
(* synchronous code and the log entries up to the next one.  Every log     *)
(* entry of a run is a row of job_run_logs that references the run's row   *)
(* in job_runs, so logging throws once that row has been deleted; the      *)
(* TIMING entry follows the operation, so the operation has then been      *)
(* done although TransferAsync sees it fail.                               *)
(*                                                                         *)
(* Anything that goes wrong is a disturbance and draws on one budget: an   *)
(* operation that throws before or after it took effect (a lost reply, a   *)
(* timeout, a cancelled token, a full disk), a killed process, a new       *)
(* UIDVALIDITY, a deleted job_runs row.                                    *)
(***************************************************************************)
EXTENDS Integers, Sequences, FiniteSets, Functions

CONSTANTS
  Procs,            \* processes that can run a transfer
  Background,       \* the one started with --background; it never runs dry
  Msgs,             \* the messages of the Orange account
  Backlog,          \* those already in the inbox when the job is installed
  MessageIds,       \* RFC 822 Message-IDs
  NoMessageId,      \* a message without a usable Message-ID
  MessageIdOf,      \* the Message-ID header of each message
  BatchLimits,      \* values MaxMessagesPerRun may take from run to run
  MaxRuns,          \* bound: runs started
  MaxDisturbances   \* bound: things that go wrong

ASSUME ProcsAssumption == Background \in Procs /\ IsFiniteSet(Procs)
ASSUME MessagesAssumption ==
  /\ IsFiniteSet(Msgs)
  /\ Backlog \subseteq Msgs
  /\ NoMessageId \notin MessageIds
  /\ MessageIdOf \in [Msgs -> MessageIds \cup {NoMessageId}]
ASSUME BoundsAssumption ==
  /\ BatchLimits \subseteq Nat \ {0}
  /\ MaxRuns \in Nat
  /\ MaxDisturbances \in Nat

VARIABLES
  place,             \* place[m]: not sent yet, in the inbox, or transferred
  uids,              \* uids[v][u]: the message UID u names under UIDVALIDITY v
  gmail,             \* gmail[m]: copies of m Gmail holds
  importedMessages,  \* table imported_messages: the source ids confirmed
  jobRuns,           \* table job_runs; status "Absent" where there is no row
  nextRun,           \* the next AUTOINCREMENT id of job_runs
  pc,                \* pc[p]: the operation p awaits, "idle" between runs
  run,               \* run[p]: the id of p's row of job_runs
  dryRun,            \* dryRun[p]: whether p only inspects
  todo,              \* todo[p]: the emails of the batch p has not finished
  counts,            \* counts[p]: the four counters of TransferAsync
  found,             \* found[p]: the current email was already present
  failing,           \* failing[p]: an exception is on its way out
  disturbances       \* how many things went wrong so far

stores == <<place, uids, gmail, importedMessages, jobRuns, nextRun>>
locals == <<pc, run, dryRun, todo, counts, found, failing>>
vars   == <<stores, locals, disturbances>>
-----------------------------------------------------------------------------
(***************************************************************************)
(* The values.                                                             *)
(***************************************************************************)
RunIds == 1..MaxRuns

\* A source identifier imap:<uidvalidity>:<uid>, and an email as it was read.
SourceIds == Nat \X Nat
Emails    == [id : SourceIds, msg : Msgs]

Counts == [sourceCount : Nat, imported : Nat, alreadyPresent : Nat, pending : Nat]
Zero   == [sourceCount |-> 0, imported |-> 0, alreadyPresent |-> 0, pending |-> 0]

Rows ==
  [status : {"Absent", "Running", "Completed", "Failed"}, dryRun : BOOLEAN, counts : Counts]
NoRow == [status |-> "Absent", dryRun |-> FALSE, counts |-> Zero]

\* The operations inside the try block of one email: their exceptions pass
\* through its finally block first.
EmailSteps ==
  {"stateLookup", "destinationLookup", "import", "stateWrite", "sourceArchive"}
Steps ==
  EmailSteps \cup {"idle", "read", "updateSource", "updateEmail", "finish", "complete"}

\* Every way to number the messages of S from 1.
Orderings(S) == Injection(1..Cardinality(S), S)
-----------------------------------------------------------------------------
(***************************************************************************)
(* The Orange inbox, as OrangeImapSourceService uses it.                   *)
(***************************************************************************)
UidValidity == Len(uids)

InInbox == {m \in Msgs : place[m] = "inbox"}

InboxEmails ==
  {[id |-> <<UidValidity, u>>, msg |-> uids[UidValidity][u]] :
     u \in {w \in DOMAIN uids[UidValidity] : place[uids[UidValidity][w]] = "inbox"}}

\* Mutant: one message less than the limit.
ReadBatchShort(limit) ==
  {e \in InboxEmails : Cardinality({f \in InboxEmails : f.id[2] > e.id[2]}) < limit - 1}

\* The limit newest messages, newest meaning highest UID.
ReadBatch(limit) ==
  {e \in InboxEmails : Cardinality({f \in InboxEmails : f.id[2] > e.id[2]}) < limit}

\* Mutant: the UIDVALIDITY is not compared.
UidValidityIgnored(id) == FALSE

\* MarkTransferredAsync refuses an id of another UIDVALIDITY.
UidValidityChanged(id) == id[1] # UidValidity

\* A MOVE of a UID the inbox does not hold any more is silently ignored.
MoveToTransferred(id) ==
  /\ place' = [m \in Msgs |->
                 IF /\ id[2] \in DOMAIN uids[UidValidity]
                    /\ uids[UidValidity][id[2]] = m
                    /\ place[m] = "inbox"
                 THEN "transferred" ELSE place[m]]
  /\ UNCHANGED <<uids, gmail, importedMessages, jobRuns, nextRun>>
-----------------------------------------------------------------------------
(***************************************************************************)
(* Gmail, as GmailDestinationService uses it.                              *)
(***************************************************************************)
SameMessageId(m, n) ==
  m = n \/ (MessageIdOf[m] # NoMessageId /\ MessageIdOf[m] = MessageIdOf[n])

\* Gmail holds m or a message with m's Message-ID.
Held(m) == \E n \in Msgs : SameMessageId(m, n) /\ gmail[n] > 0

\* Mutant: an empty search result is taken for a message.
ExistsAlways(messageId) == TRUE

\* The search rfc822msgid:<id> finds a message.
Exists(messageId) == \E n \in Msgs : MessageIdOf[n] = messageId /\ gmail[n] > 0

ImportInto(m) ==
  /\ gmail' = [gmail EXCEPT ![m] = @ + 1]
  /\ UNCHANGED <<place, uids, importedMessages, jobRuns, nextRun>>
-----------------------------------------------------------------------------
(***************************************************************************)
(* SQLite: SqliteTransferState and SqliteJobRunHistory.                    *)
(***************************************************************************)
\* Mutants: the lookup forgets the UIDVALIDITY; it looks for another key.
ContainsUid(id)      == \E other \in importedMessages : other[2] = id[2]
ContainsOtherKey(id) == FALSE

Contains(id) == id \in importedMessages

MarkImported(id) ==
  /\ importedMessages' = importedMessages \cup {id}
  /\ UNCHANGED <<place, uids, gmail, jobRuns, nextRun>>

\* Mutant: the row is replaced instead of updated.
ReplaceRow(p, status) ==
  /\ jobRuns' = [jobRuns EXCEPT ![run[p]] =
                   [status |-> status, dryRun |-> dryRun[p], counts |-> counts[p]]]
  /\ UNCHANGED <<place, uids, gmail, importedMessages, nextRun>>

\* An UPDATE of a row that was deleted changes nothing.
UpdateRow(p, status) ==
  /\ jobRuns' = [jobRuns EXCEPT ![run[p]] =
                   IF @.status = "Absent" THEN @
                   ELSE [status |-> status, dryRun |-> @.dryRun, counts |-> counts[p]]]
  /\ UNCHANGED <<place, uids, gmail, importedMessages, nextRun>>

UpdateRun(p) == UpdateRow(p, jobRuns[run[p]].status)

\* Whether AppendLog can reference the row of p's run.
LogSucceeds(p) == jobRuns[run[p]].status # "Absent"

Live(p) == pc[p] # "idle"

\* Mutant: the retention reaches runs in progress.
CutoffsAnywhere == 0..MaxRuns

\* The retention DELETE: the rows started before a cutoff.  The retention is
\* counted in days (7 by default), so no run in progress is that old.
Cutoffs == {c \in 0..MaxRuns : \A q \in Procs : Live(q) => c < run[q]}
Purged(cutoff) == [i \in RunIds |-> IF i <= cutoff THEN NoRow ELSE jobRuns[i]]
-----------------------------------------------------------------------------
(***************************************************************************)
(* Control flow of TransferAsync.                                          *)
(***************************************************************************)
Disturb ==
  /\ disturbances < MaxDisturbances
  /\ disturbances' = disturbances + 1

\* An exception leaves the operation p awaits.
Throw(p) ==
  /\ pc' = [pc EXCEPT ![p] = IF @ \in EmailSteps THEN "updateEmail" ELSE "complete"]
  /\ failing' = [failing EXCEPT ![p] = TRUE]
  /\ UNCHANGED <<run, dryRun, todo, counts, found>>

\* p awaits an operation and logs its duration: the operation takes effect
\* and control continues unless the log entry has no row to reference, or
\* something throws before or after the effect.
Measured(p, Effect, Continue) ==
  \/ /\ Effect
     /\ IF LogSucceeds(p) THEN Continue ELSE Throw(p)
     /\ UNCHANGED disturbances
  \/ /\ Disturb
     /\ Effect \/ UNCHANGED stores
     /\ Throw(p)

\* Control moves to the next operation and nothing else changes.
Goto(p, step) ==
  /\ pc' = [pc EXCEPT ![p] = step]
  /\ UNCHANGED <<run, dryRun, todo, counts, found, failing>>

\* The email p works on: foreach goes through the batch newest first.
IsCurrent(p, e) == \A f \in todo[p] : f.id[2] <= e.id[2]

\* The email of this iteration is done, and one counter says how.
Outcome(p, counter) ==
  /\ pc' = [pc EXCEPT ![p] = "updateEmail"]
  /\ counts' = [counts EXCEPT ![p][counter] = @ + 1]
  /\ UNCHANGED <<run, dryRun, todo, found, failing>>

\* Mutant: the id is stored before the import.
NotPresentMarks(p) == IF dryRun[p] THEN Outcome(p, "pending") ELSE Goto(p, "stateWrite")

\* Neither the state table nor Gmail knows the email.
NotPresent(p) == IF dryRun[p] THEN Outcome(p, "pending") ELSE Goto(p, "import")

\* Mutant: a dry run goes on with a message it finds.
PresentEvenDry(p, step) ==
  /\ pc' = [pc EXCEPT ![p] = step]
  /\ found' = [found EXCEPT ![p] = TRUE]
  /\ UNCHANGED <<run, dryRun, todo, counts, failing>>

\* The email is already present: a dry run only counts it.
Present(p, step) ==
  IF dryRun[p]
  THEN Outcome(p, "alreadyPresent")
  ELSE /\ pc' = [pc EXCEPT ![p] = step]
       /\ found' = [found EXCEPT ![p] = TRUE]
       /\ UNCHANGED <<run, dryRun, todo, counts, failing>>

\* The loop goes on while emails are left.
LoopStep(rest) == IF rest = {} THEN "finish" ELSE "stateLookup"

\* The run is over, or the process is gone: its local state is lost.
EndRun(p) ==
  /\ pc' = [pc EXCEPT ![p] = "idle"]
  /\ run' = [run EXCEPT ![p] = 0]
  /\ dryRun' = [dryRun EXCEPT ![p] = FALSE]
  /\ todo' = [todo EXCEPT ![p] = {}]
  /\ counts' = [counts EXCEPT ![p] = Zero]
  /\ found' = [found EXCEPT ![p] = FALSE]
  /\ failing' = [failing EXCEPT ![p] = FALSE]
-----------------------------------------------------------------------------
(***************************************************************************)
(* The operations of a run, in the order of the code.                      *)
(***************************************************************************)

\* StartRunAsync purges and inserts in two statements; it and the
\* JOB_RUN_STARTED entry stand before the try block, so a failure there
\* leaves the row "Running".  The entry after them is inside it.
InsertRow(p, dry, cutoff) ==
  /\ jobRuns' = [Purged(cutoff) EXCEPT ![nextRun] =
                   [status |-> "Running", dryRun |-> dry, counts |-> Zero]]
  /\ nextRun' = nextRun + 1
  /\ UNCHANGED <<place, uids, gmail, importedMessages>>

Begin(p, dry, step, fails) ==
  /\ pc' = [pc EXCEPT ![p] = step]
  /\ run' = [run EXCEPT ![p] = nextRun]
  /\ dryRun' = [dryRun EXCEPT ![p] = dry]
  /\ failing' = [failing EXCEPT ![p] = fails]
  /\ UNCHANGED <<todo, counts, found>>

StartRun(p, dry) ==
  /\ pc[p] = "idle"
  /\ dry => p # Background
  /\ nextRun <= MaxRuns
  /\ \E cutoff \in Cutoffs :
       \/ /\ InsertRow(p, dry, cutoff)
          /\ Begin(p, dry, "read", FALSE)
          /\ UNCHANGED disturbances
       \/ /\ Disturb
          /\ jobRuns' = Purged(cutoff)
          /\ UNCHANGED <<place, uids, gmail, importedMessages, nextRun, locals>>
       \/ /\ Disturb
          /\ InsertRow(p, dry, cutoff)
          /\ UNCHANGED locals \/ Begin(p, dry, "complete", TRUE)

ReadSource(p) ==
  /\ pc[p] = "read"
  /\ \E limit \in BatchLimits :
       Measured(p, UNCHANGED stores,
         /\ pc' = [pc EXCEPT ![p] = "updateSource"]
         /\ todo' = [todo EXCEPT ![p] = ReadBatch(limit)]
         /\ counts' = [counts EXCEPT ![p]["sourceCount"] = Cardinality(ReadBatch(limit))]
         /\ UNCHANGED <<run, dryRun, found, failing>>)

UpdateSource(p) ==
  /\ pc[p] = "updateSource"
  /\ Measured(p, UpdateRun(p), Goto(p, LoopStep(todo[p])))

\* Mutant: Gmail is not asked.
StateLookupOnly(p) ==
  /\ pc[p] = "stateLookup"
  /\ \E e \in todo[p] :
       /\ IsCurrent(p, e)
       /\ Measured(p, UNCHANGED stores,
            IF Contains(e.id) THEN Present(p, "sourceArchive") ELSE NotPresent(p))

StateLookup(p) ==
  /\ pc[p] = "stateLookup"
  /\ \E e \in todo[p] :
       /\ IsCurrent(p, e)
       /\ Measured(p, UNCHANGED stores,
            IF Contains(e.id) THEN Present(p, "sourceArchive")
            ELSE IF MessageIdOf[e.msg] # NoMessageId THEN Goto(p, "destinationLookup")
            ELSE NotPresent(p))

DestinationLookup(p) ==
  /\ pc[p] = "destinationLookup"
  /\ \E e \in todo[p] :
       /\ IsCurrent(p, e)
       /\ Measured(p, UNCHANGED stores,
            IF Exists(MessageIdOf[e.msg]) THEN Present(p, "stateWrite")
            ELSE NotPresent(p))

Import(p) ==
  /\ pc[p] = "import"
  /\ \E e \in todo[p] :
       /\ IsCurrent(p, e)
       /\ Measured(p, ImportInto(e.msg), Goto(p, "stateWrite"))

\* Mutant: the email is counted before it is archived.
StateWriteCounts(p) ==
  /\ pc[p] = "stateWrite"
  /\ \E e \in todo[p] :
       /\ IsCurrent(p, e)
       /\ Measured(p, MarkImported(e.id),
            Outcome(p, IF found[p] THEN "alreadyPresent" ELSE "imported"))

StateWrite(p) ==
  /\ pc[p] = "stateWrite"
  /\ \E e \in todo[p] :
       /\ IsCurrent(p, e)
       /\ Measured(p, MarkImported(e.id), Goto(p, "sourceArchive"))

\* Mutant: every archived email counts as imported.
SourceArchiveImported(p) ==
  /\ pc[p] = "sourceArchive"
  /\ \E e \in todo[p] :
       /\ IsCurrent(p, e)
       /\ IF UidValidityChanged(e.id)
          THEN Throw(p) /\ UNCHANGED <<stores, disturbances>>
          ELSE Measured(p, MoveToTransferred(e.id), Outcome(p, "imported"))

SourceArchive(p) ==
  /\ pc[p] = "sourceArchive"
  /\ \E e \in todo[p] :
       /\ IsCurrent(p, e)
       /\ IF UidValidityChanged(e.id)
          THEN Throw(p) /\ UNCHANGED <<stores, disturbances>>
          ELSE Measured(p, MoveToTransferred(e.id),
                 Outcome(p, IF found[p] THEN "alreadyPresent" ELSE "imported"))

\* Mutants: a failed email does not fail the run; it is tried again at once.
UpdateEmailSwallows(p) ==
  /\ pc[p] = "updateEmail"
  /\ \E e \in todo[p] :
       /\ IsCurrent(p, e)
       /\ Measured(p, UpdateRun(p),
            /\ pc' = [pc EXCEPT ![p] = LoopStep(todo[p] \ {e})]
            /\ todo' = [todo EXCEPT ![p] = @ \ {e}]
            /\ found' = [found EXCEPT ![p] = FALSE]
            /\ failing' = [failing EXCEPT ![p] = FALSE]
            /\ UNCHANGED <<run, dryRun, counts>>)
UpdateEmailRetries(p) ==
  /\ pc[p] = "updateEmail"
  /\ \E e \in todo[p] :
       /\ IsCurrent(p, e)
       /\ LET rest == IF failing[p] THEN todo[p] ELSE todo[p] \ {e} IN
          Measured(p, UpdateRun(p),
            /\ pc' = [pc EXCEPT ![p] = LoopStep(rest)]
            /\ todo' = [todo EXCEPT ![p] = rest]
            /\ found' = [found EXCEPT ![p] = FALSE]
            /\ failing' = [failing EXCEPT ![p] = FALSE]
            /\ UNCHANGED <<run, dryRun, counts>>)

\* The finally block of one email.
UpdateEmail(p) ==
  /\ pc[p] = "updateEmail"
  /\ \E e \in todo[p] :
       /\ IsCurrent(p, e)
       /\ Measured(p, UpdateRun(p),
            /\ pc' = [pc EXCEPT ![p] =
                        IF failing[p] THEN "complete" ELSE LoopStep(todo[p] \ {e})]
            /\ todo' = [todo EXCEPT ![p] = @ \ {e}]
            /\ found' = [found EXCEPT ![p] = FALSE]
            /\ UNCHANGED <<run, dryRun, counts, failing>>)

\* The two entries that close the loop; then the status is "Completed".
Finish(p) ==
  /\ pc[p] = "finish"
  /\ Measured(p, UNCHANGED stores, Goto(p, "complete"))

\* Mutant: a failed run is stored under the label the tray uses.
CompleteRunInterrupted(p) ==
  /\ pc[p] = "complete"
  /\ UpdateRow(p, IF failing[p] THEN "Interrupted" ELSE "Completed")
  /\ EndRun(p)
  /\ UNCHANGED disturbances

\* The outer finally block: the result is stored whatever happened before.
CompleteRun(p) ==
  /\ pc[p] = "complete"
  /\ \/ /\ UpdateRow(p, IF failing[p] THEN "Failed" ELSE "Completed")
        /\ UNCHANGED disturbances
     \/ Disturb /\ UNCHANGED stores
  /\ EndRun(p)

\* The process is killed (logoff, task ended, power) between two operations.
Crash(p) ==
  /\ Live(p)
  /\ Disturb
  /\ EndRun(p)
  /\ UNCHANGED stores
-----------------------------------------------------------------------------
(***************************************************************************)
(* What others do to the stores.                                           *)
(***************************************************************************)
Deliver(m) ==
  /\ place[m] = "unsent"
  /\ place' = [place EXCEPT ![m] = "inbox"]
  /\ uids' = [uids EXCEPT ![UidValidity] = Append(@, m)]
  /\ UNCHANGED <<gmail, importedMessages, jobRuns, nextRun, locals, disturbances>>

\* The server renumbers the inbox.
ResetUidValidity ==
  /\ Disturb
  /\ \E s \in Orderings(InInbox) : uids' = Append(uids, s)
  /\ UNCHANGED <<place, gmail, importedMessages, jobRuns, nextRun, locals>>

\* Mutant: without AUTOINCREMENT the last id is given out again.
DeleteRunFreesId(i) ==
  /\ jobRuns[i].status # "Absent"
  /\ Disturb
  /\ jobRuns' = [jobRuns EXCEPT ![i] = NoRow]
  /\ nextRun' = IF i = nextRun - 1 THEN i ELSE nextRun
  /\ UNCHANGED <<place, uids, gmail, importedMessages, locals>>

\* DeleteRunAsync deletes whichever row its caller names.
DeleteRun(i) ==
  /\ jobRuns[i].status # "Absent"
  /\ Disturb
  /\ jobRuns' = [jobRuns EXCEPT ![i] = NoRow]
  /\ UNCHANGED <<place, uids, gmail, importedMessages, nextRun, locals>>
-----------------------------------------------------------------------------
\* The legacy Firebase job may already have imported some of the backlog.
Init ==
  /\ place = [m \in Msgs |-> IF m \in Backlog THEN "inbox" ELSE "unsent"]
  /\ \E s \in Orderings(Backlog) : uids = <<s>>
  /\ \E S \in SUBSET Backlog : gmail = [m \in Msgs |-> IF m \in S THEN 1 ELSE 0]
  /\ importedMessages = {}
  /\ jobRuns = [i \in RunIds |-> NoRow]
  /\ nextRun = 1
  /\ pc = [p \in Procs |-> "idle"]
  /\ run = [p \in Procs |-> 0]
  /\ dryRun = [p \in Procs |-> FALSE]
  /\ todo = [p \in Procs |-> {}]
  /\ counts = [p \in Procs |-> Zero]
  /\ found = [p \in Procs |-> FALSE]
  /\ failing = [p \in Procs |-> FALSE]
  /\ disturbances = 0

\* The steps of a run in progress.
RunStep(p) ==
  \/ ReadSource(p)
  \/ UpdateSource(p)
  \/ StateLookup(p)
  \/ DestinationLookup(p)
  \/ Import(p)
  \/ StateWrite(p)
  \/ SourceArchive(p)
  \/ UpdateEmail(p)
  \/ Finish(p)
  \/ CompleteRun(p)

Next ==
  \/ \E p \in Procs : RunStep(p) \/ Crash(p)
  \/ \E p \in Procs, dry \in BOOLEAN : StartRun(p, dry)
  \/ \E m \in Msgs : Deliver(m)
  \/ ResetUidValidity
  \/ \E i \in RunIds : DeleteRun(i)

Spec == Init /\ [][Next]_vars

\* Every awaited call returns or throws: the IMAP client has TimeoutMs,
\* HttpClient its default timeout, SQLite its busy timeout.  The runtime
\* starts the background run at every cron occurrence.
FairSpec ==
  /\ Spec
  /\ \A p \in Procs : WF_vars(RunStep(p))
  /\ WF_vars(StartRun(Background, FALSE))
-----------------------------------------------------------------------------
(***************************************************************************)
(* Properties.                                                             *)
(***************************************************************************)
StoresOK ==
  /\ place \in [Msgs -> {"unsent", "inbox", "transferred"}]
  /\ uids \in Seq(Seq(Msgs)) /\ uids # <<>>
  /\ gmail \in [Msgs -> Nat]
  /\ importedMessages \subseteq SourceIds
  /\ jobRuns \in [RunIds -> Rows]
  /\ nextRun \in 1..(MaxRuns + 1)

LocalsOK ==
  /\ pc \in [Procs -> Steps]
  /\ run \in [Procs -> 0..MaxRuns]
  /\ dryRun \in [Procs -> BOOLEAN]
  /\ todo \in [Procs -> SUBSET Emails]
  /\ counts \in [Procs -> Counts]
  /\ found \in [Procs -> BOOLEAN]
  /\ failing \in [Procs -> BOOLEAN]

\* The type invariant.
TypeOK == StoresOK /\ LocalsOK /\ disturbances \in 0..MaxDisturbances

\* The message a source id was issued for, under whichever UIDVALIDITY.
IsIssued(id) == id[1] \in DOMAIN uids /\ id[2] \in DOMAIN uids[id[1]]
Named(id)    == uids[id[1]][id[2]]

\* A source id enters imported_messages only after Gmail holds its message,
\* whatever fails, is killed, deleted or renumbered in between.
StateSound == \A id \in importedMessages : IsIssued(id) /\ Held(Named(id))

\* A message leaves the inbox only once Gmail holds it: MarkTransferredAsync
\* never moves a message that was not imported, even after a renumbering.
NothingLost == \A m \in Msgs : place[m] = "transferred" => Held(m)

\* What a run has established when it acts on an email.  The email still
\* carries the source id the server issued for it, under the UIDVALIDITY of
\* its whole batch; the lookup in Gmail has a Message-ID to search for; the
\* source id is written only once Gmail holds the message, and the message
\* is archived only once the source id is written.
BatchSound(p) ==
  \A e \in todo[p] :
    /\ IsIssued(e.id) /\ Named(e.id) = e.msg
    /\ \A f \in todo[p] : f.id[1] = e.id[1]
CurrentSound(p) ==
  \A e \in todo[p] :
    IsCurrent(p, e) =>
      /\ pc[p] = "destinationLookup" => MessageIdOf[e.msg] # NoMessageId
      /\ pc[p] = "stateWrite" => Held(e.msg)
      /\ pc[p] = "sourceArchive" => e.id \in importedMessages
StepsJustified == \A p \in Procs : BatchSound(p) /\ CurrentSound(p)

\* The local job implements the promise made to the mailbox owner.
Promise == INSTANCE TransferPromise WITH held <- {m \in Msgs : Held(m)}
ImplementsPromise == Promise!Spec

\* The lookup by Message-ID lets each process that is past it import once:
\* an identified message has at most one copy per process, so exactly one
\* when a single process runs, however often runs fail and are retried.
AtMostOncePerProcess ==
  \A m \in Msgs : MessageIdOf[m] # NoMessageId => gmail[m] <= Cardinality(Procs)

\* With one process, a message whose current source id is confirmed in
\* imported_messages is not imported again: a failed move is resumed.
NoImportOnceConfirmed ==
  [][\A u \in DOMAIN uids[UidValidity] :
       <<UidValidity, u>> \in importedMessages =>
         gmail'[uids[UidValidity][u]] = gmail[uids[UidValidity][u]]]_vars

\* README.md: a message whose move failed is taken up by the next run
\* "without importing it again".
ConfirmedNeverReimported ==
  [][\A id \in importedMessages : gmail'[Named(id)] = gmail[Named(id)]]_vars

\* A dry run changes neither mailbox nor imported_messages, whatever the
\* lookups answer and whatever fails.
DryRunChangesNothing ==
  [][\A p \in Procs :
       dryRun[p] /\ <<pc[p], todo[p]>> # <<pc[p], todo[p]>>' =>
         UNCHANGED <<place, uids, gmail, importedMessages>>]_vars

\* A run shown as completed accounts for every email it read: each was
\* imported or found present, or, in a dry run only, left pending.
CompletedRunAccounts ==
  \A i \in RunIds :
    LET c == jobRuns[i].counts IN
      jobRuns[i].status = "Completed" =>
        /\ c.sourceCount = c.imported + c.alreadyPresent + c.pending
        /\ IF jobRuns[i].dryRun THEN c.imported = 0 ELSE c.pending = 0

\* The history never reports more imports than Gmail received.
ImportedNeverOverstated ==
  SumFunction([i \in RunIds |-> jobRuns[i].counts.imported]) <= SumFunction(gmail)

\* With one process, every email the history of real runs counts as imported
\* or already present has left the inbox, even in runs that failed.
CountedEmailsMoved ==
  SumFunction([i \in RunIds |->
                 IF jobRuns[i].dryRun THEN 0
                 ELSE jobRuns[i].counts.imported + jobRuns[i].counts.alreadyPresent])
    <= Cardinality({m \in Msgs : place[m] = "transferred"})

\* Runs in progress write to rows of their own, still marked running.
RowsAreOwned ==
  \A p, q \in Procs :
    Live(p) =>
      /\ run[p] \in RunIds /\ run[p] < nextRun
      /\ jobRuns[run[p]].status \in {"Running", "Absent"}
      /\ Live(q) /\ run[p] = run[q] => p = q

\* A result, once stored, is final, and a row that was purged or deleted
\* never comes back, although the process that owned it goes on updating it.
ResultsAreFinal ==
  [][\A i \in RunIds :
       \/ jobRuns[i].status = "Running"
       \/ jobRuns[i].status = "Absent" /\ i >= nextRun
       \/ jobRuns'[i] \in {jobRuns[i], NoRow}]_vars

\* The rows of job_runs live as JobRunLifecycle says, whose runs the tray
\* shows and deletes.
Lifecycle == INSTANCE JobRunLifecycle WITH rows <- [i \in RunIds |-> jobRuns[i].status]
ImplementsLifecycle == Lifecycle!HistorySpec

\* Every run ends: TransferAsync returns or throws after finitely many steps.
RunsEnd == \A p \in Procs : Live(p) ~> ~Live(p)

\* Nothing is starved for good: a backlog larger than the batch is drained
\* as long as there are more runs than messages and mishaps.
BacklogDrains == <>(\A m \in Backlog : place[m] = "transferred")
=============================================================================
