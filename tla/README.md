# POP3/IMAP Remailer: formal models

TLA+ models of the mail transfer job in this repository, checked with TLC, and
theorems about them checked with TLAPS. `PROJECT.json` lists the components,
the runs, the hazards, the theorems, and for each definition the lines of code
it models.

    tlc -config local_single.cfg MCEmailManager.tla     # model checking
    tlapm EmailManagerProofs.tla                        # proofs

## 1. The system

**Local IMAP job** (`src/src/jobs`, the active program). A Windows scheduled
task runs `IMAPRemailer.Jobs --background` at logon. At each cron occurrence
`TransferRuntime` calls `EmailManager.TransferAsync`; a user can run the same
transfer with `--once` or inspect with `--dry-run`. The background process
takes a mutex, the manual commands do not, so runs of several processes can
overlap.

| Component | State | Operations |
|---|---|---|
| `EmailManager` | locals of one run: batch, four counters, status | read the batch; per email: state lookup, Gmail lookup, import, state write, archive; store the counters; store the result |
| `OrangeImapSourceService` | the inbox: UIDVALIDITY, UIDs, folders | read the newest emails; move one to `Transferred to Gmail` |
| `GmailDestinationService` | the Gmail account, a cached OAuth token | search by Message-ID; import |
| `SqliteTransferState` | table `imported_messages` | contains; mark; migrate the legacy JSON state |
| `SqliteJobRunHistory`, `SqliteRunLogProvider` | tables `job_runs`, `job_run_logs` | start (purge + insert), update, complete, delete, append a log entry |
| `TransferRuntime`, `Program` | next occurrence, chosen interval; the mutex | wait, run, go on after a failure |
| `IMAPRemailer.Tray` | sampled mutex, cards of the two windows | refresh each second, start or restart the task, show the runs, delete one, save settings |

**Legacy POP3 job** (`src/src/client/functions/src/jobs/email-transfer` and
its infrastructure; not scheduled any more). It claims each UIDL in Firestore,
imports into Gmail, marks the record, and cleans up old records. **Operations
API** (`functions/src/api`): reads statistics and health checks. **Dashboard**
(`client/web`): a session over Firebase Authentication and one page of data.

How they interact: the runs and the tray share the SQLite file; every log entry
of a run is an insert with a foreign key on its row of `job_runs`, so deleting
that row makes the run's next log entry throw. The tray learns whether the job
lives only from the mutex. Orange, Gmail and the processes themselves can fail
at any call.

What is hard: a crash or a lost reply between import, state write and move;
two processes past the same lookup; a server that renumbers the inbox while a
batch is in memory; rows left `Running`; a history row that disappears under
its run; outdated samples in the tray. In the legacy part: claims of a run that
died, message numbers of a session that is closed, retries of a call that took
effect, retention against the scan, projections that overwrite each other. In
the console: late 403s, two health checks on one document. `PROJECT.json`
`hazards` lists these at their lines.

What makes each part correct:

- transfer: no message leaves the inbox before Gmail holds it; a confirmed id
  names a message Gmail holds; an identified message is imported once by one
  process; a dry run changes nothing; backlogs drain;
- history: runs own their rows, results are final and account for what was
  read, counters do not overstate;
- tray: what a card shows agrees with the row, a live run is shown as such,
  an abandoned one can be deleted;
- legacy job: a UIDL is worked on by one run at a time, an imported one is in
  Gmail, copies take faults, summaries and projections tell what happened, the
  retention never forgets what the scan still reaches;
- mail services: sessions are left, listings are whole, repetitions bounded,
  errors reported as what they are; configuration values are in range and come
  from the source that takes precedence;
- console: data for the owner only, statistics that agree with the runs, a
  session that only a refusal ends.

## 2. The modules

| Module | What it is |
|---|---|
| `TransferPromise` | what the owner of the two mailboxes is promised, without machinery |
| `EmailManager` | `TransferAsync` by several processes with Orange, Gmail and SQLite |
| `MCEmailManager` | instances for TLC |
| `JobRunLifecycle` | the life of the rows of `job_runs`, abstracted from the transfer |
| `TrayHistory` | the tray, on top of `JobRunLifecycle` |
| `MCTrayHistory` | instances for TLC |
| `EmailManagerProofs` | proofs: types, the mailboxes, `TransferPromise`, rows, dry runs, `JobRunLifecycle`, copies |
| `EmailManagerCounts` | proofs: the counters of a run, of the history and of the mailboxes agree |
| `SumFunctionLemmas` | lemmas about sums over finite domains and largest numbers, used by the counting and the statistics proofs |
| `TrayHistoryProofs` | proofs: types, what the cards show |
| `UidlClaims` | what the deduplication by UIDL promises |
| `LegacyTransfer` | `EmailTransferJob.run` by overlapping invocations, with POP3, Gmail and Firestore |
| `LegacyTransferProofs` | proofs: types, the claim protocol, live and settled runs, deliveries |
| `LegacyTransferRuns` | proofs: summaries, projections, `UidlClaims`, retention, copies |
| `Configuration` | the reader of the environment and its local file, as operators |
| `MailServices` | the POP3 and Gmail services command by command, on top of `Configuration` |
| `JobRunStatistics` | the statistics of job runs and the cost levels of the dashboard, as operators |
| `OperationsConsole` | browser session, dashboard, API and health check, on top of `JobRunStatistics` |
| `MailServicesProofs` | proofs: configuration, sessions, reported errors, repetitions, listings |
| `OperationsConsoleProofs` | proofs: the API's answers, the owner's session, the statistics |
| `MCLegacyTransfer`, `MCMailServices`, `MCOperationsConsole` | instances for TLC |

### EmailManager

One action is one awaited operation with the synchronous code and the log
entries up to the next one; `pc[p]` names the operation that process `p`
awaits. `Measured` is the shape that `TransferMetricsHelper` and the logger give
each of them: the effect happens, then the log entry either goes through or
throws; besides, anything may throw before or after its effect. `Throw` goes to
the `finally` block of the email or of the run. Locals are lost when the run
ends or the process is killed (`EndRun`, `Crash`).

- `place[m]` and `uids[v][u]` are the Orange account: where each message is and
  which message each UID names under each UIDVALIDITY, past ones included. A
  source id `imap:<uidvalidity>:<uid>` is the pair `<<v, u>>`.
- `gmail[m]` counts copies. `Held(m)` allows for another message with the same
  Message-ID, because that is what the search by `rfc822msgid:` answers.
- `importedMessages` and `jobRuns` are the tables; `"Absent"` is a missing row,
  `nextRun` the next AUTOINCREMENT id. `LogSucceeds(p)` is the foreign key.
- `Deliver`, `ResetUidValidity` and `DeleteRun` are what others do.
- `MaxDisturbances` bounds everything that goes wrong, in one budget, so that
  TLC explores every combination of failures up to it.

Abstractions: message contents, texts, durations and the connection are left
out. SEARCH and the fetches after it are one step; a message moved in between
makes the fetch throw, which is a disturbance. Retention counts days, so it
does not reach a run in progress (`Cutoffs`). Nobody deletes messages in Gmail
or moves them back by hand. UIDLs of the legacy state are never equal to an
`imap:` id, so the initial `imported_messages` is taken as empty.

### JobRunLifecycle and TrayHistory

`JobRunLifecycle` keeps the status of each row and which row each process works
on. `EmailManager` implements it (checked, and proved), which is what entitles
`TrayHistory` to use it for the jobs. `TrayHistory` adds the mutex (`up`), the
sample of it, `RefreshAsync` in two steps (sample, then rows), and the flyout
and the full window (`Windows`), each a `SummaryForm` with the status its cards
show, its own copy of the sample, and its confirmation. A tick refreshes both
windows that are open, opening a window fills that one, and a deletion refills
only the window it was asked for in: the other keeps its cards until the next
tick. `FailDisplay` is a refresh whose restart of the task or whose reading
fails, `FailAnswer` a deletion that succeeded but for the refill. The tray has
one thread: its other handlers only run in the middle of a refresh while it
waits for `schtasks.exe` (`MessageLoop`); the asynchronous calls of
Microsoft.Data.Sqlite complete synchronously. `Restart` of the task is `Kill`
followed by `StartBackground`.

Where the desktop decides, the model allows more than one desktop shows: each
window may have a confirmation of its own (a message box blocks the windows that
are there when it opens, not one opened from the icon after it), and the
flyout, which hides when it loses the focus, hides in a step of its own, so the
two may be open together for any time.

### UidlClaims and LegacyTransfer

One action of `LegacyTransfer` is one awaited operation of `run()`, as in
`EmailManager`; `pc[r]` names what invocation `r` awaits. `maildrop` is the
sequence of messages of the POP3 account, so a number is a position and shifts
when a message before it is removed (`Remove`); `records`, `jobRuns` and
`projection` are the Firestore documents, `gmail[u]` counts copies. A merge
keeps the fields it does not write, which is why a reclaimed record keeps its
`importedAt` (`ProcessingRecord`). One budget of faults covers a call that
throws before or after its effect, a lost reply of the import, a killed
invocation and a removed message. A tick is an hour: invocations time out after
60 s and runs turn stale after 15 minutes, so no run outlives its tick and a
running record of an earlier tick is always stale. The retries inside one
import are `MaxImportCalls`; `MailServices` follows them one by one.
`ClaimsKept` shows that the records implement `UidlClaims`.

### Configuration and MailServices

`Configuration` reads the numbers that the services use; other texts only
decide whether the configuration is accepted. `Unset`, `Blank`, `Malformed` and
`Text` are the values that the reader tells apart. `MailServices` runs one
operation as a `script` of commands: each succeeds, is garbled or fails, a
failure carrying a socket event or not and naming the login or not, which is
all the code looks at. A listing asks for the smaller of its caller's limit
(`asked`) and the configured one, and for nothing at all when that is 0. cockatiel's `maxAttempts` counts repetitions, so a
command is called once more than that. `session` is what `withClient` knows: a
login that took effect although `connect` failed is left to the server's
timeout. `createClient` of the Gmail service, outside of its `try`, builds API
objects without input or output and does not fail here. Successive operations
share nothing but the configuration; the bodies of messages and the wording of
errors are left out.

### JobRunStatistics and OperationsConsole

`JobRunStatistics` computes what the manager computes from a set of rows, with
`TicksPerDay` ticks to a UTC day; averages are whole numbers where the code
rounds. The sort is stable, so a run's place is the number of runs before it
(`Ahead`): newer ones, and those of its time that come first in the listing. `OperationsConsole` follows each of the two requests of a reload
through the interceptor, the API's authentication, its controller and back; the
Firestore health check takes a step per operation on the one document all
requests share. A health check whose connection is lost goes on alone (`lost`).
Firebase, the token verification and the other three checks are outcomes. The
statistics an answer holds are quantified over (`Inputs`, `Instants`) instead of
carried in the state.

## 3. The runs

| Run | Instance | Shows |
|---|---|---|
| `local_single` | 1 process, 3 emails (two share a Message-ID, one has none), batch 2, 3 runs, 2 disturbances | `AtMostOncePerProcess`, `CountedEmailsMoved`, `NoImportOnceConfirmed` |
| `local_concurrent` | background and manual process, 2 emails (with and without Message-ID), 2 runs, 1 disturbance | `TypeOK`, `StateSound`, `NothingLost`, `StepsJustified`, `CompletedRunAccounts`, `ImportedNeverOverstated`, `RowsAreOwned`, `ResultsAreFinal`, `DryRunChangesNothing`, `ImplementsPromise`, `ImplementsLifecycle` |
| `local_liveness` | 1 process, backlog of 3, batch 1, 4 runs, 1 disturbance, fair | `RunsEnd`, `BacklogDrains` |
| `tray_sampling` | 2 processes, 2 windows, 2 rows, 2 disturbances, fair tray | `TypeOK`, `ResultsShownTruly`, `OnlyDeletionsMislead`, `LiveRunIsShown` |
| `tray_abandoned` | the same with 1 disturbance, everything fair | `AbandonedIsInterrupted` |
| `local_reimport` | 1 email without Message-ID, 2 runs, 1 disturbance | counterexample to `ConfirmedNeverReimported` |
| `tray_delete_live` | 2 rows, nothing goes wrong | counterexample to `LiveRowsSurvive` |
| `legacy_overlap` | 2 UIDLs (one without Message-ID), 2 overlapping runs, 2 hours, 2 faults | `TypeOK`, `ClaimHeld`, `ImportedIsDelivered`, `DuplicatesNeedFaults`, `ReturnedRunSettled`, `SummariesTruthful`, `LiveRunRecorded`, `ReturnedRunProjected`, `ClaimsKept` |
| `legacy_retention` | 4 UIDLs, scan of 2, floor of 3 records, 3 runs one after the other, 1 fault | `ScanRemembered` |
| `legacy_first_run` | 3 UIDLs, scan of 2, limit of 3 | counterexample to `FirstRunScansMaxMessages` |
| `mail_services` | 8 environments, 4 local files, maildrops of 0 to 3 messages, callers' limits 0, 1 and 25 | `SessionsClosed`, `ErrorsTruthful`, `RetriesBounded`, `ListsNewest`, `ConfigurationSound` |
| `console` | owner and stranger, 2 reloads, 1 sign-in or sign-out, fair requests; statistics of all sets of up to 3 runs over 4 days | `AnswersSound`, `StatisticsSound`, `OwnerKept`, `RefusedLeave` |

Bounds. A message is imported twice only if one run stops between import and
state write and a second run follows; two messages sharing an id, and one
without, are all the ways messages relate; a batch smaller than the inbox and a
message still to arrive make runs see different batches. A third run after two
failing ones is in `local_single`, overlapping runs of both kinds of process in
`local_concurrent`; more runs or processes repeat these situations, and the
theorems below hold for all of them. Two emails with one Message-ID are only in
`local_single`; for `StateSound` and `ImplementsPromise` the theorems cover them.
In `tray_*` two rows are an older and a newer run, of one process or of both: a
card depends on its own row and on whether there is a newer one. Two
disturbances are a refresh or refill that fails and a job that is killed. Deadlock is not checked: with `MaxRuns` used up and
nothing to do the bounded system stops.

In `legacy_overlap` two faults are what it takes to lose both an import's reply
and the mark after it, or to kill a run and disturb the one that finds its
claim; a third invocation finds the records in the same states. Its floor of
records is above the number of UIDLs, so nothing is forgotten there; the
cleanup is the matter of `legacy_retention`, whose four messages, scan of two
and floor of three are the smallest numbers for which a record is deleted while
the scan is full. A scan of n needs a floor of 2n - 1, since messages behind
the scan may have been imported after those in it, and n more for each run that
overlaps: 99 for three overlapping runs of the code's scan of 25, where the
configuration accepts no floor below 100. `mail_services` uses the ends of the
configured ranges (0, 1, 10 and 11 retries, a timeout of 1 s and 120 s), a
maildrop below, at and above the limit, and values missing, blank, malformed
and out of range in each source. `console` needs two reloads for two health
checks at once, and one change of user for a late answer.

Fairness. `RunStep` is fair because every call has a timeout (IMAP `TimeoutMs`,
HttpClient, SQLite busy timeout), so it returns or throws. The start of
background runs is fair because the scheduler loop catches every exception and
goes on to the next occurrence. Manual commands, mail delivery, crashes and the
user of the tray are not fair. In the tray the timer ticks every second and
`schtasks.exe` ends; `FairSpec` adds the restart of the task (the tray asks for
it every minute) and that runs end.
`LiveRunIsShown` is checked without the fairness of runs: a run that ended
would satisfy it without the tray doing anything. In `console` only the steps of
requests are fair: every HTTP request is answered or fails, and the browser runs
every callback; users, other tabs and the start of the page are not. The other
legacy runs check safety only and assume none.

Each property has a mutant in `PROJECT.json`: a changed definition, defined
beside the original with a comment that says which mistake it is, under which
the property fails.

### Where documents and code disagree

- `local_reimport`: `README.md` says a message whose move failed is taken up
  "sans réimporter". If the move fails because UIDVALIDITY changed, the source
  id is new in the next run, and a message without Message-ID is imported
  again. `NoImportOnceConfirmed` is the form that holds: while the id stays.
- `tray_delete_live`: `SummaryForm` "deletes the selected completed run", but
  offers deletion for any row that is not the newest or when the mutex was not
  seen. A `--once` run started while the background job is down is shown as
  interrupted; deleting it makes the run fail at its next log entry, after
  which `EmailManager`'s guarantees still hold (`DeleteRun` is one of its
  actions).
- `legacy_first_run`: a test says the job "uses maxMessagesPerRun as the actual
  POP3 scan limit on the first run". The job stores its own record before it
  asks for prior runs, so the branch of the first run is never taken; the test's
  fake repository does not return the record.

Things the models show that no document contradicts: a UIDL claimed by a killed
run stays claimed for good (`ReturnedRunSettled` speaks of runs that return); a
message removed from the maildrop between two sessions makes the job record as
imported a UIDL it never sent (`ImportedIsDelivered` has the condition); a
failed login that carries a socket event is repeated although it is reported as
final (`ErrorsTruthful`); and two dashboards that load together may each report
Firestore as down (`AnswersSound`).

## 4. The theorems

Every theorem holds for all values of the constants under the named
assumptions of its module, which TLC evaluates on every run. `EmailManager`:
the background process is one of finitely many; messages are finitely many, and
each has one Message-ID or none; bounds are natural numbers. `TrayHistory`: the
background process is a process. `LegacyTransfer`: UIDLs are finitely many,
limits are positive. `MailServices`: counts are natural numbers
(`CountsAssumption`), and "nothing" is no operation and no error
(`NothingAssumption`). `OperationsConsole`: owner, strangers and nobody are
different (`UsersAssumption`). `JobRunStatistics`: at least two days are shown
(the code shows 14) and a missing duration is no number (`DaysAssumption`); a
listing is a finite set of job runs with distinct ids, and no more of them start
on a day after `generatedAt` than are shown (`InputsAssumption`), because it is
taken right after it. Each invariant below was checked by TLC before it was
proved, but for `CopiesInv`, whose witnesses TLC cannot enumerate.

Some theorems have a hypothesis on the constants, `ASSUME ... PROVE`. It is what
the code runs with (one instance; a floor of 100 records against a scan of 25)
or, for `AllRetained`, a state of the account: until it has seen more messages
than the floor retains.

### The local transfer

- `TypeCorrect`: one lemma for each action.
- `StateIsSound`, `NothingIsLost`, `EveryStepIsJustified`: neither of the first
  two is inductive. The step that writes a source id only knows what the steps
  before it established, in locals read possibly long ago; the step that moves
  a message only knows the id was written. `StepsJustified` says what each
  operation relies on: the batch still carries ids as issued, under one
  UIDVALIDITY; `"stateWrite"` is reached only with the message held, and
  `"sourceArchive"` only with its id written. `Inv` is the conjunction of the
  three; that the stores only grow (`StoresGrow`: ids stay issued, messages stay
  held, written ids stay) carries the facts about other processes over every
  step.
- `KeepsPromise`: from `Inv`, each step is a step of `TransferPromise` or a
  stutter.
- `RowsAreNotShared`, `StoredResultsAreFinal`: from `HistoryInv`, which adds
  that rows not numbered yet do not exist.
- `DryRunsAreHarmless`: a dry run never reaches an operation that changes
  something, also after failures.
- `KeepsLifecycle`: the rows evolve as in `JobRunLifecycle`; needs that a
  process between runs has no row.
- `AtMostOneCopyPerProcess`: from `BudgetKept`, the copies of a message plus
  the processes about to import it are at most the number of processes. The
  lookup that lets a process import found no copy, so the sum is taken then
  over the processes that are past their lookup.
- `ConfirmedIsNotReimported` (hypothesis: one process): from `UidsSound`, a
  UIDVALIDITY gives a message one UID, and `Unconfirmed`, the id of an email
  that may still be imported is not confirmed. With two processes it fails: the
  other may confirm between lookup and import.
- `CompletedRunsAccount`: from `RunsAccount`, what is left of the batch and
  what is counted add up to what was read, until an exception abandons it.
- `ImportsNeverOverstated`: from `ImportsCovered`, copies can be attributed to
  runs so that every run has as many as it reported, counted or is about to
  count (`Credit`). Rows may be deleted and runs killed, so what a run did is
  written nowhere; that is why the invariant says there is an attribution.
- `CountedAreMoved` (hypothesis: one process): the same with the messages that
  left the inbox (`MovesCovered`), which needs that a batch is still in the
  inbox (`LeftInInbox`). With two, both may count a message that one moved.

The sums are `SumFunction` of the community modules. Its fold is defined by
recursion on finite sets, and induction is out of the prover's reach; the lemmas
of `SumFunctionLemmas` (a changed value changes the sum by the difference,
larger terms have a larger sum) are proved by taking a smallest set that is an
exception, from the theorems on finite sets.

### The tray

- `TrayTypeCorrect`, `ShownResultsAreTrue`: from `TrayInv`. The cards of a
  window are as old as its last refill and the runs go on, so the invariant
  relates each card to what may have become of its row since; it needs that
  rows not numbered yet do not exist (`RowsAreFresh`) and that no two processes
  have one row (`RunsAreOwned`).
- `OffersOnlyAfterDeletion`: from `TrayInv`, for every step. No state invariant
  says when a window offers a live run for deletion, since a deletion in the
  other window may leave it doing so until the next tick. What holds is a
  property of steps: each group of steps either leaves the cards of a window
  (`CardsKept`), fills them with the sample it keeps (`CardsFilled`) or clears
  them (`CardsForgotten`), and the newest row becomes the newest only by a
  deletion, because retention removes the oldest rows first (`OldestFirst`).

### The legacy job

- `LegacyTypeCorrect`: from `TypeInv`, one lemma for each action.
- `ClaimsExclude`: from `ClaimInv`, which adds the shapes of the maildrop, the
  records and the batches to `HoldsClaim` for every run between its claim and
  the end of that message. The key lemma is `OthersKeepTheirs`: a step writes
  the record of a UIDL that can be claimed or that its own run holds, and
  neither is one another run works on, also when the call fails after its
  effect. The cleanup is the exception, because `deleteMany` checks nothing: two
  cleanups that chose the same expired record delete it twice, and the second
  may delete a claim made in between. The theorem is therefore about behaviours
  in which no cleanup is about to delete a record somebody works on
  (`CleanupsForgetNoClaim`). The code relies on the floor of retained records
  to keep expired ones out of the scan's reach (`ScanRemembered`); with a floor
  of 0, four overlapping runs reach the exception in TLC.
- `ClaimsImplemented`: each step is a step of `UidlClaims` or a stutter. Besides
  the condition of `ClaimsExclude` a cleanup must find what it chose imported
  or already gone (`CleanupsKeepClaims`); `AbsentInv` adds that a record that
  does not exist names nobody.
- `OneInstanceKeepsClaims` (hypothesis: `MaxLive = 1`): with the single instance
  the function is deployed with (`maxInstances`, `email-transfer.function.ts`),
  both conditions always hold, by `SerialInv`: what a cleanup chose is untouched
  until it deletes it. Exclusion and refinement then hold without condition.
- `LiveRunsStayRecorded`: from `RecordedInv`; a live run started this hour and
  so did its summary, which is therefore not stale (`HoursOK`).
- `ReturnedRunsSettle`: from `SettledInv`; a record in processing belongs to a
  run that works on its UIDL, or that was killed or is going to be rejected.
- `ImportedReachedGmail`: from `DeliveredInv`; while no message was removed,
  numbers listed earlier still name the same messages, and the message a run
  marks is the one it imported.
- `SummariesTellTheTruth`: from `AccountsInv`: the local counts
  (`LocalAccount`), the stored ones (`SummaryAccount`), and a credit for each
  run, what it counted and the import under way, whose sum is covered by the
  copies.
- `ReturnedRunsProjected`: from `ProjectedInv`; whoever stores statistics after
  a run completed read that run's final summary.
- `ScanStaysRemembered` (hypothesis `WindowCovered`: one instance, a floor of at
  least 2n - 1 records for a scan of n): from `RetentionInv`. While no number
  has changed, messages are dated in the order of their numbers but for less
  than a window (`ScanOrder`): a run carries references of one window only, and
  nothing dated is a window ahead of them. So a candidate of the cleanup, which
  has the whole floor newer than it, is a window or more from the end of the
  maildrop (`WindowRetained`).
- `OneInstanceDuplicatesNeedFaults` (the same hypothesis, while no message is
  removed): from `WindowCopies`. The copies of a message but the first, and one
  more while it may be imported again without a fault (`Reopened`), are at most
  the faults; a message whose record was deleted is behind every later scan
  (`Forgotten`).
- `RetainingAllKeepsClaims` (hypothesis `AllRetained`): no cleanup ever has a
  candidate (`NothingForgotten`), so `ClaimsExclude` and `ClaimsImplemented`
  hold of all behaviours, with any number of runs at once.
- `RetainedDuplicatesNeedFaults` (hypothesis `AllRetained`): from `CopiesInv`.
  With messages removed between two sessions a message can be imported for the
  UIDL of another, so copies are no longer counted by UIDL: the invariant says
  there is an order in which messages arrived (`Arrivals`) and a set of UIDLs
  each message was imported for (`Copies`), all of which arrived close before it,
  one for each message removed (`FewAreNear`). Copies beyond that set took a
  fault that removed nothing. Neither the order nor the sets are in the state,
  which is why the invariant says that they exist.

### The mail services

- `AcceptedConfigurationsAreSound`: by cases on where each number comes from.
- `SessionsAreClosed`: from `PhaseInv`. An operation is in one of six phases
  (`AtGmail`, `AtConnect`, `AtStat`, `AtBody`, `AtQuit`, `AtRest`), each with
  its session and the script left to run; every failure leads to `AtQuit`.
- `CallersAreToldTheTruth`: from `ToldInv`, which bounds the calls of the
  current command by the attempts its policy allows, and adds that nothing
  failed is left over when the parser runs.
- `RetriesAreBounded`: from `RetryInv`; each copy was sent by a call of its own.
- `ListingsAreWhole`: from `ListInv`; the script left is a suffix of the whole
  listing and the numbers listed so far are those whose steps are done
  (`Underway`), for any number of messages, any limit and one or two commands to
  a message.

### The console

- `AnswersAreSound`: from `ConsoleInv`. `SoundRequest` follows a request from
  its token to its answer; `DocumentsSound` says that checks on the document
  at the same time know of each other, and that the document of a check that is
  alone is there until it deletes it.
- `OwnerIsKept`: from `ConsoleInv`, for every step.
- `StatisticsAreSound`: `StatisticsFit`, which no state enters, so that it holds
  of the statistics of any listing. The last 24 hours fall on two days or after
  `generatedAt`; runs of a later day are the first in the listing (`NewestShown`)
  and their messages are summed over the three sets (`DetectedCovered`, from
  `SumsCovered`). The cost levels are inequalities between products, proved from
  the largest values of the daily points (`GreatestOf`, `Scales`).

### Only model-checked

- Liveness (`RunsEnd`, `BacklogDrains`, `LiveRunIsShown`,
  `AbandonedIsInterrupted`, `RefusedLeave`): fairness and ENABLED are out of the
  prover's reach.
- `DuplicatesNeedFaults` and `ScanRemembered` outside their hypotheses: with a
  floor that forgets a message the scan still reaches, both are false. Between
  `AllRetained` and `WindowCovered`, that is for overlapping runs of an account
  that has seen more messages than the floor, neither is proved.

Every invariant and action property of the runs that find no violation is stated by
a theorem.

## 5. Not modelled

- `TransferRuntime`'s waiting loop and interval overrides: sequential code of
  one process over the clock; which runs it starts is in `EmailManager`, the
  mutex in `TrayHistory`.
- The OAuth token cache of the C# Gmail client and the migration of the legacy
  state: the first is inside a call that may fail, the second runs once, before
  any run.
- The POP3, Gmail and Amplitude health checks beyond their outcome, the
  Amplitude tracker (it swallows its failures), routing, CORS, dependency
  wiring and the generated OpenAPI code: no state to interleave.
- The parsing of message bodies and of the diagnostic details of errors, layout
  and texts of the tray and the dashboard: data no property tells apart.
- `RefusedLeave` and `RunsEnd` aside, liveness of the legacy job is not stated:
  the function is killed at its timeout, and what it left is the next hour's.

Next would be `ScanRemembered` for runs that overlap, where `ScanOrder` has to
count a window for each of them, and the liveness of the legacy job once its
schedule is part of the model.
