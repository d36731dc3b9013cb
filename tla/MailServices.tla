----------------------------- MODULE MailServices -----------------------------
(***************************************************************************)
(* The two services the legacy job calls, one operation at a time:         *)
(* NodePop3MailService, every operation of which is a POP3 session of its  *)
(* own, and GoogleGmailMailService.  Both repeat a call that fails under a *)
(* retry policy of the configuration the application starts with.          *)
(*                                                                         *)
(* The servers are external: a command succeeds, answers something that    *)
(* cannot be parsed, or fails; a failure carries a socket event or not,    *)
(* and may name the authentication, as isRetriablePop3Error and            *)
(* isAuthenticationError distinguish them.  A Gmail import may take effect *)
(* although its call fails.                                                *)
(***************************************************************************)
EXTENDS Configuration, Sequences, FiniteSets

CONSTANTS
  Environments,    \* process environments the application may start with
  Files,           \* contents the local environment file may have
  MessageCounts,   \* sizes of the maildrop
  AskedLimits,     \* the limits callers ask a listing for
  Nothing          \* no configuration yet, no operation, no result

\* A caller without a limit gets the configured one, as one that asks for more.
ASSUME CountsAssumption == MessageCounts \subseteq Nat /\ AskedLimits \subseteq Nat

VARIABLES
  config,      \* Nothing, Invalid, or the numbers of the configuration
  origin,      \* the environment and the file it was read from
  op,          \* the operation in progress, or Nothing
  asked,       \* the limit its caller asked for, when it is a listing
  script,      \* the steps the operation still has before it
  session,     \* the POP3 session as withClient knows it: "none", "open" or "quit"
  calls,       \* repetitions of the current command so far
  delay,       \* the pause before the next one
  garbled,     \* a response that cannot be parsed was received
  count,       \* the size of the maildrop, as the last listing was told
  listed,      \* the message numbers listed so far
  copies,      \* how often the message being imported reached Gmail
  lastError,   \* the failure of the last call, or Nothing
  result       \* the result of the last operation, or Nothing

given    == <<config, origin, asked>>
progress == <<script, calls, delay>>
listing  == <<count, listed, garbled>>
vars     == <<given, op, session, progress, listing, copies, lastError, result>>
-----------------------------------------------------------------------------
Pop3Operations  == {"listMessages", "listMessageReferences", "getMessageMetadata", "getMessage"}
GmailOperations == {"findImportedMessage", "importMessage"}

Errors == [event : BOOLEAN, authentication : BOOLEAN]

\* A step of a script: a command of the server or, in "parse" steps, the
\* parsing of the responses received.
Step(command, n) == [command |-> command, number |-> n]

\* Mutant: one message too many.
RecentMessageNumbersPlus(total, limit) ==
  LET first == IF total - limit > 1 THEN total - limit ELSE 1
  IN [i \in 1..(total - first + 1) |-> total + 1 - i]

\* buildRecentMessageNumbers, the highest number first.
RecentMessageNumbers(total, limit) ==
  LET first == IF total - limit + 1 > 1 THEN total - limit + 1 ELSE 1
  IN [i \in 1..(total - first + 1) |-> total + 1 - i]

\* The steps for one message.
StepsFor(operation, n) ==
  CASE operation = "listMessages" ->
         <<Step("UIDL", n), Step("LIST", n), Step("parse", n)>>
    [] operation = "listMessageReferences" ->
         <<Step("UIDL", n), Step("parse", n)>>
    [] operation = "getMessageMetadata" ->
         <<Step("UIDL", n), Step("LIST", n), Step("parse", n)>>
    [] operation = "getMessage" ->
         <<Step("UIDL", n), Step("LIST", n), Step("RETR", n), Step("parse", n)>>

\* A listing asks for the number of messages first.
Listing(operation) == operation \in {"listMessages", "listMessageReferences"}

InitialSteps(operation, n) ==
  CASE operation \in GmailOperations -> <<Step(operation, n)>>
    [] Listing(operation) -> <<Step("connect", n), Step("STAT", n)>>
    [] OTHER -> <<Step("connect", n)>> \o StepsFor(operation, n)

\* requestedLimit: the smaller of the caller's limit and the configured one.
RequestedLimit ==
  IF asked < config.POP3_MAX_MESSAGES_PER_RUN THEN asked ELSE config.POP3_MAX_MESSAGES_PER_RUN

\* The steps of a listing, message after message.
ListingSteps(operation, numbers) ==
  LET width == Len(StepsFor(operation, 1))
  IN [i \in 1..(width * Len(numbers)) |->
        StepsFor(operation, numbers[(i + width - 1) \div width])[((i - 1) % width) + 1]]
-----------------------------------------------------------------------------
(***************************************************************************)
(* The retry policies.                                                     *)
(***************************************************************************)
InGmail == op \in GmailOperations

\* Mutant: as if every repetition doubled the number of those allowed.
MaxAttemptsPlus == IF InGmail THEN config.GMAIL_MAX_IMPORT_RETRIES + 2 ELSE 3

\* buildRetryPolicy.  cockatiel takes maxAttempts for the number of repetitions.
MaxAttempts == IF InGmail THEN config.GMAIL_MAX_IMPORT_RETRIES + 1 ELSE 3
MaxDelay    == IF InGmail THEN config.GMAIL_TIMEOUT_MS ELSE config.POP3_TIMEOUT_MS

\* calculateRetryDelayMs.
RetryDelay(attempt) ==
  LET exponential == 250 * 2 ^ (attempt - 1)
  IN IF exponential < MaxDelay THEN exponential ELSE MaxDelay

\* Gmail failures are all retriable; of POP3 ones, those of the socket.
Retriable(e) == InGmail \/ e.event

Repeated(e) == Retriable(e) /\ calls < MaxAttempts

\* Mutant: the wrapper's own verdict is reported.
ReportWrapped(code, e) == [code |-> code, retriable |-> TRUE]

\* toPop3Error and toDiagnosticTransferError: what the caller is told.
Report(code, e) ==
  [code |-> code, retriable |-> IF InGmail THEN TRUE ELSE e.event /\ ~e.authentication]

Malformation == [event |-> FALSE, authentication |-> FALSE]

\* The code of a failure: of the connection, or of the operation.
ErrorCode(command) ==
  CASE command = "connect"             -> "POP3_CONNECTION_FAILED"
    [] command = "importMessage"       -> "GMAIL_IMPORT_FAILED"
    [] command = "findImportedMessage" -> "GMAIL_LOOKUP_FAILED"
    [] OTHER -> IF op = "getMessage" THEN "POP3_RETR_FAILED" ELSE "POP3_LIST_FAILED"

Success == [code |-> "ok", retriable |-> FALSE]

ASSUME NothingAssumption ==
  Nothing \notin Pop3Operations \cup GmailOperations \cup Errors \cup {Success}
-----------------------------------------------------------------------------
(***************************************************************************)
(* The configuration the application starts with.                          *)
(***************************************************************************)
ReadConfiguration ==
  /\ config = Nothing
  /\ \E process \in Environments, file \in Files :
       /\ config' = Read(process, file)
       /\ origin' = [process |-> process, file |-> file]
  /\ UNCHANGED <<op, asked, session, progress, listing, copies, lastError, result>>
-----------------------------------------------------------------------------
(***************************************************************************)
(* One operation.                                                          *)
(***************************************************************************)
Begin(operation) ==
  /\ config \notin {Nothing, Invalid}
  /\ op = Nothing
  /\ op' = operation
  /\ asked' \in IF Listing(operation) THEN AskedLimits ELSE {0}
  /\ session' = "none"
  /\ script' = InitialSteps(operation, 1)
  /\ calls' = 0 /\ delay' = 0 /\ copies' = 0
  /\ count' = 0 /\ listed' = <<>> /\ garbled' = FALSE
  /\ lastError' = Nothing
  /\ result' = Nothing
  /\ UNCHANGED <<config, origin>>

\* The outcome is known; a session that is open is still to be left.
Settle(outcome) ==
  /\ result' = outcome
  /\ script' = <<>>
  /\ delay' = 0
  /\ op' = IF session = "open" THEN op ELSE Nothing
  /\ UNCHANGED calls

\* On to the next step, with a count of repetitions of its own.
Advance(steps) ==
  IF steps = <<>> THEN Settle(Success)
  ELSE /\ script' = steps
       /\ calls' = 0 /\ delay' = 0
       /\ UNCHANGED <<op, result>>

Command == Head(script).command
Ready   == script # <<>> /\ delay = 0
Calling == Ready /\ Command # "parse" /\ (Command = "STAT" => RequestedLimit # 0)

Succeed ==
  /\ Calling /\ Command # "STAT"
  /\ session' = IF Command = "connect" THEN "open" ELSE session
  /\ copies' = IF Command = "importMessage" THEN copies + 1 ELSE copies
  /\ lastError' = Nothing
  /\ Advance(Tail(script))
  /\ UNCHANGED <<given, listing>>

\* STAT tells how many messages there are, and so what else is asked.
SucceedStat ==
  /\ Calling /\ Command = "STAT"
  /\ count' \in MessageCounts
  /\ lastError' = Nothing
  /\ Advance(ListingSteps(op, RecentMessageNumbers(count', RequestedLimit)))
  /\ UNCHANGED <<given, session, listed, garbled, copies>>

\* A listing that is to list nothing ends without asking the server.
SkipListing ==
  /\ Ready /\ Command = "STAT" /\ RequestedLimit = 0
  /\ Settle(Success)
  /\ UNCHANGED <<given, session, listing, copies, lastError>>

\* A reply that is none.  That of STAT is parsed at once, the others later.
Garble ==
  /\ Calling /\ Command \in {"STAT", "UIDL", "LIST"}
  /\ lastError' = Nothing
  /\ IF Command = "STAT"
     THEN Settle(Report(ErrorCode("STAT"), Malformation)) /\ UNCHANGED garbled
     ELSE Advance(Tail(script)) /\ garbled' = TRUE
  /\ UNCHANGED <<given, session, count, listed, copies>>

\* The parser: it throws at a reply that is none, and the operation fails.
Parse ==
  /\ Ready /\ Command = "parse"
  /\ IF garbled
     THEN Settle(Report(ErrorCode("parse"), Malformation)) /\ UNCHANGED listed
     ELSE Advance(Tail(script)) /\ listed' = Append(listed, Head(script).number)
  /\ UNCHANGED <<given, session, count, garbled, copies, lastError>>

\* executeWithRetry: a failed call is repeated after a pause, or the operation
\* fails.  An import may have reached Gmail all the same.
Fail(e) ==
  /\ Calling
  /\ lastError' = e
  /\ copies' \in IF Command = "importMessage" THEN {copies, copies + 1} ELSE {copies}
  /\ IF Repeated(e)
     THEN /\ calls' = calls + 1
          /\ delay' = RetryDelay(calls + 1)
          /\ UNCHANGED <<op, script, result>>
     ELSE Settle(Report(ErrorCode(Command), e))
  /\ UNCHANGED <<given, session, listing>>

Wait ==
  /\ delay > 0
  /\ delay' = 0
  /\ UNCHANGED <<given, op, session, script, calls, listing, copies, lastError, result>>

Leave == session = "open" /\ op # Nothing /\ script = <<>>

\* Mutant: only a success leaves the session.
QuitAfterSuccess ==
  /\ Leave
  /\ session' = IF result = Success THEN "quit" ELSE session
  /\ op' = Nothing
  /\ UNCHANGED <<given, progress, listing, copies, lastError, result>>

\* The finally block of withClient; QUIT itself may fail, which is ignored.
Quit ==
  /\ Leave
  /\ session' = "quit"
  /\ op' = Nothing
  /\ UNCHANGED <<given, progress, listing, copies, lastError, result>>
-----------------------------------------------------------------------------
Init ==
  /\ config = Nothing /\ origin = Nothing /\ op = Nothing /\ asked = 0
  /\ session = "none" /\ script = <<>> /\ calls = 0 /\ delay = 0
  /\ count = 0 /\ listed = <<>> /\ garbled = FALSE
  /\ copies = 0 /\ lastError = Nothing /\ result = Nothing

OperationStep ==
  \/ Succeed
  \/ SucceedStat
  \/ SkipListing
  \/ Garble
  \/ Parse
  \/ \E e \in Errors : Fail(e)
  \/ Wait
  \/ Quit

Next ==
  \/ ReadConfiguration
  \/ \E operation \in Pop3Operations \cup GmailOperations : Begin(operation)
  \/ OperationStep

Spec == Init /\ [][Next]_vars
-----------------------------------------------------------------------------
(***************************************************************************)
(* Properties                                                              *)
(***************************************************************************)
\* However an operation ends, in whichever of its commands it fails, it leaves
\* no POP3 session behind that it knows to be open: a server keeps the maildrop
\* locked for as long as one is open, and every run of the job opens several.  (A
\* login that took effect although connect failed is left to the server's timeout.)
SessionsClosed == op = Nothing => session # "open"

\* What the job is told of a failure is what happened: it may try again only
\* after a failure of the socket that is not about the login, and only when the
\* policy's own repetitions are exhausted; the connection is blamed exactly when
\* no session was opened.  A failed login that carries a socket event is repeated
\* all the same.
ErrorsTruthful ==
  (result \notin {Nothing, Success} /\ result.code \notin {"GMAIL_IMPORT_FAILED", "GMAIL_LOOKUP_FAILED"}) =>
    /\ result.retriable => lastError # Nothing /\ lastError.event /\ ~lastError.authentication /\ calls = 3
    /\ lastError # Nothing /\ lastError.event => calls = 3
    /\ result.code = "POP3_CONNECTION_FAILED" <=> session = "none"

\* The import is repeated without asking Gmail first, so one message may be there
\* as often as it was sent: never more than GMAIL_MAX_IMPORT_RETRIES + 2 times.
\* No pause between two calls is longer than the timeout.
RetriesBounded ==
  config \notin {Nothing, Invalid} =>
    /\ copies <= config.GMAIL_MAX_IMPORT_RETRIES + 2
    /\ delay <= MaxDelay

\* A listing that succeeds is whole and in order: the newest messages, as many as
\* there are and no more than the caller and the configuration allow, the newest
\* first.  One message whose reply cannot be parsed fails it.
ListsNewest ==
  (result = Success /\ count > 0) =>
    LET bounds == {count, asked, config.POP3_MAX_MESSAGES_PER_RUN}
    IN /\ ~garbled
       /\ Len(listed) \in bounds /\ \A b \in bounds : Len(listed) <= b
       /\ \A i \in 1..Len(listed) : listed[i] = count + 1 - i

\* A configuration that is accepted holds numbers of their ranges, each as the
\* process environment gives it: the local file only fills in what the process
\* leaves unset or blank, and what both leave unset is optional and its default.
ConfigurationSound ==
  config \notin {Nothing, Invalid} =>
    \A n \in Numbers :
      /\ n \in Required => config[n] \in IntegerRange[n]
      /\ n \in Optionals => config[n] \in OptionalRange[n]
      /\ origin.process[n] \notin {Unset, Blank} => config[n] = origin.process[n]
      /\ origin.process[n] \in {Unset, Blank} /\ origin.file[n] # Unset =>
           config[n] = origin.file[n]
      /\ origin.process[n] \in {Unset, Blank} /\ origin.file[n] = Unset =>
           n \in Optionals /\ config[n] = Fallback[n]
=============================================================================
