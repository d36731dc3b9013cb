-------------------------- MODULE EmailManagerProofs --------------------------
(***************************************************************************)
(* Type correctness and safety of EmailManager, for every set of           *)
(* processes and messages, every assignment of Message-IDs and every bound.*)
(***************************************************************************)
EXTENDS EmailManager, TLAPS, FiniteSetTheorems, SequenceTheorems

USE ProcsAssumption, MessagesAssumption, BoundsAssumption

(***************************************************************************)
(* Facts about the values.                                                 *)
(***************************************************************************)

\* Numbering messages of the account yields a sequence of messages: what the
\* server holds after it issued new UIDs.
LEMMA OrderingsType ==
  ASSUME NEW S \in SUBSET Msgs, NEW s \in Orderings(S)
  PROVE  s \in Seq(Msgs)
<1>1. IsFiniteSet(S)
  BY FS_Subset
<1>2. Cardinality(S) \in Nat
  BY <1>1, FS_CardinalityType
<1>3. s \in [1..Cardinality(S) -> S]
  BY DEF Orderings, Injection
<1>. QED
  BY <1>2, <1>3

\* The batch is a finite set of emails, so its size is a counter value.
LEMMA ReadBatchType ==
  ASSUME uids \in Seq(Seq(Msgs)), uids # <<>>, NEW limit \in Nat
  PROVE  /\ ReadBatch(limit) \subseteq Emails
         /\ IsFiniteSet(ReadBatch(limit))
         /\ Cardinality(ReadBatch(limit)) \in Nat
<1> DEFINE U == {w \in DOMAIN uids[UidValidity] : place[uids[UidValidity][w]] = "inbox"}
           email(u) == [id |-> <<UidValidity, u>>, msg |-> uids[UidValidity][u]]
<1>1. UidValidity \in Nat /\ UidValidity \in DOMAIN uids
  BY DEF UidValidity
<1>2. uids[UidValidity] \in Seq(Msgs)
  BY <1>1
<1>3. DOMAIN uids[UidValidity] = 1..Len(uids[UidValidity]) /\ Len(uids[UidValidity]) \in Nat
  BY <1>2
<1>4. IsFiniteSet(U)
  <2>1. U \in SUBSET Nat /\ \A w \in U : w <= Len(uids[UidValidity])
    BY <1>3
  <2>. HIDE DEF U
  <2>. QED
    BY <1>3, <2>1, FS_BoundedSetOfNaturals
<1>5. InboxEmails = {email(u) : u \in U}
  BY DEF InboxEmails
<1>6. [u \in U |-> email(u)] \in Surjection(U, InboxEmails)
  <2>. HIDE DEF U, email
  <2>. QED
    BY <1>5 DEF Surjection
<1>7. IsFiniteSet(InboxEmails)
  <2>. HIDE DEF U, email
  <2>. QED
    BY <1>4, <1>6, FS_Surjection
<1>8. InboxEmails \subseteq Emails
  BY <1>1, <1>2, <1>3 DEF InboxEmails, Emails, SourceIds
<1>9. ReadBatch(limit) \subseteq InboxEmails
  BY DEF ReadBatch
<1>10. IsFiniteSet(ReadBatch(limit))
  BY <1>7, <1>9, FS_Subset
<1>. QED
  BY <1>8, <1>9, <1>10, FS_CardinalityType

-----------------------------------------------------------------------------
(***************************************************************************)
(* Type correctness, first of the parts the actions are built from.        *)
(***************************************************************************)

\* The zero counters are counters.
LEMMA ZeroType == Zero \in Counts /\ NoRow \in Rows
BY DEF Zero, Counts, NoRow, Rows

\* An exception on its way out leaves well-typed locals.
LEMMA ThrowType ==
  ASSUME LocalsOK, NEW p \in Procs, Throw(p)
  PROVE  LocalsOK'
BY DEF LocalsOK, Throw, Steps, EmailSteps

\* So does every way control can continue.
LEMMA GotoType ==
  ASSUME LocalsOK, NEW p \in Procs, NEW step \in Steps, Goto(p, step)
  PROVE  LocalsOK'
BY DEF LocalsOK, Goto

LEMMA OutcomeType ==
  ASSUME LocalsOK, NEW p \in Procs,
         NEW counter \in {"imported", "alreadyPresent", "pending"},
         Outcome(p, counter)
  PROVE  LocalsOK'
<1>1. [counts[p] EXCEPT ![counter] = @ + 1] \in Counts
  BY DEF LocalsOK, Counts
<1>2. counts' \in [Procs -> Counts]
  BY <1>1 DEF LocalsOK, Outcome
<1>. QED
  BY <1>2 DEF LocalsOK, Outcome, Steps, EmailSteps

LEMMA NotPresentType ==
  ASSUME LocalsOK, NEW p \in Procs, NotPresent(p)
  PROVE  LocalsOK'
BY OutcomeType, GotoType DEF NotPresent, Steps, EmailSteps

LEMMA PresentType ==
  ASSUME LocalsOK, NEW p \in Procs, NEW step \in Steps, Present(p, step)
  PROVE  LocalsOK'
<1>1. CASE dryRun[p]
  BY <1>1, OutcomeType DEF Present
<1>2. CASE ~dryRun[p]
  BY <1>2 DEF Present, LocalsOK
<1>. QED
  BY <1>1, <1>2

LEMMA EndRunType ==
  ASSUME LocalsOK, NEW p \in Procs, EndRun(p)
  PROVE  LocalsOK'
BY ZeroType DEF LocalsOK, EndRun, Steps

\* The stores stay well typed under every statement sent to them.
LEMMA UpdateRowType ==
  ASSUME StoresOK, LocalsOK, NEW p \in Procs,
         NEW status \in {"Absent", "Running", "Completed", "Failed"},
         UpdateRow(p, status)
  PROVE  StoresOK'
<1>1. \A row \in Rows : [status |-> status, dryRun |-> row.dryRun, counts |-> counts[p]] \in Rows
  BY DEF LocalsOK, Rows
<1>. QED
  BY <1>1 DEF StoresOK, UpdateRow

LEMMA UpdateRunType ==
  ASSUME StoresOK, LocalsOK, NEW p \in Procs, UpdateRun(p)
  PROVE  StoresOK'
<1>1. CASE run[p] \in RunIds
  <2>1. jobRuns[run[p]].status \in {"Absent", "Running", "Completed", "Failed"}
    BY <1>1 DEF StoresOK, Rows
  <2>. QED
    BY <2>1, UpdateRowType DEF UpdateRun
<1>2. CASE run[p] \notin RunIds
  BY <1>2 DEF StoresOK, UpdateRun, UpdateRow
<1>. QED
  BY <1>1, <1>2

LEMMA ImportIntoType ==
  ASSUME StoresOK, NEW m \in Msgs, ImportInto(m)
  PROVE  StoresOK'
BY DEF StoresOK, ImportInto

LEMMA MarkImportedType ==
  ASSUME StoresOK, NEW id \in SourceIds, MarkImported(id)
  PROVE  StoresOK'
BY DEF StoresOK, MarkImported

LEMMA MoveToTransferredType ==
  ASSUME StoresOK, NEW id \in SourceIds, MoveToTransferred(id)
  PROVE  StoresOK'
BY DEF StoresOK, MoveToTransferred

LEMMA PurgedType ==
  ASSUME StoresOK, NEW cutoff
  PROVE  Purged(cutoff) \in [RunIds -> Rows]
BY ZeroType DEF StoresOK, Purged

LEMMA InsertRowType ==
  ASSUME StoresOK, NEW p, NEW dry \in BOOLEAN, NEW cutoff, nextRun <= MaxRuns,
         InsertRow(p, dry, cutoff)
  PROVE  StoresOK'
<1>1. [status |-> "Running", dryRun |-> dry, counts |-> Zero] \in Rows
  BY ZeroType DEF Rows
<1>. QED
  BY <1>1, PurgedType DEF StoresOK, InsertRow, RunIds

\* A budget bounds everything that goes wrong.
LEMMA DisturbType ==
  ASSUME disturbances \in 0..MaxDisturbances, Disturb
  PROVE  disturbances' \in 0..MaxDisturbances
BY DEF Disturb

-----------------------------------------------------------------------------
(***************************************************************************)
(* Type correctness of every action.                                       *)
(***************************************************************************)

LEMMA InitType == Init => TypeOK
<1>. SUFFICES ASSUME Init PROVE TypeOK
  OBVIOUS
<1>1. PICK s \in Orderings(Backlog) : uids = <<s>>
  BY DEF Init
<1>2. s \in Seq(Msgs)
  BY OrderingsType
<1>3. uids \in Seq(Seq(Msgs)) /\ uids # <<>>
  BY <1>1, <1>2
<1>4. PICK S \in SUBSET Backlog : gmail = [m \in Msgs |-> IF m \in S THEN 1 ELSE 0]
  BY DEF Init
<1>5. gmail \in [Msgs -> Nat]
  BY <1>4
<1>6. StoresOK
  BY <1>3, <1>5, ZeroType DEF Init, StoresOK, RunIds
<1>7. LocalsOK
  BY ZeroType DEF Init, LocalsOK, Steps
<1>. QED
  BY <1>6, <1>7 DEF Init, TypeOK

LEMMA StartRunType ==
  ASSUME TypeOK, NEW p \in Procs, NEW dry \in BOOLEAN, StartRun(p, dry)
  PROVE  TypeOK'
<1>1. PICK cutoff \in Cutoffs :
        \/ /\ InsertRow(p, dry, cutoff)
           /\ Begin(p, dry, "read", FALSE)
           /\ UNCHANGED disturbances
        \/ /\ Disturb
           /\ jobRuns' = Purged(cutoff)
           /\ UNCHANGED <<place, uids, gmail, importedMessages, nextRun, locals>>
        \/ /\ Disturb
           /\ InsertRow(p, dry, cutoff)
           /\ UNCHANGED locals \/ Begin(p, dry, "complete", TRUE)
  BY Zenon DEF StartRun
<1>2. nextRun \in 0..MaxRuns
  BY DEF StartRun, TypeOK, StoresOK
<1>3. ASSUME NEW step \in Steps, NEW fails \in BOOLEAN, Begin(p, dry, step, fails)
      PROVE  LocalsOK'
  BY <1>2, <1>3 DEF TypeOK, LocalsOK, Begin
<1>4. CASE /\ InsertRow(p, dry, cutoff)
           /\ Begin(p, dry, "read", FALSE)
           /\ UNCHANGED disturbances
  <2>1. StoresOK'
    BY <1>2, <1>4, InsertRowType DEF TypeOK
  <2>2. LocalsOK'
    BY <1>3, <1>4 DEF Steps
  <2>. QED
    BY <1>4, <2>1, <2>2 DEF TypeOK
<1>5. CASE /\ Disturb
           /\ jobRuns' = Purged(cutoff)
           /\ UNCHANGED <<place, uids, gmail, importedMessages, nextRun, locals>>
  BY <1>5, PurgedType, DisturbType DEF TypeOK, StoresOK, LocalsOK, locals
<1>6. CASE /\ Disturb
           /\ InsertRow(p, dry, cutoff)
           /\ UNCHANGED locals \/ Begin(p, dry, "complete", TRUE)
  <2>1. StoresOK' /\ disturbances' \in 0..MaxDisturbances
    BY <1>2, <1>6, InsertRowType, DisturbType DEF TypeOK
  <2>2. LocalsOK'
    BY <1>3, <1>6 DEF TypeOK, LocalsOK, locals, Steps
  <2>. QED
    BY <2>1, <2>2 DEF TypeOK
<1>. QED
  BY <1>1, <1>4, <1>5, <1>6

LEMMA ReadSourceType ==
  ASSUME TypeOK, NEW p \in Procs, ReadSource(p)
  PROVE  TypeOK'
<1>1. StoresOK' /\ disturbances' \in 0..MaxDisturbances
  BY DisturbType DEF ReadSource, Measured, TypeOK, StoresOK, stores
<1>2. LocalsOK'
  <2>1. PICK limit \in BatchLimits :
          \/ Throw(p)
          \/ /\ pc' = [pc EXCEPT ![p] = "updateSource"]
             /\ todo' = [todo EXCEPT ![p] = ReadBatch(limit)]
             /\ counts' = [counts EXCEPT ![p]["sourceCount"] = Cardinality(ReadBatch(limit))]
             /\ UNCHANGED <<run, dryRun, found, failing>>
    BY DEF ReadSource, Measured
  <2>2. ReadBatch(limit) \subseteq Emails /\ Cardinality(ReadBatch(limit)) \in Nat
    BY ReadBatchType DEF TypeOK, StoresOK
  <2>3. CASE Throw(p)
    BY <2>3, ThrowType DEF TypeOK
  <2>4. CASE ~Throw(p)
    <3>1. [counts[p] EXCEPT !["sourceCount"] = Cardinality(ReadBatch(limit))] \in Counts
      BY <2>2 DEF TypeOK, LocalsOK, Counts
    <3>2. counts' \in [Procs -> Counts]
      BY <2>1, <2>4, <3>1 DEF TypeOK, LocalsOK
    <3>. QED
      BY <2>1, <2>2, <2>4, <3>2 DEF TypeOK, LocalsOK, Steps
  <2>. QED
    BY <2>3, <2>4
<1>. QED
  BY <1>1, <1>2 DEF TypeOK

LEMMA UpdateSourceType ==
  ASSUME TypeOK, NEW p \in Procs, UpdateSource(p)
  PROVE  TypeOK'
<1>1. StoresOK' /\ disturbances' \in 0..MaxDisturbances
  BY DisturbType, UpdateRunType DEF UpdateSource, Measured, TypeOK, StoresOK, stores
<1>2. LocalsOK'
  BY ThrowType, GotoType DEF UpdateSource, Measured, TypeOK, LoopStep, Steps, EmailSteps
<1>. QED
  BY <1>1, <1>2 DEF TypeOK

LEMMA StateLookupType ==
  ASSUME TypeOK, NEW p \in Procs, StateLookup(p)
  PROVE  TypeOK'
<1>1. StoresOK' /\ disturbances' \in 0..MaxDisturbances
  BY DisturbType DEF StateLookup, Measured, TypeOK, StoresOK, stores
<1>2. LocalsOK'
  BY ThrowType, GotoType, PresentType, NotPresentType
     DEF StateLookup, Measured, TypeOK, Steps, EmailSteps
<1>. QED
  BY <1>1, <1>2 DEF TypeOK

LEMMA DestinationLookupType ==
  ASSUME TypeOK, NEW p \in Procs, DestinationLookup(p)
  PROVE  TypeOK'
<1>1. StoresOK' /\ disturbances' \in 0..MaxDisturbances
  BY DisturbType DEF DestinationLookup, Measured, TypeOK, StoresOK, stores
<1>2. LocalsOK'
  BY ThrowType, PresentType, NotPresentType
     DEF DestinationLookup, Measured, TypeOK, Steps, EmailSteps
<1>. QED
  BY <1>1, <1>2 DEF TypeOK

LEMMA ImportType ==
  ASSUME TypeOK, NEW p \in Procs, Import(p)
  PROVE  TypeOK'
<1>1. StoresOK'
  <2>1. PICK e \in todo[p] : ImportInto(e.msg) \/ UNCHANGED stores
    BY DEF Import, Measured
  <2>2. e.msg \in Msgs
    BY DEF TypeOK, LocalsOK, Emails
  <2>. QED
    BY <2>1, <2>2, ImportIntoType DEF TypeOK, StoresOK, stores
<1>2. LocalsOK' /\ disturbances' \in 0..MaxDisturbances
  BY ThrowType, GotoType, DisturbType DEF Import, Measured, TypeOK, Steps, EmailSteps
<1>. QED
  BY <1>1, <1>2 DEF TypeOK

LEMMA StateWriteType ==
  ASSUME TypeOK, NEW p \in Procs, StateWrite(p)
  PROVE  TypeOK'
<1>1. StoresOK'
  <2>1. PICK e \in todo[p] : MarkImported(e.id) \/ UNCHANGED stores
    BY DEF StateWrite, Measured
  <2>2. e.id \in SourceIds
    BY DEF TypeOK, LocalsOK, Emails
  <2>. QED
    BY <2>1, <2>2, MarkImportedType DEF TypeOK, StoresOK, stores
<1>2. LocalsOK' /\ disturbances' \in 0..MaxDisturbances
  BY ThrowType, GotoType, DisturbType DEF StateWrite, Measured, TypeOK, Steps, EmailSteps
<1>. QED
  BY <1>1, <1>2 DEF TypeOK

LEMMA SourceArchiveType ==
  ASSUME TypeOK, NEW p \in Procs, SourceArchive(p)
  PROVE  TypeOK'
<1>1. StoresOK' /\ disturbances' \in 0..MaxDisturbances
  <2>1. PICK e \in todo[p] :
          /\ MoveToTransferred(e.id) \/ UNCHANGED stores
          /\ UNCHANGED disturbances \/ Disturb
    BY DEF SourceArchive, Measured
  <2>2. e.id \in SourceIds
    BY DEF TypeOK, LocalsOK, Emails
  <2>3. StoresOK'
    BY <2>1, <2>2, MoveToTransferredType DEF TypeOK, StoresOK, stores
  <2>. QED
    BY <2>1, <2>3, DisturbType DEF TypeOK
<1>2. LocalsOK'
  BY ThrowType, OutcomeType DEF SourceArchive, Measured, TypeOK
<1>. QED
  BY <1>1, <1>2 DEF TypeOK

LEMMA UpdateEmailType ==
  ASSUME TypeOK, NEW p \in Procs, UpdateEmail(p)
  PROVE  TypeOK'
<1>1. StoresOK' /\ disturbances' \in 0..MaxDisturbances
  BY DisturbType, UpdateRunType DEF UpdateEmail, Measured, TypeOK, StoresOK, stores
<1>2. LocalsOK'
  <2>1. CASE Throw(p)
    BY <2>1, ThrowType DEF TypeOK
  <2>2. CASE ~Throw(p)
    <3>1. PICK e \in todo[p] :
            /\ pc' = [pc EXCEPT ![p] =
                        IF failing[p] THEN "complete" ELSE LoopStep(todo[p] \ {e})]
            /\ todo' = [todo EXCEPT ![p] = @ \ {e}]
            /\ found' = [found EXCEPT ![p] = FALSE]
            /\ UNCHANGED <<run, dryRun, counts, failing>>
      BY <2>2 DEF UpdateEmail, Measured
    <3>. QED
      BY <3>1 DEF TypeOK, LocalsOK, LoopStep, Steps, EmailSteps
  <2>. QED
    BY <2>1, <2>2
<1>. QED
  BY <1>1, <1>2 DEF TypeOK

LEMMA FinishType ==
  ASSUME TypeOK, NEW p \in Procs, Finish(p)
  PROVE  TypeOK'
<1>1. StoresOK' /\ disturbances' \in 0..MaxDisturbances
  BY DisturbType DEF Finish, Measured, TypeOK, StoresOK, stores
<1>2. LocalsOK'
  BY ThrowType, GotoType DEF Finish, Measured, TypeOK, Steps
<1>. QED
  BY <1>1, <1>2 DEF TypeOK

LEMMA CompleteRunType ==
  ASSUME TypeOK, NEW p \in Procs, CompleteRun(p)
  PROVE  TypeOK'
<1>1. StoresOK' /\ disturbances' \in 0..MaxDisturbances
  BY UpdateRowType, DisturbType DEF CompleteRun, TypeOK, StoresOK, stores
<1>2. LocalsOK'
  BY EndRunType DEF CompleteRun, TypeOK
<1>. QED
  BY <1>1, <1>2 DEF TypeOK

LEMMA CrashType ==
  ASSUME TypeOK, NEW p \in Procs, Crash(p)
  PROVE  TypeOK'
BY EndRunType, DisturbType DEF Crash, TypeOK, StoresOK, stores

LEMMA DeliverType ==
  ASSUME TypeOK, NEW m \in Msgs, Deliver(m)
  PROVE  TypeOK'
<1>1. Append(uids[UidValidity], m) \in Seq(Msgs)
  BY DEF TypeOK, StoresOK, UidValidity
<1>2. uids' \in Seq(Seq(Msgs)) /\ uids' # <<>>
  BY <1>1, ExceptSeq DEF Deliver, TypeOK, StoresOK, UidValidity
<1>. QED
  BY <1>2 DEF Deliver, TypeOK, StoresOK, LocalsOK, locals

LEMMA ResetUidValidityType ==
  ASSUME TypeOK, ResetUidValidity
  PROVE  TypeOK'
<1>1. PICK s \in Orderings(InInbox) : uids' = Append(uids, s)
  BY DEF ResetUidValidity
<1>2. s \in Seq(Msgs)
  BY OrderingsType DEF InInbox
<1>3. uids' \in Seq(Seq(Msgs)) /\ uids' # <<>>
  BY <1>1, <1>2, AppendProperties DEF TypeOK, StoresOK
<1>. QED
  BY <1>3, DisturbType DEF ResetUidValidity, TypeOK, StoresOK, LocalsOK, locals

LEMMA DeleteRunType ==
  ASSUME TypeOK, NEW i \in RunIds, DeleteRun(i)
  PROVE  TypeOK'
BY ZeroType, DisturbType DEF DeleteRun, TypeOK, StoresOK, LocalsOK, locals

\* Every variable keeps its type: no operation, failure, crash, renumbering
\* or deletion takes the job or its stores out of the states it describes.
THEOREM TypeCorrect == Spec => []TypeOK
<1>1. TypeOK /\ [Next]_vars => TypeOK'
  <2>. SUFFICES ASSUME TypeOK, [Next]_vars PROVE TypeOK'
    OBVIOUS
  <2>1. ASSUME NEW p \in Procs, RunStep(p) PROVE TypeOK'
    BY <2>1, ReadSourceType, UpdateSourceType, StateLookupType,
       DestinationLookupType, ImportType, StateWriteType, SourceArchiveType,
       UpdateEmailType, FinishType, CompleteRunType DEF RunStep
  <2>2. CASE UNCHANGED vars
    BY <2>2 DEF TypeOK, StoresOK, LocalsOK, vars, stores, locals
  <2>. QED
    BY <2>1, <2>2, CrashType, StartRunType, DeliverType,
       ResetUidValidityType, DeleteRunType DEF Next
<1>. QED
  BY InitType, <1>1, PTL DEF Spec
-----------------------------------------------------------------------------
(***************************************************************************)
(* No message is lost: the safety theorems of EmailManager.                *)
(*                                                                         *)
(* StateSound and NothingLost are not inductive: that the write to         *)
(* imported_messages follows the import of the same message, and the move  *)
(* follows the write of the same id, depends on where each process stands  *)
(* and on which email it works on.  StepsJustified records that; with it   *)
(* the conjunction Inv is preserved by every step.  With Inv, EmailManager *)
(* implements TransferPromise: every step of the job, of the mail server   *)
(* and of the tray is an arrival, a message coming to be held by Gmail, a  *)
(* transfer of a held message, or invisible to the owner of the mailboxes. *)
(***************************************************************************)
Inv == StateSound /\ NothingLost /\ StepsJustified

\* What no step undoes: ids stay issued for the same message, Gmail keeps
\* what it holds, imported_messages only grows.
StoresGrow ==
  /\ \A id \in SourceIds : IsIssued(id) => IsIssued(id)' /\ Named(id)' = Named(id)
  /\ \A m \in Msgs : Held(m) => Held(m)'
  /\ importedMessages \subseteq importedMessages'

-----------------------------------------------------------------------------
(***************************************************************************)
(* The stores only grow.                                                   *)
(***************************************************************************)

LEMMA QuietStoresGrow ==
  ASSUME UNCHANGED <<uids, gmail>>, importedMessages \subseteq importedMessages'
  PROVE  StoresGrow
BY DEF StoresGrow, IsIssued, Named, Held

LEMMA ImportGrows ==
  ASSUME TypeOK, NEW m \in Msgs, ImportInto(m)
  PROVE  StoresGrow /\ Held(m)'
<1>1. \A n \in Msgs : gmail[n] > 0 => gmail'[n] > 0
  BY DEF ImportInto, TypeOK, StoresOK
<1>2. gmail'[m] > 0
  BY DEF ImportInto, TypeOK, StoresOK
<1>. QED
  BY <1>1, <1>2 DEF StoresGrow, IsIssued, Named, Held, SameMessageId, ImportInto

LEMMA DeliverGrows ==
  ASSUME TypeOK, NEW m \in Msgs, Deliver(m)
  PROVE  StoresGrow
<1>1. /\ UidValidity \in 1..Len(uids)
      /\ uids[UidValidity] \in Seq(Msgs)
  BY DEF TypeOK, StoresOK, UidValidity
<1>2. /\ Append(uids[UidValidity], m) \in Seq(Msgs)
      /\ Len(Append(uids[UidValidity], m)) = Len(uids[UidValidity]) + 1
      /\ \A u \in 1..Len(uids[UidValidity]) :
           Append(uids[UidValidity], m)[u] = uids[UidValidity][u]
  BY <1>1, AppendProperties
<1>3. ASSUME NEW id \in SourceIds, IsIssued(id)
      PROVE  IsIssued(id)' /\ Named(id)' = Named(id)
  <2>1. uids' = [uids EXCEPT ![UidValidity] = Append(uids[UidValidity], m)]
    BY DEF Deliver
  <2>2. DOMAIN uids' = DOMAIN uids
    BY <2>1
  <2>3. CASE id[1] = UidValidity
    BY <1>1, <1>2, <1>3, <2>1, <2>2, <2>3 DEF IsIssued, Named, TypeOK, StoresOK
  <2>4. CASE id[1] # UidValidity
    BY <1>3, <2>1, <2>2, <2>4 DEF IsIssued, Named
  <2>. QED
    BY <2>3, <2>4
<1>. QED
  BY <1>3 DEF StoresGrow, Deliver, Held

LEMMA ResetGrows ==
  ASSUME TypeOK, ResetUidValidity
  PROVE  StoresGrow
<1>1. PICK s \in Orderings(InInbox) : uids' = Append(uids, s)
  BY DEF ResetUidValidity
<1>2. s \in Seq(Msgs)
  BY OrderingsType DEF InInbox
<1>3. /\ uids' \in Seq(Seq(Msgs))
      /\ Len(uids') = Len(uids) + 1
      /\ \A v \in 1..Len(uids) : uids'[v] = uids[v]
  BY <1>1, <1>2, AppendProperties DEF TypeOK, StoresOK
<1>4. ASSUME NEW id \in SourceIds, IsIssued(id)
      PROVE  IsIssued(id)' /\ Named(id)' = Named(id)
  <2>1. id[1] \in 1..Len(uids)
    BY <1>4 DEF IsIssued, TypeOK, StoresOK
  <2>2. uids'[id[1]] = uids[id[1]]
    BY <1>3, <2>1
  <2>3. id[1] \in DOMAIN uids'
    <3>1. DOMAIN uids' = 1..Len(uids') /\ Len(uids) \in Nat
      BY <1>3, LenProperties DEF TypeOK, StoresOK
    <3>. QED
      BY <1>3, <2>1, <3>1
  <2>. QED
    BY <1>4, <2>2, <2>3 DEF IsIssued, Named
<1>. QED
  BY <1>4 DEF StoresGrow, ResetUidValidity, Held

-----------------------------------------------------------------------------
(***************************************************************************)
(* What growing stores preserve.                                           *)
(***************************************************************************)

LEMMA StateSoundStable ==
  ASSUME TypeOK, StateSound, StoresGrow, UNCHANGED importedMessages
  PROVE  StateSound'
<1>1. ASSUME NEW id \in importedMessages
      PROVE  IsIssued(id)' /\ Held(Named(id))'
  <2>1. id \in SourceIds /\ IsIssued(id) /\ Held(Named(id))
    BY DEF StateSound, TypeOK, StoresOK
  <2>2. Named(id) \in Msgs
    BY <2>1 DEF IsIssued, Named, TypeOK, StoresOK
  <2>3. IsIssued(id)' /\ Named(id)' = Named(id) /\ Held(Named(id))'
    BY <2>1, <2>2 DEF StoresGrow, Held
  <2>. QED
    BY <2>3
<1>. QED
  BY <1>1 DEF StateSound

LEMMA NothingLostStable ==
  ASSUME NothingLost, StoresGrow,
         \A m \in Msgs : place'[m] = "transferred" => place[m] = "transferred"
  PROVE  NothingLost'
BY DEF NothingLost, StoresGrow

\* A process whose batch and position do not change keeps what it knows.
LEMMA Bystander ==
  ASSUME TypeOK, StepsJustified, StoresGrow, NEW q \in Procs,
         pc'[q] = pc[q], todo'[q] = todo[q]
  PROVE  (BatchSound(q) /\ CurrentSound(q))'
<1>1. \A e \in todo[q] : e.id \in SourceIds /\ e.msg \in Msgs
  BY DEF TypeOK, LocalsOK, Emails
<1>. QED
  BY <1>1 DEF StepsJustified, BatchSound, CurrentSound, IsCurrent, StoresGrow

\* So does one that moves on without claiming anything about its email.
LEMMA Mover ==
  ASSUME TypeOK, StepsJustified, StoresGrow, NEW p \in Procs,
         todo'[p] \subseteq todo[p],
         pc'[p] \notin {"destinationLookup", "stateWrite", "sourceArchive"}
  PROVE  (BatchSound(p) /\ CurrentSound(p))'
<1>1. \A e \in todo[p] : e.id \in SourceIds
  BY DEF TypeOK, LocalsOK, Emails
<1>. QED
  BY <1>1 DEF StepsJustified, BatchSound, CurrentSound, StoresGrow

\* The loop works on one email at a time.
LEMMA CurrentUnique ==
  ASSUME TypeOK, StepsJustified, NEW p \in Procs, NEW e \in todo[p], NEW f \in todo[p],
         IsCurrent(p, e), IsCurrent(p, f)
  PROVE  e = f
<1>1. e \in Emails /\ f \in Emails
  BY DEF TypeOK, LocalsOK
<1>2. e.id[2] = f.id[2]
  BY <1>1 DEF IsCurrent, Emails, SourceIds
<1>3. e.id = f.id
  BY <1>1, <1>2 DEF StepsJustified, BatchSound, Emails, SourceIds
<1>4. e.msg = f.msg
  BY <1>3 DEF StepsJustified, BatchSound
<1>. QED
  BY <1>1, <1>3, <1>4 DEF Emails

\* What was read names the message the server issued the id for.
LEMMA ReadBatchSound ==
  ASSUME TypeOK, NEW limit \in Nat, NEW e \in ReadBatch(limit)
  PROVE  /\ IsIssued(e.id) /\ Named(e.id) = e.msg
         /\ e.id[1] = UidValidity
<1>1. PICK u \in DOMAIN uids[UidValidity] :
        e = [id |-> <<UidValidity, u>>, msg |-> uids[UidValidity][u]]
  BY DEF ReadBatch, InboxEmails
<1>2. UidValidity \in DOMAIN uids
  BY DEF TypeOK, StoresOK, UidValidity
<1>. QED
  BY <1>1, <1>2 DEF IsIssued, Named

\* A process that takes a step which only moves on, in stores that grow.
LEMMA StepMoves ==
  ASSUME TypeOK, StepsJustified, StoresGrow, NEW p \in Procs,
         \A q \in Procs \ {p} : pc'[q] = pc[q] /\ todo'[q] = todo[q],
         todo'[p] \subseteq todo[p],
         pc'[p] \notin {"destinationLookup", "stateWrite", "sourceArchive"}
  PROVE  StepsJustified'
<1>1. ASSUME NEW q \in Procs PROVE (BatchSound(q) /\ CurrentSound(q))'
  <2>1. CASE q = p
    BY <2>1, Mover
  <2>2. CASE q # p
    BY <2>2, Bystander
  <2>. QED
    BY <2>1, <2>2
<1>. QED
  BY <1>1 DEF StepsJustified

\* Where an exception leads.
LEMMA ThrowMoves ==
  ASSUME TypeOK, StepsJustified, StoresGrow, NEW p \in Procs, Throw(p)
  PROVE  StepsJustified'
<1>1. /\ \A q \in Procs \ {p} : pc'[q] = pc[q] /\ todo'[q] = todo[q]
      /\ todo'[p] = todo[p]
      /\ pc'[p] \in {"updateEmail", "complete"}
  BY DEF Throw, TypeOK, LocalsOK
<1>. QED
  BY <1>1, StepMoves

LEMMA GotoMoves ==
  ASSUME TypeOK, StepsJustified, StoresGrow, NEW p \in Procs,
         NEW step \in Steps \ {"destinationLookup", "stateWrite", "sourceArchive"},
         Goto(p, step)
  PROVE  StepsJustified'
<1>1. /\ \A q \in Procs \ {p} : pc'[q] = pc[q] /\ todo'[q] = todo[q]
      /\ todo'[p] = todo[p]
      /\ pc'[p] = step
  BY DEF Goto, TypeOK, LocalsOK
<1>. QED
  BY <1>1, StepMoves

LEMMA OutcomeMoves ==
  ASSUME TypeOK, StepsJustified, StoresGrow, NEW p \in Procs, NEW counter,
         Outcome(p, counter)
  PROVE  StepsJustified'
<1>1. /\ \A q \in Procs \ {p} : pc'[q] = pc[q] /\ todo'[q] = todo[q]
      /\ todo'[p] = todo[p]
      /\ pc'[p] = "updateEmail"
  BY DEF Outcome, TypeOK, LocalsOK
<1>. QED
  BY <1>1, StepMoves

LEMMA NotPresentMoves ==
  ASSUME TypeOK, StepsJustified, StoresGrow, NEW p \in Procs, NotPresent(p)
  PROVE  StepsJustified'
BY OutcomeMoves, GotoMoves DEF NotPresent, Steps, EmailSteps

LEMMA EndRunMoves ==
  ASSUME TypeOK, StepsJustified, StoresGrow, NEW p \in Procs, EndRun(p)
  PROVE  StepsJustified'
<1>1. /\ \A q \in Procs \ {p} : pc'[q] = pc[q] /\ todo'[q] = todo[q]
      /\ todo'[p] = {}
      /\ pc'[p] = "idle"
  BY DEF EndRun, TypeOK, LocalsOK
<1>. QED
  BY <1>1, StepMoves

\* Control advances to a step whose claim about the current email holds.
LEMMA StepAdvances ==
  ASSUME TypeOK, StepsJustified, StoresGrow, NEW p \in Procs, NEW e \in todo[p],
         IsCurrent(p, e), NEW step,
         \A q \in Procs \ {p} : pc'[q] = pc[q],
         todo' = todo,
         pc'[p] = step,
         step = "destinationLookup" => MessageIdOf[e.msg] # NoMessageId,
         step = "stateWrite" => Held(e.msg)',
         step = "sourceArchive" => e.id \in importedMessages'
  PROVE  StepsJustified'
<1>1. ASSUME NEW q \in Procs \ {p} PROVE (BatchSound(q) /\ CurrentSound(q))'
  BY Bystander
<1>2. BatchSound(p)'
  <2>1. \A f \in todo[p] : f.id \in SourceIds
    BY DEF TypeOK, LocalsOK, Emails
  <2>. QED
    BY <2>1 DEF StepsJustified, BatchSound, StoresGrow
<1>3. CurrentSound(p)'
  <2>1. ASSUME NEW f \in todo[p], IsCurrent(p, f)'
        PROVE  f = e
    BY <2>1, CurrentUnique DEF IsCurrent
  <2>. QED
    BY <2>1 DEF CurrentSound, Held
<1>. QED
  BY <1>1, <1>2, <1>3 DEF StepsJustified

-----------------------------------------------------------------------------
(***************************************************************************)
(* Every action preserves Inv.                                             *)
(***************************************************************************)

\* Steps that leave the mailboxes, Gmail and imported_messages alone.
LEMMA LocalStep ==
  ASSUME TypeOK, Inv, UNCHANGED <<place, uids, gmail, importedMessages>>
  PROVE  StoresGrow /\ StateSound' /\ NothingLost'
BY QuietStoresGrow, StateSoundStable, NothingLostStable DEF Inv

LEMMA StartRunInv ==
  ASSUME TypeOK, Inv, NEW p \in Procs, NEW dry \in BOOLEAN, StartRun(p, dry)
  PROVE  Inv'
<1>1. UNCHANGED <<place, uids, gmail, importedMessages>>
  BY DEF StartRun, InsertRow
<1>2. StoresGrow /\ StateSound' /\ NothingLost'
  BY <1>1, LocalStep
<1>3. /\ \A q \in Procs \ {p} : pc'[q] = pc[q] /\ todo'[q] = todo[q]
      /\ todo'[p] = todo[p]
      /\ pc'[p] \in {"idle", "read", "complete"}
  BY DEF StartRun, Begin, locals, TypeOK, LocalsOK
<1>. QED
  BY <1>2, <1>3, StepMoves DEF Inv

LEMMA ReadSourceInv ==
  ASSUME TypeOK, Inv, NEW p \in Procs, ReadSource(p)
  PROVE  Inv'
<1>1. PICK limit \in BatchLimits :
        /\ UNCHANGED stores
        /\ \/ Throw(p)
           \/ /\ pc' = [pc EXCEPT ![p] = "updateSource"]
              /\ todo' = [todo EXCEPT ![p] = ReadBatch(limit)]
  BY DEF ReadSource, Measured
<1>2. StoresGrow /\ StateSound' /\ NothingLost'
  BY <1>1, LocalStep DEF stores
<1>3. CASE Throw(p)
  BY <1>2, <1>3, ThrowMoves DEF Inv
<1>4. CASE ~Throw(p)
  <2>1. /\ pc'[p] = "updateSource"
        /\ todo'[p] = ReadBatch(limit)
        /\ \A q \in Procs \ {p} : pc'[q] = pc[q] /\ todo'[q] = todo[q]
    BY <1>1, <1>4 DEF TypeOK, LocalsOK
  <2>2. ASSUME NEW q \in Procs \ {p} PROVE (BatchSound(q) /\ CurrentSound(q))'
    BY <1>2, <2>1, Bystander DEF Inv
  <2>3. ASSUME NEW e \in ReadBatch(limit)
        PROVE  IsIssued(e.id)' /\ Named(e.id)' = e.msg /\ e.id[1] = UidValidity
    <3>1. IsIssued(e.id) /\ Named(e.id) = e.msg /\ e.id[1] = UidValidity
      BY ReadBatchSound, BoundsAssumption
    <3>2. uids' = uids
      BY <1>1 DEF stores
    <3>. QED
      BY <3>1, <3>2 DEF IsIssued, Named
  <2>4. (BatchSound(p) /\ CurrentSound(p))'
    BY <2>1, <2>3 DEF BatchSound, CurrentSound
  <2>. QED
    BY <1>2, <2>2, <2>4 DEF Inv, StepsJustified
<1>. QED
  BY <1>3, <1>4

LEMMA UpdateSourceInv ==
  ASSUME TypeOK, Inv, NEW p \in Procs, UpdateSource(p)
  PROVE  Inv'
<1>1. UNCHANGED <<place, uids, gmail, importedMessages>>
  BY DEF UpdateSource, Measured, UpdateRun, UpdateRow, stores
<1>2. StoresGrow /\ StateSound' /\ NothingLost'
  BY <1>1, LocalStep
<1>3. Throw(p) \/ Goto(p, LoopStep(todo[p]))
  BY DEF UpdateSource, Measured
<1>. QED
  BY <1>2, <1>3, ThrowMoves, GotoMoves DEF Inv, LoopStep, Steps, EmailSteps

\* imported_messages answers for the email the process works on.
LEMMA StateLookupInv ==
  ASSUME TypeOK, Inv, NEW p \in Procs, StateLookup(p)
  PROVE  Inv'
<1>1. PICK e \in todo[p] :
        /\ IsCurrent(p, e)
        /\ UNCHANGED stores
        /\ \/ Throw(p)
           \/ IF Contains(e.id) THEN Present(p, "sourceArchive")
              ELSE IF MessageIdOf[e.msg] # NoMessageId THEN Goto(p, "destinationLookup")
              ELSE NotPresent(p)
  BY DEF StateLookup, Measured
<1>2. StoresGrow /\ StateSound' /\ NothingLost'
  BY <1>1, LocalStep DEF stores
<1>3. ASSUME NEW step \in {"sourceArchive", "destinationLookup"},
             pc' = [pc EXCEPT ![p] = step], todo' = todo,
             step = "sourceArchive" => Contains(e.id),
             step = "destinationLookup" => MessageIdOf[e.msg] # NoMessageId
      PROVE  StepsJustified'
  <2>1. pc'[p] = step /\ \A q \in Procs \ {p} : pc'[q] = pc[q]
    BY <1>3 DEF TypeOK, LocalsOK
  <2>2. importedMessages' = importedMessages
    BY <1>1 DEF stores
  <2>. QED
    BY <1>1, <1>2, <1>3, <2>1, <2>2, StepAdvances DEF Inv, Contains
<1>4. CASE Throw(p)
  BY <1>2, <1>4, ThrowMoves DEF Inv
<1>5. CASE Contains(e.id) /\ Present(p, "sourceArchive")
  BY <1>2, <1>3, <1>5, OutcomeMoves DEF Inv, Present
<1>6. CASE MessageIdOf[e.msg] # NoMessageId /\ Goto(p, "destinationLookup")
  BY <1>2, <1>3, <1>6 DEF Inv, Goto
<1>7. CASE NotPresent(p)
  BY <1>2, <1>7, NotPresentMoves DEF Inv
<1>. QED
  BY <1>1, <1>4, <1>5, <1>6, <1>7

\* Gmail answers for the Message-ID of the email the process works on.
LEMMA DestinationLookupInv ==
  ASSUME TypeOK, Inv, NEW p \in Procs, DestinationLookup(p)
  PROVE  Inv'
<1>1. PICK e \in todo[p] :
        /\ IsCurrent(p, e)
        /\ UNCHANGED stores
        /\ \/ Throw(p)
           \/ IF Exists(MessageIdOf[e.msg]) THEN Present(p, "stateWrite")
              ELSE NotPresent(p)
  BY DEF DestinationLookup, Measured
<1>2. StoresGrow /\ StateSound' /\ NothingLost'
  BY <1>1, LocalStep DEF stores
<1>3. CASE Throw(p)
  BY <1>2, <1>3, ThrowMoves DEF Inv
<1>4. CASE Exists(MessageIdOf[e.msg]) /\ Present(p, "stateWrite")
  <2>1. CASE dryRun[p]
    BY <1>2, <1>4, <2>1, OutcomeMoves DEF Inv, Present
  <2>2. CASE ~dryRun[p]
    <3>1. /\ pc'[p] = "stateWrite" /\ todo' = todo
          /\ \A q \in Procs \ {p} : pc'[q] = pc[q]
      BY <1>4, <2>2 DEF Present, TypeOK, LocalsOK
    <3>2. MessageIdOf[e.msg] # NoMessageId
      BY <1>1 DEF DestinationLookup, Inv, StepsJustified, CurrentSound
    <3>3. Held(e.msg)'
      BY <1>1, <1>4, <3>2 DEF Exists, Held, SameMessageId, stores
    <3>. QED
      BY <1>1, <1>2, <3>1, <3>3, StepAdvances DEF Inv
  <2>. QED
    BY <2>1, <2>2
<1>5. CASE NotPresent(p)
  BY <1>2, <1>5, NotPresentMoves DEF Inv
<1>. QED
  BY <1>1, <1>3, <1>4, <1>5

\* The state write comes after Gmail accepted the same message.
LEMMA ImportInv ==
  ASSUME TypeOK, Inv, NEW p \in Procs, Import(p)
  PROVE  Inv'
<1>1. PICK e \in todo[p] :
        /\ IsCurrent(p, e)
        /\ \/ ImportInto(e.msg) /\ Goto(p, "stateWrite")
           \/ (ImportInto(e.msg) \/ UNCHANGED stores) /\ Throw(p)
  BY DEF Import, Measured
<1>2. e.msg \in Msgs
  BY DEF TypeOK, LocalsOK, Emails
<1>3. UNCHANGED <<place, uids, importedMessages>>
  BY <1>1 DEF ImportInto, stores
<1>4. StoresGrow
  BY <1>1, <1>2, ImportGrows, LocalStep DEF stores
<1>5. StateSound' /\ NothingLost'
  BY <1>3, <1>4, StateSoundStable, NothingLostStable DEF Inv
<1>6. CASE Throw(p)
  BY <1>4, <1>5, <1>6, ThrowMoves DEF Inv
<1>7. CASE ImportInto(e.msg) /\ Goto(p, "stateWrite")
  <2>1. /\ pc'[p] = "stateWrite" /\ todo' = todo
        /\ \A q \in Procs \ {p} : pc'[q] = pc[q]
    BY <1>7 DEF Goto, TypeOK, LocalsOK
  <2>2. Held(e.msg)'
    BY <1>2, <1>7, ImportGrows
  <2>. QED
    BY <1>1, <1>4, <1>5, <2>1, <2>2, StepAdvances DEF Inv
<1>. QED
  BY <1>1, <1>6, <1>7

\* The id written names the message that Gmail holds.
LEMMA StateWriteInv ==
  ASSUME TypeOK, Inv, NEW p \in Procs, StateWrite(p)
  PROVE  Inv'
<1>1. PICK e \in todo[p] :
        /\ IsCurrent(p, e)
        /\ \/ MarkImported(e.id) /\ Goto(p, "sourceArchive")
           \/ (MarkImported(e.id) \/ UNCHANGED stores) /\ Throw(p)
  BY DEF StateWrite, Measured
<1>2. UNCHANGED <<place, uids, gmail>>
  BY <1>1 DEF MarkImported, stores
<1>3. importedMessages' \in {importedMessages, importedMessages \cup {e.id}}
  BY <1>1 DEF MarkImported, stores
<1>4. StoresGrow
  BY <1>2, <1>3, QuietStoresGrow
<1>5. Held(e.msg) /\ IsIssued(e.id) /\ Named(e.id) = e.msg
  BY <1>1 DEF StateWrite, Inv, StepsJustified, BatchSound, CurrentSound
<1>6. StateSound'
  BY <1>2, <1>3, <1>5 DEF Inv, StateSound, IsIssued, Named, Held
<1>7. NothingLost'
  BY <1>2, <1>4, NothingLostStable DEF Inv
<1>8. CASE Throw(p)
  BY <1>4, <1>6, <1>7, <1>8, ThrowMoves DEF Inv
<1>9. CASE MarkImported(e.id) /\ Goto(p, "sourceArchive")
  <2>1. /\ pc'[p] = "sourceArchive" /\ todo' = todo
        /\ \A q \in Procs \ {p} : pc'[q] = pc[q]
    BY <1>9 DEF Goto, TypeOK, LocalsOK
  <2>2. e.id \in importedMessages'
    BY <1>9 DEF MarkImported
  <2>. QED
    BY <1>1, <1>4, <1>6, <1>7, <2>1, <2>2, StepAdvances DEF Inv
<1>. QED
  BY <1>1, <1>8, <1>9

\* The message moved is the one whose id is in imported_messages: the check
\* of UIDVALIDITY makes the UID name it still.
LEMMA SourceArchiveInv ==
  ASSUME TypeOK, Inv, NEW p \in Procs, SourceArchive(p)
  PROVE  Inv'
<1>1. PICK e \in todo[p] :
        /\ IsCurrent(p, e)
        /\ \/ UNCHANGED stores
           \/ ~UidValidityChanged(e.id) /\ MoveToTransferred(e.id)
        /\ \/ Throw(p)
           \/ Outcome(p, IF found[p] THEN "alreadyPresent" ELSE "imported")
  BY DEF SourceArchive, Measured
<1>2. UNCHANGED <<uids, gmail, importedMessages>>
  BY <1>1 DEF MoveToTransferred, stores
<1>3. StoresGrow
  BY <1>2, QuietStoresGrow
<1>4. StateSound'
  BY <1>2, <1>3, StateSoundStable DEF Inv
<1>5. e.id \in importedMessages
  BY <1>1 DEF SourceArchive, Inv, StepsJustified, CurrentSound
<1>6. Held(Named(e.id))
  BY <1>5 DEF Inv, StateSound
<1>7. ASSUME NEW m \in Msgs, place'[m] = "transferred"
      PROVE  Held(m)
  <2>1. CASE place[m] = "transferred"
    BY <2>1 DEF Inv, NothingLost
  <2>2. CASE place[m] # "transferred"
    <3>1. uids[UidValidity][e.id[2]] = m /\ ~UidValidityChanged(e.id)
      BY <1>1, <1>7, <2>2 DEF MoveToTransferred, stores
    <3>. QED
      BY <1>6, <3>1 DEF UidValidityChanged, Named
  <2>. QED
    BY <2>1, <2>2
<1>8. NothingLost'
  BY <1>3, <1>7 DEF NothingLost, StoresGrow
<1>. QED
  BY <1>1, <1>3, <1>4, <1>8, ThrowMoves, OutcomeMoves DEF Inv

LEMMA UpdateEmailInv ==
  ASSUME TypeOK, Inv, NEW p \in Procs, UpdateEmail(p)
  PROVE  Inv'
<1>1. PICK e \in todo[p] :
        \/ Throw(p)
        \/ /\ pc' = [pc EXCEPT ![p] =
                       IF failing[p] THEN "complete" ELSE LoopStep(todo[p] \ {e})]
           /\ todo' = [todo EXCEPT ![p] = @ \ {e}]
  BY DEF UpdateEmail, Measured
<1>2. UNCHANGED <<place, uids, gmail, importedMessages>>
  BY DEF UpdateEmail, Measured, UpdateRun, UpdateRow, stores
<1>3. StoresGrow /\ StateSound' /\ NothingLost'
  BY <1>2, LocalStep
<1>4. CASE ~Throw(p)
  <2>1. /\ \A q \in Procs \ {p} : pc'[q] = pc[q] /\ todo'[q] = todo[q]
        /\ todo'[p] \subseteq todo[p]
        /\ pc'[p] \in {"complete", "finish", "stateLookup"}
    BY <1>1, <1>4 DEF LoopStep, TypeOK, LocalsOK
  <2>. QED
    BY <1>3, <2>1, StepMoves DEF Inv
<1>. QED
  BY <1>3, <1>4, ThrowMoves DEF Inv

LEMMA FinishInv ==
  ASSUME TypeOK, Inv, NEW p \in Procs, Finish(p)
  PROVE  Inv'
<1>1. UNCHANGED stores /\ (Throw(p) \/ Goto(p, "complete"))
  BY DEF Finish, Measured
<1>2. StoresGrow /\ StateSound' /\ NothingLost'
  BY <1>1, LocalStep DEF stores
<1>. QED
  BY <1>1, <1>2, ThrowMoves, GotoMoves DEF Inv, Steps

LEMMA CompleteRunInv ==
  ASSUME TypeOK, Inv, NEW p \in Procs, CompleteRun(p)
  PROVE  Inv'
<1>1. UNCHANGED <<place, uids, gmail, importedMessages>> /\ EndRun(p)
  BY DEF CompleteRun, UpdateRow, stores
<1>2. StoresGrow /\ StateSound' /\ NothingLost'
  BY <1>1, LocalStep
<1>. QED
  BY <1>1, <1>2, EndRunMoves DEF Inv

\* A process killed anywhere leaves only what the next run can resume.
LEMMA CrashInv ==
  ASSUME TypeOK, Inv, NEW p \in Procs, Crash(p)
  PROVE  Inv'
<1>1. UNCHANGED stores /\ EndRun(p)
  BY DEF Crash
<1>2. StoresGrow /\ StateSound' /\ NothingLost'
  BY <1>1, LocalStep DEF stores
<1>. QED
  BY <1>1, <1>2, EndRunMoves DEF Inv

\* Steps of the mail server and of the tray.
LEMMA ExternalStep ==
  ASSUME TypeOK, Inv, StoresGrow, UNCHANGED <<importedMessages, locals>>,
         \A m \in Msgs : place'[m] = "transferred" => place[m] = "transferred"
  PROVE  Inv'
<1>1. StateSound' /\ NothingLost'
  BY StateSoundStable, NothingLostStable DEF Inv
<1>2. ASSUME NEW q \in Procs PROVE (BatchSound(q) /\ CurrentSound(q))'
  BY Bystander DEF Inv, locals
<1>. QED
  BY <1>1, <1>2 DEF Inv, StepsJustified

LEMMA DeliverInv ==
  ASSUME TypeOK, Inv, NEW m \in Msgs, Deliver(m)
  PROVE  Inv'
<1>1. \A n \in Msgs : place'[n] = "transferred" => place[n] = "transferred"
  BY DEF Deliver, TypeOK, StoresOK
<1>. QED
  BY <1>1, DeliverGrows, ExternalStep DEF Deliver

LEMMA ResetUidValidityInv ==
  ASSUME TypeOK, Inv, ResetUidValidity
  PROVE  Inv'
BY ResetGrows, ExternalStep DEF ResetUidValidity

LEMMA DeleteRunInv ==
  ASSUME TypeOK, Inv, NEW i \in RunIds, DeleteRun(i)
  PROVE  Inv'
BY QuietStoresGrow, ExternalStep DEF DeleteRun

LEMMA InitInv == Init => Inv
BY DEF Init, Inv, StateSound, NothingLost, StepsJustified, BatchSound, CurrentSound

LEMMA NextInv == TypeOK /\ Inv /\ [Next]_vars => Inv'
<1>. SUFFICES ASSUME TypeOK, Inv, [Next]_vars PROVE Inv'
  OBVIOUS
<1>1. ASSUME NEW p \in Procs, RunStep(p) PROVE Inv'
  BY <1>1, ReadSourceInv, UpdateSourceInv, StateLookupInv, DestinationLookupInv,
     ImportInv, StateWriteInv, SourceArchiveInv, UpdateEmailInv, FinishInv,
     CompleteRunInv DEF RunStep
<1>2. CASE UNCHANGED vars
  BY <1>2, QuietStoresGrow, ExternalStep DEF vars, stores
<1>. QED
  BY <1>1, <1>2, CrashInv, StartRunInv, DeliverInv, ResetUidValidityInv,
     DeleteRunInv DEF Next

LEMMA Invariance == Spec => []Inv
BY InitInv, NextInv, TypeCorrect, PTL DEF Spec

\* Whatever fails, is killed, deleted or renumbered, and however many
\* processes run: a source id is in imported_messages only if Gmail holds
\* the message it was issued for.
THEOREM StateIsSound == Spec => []StateSound
BY Invariance, PTL DEF Inv

\* No message leaves the inbox without Gmail holding it.
THEOREM NothingIsLost == Spec => []NothingLost
BY Invariance, PTL DEF Inv

\* Each operation on an email finds established what it relies on.
THEOREM EveryStepIsJustified == Spec => []StepsJustified
BY Invariance, PTL DEF Inv
-----------------------------------------------------------------------------
(***************************************************************************)
(* The promise is kept.                                                    *)
(***************************************************************************)
HeldMsgs == {m \in Msgs : Held(m)}

PromiseStep == [Promise!Next]_<<place, HeldMsgs>>

-----------------------------------------------------------------------------

\* Gmail holds the same messages as long as nothing is imported.
LEMMA HeldUnchanged ==
  ASSUME UNCHANGED gmail
  PROVE  UNCHANGED HeldMsgs
BY DEF HeldMsgs, Held

LEMMA Invisible ==
  ASSUME UNCHANGED <<place, gmail>>
  PROVE  PromiseStep
BY HeldUnchanged DEF PromiseStep

LEMMA InitRefines == Init => Promise!Init
BY DEF Init, Promise!Init

LEMMA ImportRefines ==
  ASSUME TypeOK, NEW p \in Procs, Import(p)
  PROVE  PromiseStep
<1>1. PICK e \in todo[p] : ImportInto(e.msg) \/ UNCHANGED stores
  BY DEF Import, Measured
<1>2. CASE ImportInto(e.msg)
  <2>1. e.msg \in Msgs
    BY DEF TypeOK, LocalsOK, Emails
  <2>2. HeldMsgs \subseteq HeldMsgs'
    BY <1>2, <2>1, ImportGrows DEF StoresGrow, HeldMsgs
  <2>3. HeldMsgs' = HeldMsgs \cup HeldMsgs' /\ HeldMsgs' \in SUBSET Msgs
    BY <2>2 DEF HeldMsgs
  <2>4. place' = place
    BY <1>2 DEF ImportInto
  <2>5. \E S \in SUBSET Msgs : HeldMsgs' = HeldMsgs \cup S /\ place' = place
    BY <2>3, <2>4
  <2>. QED
    BY <2>5 DEF PromiseStep, Promise!Next, Promise!Hold, HeldMsgs
<1>3. CASE UNCHANGED stores
  BY <1>3, Invisible DEF stores
<1>. QED
  BY <1>1, <1>2, <1>3

LEMMA ArchiveRefines ==
  ASSUME TypeOK, Inv, NEW p \in Procs, SourceArchive(p)
  PROVE  PromiseStep
<1>1. PICK e \in todo[p] :
        /\ IsCurrent(p, e)
        /\ \/ UNCHANGED stores
           \/ ~UidValidityChanged(e.id) /\ MoveToTransferred(e.id)
  BY DEF SourceArchive, Measured
<1>2. CASE UNCHANGED stores
  BY <1>2, Invisible DEF stores
<1>3. CASE ~UidValidityChanged(e.id) /\ MoveToTransferred(e.id)
  <2>1. e.id \in importedMessages
    BY <1>1 DEF SourceArchive, Inv, StepsJustified, CurrentSound
  <2>2. /\ IsIssued(e.id) /\ Held(Named(e.id))
        /\ Named(e.id) = uids[UidValidity][e.id[2]]
    BY <1>3, <2>1 DEF Inv, StateSound, UidValidityChanged, Named
  <2> DEFINE m == Named(e.id)
  <2>3. m \in Msgs
    <3>1. uids[e.id[1]] \in Seq(Msgs)
      BY <2>2 DEF IsIssued, TypeOK, StoresOK
    <3>. QED
      BY <2>2, <3>1 DEF IsIssued, Named
  <2>4. UNCHANGED HeldMsgs
    BY <1>3, HeldUnchanged DEF MoveToTransferred
  <2>5. CASE place[m] = "inbox"
    <3>1. place' = [place EXCEPT ![m] = "transferred"]
      <4>1. e.id[2] \in DOMAIN uids[UidValidity]
        BY <1>3, <2>2 DEF IsIssued, UidValidityChanged
      <4>2. place' = [n \in Msgs |-> IF m = n /\ place[n] = "inbox"
                                    THEN "transferred" ELSE place[n]]
        BY <1>3, <2>2, <4>1 DEF MoveToTransferred
      <4>. HIDE DEF m
      <4>. QED
        BY <2>3, <2>5, <4>2 DEF TypeOK, StoresOK
    <3>2. m \in HeldMsgs
      BY <2>2, <2>3 DEF HeldMsgs
    <3>3. Promise!Transfer(m)
      BY <2>4, <2>5, <3>1, <3>2 DEF Promise!Transfer, HeldMsgs
    <3>. QED
      BY <2>3, <3>3 DEF PromiseStep, Promise!Next
  <2>6. CASE place[m] # "inbox"
    <3>1. place' = place
      BY <1>3, <2>2, <2>6 DEF MoveToTransferred, TypeOK, StoresOK
    <3>. QED
      BY <2>4, <3>1 DEF PromiseStep
  <2>. QED
    BY <2>5, <2>6
<1>. QED
  BY <1>1, <1>2, <1>3

LEMMA DeliverRefines ==
  ASSUME TypeOK, NEW m \in Msgs, Deliver(m)
  PROVE  PromiseStep
<1>1. UNCHANGED HeldMsgs
  BY HeldUnchanged DEF Deliver
<1>2. Promise!Arrive(m)
  BY <1>1 DEF Deliver, Promise!Arrive, HeldMsgs
<1>. QED
  BY <1>2 DEF PromiseStep, Promise!Next

LEMMA NextRefines ==
  ASSUME TypeOK, Inv, [Next]_vars
  PROVE  PromiseStep
<1>1. ASSUME NEW p \in Procs, RunStep(p) PROVE PromiseStep
  <2>1. CASE Import(p) \/ SourceArchive(p)
    BY <2>1, ImportRefines, ArchiveRefines
  <2>2. CASE ReadSource(p) \/ UpdateSource(p) \/ StateLookup(p) \/ DestinationLookup(p)
    <3>1. UNCHANGED <<place, gmail>>
      BY <2>2 DEF ReadSource, UpdateSource, StateLookup, DestinationLookup,
         Measured, UpdateRun, UpdateRow, stores
    <3>. QED
      BY <3>1, Invisible
  <2>3. CASE StateWrite(p) \/ UpdateEmail(p) \/ Finish(p) \/ CompleteRun(p)
    <3>1. UNCHANGED <<place, gmail>>
      BY <2>3 DEF StateWrite, UpdateEmail, Finish, CompleteRun,
         Measured, MarkImported, UpdateRun, UpdateRow, stores
    <3>. QED
      BY <3>1, Invisible
  <2>. QED
    BY <1>1, <2>1, <2>2, <2>3 DEF RunStep
<1>2. ASSUME NEW p \in Procs, Crash(p) PROVE PromiseStep
  BY <1>2, Invisible DEF Crash, stores
<1>3. ASSUME NEW p \in Procs, NEW dry \in BOOLEAN, StartRun(p, dry) PROVE PromiseStep
  BY <1>3, Invisible DEF StartRun, InsertRow
<1>4. CASE ResetUidValidity
  BY <1>4, Invisible DEF ResetUidValidity
<1>5. ASSUME NEW i \in RunIds, DeleteRun(i) PROVE PromiseStep
  BY <1>5, Invisible DEF DeleteRun
<1>6. CASE UNCHANGED vars
  BY <1>6, Invisible DEF vars, stores
<1>. QED
  BY <1>1, <1>2, <1>3, <1>4, <1>5, <1>6, DeliverRefines DEF Next

\* The job keeps the promise, whatever fails, is killed, runs twice, is
\* deleted or renumbered.
THEOREM KeepsPromise == Spec => ImplementsPromise
<1>1. TypeOK /\ Inv /\ [Next]_vars => [Promise!Next]_(Promise!vars)
  BY NextRefines DEF PromiseStep, HeldMsgs, Promise!vars
<1>. QED
  BY InitRefines, <1>1, TypeCorrect, Invariance, PTL
     DEF Spec, ImplementsPromise, Promise!Spec
-----------------------------------------------------------------------------
(***************************************************************************)
(* The history of runs and dry runs.                                       *)
(*                                                                         *)
(* That runs in progress own their rows follows from the AUTOINCREMENT of  *)
(* job_runs: the rows not numbered yet do not exist (RowsAreFresh).  The   *)
(* last part shows that the history TransferAsync writes is the one of     *)
(* JobRunLifecycle, on which the model of the tray is built.               *)
(***************************************************************************)

RowsAreFresh == \A i \in RunIds : i >= nextRun => jobRuns[i].status = "Absent"

HistoryInv == RowsAreFresh /\ RowsAreOwned

\* Operations that change something are beyond a dry run.
DryRunsInspect ==
  \A p \in Procs : dryRun[p] => pc[p] \notin {"import", "stateWrite", "sourceArchive"}

-----------------------------------------------------------------------------
(***************************************************************************)
(* Rows.                                                                   *)
(***************************************************************************)

\* Whoever goes on, and whichever row of a run that ended or may end changes
\* its status, the other runs keep their rows.
LEMMA OwnersStay ==
  ASSUME TypeOK, HistoryInv, UNCHANGED <<run, nextRun>>,
         \A q \in Procs : Live(q)' => Live(q),
         \A i \in RunIds : jobRuns[i].status = "Absent" => jobRuns'[i].status = "Absent",
         \A i \in RunIds : \/ jobRuns'[i].status \in {jobRuns[i].status, "Absent"}
                           \/ \A q \in Procs : run[q] = i => ~Live(q)'
  PROVE  HistoryInv'
<1>1. RowsAreFresh'
  BY DEF HistoryInv, RowsAreFresh
<1>2. RowsAreOwned'
  BY DEF HistoryInv, RowsAreOwned
<1>. QED
  BY <1>1, <1>2 DEF HistoryInv

\* The same when a run ends.
LEMMA EndedRun ==
  ASSUME TypeOK, HistoryInv, NEW p \in Procs, Live(p), EndRun(p), UNCHANGED nextRun,
         \A i \in RunIds \ {run[p]} : jobRuns'[i] = jobRuns[i],
         jobRuns[run[p]].status = "Absent" => jobRuns'[run[p]].status = "Absent"
  PROVE  HistoryInv'
<1>1. RowsAreFresh'
  BY DEF HistoryInv, RowsAreFresh
<1>2. /\ \A q \in Procs \ {p} : pc'[q] = pc[q] /\ run'[q] = run[q]
      /\ ~Live(p)'
  BY DEF EndRun, TypeOK, LocalsOK, Live
<1>3. \A q \in Procs : Live(q)' => q # p /\ Live(q) /\ run'[q] = run[q]
  BY <1>2 DEF Live
<1>4. \A q \in Procs : Live(q)' => jobRuns'[run[q]] = jobRuns[run[q]]
  BY <1>3 DEF HistoryInv, RowsAreOwned
<1>5. RowsAreOwned'
  BY <1>3, <1>4 DEF HistoryInv, RowsAreOwned
<1>. QED
  BY <1>1, <1>5 DEF HistoryInv

\* An UPDATE of the row of a run in progress.
LEMMA UpdateRowEffect ==
  ASSUME TypeOK, NEW p \in Procs, NEW status, UpdateRow(p, status)
  PROVE  /\ UNCHANGED nextRun
         /\ \A i \in RunIds \ {run[p]} : jobRuns'[i] = jobRuns[i]
         /\ run[p] \in RunIds => /\ jobRuns[run[p]].status = "Absent" =>
                                      jobRuns'[run[p]] = jobRuns[run[p]]
                                 /\ jobRuns'[run[p]].status \in {jobRuns[run[p]].status, status}
BY DEF UpdateRow, TypeOK, StoresOK

LEMMA UpdateRunEffect ==
  ASSUME TypeOK, NEW p \in Procs, UpdateRun(p)
  PROVE  /\ UNCHANGED nextRun
         /\ \A i \in RunIds : /\ jobRuns'[i].status = jobRuns[i].status
                              /\ jobRuns[i].status = "Absent" => jobRuns'[i] = jobRuns[i]
                              /\ i # run[p] => jobRuns'[i] = jobRuns[i]
BY UpdateRowEffect DEF UpdateRun

\* Every step of a run in progress but its last.
LEMMA InnerStep ==
  ASSUME TypeOK, HistoryInv, NEW p \in Procs, RunStep(p), ~CompleteRun(p)
  PROVE  /\ Live(p) /\ Live(p)'
         /\ UNCHANGED run
         /\ UpdateRun(p) \/ UNCHANGED <<jobRuns, nextRun>>
         /\ \A q \in Procs \ {p} : pc'[q] = pc[q] /\ todo'[q] = todo[q] /\ dryRun'[q] = dryRun[q]
<1>1. CASE ReadSource(p) \/ UpdateSource(p) \/ UpdateEmail(p) \/ Finish(p)
  BY <1>1 DEF ReadSource, UpdateSource, UpdateEmail, Finish, Measured, Throw, Goto,
     LoopStep, stores, Live, TypeOK, LocalsOK
<1>2. CASE StateLookup(p) \/ DestinationLookup(p)
  BY <1>2 DEF StateLookup, DestinationLookup, Measured, Throw, Goto, Present,
     NotPresent, Outcome, stores, Live, TypeOK, LocalsOK
<1>3. CASE Import(p) \/ StateWrite(p) \/ SourceArchive(p)
  BY <1>3 DEF Import, StateWrite, SourceArchive, Measured, Throw, Goto, Outcome,
     ImportInto, MarkImported, MoveToTransferred, stores, Live, TypeOK, LocalsOK
<1>. QED
  BY <1>1, <1>2, <1>3 DEF RunStep

LEMMA InnerStepHistory ==
  ASSUME TypeOK, HistoryInv, NEW p \in Procs, RunStep(p), ~CompleteRun(p)
  PROVE  HistoryInv'
<1>1. \A q \in Procs : Live(q)' => Live(q)
  BY InnerStep DEF Live
<1>2. \A i \in RunIds : jobRuns'[i].status = jobRuns[i].status
  BY InnerStep, UpdateRunEffect
<1>3. UNCHANGED <<run, nextRun>>
  BY InnerStep, UpdateRunEffect
<1>. QED
  BY <1>1, <1>2, <1>3, OwnersStay

LEMMA CompleteRunHistory ==
  ASSUME TypeOK, HistoryInv, NEW p \in Procs, CompleteRun(p)
  PROVE  HistoryInv'
<1>1. Live(p) /\ EndRun(p) /\ run[p] \in RunIds
  BY DEF CompleteRun, Live, HistoryInv, RowsAreOwned
<1>2. /\ UNCHANGED nextRun
      /\ \A i \in RunIds \ {run[p]} : jobRuns'[i] = jobRuns[i]
      /\ jobRuns[run[p]].status = "Absent" => jobRuns'[run[p]].status = "Absent"
  BY <1>1, UpdateRowEffect DEF CompleteRun, stores
<1>. QED
  BY <1>1, <1>2, EndedRun

LEMMA StartRunHistory ==
  ASSUME TypeOK, HistoryInv, NEW p \in Procs, NEW dry \in BOOLEAN, StartRun(p, dry)
  PROVE  HistoryInv'
<1>1. PICK cutoff \in Cutoffs :
        \/ /\ InsertRow(p, dry, cutoff)
           /\ \/ UNCHANGED locals
              \/ \E step \in {"read", "complete"}, fails \in BOOLEAN : Begin(p, dry, step, fails)
        \/ /\ jobRuns' = Purged(cutoff)
           /\ UNCHANGED <<nextRun, locals>>
  BY DEF StartRun
<1>2. /\ \A i \in RunIds : Purged(cutoff)[i] = IF i <= cutoff THEN NoRow ELSE jobRuns[i]
      /\ \A q \in Procs : Live(q) => ~(run[q] <= cutoff)
  BY DEF Purged, Cutoffs, TypeOK, LocalsOK
<1>3. NoRow.status = "Absent"
  BY DEF NoRow
<1>4. CASE jobRuns' = Purged(cutoff) /\ UNCHANGED <<nextRun, locals>>
  <2>1. RowsAreFresh'
    BY <1>2, <1>3, <1>4 DEF HistoryInv, RowsAreFresh
  <2>2. RowsAreOwned'
    BY <1>2, <1>3, <1>4 DEF HistoryInv, RowsAreOwned, Live, locals
  <2>. QED
    BY <2>1, <2>2 DEF HistoryInv
<1>5. CASE InsertRow(p, dry, cutoff)
  <2>1. nextRun \in RunIds /\ nextRun' = nextRun + 1
    BY <1>5 DEF StartRun, InsertRow, TypeOK, StoresOK, RunIds
  <2>2. /\ \A i \in RunIds \ {nextRun} : jobRuns'[i] = Purged(cutoff)[i]
        /\ jobRuns'[nextRun].status = "Running"
    BY <1>5, <2>1 DEF InsertRow, Purged
  <2>3. RowsAreFresh'
    <3>1. ASSUME NEW i \in RunIds, i >= nextRun' PROVE jobRuns'[i].status = "Absent"
      <4>1. i # nextRun /\ i >= nextRun
        BY <2>1, <3>1 DEF RunIds
      <4>. QED
        BY <1>2, <1>3, <2>2, <4>1 DEF HistoryInv, RowsAreFresh
    <3>. QED
      BY <3>1 DEF RowsAreFresh
  <2>4. ASSUME NEW q \in Procs, Live(q)
        PROVE  /\ run[q] \in RunIds /\ run[q] # nextRun /\ run[q] < nextRun'
               /\ jobRuns'[run[q]].status \in {"Running", "Absent"}
    <3>1. run[q] \in RunIds /\ run[q] < nextRun
      BY <2>4 DEF HistoryInv, RowsAreOwned
    <3>2. run[q] # nextRun /\ run[q] < nextRun'
      BY <2>1, <3>1 DEF RunIds
    <3>. QED
      BY <1>2, <2>2, <2>4, <3>1, <3>2 DEF HistoryInv, RowsAreOwned
  <2>5. CASE UNCHANGED locals
    <3>1. RowsAreOwned'
      BY <2>4, <2>5 DEF HistoryInv, RowsAreOwned, Live, locals
    <3>. QED
      BY <2>3, <3>1 DEF HistoryInv
  <2>6. CASE \E step \in {"read", "complete"}, fails \in BOOLEAN : Begin(p, dry, step, fails)
    <3>1. /\ \A q \in Procs \ {p} : pc'[q] = pc[q] /\ run'[q] = run[q]
          /\ run'[p] = nextRun
      BY <2>6 DEF Begin, TypeOK, LocalsOK
    <3>2. \A q \in Procs \ {p} : Live(q)' => Live(q)
      BY <3>1 DEF Live
    <3>3. nextRun < nextRun'
      BY <2>1 DEF RunIds
    <3>4. RowsAreOwned'
      BY <2>1, <2>2, <2>4, <3>1, <3>2, <3>3 DEF HistoryInv, RowsAreOwned
    <3>. QED
      BY <2>3, <3>4 DEF HistoryInv
  <2>. QED
    BY <1>1, <1>5, <2>1, <2>5, <2>6 DEF InsertRow, TypeOK, StoresOK
<1>. QED
  BY <1>1, <1>4, <1>5

LEMMA OthersHistory ==
  ASSUME TypeOK, HistoryInv,
         \/ \E p \in Procs : Crash(p)
         \/ \E m \in Msgs : Deliver(m)
         \/ ResetUidValidity
         \/ \E i \in RunIds : DeleteRun(i)
         \/ UNCHANGED vars
  PROVE  HistoryInv'
<1>1. ASSUME NEW p \in Procs, Crash(p) PROVE HistoryInv'
  BY <1>1, EndedRun DEF Crash, stores
<1>2. CASE \/ \E m \in Msgs : Deliver(m)
           \/ ResetUidValidity
           \/ UNCHANGED vars
  BY <1>2, OwnersStay DEF Deliver, ResetUidValidity, vars, stores, locals, Live
<1>3. ASSUME NEW i \in RunIds, DeleteRun(i) PROVE HistoryInv'
  BY <1>3, OwnersStay DEF DeleteRun, locals, Live, NoRow, TypeOK, StoresOK
<1>. QED
  BY <1>1, <1>2, <1>3

LEMMA HistoryInvariance == Spec => []HistoryInv
<1>1. Init => HistoryInv
  BY DEF Init, HistoryInv, RowsAreFresh, RowsAreOwned, NoRow, Live
<1>2. TypeOK /\ HistoryInv /\ [Next]_vars => HistoryInv'
  BY InnerStepHistory, CompleteRunHistory, StartRunHistory, OthersHistory DEF Next
<1>. QED
  BY <1>1, <1>2, TypeCorrect, PTL DEF Spec

\* Runs in progress write to rows of their own, still marked running or
\* already deleted, however many processes run and whatever is purged.
THEOREM RowsAreNotShared == Spec => []RowsAreOwned
BY HistoryInvariance, PTL DEF HistoryInv

-----------------------------------------------------------------------------
(***************************************************************************)
(* Results are final.                                                      *)
(***************************************************************************)

FinalStep ==
  \A i \in RunIds :
    \/ jobRuns[i].status = "Running"
    \/ jobRuns[i].status = "Absent" /\ i >= nextRun
    \/ jobRuns'[i] \in {jobRuns[i], NoRow}

LEMMA RunStepFinal ==
  ASSUME TypeOK, HistoryInv, NEW p \in Procs, RunStep(p)
  PROVE  FinalStep
<1>1. CASE CompleteRun(p)
  <2>1. run[p] \in RunIds /\ jobRuns[run[p]].status \in {"Running", "Absent"}
    BY <1>1 DEF CompleteRun, Live, HistoryInv, RowsAreOwned
  <2>. QED
    BY <1>1, <2>1, UpdateRowEffect DEF CompleteRun, stores, FinalStep
<1>2. CASE ~CompleteRun(p)
  <2>1. run[p] \in RunIds /\ jobRuns[run[p]].status \in {"Running", "Absent"}
    BY <1>2, InnerStep DEF HistoryInv, RowsAreOwned
  <2>. QED
    BY <1>2, <2>1, InnerStep, UpdateRunEffect DEF FinalStep
<1>. QED
  BY <1>1, <1>2

LEMMA StartRunFinal ==
  ASSUME TypeOK, HistoryInv, NEW p \in Procs, NEW dry \in BOOLEAN, StartRun(p, dry)
  PROVE  FinalStep
<1>1. PICK cutoff \in Cutoffs : InsertRow(p, dry, cutoff) \/ jobRuns' = Purged(cutoff)
  BY DEF StartRun
<1>2. \A i \in RunIds \ {nextRun} : jobRuns'[i] \in {jobRuns[i], NoRow}
  BY <1>1 DEF InsertRow, Purged
<1>3. nextRun \in RunIds /\ jobRuns[nextRun].status = "Absent" /\ nextRun >= nextRun
  BY DEF StartRun, TypeOK, StoresOK, RunIds, HistoryInv, RowsAreFresh
<1>. QED
  BY <1>2, <1>3 DEF FinalStep

\* A stored result never changes and a removed row never comes back.
THEOREM StoredResultsAreFinal == Spec => ResultsAreFinal
<1>1. TypeOK /\ HistoryInv /\ [Next]_vars => [FinalStep]_vars
  <2>. SUFFICES ASSUME TypeOK, HistoryInv, Next PROVE FinalStep
    OBVIOUS
  <2>1. CASE \/ \E q \in Procs : Crash(q)
             \/ \E m \in Msgs : Deliver(m)
             \/ ResetUidValidity
    BY <2>1 DEF Crash, Deliver, ResetUidValidity, stores, FinalStep
  <2>2. ASSUME NEW i \in RunIds, DeleteRun(i) PROVE FinalStep
    BY <2>2 DEF DeleteRun, TypeOK, StoresOK, FinalStep
  <2>. QED
    BY <2>1, <2>2, RunStepFinal, StartRunFinal DEF Next
<1>. QED
  BY <1>1, TypeCorrect, HistoryInvariance, PTL DEF Spec, ResultsAreFinal, FinalStep

-----------------------------------------------------------------------------
(***************************************************************************)
(* Dry runs.                                                               *)
(***************************************************************************)

LEMMA DryInvariance == Spec => []DryRunsInspect
<1>1. Init => DryRunsInspect
  BY DEF Init, DryRunsInspect
<1>2. ASSUME TypeOK, DryRunsInspect, NEW p \in Procs, RunStep(p)
      PROVE  DryRunsInspect'
  <2>1. CASE ReadSource(p) \/ UpdateSource(p) \/ UpdateEmail(p) \/ Finish(p)
    BY <1>2, <2>1 DEF ReadSource, UpdateSource, UpdateEmail, Finish, Measured, Throw,
       Goto, LoopStep, TypeOK, LocalsOK, DryRunsInspect
  <2>2. CASE StateLookup(p) \/ DestinationLookup(p)
    BY <1>2, <2>2 DEF StateLookup, DestinationLookup, Measured, Throw, Goto, Present,
       NotPresent, Outcome, TypeOK, LocalsOK, DryRunsInspect
  <2>3. CASE Import(p) \/ StateWrite(p) \/ SourceArchive(p)
    BY <1>2, <2>3 DEF Import, StateWrite, SourceArchive, Measured, Throw, Goto, Outcome,
       TypeOK, LocalsOK, DryRunsInspect
  <2>4. CASE CompleteRun(p)
    BY <1>2, <2>4 DEF CompleteRun, EndRun, TypeOK, LocalsOK, DryRunsInspect
  <2>. QED
    BY <1>2, <2>1, <2>2, <2>3, <2>4 DEF RunStep
<1>3. ASSUME TypeOK, DryRunsInspect, NEW p \in Procs, NEW dry \in BOOLEAN, StartRun(p, dry)
      PROVE  DryRunsInspect'
  <2>1. \/ UNCHANGED locals
        \/ /\ \A q \in Procs \ {p} : pc'[q] = pc[q] /\ dryRun'[q] = dryRun[q]
           /\ pc'[p] \in {"read", "complete"}
    BY <1>3 DEF StartRun, Begin, TypeOK, LocalsOK
  <2>. QED
    BY <1>3, <2>1 DEF locals, DryRunsInspect
<1>4. ASSUME TypeOK, DryRunsInspect,
             \/ \E p \in Procs : Crash(p)
             \/ \E m \in Msgs : Deliver(m)
             \/ ResetUidValidity
             \/ \E i \in RunIds : DeleteRun(i)
             \/ UNCHANGED vars
      PROVE  DryRunsInspect'
  BY <1>4 DEF Crash, EndRun, Deliver, ResetUidValidity, DeleteRun, vars, locals,
     TypeOK, LocalsOK, DryRunsInspect
<1>5. TypeOK /\ DryRunsInspect /\ [Next]_vars => DryRunsInspect'
  BY <1>2, <1>3, <1>4 DEF Next
<1>. QED
  BY <1>1, <1>5, TypeCorrect, PTL DEF Spec

DryStep ==
  \A p \in Procs :
    dryRun[p] /\ <<pc[p], todo[p]>> # <<pc[p], todo[p]>>' =>
      UNCHANGED <<place, uids, gmail, importedMessages>>

\* A dry run changes nothing, whatever the lookups answer.
THEOREM DryRunsAreHarmless == Spec => DryRunChangesNothing
<1>1. TypeOK /\ HistoryInv /\ DryRunsInspect /\ [Next]_vars => [DryStep]_vars
  <2>. SUFFICES ASSUME TypeOK, HistoryInv, DryRunsInspect, Next,
                       NEW p \in Procs, dryRun[p],
                       <<pc[p], todo[p]>> # <<pc[p], todo[p]>>'
                PROVE  UNCHANGED <<place, uids, gmail, importedMessages>>
    BY DEF DryStep
  <2>1. ASSUME NEW q \in Procs, RunStep(q), ~CompleteRun(q)
        PROVE  UNCHANGED <<place, uids, gmail, importedMessages>>
    <3>1. q = p
      BY <2>1, InnerStep
    <3>2. ~(Import(q) \/ StateWrite(q) \/ SourceArchive(q))
      BY <3>1 DEF DryRunsInspect, Import, StateWrite, SourceArchive
    <3>3. CASE ReadSource(q) \/ UpdateSource(q) \/ StateLookup(q) \/ DestinationLookup(q)
      BY <3>3 DEF ReadSource, UpdateSource, StateLookup, DestinationLookup,
         Measured, UpdateRun, UpdateRow, stores
    <3>4. CASE UpdateEmail(q) \/ Finish(q)
      BY <3>4 DEF UpdateEmail, Finish, Measured, UpdateRun, UpdateRow, stores
    <3>. QED
      BY <2>1, <3>2, <3>3, <3>4 DEF RunStep
  <2>2. CASE \E q \in Procs : CompleteRun(q) \/ Crash(q)
    BY <2>2 DEF CompleteRun, Crash, UpdateRow, stores
  <2>3. CASE \E q \in Procs, dry \in BOOLEAN : StartRun(q, dry)
    BY <2>3 DEF StartRun, InsertRow
  <2>4. CASE (\E m \in Msgs : Deliver(m)) \/ ResetUidValidity \/ \E i \in RunIds : DeleteRun(i)
    BY <2>4 DEF Deliver, ResetUidValidity, DeleteRun, locals
  <2>. QED
    BY <2>1, <2>2, <2>3, <2>4 DEF Next
<1>. QED
  BY <1>1, TypeCorrect, HistoryInvariance, DryInvariance, PTL
     DEF Spec, DryRunChangesNothing, DryStep
-----------------------------------------------------------------------------
(***************************************************************************)
(* The rows of job_runs live as JobRunLifecycle says.                      *)
(***************************************************************************)
\* Between runs a process has no row.
IdleHasNoRun == \A p \in Procs : ~Live(p) => run[p] = 0

LEMMA IdleInvariance == Spec => []IdleHasNoRun
<1>1. Init => IdleHasNoRun
  BY DEF Init, IdleHasNoRun
<1>2. ASSUME TypeOK, HistoryInv, IdleHasNoRun, NEW p \in Procs, RunStep(p)
      PROVE  IdleHasNoRun'
  <2>1. CASE CompleteRun(p)
    BY <1>2, <2>1 DEF CompleteRun, EndRun, TypeOK, LocalsOK, Live, IdleHasNoRun
  <2>2. CASE ~CompleteRun(p)
    BY <1>2, <2>2, InnerStep DEF IdleHasNoRun, Live
  <2>. QED
    BY <2>1, <2>2
<1>3. ASSUME TypeOK, IdleHasNoRun, NEW p \in Procs, NEW dry \in BOOLEAN, StartRun(p, dry)
      PROVE  IdleHasNoRun'
  BY <1>3 DEF StartRun, Begin, locals, TypeOK, LocalsOK, Live, IdleHasNoRun
<1>4. ASSUME TypeOK, IdleHasNoRun,
             \/ \E p \in Procs : Crash(p)
             \/ \E m \in Msgs : Deliver(m)
             \/ ResetUidValidity
             \/ \E i \in RunIds : DeleteRun(i)
             \/ UNCHANGED vars
      PROVE  IdleHasNoRun'
  BY <1>4 DEF Crash, EndRun, Deliver, ResetUidValidity, DeleteRun, vars, locals,
     TypeOK, LocalsOK, Live, IdleHasNoRun
<1>5. TypeOK /\ HistoryInv /\ IdleHasNoRun /\ [Next]_vars => IdleHasNoRun'
  BY <1>2, <1>3, <1>4 DEF Next
<1>. QED
  BY <1>1, <1>5, TypeCorrect, HistoryInvariance, PTL DEF Spec

-----------------------------------------------------------------------------
(***************************************************************************)
(* The refinement.                                                         *)
(***************************************************************************)
statuses == [i \in RunIds |-> jobRuns[i].status]

LifecycleStep == [Lifecycle!HistoryNext]_<<statuses, nextRun, run>>

\* Only the retention needs to know which runs are in progress.
LEMMA SameCutoffs ==
  ASSUME TypeOK, HistoryInv, IdleHasNoRun
  PROVE  /\ Lifecycle!Cutoffs = Cutoffs
         /\ \A c \in Cutoffs : [i \in RunIds |-> Purged(c)[i].status] = Lifecycle!Purged(c)
<1>1. \A q \in Procs : Live(q) <=> run[q] # 0
  BY DEF HistoryInv, RowsAreOwned, IdleHasNoRun, RunIds
<1>. QED
  BY <1>1 DEF Cutoffs, Lifecycle!Cutoffs, Purged, Lifecycle!Purged, NoRow, RunIds,
     Lifecycle!RunIds

LEMMA StartRunRefines ==
  ASSUME TypeOK, HistoryInv, IdleHasNoRun, NEW p \in Procs, NEW dry \in BOOLEAN,
         StartRun(p, dry)
  PROVE  LifecycleStep
<1>1. PICK cutoff \in Cutoffs :
        \/ jobRuns' = Purged(cutoff) /\ UNCHANGED <<nextRun, run>>
        \/ InsertRow(p, dry, cutoff) /\ run' \in {run, [run EXCEPT ![p] = nextRun]}
  BY DEF StartRun, Begin, locals
<1>2. CASE jobRuns' = Purged(cutoff) /\ UNCHANGED <<nextRun, run>>
  <2>1. statuses' = Lifecycle!Purged(cutoff)
    BY <1>2, SameCutoffs DEF statuses
  <2>2. Lifecycle!Purge
    BY <1>2, <2>1, SameCutoffs DEF Lifecycle!Purge, statuses
  <2>. QED
    BY <2>2 DEF LifecycleStep, Lifecycle!HistoryNext
<1>3. CASE InsertRow(p, dry, cutoff) /\ run' \in {run, [run EXCEPT ![p] = nextRun]}
  <2>1. nextRun \in RunIds /\ nextRun <= MaxRuns
    BY DEF StartRun, TypeOK, StoresOK, RunIds
  <2>2. statuses' = [[i \in RunIds |-> Purged(cutoff)[i].status] EXCEPT ![nextRun] = "Running"]
    BY <1>3, <2>1 DEF InsertRow, statuses, Purged
  <2>3. statuses' = [Lifecycle!Purged(cutoff) EXCEPT ![nextRun] = "Running"]
    BY <2>2, SameCutoffs
  <2>4. run[p] = 0
    BY DEF StartRun, IdleHasNoRun, Live
  <2>5. Lifecycle!Start(p)
    BY <1>3, <2>1, <2>3, <2>4, SameCutoffs DEF Lifecycle!Start, InsertRow, statuses
  <2>. QED
    BY <2>5 DEF LifecycleStep, Lifecycle!HistoryNext
<1>. QED
  BY <1>1, <1>2, <1>3

\* A run ends with its result stored, or with its row left as it was.
LEMMA EndRefines ==
  ASSUME TypeOK, HistoryInv, IdleHasNoRun, NEW p \in Procs, CompleteRun(p) \/ Crash(p)
  PROVE  LifecycleStep
<1>1. Live(p)
  BY DEF CompleteRun, Crash, Live
<1>2. /\ run[p] \in RunIds /\ run[p] # 0
      /\ jobRuns[run[p]].status \in {"Running", "Absent"}
  BY <1>1 DEF HistoryInv, RowsAreOwned, RunIds
<1>3. run' = [run EXCEPT ![p] = 0] /\ UNCHANGED nextRun
  BY DEF CompleteRun, Crash, EndRun, UpdateRow, stores
<1>4. PICK result \in {"Completed", "Failed", "Running"} :
        statuses' = [statuses EXCEPT ![run[p]] = IF @ = "Absent" THEN @ ELSE result]
  <2>1. CASE UNCHANGED jobRuns
    <3>1. statuses' = statuses /\ statuses = [statuses EXCEPT ![run[p]] = statuses[run[p]]]
      BY <1>2, <2>1 DEF statuses
    <3>2. statuses[run[p]] \in {"Running", "Absent"}
      BY <1>2 DEF statuses
    <3>. QED
      BY <3>1, <3>2
  <2>2. CASE \E result \in {"Completed", "Failed"} : UpdateRow(p, result)
    <3>1. PICK result \in {"Completed", "Failed"} : UpdateRow(p, result)
      BY <2>2
    <3>2. /\ statuses'[run[p]] = IF statuses[run[p]] = "Absent" THEN "Absent" ELSE result
          /\ \A i \in RunIds \ {run[p]} : statuses'[i] = statuses[i]
      BY <1>2, <3>1 DEF UpdateRow, statuses, TypeOK, StoresOK
    <3>3. statuses' = [statuses EXCEPT ![run[p]] = IF @ = "Absent" THEN @ ELSE result]
      BY <1>2, <3>2 DEF statuses
    <3>. QED
      BY <3>3
  <2>. QED
    BY <2>1, <2>2 DEF CompleteRun, Crash, stores
<1>5. Lifecycle!End(p, result)
  BY <1>2, <1>3, <1>4 DEF Lifecycle!End, statuses
<1>. QED
  BY <1>5 DEF LifecycleStep, Lifecycle!HistoryNext, Lifecycle!Results

LEMMA RestRefines ==
  ASSUME TypeOK, HistoryInv,
         \/ \E p \in Procs : RunStep(p) /\ ~CompleteRun(p)
         \/ \E m \in Msgs : Deliver(m)
         \/ ResetUidValidity
         \/ UNCHANGED vars
  PROVE  UNCHANGED <<statuses, nextRun, run>>
<1>1. CASE \E p \in Procs : RunStep(p) /\ ~CompleteRun(p)
  BY <1>1, InnerStep, UpdateRunEffect DEF statuses
<1>2. CASE (\E m \in Msgs : Deliver(m)) \/ ResetUidValidity \/ UNCHANGED vars
  BY <1>2 DEF Deliver, ResetUidValidity, vars, stores, locals, statuses
<1>. QED
  BY <1>1, <1>2

LEMMA DeleteRunRefines ==
  ASSUME TypeOK, NEW i \in RunIds, DeleteRun(i)
  PROVE  LifecycleStep
<1>1. statuses' = [statuses EXCEPT ![i] = "Absent"] /\ UNCHANGED <<nextRun, run>>
  BY DEF DeleteRun, statuses, NoRow, TypeOK, StoresOK, locals
<1>2. Lifecycle!Delete(i)
  BY <1>1 DEF Lifecycle!Delete, statuses
<1>. QED
  BY <1>2 DEF LifecycleStep, Lifecycle!HistoryNext, Lifecycle!RunIds, RunIds

\* However the steps of TransferAsync interleave, fail and are cut short, the
\* table job_runs goes through the life of rows that the tray expects.
THEOREM KeepsLifecycle == Spec => ImplementsLifecycle
<1>1. Init => Lifecycle!HistoryInit
  BY DEF Init, Lifecycle!HistoryInit, NoRow, RunIds, Lifecycle!RunIds
<1>2. TypeOK /\ HistoryInv /\ IdleHasNoRun /\ [Next]_vars => LifecycleStep
  BY StartRunRefines, EndRefines, RestRefines, DeleteRunRefines
     DEF Next, RunStep, LifecycleStep
<1>. QED
  BY <1>1, <1>2, TypeCorrect, HistoryInvariance, IdleInvariance, PTL
     DEF Spec, ImplementsLifecycle, Lifecycle!HistorySpec, Lifecycle!history,
         LifecycleStep, statuses
-----------------------------------------------------------------------------
(***************************************************************************)
(* How many copies of a message Gmail may come to hold.                    *)
(*                                                                         *)
(* The lookup and the import are two requests, so processes that overlap   *)
(* can both find nothing and both import.  The invariants count, with the  *)
(* copies that are there, the processes that already decided to import     *)
(* (BudgetKept), and say which ids a single process cannot have confirmed  *)
(* when it decides (Unconfirmed).                                          *)
(***************************************************************************)
USE ProcsAssumption, MessagesAssumption, BoundsAssumption

(***************************************************************************)
(* One copy per process.                                                   *)
(***************************************************************************)
\* The processes about to import m.
Importers(m) == {p \in Procs : pc[p] = "import" /\ \E e \in todo[p] : IsCurrent(p, e) /\ e.msg = m}

\* The copies of an identified message and those on their way.
BudgetKept ==
  \A m \in Msgs :
    MessageIdOf[m] # NoMessageId => gmail[m] + Cardinality(Importers(m)) <= Cardinality(Procs)

\* There are finitely many processes.
LEMMA ImportersType ==
  ASSUME NEW S \in SUBSET Procs
  PROVE  IsFiniteSet(S) /\ Cardinality(S) \in Nat /\ Cardinality(S) <= Cardinality(Procs)
BY FS_Subset, FS_CardinalityType

\* Nobody decides to import, and Gmail is left alone.
LEMMA BudgetStays ==
  ASSUME TypeOK, BudgetKept, UNCHANGED gmail,
         \A m \in Msgs : MessageIdOf[m] # NoMessageId => Importers(m)' \subseteq Importers(m)
  PROVE  BudgetKept'
<1>. SUFFICES ASSUME NEW m \in Msgs, MessageIdOf[m] # NoMessageId
              PROVE  gmail'[m] + Cardinality(Importers(m)') <= Cardinality(Procs)
  BY DEF BudgetKept
<1>. DEFINE S == Importers(m)
            T == Importers(m)'
<1>1. gmail[m] + Cardinality(S) <= Cardinality(Procs) /\ gmail'[m] \in Nat /\ gmail'[m] = gmail[m]
  BY DEF BudgetKept, TypeOK, StoresOK
<1>2. S \in SUBSET Procs /\ T \subseteq S
  BY DEF Importers
<1>. HIDE DEF S, T
<1>3. IsFiniteSet(S) /\ Cardinality(S) \in Nat /\ Cardinality(T) \in Nat
      /\ Cardinality(Procs) \in Nat
  BY <1>2, ImportersType
<1>4. Cardinality(T) <= Cardinality(S)
  BY <1>2, <1>3, FS_Subset
<1>5. gmail'[m] + Cardinality(T) <= Cardinality(Procs)
  BY <1>1, <1>3, <1>4
<1>. QED
  BY <1>5 DEF T

\* What a step of p cannot change about the others.
LEMMA OtherImporters ==
  ASSUME NEW p \in Procs, NEW m,
         \A q \in Procs \ {p} : pc'[q] = pc[q] /\ todo'[q] = todo[q]
  PROVE  Importers(m)' \ {p} = Importers(m) \ {p}
BY DEF Importers, IsCurrent

\* An import turns an importer into a copy.
LEMMA ImportBudget ==
  ASSUME TypeOK, StepsJustified, BudgetKept, HistoryInv, NEW p \in Procs, Import(p)
  PROVE  BudgetKept'
<1>1. PICK e \in todo[p] :
        /\ IsCurrent(p, e)
        /\ ImportInto(e.msg) \/ UNCHANGED stores
        /\ Goto(p, "stateWrite") \/ Throw(p)
  BY DEF Import, Measured
<1>2. /\ pc[p] = "import" /\ pc'[p] # "import"
      /\ \A q \in Procs \ {p} : pc'[q] = pc[q] /\ todo'[q] = todo[q]
  BY <1>1 DEF Import, Goto, Throw, TypeOK, LocalsOK, EmailSteps
<1>3. \A m : Importers(m)' = Importers(m) \ {p}
  BY <1>2, OtherImporters DEF Importers
<1>4. CASE UNCHANGED gmail
  BY <1>3, <1>4, BudgetStays
<1>5. CASE ImportInto(e.msg)
  <2>. SUFFICES ASSUME NEW m \in Msgs, MessageIdOf[m] # NoMessageId
                PROVE  gmail'[m] + Cardinality(Importers(m)') <= Cardinality(Procs)
    BY DEF BudgetKept
  <2>. DEFINE S == Importers(m)
  <2>1. gmail[m] + Cardinality(S) <= Cardinality(Procs) /\ gmail[m] \in Nat
    BY DEF BudgetKept, TypeOK, StoresOK
  <2>2. gmail'[m] = IF m = e.msg THEN gmail[m] + 1 ELSE gmail[m]
    BY <1>5 DEF ImportInto, TypeOK, StoresOK
  <2>3. m = e.msg => p \in S
    BY <1>1, <1>2 DEF Importers
  <2>4. S \in SUBSET Procs
    BY DEF Importers
  <2>. HIDE DEF S
  <2>5. /\ Cardinality(S) \in Nat /\ Cardinality(S \ {p}) \in Nat /\ Cardinality(Procs) \in Nat
        /\ Cardinality(S \ {p}) <= Cardinality(S)
        /\ p \in S => Cardinality(S \ {p}) = Cardinality(S) - 1
    <3>1. S \ {p} \in SUBSET Procs /\ IsFiniteSet(S)
      BY <2>4, ImportersType
    <3>. QED
      BY <2>4, <3>1, ImportersType, FS_RemoveElement
  <2>6. gmail'[m] + Cardinality(S \ {p}) <= Cardinality(Procs)
    BY <2>1, <2>2, <2>3, <2>5
  <2>. QED
    BY <1>3, <2>6 DEF S
<1>. QED
  BY <1>1, <1>4, <1>5 DEF stores

\* A process decides to import an identified message when Gmail has none.
LEMMA LookupBudget ==
  ASSUME TypeOK, StepsJustified, BudgetKept, NEW p \in Procs,
         StateLookup(p) \/ DestinationLookup(p)
  PROVE  BudgetKept'
<1>1. PICK e \in todo[p] :
        /\ IsCurrent(p, e)
        /\ UNCHANGED <<gmail, todo>>
        /\ \A q \in Procs \ {p} : pc'[q] = pc[q]
        /\ pc'[p] = "import" /\ MessageIdOf[e.msg] # NoMessageId => gmail[e.msg] = 0
  <2>1. CASE StateLookup(p)
    BY <2>1 DEF StateLookup, Measured, Throw, Goto, Present, NotPresent, Outcome,
       stores, TypeOK, LocalsOK, EmailSteps
  <2>2. CASE DestinationLookup(p)
    <3>1. PICK e \in todo[p] :
            /\ IsCurrent(p, e)
            /\ UNCHANGED <<gmail, todo>>
            /\ \A q \in Procs \ {p} : pc'[q] = pc[q]
            /\ pc'[p] = "import" => ~Exists(MessageIdOf[e.msg])
      BY <2>2 DEF DestinationLookup, Measured, Throw, Goto, Present, NotPresent, Outcome,
         stores, TypeOK, LocalsOK, EmailSteps
    <3>2. e.msg \in Msgs
      BY DEF TypeOK, LocalsOK, Emails
    <3>3. ~Exists(MessageIdOf[e.msg]) => gmail[e.msg] = 0
      <4>1. gmail[e.msg] \in Nat
        BY <3>2 DEF TypeOK, StoresOK
      <4>2. gmail[e.msg] > 0 => Exists(MessageIdOf[e.msg])
        BY <3>2 DEF Exists
      <4>. QED
        BY <4>1, <4>2
    <3>. QED
      BY <3>1, <3>3
  <2>. QED
    BY <2>1, <2>2
<1>2. \A q \in Procs \ {p} : pc'[q] = pc[q] /\ todo'[q] = todo[q]
  BY <1>1
<1>. SUFFICES ASSUME NEW m \in Msgs, MessageIdOf[m] # NoMessageId
              PROVE  gmail'[m] + Cardinality(Importers(m)') <= Cardinality(Procs)
  BY DEF BudgetKept
<1>. DEFINE S == Importers(m)
            T == Importers(m)'
<1>3. gmail[m] + Cardinality(S) <= Cardinality(Procs) /\ gmail[m] \in Nat
  BY DEF BudgetKept, TypeOK, StoresOK
<1>4. T \in SUBSET Procs /\ S \in SUBSET Procs
  BY DEF Importers
<1>5. p \in T => gmail[m] = 0
  <2>. SUFFICES ASSUME p \in T PROVE gmail[m] = 0
    OBVIOUS
  <2>1. PICK f \in todo[p] : IsCurrent(p, f) /\ f.msg = m
    BY <1>1 DEF Importers, IsCurrent
  <2>2. f = e
    BY <1>1, <2>1, CurrentUnique
  <2>. QED
    BY <1>1, <2>1, <2>2 DEF Importers
<1>6. p \notin T => T \subseteq S
  BY <1>2, OtherImporters
<1>. HIDE DEF S, T
<1>7. /\ IsFiniteSet(S) /\ Cardinality(S) \in Nat /\ Cardinality(T) \in Nat
      /\ Cardinality(Procs) \in Nat /\ Cardinality(T) <= Cardinality(Procs)
  BY <1>4, ImportersType
<1>8. T \subseteq S => Cardinality(T) <= Cardinality(S)
  BY <1>7, FS_Subset
<1>9. gmail[m] + Cardinality(T) <= Cardinality(Procs)
  BY <1>3, <1>5, <1>6, <1>7, <1>8
<1>. QED
  BY <1>1, <1>9 DEF T

LEMMA BudgetStep ==
  ASSUME TypeOK, StepsJustified, HistoryInv, BudgetKept, [Next]_vars
  PROVE  BudgetKept'
<1>1. ASSUME NEW p \in Procs, UNCHANGED gmail, pc'[p] # "import",
             \A q \in Procs \ {p} : pc'[q] = pc[q] /\ todo'[q] = todo[q]
      PROVE  BudgetKept'
  <2>1. \A m : Importers(m)' \subseteq Importers(m)
    <3>1. \A m : p \notin Importers(m)'
      BY <1>1 DEF Importers
    <3>. QED
      BY <1>1, <3>1, OtherImporters
  <2>. QED
    BY <1>1, <2>1, BudgetStays
<1>2. ASSUME UNCHANGED <<gmail, pc, todo>> PROVE BudgetKept'
  BY <1>2, BudgetStays DEF Importers, IsCurrent
<1>3. ASSUME NEW p \in Procs, RunStep(p), ~Import(p), ~StateLookup(p), ~DestinationLookup(p),
             ~CompleteRun(p)
      PROVE  BudgetKept'
  <2>1. UNCHANGED gmail /\ pc'[p] # "import"
    BY <1>3 DEF RunStep, ReadSource, UpdateSource, StateWrite, SourceArchive, UpdateEmail,
       Finish, Measured, Throw, Goto, Outcome, LoopStep, MarkImported,
       MoveToTransferred, UpdateRun, UpdateRow, stores, TypeOK, LocalsOK, EmailSteps
  <2>. QED
    BY <1>1, <1>3, <2>1, InnerStep
<1>4. ASSUME NEW p \in Procs, CompleteRun(p) \/ Crash(p)
      PROVE  BudgetKept'
  <2>1. /\ UNCHANGED gmail /\ pc'[p] # "import"
        /\ \A q \in Procs \ {p} : pc'[q] = pc[q] /\ todo'[q] = todo[q]
    BY <1>4 DEF CompleteRun, Crash, UpdateRow, EndRun, stores, TypeOK, LocalsOK
  <2>. QED
    BY <1>1, <2>1
<1>5. ASSUME NEW p \in Procs, NEW dry \in BOOLEAN, StartRun(p, dry)
      PROVE  BudgetKept'
  <2>1. /\ UNCHANGED gmail /\ pc'[p] # "import"
        /\ \A q \in Procs \ {p} : pc'[q] = pc[q] /\ todo'[q] = todo[q]
    BY <1>5 DEF StartRun, InsertRow, Begin, locals, TypeOK, LocalsOK
  <2>. QED
    BY <1>1, <2>1
<1>6. CASE \/ \E m \in Msgs : Deliver(m)
           \/ ResetUidValidity
           \/ \E i \in RunIds : DeleteRun(i)
           \/ UNCHANGED vars
  BY <1>2, <1>6 DEF Deliver, ResetUidValidity, DeleteRun, vars, stores, locals
<1>. QED
  BY <1>3, <1>4, <1>5, <1>6, ImportBudget, LookupBudget DEF Next, RunStep

LEMMA BudgetInit == Init => BudgetKept
<1>. SUFFICES ASSUME Init, NEW m \in Msgs
              PROVE  gmail[m] + Cardinality(Importers(m)) <= Cardinality(Procs)
  BY DEF BudgetKept
<1>1. Importers(m) = {} /\ gmail[m] \in {0, 1}
  <2>1. pc = [p \in Procs |-> "idle"]
    BY DEF Init
  <2>2. \E S \in SUBSET Backlog : gmail = [n \in Msgs |-> IF n \in S THEN 1 ELSE 0]
    BY DEF Init
  <2>. QED
    BY <2>1, <2>2 DEF Importers
<1>2. Cardinality({}) = 0 /\ Cardinality(Procs) \in Nat /\ Cardinality(Procs) # 0
  BY FS_EmptySet, FS_CardinalityType
<1>3. Cardinality(Importers(m)) = 0
  BY <1>1, <1>2
<1>. QED
  BY <1>1, <1>2, <1>3

LEMMA BudgetInvariance == Spec => []BudgetKept
<1>1. Inv => StepsJustified
  BY DEF Inv
<1>. QED
  BY <1>1, BudgetInit, BudgetStep, TypeCorrect, Invariance, HistoryInvariance, PTL DEF Spec

\* However runs of several processes overlap, fail and are retried: Gmail
\* gets at most one copy per process of a message with a Message-ID.
THEOREM AtMostOneCopyPerProcess == Spec => []AtMostOncePerProcess
<1>1. TypeOK /\ BudgetKept => AtMostOncePerProcess
  <2>. SUFFICES ASSUME TypeOK, BudgetKept, NEW m \in Msgs, MessageIdOf[m] # NoMessageId
                PROVE  gmail[m] <= Cardinality(Procs)
    BY DEF AtMostOncePerProcess
  <2>1. Importers(m) \in SUBSET Procs
    BY DEF Importers
  <2>2. Cardinality(Importers(m)) \in Nat /\ Cardinality(Procs) \in Nat
    BY <2>1, ImportersType
  <2>. QED
    BY <2>2 DEF BudgetKept, TypeOK, StoresOK
<1>. QED
  BY <1>1, TypeCorrect, BudgetInvariance, PTL
-----------------------------------------------------------------------------
(***************************************************************************)
(* No second import by a single process.                                   *)
(***************************************************************************)
\* A UIDVALIDITY gives a message at most one UID, when it is sent.
UidsSound ==
  \A v \in DOMAIN uids :
    /\ \A i, j \in DOMAIN uids[v] : uids[v][i] = uids[v][j] => i = j
    /\ \A i \in DOMAIN uids[v] : place[uids[v][i]] # "unsent"

\* No id is confirmed under a UIDVALIDITY newer than that of a batch being
\* worked on, and the id of an email that may still be imported is not.
Unconfirmed ==
  \A p \in Procs : \A e \in todo[p] :
    /\ \A id \in importedMessages : id[1] <= e.id[1]
    /\ IsCurrent(p, e) /\ pc[p] \in {"destinationLookup", "import"} => e.id \notin importedMessages

LEMMA OrderingsUids ==
  ASSUME NEW S \in SUBSET Msgs, NEW s \in Orderings(S)
  PROVE  /\ s \in Seq(Msgs) /\ \A i \in DOMAIN s : s[i] \in S
         /\ \A i, j \in DOMAIN s : s[i] = s[j] => i = j
<1>1. s \in Seq(Msgs)
  BY OrderingsType
<1>2. s \in Injection(1..Cardinality(S), S)
  BY DEF Orderings
<1>3. s \in [1..Cardinality(S) -> S] /\ DOMAIN s = 1..Cardinality(S)
  BY <1>2 DEF Injection
<1>4. \A i, j \in 1..Cardinality(S) : s[i] = s[j] => i = j
  BY <1>2 DEF Injection, IsInjective
<1>. QED
  BY <1>1, <1>3, <1>4

LEMMA UidsInit == Init => UidsSound
<1>. SUFFICES ASSUME Init PROVE UidsSound
  OBVIOUS
<1>1. PICK s \in Orderings(Backlog) : uids = <<s>>
  BY DEF Init
<1>2. /\ s \in Seq(Msgs) /\ \A i \in DOMAIN s : s[i] \in Backlog
      /\ \A i, j \in DOMAIN s : s[i] = s[j] => i = j
  BY OrderingsUids
<1>3. DOMAIN uids = {1} /\ uids[1] = s
  BY <1>1
<1>4. \A m \in Backlog : place[m] = "inbox"
  BY DEF Init
<1>. QED
  BY <1>2, <1>3, <1>4 DEF UidsSound

LEMMA UidsQuiet ==
  ASSUME UidsSound, UNCHANGED uids,
         \A m \in Msgs : place[m] # "unsent" => place'[m] # "unsent", TypeOK
  PROVE  UidsSound'
<1>1. \A v \in DOMAIN uids : \A i \in DOMAIN uids[v] : uids[v][i] \in Msgs
  BY DEF TypeOK, StoresOK
<1>. QED
  BY <1>1 DEF UidsSound

LEMMA UidsDeliver ==
  ASSUME TypeOK, UidsSound, NEW m \in Msgs, Deliver(m)
  PROVE  UidsSound'
<1>. DEFINE s == uids[UidValidity]
            t == Append(s, m)
<1>1. UidValidity \in DOMAIN uids /\ s \in Seq(Msgs) /\ uids \in Seq(Seq(Msgs))
  BY DEF TypeOK, StoresOK, UidValidity
<1>2. uids' = [uids EXCEPT ![UidValidity] = t] /\ place[m] = "unsent"
  BY DEF Deliver
<1>3. /\ DOMAIN uids' = DOMAIN uids /\ uids'[UidValidity] = t
      /\ \A v \in DOMAIN uids \ {UidValidity} : uids'[v] = uids[v]
  BY <1>1, <1>2
<1>4. \A n \in Msgs : place[n] # "unsent" \/ n = m => place'[n] # "unsent"
  BY DEF Deliver, TypeOK, StoresOK
<1>5. /\ DOMAIN s = 1..Len(s) /\ Len(s) \in Nat /\ DOMAIN t = 1..(Len(s) + 1)
      /\ \A i \in DOMAIN s : t[i] = s[i] /\ s[i] \in Msgs
      /\ t[Len(s) + 1] = m
  BY <1>1, AppendProperties
<1>6. \A v \in DOMAIN uids : \A i \in DOMAIN uids[v] : uids[v][i] \in Msgs
  BY <1>1
<1>7. /\ \A i, j \in DOMAIN s : s[i] = s[j] => i = j
      /\ \A i \in DOMAIN s : place[s[i]] # "unsent"
  BY <1>1 DEF UidsSound
<1>. HIDE DEF s, t
<1>8. /\ \A i, j \in DOMAIN t : t[i] = t[j] => i = j
      /\ \A i \in DOMAIN t : place'[t[i]] # "unsent"
  <2>1. \A i \in DOMAIN t : i \in DOMAIN s \/ i = Len(s) + 1
    BY <1>5
  <2>2. \A i \in DOMAIN s : t[i] # m
    BY <1>2, <1>5, <1>7
  <2>. QED
    BY <1>4, <1>5, <1>7, <2>1, <2>2
<1>9. ASSUME NEW v \in DOMAIN uids'
      PROVE  /\ \A i, j \in DOMAIN uids'[v] : uids'[v][i] = uids'[v][j] => i = j
             /\ \A i \in DOMAIN uids'[v] : place'[uids'[v][i]] # "unsent"
  <2>1. CASE v = UidValidity
    BY <1>3, <1>8, <2>1
  <2>2. CASE v # UidValidity
    <3>1. v \in DOMAIN uids /\ uids'[v] = uids[v]
      BY <1>3, <2>2
    <3>. QED
      BY <1>4, <1>6, <3>1 DEF UidsSound
  <2>. QED
    BY <2>1, <2>2
<1>. QED
  BY <1>9 DEF UidsSound

LEMMA UidsReset ==
  ASSUME TypeOK, UidsSound, ResetUidValidity
  PROVE  UidsSound'
<1>1. PICK s \in Orderings(InInbox) : uids' = Append(uids, s)
  BY DEF ResetUidValidity
<1>2. /\ s \in Seq(Msgs) /\ \A i \in DOMAIN s : s[i] \in InInbox
      /\ \A i, j \in DOMAIN s : s[i] = s[j] => i = j
  BY OrderingsUids DEF InInbox
<1>3. \A i \in DOMAIN s : place[s[i]] # "unsent"
  BY <1>2 DEF InInbox
<1>4. place' = place
  BY DEF ResetUidValidity
<1>5. /\ uids \in Seq(Seq(Msgs)) /\ DOMAIN uids = 1..Len(uids) /\ Len(uids) \in Nat
      /\ DOMAIN uids' = 1..(Len(uids) + 1)
      /\ \A v \in 1..Len(uids) : uids'[v] = uids[v]
      /\ uids'[Len(uids) + 1] = s
  BY <1>1, <1>2, AppendProperties DEF TypeOK, StoresOK
<1>6. ASSUME NEW v \in DOMAIN uids'
      PROVE  /\ \A i, j \in DOMAIN uids'[v] : uids'[v][i] = uids'[v][j] => i = j
             /\ \A i \in DOMAIN uids'[v] : place'[uids'[v][i]] # "unsent"
  <2>1. CASE v = Len(uids) + 1
    BY <1>2, <1>3, <1>4, <1>5, <2>1
  <2>2. CASE v # Len(uids) + 1
    <3>1. v \in DOMAIN uids /\ uids'[v] = uids[v]
      BY <1>5, <2>2
    <3>. QED
      BY <1>4, <3>1 DEF UidsSound
  <2>. QED
    BY <2>1, <2>2
<1>. QED
  BY <1>6 DEF UidsSound

\* Everything but the server leaves the numbering alone.
LEMMA UidsUnchanged ==
  ASSUME TypeOK, Next
  PROVE  \/ \E m \in Msgs : Deliver(m)
         \/ ResetUidValidity
         \/ UNCHANGED uids /\ \A m \in Msgs : place[m] # "unsent" => place'[m] # "unsent"
<1>1. ASSUME NEW p \in Procs, RunStep(p)
      PROVE  UNCHANGED uids /\ \A m \in Msgs : place[m] # "unsent" => place'[m] # "unsent"
  <2>1. CASE SourceArchive(p)
    BY <2>1 DEF SourceArchive, Measured, MoveToTransferred, stores
  <2>2. CASE ~SourceArchive(p)
    BY <1>1, <2>2 DEF RunStep, ReadSource, UpdateSource, StateLookup, DestinationLookup,
       Import, StateWrite, UpdateEmail, Finish, CompleteRun, Measured, ImportInto,
       MarkImported, UpdateRun, UpdateRow, stores
  <2>. QED
    BY <2>1, <2>2
<1>. QED
  BY <1>1 DEF Next, Crash, StartRun, InsertRow, DeleteRun, stores

LEMMA UidsInvariance == Spec => []UidsSound
<1>1. TypeOK /\ UidsSound /\ [Next]_vars => UidsSound'
  <2>. SUFFICES ASSUME TypeOK, UidsSound, [Next]_vars PROVE UidsSound'
    OBVIOUS
  <2>1. CASE UNCHANGED vars
    BY <2>1, UidsQuiet DEF vars, stores
  <2>. QED
    BY <2>1, UidsUnchanged, UidsQuiet, UidsDeliver, UidsReset
<1>. QED
  BY <1>1, UidsInit, TypeCorrect, PTL DEF Spec
\* Who leaves imported_messages alone, keeps or drops emails, and asks no
\* mailbox about one, confirms nothing he may still import.
LEMMA UnconfirmedMoves ==
  ASSUME Unconfirmed, UNCHANGED importedMessages,
         \A p \in Procs : /\ todo'[p] \subseteq todo[p]
                          /\ pc'[p] \in {"destinationLookup", "import"} =>
                               pc'[p] = pc[p] /\ todo'[p] = todo[p]
  PROVE  Unconfirmed'
BY DEF Unconfirmed, IsCurrent

\* The only process reads emails of the newest UIDVALIDITY.
LEMMA UnconfirmedRead ==
  ASSUME Procs = {Background}, TypeOK, StateSound, Unconfirmed, ReadSource(Background)
  PROVE  Unconfirmed'
<1>. DEFINE p == Background
<1>1. PICK limit \in BatchLimits :
        /\ UNCHANGED importedMessages
        /\ \/ todo'[p] = todo[p]
           \/ todo'[p] = ReadBatch(limit)
        /\ pc'[p] \notin {"destinationLookup", "import"}
  BY DEF ReadSource, Measured, Throw, stores, TypeOK, LocalsOK, EmailSteps
<1>2. CASE todo'[p] = todo[p]
  BY <1>1, <1>2, UnconfirmedMoves
<1>3. CASE todo'[p] = ReadBatch(limit)
  <2>1. ASSUME NEW e \in ReadBatch(limit), NEW id \in importedMessages
        PROVE  id[1] <= e.id[1]
    <3>1. e.id[1] = UidValidity
      BY ReadBatchSound
    <3>2. id[1] \in DOMAIN uids
      BY DEF StateSound, IsIssued
    <3>. QED
      BY <3>1, <3>2 DEF UidValidity, TypeOK, StoresOK
  <2>. QED
    BY <1>1, <1>3, <2>1 DEF Unconfirmed
<1>. QED
  BY <1>1, <1>2, <1>3

\* It goes on to an import only when its id was not confirmed.
LEMMA UnconfirmedLookup ==
  ASSUME Procs = {Background}, TypeOK, StepsJustified, Unconfirmed,
         StateLookup(Background) \/ DestinationLookup(Background)
  PROVE  Unconfirmed'
<1>. DEFINE p == Background
<1>1. PICK e \in todo[p] :
        /\ IsCurrent(p, e)
        /\ UNCHANGED <<importedMessages, todo>>
        /\ pc'[p] \in {"destinationLookup", "import"} => e.id \notin importedMessages
  <2>1. CASE StateLookup(p)
    BY <2>1 DEF StateLookup, Measured, Throw, Goto, Present, NotPresent, Outcome,
       Contains, stores, TypeOK, LocalsOK, EmailSteps
  <2>2. CASE DestinationLookup(p)
    BY <2>2 DEF DestinationLookup, Measured, Throw, Goto, Present, NotPresent, Outcome,
       stores, Unconfirmed
  <2>. QED
    BY <2>1, <2>2
<1>2. ASSUME NEW f \in todo[p], IsCurrent(p, f)' PROVE f = e
  <2>1. IsCurrent(p, f)
    BY <1>1, <1>2 DEF IsCurrent
  <2>. QED
    BY <1>1, <2>1, CurrentUnique
<1>. QED
  BY <1>1, <1>2 DEF Unconfirmed

\* It confirms ids of its own batch only.
LEMMA UnconfirmedWrite ==
  ASSUME Procs = {Background}, TypeOK, StepsJustified, Unconfirmed, StateWrite(Background)
  PROVE  Unconfirmed'
<1>. DEFINE p == Background
<1>1. PICK e \in todo[p] :
        /\ importedMessages' \in {importedMessages, importedMessages \cup {e.id}}
        /\ UNCHANGED todo
        /\ pc'[p] \notin {"destinationLookup", "import"}
  BY DEF StateWrite, Measured, Throw, Goto, MarkImported, stores, TypeOK, LocalsOK, EmailSteps
<1>2. \A f \in todo[p] : f.id[1] = e.id[1] /\ e.id[1] \in Nat
  BY DEF StepsJustified, BatchSound, TypeOK, LocalsOK, Emails, SourceIds
<1>. QED
  BY <1>1, <1>2 DEF Unconfirmed

LEMMA UnconfirmedStep ==
  ASSUME Procs = {Background}, TypeOK, Inv, HistoryInv, Unconfirmed, [Next]_vars
  PROVE  Unconfirmed'
<1>1. StateSound /\ StepsJustified
  BY DEF Inv
<1>2. CASE \E p \in Procs : \/ UpdateSource(p) \/ SourceArchive(p) \/ UpdateEmail(p) \/ Finish(p)
  <2>1. PICK p \in Procs : UpdateSource(p) \/ SourceArchive(p) \/ UpdateEmail(p) \/ Finish(p)
    BY <1>2
  <2>2. /\ UNCHANGED importedMessages /\ todo'[p] \subseteq todo[p]
        /\ pc'[p] \notin {"destinationLookup", "import"}
    BY <2>1 DEF UpdateSource, SourceArchive, UpdateEmail, Finish, Measured, Throw, Goto,
       Outcome, LoopStep, MoveToTransferred, UpdateRun, UpdateRow, stores, TypeOK,
       LocalsOK, EmailSteps
  <2>. QED
    BY <2>2, UnconfirmedMoves
<1>3. CASE \E p \in Procs : Import(p) \/ CompleteRun(p) \/ Crash(p)
  <2>1. PICK p \in Procs : Import(p) \/ CompleteRun(p) \/ Crash(p)
    BY <1>3
  <2>2. /\ UNCHANGED importedMessages /\ todo'[p] \subseteq todo[p]
        /\ pc'[p] \notin {"destinationLookup", "import"}
    BY <2>1 DEF Import, CompleteRun, Crash, Measured, Throw, Goto, ImportInto, EndRun,
       UpdateRow, stores, TypeOK, LocalsOK, EmailSteps
  <2>. QED
    BY <2>2, UnconfirmedMoves
<1>4. CASE \E p \in Procs, dry \in BOOLEAN : StartRun(p, dry)
  <2>1. PICK p \in Procs, dry \in BOOLEAN : StartRun(p, dry)
    BY <1>4
  <2>2. /\ UNCHANGED importedMessages /\ todo'[p] = todo[p]
        /\ pc'[p] \notin {"destinationLookup", "import"}
    BY <2>1 DEF StartRun, InsertRow, Begin, locals, TypeOK, LocalsOK
  <2>. QED
    BY <2>2, UnconfirmedMoves
<1>5. CASE \/ \E m \in Msgs : Deliver(m)
           \/ ResetUidValidity
           \/ \E i \in RunIds : DeleteRun(i)
           \/ UNCHANGED vars
  BY <1>5, UnconfirmedMoves DEF Deliver, ResetUidValidity, DeleteRun, vars, stores, locals
<1>. QED
  BY <1>1, <1>2, <1>3, <1>4, <1>5, UnconfirmedRead, UnconfirmedLookup, UnconfirmedWrite
     DEF Next, RunStep

NoReimportStep ==
  \A u \in DOMAIN uids[UidValidity] :
    <<UidValidity, u>> \in importedMessages =>
      gmail'[uids[UidValidity][u]] = gmail[uids[UidValidity][u]]

LEMMA ImportsUnconfirmed ==
  ASSUME TypeOK, StepsJustified, UidsSound, Unconfirmed, NEW p \in Procs, Import(p)
  PROVE  NoReimportStep
<1>1. PICK e \in todo[p] :
        /\ IsCurrent(p, e) /\ pc[p] = "import"
        /\ ImportInto(e.msg) \/ UNCHANGED gmail
  BY DEF Import, Measured, stores
<1>2. \A m \in Msgs : m # e.msg => gmail'[m] = gmail[m]
  BY <1>1 DEF ImportInto, TypeOK, StoresOK
<1>. SUFFICES ASSUME NEW u \in DOMAIN uids[UidValidity], <<UidValidity, u>> \in importedMessages,
                     uids[UidValidity][u] = e.msg
              PROVE  FALSE
  <2>1. UidValidity \in DOMAIN uids
    BY DEF TypeOK, StoresOK, UidValidity
  <2>2. \A u \in DOMAIN uids[UidValidity] : uids[UidValidity][u] \in Msgs
    BY <2>1 DEF TypeOK, StoresOK
  <2>. QED
    BY <1>2, <2>2 DEF NoReimportStep
<1>3. /\ e.id \in SourceIds /\ e.id[1] \in DOMAIN uids /\ e.id[2] \in DOMAIN uids[e.id[1]]
      /\ uids[e.id[1]][e.id[2]] = e.msg
  BY DEF StepsJustified, BatchSound, IsIssued, Named, TypeOK, LocalsOK, Emails
<1>4. e.id[1] = UidValidity
  <2>1. UidValidity <= e.id[1]
    BY DEF Unconfirmed
  <2>2. e.id[1] \in 1..Len(uids) /\ UidValidity = Len(uids) /\ Len(uids) \in Nat
    BY <1>3 DEF TypeOK, StoresOK, UidValidity
  <2>. QED
    BY <2>1, <2>2
<1>5. e.id[2] = u
  BY <1>3, <1>4 DEF UidsSound
<1>6. e.id = <<UidValidity, u>>
  BY <1>3, <1>4, <1>5 DEF SourceIds
<1>. QED
  BY <1>1, <1>6 DEF Unconfirmed

\* While one process runs: once the current source id of a message is
\* confirmed, no run imports the message again, whatever failed before.
THEOREM ConfirmedIsNotReimported ==
  ASSUME Procs = {Background}
  PROVE  Spec => NoImportOnceConfirmed
<1>1. Init => Unconfirmed
  BY DEF Init, Unconfirmed
<1>2. TypeOK /\ Inv /\ HistoryInv /\ Unconfirmed /\ [Next]_vars => Unconfirmed'
  BY UnconfirmedStep
<1>3. TypeOK /\ Inv /\ UidsSound /\ Unconfirmed /\ [Next]_vars => [NoReimportStep]_vars
  <2>. SUFFICES ASSUME TypeOK, Inv, UidsSound, Unconfirmed, Next PROVE NoReimportStep
    OBVIOUS
  <2>1. CASE \E p \in Procs : Import(p)
    BY <2>1, ImportsUnconfirmed DEF Inv
  <2>2. ASSUME NEW p \in Procs, RunStep(p), ~Import(p) PROVE UNCHANGED gmail
    BY <2>2 DEF RunStep, ReadSource, UpdateSource, StateLookup, DestinationLookup,
       StateWrite, SourceArchive, UpdateEmail, Finish, CompleteRun, Measured,
       MarkImported, MoveToTransferred, UpdateRun, UpdateRow, stores
  <2>3. UNCHANGED gmail \/ \E p \in Procs : Import(p)
    BY <2>2 DEF Next, Crash, StartRun, InsertRow, Deliver, ResetUidValidity, DeleteRun, stores
  <2>. QED
    BY <2>1, <2>3 DEF NoReimportStep
<1>. QED
  BY <1>1, <1>2, <1>3, TypeCorrect, Invariance, HistoryInvariance, UidsInvariance, PTL
     DEF Spec, NoImportOnceConfirmed, NoReimportStep
=============================================================================
