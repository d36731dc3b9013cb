-------------------------- MODULE LegacyTransferProofs --------------------------
(***************************************************************************)
(* The state of LegacyTransfer stays well formed, two overlapping runs     *)
(* never work on one UIDL, a live run keeps its job run, a run that        *)
(* returned settled what it claimed, and what is marked imported is in     *)
(* Gmail, for any number of messages, runs and faults.                     *)
(*                                                                         *)
(* The only step the claims do not withstand is a cleanup that deletes a   *)
(* record somebody works on, so their theorem is about behaviours without  *)
(* one.                                                                    *)
(***************************************************************************)
EXTENDS LegacyTransfer, SequenceTheorems, FiniteSetTheorems, TLAPS

\* Run r has the record of the UIDL it works on.
HoldsClaim(r) ==
  LET record == records[Current(r).uidl]
  IN /\ record.claimJobId = r
     /\ \/ record.status = "processing"
        \/ record.status = "imported" /\ pc[r] \in {"lookup", "remark", "markFailed"}

\* Where a run has a current message.
Working == Holding \cup {"claim"}

ShapesOK ==
  /\ maildrop \in Seq(Uidls)
  /\ records = [u \in Uidls |-> records[u]]
  /\ pc \in [Runs -> Steps]
  /\ batch \in [Runs -> Seq(References)]
  /\ \A r \in Runs : pc[r] \in Working => batch[r] # <<>>

ClaimInv == ShapesOK /\ \A r \in Runs : pc[r] \in Holding => HoldsClaim(r)

\* A cleanup that is about to delete touches no UIDL a run works on.
ForgetsNoClaim ==
  \A r, q \in Runs :
    pc[r] = "delete" /\ pc[q] \in Holding => Current(q).uidl \notin job[r].candidates

CleanupsForgetNoClaim == []ForgetsNoClaim
-----------------------------------------------------------------------------
(***************************************************************************)
(* The shapes.                                                             *)
(***************************************************************************)
LEMMA CurrentUidl ==
  ASSUME ShapesOK, NEW r \in Runs, pc[r] \in Working
  PROVE  Current(r).uidl \in Uidls
<1>1. batch[r] \in Seq(References) /\ batch[r] # <<>>
  BY DEF ShapesOK
<1>2. Head(batch[r]) \in References
  BY <1>1, HeadTailProperties
<1>. QED
  BY <1>2 DEF Current, References

\* What the three ways to leave a message come to.
LEMMA NextMessageEffect ==
  ASSUME ShapesOK, NEW r \in Runs, NEW counted, pc[r] \in Working, NextMessage(r, counted)
  PROVE  /\ pc' \in [Runs -> Steps] /\ batch' \in [Runs -> Seq(References)]
         /\ \A q \in Runs \ {r} : pc'[q] = pc[q] /\ batch'[q] = batch[q]
         /\ pc'[r] \in {"claim", "cleanup"}
         /\ pc'[r] = "claim" => batch'[r] # <<>>
<1>1. batch[r] \in Seq(References) /\ batch[r] # <<>>
  BY DEF ShapesOK
<1>2. Tail(batch[r]) \in Seq(References)
  BY <1>1, HeadTailProperties
<1>3. batch' = [batch EXCEPT ![r] = Tail(batch[r])]
  BY DEF NextMessage
<1>4. pc' = [pc EXCEPT ![r] = IF Tail(batch[r]) = <<>> THEN "cleanup" ELSE "claim"]
  BY DEF NextMessage, Goto
<1>. QED
  BY <1>2, <1>3, <1>4 DEF ShapesOK, Steps

LEMMA LeavingEffect ==
  ASSUME ShapesOK, NEW r \in Runs,
         \/ ToCatch(r)
         \/ \E how \in Ended : End(r, how)
  PROVE  /\ pc' \in [Runs -> Steps] /\ batch' \in [Runs -> Seq(References)]
         /\ \A q \in Runs \ {r} : pc'[q] = pc[q] /\ batch'[q] = batch[q]
         /\ pc'[r] \notin Working
<1>1. PICK step \in Ended \cup {"complete"} : pc' = [pc EXCEPT ![r] = step]
  BY DEF ToCatch, End, Goto
<1>2. batch' = [batch EXCEPT ![r] = <<>>]
  BY DEF ToCatch, End
<1>3. step \in Steps /\ step \notin Working
  BY <1>1 DEF Steps, Ended, Working, Holding
<1>4. <<>> \in Seq(References)
  OBVIOUS
<1>. QED
  BY <1>1, <1>2, <1>3, <1>4 DEF ShapesOK

LEMMA GotoEffect ==
  ASSUME ShapesOK, NEW r \in Runs, NEW step \in Steps, Goto(r, step), UNCHANGED batch
  PROVE  /\ pc' \in [Runs -> Steps] /\ batch' \in [Runs -> Seq(References)]
         /\ \A q \in Runs \ {r} : pc'[q] = pc[q] /\ batch'[q] = batch[q]
         /\ pc'[r] = step
BY DEF Goto, ShapesOK
-----------------------------------------------------------------------------
(***************************************************************************)
(* The claims.                                                             *)
(***************************************************************************)
\* A step of run r disturbs no claim of another run: it leaves the records
\* alone, or changes the one of a UIDL that can be claimed or that it holds.
LEMMA OthersKeepTheirs ==
  ASSUME ClaimInv, NEW r \in Runs,
         \A q \in Runs \ {r} : pc'[q] = pc[q] /\ batch'[q] = batch[q],
         \/ UNCHANGED records
         \/ \E u \in Uidls :
              /\ \A v \in Uidls \ {u} : records'[v] = records[v]
              /\ CanTransfer(u) \/ (pc[r] \in Holding /\ Current(r).uidl = u)
  PROVE  \A q \in Runs \ {r} : pc'[q] \in Holding => HoldsClaim(q)'
<1>. SUFFICES ASSUME NEW q \in Runs \ {r}, pc'[q] \in Holding
              PROVE  HoldsClaim(q)'
  OBVIOUS
<1>1. HoldsClaim(q) /\ pc'[q] = pc[q] /\ Current(q)' = Current(q)
  BY DEF ClaimInv, Current
<1>2. Current(q).uidl \in Uidls
  BY <1>1, CurrentUidl DEF ClaimInv, Working
<1>3. CASE UNCHANGED records
  BY <1>1, <1>3 DEF HoldsClaim
<1>4. ASSUME NEW u \in Uidls, \A v \in Uidls \ {u} : records'[v] = records[v],
             CanTransfer(u) \/ (pc[r] \in Holding /\ Current(r).uidl = u)
      PROVE  HoldsClaim(q)'
  <2>1. Current(q).uidl # u
    <3>1. CASE CanTransfer(u)
      BY <1>1, <3>1 DEF HoldsClaim, CanTransfer
    <3>2. CASE pc[r] \in Holding /\ Current(r).uidl = u
      <4>1. records[u].claimJobId = r
        BY <3>2 DEF ClaimInv, HoldsClaim
      <4>. QED
        BY <1>1, <4>1 DEF HoldsClaim
    <3>. QED
      BY <1>4, <3>1, <3>2
  <2>2. records'[Current(q).uidl] = records[Current(q).uidl]
    BY <1>2, <1>4, <2>1
  <2>. QED
    BY <1>1, <2>2 DEF HoldsClaim
<1>. QED
  BY <1>3, <1>4

\* The invariant after a step of run r, from what the step does to r.
LEMMA AfterStep ==
  ASSUME ClaimInv, NEW r \in Runs, UNCHANGED maildrop,
         records' = [u \in Uidls |-> records'[u]],
         pc' \in [Runs -> Steps], batch' \in [Runs -> Seq(References)],
         \A q \in Runs \ {r} : pc'[q] = pc[q] /\ batch'[q] = batch[q],
         pc'[r] \in Working => batch'[r] # <<>>,
         pc'[r] \in Holding => HoldsClaim(r)',
         \/ UNCHANGED records
         \/ \E u \in Uidls :
              /\ \A v \in Uidls \ {u} : records'[v] = records[v]
              /\ CanTransfer(u) \/ (pc[r] \in Holding /\ Current(r).uidl = u)
  PROVE  ClaimInv'
<1>1. ShapesOK'
  BY DEF ClaimInv, ShapesOK
<1>2. \A q \in Runs \ {r} : pc'[q] \in Holding => HoldsClaim(q)'
  BY OthersKeepTheirs
<1>. QED
  BY <1>1, <1>2 DEF ClaimInv

\* A run that changes no record and goes nowhere it would need a claim.
LEMMA AfterFreeStep ==
  ASSUME ClaimInv, NEW r \in Runs, UNCHANGED <<maildrop, records>>,
         pc' \in [Runs -> Steps], batch' \in [Runs -> Seq(References)],
         \A q \in Runs \ {r} : pc'[q] = pc[q] /\ batch'[q] = batch[q],
         pc'[r] \notin Holding,
         pc'[r] = "claim" => batch'[r] # <<>>
  PROVE  ClaimInv'
BY AfterStep DEF ClaimInv, ShapesOK, Working

LEMMA AfterLeaving ==
  ASSUME ClaimInv, NEW r \in Runs, UNCHANGED <<maildrop, records>>,
         \/ ToCatch(r)
         \/ \E how \in Ended : End(r, how)
  PROVE  ClaimInv'
BY LeavingEffect, AfterFreeStep DEF ClaimInv, Working

LEMMA AfterGoto ==
  ASSUME ClaimInv, NEW r \in Runs, NEW step \in Steps \ Working, Goto(r, step),
         UNCHANGED <<maildrop, records, batch>>
  PROVE  ClaimInv'
BY GotoEffect, AfterFreeStep DEF ClaimInv, Working

\* The same with a claim that is kept.
LEMMA AfterHeldStep ==
  ASSUME ClaimInv, NEW r \in Runs, pc[r] \in Holding, NEW step \in Holding, Goto(r, step),
         UNCHANGED <<maildrop, records, batch>>,
         pc[r] \in {"lookup", "remark", "markFailed"} =>
           step \in {"lookup", "remark", "markFailed"}
  PROVE  ClaimInv'
<1>1. step \in Steps
  BY DEF Steps
<1>2. /\ pc' \in [Runs -> Steps] /\ batch' \in [Runs -> Seq(References)]
      /\ \A q \in Runs \ {r} : pc'[q] = pc[q] /\ batch'[q] = batch[q]
      /\ pc'[r] = step
  BY <1>1, GotoEffect DEF ClaimInv
<1>3. HoldsClaim(r)'
  BY <1>2 DEF ClaimInv, HoldsClaim, Current
<1>4. batch'[r] # <<>>
  BY DEF ClaimInv, ShapesOK, Working
<1>5. records' = [u \in Uidls |-> records'[u]]
  BY DEF ClaimInv, ShapesOK
<1>. QED
  BY <1>2, <1>3, <1>4, <1>5, AfterStep
-----------------------------------------------------------------------------
(***************************************************************************)
(* The actions that change no record.                                      *)
(***************************************************************************)
LEMMA StartStep ==
  ASSUME ClaimInv, NEW r \in Runs, Start(r)
  PROVE  ClaimInv'
<1>1. Goto(r, "reconcile") /\ UNCHANGED <<maildrop, records, batch>>
  BY DEF Start, mailboxes
<1>2. "reconcile" \in Steps \ Working
  BY DEF Steps, Working, Holding
<1>. QED
  BY <1>1, <1>2, AfterGoto

LEMMA OpeningStep ==
  ASSUME ClaimInv, NEW r \in Runs, ReconcileStaleRunningJobs(r) \/ SaveStarted(r)
  PROVE  ClaimInv'
<1>1. UNCHANGED <<maildrop, records>>
  BY DEF ReconcileStaleRunningJobs, SaveStarted, mailboxes
<1>2. \/ Goto(r, "saveStarted") /\ UNCHANGED batch
      \/ Goto(r, "list") /\ UNCHANGED batch
      \/ End(r, "rejected")
  BY Zenon DEF ReconcileStaleRunningJobs, SaveStarted
<1>3. "saveStarted" \in Steps \ Working /\ "list" \in Steps \ Working /\ "rejected" \in Ended
  BY DEF Steps, Working, Holding, Ended
<1>. QED
  BY <1>1, <1>2, <1>3, AfterGoto, AfterLeaving

LEMMA ListingStep ==
  ASSUME ClaimInv, NEW r \in Runs, ListMessages(r)
  PROVE  ClaimInv'
<1>1. UNCHANGED <<maildrop, records>>
  BY DEF ListMessages, mailboxes
<1>2. CASE ToCatch(r)
  BY <1>1, <1>2, AfterLeaving
<1>3. CASE Goto(r, "filter") /\ UNCHANGED batch
  BY <1>1, <1>3, AfterGoto DEF Steps, Working, Holding
<1>4. ASSUME NEW listed, listed = MessageReferences(ScanLimit),
             Goto(r, IF listed = <<>> THEN "complete" ELSE "claim"),
             batch' = [batch EXCEPT ![r] = listed]
      PROVE  ClaimInv'
  <2>1. ScanLimit \in Nat
    BY LimitsAssumption DEF ScanLimit, Min2
  <2>2. maildrop \in Seq(Uidls)
    BY DEF ClaimInv, ShapesOK
  <2>3. listed \in Seq(References)
    <3>. DEFINE n == Min2(ScanLimit, Len(maildrop))
    <3>1. n \in Nat /\ n <= Len(maildrop)
      BY <2>1, <2>2 DEF Min2
    <3>2. listed = [i \in 1..n |->
                      [number |-> Len(maildrop) + 1 - i, uidl |-> maildrop[Len(maildrop) + 1 - i]]]
      BY <1>4 DEF MessageReferences
    <3>3. \A i \in 1..n : Len(maildrop) + 1 - i \in 1..Len(maildrop)
      BY <3>1, <2>2
    <3>4. \A i \in 1..n : [number |-> Len(maildrop) + 1 - i,
                           uidl |-> maildrop[Len(maildrop) + 1 - i]] \in References
      BY <3>3, <2>2 DEF References
    <3>5. listed \in [1..n -> References]
      BY <3>2, <3>4
    <3>. QED
      BY <3>1, <3>5
  <2>4. batch' \in [Runs -> Seq(References)] /\ batch'[r] = listed
        /\ \A q \in Runs \ {r} : batch'[q] = batch[q]
    BY <1>4, <2>3 DEF ClaimInv, ShapesOK
  <2>5. pc' \in [Runs -> Steps] /\ pc'[r] = (IF listed = <<>> THEN "complete" ELSE "claim")
        /\ \A q \in Runs \ {r} : pc'[q] = pc[q]
    BY <1>4 DEF Goto, ClaimInv, ShapesOK, Steps
  <2>. QED
    BY <1>1, <2>4, <2>5, AfterFreeStep DEF Holding
<1>5. \/ ToCatch(r)
      \/ Goto(r, "filter") /\ UNCHANGED batch
      \/ \E listed : /\ listed = MessageReferences(ScanLimit)
                     /\ Goto(r, IF listed = <<>> THEN "complete" ELSE "claim")
                     /\ batch' = [batch EXCEPT ![r] = listed]
  BY Zenon DEF ListMessages
<1>. QED
  BY <1>2, <1>3, <1>4, <1>5

LEMMA FilterStep ==
  ASSUME ClaimInv, NEW r \in Runs, FilterIncrementalMessages(r)
  PROVE  ClaimInv'
<1>1. UNCHANGED <<maildrop, records>>
  BY DEF FilterIncrementalMessages, mailboxes
<1>2. \/ \E step \in {"complete", "metadata"} : Goto(r, step) /\ UNCHANGED batch
      \/ ToCatch(r)
  BY Zenon DEF FilterIncrementalMessages
<1>3. {"complete", "metadata"} \subseteq Steps \ Working
  BY DEF Steps, Working, Holding
<1>. QED
  BY <1>1, <1>2, <1>3, AfterGoto, AfterLeaving

LEMMA MetadataStep ==
  ASSUME ClaimInv, NEW r \in Runs, GetMessageMetadata(r)
  PROVE  ClaimInv'
<1>1. UNCHANGED <<maildrop, records>>
  BY DEF GetMessageMetadata, mailboxes
<1>2. CASE ToCatch(r)
  BY <1>1, <1>2, AfterLeaving
<1>3. ASSUME NEW n \in DOMAIN maildrop, NEW step \in {"claim", "metadata"}, Goto(r, step),
             batch' = [batch EXCEPT ![r] = Append(@, [number |-> n, uidl |-> maildrop[n]])]
      PROVE  ClaimInv'
  <2>1. [number |-> n, uidl |-> maildrop[n]] \in References
    BY DEF References, ClaimInv, ShapesOK
  <2>2. batch[r] \in Seq(References)
    BY DEF ClaimInv, ShapesOK
  <2>3. /\ Append(batch[r], [number |-> n, uidl |-> maildrop[n]]) \in Seq(References)
        /\ Append(batch[r], [number |-> n, uidl |-> maildrop[n]]) # <<>>
    BY <2>1, <2>2, AppendProperties
  <2>4. batch' \in [Runs -> Seq(References)] /\ batch'[r] # <<>>
        /\ \A q \in Runs \ {r} : batch'[q] = batch[q]
    BY <1>3, <2>3 DEF ClaimInv, ShapesOK
  <2>5. pc' \in [Runs -> Steps] /\ pc'[r] = step /\ \A q \in Runs \ {r} : pc'[q] = pc[q]
    BY <1>3 DEF Goto, ClaimInv, ShapesOK, Steps
  <2>. QED
    BY <1>1, <2>4, <2>5, AfterFreeStep DEF Holding
<1>4. \/ ToCatch(r)
      \/ \E n \in DOMAIN maildrop, step \in {"claim", "metadata"} :
           /\ Goto(r, step)
           /\ batch' = [batch EXCEPT ![r] = Append(@, [number |-> n, uidl |-> maildrop[n]])]
  BY Zenon DEF GetMessageMetadata
<1>. QED
  BY <1>2, <1>3, <1>4

LEMMA MessageStep ==
  ASSUME ClaimInv, NEW r \in Runs,
         GetMessage(r) \/ ImportMessage(r) \/ ReconcileImportedMessage(r)
  PROVE  ClaimInv'
<1>1. UNCHANGED <<maildrop, records, batch>>
  BY DEF GetMessage, ImportMessage, ReconcileImportedMessage, mailboxes
<1>2. CASE GetMessage(r) \/ ImportMessage(r)
  <2>1. /\ pc[r] \in {"fetch", "import"}
        /\ \E step \in {"import", "markImported", "markFailed"} : Goto(r, step)
    BY <1>2, Zenon DEF GetMessage, ImportMessage
  <2>. QED
    BY <1>1, <2>1, AfterHeldStep DEF Holding
<1>3. CASE ReconcileImportedMessage(r)
  <2>1. pc[r] = "lookup" /\ \E step \in {"remark", "markFailed"} : Goto(r, step)
    BY <1>3, Zenon DEF ReconcileImportedMessage
  <2>. QED
    BY <1>1, <2>1, AfterHeldStep DEF Holding
<1>. QED
  BY <1>2, <1>3

LEMMA ClosingStep ==
  ASSUME ClaimInv, NEW r \in Runs,
         ListImportedRecords(r) \/ CompleteJob(r) \/ GetStatistics(r) \/ SaveStatistics(r)
  PROVE  ClaimInv'
<1>1. UNCHANGED <<maildrop, records>>
  BY DEF ListImportedRecords, CompleteJob, GetStatistics, SaveStatistics, mailboxes
<1>2. \/ \E step \in {"complete", "delete", "refresh", "saveStatistics"} :
           Goto(r, step) /\ UNCHANGED batch
      \/ ToCatch(r)
      \/ \E how \in Ended : End(r, how)
  BY Zenon DEF ListImportedRecords, CompleteJob, GetStatistics, SaveStatistics, Outcome, Ended
<1>3. {"complete", "delete", "refresh", "saveStatistics"} \subseteq Steps \ Working
  BY DEF Steps, Working, Holding
<1>. QED
  BY <1>1, <1>2, <1>3, AfterGoto, AfterLeaving
-----------------------------------------------------------------------------
(***************************************************************************)
(* The actions that change records.                                        *)
(***************************************************************************)
\* A record written for the UIDL run r works on, whatever becomes of the run.
LEMMA AfterWrite ==
  ASSUME ClaimInv, NEW r \in Runs, pc[r] \in Working, UNCHANGED maildrop,
         NEW record, pc[r] \in Holding \/ CanTransfer(Current(r).uidl),
         records' \in {records, [records EXCEPT ![Current(r).uidl] = record]},
         pc' \in [Runs -> Steps], batch' \in [Runs -> Seq(References)],
         \A q \in Runs \ {r} : pc'[q] = pc[q] /\ batch'[q] = batch[q],
         pc'[r] \in Working => batch'[r] # <<>>,
         pc'[r] \in Holding => HoldsClaim(r)'
  PROVE  ClaimInv'
<1>1. Current(r).uidl \in Uidls
  BY CurrentUidl DEF ClaimInv
<1>2. \A v \in Uidls \ {Current(r).uidl} : records'[v] = records[v]
  BY DEF ClaimInv, ShapesOK
<1>3. records' = [u \in Uidls |-> records'[u]]
  BY DEF ClaimInv, ShapesOK
<1>. QED
  BY <1>1, <1>2, <1>3, AfterStep

LEMMA ClaimStep ==
  ASSUME ClaimInv, NEW r \in Runs, ClaimForProcessing(r)
  PROVE  ClaimInv'
<1>. DEFINE u      == Current(r).uidl
            record == ProcessingRecord(records[u], r)
<1>1. pc[r] = "claim" /\ UNCHANGED maildrop
  BY DEF ClaimForProcessing, mailboxes
<1>2. u \in Uidls /\ batch[r] # <<>>
  BY <1>1, CurrentUidl DEF ClaimInv, ShapesOK, Working
<1>3. CASE ToCatch(r) /\ records' \in {records, Claimed(u, r)}
  <2>1. /\ pc' \in [Runs -> Steps] /\ batch' \in [Runs -> Seq(References)]
        /\ \A q \in Runs \ {r} : pc'[q] = pc[q] /\ batch'[q] = batch[q]
        /\ pc'[r] \notin Working
    BY <1>3, LeavingEffect DEF ClaimInv
  <2>2. CASE UNCHANGED records
    BY <1>1, <1>3, <2>2, AfterLeaving
  <2>3. CASE records' # records
    BY <1>1, <1>3, <2>1, <2>3, AfterWrite DEF Claimed, Working
  <2>. QED
    BY <2>2, <2>3
<1>4. CASE CanTransfer(u) /\ records' = Claimed(u, r) /\ Goto(r, "fetch") /\ UNCHANGED batch
  <2>1. /\ pc' \in [Runs -> Steps] /\ batch' \in [Runs -> Seq(References)]
        /\ \A q \in Runs \ {r} : pc'[q] = pc[q] /\ batch'[q] = batch[q]
        /\ pc'[r] = "fetch"
    <3>1. "fetch" \in Steps
      BY DEF Steps, Holding
    <3>. QED
      BY <1>4, <3>1, GotoEffect DEF ClaimInv
  <2>2. records' = [records EXCEPT ![u] = record]
    BY <1>4 DEF Claimed
  <2>3. records'[u] = record
    BY <1>2, <2>2 DEF ClaimInv, ShapesOK
  <2>4. Current(r)' = Current(r)
    BY <1>4 DEF Current
  <2>5. HoldsClaim(r)'
    BY <2>3, <2>4 DEF HoldsClaim, ProcessingRecord
  <2>. QED
    BY <1>1, <1>2, <1>4, <2>1, <2>2, <2>5, AfterWrite DEF Working
<1>5. CASE /\ ~CanTransfer(u) /\ records' = Claimed(u, r)
           /\ NextMessage(r, MarkSkipped(job[r].counts))
  <2>1. UNCHANGED records
    BY <1>5 DEF Claimed
  <2>. QED
    BY <1>1, <1>5, <2>1, NextMessageEffect, AfterFreeStep DEF ClaimInv, Working, Holding
<1>6. \/ ToCatch(r) /\ records' \in {records, Claimed(u, r)}
      \/ CanTransfer(u) /\ records' = Claimed(u, r) /\ Goto(r, "fetch") /\ UNCHANGED batch
      \/ /\ ~CanTransfer(u) /\ records' = Claimed(u, r)
         /\ NextMessage(r, MarkSkipped(job[r].counts))
  BY Zenon DEF ClaimForProcessing
<1>. QED
  BY <1>3, <1>4, <1>5, <1>6

\* markImported and markFailed, by the run that holds the claim.
LEMMA MarkStep ==
  ASSUME ClaimInv, NEW r \in Runs, MarkImported(r) \/ MarkReconciled(r) \/ MarkFailed(r)
  PROVE  ClaimInv'
<1>. DEFINE u == Current(r).uidl
<1>1. /\ pc[r] \in {"markImported", "remark", "markFailed"} /\ pc[r] \in Holding
      /\ pc[r] \in Working /\ UNCHANGED maildrop
  BY DEF MarkImported, MarkReconciled, MarkFailed, mailboxes, Holding, Working
<1>2. u \in Uidls /\ batch[r] # <<>> /\ HoldsClaim(r)
  BY <1>1, CurrentUidl DEF ClaimInv, ShapesOK
<1>3. PICK record :
        /\ records' \in {records, [records EXCEPT ![u] = record]}
        /\ record.claimJobId = r
        /\ \/ \E counted : NextMessage(r, counted)
           \/ ToCatch(r)
           \/ /\ record.status = "imported"
              /\ \E step \in {"lookup", "markFailed"} : Goto(r, step) /\ UNCHANGED batch
  <2>1. CASE MarkImported(r) \/ MarkReconciled(r)
    <3>. DEFINE record == [status |-> "imported", claimJobId |-> records[u].claimJobId,
                           importedAt |-> Now]
    <3>1. record.claimJobId = r /\ record.status = "imported"
      BY <1>2 DEF HoldsClaim
    <3>2. Imported(u) = [records EXCEPT ![u] = record]
      BY Zenon DEF Imported
    <3>3. /\ records' \in {records, Imported(u)}
          /\ \/ \E counted : NextMessage(r, counted)
             \/ \E step \in {"lookup", "markFailed"} : Goto(r, step) /\ UNCHANGED batch
      BY <2>1, Zenon DEF MarkImported, MarkReconciled
    <3>4. records' \in {records, [records EXCEPT ![u] = record]}
      BY <3>2, <3>3
    <3>. HIDE DEF record, u
    <3>. QED
      BY <3>1, <3>3, <3>4
  <2>2. CASE MarkFailed(r)
    <3>. DEFINE record == [status |-> "failed", claimJobId |-> r,
                           importedAt |-> records[u].importedAt]
    <3>1. record.claimJobId = r
      OBVIOUS
    <3>2. Failed(u, r) = [records EXCEPT ![u] = record]
      BY Zenon DEF Failed
    <3>3. /\ records' \in {records, Failed(u, r)}
          /\ (\E counted : NextMessage(r, counted)) \/ ToCatch(r)
      BY <2>2, Zenon DEF MarkFailed
    <3>4. records' \in {records, [records EXCEPT ![u] = record]}
      BY <3>2, <3>3
    <3>. HIDE DEF record, u
    <3>. QED
      BY <3>1, <3>3, <3>4
  <2>. QED
    BY <2>1, <2>2
<1>4. CASE \E counted : NextMessage(r, counted)
  BY <1>1, <1>3, <1>4, NextMessageEffect, AfterWrite DEF ClaimInv, Working, Holding
<1>5. CASE ToCatch(r)
  BY <1>1, <1>3, <1>5, LeavingEffect, AfterWrite DEF ClaimInv, Working
<1>6. ASSUME record.status = "imported", NEW step \in {"lookup", "markFailed"},
             Goto(r, step), UNCHANGED batch
      PROVE  ClaimInv'
  <2>1. step \in Steps
    BY DEF Steps, Holding
  <2>2. /\ pc' \in [Runs -> Steps] /\ batch' \in [Runs -> Seq(References)]
        /\ \A q \in Runs \ {r} : pc'[q] = pc[q] /\ batch'[q] = batch[q]
        /\ pc'[r] = step
    BY <1>6, <2>1, GotoEffect DEF ClaimInv
  <2>3. records'[u] = record \/ records'[u] = records[u]
    BY <1>2, <1>3 DEF ClaimInv, ShapesOK
  <2>4. Current(r)' = Current(r)
    BY <1>6 DEF Current
  <2>5. HoldsClaim(r)'
    BY <1>2, <1>3, <1>6, <2>2, <2>3, <2>4 DEF HoldsClaim
  <2>. QED
    BY <1>1, <1>2, <1>3, <1>6, <2>2, <2>5, AfterWrite
<1>. QED
  BY <1>3, <1>4, <1>5, <1>6

\* The cleanup, when it deletes no record somebody works on.
LEMMA DeleteStep ==
  ASSUME ClaimInv, ForgetsNoClaim, NEW r \in Runs, DeleteRecords(r)
  PROVE  ClaimInv'
<1>1. pc[r] = "delete" /\ Goto(r, "complete") /\ UNCHANGED <<maildrop, batch>>
  BY DEF DeleteRecords, mailboxes
<1>2. PICK S \in SUBSET job[r].candidates :
        records' = [u \in Uidls |-> IF u \in S THEN NoRecord ELSE records[u]]
  BY Zenon DEF DeleteRecords
<1>3. /\ pc' \in [Runs -> Steps] /\ batch' \in [Runs -> Seq(References)]
      /\ \A q \in Runs \ {r} : pc'[q] = pc[q]
      /\ pc'[r] = "complete"
  BY <1>1, GotoEffect DEF ClaimInv, Steps
<1>4. ShapesOK'
  BY <1>1, <1>2, <1>3 DEF ClaimInv, ShapesOK, Working, Holding
<1>5. ASSUME NEW q \in Runs, pc'[q] \in Holding
      PROVE  HoldsClaim(q)'
  <2>1. q # r /\ pc'[q] = pc[q] /\ Current(q)' = Current(q) /\ HoldsClaim(q)
    BY <1>1, <1>3, <1>5 DEF ClaimInv, Holding, Current
  <2>2. Current(q).uidl \in Uidls /\ Current(q).uidl \notin S
    BY <1>1, <1>5, <2>1, CurrentUidl DEF ClaimInv, ForgetsNoClaim, Working
  <2>. QED
    BY <1>2, <2>1, <2>2 DEF HoldsClaim
<1>. QED
  BY <1>4, <1>5 DEF ClaimInv
-----------------------------------------------------------------------------
(***************************************************************************)
(* The environment, and the theorem.                                       *)
(***************************************************************************)
LEMMA MaildropStep ==
  ASSUME ClaimInv,
         \/ \E u \in Uidls : Arrive(u)
         \/ \E n \in DOMAIN maildrop : Remove(n)
  PROVE  ClaimInv'
<1>1. UNCHANGED <<records, pc, batch>>
  BY DEF Arrive, Remove
<1>2. maildrop \in Seq(Uidls)
  BY DEF ClaimInv, ShapesOK
<1>3. maildrop' \in Seq(Uidls)
  <2>1. ASSUME NEW u \in Uidls, Arrive(u)
        PROVE  maildrop' \in Seq(Uidls)
    BY <1>2, <2>1 DEF Arrive
  <2>2. ASSUME NEW n \in DOMAIN maildrop, Remove(n)
        PROVE  maildrop' \in Seq(Uidls)
    <3>1. n \in 1..Len(maildrop)
      BY <1>2
    <3>2. /\ SubSeq(maildrop, 1, n - 1) \in Seq(Uidls)
          /\ SubSeq(maildrop, n + 1, Len(maildrop)) \in Seq(Uidls)
      BY <1>2, <3>1, SubSeqProperties
    <3>. QED
      BY <2>2, <3>2, ConcatProperties DEF Remove
  <2>. QED
    BY <2>1, <2>2
<1>. QED
  BY <1>1, <1>3 DEF ClaimInv, ShapesOK, HoldsClaim, Current, CanTransfer

LEMMA InitClaims == Init => ClaimInv
<1>. SUFFICES ASSUME Init PROVE ClaimInv
  OBVIOUS
<1>1. \A r \in Runs : pc[r] = "unborn"
  BY DEF Init
<1>2. "unborn" \in Steps /\ "unborn" \notin Working
  BY DEF Steps, Working, Holding
<1>3. ShapesOK
  BY <1>1, <1>2 DEF Init, ShapesOK
<1>. QED
  BY <1>1, <1>2, <1>3 DEF ClaimInv, Working

LEMMA ClaimsPreserved == ClaimInv /\ ForgetsNoClaim /\ [Next]_vars => ClaimInv'
<1>. SUFFICES ASSUME ClaimInv, ForgetsNoClaim, [Next]_vars PROVE ClaimInv'
  OBVIOUS
<1>1. CASE UNCHANGED vars
  BY <1>1 DEF vars, mailboxes, ClaimInv, ShapesOK, HoldsClaim, Current
<1>2. ASSUME NEW r \in Runs, Start(r) \/ RunStep(r) \/ Kill(r)
      PROVE  ClaimInv'
  <2>1. CASE Kill(r)
    BY <2>1, AfterLeaving DEF Kill, mailboxes, Ended
  <2>. QED
    BY <1>2, <2>1, StartStep, OpeningStep, ListingStep, FilterStep, MetadataStep, ClaimStep,
       MessageStep, MarkStep, DeleteStep, ClosingStep DEF RunStep
<1>3. CASE Tick
  BY <1>3 DEF Tick, mailboxes, ClaimInv, ShapesOK, HoldsClaim, Current
<1>. QED
  BY <1>1, <1>2, <1>3, MaildropStep DEF Next

\* However many runs overlap, and whatever fails, is killed or is removed from the
\* maildrop: a run works on a UIDL only while its record names it, so no two runs
\* work on one UIDL, as long as no cleanup deletes a record somebody works on.
THEOREM ClaimsExclude == Spec /\ CleanupsForgetNoClaim => []ClaimHeld
<1>1. ClaimInv => ClaimHeld
  BY DEF ClaimInv, ClaimHeld, HoldsClaim
<1>. QED
  BY <1>1, InitClaims, ClaimsPreserved, PTL DEF Spec, CleanupsForgetNoClaim
-----------------------------------------------------------------------------
(***************************************************************************)
(* The positions Pick chooses.                                             *)
(***************************************************************************)
\* Among the finite sets of numbers every rank below the cardinality is taken.
LEMMA EveryRankTaken ==
  ASSUME NEW P \in SUBSET Nat, IsFiniteSet(P), NEW k \in 1..Cardinality(P)
  PROVE  \E i \in P : Cardinality({j \in P : j < i}) = k - 1
<1>. DEFINE n     == Cardinality(P)
            Below(i) == {j \in P : j < i}
            rank  == [i \in P |-> Cardinality(Below(i))]
<1>1. n \in Nat
  BY FS_CardinalityType
<1>2. \A i \in P : /\ IsFiniteSet(Below(i)) /\ Cardinality(Below(i)) \in Nat
                   /\ Cardinality(Below(i)) < n
  <2>. SUFFICES ASSUME NEW i \in P
                PROVE  /\ IsFiniteSet(Below(i)) /\ Cardinality(Below(i)) \in Nat
                       /\ Cardinality(Below(i)) < n
    OBVIOUS
  <2>1. Below(i) \in SUBSET P /\ i \in P /\ i \notin Below(i)
    OBVIOUS
  <2>. HIDE DEF Below
  <2>2. IsFiniteSet(Below(i)) /\ Cardinality(Below(i)) <= n /\ Below(i) # P
    BY <2>1, FS_Subset
  <2>3. Cardinality(Below(i)) \in Nat
    BY <2>2, FS_CardinalityType
  <2>4. Cardinality(Below(i)) # n
    BY <2>1, <2>2, FS_Subset
  <2>. QED
    BY <1>1, <2>2, <2>3, <2>4
<1>3. ASSUME NEW i \in P, NEW j \in P, i < j
      PROVE  Cardinality(Below(i)) < Cardinality(Below(j))
  <2>1. Below(i) \in SUBSET Below(j) /\ i \in Below(j) /\ i \notin Below(i)
    <3>1. \A h \in P : h < i => h < j
      BY <1>3
    <3>2. ~(i < i)
      OBVIOUS
    <3>. QED
      BY <1>3, <3>1, <3>2
  <2>2. IsFiniteSet(Below(j)) /\ Cardinality(Below(i)) \in Nat /\ Cardinality(Below(j)) \in Nat
    BY <1>2
  <2>. HIDE DEF Below
  <2>3. Cardinality(Below(i)) <= Cardinality(Below(j)) /\ Cardinality(Below(i)) # Cardinality(Below(j))
    BY <2>1, <2>2, FS_Subset
  <2>. QED
    BY <2>2, <2>3
<1>4. SUFFICES ASSUME \A i \in P : rank[i] # k - 1
               PROVE  FALSE
  OBVIOUS
<1>. DEFINE Others == (0..(n - 1)) \ {k - 1}
<1>5. rank \in [P -> Others]
  BY <1>1, <1>2, <1>4
<1>6. IsFiniteSet(Others) /\ Cardinality(Others) < Cardinality(P)
  <2>. HIDE DEF n
  <2>1. IsFiniteSet(0..(n - 1)) /\ Cardinality(0..(n - 1)) = n
    BY <1>1, FS_Interval
  <2>2. k - 1 \in 0..(n - 1)
    BY <1>1 DEF n
  <2>. DEFINE S == 0..(n - 1)
              x == k - 1
  <2>3. IsFiniteSet(S \ {x}) /\ Cardinality(S \ {x}) = Cardinality(S) - 1
    <3>. HIDE DEF S, x
    <3>. QED
      BY <2>1, <2>2, FS_RemoveElement DEF S, x
  <2>4. Cardinality(S) - 1 < n
    BY <1>1, <2>1
  <2>. QED
    BY <2>3, <2>4 DEF n
<1>7. \E i, j \in P : i # j /\ rank[i] = rank[j]
  <2>. HIDE DEF Others, rank
  <2>. QED
    BY <1>5, <1>6, FS_PigeonHole
<1>8. PICK i \in P, j \in P : i # j /\ Cardinality(Below(i)) = Cardinality(Below(j))
  BY <1>7
<1>9. i \in Nat /\ j \in Nat /\ Cardinality(Below(i)) \in Nat
  BY <1>2
<1>. HIDE DEF Below
<1>10. i < j \/ j < i
  BY <1>8, <1>9
<1>. QED
  BY <1>3, <1>8, <1>9, <1>10

LEMMA PickChooses ==
  ASSUME NEW S, NEW s \in Seq(S), NEW P \in SUBSET DOMAIN s
  PROVE  /\ Pick(s, P) \in Seq(S)
         /\ \A k \in DOMAIN Pick(s, P) : \E i \in P : Pick(s, P)[k] = s[i]
<1>. DEFINE Rank(i) == Cardinality({j \in P : j < i})
            At(k) == CHOOSE i \in P : Rank(i) = k - 1
<1>1. IsFiniteSet(P) /\ P \in SUBSET Nat
  BY FS_Interval, FS_Subset
<1>2. Cardinality(P) \in Nat
  BY <1>1, FS_CardinalityType
<1>3. \A k \in 1..Cardinality(P) : At(k) \in P
  BY <1>1, EveryRankTaken
<1>4. Pick(s, P) = [k \in 1..Cardinality(P) |-> s[At(k)]]
  BY DEF Pick
<1>. HIDE DEF At
<1>5. \A k \in 1..Cardinality(P) : s[At(k)] \in S
  BY <1>3
<1>6. Pick(s, P) \in [1..Cardinality(P) -> S]
  BY <1>4, <1>5
<1>. QED
  BY <1>2, <1>3, <1>4, <1>6
-----------------------------------------------------------------------------
(***************************************************************************)
(* Type correctness.                                                       *)
(***************************************************************************)
StoresOK ==
  /\ maildrop \in Seq(Uidls)
  /\ gone \subseteq Uidls
  /\ gmail \in [Uidls -> Nat]
  /\ records \in [Uidls -> Records]
  /\ jobRuns \in [Runs -> JobRuns]
  /\ projection \in [Runs -> JobRuns]
  /\ now \in Ticks
  /\ nextRun \in Nat
  /\ faults \in Nat

\* A run has messages where it takes one.
RunsOK ==
  /\ pc \in [Runs -> Steps]
  /\ batch \in [Runs -> Seq(References)]
  /\ job \in [Runs -> Job]
  /\ \A r \in Runs : pc[r] \in Working => batch[r] # <<>>
  /\ \A r \in Runs : pc[r] = "metadata" => job[r].toRead # <<>>

\* The step leaves the other runs alone.
OnlyRun(r) ==
  \A q \in Runs \ {r} : pc'[q] = pc[q] /\ batch'[q] = batch[q] /\ job'[q] = job[q]

TypeInv == StoresOK /\ RunsOK

LEMMA TypeInvShapes == TypeInv => ShapesOK /\ TypeOK
BY DEF TypeInv, StoresOK, RunsOK, ShapesOK, TypeOK

LEMMA NoCountsType == NoCounts \in Counts
BY DEF NoCounts, Counts

LEMMA NoJobRunType == NoJobRun \in JobRuns
BY NoCountsType DEF NoJobRun, JobRuns, Ticks

LEMMA NoRecordType == NoRecord \in Records
BY DEF NoRecord, Records, NoDate, Dates, Ticks

LEMMA NoJobType == NoJob \in Job
<1>1. <<>> \in Seq(References)
  OBVIOUS
<1>2. [r \in Runs |-> NoJobRun] \in [Runs -> JobRuns]
  BY NoJobRunType
<1>. QED
  BY <1>1, <1>2, NoCountsType DEF NoJob, Job, Ticks

\* What a run may do to its locals.
LEMMA JobUpdates ==
  ASSUME NEW j \in Job
  PROVE  /\ \A t \in Ticks : [j EXCEPT !.startedAt = t] \in Job
         /\ \A b \in BOOLEAN : [j EXCEPT !.reconciled = b] \in Job
         /\ \A s \in Seq(References) : [j EXCEPT !.toRead = s] \in Job
         /\ \A s \in Seq(References) : [j EXCEPT !.thrown = TRUE, !.toRead = s] \in Job
         /\ \A c \in Counts : [j EXCEPT !.counts = c] \in Job
         /\ \A s \in Seq(References), c \in Counts : [j EXCEPT !.toRead = s, !.counts = c] \in Job
         /\ \A c \in Counts : [j EXCEPT !.counts = c, !.rawMessage = {}, !.calls = 0] \in Job
         /\ \A S \in SUBSET Uidls : [j EXCEPT !.rawMessage = S] \in Job
         /\ \A n \in Nat : [j EXCEPT !.calls = n] \in Job
         /\ \A S \in SUBSET Uidls : [j EXCEPT !.candidates = S] \in Job
         /\ \A f \in [Runs -> JobRuns] : [j EXCEPT !.statistics = f] \in Job
<1>1. \A t \in Ticks : [j EXCEPT !.startedAt = t] \in Job
  BY DEF Job
<1>2. \A b \in BOOLEAN : [j EXCEPT !.reconciled = b] \in Job
  BY DEF Job
<1>3. \A s \in Seq(References) : [j EXCEPT !.toRead = s] \in Job
  BY DEF Job
<1>4. \A s \in Seq(References) : [j EXCEPT !.thrown = TRUE, !.toRead = s] \in Job
  BY DEF Job
<1>5. \A c \in Counts : [j EXCEPT !.counts = c] \in Job
  BY DEF Job
<1>6. \A s \in Seq(References), c \in Counts : [j EXCEPT !.toRead = s, !.counts = c] \in Job
  BY DEF Job
<1>7. \A c \in Counts : [j EXCEPT !.counts = c, !.rawMessage = {}, !.calls = 0] \in Job
  BY DEF Job
<1>8. \A S \in SUBSET Uidls : [j EXCEPT !.rawMessage = S] \in Job
  BY DEF Job
<1>9. \A n \in Nat : [j EXCEPT !.calls = n] \in Job
  BY DEF Job
<1>10. \A S \in SUBSET Uidls : [j EXCEPT !.candidates = S] \in Job
  BY DEF Job
<1>11. \A f \in [Runs -> JobRuns] : [j EXCEPT !.statistics = f] \in Job
  BY DEF Job
<1>. QED
  BY <1>1, <1>2, <1>3, <1>4, <1>5, <1>6, <1>7, <1>8, <1>9, <1>10, <1>11

LEMMA CountUpdates ==
  ASSUME NEW c \in Counts
  PROVE  /\ \A n \in Nat : WithDetected(c, n) \in Counts
         /\ MarkSkipped(c) \in Counts /\ CountFailed(c) \in Counts
         /\ MarkTransferred(c) \in Counts
<1>1. \A n \in Nat : WithDetected(c, n) \in Counts
  BY DEF Counts, WithDetected
<1>2. /\ c.processed + 1 \in Nat /\ c.skipped + 1 \in Nat
      /\ c.failed + 1 \in Nat /\ c.transferred + 1 \in Nat
  BY DEF Counts
<1>3. MarkSkipped(c) \in Counts
  <2>1. \A m, n \in Nat : [c EXCEPT !.processed = m, !.skipped = n] \in Counts
    BY DEF Counts
  <2>. QED
    BY <1>2, <2>1, Zenon DEF MarkSkipped
<1>4. CountFailed(c) \in Counts
  <2>1. \A m, n \in Nat : [c EXCEPT !.processed = m, !.failed = n] \in Counts
    BY DEF Counts
  <2>. QED
    BY <1>2, <2>1, Zenon DEF CountFailed
<1>5. MarkTransferred(c) \in Counts
  <2>1. \A m, n \in Nat : [c EXCEPT !.processed = m, !.transferred = n] \in Counts
    BY DEF Counts
  <2>. QED
    BY <1>2, <2>1, Zenon DEF MarkTransferred
<1>. QED
  BY <1>1, <1>3, <1>4, <1>5

\* The runs after a step of run r.
LEMMA RunsAfter ==
  ASSUME RunsOK, NEW r \in Runs, NEW step \in Steps, NEW b \in Seq(References), NEW j \in Job,
         pc' = [pc EXCEPT ![r] = step], batch' = [batch EXCEPT ![r] = b],
         job' = [job EXCEPT ![r] = j],
         step \in Working => b # <<>>, step = "metadata" => j.toRead # <<>>
  PROVE  /\ RunsOK'
         /\ pc'[r] = step /\ batch'[r] = b /\ job'[r] = j
         /\ OnlyRun(r)
<1>1. pc' \in [Runs -> Steps] /\ batch' \in [Runs -> Seq(References)] /\ job' \in [Runs -> Job]
  BY DEF RunsOK
<1>2. pc'[r] = step /\ batch'[r] = b /\ job'[r] = j
  BY DEF RunsOK
<1>3. OnlyRun(r)
  BY DEF RunsOK, OnlyRun
<1>. QED
  BY <1>1, <1>2, <1>3 DEF RunsOK, OnlyRun

\* The same, for the ways the actions are written.
LEMMA RunsAfterToCatch ==
  ASSUME RunsOK, NEW r \in Runs, ToCatch(r)
  PROVE  /\ RunsOK'
         /\ pc'[r] = "complete" /\ batch'[r] = <<>>
         /\ job'[r] = [job[r] EXCEPT !.thrown = TRUE, !.toRead = <<>>]
         /\ OnlyRun(r)
<1>. DEFINE j == [job[r] EXCEPT !.thrown = TRUE, !.toRead = <<>>]
<1>1. <<>> \in Seq(References) /\ job[r] \in Job
  BY DEF RunsOK
<1>2. j \in Job
  BY <1>1, JobUpdates
<1>3. job' = [job EXCEPT ![r] = j]
  BY DEF ToCatch, RunsOK
<1>4. /\ pc' = [pc EXCEPT ![r] = "complete"] /\ batch' = [batch EXCEPT ![r] = <<>>]
      /\ "complete" \in Steps \ Working /\ "complete" # "metadata"
  BY DEF ToCatch, Goto, Steps, Working, Holding
<1>. HIDE DEF j
<1>5. /\ RunsOK'
      /\ pc'[r] = "complete" /\ batch'[r] = <<>> /\ job'[r] = j
      /\ OnlyRun(r)
  BY <1>1, <1>2, <1>3, <1>4, RunsAfter
<1>. QED
  BY <1>5 DEF j

LEMMA RunsAfterEnd ==
  ASSUME RunsOK, NEW r \in Runs, NEW how \in Ended, End(r, how)
  PROVE  /\ RunsOK'
         /\ pc'[r] = how /\ batch'[r] = <<>>
         /\ job'[r] = [NoJob EXCEPT !.startedAt = job[r].startedAt]
         /\ OnlyRun(r)
<1>. DEFINE j == [NoJob EXCEPT !.startedAt = job[r].startedAt]
<1>1. <<>> \in Seq(References) /\ job[r] \in Job
  BY DEF RunsOK
<1>2. job[r].startedAt \in Ticks
  BY <1>1 DEF Job
<1>3. j \in Job
  BY <1>2, NoJobType, JobUpdates
<1>4. /\ pc' = [pc EXCEPT ![r] = how] /\ batch' = [batch EXCEPT ![r] = <<>>]
      /\ job' = [job EXCEPT ![r] = j]
  BY DEF End, Goto
<1>5. how \in Steps \ Working /\ how # "metadata"
  BY DEF Ended, Steps, Working, Holding
<1>. HIDE DEF j
<1>6. /\ RunsOK'
      /\ pc'[r] = how /\ batch'[r] = <<>> /\ job'[r] = j
      /\ OnlyRun(r)
  BY <1>1, <1>3, <1>4, <1>5, RunsAfter
<1>. QED
  BY <1>6 DEF j

LEMMA RunsAfterNextMessage ==
  ASSUME RunsOK, NEW r \in Runs, NEW counted \in Counts, pc[r] \in Working,
         NextMessage(r, counted)
  PROVE  /\ RunsOK'
         /\ pc'[r] = (IF Tail(batch[r]) = <<>> THEN "cleanup" ELSE "claim")
         /\ batch'[r] = Tail(batch[r])
         /\ job'[r] = [job[r] EXCEPT !.counts = counted, !.rawMessage = {}, !.calls = 0]
         /\ OnlyRun(r)
<1>. DEFINE step == IF Tail(batch[r]) = <<>> THEN "cleanup" ELSE "claim"
            j == [job[r] EXCEPT !.counts = counted, !.rawMessage = {}, !.calls = 0]
<1>1. batch[r] \in Seq(References) /\ batch[r] # <<>> /\ job[r] \in Job
  BY DEF RunsOK
<1>2. Tail(batch[r]) \in Seq(References)
  BY <1>1, HeadTailProperties
<1>3. j \in Job
  BY <1>1, JobUpdates
<1>4. job' = [job EXCEPT ![r] = j]
  BY DEF NextMessage, RunsOK
<1>5. pc' = [pc EXCEPT ![r] = step] /\ batch' = [batch EXCEPT ![r] = Tail(batch[r])]
  BY DEF NextMessage, Goto
<1>6. step \in Steps /\ (step \in Working => Tail(batch[r]) # <<>>) /\ step # "metadata"
  BY DEF Steps, Working, Holding
<1>. HIDE DEF step, j
<1>7. /\ RunsOK'
      /\ pc'[r] = step /\ batch'[r] = Tail(batch[r]) /\ job'[r] = j
      /\ OnlyRun(r)
  BY <1>2, <1>3, <1>4, <1>5, <1>6, RunsAfter
<1>. QED
  BY <1>7 DEF step, j

LEMMA RunsAfterGoto ==
  ASSUME RunsOK, NEW r \in Runs, NEW step \in Steps, Goto(r, step), UNCHANGED batch,
         NEW j \in Job, job' = [job EXCEPT ![r] = j],
         step \in Working => batch[r] # <<>>, step = "metadata" => j.toRead # <<>>
  PROVE  /\ RunsOK'
         /\ pc'[r] = step /\ batch'[r] = batch[r] /\ job'[r] = j
         /\ OnlyRun(r)
<1>1. batch[r] \in Seq(References) /\ batch' = [batch EXCEPT ![r] = batch[r]]
  BY DEF RunsOK
<1>. QED
  BY <1>1, RunsAfter DEF Goto

\* A step that leaves the locals alone.
LEMMA RunsAfterPlainGoto ==
  ASSUME RunsOK, NEW r \in Runs, NEW step \in Steps, Goto(r, step), UNCHANGED <<batch, job>>,
         step \in Working => batch[r] # <<>>, step # "metadata"
  PROVE  /\ RunsOK'
         /\ pc'[r] = step /\ batch'[r] = batch[r] /\ job'[r] = job[r]
         /\ OnlyRun(r)
<1>1. job[r] \in Job /\ job' = [job EXCEPT ![r] = job[r]]
  BY DEF RunsOK
<1>. QED
  BY <1>1, RunsAfterGoto

LEMMA StartKeepsRuns ==
  ASSUME TypeInv, NEW r \in Runs, Start(r)
  PROVE  RunsOK' /\ OnlyRun(r)
<1>. DEFINE j == [job[r] EXCEPT !.startedAt = now]
<1>1. RunsOK /\ job[r] \in Job /\ now \in Ticks
  BY DEF TypeInv, StoresOK, RunsOK
<1>2. j \in Job
  BY <1>1, JobUpdates
<1>3. Goto(r, "reconcile") /\ UNCHANGED batch /\ job' = [job EXCEPT ![r] = j]
  BY DEF Start, TypeInv, RunsOK
<1>4. "reconcile" \in Steps \ Working
  BY DEF Steps, Working, Holding
<1>. HIDE DEF j
<1>. QED
  BY <1>1, <1>2, <1>3, <1>4, RunsAfterGoto

LEMMA OpeningKeepsRuns ==
  ASSUME TypeInv, NEW r \in Runs, ReconcileStaleRunningJobs(r) \/ SaveStarted(r)
  PROVE  RunsOK' /\ OnlyRun(r)
<1>. DEFINE j == [job[r] EXCEPT !.reconciled = (Stale(r) # {})]
<1>1. RunsOK /\ job[r] \in Job
  BY DEF TypeInv, RunsOK
<1>2. j \in Job
  BY <1>1, JobUpdates
<1>3. {"saveStarted", "list"} \subseteq Steps \ Working /\ "rejected" \in Ended
  BY DEF Steps, Working, Holding, Ended
<1>4. CASE End(r, "rejected")
  BY <1>1, <1>3, <1>4, RunsAfterEnd
<1>5. CASE Goto(r, "list") /\ UNCHANGED <<batch, job>>
  BY <1>1, <1>3, <1>5, RunsAfterPlainGoto
<1>6. CASE /\ Goto(r, "saveStarted") /\ UNCHANGED batch
           /\ job' = [job EXCEPT ![r].reconciled = (Stale(r) # {})]
  <2>1. job' = [job EXCEPT ![r] = j]
    BY <1>1, <1>6 DEF RunsOK
  <2>. HIDE DEF j
  <2>. QED
    BY <1>1, <1>2, <1>3, <1>6, <2>1, RunsAfterGoto
<1>. HIDE DEF j
<1>7. \/ End(r, "rejected")
      \/ Goto(r, "list") /\ UNCHANGED <<batch, job>>
      \/ /\ Goto(r, "saveStarted") /\ UNCHANGED batch
         /\ job' = [job EXCEPT ![r].reconciled = (Stale(r) # {})]
  BY Zenon DEF ReconcileStaleRunningJobs, SaveStarted
<1>. QED
  BY <1>4, <1>5, <1>6, <1>7

LEMMA ReferencesListed ==
  ASSUME TypeInv
  PROVE  /\ MessageReferences(ScanLimit) \in Seq(References)
         /\ \A i \in DOMAIN MessageReferences(ScanLimit) :
              LET m == MessageReferences(ScanLimit)[i]
              IN m.number \in DOMAIN maildrop /\ maildrop[m.number] = m.uidl
<1>. DEFINE n == Min2(ScanLimit, Len(maildrop))
            Listed(i) == [number |-> Len(maildrop) + 1 - i, uidl |-> maildrop[Len(maildrop) + 1 - i]]
<1>1. maildrop \in Seq(Uidls) /\ Len(maildrop) \in Nat
  BY DEF TypeInv, StoresOK
<1>2. ScanLimit \in Nat
  BY LimitsAssumption DEF ScanLimit, Min2
<1>3. n \in Nat /\ n <= Len(maildrop)
  BY <1>1, <1>2 DEF Min2
<1>4. MessageReferences(ScanLimit) = [i \in 1..n |-> Listed(i)]
  BY DEF MessageReferences
<1>5. \A i \in 1..n : Len(maildrop) + 1 - i \in 1..Len(maildrop)
  BY <1>1, <1>3
<1>6. \A i \in 1..n : Listed(i) \in References
  BY <1>1, <1>5 DEF References
<1>7. \A i \in 1..n : Listed(i).number \in DOMAIN maildrop /\ maildrop[Listed(i).number] = Listed(i).uidl
  BY <1>1, <1>5
<1>. HIDE DEF Listed, n
<1>8. MessageReferences(ScanLimit) \in [1..n -> References]
  BY <1>4, <1>6
<1>. QED
  BY <1>3, <1>4, <1>7, <1>8

LEMMA ListingKeepsRuns ==
  ASSUME TypeInv, NEW r \in Runs, ListMessages(r)
  PROVE  RunsOK' /\ OnlyRun(r)
<1>. DEFINE listed == MessageReferences(ScanLimit)
            toRead == [job[r] EXCEPT !.toRead = listed]
            counts == [job[r] EXCEPT !.counts = WithDetected(job[r].counts, Len(listed))]
            step == IF listed = <<>> THEN "complete" ELSE "claim"
<1>1. RunsOK /\ job[r] \in Job /\ listed \in Seq(References)
  BY ReferencesListed DEF TypeInv, RunsOK
<1>2. toRead \in Job
  BY <1>1, JobUpdates
<1>3. counts \in Job
  <2>1. job[r].counts \in Counts /\ Len(listed) \in Nat
    BY <1>1 DEF Job
  <2>2. WithDetected(job[r].counts, Len(listed)) \in Counts
    BY <2>1, CountUpdates
  <2>. HIDE DEF listed
  <2>. QED
    BY <1>1, <2>2, JobUpdates
<1>4. step \in Steps /\ (step \in Working => listed # <<>>) /\ step # "metadata"
      /\ "filter" \in Steps \ Working
  BY DEF Steps, Working, Holding
<1>5. \/ ToCatch(r)
      \/ Goto(r, "filter") /\ job' = [job EXCEPT ![r] = toRead] /\ UNCHANGED batch
      \/ /\ pc' = [pc EXCEPT ![r] = step] /\ batch' = [batch EXCEPT ![r] = listed]
         /\ job' = [job EXCEPT ![r] = counts]
  BY <1>1 DEF ListMessages, RunsOK, Goto
<1>. HIDE DEF listed, toRead, counts, step
<1>6. CASE ToCatch(r)
  BY <1>1, <1>6, RunsAfterToCatch
<1>7. CASE Goto(r, "filter") /\ job' = [job EXCEPT ![r] = toRead] /\ UNCHANGED batch
  BY <1>1, <1>2, <1>4, <1>7, RunsAfterGoto
<1>8. CASE /\ pc' = [pc EXCEPT ![r] = step] /\ batch' = [batch EXCEPT ![r] = listed]
           /\ job' = [job EXCEPT ![r] = counts]
  BY <1>1, <1>3, <1>4, <1>8, RunsAfter
<1>. QED
  BY <1>5, <1>6, <1>7, <1>8
LEMMA FilterKeepsRuns ==
  ASSUME TypeInv, NEW r \in Runs, FilterIncrementalMessages(r)
  PROVE  RunsOK' /\ OnlyRun(r)
<1>. DEFINE wanted == Pick(job[r].toRead, Wanted(job[r].toRead))
            j == [job[r] EXCEPT !.toRead = wanted]
            step == IF wanted = <<>> THEN "complete" ELSE "metadata"
<1>1. RunsOK /\ job[r] \in Job /\ job[r].toRead \in Seq(References)
  BY DEF TypeInv, RunsOK, Job
<1>2. wanted \in Seq(References)
  <2>1. Wanted(job[r].toRead) \in SUBSET DOMAIN job[r].toRead
    BY DEF Wanted
  <2>. QED
    BY <1>1, <2>1, PickChooses
<1>3. j \in Job
  <2>. HIDE DEF wanted
  <2>. QED
    BY <1>1, <1>2, JobUpdates
<1>4. step \in Steps \ Working /\ (step = "metadata" => wanted # <<>>)
  BY DEF Steps, Working, Holding
<1>5. j.toRead = wanted
  BY <1>1 DEF Job
<1>6. \/ ToCatch(r)
      \/ Goto(r, step) /\ job' = [job EXCEPT ![r] = j] /\ UNCHANGED batch
  BY <1>1 DEF FilterIncrementalMessages, RunsOK
<1>. HIDE DEF wanted, j, step
<1>7. CASE ToCatch(r)
  BY <1>1, <1>7, RunsAfterToCatch
<1>8. CASE Goto(r, step) /\ job' = [job EXCEPT ![r] = j] /\ UNCHANGED batch
  BY <1>1, <1>3, <1>4, <1>5, <1>8, RunsAfterGoto
<1>. QED
  BY <1>6, <1>7, <1>8

LEMMA MetadataKeepsRuns ==
  ASSUME TypeInv, NEW r \in Runs, GetMessageMetadata(r)
  PROVE  RunsOK' /\ OnlyRun(r)
<1>. DEFINE n      == Head(job[r].toRead).number
            rest   == Tail(job[r].toRead)
            read   == Append(batch[r], [number |-> n, uidl |-> maildrop[n]])
            counts == IF rest = <<>> THEN WithDetected(job[r].counts, Len(batch[r]) + 1)
                      ELSE job[r].counts
            j      == [job[r] EXCEPT !.toRead = rest, !.counts = counts]
            step   == IF rest = <<>> THEN "claim" ELSE "metadata"
<1>1. /\ RunsOK /\ job[r] \in Job /\ job[r].toRead \in Seq(References)
      /\ job[r].counts \in Counts /\ batch[r] \in Seq(References) /\ maildrop \in Seq(Uidls)
  BY DEF TypeInv, StoresOK, RunsOK, Job
<1>2. rest \in Seq(References)
  <2>1. job[r].toRead # <<>>
    BY <1>1 DEF RunsOK, GetMessageMetadata
  <2>. QED
    BY <1>1, <2>1, HeadTailProperties
<1>3. counts \in Counts
  <2>1. Len(batch[r]) + 1 \in Nat
    BY <1>1
  <2>. QED
    BY <1>1, <2>1, CountUpdates
<1>4. j \in Job
  <2>. HIDE DEF rest, counts
  <2>. QED
    BY <1>1, <1>2, <1>3, JobUpdates
<1>5. j.toRead = rest
  BY <1>1 DEF Job
<1>6. step \in Steps /\ (step = "metadata" => rest # <<>>)
  BY DEF Steps, Holding
<1>7. \/ ToCatch(r)
      \/ /\ n \in DOMAIN maildrop /\ pc' = [pc EXCEPT ![r] = step]
         /\ batch' = [batch EXCEPT ![r] = read] /\ job' = [job EXCEPT ![r] = j]
  <2>1. SUFFICES ASSUME ~ToCatch(r)
                 PROVE  /\ n \in DOMAIN maildrop /\ pc' = [pc EXCEPT ![r] = step]
                        /\ batch' = [batch EXCEPT ![r] = read] /\ job' = [job EXCEPT ![r] = j]
    OBVIOUS
  <2>2. /\ n \in DOMAIN maildrop /\ pc' = [pc EXCEPT ![r] = step]
        /\ batch' = [batch EXCEPT ![r] = read]
    BY <2>1, Zenon DEF GetMessageMetadata, Goto
  <2>3. job' = [job EXCEPT ![r].toRead = rest,
                           ![r].counts = IF rest = <<>>
                                         THEN WithDetected(@, Len(batch[r]) + 1) ELSE @]
    BY <2>1, Zenon DEF GetMessageMetadata
  <2>4. job' = [job EXCEPT ![r] = j]
    BY <1>1, <2>3 DEF RunsOK, Job
  <2>. QED
    BY <2>2, <2>4
<1>8. ASSUME n \in DOMAIN maildrop
      PROVE  read \in Seq(References) /\ read # <<>>
  <2>1. [number |-> n, uidl |-> maildrop[n]] \in References
    BY <1>1, <1>8 DEF References
  <2>. QED
    BY <1>1, <2>1, AppendProperties
<1>. HIDE DEF n, rest, read, counts, j, step
<1>9. CASE ToCatch(r)
  BY <1>1, <1>9, RunsAfterToCatch
<1>10. CASE /\ n \in DOMAIN maildrop /\ pc' = [pc EXCEPT ![r] = step]
            /\ batch' = [batch EXCEPT ![r] = read] /\ job' = [job EXCEPT ![r] = j]
  BY <1>1, <1>4, <1>5, <1>6, <1>8, <1>10, RunsAfter
<1>. QED
  BY <1>7, <1>9, <1>10

LEMMA ClaimKeepsRuns ==
  ASSUME TypeInv, NEW r \in Runs, ClaimForProcessing(r)
  PROVE  RunsOK' /\ OnlyRun(r)
<1>. DEFINE counted == MarkSkipped(job[r].counts)
<1>1. /\ RunsOK /\ job[r] \in Job /\ job[r].counts \in Counts /\ pc[r] = "claim"
      /\ pc[r] \in Working /\ batch[r] # <<>>
  BY DEF TypeInv, RunsOK, Job, ClaimForProcessing, Working
<1>2. counted \in Counts /\ "fetch" \in Steps /\ "fetch" # "metadata"
  BY <1>1, CountUpdates DEF Steps, Holding
<1>3. \/ ToCatch(r)
      \/ Goto(r, "fetch") /\ UNCHANGED <<batch, job>>
      \/ NextMessage(r, counted)
  BY Zenon DEF ClaimForProcessing
<1>. HIDE DEF counted
<1>. QED
  BY <1>1, <1>2, <1>3, RunsAfterToCatch, RunsAfterPlainGoto, RunsAfterNextMessage

LEMMA MessageKeepsRuns ==
  ASSUME TypeInv, NEW r \in Runs,
         GetMessage(r) \/ ImportMessage(r) \/ ReconcileImportedMessage(r)
  PROVE  RunsOK' /\ OnlyRun(r)
<1>1. /\ RunsOK /\ job[r] \in Job /\ maildrop \in Seq(Uidls) /\ job[r].calls \in Nat
      /\ UNCHANGED batch /\ batch[r] # <<>>
  BY DEF TypeInv, StoresOK, RunsOK, Job, GetMessage, ImportMessage, ReconcileImportedMessage,
         Working, Holding
<1>2. Holding \subseteq Steps /\ "metadata" \notin Holding
  BY DEF Steps, Holding
<1>3. PICK step \in Holding, j \in Job : Goto(r, step) /\ job' = [job EXCEPT ![r] = j]
  <2>1. CASE UNCHANGED job /\ \E step \in Holding : Goto(r, step)
    <3>1. job' = [job EXCEPT ![r] = job[r]]
      BY <1>1, <2>1 DEF RunsOK
    <3>. QED
      BY <1>1, <2>1, <3>1
  <2>2. CASE GetMessage(r) /\ ~UNCHANGED job
    <3>. DEFINE n == Current(r).number
                j == [job[r] EXCEPT !.rawMessage = {maildrop[n]}]
    <3>1. n \in DOMAIN maildrop /\ Goto(r, "import") /\ job' = [job EXCEPT ![r].rawMessage = {maildrop[n]}]
      BY <2>2, Zenon DEF GetMessage
    <3>2. {maildrop[n]} \in SUBSET Uidls
      BY <1>1, <3>1
    <3>3. j \in Job /\ job' = [job EXCEPT ![r] = j]
      BY <1>1, <3>1, <3>2, JobUpdates DEF RunsOK
    <3>. QED
      BY <3>1, <3>3 DEF Holding
  <2>3. CASE ImportMessage(r) /\ ~UNCHANGED job
    <3>. DEFINE j == [job[r] EXCEPT !.calls = job[r].calls + 1]
    <3>1. /\ \E step \in {"import", "markFailed"} : Goto(r, step)
          /\ job' = [job EXCEPT ![r].calls = @ + 1]
      BY <2>3, Zenon DEF ImportMessage
    <3>2. job[r].calls + 1 \in Nat
      BY <1>1
    <3>3. j \in Job /\ job' = [job EXCEPT ![r] = j]
      BY <1>1, <3>1, <3>2, JobUpdates DEF RunsOK
    <3>. QED
      BY <3>1, <3>3 DEF Holding
  <2>4. UNCHANGED job => \E step \in Holding : Goto(r, step)
    <3>1. {"import", "markImported", "markFailed", "remark"} \subseteq Holding
      BY DEF Holding
    <3>2. \E step \in {"import", "markImported", "markFailed", "remark"} : Goto(r, step)
      BY Zenon DEF GetMessage, ImportMessage, ReconcileImportedMessage
    <3>. QED
      BY <3>1, <3>2
  <2>5. ReconcileImportedMessage(r) => UNCHANGED job
    BY DEF ReconcileImportedMessage
  <2>. QED
    BY <2>1, <2>2, <2>3, <2>4, <2>5
<1>. QED
  BY <1>1, <1>2, <1>3, RunsAfterGoto

LEMMA MarkKeepsRuns ==
  ASSUME TypeInv, NEW r \in Runs, MarkImported(r) \/ MarkReconciled(r) \/ MarkFailed(r)
  PROVE  RunsOK' /\ OnlyRun(r)
<1>1. /\ RunsOK /\ job[r].counts \in Counts /\ pc[r] \in Working /\ batch[r] # <<>>
  BY DEF TypeInv, RunsOK, Job, MarkImported, MarkReconciled, MarkFailed, Working, Holding
<1>2. MarkTransferred(job[r].counts) \in Counts /\ CountFailed(job[r].counts) \in Counts
      /\ {"lookup", "markFailed"} \subseteq Steps \ {"metadata"}
  BY <1>1, CountUpdates DEF Steps, Holding
<1>3. \/ ToCatch(r)
      \/ \E counted \in {MarkTransferred(job[r].counts), CountFailed(job[r].counts)} :
           NextMessage(r, counted)
      \/ \E step \in {"lookup", "markFailed"} : Goto(r, step) /\ UNCHANGED <<batch, job>>
  BY Zenon DEF MarkImported, MarkReconciled, MarkFailed
<1>. QED
  BY <1>1, <1>2, <1>3, RunsAfterToCatch, RunsAfterPlainGoto, RunsAfterNextMessage
LEMMA CleanupKeepsRuns ==
  ASSUME TypeInv, NEW r \in Runs, ListImportedRecords(r) \/ DeleteRecords(r)
  PROVE  RunsOK' /\ OnlyRun(r)
<1>1. RunsOK /\ job[r] \in Job
  BY DEF TypeInv, RunsOK
<1>2. {"complete", "delete"} \subseteq Steps \ Working
  BY DEF Steps, Working, Holding
<1>3. PICK step \in {"complete", "delete"}, S \in SUBSET Uidls :
        /\ Goto(r, step) /\ UNCHANGED batch
        /\ UNCHANGED job \/ job' = [job EXCEPT ![r].candidates = S]
  <2>1. CASE DeleteRecords(r)
    <3>1. Goto(r, "complete") /\ UNCHANGED batch /\ job' = [job EXCEPT ![r].candidates = {}]
      BY <2>1, Zenon DEF DeleteRecords
    <3>. QED
      BY <3>1
  <2>2. CASE ListImportedRecords(r) /\ UNCHANGED job
    <3>1. UNCHANGED batch /\ \E step \in {"complete", "delete"} : Goto(r, step)
      BY <2>2, Zenon DEF ListImportedRecords
    <3>. QED
      BY <2>2, <3>1
  <2>3. CASE ListImportedRecords(r) /\ ~UNCHANGED job
    <3>. DEFINE expired == {u \in ImportedUidls \ Newest(ImportedUidls, MinimumRetainedCount) :
                              records[u].importedAt.hour < now - RetentionTicks}
                S == Newest(expired, CleanupBatchSize)
    <3>1. /\ UNCHANGED batch /\ job' = [job EXCEPT ![r].candidates = S]
          /\ \E step \in {"complete", "delete"} : Goto(r, step)
      BY <2>3, Zenon DEF ListImportedRecords
    <3>2. S \subseteq Uidls
      BY DEF Newest, ImportedUidls
    <3>. HIDE DEF S
    <3>. QED
      BY <3>1, <3>2
  <2>. QED
    BY <2>1, <2>2, <2>3
<1>4. CASE UNCHANGED job
  BY <1>1, <1>2, <1>3, <1>4, RunsAfterPlainGoto
<1>5. CASE job' = [job EXCEPT ![r].candidates = S]
  <2>. DEFINE j == [job[r] EXCEPT !.candidates = S]
  <2>1. j \in Job /\ job' = [job EXCEPT ![r] = j]
    BY <1>1, <1>5, JobUpdates DEF RunsOK
  <2>. HIDE DEF j
  <2>. QED
    BY <1>1, <1>2, <1>3, <2>1, RunsAfterGoto
<1>. QED
  BY <1>3, <1>4, <1>5

LEMMA ClosingKeepsRuns ==
  ASSUME TypeInv, NEW r \in Runs, CompleteJob(r) \/ GetStatistics(r) \/ SaveStatistics(r)
  PROVE  RunsOK' /\ OnlyRun(r)
<1>. DEFINE j == [job[r] EXCEPT !.statistics = jobRuns]
<1>1. RunsOK /\ job[r] \in Job /\ jobRuns \in [Runs -> JobRuns]
  BY DEF TypeInv, StoresOK, RunsOK
<1>2. {"refresh", "saveStatistics"} \subseteq Steps \ Working
  BY DEF Steps, Working, Holding
<1>3. j \in Job
  BY <1>1, JobUpdates
<1>4. \/ ToCatch(r)
      \/ \E how \in Ended : End(r, how)
      \/ Goto(r, "refresh") /\ UNCHANGED <<batch, job>>
      \/ /\ Goto(r, "saveStatistics") /\ UNCHANGED batch
         /\ job' = [job EXCEPT ![r].statistics = jobRuns]
  BY Zenon DEF CompleteJob, GetStatistics, SaveStatistics, Outcome, Ended
<1>5. CASE /\ Goto(r, "saveStatistics") /\ UNCHANGED batch
           /\ job' = [job EXCEPT ![r].statistics = jobRuns]
  <2>1. job' = [job EXCEPT ![r] = j]
    BY <1>1, <1>5 DEF RunsOK
  <2>. HIDE DEF j
  <2>. QED
    BY <1>1, <1>2, <1>3, <1>5, <2>1, RunsAfterGoto
<1>. HIDE DEF j
<1>. QED
  BY <1>1, <1>2, <1>4, <1>5, RunsAfterToCatch, RunsAfterEnd, RunsAfterPlainGoto

LEMMA StepKeepsRuns ==
  ASSUME TypeInv, NEW r \in Runs, Start(r) \/ RunStep(r) \/ Kill(r)
  PROVE  RunsOK' /\ OnlyRun(r)
<1>1. CASE Kill(r)
  <2>1. RunsOK /\ End(r, "killed") /\ "killed" \in Ended
    BY <1>1 DEF TypeInv, Kill, Ended
  <2>. QED
    BY <2>1, RunsAfterEnd
<1>. QED
  BY <1>1, StartKeepsRuns, OpeningKeepsRuns, ListingKeepsRuns, FilterKeepsRuns, MetadataKeepsRuns,
     ClaimKeepsRuns, MessageKeepsRuns, MarkKeepsRuns, CleanupKeepsRuns, ClosingKeepsRuns
     DEF RunStep
\* A finite set of numbers has a greatest one: the one of the highest rank.
LEMMA GreatestExists ==
  ASSUME NEW P \in SUBSET Nat, IsFiniteSet(P), P # {}
  PROVE  \E i \in P : \A j \in P : j <= i
<1>1. Cardinality(P) \in Nat /\ Cardinality(P) # 0
  BY FS_CardinalityType, FS_EmptySet
<1>. DEFINE k == Cardinality(P)
<1>2. k \in 1..Cardinality(P)
  BY <1>1
<1>3. PICK i \in P : Cardinality({j \in P : j < i}) = k - 1
  <2>. HIDE DEF k
  <2>. QED
    BY <1>2, EveryRankTaken
<1>. DEFINE below == {j \in P : j < i}
            upTo  == below \cup {i}
<1>4. below \in SUBSET P /\ i \notin below /\ upTo \in SUBSET P /\ Cardinality(below) = k - 1
  BY <1>3
<1>5. \A j \in upTo : j <= i
  OBVIOUS
<1>. HIDE DEF below
<1>6. Cardinality(upTo) = Cardinality(below) + 1
  BY <1>4, FS_Subset, FS_AddElement
<1>. HIDE DEF upTo
<1>7. Cardinality(P) = Cardinality(upTo)
  BY <1>1, <1>4, <1>6
<1>8. upTo = P
  BY <1>4, <1>7, FS_Subset
<1>. QED
  BY <1>5, <1>8

LEMMA NowType ==
  ASSUME StoresOK, Uidls # {}
  PROVE  /\ Now \in Dates /\ Now.hour = now
         /\ \A u \in Uidls : records[u].importedAt.order < Now.order
<1>. DEFINE order  == [u \in Uidls |-> records[u].importedAt.order]
            orders == {records[u].importedAt.order : u \in Uidls}
<1>1. \A u \in Uidls : records[u].importedAt.order \in Nat
  BY DEF StoresOK, Records, Dates
<1>2. orders \in SUBSET Nat /\ orders # {}
  BY <1>1
<1>3. IsFiniteSet(orders)
  <2>1. order \in Surjection(Uidls, orders)
    BY DEF Surjection
  <2>. HIDE DEF order, orders
  <2>. QED
    BY <2>1, MailAssumption, FS_Surjection
<1>. HIDE DEF orders
<1>4. \E o \in orders : \A p \in orders : p <= o
  BY <1>2, <1>3, GreatestExists
<1>. DEFINE o == CHOOSE o \in orders : \A p \in orders : p <= o
<1>5. o \in Nat /\ \A u \in Uidls : records[u].importedAt.order <= o
  <2>1. o \in orders /\ \A p \in orders : p <= o
    BY <1>4
  <2>. HIDE DEF o
  <2>2. \A u \in Uidls : records[u].importedAt.order \in orders
    BY DEF orders
  <2>. QED
    BY <1>2, <2>1, <2>2
<1>6. Now = [hour |-> now, order |-> 1 + o]
  BY DEF Now, orders
<1>7. now \in Ticks
  BY DEF StoresOK
<1>. HIDE DEF o
<1>. QED
  BY <1>1, <1>5, <1>6, <1>7 DEF Dates

\* The documents the repository writes.
LEMMA RecordsWritten ==
  ASSUME StoresOK, NEW u \in Uidls, NEW r \in Runs
  PROVE  /\ Claimed(u, r) \in [Uidls -> Records]
         /\ Imported(u) \in [Uidls -> Records]
         /\ Failed(u, r) \in [Uidls -> Records]
<1>1. /\ records \in [Uidls -> Records] /\ records[u].importedAt \in Dates
      /\ records[u].claimJobId \in Runs \cup {Nobody}
  BY DEF StoresOK, Records
<1>2. Now \in Dates
  BY NowType
<1>3. Claimed(u, r) \in [Uidls -> Records]
  <2>1. ProcessingRecord(records[u], r) \in Records
    BY <1>1 DEF ProcessingRecord, Records
  <2>. QED
    BY <1>1, <2>1 DEF Claimed
<1>4. Imported(u) \in [Uidls -> Records]
  <2>1. [status |-> "imported", claimJobId |-> records[u].claimJobId, importedAt |-> Now] \in Records
    BY <1>1, <1>2 DEF Records
  <2>. QED
    BY <1>1, <2>1 DEF Imported
<1>5. Failed(u, r) \in [Uidls -> Records]
  <2>1. [status |-> "failed", claimJobId |-> r, importedAt |-> records[u].importedAt] \in Records
    BY <1>1 DEF Records
  <2>. QED
    BY <1>1, <2>1 DEF Failed
<1>. QED
  BY <1>3, <1>4, <1>5

LEMMA JobRunsWritten ==
  ASSUME TypeInv, NEW r \in Runs
  PROVE  Started(r) \in JobRuns /\ Finalized(r) \in JobRuns
<1>1. job[r].counts \in Counts /\ job[r].startedAt \in Ticks
  BY DEF TypeInv, RunsOK, Job
<1>2. Started(r) \in JobRuns
  BY <1>1, NoCountsType DEF Started, JobRuns
<1>3. Finalized(r) \in JobRuns
  BY <1>1 DEF Finalized, DetermineStatus, JobRuns
<1>. QED
  BY <1>2, <1>3

LEMMA StepKeepsStores ==
  ASSUME TypeInv, NEW r \in Runs, Start(r) \/ RunStep(r) \/ Kill(r)
  PROVE  StoresOK'
<1>1. StoresOK /\ faults' \in Nat
  <2>1. faults' \in {faults, faults + 1}
    BY Zenon DEF Start, Kill, RunStep, ReconcileStaleRunningJobs, SaveStarted, ListMessages,
       FilterIncrementalMessages, GetMessageMetadata, ClaimForProcessing, GetMessage,
       ImportMessage, MarkImported, ReconcileImportedMessage, MarkReconciled, MarkFailed,
       ListImportedRecords, DeleteRecords, CompleteJob, GetStatistics, SaveStatistics, Fault, Fine
  <2>. QED
    BY <2>1 DEF TypeInv, StoresOK
<1>2. ASSUME UNCHANGED <<mailboxes, records, runStores, now>>, nextRun' \in {nextRun, nextRun + 1}
      PROVE  StoresOK'
  BY <1>1, <1>2 DEF StoresOK, mailboxes, runStores
<1>3. ASSUME UNCHANGED <<mailboxes, records, time>>,
             jobRuns' \in [Runs -> JobRuns], projection' \in [Runs -> JobRuns]
      PROVE  StoresOK'
  BY <1>1, <1>3 DEF StoresOK, mailboxes, time
<1>4. ASSUME UNCHANGED <<mailboxes, runStores, time>>, records' \in [Uidls -> Records]
      PROVE  StoresOK'
  BY <1>1, <1>4 DEF StoresOK, mailboxes, runStores, time
<1>5. CASE Start(r) \/ Kill(r) \/ ListMessages(r) \/ FilterIncrementalMessages(r)
           \/ GetMessageMetadata(r) \/ GetMessage(r) \/ ReconcileImportedMessage(r)
           \/ ListImportedRecords(r) \/ GetStatistics(r)
  BY <1>2, <1>5 DEF Start, Kill, ListMessages, FilterIncrementalMessages, GetMessageMetadata,
     GetMessage, ReconcileImportedMessage, ListImportedRecords, GetStatistics, time
<1>6. CASE ReconcileStaleRunningJobs(r)
  <2>1. \A S : Deleted(S) \in [Runs -> JobRuns]
    BY <1>1, NoJobRunType DEF StoresOK, Deleted
  <2>2. \E S : jobRuns' = Deleted(S)
    BY <1>6, Zenon DEF ReconcileStaleRunningJobs
  <2>3. UNCHANGED <<mailboxes, records, projection, time>>
    BY <1>6 DEF ReconcileStaleRunningJobs
  <2>. QED
    BY <1>1, <1>3, <2>1, <2>2, <2>3 DEF StoresOK
<1>7. CASE SaveStarted(r) \/ CompleteJob(r)
  <2>1. PICK summary \in {Started(r), Finalized(r)} :
          jobRuns' \in {jobRuns, [jobRuns EXCEPT ![r] = summary]}
    BY <1>7, Zenon DEF SaveStarted, CompleteJob
  <2>2. UNCHANGED <<mailboxes, records, projection, time>>
    BY <1>7 DEF SaveStarted, CompleteJob
  <2>3. summary \in JobRuns
    BY <2>1, JobRunsWritten
  <2>. QED
    BY <1>1, <1>3, <2>1, <2>2, <2>3 DEF StoresOK
<1>8. CASE SaveStatistics(r)
  <2>1. projection' \in {projection, job[r].statistics}
        /\ UNCHANGED <<mailboxes, records, jobRuns, time>>
    BY <1>8, Zenon DEF SaveStatistics
  <2>2. job[r].statistics \in [Runs -> JobRuns]
    BY DEF TypeInv, RunsOK, Job
  <2>. QED
    BY <1>1, <1>3, <2>1, <2>2 DEF StoresOK
<1>9. CASE ImportMessage(r)
  <2>1. PICK u \in job[r].rawMessage : gmail' \in {gmail, [gmail EXCEPT ![u] = @ + 1]}
    BY <1>9, Zenon DEF ImportMessage
  <2>2. UNCHANGED <<maildrop, gone, records, runStores, time>>
    BY <1>9 DEF ImportMessage
  <2>3. u \in Uidls
    BY DEF TypeInv, RunsOK, Job
  <2>4. gmail' \in [Uidls -> Nat]
    BY <1>1, <2>1, <2>3 DEF StoresOK
  <2>. QED
    BY <1>1, <2>2, <2>4 DEF StoresOK, runStores, time
<1>10. CASE ClaimForProcessing(r) \/ MarkImported(r) \/ MarkReconciled(r) \/ MarkFailed(r)
  <2>. DEFINE u == Current(r).uidl
  <2>1. u \in Uidls
    <3>1. pc[r] \in Working
      BY <1>10 DEF ClaimForProcessing, MarkImported, MarkReconciled, MarkFailed, Working, Holding
    <3>. QED
      BY <3>1, TypeInvShapes, CurrentUidl
  <2>2. records' \in {records, Claimed(u, r), Imported(u), Failed(u, r)}
    BY <1>10, Zenon DEF ClaimForProcessing, MarkImported, MarkReconciled, MarkFailed
  <2>3. UNCHANGED <<mailboxes, runStores, time>>
    BY <1>10 DEF ClaimForProcessing, MarkImported, MarkReconciled, MarkFailed
  <2>. HIDE DEF u
  <2>4. records' \in [Uidls -> Records]
    BY <1>1, <2>1, <2>2, RecordsWritten DEF StoresOK
  <2>. QED
    BY <1>4, <2>3, <2>4
<1>11. CASE DeleteRecords(r)
  <2>1. PICK S : records' = [u \in Uidls |-> IF u \in S THEN NoRecord ELSE records[u]]
    BY <1>11, Zenon DEF DeleteRecords
  <2>2. UNCHANGED <<mailboxes, runStores, time>>
    BY <1>11 DEF DeleteRecords
  <2>3. records' \in [Uidls -> Records]
    BY <1>1, <2>1, NoRecordType DEF StoresOK
  <2>. QED
    BY <1>4, <2>2, <2>3
<1>. QED
  BY <1>5, <1>6, <1>7, <1>8, <1>9, <1>10, <1>11 DEF RunStep

\* Message number n taken out of the maildrop.
LEMMA MaildropWithout ==
  ASSUME StoresOK, NEW n \in DOMAIN maildrop
  PROVE  SubSeq(maildrop, 1, n - 1) \o SubSeq(maildrop, n + 1, Len(maildrop)) \in Seq(Uidls)
<1>1. maildrop \in Seq(Uidls) /\ n \in 1..Len(maildrop)
  BY DEF StoresOK
<1>2. /\ SubSeq(maildrop, 1, n - 1) \in Seq(Uidls)
      /\ SubSeq(maildrop, n + 1, Len(maildrop)) \in Seq(Uidls)
  BY <1>1, SubSeqProperties
<1>. QED
  BY <1>2, ConcatProperties

LEMMA TypePreserved == TypeInv /\ [Next]_vars => TypeInv'
<1>. SUFFICES ASSUME TypeInv, [Next]_vars PROVE TypeInv'
  OBVIOUS
<1>1. CASE UNCHANGED vars
  BY <1>1 DEF vars, mailboxes, runStores, time, TypeInv, StoresOK, RunsOK
<1>2. ASSUME NEW r \in Runs, Start(r) \/ RunStep(r) \/ Kill(r)
      PROVE  TypeInv'
  BY <1>2, StepKeepsRuns, StepKeepsStores DEF TypeInv
<1>3. ASSUME NEW u \in Uidls, Arrive(u)
      PROVE  TypeInv'
  <2>1. maildrop' \in Seq(Uidls)
    BY <1>3 DEF Arrive, TypeInv, StoresOK
  <2>. QED
    BY <1>3, <2>1 DEF Arrive, runStores, time, TypeInv, StoresOK, RunsOK
<1>4. ASSUME NEW n \in DOMAIN maildrop, Remove(n)
      PROVE  TypeInv'
  <2>1. maildrop' \in Seq(Uidls) /\ gone' \subseteq Uidls
    BY <1>4, MaildropWithout DEF Remove, TypeInv, StoresOK
  <2>2. faults' = faults + 1 /\ UNCHANGED <<gmail, records, runStores, time, pc, batch, job>>
    BY <1>4, Zenon DEF Remove, Fault
  <2>3. faults' \in Nat
    BY <2>2 DEF TypeInv, StoresOK
  <2>. QED
    BY <2>1, <2>2, <2>3 DEF runStores, time, TypeInv, StoresOK, RunsOK
<1>5. CASE Tick
  BY <1>5 DEF Tick, mailboxes, runStores, TypeInv, StoresOK, RunsOK, Ticks
<1>. QED
  BY <1>1, <1>2, <1>3, <1>4, <1>5 DEF Next

LEMMA InitTypes == Init => TypeInv
<1>. SUFFICES ASSUME Init PROVE TypeInv
  OBVIOUS
<1>1. <<>> \in Seq(Uidls) /\ <<>> \in Seq(References) /\ "unborn" \in Steps \ Working
  BY DEF Steps, Working, Holding
<1>2. StoresOK
  BY <1>1, NoRecordType, NoJobRunType DEF Init, StoresOK, Ticks
<1>3. RunsOK
  BY <1>1, NoJobType DEF Init, RunsOK
<1>. QED
  BY <1>2, <1>3 DEF TypeInv

\* The state of the job and of its stores stays well formed, whatever overlaps, fails,
\* is killed or disappears.
THEOREM LegacyTypeCorrect == Spec => []TypeOK
BY InitTypes, TypePreserved, TypeInvShapes, PTL DEF Spec
-----------------------------------------------------------------------------
(***************************************************************************)
(* What a step of a run leaves alone.                                      *)
(***************************************************************************)
\* A run keeps the hour it started in, and never comes unborn.
LEMMA HourKept ==
  ASSUME TypeInv, NEW r \in Runs, RunStep(r) \/ Kill(r)
  PROVE  /\ Live(r) /\ pc'[r] \in Steps \ {"unborn", "reconcile"}
         /\ job'[r].startedAt = job[r].startedAt
         /\ UNCHANGED time
<1>1. /\ pc \in [Runs -> Steps] /\ job \in [Runs -> Job] /\ job[r] \in Job /\ NoJob \in Job
  BY NoJobType DEF TypeInv, RunsOK
<1>2. Live(r) /\ UNCHANGED time
  BY Zenon DEF RunStep, Kill, ReconcileStaleRunningJobs, SaveStarted, ListMessages,
     FilterIncrementalMessages, GetMessageMetadata, ClaimForProcessing, GetMessage,
     ImportMessage, MarkImported, ReconcileImportedMessage, MarkReconciled, MarkFailed,
     ListImportedRecords, DeleteRecords, CompleteJob, GetStatistics, SaveStatistics, Live, Ended
<1>3. PICK step \in Steps \ {"unborn", "reconcile"} : Goto(r, step)
  BY Zenon DEF RunStep, Kill, ReconcileStaleRunningJobs, SaveStarted, ListMessages,
     FilterIncrementalMessages, GetMessageMetadata, ClaimForProcessing, GetMessage,
     ImportMessage, MarkImported, ReconcileImportedMessage, MarkReconciled, MarkFailed,
     ListImportedRecords, DeleteRecords, CompleteJob, GetStatistics, SaveStatistics, Live, Ended,
     ToCatch, End, NextMessage, Outcome, Steps, Holding
<1>4. pc'[r] \in Steps \ {"unborn", "reconcile"}
  BY <1>1, <1>3 DEF Goto
<1>5. job'[r].startedAt = job[r].startedAt
  <2>1. CASE ToCatch(r) \/ (\E how \in Ended : End(r, how)) \/ (\E counted : NextMessage(r, counted))
             \/ UNCHANGED job
    <3>1. CASE ToCatch(r)
      BY <1>1, <3>1 DEF ToCatch, Job
    <3>2. CASE \E how \in Ended : End(r, how)
      <4>1. job' = [job EXCEPT ![r] = [NoJob EXCEPT !.startedAt = job[r].startedAt]]
        BY <3>2 DEF End
      <4>2. [NoJob EXCEPT !.startedAt = job[r].startedAt].startedAt = job[r].startedAt
        BY <1>1 DEF Job
      <4>. QED
        BY <1>1, <4>1, <4>2
    <3>3. ASSUME NEW counted, NextMessage(r, counted)
          PROVE  job'[r].startedAt = job[r].startedAt
      BY <1>1, <3>3 DEF NextMessage, Job
    <3>. QED
      BY <2>1, <3>1, <3>2, <3>3
  <2>2. CASE ReconcileStaleRunningJobs(r) \/ SaveStarted(r) \/ ListMessages(r)
             \/ FilterIncrementalMessages(r)
    BY <1>1, <2>1, <2>2 DEF ReconcileStaleRunningJobs, SaveStarted, ListMessages,
       FilterIncrementalMessages, Ended, Job
  <2>3. CASE GetMessageMetadata(r)
    BY <1>1, <2>1, <2>3 DEF GetMessageMetadata, Job
  <2>4. CASE ClaimForProcessing(r) \/ MarkImported(r) \/ MarkReconciled(r) \/ MarkFailed(r)
             \/ ReconcileImportedMessage(r)
    BY <2>1, <2>4, Zenon DEF ClaimForProcessing, MarkImported, MarkReconciled, MarkFailed,
       ReconcileImportedMessage
  <2>5. CASE GetMessage(r) \/ ImportMessage(r)
    BY <1>1, <2>1, <2>5 DEF GetMessage, ImportMessage, Job
  <2>6. CASE ListImportedRecords(r) \/ DeleteRecords(r)
    BY <1>1, <2>1, <2>6 DEF ListImportedRecords, DeleteRecords, Job
  <2>7. CASE CompleteJob(r) \/ GetStatistics(r) \/ SaveStatistics(r) \/ Kill(r)
    BY <1>1, <2>1, <2>7 DEF CompleteJob, GetStatistics, SaveStatistics, Kill, Outcome, Ended, Job
  <2>. QED
    BY <2>2, <2>3, <2>4, <2>5, <2>6, <2>7 DEF RunStep
<1>. QED
  BY <1>2, <1>4, <1>5
-----------------------------------------------------------------------------
(***************************************************************************)
(* The summaries of live runs.                                             *)
(***************************************************************************)
Opening == {"unborn", "reconcile", "saveStarted"}

\* A live run started this hour, its summary says so, and there is none before
\* it is saved.
HoursOK ==
  /\ now > 0
  /\ \A r \in Runs : Live(r) => job[r].startedAt = now
  /\ \A r \in Runs : pc[r] # "unborn" <=> job[r].startedAt > 0
  /\ \A r \in Runs : pc[r] \in Opening => jobRuns[r].status = "absent"
  /\ \A r \in Runs : jobRuns[r].status # "absent" => jobRuns[r].startedAt = job[r].startedAt

RecordedInv == HoursOK /\ LiveRunRecorded

\* What a step of run r does to the summaries: its reconciliation deletes some
\* of an earlier hour, and besides it saves only its own.
LEMMA SummariesChange ==
  ASSUME TypeInv, NEW r \in Runs, RunStep(r) \/ Kill(r)
  PROVE  \/ /\ pc[r] = "reconcile" /\ pc'[r] \in {"saveStarted", "rejected"}
            /\ \E S \in SUBSET Stale(r) : jobRuns' = Deleted(S)
         \/ /\ pc[r] = "saveStarted" /\ pc'[r] \in {"list", "rejected"}
            /\ jobRuns' \in {jobRuns, [jobRuns EXCEPT ![r] = Started(r)]}
            /\ pc'[r] = "list" => jobRuns' = [jobRuns EXCEPT ![r] = Started(r)]
         \/ /\ pc[r] = "complete" /\ pc'[r] \in {"complete", "refresh"} \cup Ended
            /\ jobRuns' \in {jobRuns, [jobRuns EXCEPT ![r] = Finalized(r)]}
            /\ pc'[r] \in {"refresh", "returned"} => jobRuns' = [jobRuns EXCEPT ![r] = Finalized(r)]
         \/ /\ pc[r] \notin Opening \cup {"complete"} \/ pc'[r] = "killed"
            /\ pc'[r] \notin Opening
            /\ UNCHANGED jobRuns
<1>1. pc \in [Runs -> Steps]
  BY DEF TypeInv, RunsOK
<1>2. CASE ReconcileStaleRunningJobs(r)
  <2>1. /\ pc[r] = "reconcile"
        /\ \E step \in {"saveStarted", "rejected"} : Goto(r, step)
        /\ \E S \in SUBSET Stale(r) : jobRuns' = Deleted(S)
    <3>1. Stale(r) \in SUBSET Stale(r)
      OBVIOUS
    <3>. QED
      BY <1>2, <3>1, Zenon DEF ReconcileStaleRunningJobs, End
  <2>. QED
    BY <1>1, <2>1 DEF Goto
<1>3. CASE SaveStarted(r)
  <2>1. /\ pc[r] = "saveStarted"
        /\ jobRuns' \in {jobRuns, [jobRuns EXCEPT ![r] = Started(r)]}
        /\ \/ Goto(r, "rejected")
           \/ Goto(r, "list") /\ jobRuns' = [jobRuns EXCEPT ![r] = Started(r)]
    BY <1>3, Zenon DEF SaveStarted, End
  <2>2. pc'[r] = "rejected" \/ (pc'[r] = "list" /\ jobRuns' = [jobRuns EXCEPT ![r] = Started(r)])
    BY <1>1, <2>1 DEF Goto
  <2>. QED
    BY <2>1, <2>2
<1>4. CASE CompleteJob(r)
  <2>1. /\ pc[r] = "complete"
        /\ jobRuns' \in {jobRuns, [jobRuns EXCEPT ![r] = Finalized(r)]}
        /\ \/ \E step \in {"complete", "refresh"} \cup Ended :
                Goto(r, step) /\ jobRuns' = [jobRuns EXCEPT ![r] = Finalized(r)]
           \/ \E step \in {"complete", "rejected"} : Goto(r, step)
    BY <1>4, Zenon DEF CompleteJob, End, ToCatch, Outcome, Ended
  <2>2. \A step : Goto(r, step) => pc'[r] = step
    BY <1>1 DEF Goto
  <2>. QED
    BY <2>1, <2>2 DEF Ended
<1>5. CASE Kill(r)
  <2>1. UNCHANGED jobRuns /\ Goto(r, "killed")
    BY <1>5 DEF Kill, End, runStores
  <2>. QED
    BY <1>1, <2>1 DEF Goto, Opening
<1>6. CASE ~(ReconcileStaleRunningJobs(r) \/ SaveStarted(r) \/ CompleteJob(r) \/ Kill(r))
  <2>1. UNCHANGED jobRuns /\ pc[r] \notin Opening \cup {"complete"}
    BY <1>6 DEF RunStep, ListMessages, FilterIncrementalMessages,
       GetMessageMetadata, ClaimForProcessing, GetMessage, ImportMessage, MarkImported,
       ReconcileImportedMessage, MarkReconciled, MarkFailed, ListImportedRecords, DeleteRecords,
       GetStatistics, SaveStatistics, runStores, Opening
  <2>2. \E step \in Steps \ Opening : Goto(r, step)
    BY <1>6, Zenon DEF RunStep, ListMessages, FilterIncrementalMessages,
       GetMessageMetadata, ClaimForProcessing, GetMessage, ImportMessage, MarkImported,
       ReconcileImportedMessage, MarkReconciled, MarkFailed, ListImportedRecords, DeleteRecords,
       GetStatistics, SaveStatistics, ToCatch, End, NextMessage, Outcome, Opening, Steps, Ended,
       Holding
  <2>. QED
    BY <1>1, <2>1, <2>2 DEF Goto
<1>. QED
  BY <1>2, <1>3, <1>4, <1>5, <1>6

LEMMA StartEffect ==
  ASSUME TypeInv, NEW r \in Runs, Start(r)
  PROVE  /\ pc[r] = "unborn" /\ pc'[r] = "reconcile"
         /\ job'[r] = [job[r] EXCEPT !.startedAt = now] /\ job'[r].startedAt = now
         /\ UNCHANGED <<mailboxes, records, runStores, now, batch>>
<1>1. /\ pc \in [Runs -> Steps] /\ job \in [Runs -> Job] /\ job[r] \in Job
  BY DEF TypeInv, RunsOK
<1>. QED
  BY <1>1 DEF Start, Goto, Job

LEMMA RecordedPreserved == TypeInv /\ RecordedInv /\ [Next]_vars => RecordedInv'
<1>. SUFFICES ASSUME TypeInv, RecordedInv, [Next]_vars PROVE RecordedInv'
  OBVIOUS
<1>1. /\ pc \in [Runs -> Steps] /\ job \in [Runs -> Job] /\ jobRuns \in [Runs -> JobRuns]
      /\ now \in Nat
  BY DEF TypeInv, StoresOK, RunsOK, Ticks
<1>2. CASE UNCHANGED <<pc, job, jobRuns, now>>
  BY <1>2 DEF RecordedInv, HoursOK, LiveRunRecorded, Live
<1>3. ASSUME NEW r \in Runs, Start(r)
      PROVE  RecordedInv'
  <2>1. /\ pc[r] = "unborn" /\ pc'[r] = "reconcile" /\ job'[r].startedAt = now
        /\ UNCHANGED <<jobRuns, now>> /\ OnlyRun(r)
    BY <1>3, StartEffect, StartKeepsRuns DEF runStores
  <2>. QED
    BY <2>1 DEF RecordedInv, HoursOK, LiveRunRecorded, Live, OnlyRun, Opening, Ended
<1>4. ASSUME NEW r \in Runs, RunStep(r) \/ Kill(r)
      PROVE  RecordedInv'
  <2>1. /\ OnlyRun(r) /\ Live(r) /\ pc'[r] \in Steps \ {"unborn", "reconcile"}
        /\ job'[r].startedAt = job[r].startedAt /\ UNCHANGED now
    BY <1>4, StepKeepsRuns, HourKept DEF time
  <2>2. job[r].startedAt = now
    BY <2>1 DEF RecordedInv, HoursOK
  <2>3. Started(r).startedAt = now /\ Started(r).status = "running"
    BY <2>2 DEF Started
  <2>4. Finalized(r).startedAt = now /\ Finalized(r).status # "absent"
    BY <2>2 DEF Finalized, DetermineStatus
  <2>5. ASSUME NEW S \in SUBSET Stale(r), jobRuns' = Deleted(S), pc[r] = "reconcile",
               pc'[r] \in {"saveStarted", "rejected"}
        PROVE  RecordedInv'
    <3>1. \A q \in S : jobRuns[q].startedAt < now /\ jobRuns[q].status # "absent" /\ q \in Runs
      BY <2>2 DEF Stale
    <3>2. \A q \in S : ~Live(q) /\ pc[q] # "unborn" /\ job[q].startedAt < now
      <4>. SUFFICES ASSUME NEW q \in S
                    PROVE  ~Live(q) /\ pc[q] # "unborn" /\ job[q].startedAt < now
        OBVIOUS
      <4>1. job[q].startedAt = jobRuns[q].startedAt /\ pc[q] \notin Opening
        BY <3>1 DEF RecordedInv, HoursOK
      <4>2. job[q].startedAt < now /\ job[q].startedAt # now
        BY <1>1, <3>1, <4>1
      <4>3. ~Live(q)
        BY <3>1, <4>2 DEF RecordedInv, HoursOK
      <4>. QED
        BY <4>1, <4>2, <4>3 DEF Opening
    <3>3. \A q \in Runs : jobRuns'[q] = IF q \in S THEN NoJobRun ELSE jobRuns[q]
      BY <2>5 DEF Deleted
    <3>4. r \notin S
      BY <2>1, <3>2
    <3>5. HoursOK'
      BY <2>1, <2>2, <2>5, <3>2, <3>3, <3>4
         DEF RecordedInv, HoursOK, OnlyRun, Live, Opening, NoJobRun, Ended
    <3>6. LiveRunRecorded'
      BY <2>1, <2>5, <3>2, <3>3, <3>4 DEF RecordedInv, LiveRunRecorded, OnlyRun, Live, Ended
    <3>. QED
      BY <3>5, <3>6 DEF RecordedInv
  <2>6. ASSUME NEW summary \in {Started(r), Finalized(r)}, pc'[r] \notin Opening,
               jobRuns' \in {jobRuns, [jobRuns EXCEPT ![r] = summary]},
               Live(r)' => jobRuns'[r].status # "absent"
        PROVE  RecordedInv'
    <3>1. \A q \in Runs \ {r} : jobRuns'[q] = jobRuns[q]
      BY <1>1, <2>6
    <3>2. jobRuns'[r] = jobRuns[r] \/ (jobRuns'[r].startedAt = now /\ jobRuns'[r].status # "absent")
      BY <1>1, <2>3, <2>4, <2>6
    <3>3. HoursOK'
      BY <2>1, <2>2, <2>6, <3>1, <3>2 DEF RecordedInv, HoursOK, OnlyRun, Live, Opening
    <3>4. LiveRunRecorded'
      BY <2>1, <2>6, <3>1 DEF RecordedInv, LiveRunRecorded, OnlyRun, Live
    <3>. QED
      BY <3>3, <3>4 DEF RecordedInv
  <2>7. CASE /\ pc[r] = "saveStarted" /\ pc'[r] \in {"list", "rejected"}
             /\ jobRuns' \in {jobRuns, [jobRuns EXCEPT ![r] = Started(r)]}
             /\ pc'[r] = "list" => jobRuns' = [jobRuns EXCEPT ![r] = Started(r)]
    <3>1. Live(r)' => jobRuns'[r].status # "absent"
      BY <1>1, <2>3, <2>7 DEF Live, Ended
    <3>. QED
      BY <2>6, <2>7, <3>1 DEF Opening
  <2>8. CASE /\ pc[r] = "complete" /\ pc'[r] \in {"complete", "refresh"} \cup Ended
             /\ jobRuns' \in {jobRuns, [jobRuns EXCEPT ![r] = Finalized(r)]}
    <3>1. jobRuns[r].status # "absent"
      BY <2>1, <2>8 DEF RecordedInv, LiveRunRecorded
    <3>2. jobRuns'[r].status # "absent"
      BY <1>1, <2>4, <2>8, <3>1
    <3>. QED
      BY <2>6, <2>8, <3>2 DEF Opening, Ended
  <2>9. CASE /\ pc[r] \notin Opening \cup {"complete"} \/ pc'[r] = "killed"
             /\ pc'[r] \notin Opening
             /\ UNCHANGED jobRuns
    <3>1. Live(r)' => jobRuns'[r].status # "absent"
      BY <2>1, <2>9 DEF RecordedInv, LiveRunRecorded, Live, Ended, Opening
    <3>. QED
      BY <2>6, <2>9, <3>1
  <2>. QED
    BY <1>4, <2>5, <2>7, <2>8, <2>9, SummariesChange
<1>5. CASE Tick
  BY <1>1, <1>5 DEF Tick, runStores, RecordedInv, HoursOK, LiveRunRecorded, Live
<1>6. (\E u \in Uidls : Arrive(u)) \/ (\E n \in DOMAIN maildrop : Remove(n)) \/ UNCHANGED vars
        => UNCHANGED <<pc, job, jobRuns, now>>
  BY DEF Arrive, Remove, vars, runStores, time
<1>. QED
  BY <1>2, <1>3, <1>4, <1>5, <1>6 DEF Next

LEMMA InitRecorded == Init => RecordedInv
BY DEF Init, RecordedInv, HoursOK, LiveRunRecorded, Live, NoJob, NoJobRun

\* Reconciliation deletes no record of a run in progress: the runs it finds stale
\* started in an earlier hour, and none of them is alive.
THEOREM LiveRunsStayRecorded == Spec => []LiveRunRecorded
<1>1. RecordedInv => LiveRunRecorded
  BY DEF RecordedInv
<1>. QED
  BY <1>1, InitTypes, TypePreserved, InitRecorded, RecordedPreserved, PTL DEF Spec
-----------------------------------------------------------------------------
(***************************************************************************)
(* The records a run leaves in processing.                                 *)
(***************************************************************************)
\* Run r completes a job that threw: it will be rejected.
Thrown(r) == job[r].thrown /\ pc[r] \in {"complete", "refresh", "saveStatistics"}

\* A record in processing belongs to a run that works on its UIDL, or that will
\* not return.
SettledInv ==
  \A r \in Runs, u \in Uidls :
    records[u].status = "processing" /\ records[u].claimJobId = r =>
      \/ pc[r] \in Holding /\ Current(r).uidl = u
      \/ Thrown(r)
      \/ pc[r] \in {"rejected", "killed"}

\* What a step of run r does to the records.
LEMMA RecordsChange ==
  ASSUME TypeInv, NEW r \in Runs, Start(r) \/ RunStep(r) \/ Kill(r)
  PROVE  \/ UNCHANGED records
         \/ /\ pc[r] = "claim"
            /\ CanTransfer(Current(r).uidl)
            /\ records' = [records EXCEPT ![Current(r).uidl] =
                             ProcessingRecord(records[Current(r).uidl], r)]
            /\ ToCatch(r) \/ (Goto(r, "fetch") /\ UNCHANGED batch)
         \/ /\ pc[r] \in Holding
            /\ \E record :
                 /\ \/ /\ record.status = "failed" /\ pc[r] = "markFailed"
                       /\ record.importedAt = records[Current(r).uidl].importedAt
                    \/ /\ record.status = "imported" /\ pc[r] \in {"markImported", "remark"}
                       /\ record.importedAt = Now
                 /\ record.claimJobId \in {r, records[Current(r).uidl].claimJobId}
                 /\ records' = [records EXCEPT ![Current(r).uidl] = record]
         \/ \E S \in SUBSET job[r].candidates :
              /\ pc[r] = "delete"
              /\ records' = [u \in Uidls |-> IF u \in S THEN NoRecord ELSE records[u]]
<1>. DEFINE u == Current(r).uidl
<1>1. CASE ClaimForProcessing(r)
  <2>1. /\ pc[r] = "claim" /\ records' \in {records, Claimed(u, r)}
        /\ \/ ToCatch(r)
           \/ CanTransfer(u) /\ Goto(r, "fetch") /\ UNCHANGED batch
           \/ ~CanTransfer(u)
    BY <1>1, Zenon DEF ClaimForProcessing
  <2>. QED
    BY <2>1 DEF Claimed
<1>2. CASE MarkImported(r) \/ MarkReconciled(r)
  <2>. DEFINE record == [status |-> "imported", claimJobId |-> records[u].claimJobId,
                         importedAt |-> Now]
  <2>1. /\ pc[r] \in {"markImported", "remark"} /\ pc[r] \in Holding
        /\ records' \in {records, Imported(u)}
    BY <1>2, Zenon DEF MarkImported, MarkReconciled, Holding
  <2>2. /\ Imported(u) = [records EXCEPT ![u] = record] /\ record.status = "imported"
        /\ record.claimJobId = records[u].claimJobId /\ record.importedAt = Now
    BY DEF Imported
  <2>. HIDE DEF record
  <2>. QED
    BY <2>1, <2>2
<1>3. CASE MarkFailed(r)
  <2>. DEFINE record == [status |-> "failed", claimJobId |-> r, importedAt |-> records[u].importedAt]
  <2>1. pc[r] = "markFailed" /\ pc[r] \in Holding /\ records' \in {records, Failed(u, r)}
    BY <1>3, Zenon DEF MarkFailed, Holding
  <2>2. /\ Failed(u, r) = [records EXCEPT ![u] = record] /\ record.status = "failed"
        /\ record.claimJobId = r /\ record.importedAt = records[u].importedAt
    BY DEF Failed
  <2>. HIDE DEF record
  <2>. QED
    BY <2>1, <2>2
<1>4. CASE DeleteRecords(r)
  BY <1>4, Zenon DEF DeleteRecords
<1>5. CASE ~(ClaimForProcessing(r) \/ MarkImported(r) \/ MarkReconciled(r) \/ MarkFailed(r)
             \/ DeleteRecords(r))
  BY <1>5 DEF Start, Kill, RunStep, ReconcileStaleRunningJobs, SaveStarted, ListMessages,
     FilterIncrementalMessages, GetMessageMetadata, GetMessage, ImportMessage,
     ReconcileImportedMessage, ListImportedRecords, CompleteJob, GetStatistics, SaveStatistics
<1>. QED
  BY <1>1, <1>2, <1>3, <1>4, <1>5

LEMMA Caught ==
  ASSUME TypeInv, NEW r \in Runs, ToCatch(r)
  PROVE  Thrown(r)'
<1>1. /\ pc'[r] = "complete" /\ job'[r] = [job[r] EXCEPT !.thrown = TRUE, !.toRead = <<>>]
  BY RunsAfterToCatch DEF TypeInv
<1>2. job[r] \in Job
  BY DEF TypeInv, RunsOK
<1>3. job'[r].thrown = TRUE
  BY <1>1, <1>2 DEF Job
<1>. QED
  BY <1>1, <1>3 DEF Thrown

\* A run gives up the message it works on by settling its record, by throwing, or
\* when it is killed.
LEMMA WorkGivenUp ==
  ASSUME TypeInv, NEW r \in Runs, pc[r] \in Holding, RunStep(r) \/ Kill(r)
  PROVE  \/ pc'[r] \in Holding /\ batch'[r] = batch[r]
         \/ Thrown(r)' \/ pc'[r] = "killed"
         \/ records'[Current(r).uidl].status \in {"imported", "failed"}
<1>. DEFINE u == Current(r).uidl
<1>1. /\ pc \in [Runs -> Steps] /\ records \in [Uidls -> Records]
  BY DEF TypeInv, StoresOK, RunsOK
<1>2. u \in Uidls
  BY TypeInvShapes, CurrentUidl DEF Working
<1>3. \/ UNCHANGED batch /\ \E step \in Holding : Goto(r, step)
      \/ ToCatch(r)
      \/ Goto(r, "killed")
      \/ records' \in {Imported(u), Failed(u, r)}
  <2>1. CASE GetMessage(r) \/ ImportMessage(r) \/ ReconcileImportedMessage(r)
    <3>1. UNCHANGED batch
          /\ \E step \in {"import", "markImported", "remark", "markFailed"} : Goto(r, step)
      BY <2>1, Zenon DEF GetMessage, ImportMessage, ReconcileImportedMessage
    <3>. QED
      BY <3>1 DEF Holding
  <2>2. CASE MarkImported(r) \/ MarkReconciled(r) \/ MarkFailed(r)
    <3>1. \/ ToCatch(r)
          \/ records' \in {Imported(u), Failed(u, r)}
          \/ UNCHANGED batch /\ \E step \in {"lookup", "markFailed"} : Goto(r, step)
      BY <2>2, Zenon DEF MarkImported, MarkReconciled, MarkFailed
    <3>. QED
      BY <3>1 DEF Holding
  <2>3. CASE Kill(r)
    BY <2>3 DEF Kill, End
  <2>. QED
    BY <2>1, <2>2, <2>3 DEF RunStep, Holding, ReconcileStaleRunningJobs, SaveStarted, ListMessages,
       FilterIncrementalMessages, GetMessageMetadata, ClaimForProcessing,
       ListImportedRecords, DeleteRecords, CompleteJob, GetStatistics, SaveStatistics
<1>4. Imported(u)[u].status = "imported" /\ Failed(u, r)[u].status = "failed"
  BY <1>1, <1>2 DEF Imported, Failed
<1>5. ASSUME NEW step \in Holding \cup {"killed"}, Goto(r, step)
      PROVE  pc'[r] = step
  BY <1>1, <1>5 DEF Goto
<1>. HIDE DEF u
<1>. QED
  BY <1>3, <1>4, <1>5, Caught DEF u

LEMMA ThrownIsRejected ==
  ASSUME TypeInv, NEW r \in Runs, Thrown(r), RunStep(r) \/ Kill(r)
  PROVE  Thrown(r)' \/ pc'[r] \in {"rejected", "killed"}
<1>1. /\ pc \in [Runs -> Steps] /\ job \in [Runs -> Job] /\ job[r] \in Job
  BY DEF TypeInv, RunsOK
<1>2. CASE CompleteJob(r) \/ GetStatistics(r) \/ SaveStatistics(r) \/ Kill(r)
  <2>1. \/ \E how \in {"rejected", "killed"} : Goto(r, how)
        \/ Goto(r, "refresh") /\ UNCHANGED job
        \/ Goto(r, "saveStatistics") /\ job' = [job EXCEPT ![r].statistics = jobRuns]
    BY <1>2, Zenon DEF CompleteJob, GetStatistics, SaveStatistics, Kill, End, Outcome, Thrown
  <2>2. ASSUME job' = [job EXCEPT ![r].statistics = jobRuns]
        PROVE  job'[r].thrown = job[r].thrown
    BY <1>1, <2>2 DEF Job
  <2>. QED
    BY <1>1, <2>1, <2>2 DEF Goto, Thrown
<1>. QED
  BY <1>2 DEF RunStep, Thrown, ReconcileStaleRunningJobs, SaveStarted, ListMessages,
     FilterIncrementalMessages, GetMessageMetadata, ClaimForProcessing, GetMessage, ImportMessage,
     MarkImported, ReconcileImportedMessage, MarkReconciled, MarkFailed, ListImportedRecords,
     DeleteRecords

LEMMA SettledPreserved == TypeInv /\ SettledInv /\ [Next]_vars => SettledInv'
<1>. SUFFICES ASSUME TypeInv, SettledInv, [Next]_vars PROVE SettledInv'
  OBVIOUS
<1>1. /\ pc \in [Runs -> Steps] /\ records \in [Uidls -> Records]
  BY DEF TypeInv, StoresOK, RunsOK
<1>2. CASE UNCHANGED <<pc, batch, job, records>>
  BY <1>2 DEF SettledInv, Current, Thrown
<1>3. ASSUME NEW r \in Runs, Start(r) \/ RunStep(r) \/ Kill(r)
      PROVE  SettledInv'
  <2>1. OnlyRun(r)
    BY <1>3, StepKeepsRuns
  <2>2. ASSUME NEW u \in Uidls, records'[u] # records[u], records'[u].status = "processing"
        PROVE  /\ pc[r] = "claim" /\ Current(r).uidl = u /\ records'[u].claimJobId = r
               /\ ToCatch(r) \/ (Goto(r, "fetch") /\ UNCHANGED batch)
    <3>1. ASSUME NEW record, records' = [records EXCEPT ![Current(r).uidl] = record]
          PROVE  Current(r).uidl = u /\ records'[u] = record
      BY <1>1, <2>2, <3>1
    <3>2. ProcessingRecord(records[Current(r).uidl], r).claimJobId = r
      BY DEF ProcessingRecord
    <3>3. ~\E S \in SUBSET job[r].candidates :
             records' = [v \in Uidls |-> IF v \in S THEN NoRecord ELSE records[v]]
      BY <2>2 DEF NoRecord
    <3>4. ~\E record :
             /\ record.status \in {"imported", "failed"}
             /\ records' = [records EXCEPT ![Current(r).uidl] = record]
      BY <2>2, <3>1
    <3>5. UNCHANGED records => FALSE
      BY <2>2
    <3>. QED
      BY <1>3, <3>1, <3>2, <3>3, <3>4, <3>5, RecordsChange
  <2>. SUFFICES ASSUME NEW q \in Runs, NEW u \in Uidls,
                       records'[u].status = "processing", records'[u].claimJobId = q
                PROVE  \/ pc'[q] \in Holding /\ Current(q)'.uidl = u
                       \/ Thrown(q)'
                       \/ pc'[q] \in {"rejected", "killed"}
    BY DEF SettledInv
  <2>3. CASE records'[u] # records[u]
    <3>1. q = r /\ Current(r).uidl = u /\ (ToCatch(r) \/ (Goto(r, "fetch") /\ UNCHANGED batch))
      BY <2>2, <2>3
    <3>2. CASE ToCatch(r)
      BY <3>1, <3>2, Caught
    <3>3. CASE Goto(r, "fetch") /\ UNCHANGED batch
      BY <1>1, <3>1, <3>3 DEF Goto, Holding, Current
    <3>. QED
      BY <3>1, <3>2, <3>3
  <2>4. CASE records'[u] = records[u]
    <3>1. \/ pc[q] \in Holding /\ Current(q).uidl = u
          \/ Thrown(q)
          \/ pc[q] \in {"rejected", "killed"}
      BY <2>4 DEF SettledInv
    <3>2. CASE q # r
      <4>1. pc'[q] = pc[q] /\ job'[q] = job[q] /\ batch'[q] = batch[q]
        BY <2>1, <3>2 DEF OnlyRun
      <4>. QED
        BY <3>1, <4>1 DEF Thrown, Current
    <3>3. CASE q = r
      <4>1. RunStep(r) \/ Kill(r)
        BY <1>3, <3>1, <3>3 DEF Start, Thrown, Holding
      <4>2. pc[r] \notin {"rejected", "killed"}
        BY <4>1, HourKept DEF Live, Ended
      <4>3. CASE Thrown(r)
        BY <3>3, <4>1, <4>3, ThrownIsRejected
      <4>4. CASE pc[r] \in Holding /\ Current(r).uidl = u
        <5>1. \/ pc'[r] \in Holding /\ batch'[r] = batch[r]
              \/ Thrown(r)' \/ pc'[r] = "killed"
          BY <4>1, <4>4, WorkGivenUp
        <5>. QED
          BY <3>3, <4>4, <5>1 DEF Current
      <4>. QED
        BY <3>1, <3>3, <4>2, <4>3, <4>4
    <3>. QED
      BY <3>2, <3>3
  <2>. QED
    BY <2>3, <2>4
<1>4. Tick \/ (\E u \in Uidls : Arrive(u)) \/ (\E n \in DOMAIN maildrop : Remove(n))
      \/ UNCHANGED vars
        => UNCHANGED <<pc, batch, job, records>>
  BY DEF Tick, Arrive, Remove, vars
<1>. QED
  BY <1>2, <1>3, <1>4 DEF Next

LEMMA InitSettled == Init => SettledInv
BY DEF Init, SettledInv, NoRecord

\* A run that returns leaves no record in processing: it gives a message up only by
\* settling its record or by throwing, and a run that threw is rejected.
THEOREM ReturnedRunsSettle == Spec => []ReturnedRunSettled
<1>1. SettledInv => ReturnedRunSettled
  BY DEF SettledInv, ReturnedRunSettled, Thrown, Holding
<1>. QED
  BY <1>1, InitTypes, TypePreserved, InitSettled, SettledPreserved, PTL DEF Spec
-----------------------------------------------------------------------------
(***************************************************************************)
(* What is marked imported is in Gmail.                                    *)
(***************************************************************************)
\* The messages of s still have the numbers they were listed with.
AsListed(s) ==
  \A i \in DOMAIN s : s[i].number \in DOMAIN maildrop /\ maildrop[s[i].number] = s[i].uidl

Delivered ==
  /\ \A u \in Uidls : records[u].status = "imported" => gmail[u] > 0
  /\ \A r \in Runs : AsListed(batch[r]) /\ AsListed(job[r].toRead)
  /\ \A r \in Runs : pc[r] = "import" => job[r].rawMessage \subseteq {Current(r).uidl}
  /\ \A r \in Runs :
       pc[r] \in {"markImported", "lookup", "remark"} => gmail[Current(r).uidl] > 0

\* As long as no number has changed, a run imports the message it works on
\* before it marks it.
DeliveredInv == gone = {} => Delivered

LEMMA GmailChange ==
  ASSUME TypeInv, NEW r \in Runs, Start(r) \/ RunStep(r) \/ Kill(r)
  PROVE  \/ UNCHANGED gmail
         \/ /\ pc[r] = "import"
            /\ \E u \in job[r].rawMessage : gmail' = [gmail EXCEPT ![u] = gmail[u] + 1]
<1>1. CASE ImportMessage(r)
  BY <1>1, Zenon DEF ImportMessage
<1>2. CASE ~ImportMessage(r)
  BY <1>2 DEF Start, Kill, RunStep, ReconcileStaleRunningJobs, SaveStarted, ListMessages,
     FilterIncrementalMessages, GetMessageMetadata, ClaimForProcessing, GetMessage, MarkImported,
     ReconcileImportedMessage, MarkReconciled, MarkFailed, ListImportedRecords, DeleteRecords,
     CompleteJob, GetStatistics, SaveStatistics, mailboxes
<1>. QED
  BY <1>1, <1>2

LEMMA MaildropKept ==
  ASSUME NEW r \in Runs, Start(r) \/ RunStep(r) \/ Kill(r)
  PROVE  UNCHANGED <<maildrop, gone>>
BY DEF Start, Kill, RunStep, ReconcileStaleRunningJobs, SaveStarted, ListMessages,
   FilterIncrementalMessages, GetMessageMetadata, ClaimForProcessing, GetMessage, ImportMessage,
   MarkImported, ReconcileImportedMessage, MarkReconciled, MarkFailed, ListImportedRecords,
   DeleteRecords, CompleteJob, GetStatistics, SaveStatistics, mailboxes

\* The way of a message through Gmail.
LEMMA MessagePath ==
  ASSUME TypeInv, NEW r \in Runs, Start(r) \/ RunStep(r) \/ Kill(r),
         pc'[r] \in {"import", "markImported", "lookup", "remark"}
  PROVE  /\ batch'[r] = batch[r]
         /\ \/ /\ pc[r] = "fetch" /\ pc'[r] = "import"
               /\ Current(r).number \in DOMAIN maildrop
               /\ job'[r].rawMessage = {maildrop[Current(r).number]}
            \/ pc[r] = "import" /\ pc'[r] = "import" /\ job'[r].rawMessage = job[r].rawMessage
            \/ /\ pc[r] = "import" /\ pc'[r] = "markImported"
               /\ \E u \in job[r].rawMessage : gmail' = [gmail EXCEPT ![u] = gmail[u] + 1]
            \/ pc[r] = "markImported" /\ pc'[r] = "lookup"
            \/ pc[r] = "lookup" /\ pc'[r] = "remark"
<1>. DEFINE OffPath == Steps \ {"import", "markImported", "lookup", "remark"}
<1>1. /\ pc \in [Runs -> Steps] /\ job \in [Runs -> Job] /\ job[r] \in Job
  BY DEF TypeInv, RunsOK
<1>2. \A step : Goto(r, step) => pc'[r] = step
  BY <1>1 DEF Goto
<1>3. CASE GetMessage(r)
  <2>1. /\ pc[r] = "fetch" /\ UNCHANGED batch
        /\ \/ Goto(r, "markFailed")
           \/ /\ Goto(r, "import") /\ Current(r).number \in DOMAIN maildrop
              /\ job' = [job EXCEPT ![r].rawMessage = {maildrop[Current(r).number]}]
    BY <1>3, Zenon DEF GetMessage
  <2>2. ASSUME job' = [job EXCEPT ![r].rawMessage = {maildrop[Current(r).number]}]
        PROVE  job'[r].rawMessage = {maildrop[Current(r).number]}
    BY <1>1, <2>2 DEF Job
  <2>. QED
    BY <1>2, <2>1, <2>2
<1>4. CASE ImportMessage(r)
  <2>1. /\ pc[r] = "import" /\ UNCHANGED batch
        /\ \/ Goto(r, "markFailed")
           \/ Goto(r, "import") /\ job' = [job EXCEPT ![r].calls = @ + 1]
           \/ /\ Goto(r, "markImported")
              /\ \E u \in job[r].rawMessage : gmail' = [gmail EXCEPT ![u] = gmail[u] + 1]
    BY <1>4, Zenon DEF ImportMessage
  <2>2. ASSUME job' = [job EXCEPT ![r].calls = @ + 1]
        PROVE  job'[r].rawMessage = job[r].rawMessage
    BY <1>1, <2>2 DEF Job
  <2>. QED
    BY <1>2, <2>1, <2>2
<1>5. CASE MarkImported(r) \/ ReconcileImportedMessage(r) \/ MarkReconciled(r)
  <2>1. \/ \E step \in {"claim", "cleanup", "markFailed"} : Goto(r, step)
        \/ pc[r] = "markImported" /\ Goto(r, "lookup") /\ UNCHANGED batch
        \/ pc[r] = "lookup" /\ Goto(r, "remark") /\ UNCHANGED batch
    BY <1>5, Zenon DEF MarkImported, ReconcileImportedMessage, MarkReconciled, NextMessage
  <2>. QED
    BY <1>2, <2>1
<1>6. CASE ~(GetMessage(r) \/ ImportMessage(r) \/ MarkImported(r) \/ ReconcileImportedMessage(r)
             \/ MarkReconciled(r))
  <2>1. \E step \in OffPath : Goto(r, step)
    BY <1>6, Zenon DEF Start, Kill, RunStep, ReconcileStaleRunningJobs, SaveStarted, ListMessages,
       FilterIncrementalMessages, GetMessageMetadata, ClaimForProcessing, MarkFailed,
       ListImportedRecords, DeleteRecords, CompleteJob, GetStatistics, SaveStatistics, ToCatch,
       End, NextMessage, Outcome, Steps, Holding, Ended
  <2>. QED
    BY <1>2, <2>1
<1>. QED
  BY <1>3, <1>4, <1>5, <1>6
\* A list of a run: what is left of it, or what the maildrop has.
LEMMA ListsAsListed ==
  ASSUME TypeInv, NEW r \in Runs, Start(r) \/ RunStep(r) \/ Kill(r),
         AsListed(batch[r]), AsListed(job[r].toRead)
  PROVE  AsListed(batch'[r]) /\ AsListed(job'[r].toRead)
<1>1. /\ RunsOK /\ maildrop \in Seq(Uidls) /\ pc \in [Runs -> Steps]
      /\ batch \in [Runs -> Seq(References)]
      /\ job \in [Runs -> Job] /\ job[r] \in Job /\ NoJob \in Job
      /\ batch[r] \in Seq(References) /\ job[r].toRead \in Seq(References)
  BY NoJobType DEF TypeInv, StoresOK, RunsOK, Job
<1>2. AsListed(<<>>)
  BY DEF AsListed
<1>3. ASSUME NEW s \in Seq(References), s # <<>>, AsListed(s)
      PROVE  AsListed(Tail(s))
  BY <1>3, HeadTailProperties DEF AsListed
<1>4. CASE UNCHANGED <<batch, job>>
  BY <1>4
<1>5. CASE ToCatch(r) \/ (\E how \in Ended : End(r, how))
  <2>1. CASE ToCatch(r)
    <3>1. batch'[r] = <<>> /\ job'[r] = [job[r] EXCEPT !.thrown = TRUE, !.toRead = <<>>]
      BY <1>1, <2>1, RunsAfterToCatch
    <3>2. job'[r].toRead = <<>>
      BY <1>1, <3>1 DEF Job
    <3>. QED
      BY <1>2, <3>1, <3>2
  <2>2. CASE \E how \in Ended : End(r, how)
    <3>1. batch'[r] = <<>> /\ job'[r] = [NoJob EXCEPT !.startedAt = job[r].startedAt]
      BY <1>1, <2>2, RunsAfterEnd
    <3>2. job'[r].toRead = <<>>
      BY <3>1 DEF NoJob
    <3>. QED
      BY <1>2, <3>1, <3>2
  <2>. QED
    BY <1>5, <2>1, <2>2
<1>6. ASSUME NEW counted, NextMessage(r, counted), batch[r] # <<>>
      PROVE  AsListed(batch'[r]) /\ AsListed(job'[r].toRead)
  <2>1. batch'[r] = Tail(batch[r]) /\ job'[r].toRead = job[r].toRead
    BY <1>1, <1>6 DEF NextMessage, Job
  <2>. QED
    BY <1>1, <1>3, <1>6, <2>1
<1>7. ASSUME UNCHANGED batch, job'[r].toRead = job[r].toRead
      PROVE  AsListed(batch'[r]) /\ AsListed(job'[r].toRead)
  BY <1>7
<1>8. CASE Start(r) \/ ReconcileStaleRunningJobs(r) \/ SaveStarted(r) \/ GetMessage(r)
           \/ ImportMessage(r) \/ ReconcileImportedMessage(r)
           \/ ListImportedRecords(r) \/ DeleteRecords(r)
           \/ CompleteJob(r) \/ GetStatistics(r) \/ SaveStatistics(r) \/ Kill(r)
  <2>1. \/ ToCatch(r) \/ (\E how \in Ended : End(r, how))
        \/ UNCHANGED <<batch, job>>
        \/ UNCHANGED batch /\ job' = [job EXCEPT ![r].startedAt = now]
        \/ UNCHANGED batch /\ job' = [job EXCEPT ![r].reconciled = (Stale(r) # {})]
        \/ UNCHANGED batch /\ job' = [job EXCEPT ![r].rawMessage = {maildrop[Current(r).number]}]
        \/ UNCHANGED batch /\ job' = [job EXCEPT ![r].calls = @ + 1]
        \/ UNCHANGED batch /\ \E S : job' = [job EXCEPT ![r].candidates = S]
        \/ UNCHANGED batch /\ job' = [job EXCEPT ![r].statistics = jobRuns]
    BY <1>8, Zenon DEF Start, Kill, ReconcileStaleRunningJobs, SaveStarted, GetMessage,
       ImportMessage, ReconcileImportedMessage, ListImportedRecords, DeleteRecords, CompleteJob,
       GetStatistics, SaveStatistics, Outcome, Ended
  <2>2. CASE ToCatch(r) \/ (\E how \in Ended : End(r, how)) \/ UNCHANGED <<batch, job>>
    BY <1>4, <1>5, <2>2
  <2>3. CASE ~(ToCatch(r) \/ (\E how \in Ended : End(r, how)) \/ UNCHANGED <<batch, job>>)
    BY <1>1, <1>7, <2>1, <2>3 DEF Job
  <2>. QED
    BY <2>2, <2>3
<1>9. CASE ClaimForProcessing(r) \/ MarkImported(r) \/ MarkReconciled(r) \/ MarkFailed(r)
  <2>1. \/ ToCatch(r)
        \/ UNCHANGED <<batch, job>>
        \/ \E counted : NextMessage(r, counted)
    BY <1>9, Zenon DEF ClaimForProcessing, MarkImported, MarkReconciled, MarkFailed
  <2>2. batch[r] # <<>>
    BY <1>1, <1>9 DEF RunsOK, Working, Holding, ClaimForProcessing, MarkImported, MarkReconciled,
       MarkFailed
  <2>. QED
    BY <1>4, <1>5, <1>6, <2>1, <2>2
<1>10. CASE ListMessages(r)
  <2>. DEFINE listed == MessageReferences(ScanLimit)
  <2>1. AsListed(listed)
    BY ReferencesListed DEF AsListed
  <2>2. \/ ToCatch(r)
        \/ UNCHANGED batch /\ job' = [job EXCEPT ![r].toRead = listed]
        \/ /\ batch' = [batch EXCEPT ![r] = listed]
           /\ job' = [job EXCEPT ![r].counts = WithDetected(@, Len(listed))]
    BY <1>10, Zenon DEF ListMessages
  <2>. HIDE DEF listed
  <2>3. ASSUME UNCHANGED batch, job' = [job EXCEPT ![r].toRead = listed]
        PROVE  AsListed(batch'[r]) /\ AsListed(job'[r].toRead)
    <3>1. job'[r].toRead = listed
      BY <1>1, <2>3 DEF Job
    <3>. QED
      BY <2>1, <2>3, <3>1
  <2>4. ASSUME batch' = [batch EXCEPT ![r] = listed],
               job' = [job EXCEPT ![r].counts = WithDetected(@, Len(listed))]
        PROVE  AsListed(batch'[r]) /\ AsListed(job'[r].toRead)
    <3>1. job'[r].toRead = job[r].toRead /\ batch'[r] = listed
      BY <1>1, <2>4 DEF Job
    <3>. QED
      BY <2>1, <3>1
  <2>. QED
    BY <1>5, <2>2, <2>3, <2>4
<1>11. CASE FilterIncrementalMessages(r)
  <2>. DEFINE wanted == Pick(job[r].toRead, Wanted(job[r].toRead))
  <2>1. Wanted(job[r].toRead) \in SUBSET DOMAIN job[r].toRead
    BY DEF Wanted
  <2>2. \A k \in DOMAIN wanted : \E i \in DOMAIN job[r].toRead : wanted[k] = job[r].toRead[i]
    <3>1. \A k \in DOMAIN wanted : \E i \in Wanted(job[r].toRead) : wanted[k] = job[r].toRead[i]
      BY <1>1, <2>1, PickChooses
    <3>. QED
      BY <2>1, <3>1
  <2>. HIDE DEF wanted
  <2>3. AsListed(wanted)
    BY <2>2 DEF AsListed
  <2>4. ToCatch(r) \/ (UNCHANGED batch /\ job' = [job EXCEPT ![r].toRead = wanted])
    BY <1>11, Zenon DEF FilterIncrementalMessages, wanted
  <2>5. ASSUME UNCHANGED batch, job' = [job EXCEPT ![r].toRead = wanted]
        PROVE  AsListed(batch'[r]) /\ AsListed(job'[r].toRead)
    <3>1. job'[r].toRead = wanted
      BY <1>1, <2>5 DEF Job
    <3>. QED
      BY <2>3, <2>5, <3>1
  <2>. QED
    BY <1>5, <2>4, <2>5
<1>12. CASE GetMessageMetadata(r)
  <2>. DEFINE n    == Head(job[r].toRead).number
              rest == Tail(job[r].toRead)
              read == [number |-> n, uidl |-> maildrop[n]]
  <2>1. job[r].toRead # <<>>
    BY <1>1, <1>12 DEF RunsOK, GetMessageMetadata
  <2>2. AsListed(rest)
    BY <1>1, <1>3, <2>1
  <2>3. \/ ToCatch(r)
        \/ /\ n \in DOMAIN maildrop /\ batch' = [batch EXCEPT ![r] = Append(@, read)]
           /\ job' = [job EXCEPT ![r].toRead = rest,
                                 ![r].counts = IF rest = <<>>
                                               THEN WithDetected(@, Len(batch[r]) + 1) ELSE @]
    BY <1>12, Zenon DEF GetMessageMetadata
  <2>4. ASSUME n \in DOMAIN maildrop
        PROVE  AsListed(Append(batch[r], read))
    <3>1. read.number \in DOMAIN maildrop /\ maildrop[read.number] = read.uidl
      BY <2>4
    <3>. HIDE DEF read
    <3>2. /\ Len(Append(batch[r], read)) = Len(batch[r]) + 1
          /\ \A i \in 1..Len(batch[r]) : Append(batch[r], read)[i] = batch[r][i]
          /\ Append(batch[r], read)[Len(batch[r]) + 1] = read
          /\ DOMAIN Append(batch[r], read) = 1..(Len(batch[r]) + 1)
      BY <1>1
    <3>. QED
      BY <1>1, <3>1, <3>2 DEF AsListed
  <2>. HIDE DEF n, rest, read
  <2>5. ASSUME n \in DOMAIN maildrop, batch' = [batch EXCEPT ![r] = Append(@, read)],
               job' = [job EXCEPT ![r].toRead = rest,
                                  ![r].counts = IF rest = <<>>
                                                THEN WithDetected(@, Len(batch[r]) + 1) ELSE @]
        PROVE  AsListed(batch'[r]) /\ AsListed(job'[r].toRead)
    <3>1. job'[r].toRead = rest /\ batch'[r] = Append(batch[r], read)
      BY <1>1, <2>5 DEF Job
    <3>. QED
      BY <2>2, <2>4, <2>5, <3>1
  <2>. QED
    BY <1>5, <2>3, <2>5
<1>. QED
  BY <1>8, <1>9, <1>10, <1>11, <1>12 DEF RunStep
\* The maildrop only grows as long as nothing was removed from it.
LEMMA NumbersKept ==
  ASSUME TypeInv, [Next]_vars, gone' = {}
  PROVE  /\ gone = {}
         /\ DOMAIN maildrop \subseteq DOMAIN maildrop'
         /\ \A n \in DOMAIN maildrop : maildrop'[n] = maildrop[n]
<1>1. maildrop \in Seq(Uidls)
  BY DEF TypeInv, StoresOK
<1>2. ~\E n \in DOMAIN maildrop : Remove(n)
  BY DEF Remove
<1>3. ASSUME NEW u \in Uidls, Arrive(u)
      PROVE  /\ gone = {} /\ DOMAIN maildrop \subseteq DOMAIN maildrop'
             /\ \A n \in DOMAIN maildrop : maildrop'[n] = maildrop[n]
  <2>1. maildrop' = Append(maildrop, u) /\ gone' = gone
    BY <1>3 DEF Arrive
  <2>2. /\ DOMAIN Append(maildrop, u) = 1..(Len(maildrop) + 1)
        /\ \A n \in 1..Len(maildrop) : Append(maildrop, u)[n] = maildrop[n]
    BY <1>1
  <2>3. DOMAIN maildrop = 1..Len(maildrop) /\ Len(maildrop) \in Nat
    BY <1>1
  <2>. QED
    BY <2>1, <2>2, <2>3
<1>4. CASE UNCHANGED <<maildrop, gone>>
  BY <1>4
<1>5. Tick \/ UNCHANGED vars => UNCHANGED <<maildrop, gone>>
  BY DEF Tick, vars, mailboxes
<1>. QED
  BY <1>2, <1>3, <1>4, <1>5, MaildropKept DEF Next

LEMMA DeliveredPreserved == TypeInv /\ DeliveredInv /\ [Next]_vars => DeliveredInv'
<1>. SUFFICES ASSUME TypeInv, DeliveredInv, [Next]_vars, gone' = {} PROVE Delivered'
  BY DEF DeliveredInv
<1>1. /\ pc \in [Runs -> Steps] /\ records \in [Uidls -> Records] /\ gmail \in [Uidls -> Nat]
      /\ batch \in [Runs -> Seq(References)] /\ job \in [Runs -> Job]
  BY DEF TypeInv, StoresOK, RunsOK
<1>2. /\ Delivered
      /\ DOMAIN maildrop \subseteq DOMAIN maildrop'
      /\ \A n \in DOMAIN maildrop : maildrop'[n] = maildrop[n]
  BY NumbersKept DEF DeliveredInv
<1>3. ASSUME NEW s, AsListed(s)
      PROVE  \A i \in DOMAIN s : s[i].number \in DOMAIN maildrop' /\ maildrop'[s[i].number] = s[i].uidl
  BY <1>2, <1>3 DEF AsListed
<1>4. CASE UNCHANGED <<pc, batch, job, records, gmail>>
  <2>1. \A r \in Runs : AsListed(batch[r])' /\ AsListed(job[r].toRead)'
    BY <1>2, <1>3, <1>4 DEF Delivered, AsListed
  <2>. QED
    BY <1>2, <1>4, <2>1 DEF Delivered, Current
<1>5. ASSUME NEW r \in Runs, Start(r) \/ RunStep(r) \/ Kill(r)
      PROVE  Delivered'
  <2>1. OnlyRun(r) /\ UNCHANGED <<maildrop, gone>>
    BY <1>5, StepKeepsRuns, MaildropKept
  <2>2. \A q \in Runs : AsListed(batch'[q]) /\ AsListed(job'[q].toRead)
    <3>1. AsListed(batch'[r]) /\ AsListed(job'[r].toRead)
      BY <1>2, <1>5, ListsAsListed DEF Delivered
    <3>. QED
      BY <1>2, <2>1, <3>1 DEF Delivered, OnlyRun
  <2>3. \A q \in Runs : AsListed(batch[q])' /\ AsListed(job[q].toRead)'
    BY <2>1, <2>2 DEF AsListed
  <2>4. \A u \in Uidls : gmail[u] > 0 => gmail'[u] > 0
    <3>1. ASSUME NEW v, gmail' = [gmail EXCEPT ![v] = gmail[v] + 1], NEW u \in Uidls, gmail[u] > 0
          PROVE  gmail'[u] > 0
      BY <1>1, <3>1
    <3>. QED
      BY <1>5, <3>1, GmailChange
  <2>5. \A q \in Runs : pc[q] \in Working => Current(q).uidl \in Uidls
    BY TypeInvShapes, CurrentUidl
  <2>6. pc'[r] = "import" => job'[r].rawMessage \subseteq {Current(r)'.uidl}
    <3>. SUFFICES ASSUME pc'[r] = "import"
                  PROVE  job'[r].rawMessage \subseteq {Current(r)'.uidl}
      OBVIOUS
    <3>1. batch'[r] = batch[r] /\ Current(r)' = Current(r)
      BY <1>5, MessagePath DEF Current
    <3>2. CASE pc[r] = "import" /\ job'[r].rawMessage = job[r].rawMessage
      BY <1>2, <3>1, <3>2 DEF Delivered
    <3>3. CASE pc[r] = "fetch" /\ job'[r].rawMessage = {maildrop[Current(r).number]}
      <4>1. batch[r] \in Seq(References) /\ batch[r] # <<>>
        BY <1>1, <3>3 DEF TypeInv, RunsOK, Working, Holding
      <4>2. 1 \in DOMAIN batch[r] /\ Head(batch[r]) = batch[r][1]
        BY <4>1
      <4>3. maildrop[Current(r).number] = Current(r).uidl
        BY <1>2, <4>2 DEF Delivered, AsListed, Current
      <4>. QED
        BY <3>1, <3>3, <4>3
    <3>. QED
      BY <1>5, <3>2, <3>3, MessagePath
  <2>7. pc'[r] \in {"markImported", "lookup", "remark"} => gmail'[Current(r)'.uidl] > 0
    <3>. SUFFICES ASSUME pc'[r] \in {"markImported", "lookup", "remark"}
                  PROVE  gmail'[Current(r)'.uidl] > 0
      OBVIOUS
    <3>1. Current(r)' = Current(r)
      BY <1>5, MessagePath DEF Current
    <3>2. CASE /\ pc[r] = "import"
               /\ \E u \in job[r].rawMessage : gmail' = [gmail EXCEPT ![u] = gmail[u] + 1]
      <4>1. PICK u \in job[r].rawMessage : gmail' = [gmail EXCEPT ![u] = gmail[u] + 1]
        BY <3>2
      <4>2. u = Current(r).uidl /\ u \in Uidls
        BY <1>2, <2>5, <3>2 DEF Delivered, Working, Holding
      <4>3. gmail'[u] = gmail[u] + 1 /\ gmail[u] \in Nat
        BY <1>1, <4>1, <4>2
      <4>. QED
        BY <3>1, <4>2, <4>3
    <3>3. CASE pc[r] \in {"markImported", "lookup", "remark"}
      BY <1>2, <2>4, <2>5, <3>1, <3>3 DEF Delivered, Working, Holding
    <3>. QED
      BY <1>5, <3>2, <3>3, MessagePath
  <2>8. \A u \in Uidls : records'[u].status = "imported" => gmail'[u] > 0
    <3>. SUFFICES ASSUME NEW u \in Uidls, records'[u].status = "imported"
                  PROVE  gmail'[u] > 0
      OBVIOUS
    <3>1. CASE records[u].status = "imported"
      BY <1>2, <2>4, <3>1 DEF Delivered
    <3>2. CASE records[u].status # "imported"
      <4>1. ASSUME NEW record, records' = [records EXCEPT ![Current(r).uidl] = record]
            PROVE  Current(r).uidl = u /\ records'[u] = record
        BY <1>1, <3>2, <4>1
      <4>2. ~\E S \in SUBSET job[r].candidates :
               records' = [v \in Uidls |-> IF v \in S THEN NoRecord ELSE records[v]]
        BY <3>2 DEF NoRecord
      <4>3. ProcessingRecord(records[Current(r).uidl], r).status = "processing"
        BY DEF ProcessingRecord
      <4>4. ASSUME NEW record, record.status = "failed"
            PROVE  records' # [records EXCEPT ![Current(r).uidl] = record]
        BY <4>1, <4>4
      <4>5. records' # [records EXCEPT ![Current(r).uidl] =
                          ProcessingRecord(records[Current(r).uidl], r)]
        BY <4>1, <4>3
      <4>6. pc[r] \in {"markImported", "remark"} /\ Current(r).uidl = u
        BY <1>5, <3>2, <4>1, <4>2, <4>4, <4>5, RecordsChange
      <4>. QED
        BY <1>2, <2>4, <4>6 DEF Delivered
    <3>. QED
      BY <3>1, <3>2
  <2>9. ASSUME NEW q \in Runs \ {r}
        PROVE  /\ pc'[q] = "import" => job'[q].rawMessage \subseteq {Current(q)'.uidl}
               /\ pc'[q] \in {"markImported", "lookup", "remark"} => gmail'[Current(q)'.uidl] > 0
    <3>1. pc'[q] = pc[q] /\ job'[q] = job[q] /\ Current(q)' = Current(q)
      BY <2>1 DEF OnlyRun, Current
    <3>. QED
      BY <1>2, <2>4, <2>5, <3>1 DEF Delivered, Working, Holding
  <2>. QED
    BY <2>3, <2>6, <2>7, <2>8, <2>9 DEF Delivered
<1>6. Tick \/ (\E u \in Uidls : Arrive(u)) \/ (\E n \in DOMAIN maildrop : Remove(n))
      \/ UNCHANGED vars
        => UNCHANGED <<pc, batch, job, records, gmail>>
  BY DEF Tick, Arrive, Remove, vars, mailboxes
<1>. QED
  BY <1>4, <1>5, <1>6 DEF Next

LEMMA InitDelivered == Init => DeliveredInv
<1>. SUFFICES ASSUME Init PROVE Delivered
  BY DEF DeliveredInv
<1>. QED
  BY DEF Init, Delivered, AsListed, NoJob, NoRecord

\* As long as no message is removed from the maildrop, what is marked imported is in
\* Gmail, although the message is listed, read, fetched and marked in sessions of
\* their own: a number keeps its message, and only a run whose import was accepted
\* reaches the mark.
THEOREM ImportedReachedGmail == Spec => []ImportedIsDelivered
<1>1. DeliveredInv => ImportedIsDelivered
  BY DEF DeliveredInv, Delivered, ImportedIsDelivered
<1>. QED
  BY <1>1, InitTypes, TypePreserved, InitDelivered, DeliveredPreserved, PTL DEF Spec
-----------------------------------------------------------------------------
(***************************************************************************)
(* The kinds of steps of a run.                                            *)
(***************************************************************************)
Beginning == {"unborn", "reconcile", "saveStarted", "list", "filter", "metadata"}
Closing   == {"complete", "refresh", "saveStatistics"}

\* A step that neither takes a message nor leaves one.
Quiet(r) ==
  /\ batch'[r] = batch[r]
  /\ job'[r].counts = job[r].counts /\ job'[r].thrown = job[r].thrown
  /\ \/ pc[r] \in Beginning /\ pc'[r] \in Beginning \cup {"complete"}
     \/ pc[r] \in Working /\ pc'[r] \in Holding
     \/ pc[r] \in {"cleanup", "delete"} /\ pc'[r] \in {"delete", "complete"}
     \/ pc[r] \in Closing /\ pc'[r] \in Closing
  /\ pc[r] \in {"refresh", "saveStatistics"} <=> pc'[r] = "saveStatistics"

\* A message whose metadata was read joins the batch, the last one is counted.
Reads(r) ==
  /\ pc[r] = "metadata"
  /\ batch'[r] \in Seq(References) /\ Len(batch'[r]) = Len(batch[r]) + 1
  /\ job'[r].thrown = job[r].thrown
  /\ \/ pc'[r] = "metadata" /\ job'[r].counts = job[r].counts
     \/ pc'[r] = "claim" /\ job'[r].counts = WithDetected(job[r].counts, Len(batch'[r]))

\* A first run takes what was listed, and has nothing to do when that is nothing.
Lists(r) ==
  /\ pc[r] = "list" /\ pc'[r] \in {"complete", "claim"}
  /\ batch'[r] \in Seq(References) /\ (pc'[r] = "complete" <=> batch'[r] = <<>>)
  /\ job'[r].thrown = job[r].thrown
  /\ job'[r].counts = WithDetected(job[r].counts, Len(batch'[r]))

\* A message is counted one way or another.
Counts1(r, counted) ==
  /\ pc[r] \in Working
  /\ NextMessage(r, counted)
  /\ \/ pc[r] = "claim" /\ counted = MarkSkipped(job[r].counts)
     \/ pc[r] \in {"markImported", "remark"} /\ counted = MarkTransferred(job[r].counts)
     \/ pc[r] = "markFailed" /\ counted = CountFailed(job[r].counts)

\* Every step of a run is one of these.
LEMMA StepKinds ==
  ASSUME TypeInv, NEW r \in Runs, Start(r) \/ RunStep(r) \/ Kill(r)
  PROVE  \/ Quiet(r) \/ Reads(r) \/ Lists(r)
         \/ \E counted : Counts1(r, counted)
         \/ ToCatch(r)
         \/ \E how \in Ended :
              /\ End(r, how)
              /\ how = "returned" => pc[r] \in Closing /\ ~job[r].thrown
<1>1. /\ RunsOK /\ pc \in [Runs -> Steps] /\ job \in [Runs -> Job] /\ job[r] \in Job
      /\ batch \in [Runs -> Seq(References)] /\ batch[r] \in Seq(References)
      /\ maildrop \in Seq(Uidls)
  BY DEF TypeInv, StoresOK, RunsOK
<1>2. \A step : Goto(r, step) => pc'[r] = step
  BY <1>1 DEF Goto
<1>3. ASSUME UNCHANGED batch,
             \/ UNCHANGED job
             \/ job' = [job EXCEPT ![r].startedAt = now]
             \/ job' = [job EXCEPT ![r].reconciled = (Stale(r) # {})]
             \/ \E s : job' = [job EXCEPT ![r].toRead = s]
             \/ job' = [job EXCEPT ![r].rawMessage = {maildrop[Current(r).number]}]
             \/ job' = [job EXCEPT ![r].calls = @ + 1]
             \/ \E S : job' = [job EXCEPT ![r].candidates = S]
             \/ job' = [job EXCEPT ![r].statistics = jobRuns]
      PROVE  /\ batch'[r] = batch[r]
             /\ job'[r].counts = job[r].counts /\ job'[r].thrown = job[r].thrown
  BY <1>1, <1>3 DEF Job
<1>4. CASE Start(r)
  <2>1. /\ pc[r] = "unborn" /\ Goto(r, "reconcile") /\ UNCHANGED batch
        /\ job' = [job EXCEPT ![r].startedAt = now]
    BY <1>4 DEF Start
  <2>. QED
    BY <1>2, <1>3, <2>1 DEF Quiet, Beginning
<1>5. CASE ReconcileStaleRunningJobs(r) \/ SaveStarted(r)
  <2>1. \/ End(r, "rejected")
        \/ /\ pc[r] = "reconcile" /\ Goto(r, "saveStarted") /\ UNCHANGED batch
           /\ job' = [job EXCEPT ![r].reconciled = (Stale(r) # {})]
        \/ pc[r] = "saveStarted" /\ Goto(r, "list") /\ UNCHANGED <<batch, job>>
    BY <1>5, Zenon DEF ReconcileStaleRunningJobs, SaveStarted
  <2>. QED
    BY <1>2, <1>3, <2>1 DEF Quiet, Beginning, Ended
<1>6. CASE ListMessages(r)
  <2>. DEFINE listed == MessageReferences(ScanLimit)
              step == IF listed = <<>> THEN "complete" ELSE "claim"
  <2>1. \/ ToCatch(r)
        \/ /\ pc[r] = "list" /\ Goto(r, "filter") /\ UNCHANGED batch
           /\ job' = [job EXCEPT ![r].toRead = listed]
        \/ /\ pc[r] = "list" /\ Goto(r, step) /\ batch' = [batch EXCEPT ![r] = listed]
           /\ job' = [job EXCEPT ![r].counts = WithDetected(@, Len(listed))]
    BY <1>6, Zenon DEF ListMessages
  <2>2. listed \in Seq(References)
    BY ReferencesListed
  <2>3. step \in {"complete", "claim"} /\ (step = "complete" <=> listed = <<>>)
    OBVIOUS
  <2>. HIDE DEF listed, step
  <2>4. CASE /\ pc[r] = "list" /\ Goto(r, step) /\ batch' = [batch EXCEPT ![r] = listed]
             /\ job' = [job EXCEPT ![r].counts = WithDetected(@, Len(listed))]
    <3>1. batch'[r] = listed /\ job'[r].thrown = job[r].thrown
          /\ job'[r].counts = WithDetected(job[r].counts, Len(listed))
      BY <1>1, <2>4 DEF Job
    <3>. QED
      BY <1>2, <2>2, <2>3, <2>4, <3>1 DEF Lists
  <2>5. CASE /\ pc[r] = "list" /\ Goto(r, "filter") /\ UNCHANGED batch
             /\ job' = [job EXCEPT ![r].toRead = listed]
    BY <1>2, <1>3, <2>5 DEF Quiet, Beginning
  <2>. QED
    BY <2>1, <2>4, <2>5
<1>7. CASE FilterIncrementalMessages(r)
  <2>. DEFINE wanted == Pick(job[r].toRead, Wanted(job[r].toRead))
  <2>1. \/ ToCatch(r)
        \/ /\ pc[r] = "filter" /\ UNCHANGED batch /\ job' = [job EXCEPT ![r].toRead = wanted]
           /\ \E step \in {"complete", "metadata"} : Goto(r, step)
    BY <1>7, Zenon DEF FilterIncrementalMessages
  <2>. HIDE DEF wanted
  <2>. QED
    BY <1>2, <1>3, <2>1 DEF Quiet, Beginning
<1>8. CASE GetMessageMetadata(r)
  <2>. DEFINE n    == Head(job[r].toRead).number
              rest == Tail(job[r].toRead)
              read == [number |-> n, uidl |-> maildrop[n]]
  <2>1. \/ ToCatch(r)
        \/ /\ pc[r] = "metadata" /\ n \in DOMAIN maildrop
           /\ batch' = [batch EXCEPT ![r] = Append(@, read)]
           /\ job' = [job EXCEPT ![r].toRead = rest,
                                 ![r].counts = IF rest = <<>>
                                               THEN WithDetected(@, Len(batch[r]) + 1) ELSE @]
           /\ Goto(r, IF rest = <<>> THEN "claim" ELSE "metadata")
    BY <1>8, Zenon DEF GetMessageMetadata
  <2>2. n \in DOMAIN maildrop => read \in References
    BY <1>1 DEF References
  <2>. HIDE DEF n, rest, read
  <2>3. CASE ~ToCatch(r)
    <3>1. /\ job'[r].thrown = job[r].thrown
          /\ job'[r].counts = IF rest = <<>> THEN WithDetected(job[r].counts, Len(batch[r]) + 1)
                              ELSE job[r].counts
      BY <1>1, <2>1, <2>3 DEF Job
    <3>2. batch'[r] = Append(batch[r], read) /\ read \in References
      BY <1>1, <2>1, <2>2, <2>3
    <3>3. batch'[r] \in Seq(References) /\ Len(batch'[r]) = Len(batch[r]) + 1
      BY <1>1, <3>2, AppendProperties
    <3>4. pc'[r] = IF rest = <<>> THEN "claim" ELSE "metadata"
      BY <1>2, <2>1, <2>3
    <3>. QED
      BY <2>1, <2>3, <3>1, <3>3, <3>4 DEF Reads
  <2>. QED
    BY <2>3
<1>9. CASE ClaimForProcessing(r) \/ MarkImported(r) \/ MarkReconciled(r) \/ MarkFailed(r)
  <2>1. \/ ToCatch(r)
        \/ pc[r] = "claim" /\ Goto(r, "fetch") /\ UNCHANGED <<batch, job>>
        \/ pc[r] = "claim" /\ NextMessage(r, MarkSkipped(job[r].counts))
        \/ /\ pc[r] \in {"markImported", "remark"} /\ UNCHANGED <<batch, job>>
           /\ \E step \in {"lookup", "markFailed"} : Goto(r, step)
        \/ pc[r] \in {"markImported", "remark"} /\ NextMessage(r, MarkTransferred(job[r].counts))
        \/ pc[r] = "markFailed" /\ NextMessage(r, CountFailed(job[r].counts))
    BY <1>9, Zenon DEF ClaimForProcessing, MarkImported, MarkReconciled, MarkFailed
  <2>2. CASE \/ pc[r] = "claim" /\ NextMessage(r, MarkSkipped(job[r].counts))
             \/ /\ pc[r] \in {"markImported", "remark"}
                /\ NextMessage(r, MarkTransferred(job[r].counts))
             \/ pc[r] = "markFailed" /\ NextMessage(r, CountFailed(job[r].counts))
    BY <2>2 DEF Counts1, Working, Holding
  <2>. QED
    BY <1>2, <1>3, <2>1, <2>2 DEF Quiet, Working, Holding, Beginning, Closing
<1>10. CASE GetMessage(r) \/ ImportMessage(r) \/ ReconcileImportedMessage(r)
  <2>1. /\ pc[r] \in {"fetch", "import", "lookup"} /\ UNCHANGED batch
        /\ \E step \in {"import", "markImported", "remark", "markFailed"} : Goto(r, step)
        /\ \/ UNCHANGED job
           \/ job' = [job EXCEPT ![r].rawMessage = {maildrop[Current(r).number]}]
           \/ job' = [job EXCEPT ![r].calls = @ + 1]
    BY <1>10, Zenon DEF GetMessage, ImportMessage, ReconcileImportedMessage
  <2>. QED
    BY <1>2, <1>3, <2>1 DEF Quiet, Working, Holding
<1>11. CASE ListImportedRecords(r) \/ DeleteRecords(r)
  <2>1. /\ UNCHANGED batch
        /\ \/ UNCHANGED job
           \/ \E S : job' = [job EXCEPT ![r].candidates = S]
        /\ pc[r] \in {"cleanup", "delete"}
        /\ \E step \in {"delete", "complete"} : Goto(r, step)
    BY <1>11, Zenon DEF ListImportedRecords, DeleteRecords
  <2>. QED
    BY <1>2, <1>3, <2>1 DEF Quiet
<1>12. CASE CompleteJob(r) \/ GetStatistics(r) \/ SaveStatistics(r)
  <2>1. /\ pc[r] \in Closing
        /\ \/ ToCatch(r)
           \/ End(r, Outcome(r)) \/ End(r, "rejected")
           \/ pc[r] = "complete" /\ Goto(r, "refresh") /\ UNCHANGED <<batch, job>>
           \/ /\ pc[r] = "refresh" /\ Goto(r, "saveStatistics") /\ UNCHANGED batch
              /\ job' = [job EXCEPT ![r].statistics = jobRuns]
    BY <1>12, Zenon DEF CompleteJob, GetStatistics, SaveStatistics, Closing
  <2>2. Outcome(r) \in Ended /\ (Outcome(r) = "returned" => ~job[r].thrown)
    BY DEF Outcome, Ended
  <2>3. CASE End(r, Outcome(r)) \/ End(r, "rejected")
    BY <2>1, <2>2, <2>3 DEF Ended
  <2>. QED
    BY <1>2, <1>3, <2>1, <2>3 DEF Quiet, Closing
<1>13. CASE Kill(r)
  BY <1>13 DEF Kill, Ended
<1>. QED
  BY <1>4, <1>5, <1>6, <1>7, <1>8, <1>9, <1>10, <1>11, <1>12, <1>13 DEF RunStep
=============================================================================
