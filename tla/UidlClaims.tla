------------------------------ MODULE UidlClaims ------------------------------
(***************************************************************************)
(* What the deduplication by UIDL promises, one record per UIDL and        *)
(* nothing else: a UIDL is claimed by one run, and only that run settles   *)
(* it; a settled UIDL is claimed again only when it failed; only an        *)
(* imported UIDL is ever forgotten.                                        *)
(***************************************************************************)
CONSTANTS Uidls, Runs, Nobody

VARIABLE claim  \* claim[u]: the status of UIDL u and the run it belongs to

Unclaimed == [status |-> "absent", run |-> Nobody]

Init == claim = [u \in Uidls |-> Unclaimed]

\* Run r takes a UIDL that nobody holds and that is not imported.
Claim(u, r) ==
  /\ claim[u].status \in {"absent", "failed"}
  /\ claim' = [claim EXCEPT ![u] = [status |-> "processing", run |-> r]]

\* The run that claimed a UIDL settles it.  It may still report a failure
\* after it has reported the import: it does not know that it has.
Settle(u, status) ==
  /\ claim[u].status \in {"processing", "imported"}
  /\ claim' = [claim EXCEPT ![u] = [status |-> status, run |-> claim[u].run]]

\* The retention cleanup drops imported UIDLs, several at a time.
Forget(S) ==
  /\ \A u \in S : claim[u].status = "imported"
  /\ claim' = [u \in Uidls |-> IF u \in S THEN Unclaimed ELSE claim[u]]

Next ==
  \/ \E u \in Uidls, r \in Runs : Claim(u, r)
  \/ \E u \in Uidls : Settle(u, "imported") \/ Settle(u, "failed")
  \/ \E S \in SUBSET Uidls : Forget(S)

Spec == Init /\ [][Next]_claim
=============================================================================
