--------------------------- MODULE TransferPromise ---------------------------
(***************************************************************************)
(* What the local job promises to the owner of the two mailboxes, with     *)
(* none of the machinery: a message arrives in the Orange inbox, Gmail     *)
(* comes to hold it, and only then may it leave the inbox for the          *)
(* "Transferred to Gmail" folder, where it stays.                          *)
(***************************************************************************)

CONSTANT Msgs

VARIABLES
  place,  \* where Orange keeps each message
  held    \* the messages Gmail holds, itself or under the same Message-ID

vars == <<place, held>>

Places == {"unsent", "inbox", "transferred"}

Init ==
  /\ place \in [Msgs -> {"unsent", "inbox"}]
  /\ held \in SUBSET Msgs

\* A new message reaches the Orange inbox.
Arrive(m) ==
  /\ place[m] = "unsent"
  /\ place' = [place EXCEPT ![m] = "inbox"]
  /\ UNCHANGED held

\* Gmail accepts a message; messages that share its Message-ID are held too.
Hold(S) ==
  /\ held' = held \cup S
  /\ UNCHANGED place

\* A message may leave the inbox only once Gmail holds it.
Transfer(m) ==
  /\ place[m] = "inbox"
  /\ m \in held
  /\ place' = [place EXCEPT ![m] = "transferred"]
  /\ UNCHANGED held

Next ==
  \/ \E m \in Msgs : Arrive(m) \/ Transfer(m)
  \/ \E S \in SUBSET Msgs : Hold(S)

Spec == Init /\ [][Next]_vars
=============================================================================
