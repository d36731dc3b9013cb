---------------------------- MODULE MCEmailManager ----------------------------
(***************************************************************************)
(* Instances of EmailManager for TLC: two emails share a Message-ID (a     *)
(* resent or copied email), one has none.                                  *)
(***************************************************************************)
EXTENDS EmailManager, TLC

CONSTANTS bg, manual, m1, m2, m3, id1

\* m1 and m2 carry the same Message-ID, m3 carries none.
MCMessageIdOf ==
  [m \in Msgs |-> IF m = m3 THEN NoMessageId ELSE id1]
=============================================================================
