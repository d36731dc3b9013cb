--------------------------- MODULE MCLegacyTransfer ---------------------------
(***************************************************************************)
(* LegacyTransfer for TLC.                                                 *)
(***************************************************************************)
EXTENDS LegacyTransfer, TLC

CONSTANTS u1, u2, u3, u4

\* Messages that all have a Message-ID are interchangeable.
MCSymmetry == Permutations(Uidls)
=============================================================================
