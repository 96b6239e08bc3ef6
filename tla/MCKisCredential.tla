--------------------------- MODULE MCKisCredential ---------------------------
(* Model-checking instance of KisCredential. *)
EXTENDS KisCredential

\* KisCredential only takes steps of KisAuth (its writes of the key columns
\* are KisAuth's KeyWritten), so what is proved of KisAuth holds of the pair.
ComposesWithKisAuth == Spec

=============================================================================
