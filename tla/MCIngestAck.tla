----------------------------- MODULE MCIngestAck -----------------------------
(***************************************************************************)
(* Instances of IngestAck for TLC against what the code says of itself;    *)
(* MCReviews has those that pass.                                          *)
(*   MCReadyUnchecked.cfg   one delivery, a re-count and a failure         *)
(*   MCRefusedInPart.cfg    one delivery cut off, and its redelivery       *)
(***************************************************************************)
EXTENDS IngestAck

CONSTANTS socket, backfill, converter
=============================================================================
