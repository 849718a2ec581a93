-------------------------- MODULE MCConversionQueue --------------------------
(***************************************************************************)
(* An instance of ConversionQueue for TLC.                                 *)
(*   MCOneRunAtATime.cfg    one job and two runs, against the docstring    *)
(* MCWriting has the instance with batches that overlap, MCServices the one*)
(* with retries, a cap of two and the end of every lease.                  *)
(***************************************************************************)
EXTENDS ConversionQueue

CONSTANTS retry, nightly, drawing
=============================================================================
