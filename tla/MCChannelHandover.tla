-------------------------- MODULE MCChannelHandover --------------------------
(***************************************************************************)
(* Instances of ChannelHandover for TLC against what the code says of      *)
(* itself; MCWriting has those that pass.                                  *)
(*   MCCollectorPacing.cfg    the code's own seconds, in ticks of 30       *)
(*   MCPauseResumed.cfg       a syncer and the console                     *)
(***************************************************************************)
EXTENDS ChannelHandover

CONSTANTS pilot, collector, archiver, loop, discovery
=============================================================================
