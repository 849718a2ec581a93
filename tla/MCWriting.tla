------------------------------ MODULE MCWriting ------------------------------
(***************************************************************************)
(* The handover of a channel and the conversion queue for TLC.  They share *)
(* no state: what moves is chosen at the start, the rest stays as it is.   *)
(*   pilot        the cached Master worker, an Archiver, a periodic syncer,*)
(*                one coordinate, and a settling time that covers cache and*)
(*                write                                                    *)
(*   collector    the same with the hourly Master job instead              *)
(*   membership   the console and both kinds of syncers, whose plans get   *)
(*                out of date, with two coordinates and no writer          *)
(*   queue        two jobs in two runs whose batches overlap, of one       *)
(*                attempt each                                             *)
(* Masters only read what they share with others, and the properties are   *)
(* about some Master: one at a time loses nothing.  Jobs do not differ from*)
(* each other, nor do the queue's runs: they are taken up to their         *)
(* permutations.                                                           *)
(***************************************************************************)
EXTENDS ChannelHandover, ConversionQueue, TLC

CONSTANTS
  Components,                         \* those one of which moves
  pilot, collector, archiver,         \* writers
  loop, discovery,                    \* syncers
  retry, nightly, drawing, sheet      \* runs of the queue and jobs

Alike == Permutations({retry, nightly}) \cup Permutations({drawing, sheet})

VARIABLE active       \* the component that moves

writingVars == <<active, vars, queueVars>>

WritingInit ==
  /\ active \in Components
  /\ Init /\ QueueInit
  /\ active = "queue" => ~invited

Still(workers) == \A w \in workers : work'[w] = work[w]
HandoverMoves ==
  /\ \/ active = "pilot" /\ Next /\ Still(Collectors)
     \/ active = "collector" /\ Next /\ Still(Pilots) /\ UNCHANGED cache
  /\ \A s \in EventSyncers : sync'[s] = sync[s]
  /\ row'.cutover <= 1
  /\ UNCHANGED <<active, queueVars>>
MembershipMoves ==
  /\ active = "membership" /\ Next
  /\ UNCHANGED <<work, cache>> /\ pausedFor' = 0
  /\ UNCHANGED <<active, queueVars>>
QueueMoves == active = "queue" /\ QueueNext /\ UNCHANGED <<active, vars>>
WritingNext == HandoverMoves \/ MembershipMoves \/ QueueMoves
WritingSpec == WritingInit /\ [][WritingNext]_writingVars

WritingTypeOK == TypeOK /\ QueueTypeOK
=============================================================================
