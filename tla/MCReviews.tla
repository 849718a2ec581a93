------------------------------ MODULE MCReviews ------------------------------
(***************************************************************************)
(* The ingest of a message and the review of summaries for TLC, none of    *)
(* which needs fairness.  They share no state: what moves is chosen at the *)
(* start, the rest stays as it is.                                         *)
(*   ingest    two deliveries at once and a re-count, and nothing fails    *)
(*   outbox    a delivery and its redelivery by one handler, and failures  *)
(*             of the database, the outbox file or a read                  *)
(*   review    the review of a channel's candidates                        *)
(* MCReviews.cfg has all three, MCDeferred.cfg and MCOneCanvas.cfg a review*)
(* of one candidate against what the code says of itself.                  *)
(***************************************************************************)
EXTENDS IngestAck, SummaryReview

CONSTANTS
  Components,                      \* those one of which moves
  socket, backfill, converter,     \* two handlers and a reconciler
  lee                              \* a reviewer

\* A bound of this instance: the review treats a rejection as it treats an approval, so a lone
\* candidate may be rejected, and of two each is approved, put off or expires.
NoneYet == [c \in Candidates |-> NoCandidate]

VARIABLE active                  \* the component that moves

reviewsVars == <<active, vars, reviewVars>>

ReviewsInit ==
  /\ active \in Components
  /\ Init /\ ReviewInit
  /\ active = "review" => event = CHOOSE e \in Events : TRUE

IngestMoves ==
  active = "ingest" /\ Next /\ UNCHANGED faults /\ UNCHANGED <<active, reviewVars>>
OutboxMoves ==
  /\ active = "outbox" /\ Next
  /\ \A h \in Handlers \ {socket} : handler'[h] = handler[h]
  /\ UNCHANGED recon
  /\ UNCHANGED <<active, reviewVars>>
ReviewMoves ==
  /\ active = "review" /\ ReviewNext /\ UNCHANGED <<active, vars>>
  /\ \A c \in Candidates :
       candidate'[c].state = "rejected" => candidate' = [NoneYet EXCEPT ![c] = candidate'[c]]
ReviewsNext == IngestMoves \/ OutboxMoves \/ ReviewMoves
ReviewsSpec == ReviewsInit /\ [][ReviewsNext]_reviewsVars

ReviewsTypeOK == TypeOK /\ ReviewTypeOK
=============================================================================
