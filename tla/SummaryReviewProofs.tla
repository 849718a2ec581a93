------------------------- MODULE SummaryReviewProofs -------------------------
(***************************************************************************)
(* What SummaryReview promises, for every number of reviewers, candidates, *)
(* days and incidents, every schedule and every size of a page.  At the    *)
(* end, the review and the ingest of a message side by side.               *)
(***************************************************************************)
EXTENDS MCReviews, IngestAckProofs, FiniteSetTheorems, TLAPS

Verdicts == {"completed", "expired", "ready", "partial"}

\* The run is about rounds that exist, and about what it needs in each of its steps.
SessionInOrder ==
  /\ session.pc # "asleep" => session.on \in Days
  /\ session.pc \in {"settle", "create", "grant", "regrant", "mark"} => session.at \in Rounds
  /\ session.at # List => round[session.at].state # "none"
  /\ \A a \in session.todo : round[a].state # "none"
  /\ session.pc = "settle" => session.verdict \in Verdicts
  /\ session.pc = "mark" => session.verdict \in {"ready", "failed", "ambiguous"}
  /\ session.pc \in {"record", "date", "shown", "unsent"} => session.to \in Reviewers
  /\ session.pc = "date" => session.at \in Rounds

\* So are the handlers.
PressInOrder ==
  \A r \in Reviewers :
    /\ press[r].pc # "none" => press[r].at \in Rounds /\ round[press[r].at].state # "none"
    /\ press[r].pc = "settle" => press[r].verdict \in Verdicts

\* Only the message of a round that exists is sent.
SentRoundsExist ==
  \A a \in Rounds, r \in Reviewers : delivery[a][r] = "sent" => round[a].state # "none"

\* Candidates are generated in the order of their numbers.
GeneratedInOrder == \E n \in 0 .. MaxCandidates : Generated = 1 .. n

\* A verdict that a round is done stays true while the run or a handler holds it.
Done == {"completed", "expired"}
AllDecided(a) == \A c \in round[a].rows : candidate[c].state \in Final
VerdictsHold ==
  /\ Doing("settle") /\ session.verdict \in Done => AllDecided(session.at)
  /\ \A r \in Reviewers :
       press[r].pc = "settle" /\ press[r].verdict \in Done => AllDecided(press[r].at)

\* Before a round may get a Canvas it has none but those whose link was refused; a round that
\* is getting one is marked as begun.
Blank(a) ==
  \/ round[a].state = "none"
  \/ round[a].state = "failed" /\ ~round[a].canvas
Creates(a) ==
  /\ session.at = a
  /\ Doing("create") \/ (Doing("mark") /\ session.verdict = "failed" /\ ~session.made)
Uncreated(a) == Blank(a) \/ Creates(a)
CreatingIsBegun == Doing("create") => ~Blank(session.at)
CanvasBudget == \A a \in Rounds : Uncreated(a) => canvases[a] <= linkRefusals[a]

\* A second Canvas of a round is answered for by a clear refusal of the first one's link.
CanvasesAreAccountedFor == \A a \in Rounds : canvases[a] <= 1 + linkRefusals[a]

\* What counts as shown, or is about to, was in a message that Slack took.
ShownWasSeen ==
  /\ \A c \in Candidates : candidate[c].shown # 0 => seen[c] # 0
  /\ session.pc \in {"record", "date", "shown"} => \A c \in session.rows : seen[c] # 0

ReviewInvariant ==
  /\ ReviewTypeOK
  /\ SessionInOrder /\ PressInOrder /\ SentRoundsExist /\ GeneratedInOrder
  /\ VerdictsHold /\ CreatingIsBegun /\ CanvasBudget /\ ShownWasSeen
  /\ ExpiredWasSeen /\ DoneMeansDecided /\ CanvasesAreAccountedFor

(***************************************************************************)
(* Which steps change what.                                                *)
(***************************************************************************)
Starts == TimerRuns \/ ConsoleRuns
Decides ==
  \/ \E r \in Reviewers, a \in Rounds \cup {List}, c \in Candidates, state \in Choices :
       decide(r, a, c, state)
  \/ \E r \in Reviewers, c \in Candidates : approve_next(r, c)
ChangesCandidate == Starts \/ Generates \/ MarkShown \/ Decides
Settles == TidyWrites \/ \E r \in Reviewers : RefreshWrites(r)
ChangesRound == Settles \/ MarkRound \/ \E a \in Rounds : BeginRound(a) \/ GiveUpRound(a)
ChangesPress == \E r \in Reviewers : Handles(r)
Posting == \E r \in Reviewers : SendMessage(r) \/ SendFails(r)
Creating == CanvasMade \/ CanvasUncertain \/ LinkRefused

Framed ==
  /\ ChangesCandidate \/ UNCHANGED candidate
  /\ ChangesRound \/ UNCHANGED round
  /\ ChangesPress \/ UNCHANGED press
  /\ RecordSent \/ RecordUnsent \/ UNCHANGED delivery
  /\ RecordSent \/ DateSent \/ UNCHANGED dated
  /\ Posting \/ UNCHANGED <<listed, seen>>
  /\ Creating \/ UNCHANGED <<canvases, linkRefusals>>
  /\ NextDay \/ UNCHANGED today
  /\ Incident \/ UNCHANGED incidents

LEMMA RunFrames ==
  ASSUME ReviewRuns
  PROVE  Framed
<1> USE DEF Framed, slackVars
<1>1. CASE TimerRuns
  BY <1>1 DEF TimerRuns, StartReview, ChangesCandidate, Starts
<1>2. CASE ConsoleRuns
  BY <1>2 DEF ConsoleRuns, StartReview, ChangesCandidate, Starts
<1>3. ASSUME NEW a \in Rounds, TidyReads(a)
      PROVE  Framed
  BY <1>3 DEF TidyReads
<1>4. CASE TidyWrites
  BY <1>4 DEF TidyWrites, ChangesRound, Settles
<1>5. CASE Generates
  BY <1>5 DEF Generates, ChangesCandidate
<1>6. CASE GeneratesNothing
  BY <1>6 DEF GeneratesNothing
<1>7. ASSUME NEW rows \in SUBSET Candidates, ListPending(rows)
      PROVE  Framed
  BY <1>7 DEF ListPending
<1>8. CASE ProjectionFails
  BY <1>8 DEF ProjectionFails
<1>9. ASSUME NEW a \in Rounds, BeginRound(a)
      PROVE  Framed
  BY <1>9 DEF BeginRound, ChangesRound
<1>10. ASSUME NEW a \in Rounds, ResumeRound(a)
      PROVE  Framed
  BY <1>10 DEF ResumeRound
<1>11. ASSUME NEW a \in Rounds, GiveUpRound(a)
      PROVE  Framed
  BY <1>11 DEF GiveUpRound, ChangesRound
<1>12. CASE CanvasMade
  BY <1>12 DEF CanvasMade, Creating, Made
<1>13. CASE CanvasRefused
  BY <1>13 DEF CanvasRefused
<1>14. CASE CanvasUncertain
  BY <1>14 DEF CanvasUncertain, Creating, Made
<1>15. CASE LinkRefused
  BY <1>15 DEF LinkRefused, Creating, Made
<1>16. CASE GrantReaders
  BY <1>16 DEF GrantReaders
<1>17. CASE GrantFails
  BY <1>17 DEF GrantFails
<1>18. CASE MarkRound
  BY <1>18 DEF MarkRound, ChangesRound
<1>19. CASE MarkFails
  BY <1>19 DEF MarkFails
<1>20. ASSUME NEW r \in Reviewers, SkipReviewer(r)
      PROVE  Framed
  BY <1>20 DEF SkipReviewer
<1>21. ASSUME NEW r \in Reviewers, SendMessage(r)
      PROVE  Framed
  BY <1>21 DEF SendMessage, Posts, Posting
<1>22. ASSUME NEW r \in Reviewers, SendFails(r)
      PROVE  Framed
  BY <1>22 DEF SendFails, Posts, Posting
<1>23. CASE RecordSent
  BY <1>23 DEF RecordSent
<1>24. CASE RecordFails
  BY <1>24 DEF RecordFails
<1>25. CASE DateSent
  BY <1>25 DEF DateSent
<1>26. CASE MarkShown
  BY <1>26 DEF MarkShown, ChangesCandidate
<1>27. CASE RecordUnsent
  BY <1>27 DEF RecordUnsent
<1>28. CASE EndReview
  BY <1>28 DEF EndReview
<1>29. CASE ReviewDies
  BY <1>29 DEF ReviewDies
<1> QED
  BY <1>1, <1>2, <1>3, <1>4, <1>5, <1>6, <1>7, <1>8, <1>9, <1>10, <1>11, <1>12, <1>13,
     <1>14, <1>15, <1>16, <1>17, <1>18, <1>19, <1>20, <1>21, <1>22, <1>23, <1>24, <1>25,
     <1>26, <1>27, <1>28, <1>29 DEF ReviewRuns

LEMMA HandlerFrames ==
  ASSUME NEW r \in Reviewers, Handles(r)
  PROVE  Framed
<1> USE DEF Framed, slackVars
<1>1. ASSUME NEW a \in Rounds \cup {List}, NEW c \in Candidates, NEW state \in Choices,
             decide(r, a, c, state)
      PROVE  Framed
  BY <1>1 DEF decide, ChangesCandidate, Decides, ChangesPress, Handles
<1>2. ASSUME NEW a \in Rounds, approve_all(r, a)
      PROVE  Framed
  BY <1>2 DEF approve_all, ChangesPress, Handles
<1>3. ASSUME NEW c \in Candidates, approve_next(r, c)
      PROVE  Framed
  BY <1>3 DEF approve_next, ChangesCandidate, Decides, ChangesPress, Handles
<1>4. CASE RefreshReads(r)
  BY <1>4 DEF RefreshReads, ChangesPress, Handles
<1>5. CASE RefreshWrites(r)
  BY <1>5 DEF RefreshWrites, ChangesRound, Settles, ChangesPress, Handles
<1>6. CASE HandlerStops(r)
  BY <1>6 DEF HandlerStops, ChangesPress, Handles
<1> QED
  BY <1>1, <1>2, <1>3, <1>4, <1>5, <1>6 DEF Handles

LEMMA Frames ==
  ASSUME ReviewNext
  PROVE  Framed
<1>1. CASE NextDay
  BY <1>1 DEF NextDay, Framed, slackVars
<1> QED
  BY <1>1, RunFrames, HandlerFrames DEF ReviewNext

(***************************************************************************)
(* Candidates: what is decided stays, what expires was shown.              *)
(***************************************************************************)
Turns(c) ==
  \/ candidate'[c] = candidate[c]
  \/ /\ candidate[c].state \in Open /\ candidate'[c].state # "none"
     /\ candidate'[c].shown = candidate[c].shown
     /\ candidate'[c].state = "expired" => candidate[c].shown # 0
  \/ /\ candidate'[c].state = candidate[c].state
     /\ Doing("shown") /\ c \in session.rows
TurnsOnly ==
  candidate' \in [Candidates -> CandidateRows] /\ \A c \in Candidates : Turns(c)

CandidatesMove ==
  /\ candidate' \in [Candidates -> CandidateRows]
  /\ GeneratedInOrder'
  /\ \A c \in Candidates :
       /\ candidate[c].state \in Final => candidate'[c].state = candidate[c].state
       /\ candidate'[c].state = "expired" =>
            candidate[c].state = "expired" \/ candidate[c].shown # 0
       /\ candidate'[c].shown # 0 =>
            candidate[c].shown # 0 \/ (Doing("shown") /\ c \in session.rows)

LEMMA ListIsNoRound == List \notin Rounds
  BY ReviewAssumption DEF List, Rounds, Days, Candidates

LEMMA TurnsMove ==
  ASSUME ReviewTypeOK, GeneratedInOrder, TurnsOnly
  PROVE  CandidatesMove
<1>1. candidate' \in [Candidates -> CandidateRows]
  BY DEF TurnsOnly
<1>2. \A c \in Candidates : (candidate'[c].state # "none") <=> (candidate[c].state # "none")
  BY DEF TurnsOnly, Turns, Open
<1>3. Generated' = Generated
  BY <1>2 DEF Generated
<1>4. GeneratedInOrder'
  BY <1>3 DEF GeneratedInOrder
<1>5. ASSUME NEW c \in Candidates
      PROVE  /\ candidate[c].state \in Final => candidate'[c].state = candidate[c].state
             /\ candidate'[c].state = "expired" =>
                  candidate[c].state = "expired" \/ candidate[c].shown # 0
             /\ candidate'[c].shown # 0 =>
                  candidate[c].shown # 0 \/ (Doing("shown") /\ c \in session.rows)
  <2>1. Turns(c)
    BY DEF TurnsOnly
  <2>2. CASE candidate'[c] = candidate[c]
    BY <2>2
  <2>3. CASE /\ candidate[c].state \in Open /\ candidate'[c].state # "none"
             /\ candidate'[c].shown = candidate[c].shown
             /\ candidate'[c].state = "expired" => candidate[c].shown # 0
    BY <2>3 DEF Open, Final
  <2>4. CASE candidate'[c].state = candidate[c].state /\ Doing("shown") /\ c \in session.rows
    BY <2>4
  <2> QED
    BY <2>1, <2>2, <2>3, <2>4 DEF Turns
<1> QED
  BY <1>1, <1>4, <1>5 DEF CandidatesMove

LEMMA StartsTurn ==
  ASSUME ReviewTypeOK, Starts
  PROVE  TurnsOnly
<1>1. ExpireUnconfirmed(today)
  BY DEF Starts, TimerRuns, ConsoleRuns, StartReview
<1>2. ASSUME NEW c \in Candidates
      PROVE  candidate'[c] \in CandidateRows /\ Turns(c)
  <2>1. candidate[c] \in CandidateRows
    BY DEF ReviewTypeOK
  <2>2. CASE Unconfirmed(c, today)
    <3>1. candidate'[c] = [candidate[c] EXCEPT !.state = "expired", !.until = 0]
      BY <1>1, <2>2 DEF ExpireUnconfirmed
    <3>2. 0 \in 0 .. LastDay + 1 /\ "expired" \in {"none"} \cup Open \cup Final
      BY ReviewAssumption DEF Final
    <3>3. /\ candidate'[c].state = "expired" /\ candidate'[c].shown = candidate[c].shown
          /\ candidate'[c] \in CandidateRows
      BY <2>1, <3>1, <3>2 DEF CandidateRows
    <3>4. candidate[c].state \in Open /\ candidate[c].shown # 0
      BY <2>2 DEF Unconfirmed, Open
    <3> QED
      BY <3>3, <3>4 DEF Turns
  <2>3. CASE ~Unconfirmed(c, today)
    BY <1>1, <2>1, <2>3 DEF ExpireUnconfirmed, Turns
  <2> QED
    BY <2>2, <2>3
<1> QED
  BY <1>1, <1>2 DEF ExpireUnconfirmed, TurnsOnly

LEMMA DecidedTurn ==
  ASSUME ReviewTypeOK, NEW d \in Candidates, NEW state \in Choices, IsOpen(d), Decided(d, state)
  PROVE  TurnsOnly
<1>1. today + 1 \in 0 .. LastDay + 1 /\ 0 \in 0 .. LastDay + 1
  BY ReviewAssumption DEF ReviewTypeOK, Days
<1>2. ASSUME NEW c \in Candidates
      PROVE  candidate'[c] \in CandidateRows /\ Turns(c)
  <2>1. candidate[c] \in CandidateRows
    BY DEF ReviewTypeOK
  <2>2. CASE c = d
    <3>1. candidate'[c] = [candidate[c] EXCEPT
            !.state = state, !.until = IF state = "deferred" THEN today + 1 ELSE 0]
      BY <2>2 DEF ReviewTypeOK, Decided
    <3>2. state \in {"none"} \cup Open \cup Final
      BY DEF Open, Final, Choices
    <3>3. /\ candidate'[c].state = state /\ candidate'[c].shown = candidate[c].shown
          /\ candidate'[c] \in CandidateRows
      BY <1>1, <2>1, <3>1, <3>2 DEF CandidateRows
    <3>4. candidate[c].state \in Open /\ state # "none" /\ state # "expired"
      BY <2>2 DEF IsOpen, Choices
    <3> QED
      BY <3>3, <3>4 DEF Turns
  <2>3. CASE c # d
    BY <2>1, <2>3 DEF ReviewTypeOK, Decided, Turns
  <2> QED
    BY <2>2, <2>3
<1>3. candidate' = [c \in Candidates |-> candidate'[c]]
  BY DEF ReviewTypeOK, Decided
<1>4. candidate' \in [Candidates -> CandidateRows]
  BY <1>2, <1>3
<1> QED
  BY <1>2, <1>4 DEF TurnsOnly

LEMMA SameTurn ==
  ASSUME ReviewTypeOK, UNCHANGED candidate
  PROVE  TurnsOnly
  BY DEF ReviewTypeOK, TurnsOnly, Turns

LEMMA MarkShownTurns ==
  ASSUME ReviewTypeOK, MarkShown
  PROVE  TurnsOnly
<1>1. CASE UNCHANGED candidate
  BY <1>1, SameTurn
<1>2. CASE candidate' = [c \in Candidates |->
                           IF c \in session.rows /\ candidate[c].shown = 0
                           THEN [candidate[c] EXCEPT !.shown = today] ELSE candidate[c]]
  <2>1. ASSUME NEW c \in Candidates
        PROVE  candidate'[c] \in CandidateRows /\ Turns(c)
    <3>1. candidate[c] \in CandidateRows /\ today \in 0 .. LastDay
      BY ReviewAssumption DEF ReviewTypeOK, Days
    <3>2. CASE c \in session.rows /\ candidate[c].shown = 0
      <4>1. candidate'[c] = [candidate[c] EXCEPT !.shown = today]
        BY <1>2, <3>2
      <4> QED
        BY <3>1, <3>2, <4>1 DEF MarkShown, Turns, CandidateRows
    <3>3. CASE ~(c \in session.rows /\ candidate[c].shown = 0)
      BY <1>2, <3>1, <3>3 DEF Turns
    <3> QED
      BY <3>2, <3>3
  <2> QED
    BY <1>2, <2>1 DEF TurnsOnly
<1> QED
  BY <1>1, <1>2 DEF MarkShown

LEMMA GeneratesMove ==
  ASSUME ReviewTypeOK, GeneratedInOrder, Generates
  PROVE  CandidatesMove
<1>1. PICK n \in 0 .. MaxCandidates : Generated = 1 .. n
  BY DEF GeneratedInOrder
<1>2. n \in Nat /\ MaxCandidates \in Nat
  BY ReviewAssumption
<1>3. Cardinality(Generated) = n
  BY <1>1, <1>2, FS_Interval
<1> DEFINE new == [NoCandidate EXCEPT !.state = "pending", !.digest = n + 1]
<1>4. PICK last \in n + 1 .. MaxCandidates :
        candidate' = [c \in Candidates |-> IF c \in n + 1 .. last THEN new ELSE candidate[c]]
  BY <1>3 DEF Generates
<1>5. new \in CandidateRows /\ new.state = "pending" /\ new.shown = 0
  <2>1. n + 1 \in 0 .. MaxCandidates /\ 0 \in 0 .. MaxCandidates
    BY <1>2, <1>4
  <2>2. 0 \in 0 .. LastDay + 1 /\ 0 \in 0 .. LastDay
    BY ReviewAssumption
  <2>3. "pending" \in {"none"} \cup Open \cup Final /\ "none" \in {"none"} \cup Open \cup Final
    BY DEF Open
  <2>4. NoCandidate \in CandidateRows /\ NoCandidate.shown = 0
    BY <2>1, <2>2, <2>3 DEF NoCandidate, CandidateRows
  <2> QED
    BY <2>1, <2>3, <2>4 DEF CandidateRows
<1> HIDE DEF new
<1>6. candidate' \in [Candidates -> CandidateRows]
  BY <1>4, <1>5 DEF ReviewTypeOK
<1>7. \A c \in Candidates : c \in n + 1 .. last => candidate[c].state = "none"
  BY <1>1, <1>2, <1>4 DEF Generated
<1>8. Generated' = 1 .. last
  <2>1. \A c \in Candidates : c \in Generated' <=> c \in n + 1 .. last \/ c \in Generated
    BY <1>4, <1>5 DEF Generated
  <2>2. Generated' \subseteq Candidates /\ 1 .. last \subseteq Candidates
    BY <1>2, <1>4 DEF Generated, Candidates
  <2>3. last \in Nat /\ n <= last
    BY <1>2, <1>4
  <2>4. \A c \in Candidates : c \in Generated' <=> c \in 1 .. last
    BY <1>1, <1>2, <2>1, <2>3 DEF Candidates
  <2> QED
    BY <2>2, <2>4
<1>9. GeneratedInOrder'
  BY <1>2, <1>4, <1>8 DEF GeneratedInOrder
<1>10. \A c \in Candidates : \/ candidate'[c] = candidate[c]
                             \/ candidate[c].state = "none" /\ candidate'[c] = new
  <2> TAKE c \in Candidates
  <2>1. candidate'[c] = IF c \in n + 1 .. last THEN new ELSE candidate[c]
    BY <1>4
  <2> QED
    BY <1>7, <2>1
<1> QED
  BY <1>5, <1>6, <1>9, <1>10 DEF CandidatesMove, Final

LEMMA CandidateSteps ==
  ASSUME ReviewTypeOK, GeneratedInOrder, ReviewNext
  PROVE  CandidatesMove
<1>1. CASE Generates
  BY <1>1, GeneratesMove
<1>2. CASE UNCHANGED candidate
  BY <1>2, SameTurn, TurnsMove
<1>3. CASE Starts
  BY <1>3, StartsTurn, TurnsMove
<1>4. CASE MarkShown
  BY <1>4, MarkShownTurns, TurnsMove
<1>5. ASSUME NEW r \in Reviewers, NEW a \in Rounds \cup {List}, NEW c \in Candidates,
             NEW state \in Choices, decide(r, a, c, state)
      PROVE  CandidatesMove
  BY <1>5, DecidedTurn, TurnsMove DEF decide
<1>6. ASSUME NEW r \in Reviewers, NEW c \in Candidates, approve_next(r, c)
      PROVE  CandidatesMove
  <2>1. "approved" \in Choices
    BY DEF Choices
  <2>2. CASE UNCHANGED candidate
    BY <2>2, SameTurn, TurnsMove
  <2>3. CASE IsOpen(c) /\ Decided(c, "approved")
    BY <2>1, <2>3, DecidedTurn, TurnsMove
  <2> QED
    BY <1>6, <2>2, <2>3 DEF approve_next
<1> QED
  BY <1>1, <1>2, <1>3, <1>4, <1>5, <1>6, Frames DEF Framed, ChangesCandidate, Decides

(***************************************************************************)
(* Rounds: one that was begun keeps its candidates, and one that is done   *)
(* has them decided.                                                       *)
(***************************************************************************)
RoundsMove ==
  /\ round' \in [Rounds -> RoundRows]
  /\ \A a \in Rounds :
       /\ round[a].state # "none" => round'[a].state # "none" /\ round'[a].rows = round[a].rows
       /\ round'[a].state \in Done => round[a].state # "none" /\ AllDecided(a)

LEMMA RoundStateTyped ==
  ASSUME ReviewTypeOK, NEW a \in Rounds, NEW state \in {"none"} \cup RoundStates,
         round' = [round EXCEPT ![a].state = state]
  PROVE  /\ round' \in [Rounds -> RoundRows]
         /\ round'[a].state = state /\ round'[a].rows = round[a].rows
         /\ round'[a].canvas = round[a].canvas
         /\ \A b \in Rounds : b # a => round'[b] = round[b]
<1>1. round \in [Rounds -> RoundRows]
  BY DEF ReviewTypeOK
<1> QED
  BY <1>1 DEF RoundRows

LEMMA SettledMove ==
  ASSUME ReviewTypeOK, DoneMeansDecided,
         NEW a \in Rounds, NEW verdict \in Verdicts, round[a].state # "none",
         verdict \in Done => AllDecided(a), round' = Settled(a, verdict)
  PROVE  RoundsMove /\ \A b \in Rounds : Blank(b)' => Blank(b)
<1>1. CASE round' = round
  BY <1>1 DEF ReviewTypeOK, RoundsMove, DoneMeansDecided, Done, AllDecided, Blank
<1>2. CASE round' = [round EXCEPT ![a].state = verdict]
  <2>1. /\ round' \in [Rounds -> RoundRows]
        /\ round'[a].state = verdict /\ round'[a].rows = round[a].rows
        /\ \A b \in Rounds : b # a => round'[b] = round[b]
    BY <1>2, RoundStateTyped DEF Verdicts, RoundStates
  <2>2. verdict # "none" /\ verdict # "failed"
    BY DEF Verdicts
  <2> QED
    BY <2>1, <2>2 DEF RoundsMove, DoneMeansDecided, Done, AllDecided, Blank
<1> QED
  BY <1>1, <1>2 DEF Settled

LEMMA SettlesMove ==
  ASSUME ReviewTypeOK, SessionInOrder, PressInOrder, VerdictsHold, DoneMeansDecided, Settles
  PROVE  RoundsMove /\ \A b \in Rounds : Blank(b)' => Blank(b)
<1>1. CASE TidyWrites
  <2>1. /\ session.at \in Rounds /\ session.verdict \in Verdicts
        /\ session.verdict \in Done => AllDecided(session.at)
        /\ round' = Settled(session.at, session.verdict)
    BY <1>1 DEF TidyWrites, Doing, SessionInOrder, VerdictsHold, Verdicts
  <2>2. round[session.at].state # "none"
    BY <2>1, ListIsNoRound DEF SessionInOrder
  <2> QED
    BY <2>1, <2>2, SettledMove
<1>2. ASSUME NEW r \in Reviewers, RefreshWrites(r)
      PROVE  RoundsMove /\ \A b \in Rounds : Blank(b)' => Blank(b)
  <2>1. /\ press[r].at \in Rounds /\ press[r].verdict \in Verdicts
        /\ round[press[r].at].state # "none"
        /\ press[r].verdict \in Done => AllDecided(press[r].at)
        /\ round' = Settled(press[r].at, press[r].verdict)
    BY <1>2 DEF RefreshWrites, PressInOrder, VerdictsHold, Verdicts
  <2> QED
    BY <2>1, SettledMove
<1> QED
  BY <1>1, <1>2 DEF Settles

LEMMA MarksRound ==
  ASSUME ReviewTypeOK, SessionInOrder, DoneMeansDecided, MarkRound
  PROVE  /\ RoundsMove
         /\ \A b \in Rounds : Blank(b)' => Blank(b) \/ Creates(b)
<1> DEFINE a == session.at
<1>1. /\ a \in Rounds /\ round[a].state # "none" /\ Doing("mark")
      /\ session.verdict \in {"ready", "failed", "ambiguous"}
      /\ session.made \in BOOLEAN
  BY ListIsNoRound DEF MarkRound, Doing, SessionInOrder, ReviewTypeOK, SessionSteps
<1>2. round[a] \in RoundRows /\ round[a].canvas \in BOOLEAN /\ round \in [Rounds -> RoundRows]
  BY <1>1 DEF ReviewTypeOK, RoundRows
<1>3. (round[a].canvas \/ session.made) \in BOOLEAN
  OBVIOUS
<1>4. round' = [round EXCEPT ![a].state = session.verdict, ![a].canvas = @ \/ session.made]
  BY DEF MarkRound
<1>5. /\ round' \in [Rounds -> RoundRows]
      /\ round'[a].state = session.verdict /\ round'[a].rows = round[a].rows
      /\ round'[a].canvas = (round[a].canvas \/ session.made)
      /\ \A b \in Rounds : b # a => round'[b] = round[b]
  <2>1. session.verdict \in {"none"} \cup RoundStates
    BY <1>1 DEF RoundStates
  <2> QED
    BY <1>1, <1>2, <1>3, <1>4, <2>1 DEF RoundRows
<1>6. RoundsMove
  BY <1>1, <1>5 DEF RoundsMove, DoneMeansDecided, Done, AllDecided
<1>7. ASSUME NEW b \in Rounds, Blank(b)'
      PROVE  Blank(b) \/ Creates(b)
  <2>1. CASE b # a
    BY <1>5, <1>7, <2>1 DEF Blank
  <2>2. CASE b = a
    BY <1>1, <1>5, <1>7, <2>2 DEF Blank, Creates
  <2> QED
    BY <2>1, <2>2
<1> QED
  BY <1>6, <1>7

LEMMA RoundSteps ==
  ASSUME ReviewTypeOK, SessionInOrder, PressInOrder, VerdictsHold, DoneMeansDecided, ReviewNext
  PROVE  /\ RoundsMove
         /\ \A b \in Rounds : Blank(b)' => Blank(b) \/ (MarkRound /\ Creates(b))
<1> USE DEF Blank
<1>1. CASE UNCHANGED round
  BY <1>1 DEF ReviewTypeOK, RoundsMove, DoneMeansDecided, Done, AllDecided
<1>2. CASE Settles
  BY <1>2, SettlesMove
<1>3. CASE MarkRound
  BY <1>3, MarksRound
<1>4. ASSUME NEW a \in Rounds, GiveUpRound(a)
      PROVE  RoundsMove /\ \A b \in Rounds : Blank(b)' => Blank(b)
  <2>1. round' = [round EXCEPT ![a].state = "ambiguous"] /\ round[a].state # "none"
    BY <1>4 DEF GiveUpRound
  <2>2. /\ round' \in [Rounds -> RoundRows]
        /\ round'[a].state = "ambiguous" /\ round'[a].rows = round[a].rows
        /\ \A b \in Rounds : b # a => round'[b] = round[b]
    BY <2>1, RoundStateTyped DEF RoundStates
  <2> QED
    BY <2>1, <2>2 DEF RoundsMove, DoneMeansDecided, Done, AllDecided
<1>5. ASSUME NEW a \in Rounds, BeginRound(a)
      PROVE  RoundsMove /\ \A b \in Rounds : Blank(b)' => Blank(b)
  <2>1. /\ round[a] \in RoundRows /\ round \in [Rounds -> RoundRows]
        /\ session.rows \in SUBSET Candidates
    BY DEF ReviewTypeOK, SessionSteps
  <2> DEFINE rows == IF round[a].state = "none" THEN session.rows ELSE round[a].rows
  <2>2. rows \in SUBSET Candidates /\ (round[a].state # "none" => rows = round[a].rows)
    BY <2>1 DEF RoundRows
  <2>3. round' = [round EXCEPT ![a].state = "creating", ![a].rows = rows]
    BY <1>5 DEF BeginRound
  <2> HIDE DEF rows
  <2>4. /\ round' \in [Rounds -> RoundRows]
        /\ round'[a].state = "creating" /\ round'[a].rows = rows
        /\ \A b \in Rounds : b # a => round'[b] = round[b]
    BY <2>1, <2>2, <2>3 DEF RoundRows, RoundStates
  <2> QED
    BY <2>2, <2>4 DEF RoundsMove, DoneMeansDecided, Done, AllDecided
<1> QED
  BY <1>1, <1>2, <1>3, <1>4, <1>5, Frames DEF Framed, ChangesRound

(***************************************************************************)
(* The run.                                                                *)
(***************************************************************************)
Posted == {"record", "date", "shown"}
Settling ==
  Doing("settle")' /\ session'.verdict \in Done =>
    \/ UNCHANGED session
    \/ session'.verdict = RoundVerdict(session'.at) /\ round[session'.at].state # "none"
Begins == session'.pc = "create" => UNCHANGED session \/ BeginRound(session'.at)
PostsFirst ==
  session'.pc \in Posted =>
    /\ session'.rows = session.rows
    /\ session.pc \in Posted \/ \E r \in Reviewers : SendMessage(r)
SessionMove ==
  /\ session' \in SessionSteps /\ SessionInOrder'
  /\ \A b \in Rounds : Creates(b)' => Uncreated(b)
  /\ Settling /\ Begins /\ PostsFirst

LEMMA AsleepTyped == Asleep \in SessionSteps
  BY ReviewAssumption DEF Asleep, SessionSteps, RoundStates

LEMMA StartSession ==
  ASSUME ReviewTypeOK, RoundsMove,
         NEW resend \in BOOLEAN, NEW generates \in BOOLEAN, NEW sends \in BOOLEAN,
         StartReview(resend, generates, sends)
  PROVE  SessionMove
<1> DEFINE expired == \E c \in Candidates : Unconfirmed(c, today)
           touched == IF expired THEN Touched ELSE {}
           pc == IF touched = {} THEN "generate" ELSE "tidy"
<1>1. session' = [Asleep EXCEPT !.pc = pc, !.on = today, !.resend = resend,
                    !.generates = generates, !.sends = sends, !.todo = touched]
  BY DEF StartReview
<1>2. touched \in SUBSET Rounds /\ \A a \in touched : round[a].state # "none"
  BY DEF Touched
<1>3. pc \in {"generate", "tidy"}
  OBVIOUS
<1> HIDE DEF expired, touched, pc
<1>4. /\ session'.pc = pc /\ session'.on = today /\ session'.at = List
      /\ session'.todo = touched
  BY <1>1 DEF Asleep
<1>5. session' \in SessionSteps
  <2> DEFINE begun == [Asleep EXCEPT !.pc = pc, !.on = today]
  <2>1. today \in 0 .. LastDay
    BY ReviewAssumption DEF ReviewTypeOK, Days
  <2>2. begun \in SessionSteps
    BY <1>3, <2>1, AsleepTyped DEF SessionSteps
  <2> DEFINE asked == [begun EXCEPT !.resend = resend, !.generates = generates, !.sends = sends]
  <2>3. session' = [asked EXCEPT !.todo = touched]
    BY <1>1
  <2> HIDE DEF begun
  <2>4. asked \in SessionSteps
    BY <2>2 DEF SessionSteps
  <2> HIDE DEF asked
  <2> QED
    BY <1>2, <2>3, <2>4 DEF SessionSteps
<1>6. SessionInOrder'
  BY <1>2, <1>3, <1>4, ListIsNoRound DEF SessionInOrder, ReviewTypeOK, RoundsMove
<1> QED
  BY <1>3, <1>4, <1>5, <1>6 DEF SessionMove, Creates, Settling, Begins, PostsFirst, Posted, Doing

LEMMA StartsSession ==
  ASSUME ReviewTypeOK, SessionInOrder, RoundsMove, Starts
  PROVE  SessionMove
  BY StartSession DEF Starts, TimerRuns, ConsoleRuns

LEMMA TidyReadsSession ==
  ASSUME ReviewTypeOK, SessionInOrder, RoundsMove, NEW a \in Rounds, TidyReads(a)
  PROVE  SessionMove
<1>1. session' = [session EXCEPT !.pc = "settle", !.at = a, !.verdict = RoundVerdict(a)]
  BY DEF TidyReads
<1>2. RoundVerdict(a) \in Verdicts
  BY DEF RoundVerdict, Verdicts
<1>3. session.pc = "tidy" /\ a \in session.todo
  BY DEF TidyReads, Doing
<1>4. session' \in SessionSteps
  BY <1>1, <1>2 DEF ReviewTypeOK, SessionSteps, Verdicts, RoundStates
<1>5. /\ session'.pc = "settle" /\ session'.at = a /\ session'.verdict = RoundVerdict(a)
      /\ session'.on = session.on /\ session'.todo = session.todo
  BY <1>1 DEF ReviewTypeOK, SessionSteps
<1>6. SessionInOrder'
  BY <1>2, <1>3, <1>4, <1>5 DEF SessionInOrder, RoundsMove, ReviewTypeOK, SessionSteps
<1>7. RoundVerdict(session'.at) = RoundVerdict(a) /\ round[session'.at].state # "none"
  BY <1>3, <1>5 DEF SessionInOrder
<1> QED
  BY <1>4, <1>5, <1>6, <1>7 DEF SessionMove, Creates, Settling, Begins, PostsFirst, Posted, Doing

LEMMA TidyWritesSession ==
  ASSUME ReviewTypeOK, SessionInOrder, RoundsMove, TidyWrites
  PROVE  SessionMove
<1> DEFINE rest == session.todo \ {session.at}
           pc == IF rest = {} THEN "generate" ELSE "tidy"
<1>1. /\ session' = [session EXCEPT !.pc = pc, !.at = List, !.todo = rest, !.verdict = "none"]
      /\ session.pc = "settle"
  BY DEF TidyWrites, Doing
<1>2. rest \subseteq session.todo /\ pc \in {"generate", "tidy"}
  OBVIOUS
<1> HIDE DEF rest, pc
<1>3. session' \in SessionSteps
  BY <1>1, <1>2 DEF ReviewTypeOK, SessionSteps
<1>4. /\ session'.pc = pc /\ session'.at = List /\ session'.on = session.on
      /\ session'.todo = rest
  BY <1>1 DEF ReviewTypeOK, SessionSteps
<1> QED
  BY <1>1, <1>2, <1>3, <1>4, ListIsNoRound
  DEF SessionMove, SessionInOrder, RoundsMove, ReviewTypeOK, SessionSteps,
      Creates, Settling, Begins, PostsFirst, Posted, Doing

LEMMA GeneratesSession ==
  ASSUME ReviewTypeOK, SessionInOrder, RoundsMove, Generates
  PROVE  SessionMove
<1> USE ListIsNoRound DEF Doing, Generates
<1>1. session' \in SessionSteps
  BY ReviewAssumption DEF ReviewTypeOK, SessionSteps, RoundStates, Asleep
<1>2. SessionInOrder'
  BY <1>1 DEF ReviewTypeOK, SessionInOrder, RoundsMove, SessionSteps, Asleep
<1> QED
  BY <1>1, <1>2
  DEF SessionMove, Creates, Uncreated, Blank, Settling, Begins, PostsFirst, Posted,
      ReviewTypeOK, SessionSteps, Asleep

LEMMA GeneratesNothingSession ==
  ASSUME ReviewTypeOK, SessionInOrder, RoundsMove, GeneratesNothing
  PROVE  SessionMove
<1> USE ListIsNoRound DEF Doing, GeneratesNothing
<1>1. session' \in SessionSteps
  BY ReviewAssumption DEF ReviewTypeOK, SessionSteps, RoundStates, Asleep
<1>2. SessionInOrder'
  BY <1>1 DEF ReviewTypeOK, SessionInOrder, RoundsMove, SessionSteps, Asleep
<1> QED
  BY <1>1, <1>2
  DEF SessionMove, Creates, Uncreated, Blank, Settling, Begins, PostsFirst, Posted,
      ReviewTypeOK, SessionSteps, Asleep

LEMMA ListPendingSession ==
  ASSUME ReviewTypeOK, SessionInOrder, RoundsMove, NEW rows \in SUBSET Candidates,
         ListPending(rows)
  PROVE  SessionMove
<1>1. session.on \in Days /\ session.on \in 0 .. LastDay /\ session.resend \in BOOLEAN
  BY DEF ListPending, Doing, SessionInOrder, ReviewTypeOK, SessionSteps
<1>2. CASE session' = Asleep
  <2>1. session' \in SessionSteps /\ session'.pc = "asleep" /\ session'.at = List
    BY <1>2, ReviewAssumption DEF SessionSteps, Asleep
  <2>2. session'.todo = {}
    BY <1>2 DEF Asleep
  <2> QED
    BY <2>1, <2>2, ListIsNoRound
    DEF SessionMove, SessionInOrder, Creates, Settling, Begins, PostsFirst, Posted, Doing
<1>3. CASE session' = [Asleep EXCEPT !.pc = "begin", !.on = session.on,
                                     !.resend = session.resend, !.rows = rows]
  <2>1. session' \in SessionSteps
    BY <1>1, <1>3, AsleepTyped DEF SessionSteps
  <2>2. /\ session'.pc = "begin" /\ session'.at = List /\ session'.on = session.on
        /\ session'.todo = {}
    BY <1>3 DEF Asleep
  <2> QED
    BY <1>1, <2>1, <2>2, ListIsNoRound
    DEF SessionMove, SessionInOrder, Creates, Settling, Begins, PostsFirst, Posted, Doing
<1> QED
  BY <1>2, <1>3 DEF ListPending

LEMMA SendsList ==
  ASSUME ReviewTypeOK, SessionInOrder, RoundsMove, session.pc # "asleep", session' = SendList
  PROVE  SessionMove
<1>1. session' \in SessionSteps
  BY DEF ReviewTypeOK, SessionSteps, SendList
<1>2. /\ session'.pc = "dm" /\ session'.at = List /\ session'.on = session.on
      /\ session'.todo = session.todo
  BY DEF ReviewTypeOK, SessionSteps, SendList
<1> QED
  BY <1>1, <1>2, ListIsNoRound
  DEF SessionMove, SessionInOrder, RoundsMove, ReviewTypeOK, SessionSteps,
      Creates, Settling, Begins, PostsFirst, Posted, Doing

LEMMA SendsRound ==
  ASSUME ReviewTypeOK, SessionInOrder, RoundsMove, NEW a \in Rounds, round[a].state # "none",
         session.pc # "asleep", session' = SendRound(a)
  PROVE  SessionMove
<1>1. round[a].rows \in SUBSET Candidates
  BY DEF ReviewTypeOK, RoundRows
<1>2. session' \in SessionSteps
  BY <1>1 DEF ReviewTypeOK, SessionSteps, SendRound
<1>3. /\ session'.pc = "dm" /\ session'.at = a /\ session'.on = session.on
      /\ session'.todo = session.todo
  BY DEF ReviewTypeOK, SessionSteps, SendRound
<1> QED
  BY <1>2, <1>3, ListIsNoRound
  DEF SessionMove, SessionInOrder, RoundsMove, ReviewTypeOK, SessionSteps,
      Creates, Settling, Begins, PostsFirst, Posted, Doing

LEMMA GoesToList ==
  ASSUME ReviewTypeOK, SessionInOrder, RoundsMove,
         ProjectionFails \/ MarkFails \/ \E a \in Rounds : GiveUpRound(a)
  PROVE  SessionMove
  BY SendsList DEF ProjectionFails, MarkFails, GiveUpRound, Doing

LEMMA BeginRoundSession ==
  ASSUME ReviewTypeOK, SessionInOrder, RoundsMove, NEW a \in Rounds, BeginRound(a)
  PROVE  SessionMove
<1> USE ListIsNoRound DEF Doing, BeginRound
<1>1. session' \in SessionSteps
  BY ReviewAssumption DEF ReviewTypeOK, SessionSteps, RoundStates, Asleep
<1>2. SessionInOrder'
  BY <1>1 DEF ReviewTypeOK, SessionInOrder, RoundsMove, SessionSteps, Asleep
<1> QED
  BY <1>1, <1>2
  DEF SessionMove, Creates, Uncreated, Blank, Settling, Begins, PostsFirst, Posted,
      ReviewTypeOK, SessionSteps, Asleep

LEMMA ResumeRoundSession ==
  ASSUME ReviewTypeOK, SessionInOrder, RoundsMove, NEW a \in Rounds, ResumeRound(a)
  PROVE  SessionMove
<1>1. session.pc # "asleep" /\ round[a].state # "none"
  BY DEF ResumeRound, Doing
<1>2. CASE session' = SendRound(a)
  BY <1>1, <1>2, SendsRound
<1>3. CASE session' = [session EXCEPT !.pc = "regrant", !.at = a]
  <2>1. session' \in SessionSteps
    BY <1>3 DEF ReviewTypeOK, SessionSteps
  <2>2. /\ session'.pc = "regrant" /\ session'.at = a /\ session'.on = session.on
        /\ session'.todo = session.todo
    BY <1>3 DEF ReviewTypeOK, SessionSteps
  <2> QED
    BY <1>1, <2>1, <2>2, ListIsNoRound
    DEF SessionMove, SessionInOrder, RoundsMove, ReviewTypeOK, SessionSteps,
        Creates, Settling, Begins, PostsFirst, Posted, Doing
<1> QED
  BY <1>2, <1>3 DEF ResumeRound

LEMMA CanvasMadeSession ==
  ASSUME ReviewTypeOK, SessionInOrder, RoundsMove, CanvasMade
  PROVE  SessionMove
<1> USE ListIsNoRound DEF Doing, CanvasMade, Made
<1>1. session' \in SessionSteps
  BY ReviewAssumption DEF ReviewTypeOK, SessionSteps, RoundStates, Asleep
<1>2. SessionInOrder'
  BY <1>1 DEF ReviewTypeOK, SessionInOrder, RoundsMove, SessionSteps, Asleep
<1> QED
  BY <1>1, <1>2
  DEF SessionMove, Creates, Uncreated, Blank, Settling, Begins, PostsFirst, Posted,
      ReviewTypeOK, SessionSteps, Asleep

LEMMA CanvasRefusedSession ==
  ASSUME ReviewTypeOK, SessionInOrder, RoundsMove, CanvasRefused
  PROVE  SessionMove
<1> USE ListIsNoRound DEF Doing, CanvasRefused, Fails
<1>1. session' \in SessionSteps
  BY ReviewAssumption DEF ReviewTypeOK, SessionSteps, RoundStates, Asleep
<1>2. SessionInOrder'
  BY <1>1 DEF ReviewTypeOK, SessionInOrder, RoundsMove, SessionSteps, Asleep
<1> QED
  BY <1>1, <1>2
  DEF SessionMove, Creates, Uncreated, Blank, Settling, Begins, PostsFirst, Posted,
      ReviewTypeOK, SessionSteps, Asleep

LEMMA CanvasUncertainSession ==
  ASSUME ReviewTypeOK, SessionInOrder, RoundsMove, CanvasUncertain
  PROVE  SessionMove
<1> USE ListIsNoRound DEF Doing, CanvasUncertain, Fails, Made
<1>1. session' \in SessionSteps
  BY ReviewAssumption DEF ReviewTypeOK, SessionSteps, RoundStates, Asleep
<1>2. SessionInOrder'
  BY <1>1 DEF ReviewTypeOK, SessionInOrder, RoundsMove, SessionSteps, Asleep
<1> QED
  BY <1>1, <1>2
  DEF SessionMove, Creates, Uncreated, Blank, Settling, Begins, PostsFirst, Posted,
      ReviewTypeOK, SessionSteps, Asleep

LEMMA LinkRefusedSession ==
  ASSUME ReviewTypeOK, SessionInOrder, RoundsMove, LinkRefused
  PROVE  SessionMove
<1> USE ListIsNoRound DEF Doing, LinkRefused, Fails, Made
<1>1. session' \in SessionSteps
  BY ReviewAssumption DEF ReviewTypeOK, SessionSteps, RoundStates, Asleep
<1>2. SessionInOrder'
  BY <1>1 DEF ReviewTypeOK, SessionInOrder, RoundsMove, SessionSteps, Asleep
<1> QED
  BY <1>1, <1>2
  DEF SessionMove, Creates, Uncreated, Blank, Settling, Begins, PostsFirst, Posted,
      ReviewTypeOK, SessionSteps, Asleep

LEMMA GrantReadersSession ==
  ASSUME ReviewTypeOK, SessionInOrder, RoundsMove, GrantReaders
  PROVE  SessionMove
<1> USE ListIsNoRound DEF Doing, GrantReaders
<1>1. session' \in SessionSteps
  BY ReviewAssumption DEF ReviewTypeOK, SessionSteps, RoundStates, Asleep
<1>2. SessionInOrder'
  BY <1>1 DEF ReviewTypeOK, SessionInOrder, RoundsMove, SessionSteps, Asleep
<1> QED
  BY <1>1, <1>2
  DEF SessionMove, Creates, Uncreated, Blank, Settling, Begins, PostsFirst, Posted,
      ReviewTypeOK, SessionSteps, Asleep

LEMMA GrantFailsSession ==
  ASSUME ReviewTypeOK, SessionInOrder, RoundsMove, GrantFails
  PROVE  SessionMove
<1>1. session.pc \in {"grant", "regrant"}
  BY DEF GrantFails, Doing
<1>2. CASE session' = SendList
  BY <1>1, <1>2, SendsList
<1>3. CASE session' = [session EXCEPT !.pc = "mark", !.verdict = "failed", !.made = TRUE]
  <2>1. session' \in SessionSteps
    BY <1>3 DEF ReviewTypeOK, SessionSteps, RoundStates
  <2>2. /\ session'.pc = "mark" /\ session'.at = session.at /\ session'.on = session.on
        /\ session'.todo = session.todo /\ session'.verdict = "failed" /\ session'.made
    BY <1>3 DEF ReviewTypeOK, SessionSteps
  <2> QED
    BY <1>1, <2>1, <2>2, ListIsNoRound
    DEF SessionMove, SessionInOrder, RoundsMove, ReviewTypeOK, SessionSteps,
        Creates, Settling, Begins, PostsFirst, Posted, Doing
<1> QED
  BY <1>2, <1>3 DEF GrantFails

LEMMA MarkRoundSession ==
  ASSUME ReviewTypeOK, SessionInOrder, RoundsMove, MarkRound
  PROVE  SessionMove
<1>1. /\ session.pc # "asleep" /\ session.at \in Rounds /\ round[session.at].state # "none"
  BY ListIsNoRound DEF MarkRound, Doing, SessionInOrder
<1>2. session' = SendRound(session.at) \/ session' = SendList
  BY DEF MarkRound
<1> QED
  BY <1>1, <1>2, SendsRound, SendsList

LEMMA SkipReviewerSession ==
  ASSUME ReviewTypeOK, SessionInOrder, RoundsMove, NEW r \in Reviewers, SkipReviewer(r)
  PROVE  SessionMove
<1> USE ListIsNoRound DEF Doing, SkipReviewer
<1>1. session' \in SessionSteps
  BY ReviewAssumption DEF ReviewTypeOK, SessionSteps, RoundStates, Asleep
<1>2. SessionInOrder'
  BY <1>1 DEF ReviewTypeOK, SessionInOrder, RoundsMove, SessionSteps, Asleep
<1> QED
  BY <1>1, <1>2
  DEF SessionMove, Creates, Uncreated, Blank, Settling, Begins, PostsFirst, Posted,
      ReviewTypeOK, SessionSteps, Asleep

LEMMA SendMessageSession ==
  ASSUME ReviewTypeOK, SessionInOrder, RoundsMove, NEW r \in Reviewers, SendMessage(r)
  PROVE  SessionMove
<1> USE ListIsNoRound DEF Doing, SendMessage, Posts
<1>1. session' \in SessionSteps
  BY ReviewAssumption DEF ReviewTypeOK, SessionSteps, RoundStates, Asleep
<1>2. SessionInOrder'
  BY <1>1 DEF ReviewTypeOK, SessionInOrder, RoundsMove, SessionSteps, Asleep
<1> QED
  BY <1>1, <1>2
  DEF SessionMove, Creates, Uncreated, Blank, Settling, Begins, PostsFirst, Posted,
      ReviewTypeOK, SessionSteps, Asleep

LEMMA SendFailsSession ==
  ASSUME ReviewTypeOK, SessionInOrder, RoundsMove, NEW r \in Reviewers, SendFails(r)
  PROVE  SessionMove
<1> USE ListIsNoRound DEF Doing, SendFails, Posts
<1>1. session' \in SessionSteps
  BY ReviewAssumption DEF ReviewTypeOK, SessionSteps, RoundStates, Asleep
<1>2. SessionInOrder'
  BY <1>1 DEF ReviewTypeOK, SessionInOrder, RoundsMove, SessionSteps, Asleep
<1> QED
  BY <1>1, <1>2
  DEF SessionMove, Creates, Uncreated, Blank, Settling, Begins, PostsFirst, Posted,
      ReviewTypeOK, SessionSteps, Asleep

LEMMA RecordSentSession ==
  ASSUME ReviewTypeOK, SessionInOrder, RoundsMove, RecordSent
  PROVE  SessionMove
<1> DEFINE pc == IF session.at = List THEN "shown" ELSE "date"
<1>1. session' = [session EXCEPT !.pc = pc] /\ session.pc = "record"
  BY DEF RecordSent, Doing
<1>2. pc \in {"shown", "date"} /\ (pc = "date" => session.at \in Rounds)
  BY DEF ReviewTypeOK, SessionSteps
<1> HIDE DEF pc
<1>3. session' \in SessionSteps
  BY <1>1, <1>2 DEF ReviewTypeOK, SessionSteps
<1>4. /\ session'.pc = pc /\ session'.at = session.at /\ session'.on = session.on
      /\ session'.todo = session.todo /\ session'.to = session.to
      /\ session'.rows = session.rows
  BY <1>1 DEF ReviewTypeOK, SessionSteps
<1> QED
  BY <1>1, <1>2, <1>3, <1>4, ListIsNoRound
  DEF SessionMove, SessionInOrder, RoundsMove, ReviewTypeOK, SessionSteps,
      Creates, Settling, Begins, PostsFirst, Posted, Doing

LEMMA RecordFailsSession ==
  ASSUME ReviewTypeOK, SessionInOrder, RoundsMove, RecordFails
  PROVE  SessionMove
<1> USE ListIsNoRound DEF Doing, RecordFails
<1>1. session' \in SessionSteps
  BY ReviewAssumption DEF ReviewTypeOK, SessionSteps, RoundStates, Asleep
<1>2. SessionInOrder'
  BY <1>1 DEF ReviewTypeOK, SessionInOrder, RoundsMove, SessionSteps, Asleep
<1> QED
  BY <1>1, <1>2
  DEF SessionMove, Creates, Uncreated, Blank, Settling, Begins, PostsFirst, Posted,
      ReviewTypeOK, SessionSteps, Asleep

LEMMA DateSentSession ==
  ASSUME ReviewTypeOK, SessionInOrder, RoundsMove, DateSent
  PROVE  SessionMove
<1> USE ListIsNoRound DEF Doing, DateSent
<1>1. session' \in SessionSteps
  BY ReviewAssumption DEF ReviewTypeOK, SessionSteps, RoundStates, Asleep
<1>2. SessionInOrder'
  BY <1>1 DEF ReviewTypeOK, SessionInOrder, RoundsMove, SessionSteps, Asleep
<1> QED
  BY <1>1, <1>2
  DEF SessionMove, Creates, Uncreated, Blank, Settling, Begins, PostsFirst, Posted,
      ReviewTypeOK, SessionSteps, Asleep

LEMMA MarkShownSession ==
  ASSUME ReviewTypeOK, SessionInOrder, RoundsMove, MarkShown
  PROVE  SessionMove
<1> USE ListIsNoRound DEF Doing, MarkShown, Rest
<1>1. session' \in SessionSteps
  BY ReviewAssumption DEF ReviewTypeOK, SessionSteps, RoundStates, Asleep
<1>2. SessionInOrder'
  BY <1>1 DEF ReviewTypeOK, SessionInOrder, RoundsMove, SessionSteps, Asleep
<1> QED
  BY <1>1, <1>2
  DEF SessionMove, Creates, Uncreated, Blank, Settling, Begins, PostsFirst, Posted,
      ReviewTypeOK, SessionSteps, Asleep

LEMMA RecordUnsentSession ==
  ASSUME ReviewTypeOK, SessionInOrder, RoundsMove, RecordUnsent
  PROVE  SessionMove
<1> USE ListIsNoRound DEF Doing, RecordUnsent, Rest
<1>1. session' \in SessionSteps
  BY ReviewAssumption DEF ReviewTypeOK, SessionSteps, RoundStates, Asleep
<1>2. SessionInOrder'
  BY <1>1 DEF ReviewTypeOK, SessionInOrder, RoundsMove, SessionSteps, Asleep
<1> QED
  BY <1>1, <1>2
  DEF SessionMove, Creates, Uncreated, Blank, Settling, Begins, PostsFirst, Posted,
      ReviewTypeOK, SessionSteps, Asleep

LEMMA EndReviewSession ==
  ASSUME ReviewTypeOK, SessionInOrder, RoundsMove, EndReview
  PROVE  SessionMove
<1> USE ListIsNoRound DEF Doing, EndReview
<1>1. session' \in SessionSteps
  BY ReviewAssumption DEF ReviewTypeOK, SessionSteps, RoundStates, Asleep
<1>2. SessionInOrder'
  BY <1>1 DEF ReviewTypeOK, SessionInOrder, RoundsMove, SessionSteps, Asleep
<1> QED
  BY <1>1, <1>2
  DEF SessionMove, Creates, Uncreated, Blank, Settling, Begins, PostsFirst, Posted,
      ReviewTypeOK, SessionSteps, Asleep

LEMMA ReviewDiesSession ==
  ASSUME ReviewTypeOK, SessionInOrder, RoundsMove, ReviewDies
  PROVE  SessionMove
<1> USE ListIsNoRound DEF Doing, ReviewDies
<1>1. session' \in SessionSteps
  BY ReviewAssumption DEF ReviewTypeOK, SessionSteps, RoundStates, Asleep
<1>2. SessionInOrder'
  BY <1>1 DEF ReviewTypeOK, SessionInOrder, RoundsMove, SessionSteps, Asleep
<1> QED
  BY <1>1, <1>2
  DEF SessionMove, Creates, Uncreated, Blank, Settling, Begins, PostsFirst, Posted,
      ReviewTypeOK, SessionSteps, Asleep


LEMMA SameSession ==
  ASSUME ReviewTypeOK, SessionInOrder, RoundsMove, UNCHANGED session
  PROVE  SessionMove
<1>1. session' = session /\ session' \in SessionSteps
  BY DEF ReviewTypeOK
<1>2. SessionInOrder'
  BY <1>1 DEF SessionInOrder, RoundsMove, ReviewTypeOK, SessionSteps
<1>3. \A b \in Rounds : Creates(b)' => Uncreated(b)
  BY <1>1 DEF Creates, Uncreated, Doing
<1> QED
  BY <1>1, <1>2, <1>3 DEF SessionMove, Settling, Begins, PostsFirst, Posted

LEMMA SessionMoves ==
  ASSUME ReviewTypeOK, SessionInOrder, RoundsMove, ReviewNext
  PROVE  SessionMove
<1>1. CASE UNCHANGED session
  BY <1>1, SameSession
<1>2. CASE ReviewRuns
  <2>1. CASE Starts
    BY <2>1, StartsSession
  <2>2. CASE \/ TidyWrites \/ Generates \/ GeneratesNothing
             \/ \E a \in Rounds : TidyReads(a)
             \/ \E rows \in SUBSET Candidates : ListPending(rows)
    BY <2>2, TidyReadsSession, TidyWritesSession, GeneratesSession, GeneratesNothingSession,
       ListPendingSession
  <2>3. CASE \/ ProjectionFails \/ MarkFails
             \/ \E a \in Rounds : BeginRound(a) \/ ResumeRound(a) \/ GiveUpRound(a)
    BY <2>3, GoesToList, BeginRoundSession, ResumeRoundSession
  <2>4. CASE \/ CanvasMade \/ CanvasRefused \/ CanvasUncertain \/ LinkRefused
             \/ GrantReaders \/ GrantFails \/ MarkRound
    BY <2>4, CanvasMadeSession, CanvasRefusedSession, CanvasUncertainSession,
       LinkRefusedSession, GrantReadersSession, GrantFailsSession, MarkRoundSession
  <2>5. CASE \E r \in Reviewers : SkipReviewer(r) \/ SendMessage(r) \/ SendFails(r)
    BY <2>5, SkipReviewerSession, SendMessageSession, SendFailsSession
  <2>6. CASE \/ RecordSent \/ RecordFails \/ DateSent \/ MarkShown \/ RecordUnsent
             \/ EndReview \/ ReviewDies
    BY <2>6, RecordSentSession, RecordFailsSession, DateSentSession, MarkShownSession,
       RecordUnsentSession, EndReviewSession, ReviewDiesSession
  <2> QED
    BY <1>2, <2>1, <2>2, <2>3, <2>4, <2>5, <2>6 DEF ReviewRuns, Starts
<1>3. NextDay => UNCHANGED session
  BY DEF NextDay
<1>4. ASSUME NEW r \in Reviewers, Handles(r)
      PROVE  UNCHANGED session
  BY <1>4 DEF Handles, decide, approve_all, approve_next, RefreshReads, RefreshWrites,
              HandlerStops
<1> QED
  BY <1>1, <1>2, <1>3, <1>4 DEF ReviewNext

(***************************************************************************)
(* The buttons.                                                            *)
(***************************************************************************)
\* How the handler of one reviewer goes on.
PressMove(r) ==
  /\ press'[r] \in PressSteps
  /\ press'[r].pc # "none" =>
       /\ press'[r].at \in Rounds
       /\ round[press'[r].at].state # "none"
  /\ press'[r].pc = "settle" =>
       \/ press'[r] = press[r]
       \/ press'[r].verdict = RoundVerdict(press'[r].at)

LEMMA SamePress ==
  ASSUME ReviewTypeOK, PressInOrder, NEW r \in Reviewers, press'[r] = press[r]
  PROVE  PressMove(r)
  BY DEF ReviewTypeOK, PressInOrder, PressMove

LEMMA PressOf ==
  ASSUME ReviewTypeOK, PressInOrder, SentRoundsExist, NEW r \in Reviewers, Handles(r)
  PROVE  PressMove(r) /\ press' = [press EXCEPT ![r] = press'[r]]
<1>1. press \in [Reviewers -> PressSteps] /\ press[r] \in PressSteps
  BY DEF ReviewTypeOK
<1>2. Released \in PressSteps /\ Released.pc = "none"
  BY DEF Released, PressSteps
<1>3. ASSUME NEW a \in Rounds \cup {List}, NEW c \in Candidates, NEW state \in Choices,
             decide(r, a, c, state)
      PROVE  PressMove(r) /\ press' = [press EXCEPT ![r] = press'[r]]
  <2>1. CASE a = List
    BY <1>1, <1>3, <2>1, SamePress DEF decide
  <2>2. CASE a # List
    <3>1. press' = [press EXCEPT ![r].pc = "refresh", ![r].at = a]
      BY <1>3, <2>2 DEF decide
    <3>2. press'[r] = [press[r] EXCEPT !.pc = "refresh", !.at = a]
      BY <1>1, <3>1
    <3>3. a \in Rounds /\ delivery[a][r] = "sent"
      BY <1>3, <2>2 DEF decide, MayDecide
    <3>4. round[a].state # "none"
      BY <3>3 DEF SentRoundsExist
    <3>5. press'[r] \in PressSteps /\ press'[r].pc = "refresh" /\ press'[r].at = a
      BY <1>1, <3>2, <3>3 DEF PressSteps
    <3>6. press' = [press EXCEPT ![r] = press'[r]]
      BY <1>1, <3>1
    <3> QED
      BY <3>3, <3>4, <3>5, <3>6 DEF PressMove
  <2> QED
    BY <2>1, <2>2
<1>4. ASSUME NEW a \in Rounds, approve_all(r, a)
      PROVE  PressMove(r) /\ press' = [press EXCEPT ![r] = press'[r]]
  <2> DEFINE new == [Released EXCEPT !.pc = "all", !.at = a,
                                     !.todo = {c \in round[a].rows : IsOpen(c)}]
  <2>1. press' = [press EXCEPT ![r] = new] /\ delivery[a][r] = "sent"
    BY <1>4 DEF approve_all
  <2>2. round[a].rows \in SUBSET Candidates /\ round[a].state # "none"
    BY <2>1 DEF ReviewTypeOK, RoundRows, SentRoundsExist
  <2>3. new \in PressSteps /\ new.pc = "all" /\ new.at = a
    BY <1>2, <2>2 DEF PressSteps
  <2> HIDE DEF new
  <2>4. press'[r] = new
    BY <1>1, <2>1
  <2> QED
    BY <2>1, <2>2, <2>3, <2>4 DEF PressMove
<1>5. ASSUME NEW c \in Candidates, approve_next(r, c)
      PROVE  PressMove(r) /\ press' = [press EXCEPT ![r] = press'[r]]
  <2>1. press' = [press EXCEPT ![r].todo = press[r].todo \ {c}] /\ press[r].pc = "all"
    BY <1>1, <1>5 DEF approve_next
  <2>2. press'[r] = [press[r] EXCEPT !.todo = press[r].todo \ {c}]
    BY <1>1, <2>1
  <2>3. press'[r] \in PressSteps /\ press'[r].pc = "all" /\ press'[r].at = press[r].at
    BY <1>1, <2>1, <2>2 DEF PressSteps
  <2>4. press' = [press EXCEPT ![r] = press'[r]]
    BY <1>1, <2>1
  <2> QED
    BY <2>1, <2>3, <2>4 DEF PressMove, PressInOrder
<1>6. CASE RefreshReads(r)
  <2> DEFINE verdict == RoundVerdict(press[r].at)
  <2>1. press' = [press EXCEPT ![r].pc = "settle", ![r].verdict = verdict]
        /\ press[r].pc \in {"refresh", "all"}
    BY <1>6 DEF RefreshReads
  <2>2. verdict \in {"none"} \cup RoundStates
    BY DEF RoundVerdict, RoundStates
  <2> HIDE DEF verdict
  <2>3. press'[r] = [press[r] EXCEPT !.pc = "settle", !.verdict = verdict]
    BY <1>1, <2>1
  <2>4. /\ press'[r] \in PressSteps /\ press'[r].pc = "settle"
        /\ press'[r].at = press[r].at /\ press'[r].verdict = verdict
    BY <1>1, <2>2, <2>3 DEF PressSteps
  <2>5. press' = [press EXCEPT ![r] = press'[r]]
    BY <1>1, <2>1
  <2>6. press'[r].verdict = RoundVerdict(press'[r].at)
    BY <2>4 DEF verdict
  <2> QED
    BY <2>1, <2>4, <2>5, <2>6 DEF PressMove, PressInOrder
<1>7. CASE RefreshWrites(r) \/ HandlerStops(r)
  BY <1>1, <1>2, <1>7 DEF RefreshWrites, HandlerStops, PressMove
<1> QED
  BY <1>3, <1>4, <1>5, <1>6, <1>7 DEF Handles

LEMMA PressMoves ==
  ASSUME ReviewTypeOK, PressInOrder, SentRoundsExist, ReviewNext
  PROVE  press' \in [Reviewers -> PressSteps] /\ \A r \in Reviewers : PressMove(r)
<1>1. press \in [Reviewers -> PressSteps]
  BY DEF ReviewTypeOK
<1>2. CASE UNCHANGED press
  BY <1>1, <1>2, SamePress
<1>3. ASSUME NEW r \in Reviewers, Handles(r)
      PROVE  press' \in [Reviewers -> PressSteps] /\ \A s \in Reviewers : PressMove(s)
  <2>1. PressMove(r) /\ press' = [press EXCEPT ![r] = press'[r]]
    BY <1>3, PressOf
  <2>2. press'[r] \in PressSteps
    BY <2>1 DEF PressMove
  <2>3. ASSUME NEW s \in Reviewers, s # r
        PROVE  press'[s] = press[s]
    BY <1>1, <2>1, <2>3
  <2>4. \A s \in Reviewers : PressMove(s)
    BY <2>1, <2>3, SamePress
  <2>5. press' \in [Reviewers -> PressSteps]
    BY <1>1, <2>1, <2>2
  <2> QED
    BY <2>4, <2>5
<1> QED
  BY <1>2, <1>3, Frames DEF Framed, ChangesPress

(***************************************************************************)
(* What the moves keep true.                                               *)
(***************************************************************************)
LEMMA DoneIsDecided ==
  ASSUME NEW a \in Rounds, RoundVerdict(a) \in Done
  PROVE  AllDecided(a)
<1> DEFINE rows == round[a].rows
           In(states) == {c \in rows : candidate[c].state \in states}
<1>1. rows # {} /\ (In({"expired"}) = rows \/ In(Final) = rows)
  <2>1. CASE rows # {} /\ In({"expired"}) = rows
    BY <2>1
  <2>2. CASE rows # {} /\ In({"expired"}) # rows /\ In(Final) = rows
    BY <2>2
  <2>3. CASE /\ ~(rows # {} /\ In({"expired"}) = rows)
             /\ ~(rows # {} /\ In({"expired"}) # rows /\ In(Final) = rows)
    <3>1. RoundVerdict(a) \in {"ready", "partial"}
      BY <2>3 DEF RoundVerdict
    <3> QED
      BY <3>1 DEF Done
  <2> QED
    BY <2>1, <2>2, <2>3
<1>2. \A c \in rows : candidate[c].state \in {"expired"} \/ candidate[c].state \in Final
  BY <1>1
<1> QED
  BY <1>2 DEF AllDecided, Final

LEMMA DecidedStays ==
  ASSUME ReviewTypeOK, CandidatesMove, RoundsMove,
         NEW a \in Rounds, round[a].state # "none", AllDecided(a)
  PROVE  AllDecided(a)'
<1>1. round'[a].rows = round[a].rows /\ round[a].rows \subseteq Candidates
  BY DEF RoundsMove, ReviewTypeOK, RoundRows
<1>2. \A c \in Candidates : candidate[c].state \in Final => candidate'[c].state \in Final
  BY DEF CandidatesMove
<1> QED
  BY <1>1, <1>2 DEF AllDecided

LEMMA VerdictsKept ==
  ASSUME ReviewInvariant, CandidatesMove, RoundsMove, SessionMove,
         \A r \in Reviewers : PressMove(r)
  PROVE  PressInOrder' /\ VerdictsHold' /\ DoneMeansDecided'
<1> USE DEF ReviewInvariant
<1>1. PressInOrder'
  <2> SUFFICES ASSUME NEW r \in Reviewers
               PROVE  /\ press'[r].pc # "none" =>
                           press'[r].at \in Rounds /\ round'[press'[r].at].state # "none"
                      /\ press'[r].pc = "settle" => press'[r].verdict \in Verdicts
    BY DEF PressInOrder
  <2>1. PressMove(r)
    OBVIOUS
  <2>2. \A a \in Rounds : RoundVerdict(a) \in Verdicts
    BY DEF RoundVerdict, Verdicts
  <2>3. press'[r].pc # "none" =>
          press'[r].at \in Rounds /\ round'[press'[r].at].state # "none"
    BY <2>1 DEF PressMove, RoundsMove
  <2>4. press'[r].pc = "settle" => press'[r].verdict \in Verdicts
    BY <2>1, <2>2 DEF PressMove, PressInOrder
  <2> QED
    BY <2>3, <2>4
<1>2. ASSUME NEW a \in Rounds, a = session'.at, session'.pc = "settle",
             session'.verdict \in Done
      PROVE  AllDecided(a)'
  <2>1. Doing("settle")'
    BY <1>2 DEF Doing
  <2>2. CASE UNCHANGED session
    <3>1. a = session.at /\ session.pc = "settle" /\ session.verdict \in Done
      BY <1>2, <2>2
    <3>2. AllDecided(a) /\ round[a].state # "none"
      BY <1>2, <3>1, ListIsNoRound DEF VerdictsHold, SessionInOrder, Doing
    <3> QED
      BY <1>2, <3>2, DecidedStays
  <2>3. CASE session'.verdict = RoundVerdict(session'.at) /\ round[session'.at].state # "none"
    <3>1. AllDecided(a)
      BY <1>2, <2>3, DoneIsDecided
    <3> QED
      BY <1>2, <2>3, <3>1, DecidedStays
  <2> QED
    BY <1>2, <2>1, <2>2, <2>3 DEF SessionMove, Settling
<1>3. ASSUME NEW r \in Reviewers, NEW a \in Rounds, a = press'[r].at,
             press'[r].pc = "settle", press'[r].verdict \in Done
      PROVE  AllDecided(a)'
  <2>1. round[a].state # "none"
    BY <1>3 DEF PressMove
  <2>2. AllDecided(a)
    BY <1>3, DoneIsDecided DEF PressMove, VerdictsHold
  <2> QED
    BY <2>1, <2>2, DecidedStays
<1>4. VerdictsHold'
  <2>1. session'.pc = "settle" => session'.at \in Rounds
    BY DEF SessionMove, SessionInOrder
  <2>2. \A r \in Reviewers : press'[r].pc = "settle" => press'[r].at \in Rounds
    BY DEF PressMove
  <2> QED
    BY <1>2, <1>3, <2>1, <2>2 DEF VerdictsHold, AllDecided, Doing
<1>5. ASSUME NEW a \in Rounds, round'[a].state \in Done
      PROVE  AllDecided(a)'
  BY <1>5, DecidedStays DEF RoundsMove
<1>6. DoneMeansDecided'
  BY <1>5 DEF DoneMeansDecided, Done, AllDecided
<1> QED
  BY <1>1, <1>4, <1>6

LEMMA SeenMoves ==
  ASSUME ReviewTypeOK, ReviewNext
  PROVE  /\ seen' \in [Candidates -> 0 .. LastDay]
         /\ listed' \in [Reviewers -> SUBSET Candidates]
         /\ \A c \in Candidates : seen[c] # 0 => seen'[c] # 0
<1>1. CASE UNCHANGED <<listed, seen>>
  BY <1>1 DEF ReviewTypeOK
<1>2. ASSUME NEW r \in Reviewers, Posts(r)
      PROVE  /\ seen' \in [Candidates -> 0 .. LastDay]
             /\ listed' \in [Reviewers -> SUBSET Candidates]
             /\ \A c \in Candidates : seen[c] # 0 => seen'[c] # 0
  <2>1. session.rows \in SUBSET Candidates
    BY DEF ReviewTypeOK, SessionSteps
  <2>2. today \in 0 .. LastDay /\ today # 0
    BY ReviewAssumption DEF ReviewTypeOK, Days
  <2>3. listed' \in [Reviewers -> SUBSET Candidates]
    BY <1>2, <2>1 DEF ReviewTypeOK, Posts
  <2>4. seen' = [c \in Candidates |-> IF c \in session.rows THEN today ELSE seen[c]]
    BY <1>2 DEF Posts
  <2> QED
    BY <2>2, <2>3, <2>4 DEF ReviewTypeOK
<1>3. Posting => UNCHANGED <<listed, seen>> \/ \E r \in Reviewers : Posts(r)
  BY DEF Posting, SendMessage, SendFails, slackVars
<1> QED
  BY <1>1, <1>2, <1>3, Frames DEF Framed

LEMMA ShownKept ==
  ASSUME ReviewInvariant, CandidatesMove, SessionMove, ReviewNext
  PROVE  ShownWasSeen' /\ ExpiredWasSeen'
<1> USE DEF ReviewInvariant
<1>1. \A c \in Candidates : seen[c] # 0 => seen'[c] # 0
  BY SeenMoves
<1>2. session.rows \in SUBSET Candidates
  BY DEF ReviewTypeOK, SessionSteps
<1>3. ASSUME NEW c \in Candidates, candidate'[c].shown # 0
      PROVE  seen'[c] # 0
  BY <1>1, <1>3 DEF CandidatesMove, ShownWasSeen, Doing
<1>4. ASSUME session'.pc \in Posted, NEW c \in session'.rows
      PROVE  seen'[c] # 0
  <2>1. session'.rows = session.rows
    BY <1>4 DEF SessionMove, PostsFirst
  <2>2. c \in Candidates /\ c \in session.rows
    BY <1>2, <1>4, <2>1
  <2>3. CASE session.pc \in Posted
    BY <1>1, <2>2, <2>3 DEF ShownWasSeen, Posted
  <2>4. ASSUME NEW r \in Reviewers, SendMessage(r)
        PROVE  seen'[c] # 0
    <3>1. today # 0
      BY DEF ReviewTypeOK, Days
    <3> QED
      BY <2>2, <2>4, <3>1 DEF SendMessage, Posts
  <2> QED
    BY <1>4, <2>3, <2>4 DEF SessionMove, PostsFirst
<1>5. ShownWasSeen'
  BY <1>3, <1>4 DEF ShownWasSeen, Posted
<1>6. ExpiredWasSeen'
  BY <1>1 DEF CandidatesMove, ShownWasSeen, ExpiredWasSeen
<1> QED
  BY <1>5, <1>6

LEMMA BudgetKept ==
  ASSUME ReviewInvariant, SessionMove, RoundsMove, ReviewNext,
         \A b \in Rounds : Blank(b)' => Blank(b) \/ (MarkRound /\ Creates(b))
  PROVE  /\ canvases' \in [Rounds -> Nat] /\ linkRefusals' \in [Rounds -> Nat]
         /\ CreatingIsBegun' /\ CanvasBudget' /\ CanvasesAreAccountedFor'
<1> USE DEF ReviewInvariant
<1>1. ASSUME NEW b \in Rounds, Uncreated(b)'
      PROVE  Uncreated(b)
  BY <1>1 DEF Uncreated, SessionMove
<1>2. ASSUME NEW a \in Rounds, a = session'.at, session'.pc = "create"
      PROVE  ~Blank(a)'
  <2>1. CASE UNCHANGED session
    <3>1. ~Blank(a) /\ ~MarkRound
      BY <1>2, <2>1 DEF CreatingIsBegun, Doing, MarkRound
    <3> QED
      BY <3>1
  <2>2. CASE BeginRound(a)
    <3>1. round'[a].state = "creating"
      BY <2>2 DEF BeginRound, ReviewTypeOK, RoundRows
    <3> QED
      BY <3>1 DEF Blank
  <2> QED
    BY <1>2, <2>1, <2>2 DEF SessionMove, Begins
<1>3. CreatingIsBegun'
  <2>1. session'.pc = "create" => session'.at \in Rounds
    BY DEF SessionMove, SessionInOrder
  <2> QED
    BY <1>2, <2>1 DEF CreatingIsBegun, Doing, Blank
<1>4. CASE UNCHANGED <<canvases, linkRefusals>>
  BY <1>1, <1>3, <1>4 DEF ReviewTypeOK, CanvasBudget, CanvasesAreAccountedFor
<1>5. CASE Creating
  <2>1. PICK a \in Rounds : a = session.at
    BY <1>5 DEF Creating, CanvasMade, CanvasUncertain, LinkRefused, Doing, SessionInOrder
  <2>2. /\ a \in Rounds /\ Doing("create") /\ ~Blank(a) /\ UNCHANGED round
        /\ canvases \in [Rounds -> Nat] /\ linkRefusals \in [Rounds -> Nat]
    BY <1>5, <2>1 DEF Creating, CanvasMade, CanvasUncertain, LinkRefused, Doing,
                      CreatingIsBegun, ReviewTypeOK
  <2>3. canvases[a] <= linkRefusals[a] /\ canvases[a] \in Nat /\ linkRefusals[a] \in Nat
    BY <2>1, <2>2 DEF CanvasBudget, Uncreated, Creates
  <2>4. /\ canvases' \in [Rounds -> Nat] /\ linkRefusals' \in [Rounds -> Nat]
        /\ \A b \in Rounds :
             b # a => canvases'[b] = canvases[b] /\ linkRefusals'[b] = linkRefusals[b]
        /\ canvases'[a] <= 1 + linkRefusals'[a]
        /\ canvases'[a] <= linkRefusals'[a] \/ ~Creates(a)'
    <3>1. CASE CanvasMade
      <4>1. canvases' = [canvases EXCEPT ![a] = @ + 1] /\ UNCHANGED linkRefusals
        BY <2>1, <3>1 DEF CanvasMade, Made
      <4>2. session'.pc = "grant"
        BY <3>1 DEF CanvasMade, ReviewTypeOK, SessionSteps
      <4> QED
        BY <2>2, <2>3, <4>1, <4>2 DEF Creates, Doing
    <3>2. CASE CanvasUncertain
      <4>1. \/ canvases' = [canvases EXCEPT ![a] = @ + 1]
            \/ UNCHANGED canvases
        BY <2>1, <3>2 DEF CanvasUncertain, Made
      <4>2. session'.pc = "mark" /\ session'.verdict = "ambiguous" /\ UNCHANGED linkRefusals
        BY <3>2 DEF CanvasUncertain, Fails, ReviewTypeOK, SessionSteps
      <4> QED
        BY <2>2, <2>3, <4>1, <4>2 DEF Creates, Doing
    <3>3. CASE LinkRefused
      <4>1. /\ canvases' = [canvases EXCEPT ![a] = @ + 1]
            /\ linkRefusals' = [linkRefusals EXCEPT ![a] = @ + 1]
        BY <2>1, <3>3 DEF LinkRefused, Made
      <4> QED
        BY <2>2, <2>3, <4>1
    <3> QED
      BY <1>5, <3>1, <3>2, <3>3 DEF Creating
  <2>5. ~Blank(a)'
    BY <2>2 DEF Blank
  <2>6. CanvasBudget'
    <3> SUFFICES ASSUME NEW b \in Rounds, Uncreated(b)'
                 PROVE  canvases'[b] <= linkRefusals'[b]
      BY DEF CanvasBudget
    <3>1. CASE b = a
      BY <2>4, <2>5, <3>1 DEF Uncreated, Blank, Creates
    <3>2. CASE b # a
      BY <1>1, <2>4, <3>2 DEF CanvasBudget
    <3> QED
      BY <3>1, <3>2
  <2>7. CanvasesAreAccountedFor'
    BY <2>4 DEF CanvasesAreAccountedFor
  <2> QED
    BY <1>3, <2>4, <2>6, <2>7
<1> QED
  BY <1>4, <1>5, Frames DEF Framed

LEMMA DeliveriesKept ==
  ASSUME ReviewInvariant, RoundsMove, ReviewNext
  PROVE  /\ delivery' \in [Rounds -> [Reviewers -> {"none", "sent", "failed"}]]
         /\ dated' \subseteq Reviewers \X Days
         /\ SentRoundsExist'
<1> USE DEF ReviewInvariant
<1>1. \A a \in Rounds : round[a].state # "none" => round'[a].state # "none"
  BY DEF RoundsMove
<1>2. session.pc \in {"record", "date", "unsent"} =>
        /\ session.to \in Reviewers /\ session.on \in Days /\ session.at \in Rounds \cup {List}
        /\ session.at # List => session.at \in Rounds /\ round[session.at].state # "none"
  BY DEF SessionInOrder, ReviewTypeOK, SessionSteps
<1>3. dated' \subseteq Reviewers \X Days
  <2>1. UNCHANGED dated \/ dated' = dated \cup {<<session.to, session.on>>}
    BY Frames DEF Framed, RecordSent, DateSent
  <2>2. ~UNCHANGED dated => session.pc \in {"record", "date"}
    BY Frames DEF Framed, RecordSent, DateSent, Doing
  <2> QED
    BY <1>2, <2>1, <2>2 DEF ReviewTypeOK
<1>4. CASE UNCHANGED delivery
  BY <1>1, <1>3, <1>4 DEF SentRoundsExist, ReviewTypeOK
<1>5. ASSUME NEW state \in {"sent", "failed"}, session.pc \in {"record", "unsent"},
             session.at # List,
             delivery' = [delivery EXCEPT ![session.at][session.to] = state]
      PROVE  /\ delivery' \in [Rounds -> [Reviewers -> {"none", "sent", "failed"}]]
             /\ SentRoundsExist'
  <2>1. /\ session.at \in Rounds /\ session.to \in Reviewers
        /\ round[session.at].state # "none"
    BY <1>2, <1>5
  <2>2. delivery \in [Rounds -> [Reviewers -> {"none", "sent", "failed"}]]
    BY DEF ReviewTypeOK
  <2>3. delivery' \in [Rounds -> [Reviewers -> {"none", "sent", "failed"}]]
    BY <1>5, <2>1, <2>2
  <2>4. ASSUME NEW a \in Rounds, NEW r \in Reviewers, delivery'[a][r] = "sent"
        PROVE  round[a].state # "none"
    <3>1. CASE a = session.at
      BY <2>1, <3>1
    <3>2. CASE a # session.at
      BY <1>5, <2>1, <2>2, <2>4, <3>2 DEF SentRoundsExist
    <3> QED
      BY <3>1, <3>2
  <2> QED
    BY <1>1, <2>3, <2>4 DEF SentRoundsExist
<1>6. UNCHANGED delivery \/ (/\ session.pc \in {"record", "unsent"} /\ session.at # List
                             /\ \E state \in {"sent", "failed"} :
                                  delivery' = [delivery EXCEPT
                                                 ![session.at][session.to] = state])
  BY Frames DEF Framed, RecordSent, RecordUnsent, Doing
<1> QED
  BY <1>3, <1>4, <1>5, <1>6

(***************************************************************************)
(* The theorems.                                                           *)
(***************************************************************************)
LEMMA ReviewInvariantStarts == ReviewInit => ReviewInvariant
<1> SUFFICES ASSUME ReviewInit
             PROVE  ReviewInvariant
  OBVIOUS
<1> USE DEF ReviewInit
<1>1. ReviewTypeOK
  <2>1. /\ 0 \in 0 .. MaxCandidates /\ 0 \in 0 .. LastDay + 1 /\ 0 \in 0 .. LastDay
        /\ 0 \in 0 .. MaxIncidents /\ 1 \in Days
    BY ReviewAssumption DEF Days
  <2>2. NoCandidate \in CandidateRows
    BY <2>1 DEF NoCandidate, CandidateRows
  <2>3. NotBegun \in RoundRows
    BY DEF NotBegun, RoundRows
  <2>4. Released \in PressSteps
    BY DEF Released, PressSteps
  <2> QED
    BY <2>1, <2>2, <2>3, <2>4, AsleepTyped DEF ReviewTypeOK
<1>2. /\ session.pc = "asleep" /\ session.at = List /\ session.todo = {}
      /\ \A r \in Reviewers : press[r].pc = "none"
  BY DEF Asleep, Released
<1>3. /\ \A c \in Candidates : candidate[c].state = "none" /\ candidate[c].shown = 0
      /\ \A a \in Rounds : round[a].state = "none"
  BY DEF NoCandidate, NotBegun
<1>4. GeneratedInOrder
  <2>1. Generated = 1 .. 0
    BY <1>3 DEF Generated
  <2> QED
    BY <2>1, ReviewAssumption DEF GeneratedInOrder
<1>5. SessionInOrder /\ PressInOrder /\ SentRoundsExist
  BY <1>2 DEF SessionInOrder, PressInOrder, SentRoundsExist
<1>6. VerdictsHold /\ CreatingIsBegun /\ CanvasBudget /\ ShownWasSeen
  BY <1>2, <1>3 DEF VerdictsHold, CreatingIsBegun, CanvasBudget, ShownWasSeen, Doing
<1>7. ExpiredWasSeen /\ DoneMeansDecided /\ CanvasesAreAccountedFor
  BY <1>3 DEF ExpiredWasSeen, DoneMeansDecided, CanvasesAreAccountedFor
<1> QED
  BY <1>1, <1>4, <1>5, <1>6, <1>7 DEF ReviewInvariant

LEMMA ReviewInvariantStep == ReviewInvariant /\ [ReviewNext]_reviewVars => ReviewInvariant'
<1> SUFFICES ASSUME ReviewInvariant, [ReviewNext]_reviewVars
             PROVE  ReviewInvariant'
  OBVIOUS
<1>1. CASE UNCHANGED reviewVars
  BY <1>1 DEF reviewVars, ReviewInvariant, ReviewTypeOK, SessionInOrder, PressInOrder,
              SentRoundsExist, GeneratedInOrder, Generated, VerdictsHold, AllDecided, Doing,
              CreatingIsBegun, CanvasBudget, Uncreated, Blank, Creates, ShownWasSeen,
              ExpiredWasSeen, DoneMeansDecided, CanvasesAreAccountedFor
<1>2. CASE ReviewNext
  <2>1. CandidatesMove
    BY <1>2, CandidateSteps DEF ReviewInvariant
  <2>2. RoundsMove /\ \A b \in Rounds : Blank(b)' => Blank(b) \/ (MarkRound /\ Creates(b))
    BY <1>2, RoundSteps DEF ReviewInvariant
  <2>3. SessionMove
    BY <1>2, <2>2, SessionMoves DEF ReviewInvariant
  <2>4. press' \in [Reviewers -> PressSteps] /\ \A r \in Reviewers : PressMove(r)
    BY <1>2, PressMoves DEF ReviewInvariant
  <2>5. PressInOrder' /\ VerdictsHold' /\ DoneMeansDecided'
    BY <2>1, <2>2, <2>3, <2>4, VerdictsKept
  <2>6. ShownWasSeen' /\ ExpiredWasSeen'
    BY <1>2, <2>1, <2>3, ShownKept
  <2>7. /\ canvases' \in [Rounds -> Nat] /\ linkRefusals' \in [Rounds -> Nat]
        /\ CreatingIsBegun' /\ CanvasBudget' /\ CanvasesAreAccountedFor'
    BY <1>2, <2>2, <2>3, BudgetKept
  <2>8. /\ delivery' \in [Rounds -> [Reviewers -> {"none", "sent", "failed"}]]
        /\ dated' \subseteq Reviewers \X Days
        /\ SentRoundsExist'
    BY <1>2, <2>2, DeliveriesKept
  <2>9. /\ seen' \in [Candidates -> 0 .. LastDay]
        /\ listed' \in [Reviewers -> SUBSET Candidates]
    BY <1>2, SeenMoves DEF ReviewInvariant
  <2>10. today' \in Days
    <3>1. UNCHANGED today \/ (today < LastDay /\ today' = today + 1)
      BY <1>2, Frames DEF Framed, NextDay
    <3> QED
      BY <3>1, ReviewAssumption DEF ReviewInvariant, ReviewTypeOK, Days
  <2>11. incidents' \in 0 .. MaxIncidents
    <3>1. UNCHANGED incidents \/ (incidents < MaxIncidents /\ incidents' = incidents + 1)
      BY <1>2, Frames DEF Framed, Incident
    <3> QED
      BY <3>1, ReviewAssumption DEF ReviewInvariant, ReviewTypeOK
  <2>12. ReviewTypeOK'
    BY <2>1, <2>2, <2>3, <2>4, <2>7, <2>8, <2>9, <2>10, <2>11
    DEF ReviewTypeOK, CandidatesMove, RoundsMove, SessionMove
  <2> QED
    BY <2>1, <2>3, <2>5, <2>6, <2>7, <2>8, <2>12
    DEF ReviewInvariant, CandidatesMove, SessionMove
<1> QED
  BY <1>1, <1>2

\* Everything the runs and the handlers rely on holds in every reachable state.
THEOREM ReviewInvariantHolds == ReviewSpec => []ReviewInvariant
  BY ReviewInvariantStarts, ReviewInvariantStep, PTL DEF ReviewSpec

\* Every variable keeps its type: the rows of the three tables and the steps of the run and of
\* the handlers.
THEOREM ReviewTypes == ReviewSpec => []ReviewTypeOK
<1>1. ReviewInvariant => ReviewTypeOK
  BY DEF ReviewInvariant
<1> QED
  BY <1>1, ReviewInvariantHolds, PTL

\* expire_unconfirmed throws away only what some message that Slack took had shown, however
\* many runs died and however many calls failed before.
THEOREM OnlySeenExpires == ReviewSpec => []ExpiredWasSeen
<1>1. ReviewInvariant => ExpiredWasSeen
  BY DEF ReviewInvariant
<1> QED
  BY <1>1, ReviewInvariantHolds, PTL

\* A round that refresh_artifact_state calls completed or expired has nothing left to decide,
\* whatever was decided between its read and its write.
THEOREM DoneRoundsAreDecided == ReviewSpec => []DoneMeansDecided
<1>1. ReviewInvariant => DoneMeansDecided
  BY DEF ReviewInvariant
<1> QED
  BY <1>1, ReviewInvariantHolds, PTL

\* _canvas_round makes a second Canvas for a round only after a clear refusal of the link of
\* the one before: the way in which OneCanvasPerRound fails is the only one.
THEOREM CanvasesAreBounded == ReviewSpec => []CanvasesAreAccountedFor
<1>1. ReviewInvariant => CanvasesAreAccountedFor
  BY DEF ReviewInvariant
<1> QED
  BY <1>1, ReviewInvariantHolds, PTL

(***************************************************************************)
(* The review beside the ingest of a message (MCReviews).                  *)
(***************************************************************************)
\* A step of the whole is a step of one part and leaves the other alone, so each part behaves
\* as it does by itself and keeps everything it was shown to promise.
THEOREM ReviewsKeepTheirParts == ReviewsSpec => Spec /\ ReviewSpec
<1>1. ReviewsInit => Init /\ ReviewInit
  BY DEF ReviewsInit
<1>2. [ReviewsNext]_reviewsVars => [Next]_vars /\ [ReviewNext]_reviewVars
  BY DEF ReviewsNext, IngestMoves, OutboxMoves, ReviewMoves, reviewsVars
<1> QED
  BY <1>1, <1>2, PTL DEF ReviewsSpec, Spec, ReviewSpec

\* Every variable of the two keeps its type.
THEOREM ReviewsTypes == ReviewsSpec => []ReviewsTypeOK
<1>1. TypeOK /\ ReviewTypeOK => ReviewsTypeOK
  BY DEF ReviewsTypeOK
<1> QED
  BY <1>1, ReviewsKeepTheirParts, TypeCorrect, ReviewTypes, PTL
=============================================================================
