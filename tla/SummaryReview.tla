---------------------------- MODULE SummaryReview ----------------------------
(***************************************************************************)
(* The review of a channel's summary candidates (summary_review).  A run   *)
(* (daily_review: the timer every five minutes, or a person at the         *)
(* console; an instance lock admits one at a time) expires what was shown  *)
(* and left undecided, generates candidates from new originals, makes a    *)
(* Canvas for the day's round and sends every reviewer a direct message    *)
(* with buttons.  If there is no Canvas it sends the candidates as a list. *)
(* Reviewers press buttons in the bot's process meanwhile: they approve,   *)
(* reject or defer a candidate, or approve a whole round.  Every statement *)
(* that commits and every call of Slack is a step of its own; calls fail,  *)
(* answers are lost, and the run and the handlers can die between steps.   *)
(*                                                                         *)
(* StartReview leaves out expire_unscoped, which comes first in run: it    *)
(* expires open candidates without the channel's own evidence channel, and *)
(* only rows of releases before the code recorded one are such.            *)
(*                                                                         *)
(* One channel.  A candidate's number is its place in the order of         *)
(* creation; those of one generation share a digest, the first of their    *)
(* numbers.  A round is a day and the digest of its oldest candidate.      *)
(* ReviewDays are the days of the channel's schedule, daily or weekly.     *)
(***************************************************************************)
EXTENDS Integers, FiniteSets

CONSTANTS
  Reviewers,
  NoReviewer,
  MaxCandidates,  \* bound: candidates ever generated
  Page,           \* MAX_CANDIDATES: how many a run shows
  ReviewDays,     \* days on which the schedule is due
  LastDay,        \* bound: the days
  MaxIncidents    \* bound: failed calls, lost answers, deaths and console runs, together

ASSUME ReviewAssumption ==
  /\ Reviewers # {} /\ NoReviewer \notin Reviewers
  /\ MaxCandidates \in Nat \ {0} /\ Page \in Nat \ {0}
  /\ LastDay \in Nat \ {0} /\ MaxIncidents \in Nat
  /\ ReviewDays \subseteq 1 .. LastDay

Days == 1 .. LastDay
Candidates == 1 .. MaxCandidates
Rounds == Days \X Candidates
List == <<0, 0>>                 \* the message without a Canvas

VARIABLES
  today,
  candidate,      \* summary_review_candidate, with an until of 0 for no defer_until
  round,          \* summary_review_artifact and its candidates
  delivery,       \* summary_review_delivery
  dated,          \* review_digest_sent: reviewer and day
  session,        \* the step of the run, and what it holds
  press,          \* the handler of each reviewer's button
  listed,         \* the candidates of the lists in each reviewer's messages
  incidents,      \* how much went wrong or was asked at the console so far
  canvases,       \* history: Canvases that Slack made, per round
  linkRefusals,   \* history: Canvases made whose link was clearly refused, per round
  seen            \* history: the last day a message with the candidate was posted

reviewVars == <<today, candidate, round, delivery, dated, session, press, listed, incidents,
                canvases, linkRefusals, seen>>

Open == {"pending", "deferred"}
Final == {"approved", "rejected", "expired"}
CandidateRows ==
  [state : {"none"} \cup Open \cup Final, digest : 0 .. MaxCandidates,
   until : 0 .. LastDay + 1, shown : 0 .. LastDay]
NoCandidate == [state |-> "none", digest |-> 0, until |-> 0, shown |-> 0]

RoundStates ==
  {"creating", "ready", "partial", "completed", "expired", "failed", "ambiguous"}
RoundRows ==
  [state : {"none"} \cup RoundStates, canvas : BOOLEAN, rows : SUBSET Candidates]
NotBegun == [state |-> "none", canvas |-> FALSE, rows |-> {}]

SessionSteps ==
  [pc : {"asleep", "tidy", "settle", "generate", "list", "begin", "create", "grant", "regrant",
         "mark", "dm", "record", "date", "shown", "unsent"},
   on : 0 .. LastDay, resend : BOOLEAN, generates : BOOLEAN, sends : BOOLEAN,
   rows : SUBSET Candidates, at : Rounds \cup {List}, todo : SUBSET Rounds,
   verdict : {"none"} \cup RoundStates, made : BOOLEAN,
   left : SUBSET Reviewers, to : Reviewers \cup {NoReviewer}]
Asleep ==
  [pc |-> "asleep", on |-> 0, resend |-> FALSE, generates |-> FALSE, sends |-> FALSE,
   rows |-> {}, at |-> List, todo |-> {}, verdict |-> "none", made |-> FALSE,
   left |-> {}, to |-> NoReviewer]

PressSteps ==
  [pc : {"none", "all", "refresh", "settle"}, at : Rounds \cup {List},
   todo : SUBSET Candidates, verdict : {"none"} \cup RoundStates]
Released == [pc |-> "none", at |-> List, todo |-> {}, verdict |-> "none"]

ReviewTypeOK ==
  /\ today \in Days
  /\ candidate \in [Candidates -> CandidateRows]
  /\ round \in [Rounds -> RoundRows]
  /\ delivery \in [Rounds -> [Reviewers -> {"none", "sent", "failed"}]]
  /\ dated \subseteq Reviewers \X Days
  /\ session \in SessionSteps
  /\ press \in [Reviewers -> PressSteps]
  /\ listed \in [Reviewers -> SUBSET Candidates]
  /\ incidents \in 0 .. MaxIncidents
  /\ canvases \in [Rounds -> Nat] /\ linkRefusals \in [Rounds -> Nat]
  /\ seen \in [Candidates -> 0 .. LastDay]

ReviewInit ==
  /\ today = 1
  /\ candidate = [c \in Candidates |-> NoCandidate]
  /\ round = [a \in Rounds |-> NotBegun]
  /\ delivery = [a \in Rounds |-> [r \in Reviewers |-> "none"]]
  /\ dated = {}
  /\ session = Asleep
  /\ press = [r \in Reviewers |-> Released]
  /\ listed = [r \in Reviewers |-> {}]
  /\ incidents = 0
  /\ canvases = [a \in Rounds |-> 0] /\ linkRefusals = [a \in Rounds |-> 0]
  /\ seen = [c \in Candidates |-> 0]

Incident == incidents < MaxIncidents /\ incidents' = incidents + 1
IsOpen(c) == candidate[c].state \in Open
Doing(pc) == session.pc = pc
slackVars == <<listed, seen, canvases, linkRefusals>>

(***************************************************************************)
(* The state of a round follows from its candidates; refresh_artifact_state*)
(* reads them and then writes, and candidates may change in between.       *)
(***************************************************************************)
\* A slip: what is deferred counts as decided.
VerdictWithoutDeferred(a) ==
  IF \A c \in round[a].rows : candidate[c].state # "pending" THEN "completed" ELSE "partial"

RoundVerdict(a) ==
  LET rows == round[a].rows
      In(states) == {c \in rows : candidate[c].state \in states}
  IN  CASE rows # {} /\ In({"expired"}) = rows -> "expired"
        [] rows # {} /\ In({"expired"}) # rows /\ In(Final) = rows -> "completed"
        [] In(Final) = {} -> "ready"
        [] OTHER -> "partial"

Settled(a, verdict) ==
  IF round[a].state \in {"failed", "ambiguous"} THEN round
  ELSE [round EXCEPT ![a].state = verdict]

(***************************************************************************)
(* The run.                                                                *)
(***************************************************************************)
\* A run lasts 15 minutes at most: it sees one midnight, not two.
NextDay ==
  /\ today < LastDay /\ (Doing("asleep") \/ session.on = today)
  /\ today' = today + 1
  /\ UNCHANGED <<candidate, round, delivery, dated, session, press, incidents, slackVars>>

\* A slip: what was never shown counts as shown before.
UnconfirmedUnseen(c, on) ==
  /\ candidate[c].shown < on
  /\ \/ candidate[c].state = "pending"
     \/ candidate[c].state = "deferred" /\ candidate[c].until < on

\* What expire_unconfirmed takes: shown on an earlier day, and not put off to this one.
Unconfirmed(c, on) ==
  /\ candidate[c].shown # 0 /\ candidate[c].shown < on
  /\ \/ candidate[c].state = "pending"
     \/ candidate[c].state = "deferred" /\ candidate[c].until < on

ExpireUnconfirmed(on) ==
  candidate' = [c \in Candidates |->
                  IF Unconfirmed(c, on)
                  THEN [candidate[c] EXCEPT !.state = "expired", !.until = 0]
                  ELSE candidate[c]]

\* The rounds whose state is computed anew after that.
Touched ==
  {a \in Rounds : /\ round[a].state \in {"creating", "ready", "partial"}
                  /\ \E c \in round[a].rows : candidate'[c].state = "expired"}

\* run: the timer on the days of the schedule; a person on any day, also to send again, to
\* send without generating, or to generate without sending.
StartReview(resend, generates, sends) ==
  /\ Doing("asleep")
  /\ generates \/ sends
  /\ resend => sends
  /\ ExpireUnconfirmed(today)
  /\ LET expired == \E c \in Candidates : Unconfirmed(c, today)
         touched == IF expired THEN Touched ELSE {}
     IN  session' = [Asleep EXCEPT !.pc = IF touched = {} THEN "generate" ELSE "tidy",
                       !.on = today, !.resend = resend, !.generates = generates,
                       !.sends = sends, !.todo = touched]
  /\ UNCHANGED <<today, round, delivery, dated, press, slackVars>>

TimerRuns == today \in ReviewDays /\ StartReview(FALSE, TRUE, TRUE) /\ UNCHANGED incidents
ConsoleRuns ==
  Incident /\ \E resend, generates, sends \in BOOLEAN : StartReview(resend, generates, sends)

\* refresh_artifact_state, for a round of an expired candidate.
TidyReads(a) ==
  /\ Doing("tidy") /\ a \in session.todo
  /\ session' = [session EXCEPT !.pc = "settle", !.at = a, !.verdict = RoundVerdict(a)]
  /\ UNCHANGED <<today, candidate, round, delivery, dated, press, incidents, slackVars>>

TidyWrites ==
  LET rest == session.todo \ {session.at}
  IN  /\ Doing("settle")
      /\ round' = Settled(session.at, session.verdict)
      /\ session' = [session EXCEPT !.pc = IF rest = {} THEN "generate" ELSE "tidy",
                       !.at = List, !.todo = rest, !.verdict = "none"]
      /\ UNCHANGED <<today, candidate, delivery, dated, press, incidents, slackVars>>

\* generate_channel with save_run: the candidates of one generation, in one transaction.
Generated == {c \in Candidates : candidate[c].state # "none"}
Generates ==
  LET first == Cardinality(Generated) + 1
  IN  /\ Doing("generate") /\ session.generates
      /\ \E last \in first .. MaxCandidates :
           candidate' = [c \in Candidates |->
                           IF c \in first .. last
                           THEN [NoCandidate EXCEPT !.state = "pending", !.digest = first]
                           ELSE candidate[c]]
      /\ session' = [session EXCEPT !.pc = "list"]
      /\ UNCHANGED <<today, round, delivery, dated, press, incidents, slackVars>>

\* Nothing new, already generated, put off, or only to be sent.
GeneratesNothing ==
  /\ Doing("generate")
  /\ session' = [session EXCEPT !.pc = "list"]
  /\ UNCHANGED <<today, candidate, round, delivery, dated, press, incidents, slackVars>>

\* pending: the oldest Page of what is open; those of one generation are equally old.
DueOn(c, on) ==
  \/ candidate[c].state = "pending"
  \/ candidate[c].state = "deferred" /\ candidate[c].until <= on
IsPage(rows) ==
  LET due == {c \in Candidates : DueOn(c, session.on)}
  IN  /\ rows \subseteq due
      /\ IF Cardinality(due) <= Page THEN rows = due ELSE Cardinality(rows) = Page
      /\ \A c \in rows, d \in due \ rows : candidate[c].digest <= candidate[d].digest

ListPending(rows) ==
  /\ Doing("list") /\ IsPage(rows)
  /\ session' = IF rows = {} \/ ~session.sends THEN Asleep
                ELSE [Asleep EXCEPT !.pc = "begin", !.on = session.on,
                                    !.resend = session.resend, !.rows = rows]
  /\ UNCHANGED <<today, candidate, round, delivery, dated, press, incidents, slackVars>>

(***************************************************************************)
(* _canvas_round: the row comes first, then the Canvas, then the rights of *)
(* its readers, then the row's new state.                                  *)
(***************************************************************************)
IsRoundOf(a, rows) ==
  /\ a[1] = session.on
  /\ \E c \in rows : candidate[c].digest = a[2]
  /\ \A c \in rows : a[2] <= candidate[c].digest

SendList ==
  [session EXCEPT !.pc = "dm", !.at = List, !.verdict = "none", !.made = FALSE,
                  !.left = Reviewers]
SendRound(a) ==
  [session EXCEPT !.pc = "dm", !.at = a, !.rows = round[a].rows, !.verdict = "none",
                  !.made = FALSE, !.left = Reviewers]

\* The projected summary is ambiguous: no round at all.
ProjectionFails ==
  /\ Doing("begin") /\ Incident
  /\ session' = SendList
  /\ UNCHANGED <<today, candidate, round, delivery, dated, press, slackVars>>

\* begin_artifact makes the row, or finds one that Slack clearly refused.
BeginRound(a) ==
  /\ Doing("begin") /\ IsRoundOf(a, session.rows)
  /\ \/ round[a].state = "none"
     \/ round[a].state = "failed" /\ ~round[a].canvas
  /\ round' = [round EXCEPT ![a].state = "creating",
                            ![a].rows = IF round[a].state = "none" THEN session.rows ELSE @]
  /\ session' = [session EXCEPT !.pc = "create", !.at = a]
  /\ UNCHANGED <<today, candidate, delivery, dated, press, incidents, slackVars>>

\* begin_artifact finds a round with a Canvas.
ResumeRound(a) ==
  /\ Doing("begin") /\ IsRoundOf(a, session.rows) /\ round[a].canvas
  /\ \/ /\ round[a].state \in {"ready", "partial", "completed"}
        /\ session' = SendRound(a)
     \/ /\ round[a].state = "failed"
        /\ session' = [session EXCEPT !.pc = "regrant", !.at = a]
  /\ UNCHANGED <<today, candidate, round, delivery, dated, press, incidents, slackVars>>

\* begin_artifact finds a round nobody can tell the Canvas of.
GiveUpRound(a) ==
  /\ Doing("begin") /\ IsRoundOf(a, session.rows)
  /\ \/ round[a].state \in {"ambiguous", "creating", "expired"}
     \/ round[a].state \in {"ready", "partial", "completed"} /\ ~round[a].canvas
  /\ round' = [round EXCEPT ![a].state = "ambiguous"]
  /\ session' = SendList
  /\ UNCHANGED <<today, candidate, delivery, dated, press, incidents, slackVars>>

\* canvas_answer.create makes the Canvas and asks for its link.
Made(a) == canvases' = [canvases EXCEPT ![a] = @ + 1]
CanvasMade ==
  /\ Doing("create")
  /\ Made(session.at)
  /\ session' = [session EXCEPT !.pc = "grant"]
  /\ UNCHANGED <<today, candidate, round, delivery, dated, press, incidents, listed, seen,
                 linkRefusals>>

\* A slip: every exception counts as a refusal.
FailsClearly(verdict) == session' = [session EXCEPT !.pc = "mark", !.verdict = "failed"]

\* _canvas_failure: failed if the text names a clear refusal, ambiguous otherwise.
Fails(verdict) == session' = [session EXCEPT !.pc = "mark", !.verdict = verdict]
CanvasRefused ==
  /\ Doing("create") /\ Incident
  /\ Fails("failed")
  /\ UNCHANGED <<today, candidate, round, delivery, dated, press, slackVars>>

CanvasUncertain ==
  /\ Doing("create") /\ Incident
  /\ Made(session.at) \/ UNCHANGED canvases
  /\ Fails("ambiguous")
  /\ UNCHANGED <<today, candidate, round, delivery, dated, press, listed, seen, linkRefusals>>

\* The Canvas is made; it is the question for its link that is clearly refused.
LinkRefused ==
  /\ Doing("create") /\ Incident
  /\ Made(session.at)
  /\ linkRefusals' = [linkRefusals EXCEPT ![session.at] = @ + 1]
  /\ Fails("failed")
  /\ UNCHANGED <<today, candidate, round, delivery, dated, press, listed, seen>>

GrantReaders ==
  /\ Doing("grant") \/ Doing("regrant")
  /\ session' = [session EXCEPT !.pc = "mark", !.verdict = "ready", !.made = TRUE]
  /\ UNCHANGED <<today, candidate, round, delivery, dated, press, incidents, slackVars>>

GrantFails ==
  /\ Incident
  /\ \/ /\ Doing("grant")
        /\ session' = [session EXCEPT !.pc = "mark", !.verdict = "failed", !.made = TRUE]
     \/ Doing("regrant") /\ session' = SendList
  /\ UNCHANGED <<today, candidate, round, delivery, dated, press, slackVars>>

\* mark_artifact
MarkRound ==
  LET a == session.at
  IN  /\ Doing("mark")
      /\ round' = [round EXCEPT ![a].state = session.verdict,
                                ![a].canvas = @ \/ session.made]
      /\ session' = IF session.verdict = "ready" THEN SendRound(a) ELSE SendList
      /\ UNCHANGED <<today, candidate, delivery, dated, press, incidents, slackVars>>

MarkFails ==
  /\ Doing("mark") /\ Incident
  /\ session' = SendList
  /\ UNCHANGED <<today, candidate, round, delivery, dated, press, slackVars>>

(***************************************************************************)
(* The messages, one reviewer after the other.                             *)
(***************************************************************************)
Rest == [session EXCEPT !.pc = "dm", !.to = NoReviewer, !.left = @ \ {session.to}]

AlreadySent(r) ==
  /\ ~session.resend
  /\ IF session.at = List THEN <<r, session.on>> \in dated
                          ELSE delivery[session.at][r] = "sent"

SkipReviewer(r) ==
  /\ Doing("dm") /\ r \in session.left /\ AlreadySent(r)
  /\ session' = [session EXCEPT !.left = @ \ {r}]
  /\ UNCHANGED <<today, candidate, round, delivery, dated, press, incidents, slackVars>>

\* chat_postMessage takes the message.
Posts(r) ==
  /\ listed' = IF session.at = List THEN [listed EXCEPT ![r] = @ \cup session.rows] ELSE listed
  /\ seen' = [c \in Candidates |-> IF c \in session.rows THEN today ELSE seen[c]]
  /\ UNCHANGED <<canvases, linkRefusals>>

SendMessage(r) ==
  /\ Doing("dm") /\ r \in session.left /\ ~AlreadySent(r)
  /\ Posts(r)
  /\ session' = [session EXCEPT !.pc = "record", !.to = r]
  /\ UNCHANGED <<today, candidate, round, delivery, dated, press, incidents>>

\* The call raises, with the message posted or not.
SendFails(r) ==
  /\ Doing("dm") /\ r \in session.left /\ ~AlreadySent(r) /\ Incident
  /\ Posts(r) \/ UNCHANGED slackVars
  /\ session' = [session EXCEPT !.pc = "unsent", !.to = r]
  /\ UNCHANGED <<today, candidate, round, delivery, dated, press>>

\* record_delivery for a round, _mark_sent for a list.
RecordSent ==
  /\ Doing("record")
  /\ IF session.at = List
     THEN /\ dated' = dated \cup {<<session.to, session.on>>}
          /\ session' = [session EXCEPT !.pc = "shown"]
          /\ UNCHANGED delivery
     ELSE /\ delivery' = [delivery EXCEPT ![session.at][session.to] = "sent"]
          /\ session' = [session EXCEPT !.pc = "date"]
          /\ UNCHANGED dated
  /\ UNCHANGED <<today, candidate, round, press, incidents, slackVars>>

RecordFails ==
  /\ Doing("record") /\ Incident
  /\ session' = [session EXCEPT !.pc = "unsent"]
  /\ UNCHANGED <<today, candidate, round, delivery, dated, press, slackVars>>

\* _mark_sent after a round's message; its failure is suppressed.
DateSent ==
  /\ Doing("date")
  /\ \/ dated' = dated \cup {<<session.to, session.on>>} /\ UNCHANGED incidents
     \/ Incident /\ UNCHANGED dated
  /\ session' = [session EXCEPT !.pc = "shown"]
  /\ UNCHANGED <<today, candidate, round, delivery, press, slackVars>>

\* mark_delivered: the first day only; its failure is suppressed.
MarkShown ==
  /\ Doing("shown")
  /\ \/ /\ candidate' = [c \in Candidates |->
                           IF c \in session.rows /\ candidate[c].shown = 0
                           THEN [candidate[c] EXCEPT !.shown = today] ELSE candidate[c]]
        /\ UNCHANGED incidents
     \/ Incident /\ UNCHANGED candidate
  /\ session' = Rest
  /\ UNCHANGED <<today, round, delivery, dated, press, slackVars>>

\* After an exception: the delivery of a round becomes failed, if that can be written.
RecordUnsent ==
  /\ Doing("unsent")
  /\ \/ /\ delivery' = IF session.at = List THEN delivery
                       ELSE [delivery EXCEPT ![session.at][session.to] = "failed"]
        /\ UNCHANGED incidents
     \/ session.at # List /\ Incident /\ UNCHANGED delivery
  /\ session' = Rest
  /\ UNCHANGED <<today, candidate, round, dated, press, slackVars>>

EndReview ==
  /\ Doing("dm") /\ session.left = {}
  /\ session' = Asleep
  /\ UNCHANGED <<today, candidate, round, delivery, dated, press, incidents, slackVars>>

\* The process dies, or a statement outside the messages and the Canvas raises.
ReviewDies ==
  /\ ~Doing("asleep") /\ Incident
  /\ session' = Asleep
  /\ UNCHANGED <<today, candidate, round, delivery, dated, press, slackVars>>

(***************************************************************************)
(* The buttons (register_slack_handlers).                                  *)
(***************************************************************************)
\* The WHERE of decide: who was sent this round, or any message about the channel.  The
\* buttons of a round's message are the round's candidates, those of a list are the list's.
MayDecide(r, a, c) ==
  IF a = List THEN c \in listed[r] /\ \E on \in Days : <<r, on>> \in dated
  ELSE delivery[a][r] = "sent" /\ c \in round[a].rows

Decided(c, state) ==
  candidate' = [candidate EXCEPT ![c].state = state,
                                 ![c].until = IF state = "deferred" THEN today + 1 ELSE 0]

\* settle: a press that decides nothing changes nothing.
decide(r, a, c, state) ==
  /\ press[r].pc = "none" /\ IsOpen(c) /\ MayDecide(r, a, c)
  /\ Decided(c, state)
  /\ press' = IF a = List THEN press
              ELSE [press EXCEPT ![r].pc = "refresh", ![r].at = a]
  /\ UNCHANGED <<today, round, delivery, dated, session, incidents, slackVars>>

\* approve_all reads the round's candidates, then decides the open ones in turn.
approve_all(r, a) ==
  /\ press[r].pc = "none" /\ delivery[a][r] = "sent"
  /\ press' = [press EXCEPT ![r] = [Released EXCEPT !.pc = "all", !.at = a,
                                      !.todo = {c \in round[a].rows : IsOpen(c)}]]
  /\ UNCHANGED <<today, candidate, round, delivery, dated, session, incidents, slackVars>>

approve_next(r, c) ==
  /\ press[r].pc = "all" /\ c \in press[r].todo
  /\ IF IsOpen(c) /\ MayDecide(r, press[r].at, c)
     THEN Decided(c, "approved") ELSE UNCHANGED candidate
  /\ press' = [press EXCEPT ![r].todo = @ \ {c}]
  /\ UNCHANGED <<today, round, delivery, dated, session, incidents, slackVars>>

RefreshReads(r) ==
  /\ \/ press[r].pc = "refresh"
     \/ press[r].pc = "all" /\ press[r].todo = {}
  /\ press' = [press EXCEPT ![r].pc = "settle", ![r].verdict = RoundVerdict(press[r].at)]
  /\ UNCHANGED <<today, candidate, round, delivery, dated, session, incidents, slackVars>>

RefreshWrites(r) ==
  /\ press[r].pc = "settle"
  /\ round' = Settled(press[r].at, press[r].verdict)
  /\ press' = [press EXCEPT ![r] = Released]
  /\ UNCHANGED <<today, candidate, delivery, dated, session, incidents, slackVars>>

HandlerStops(r) ==
  /\ press[r].pc # "none" /\ Incident
  /\ press' = [press EXCEPT ![r] = Released]
  /\ UNCHANGED <<today, candidate, round, delivery, dated, session, slackVars>>

Choices == {"approved", "rejected", "deferred"}
ReviewRuns ==
  \/ TimerRuns \/ ConsoleRuns
  \/ \E a \in Rounds : TidyReads(a)
  \/ TidyWrites \/ Generates \/ GeneratesNothing
  \/ \E rows \in SUBSET Candidates : ListPending(rows)
  \/ ProjectionFails
  \/ \E a \in Rounds : BeginRound(a) \/ ResumeRound(a) \/ GiveUpRound(a)
  \/ CanvasMade \/ CanvasRefused \/ CanvasUncertain \/ LinkRefused
  \/ GrantReaders \/ GrantFails \/ MarkRound \/ MarkFails
  \/ \E r \in Reviewers : SkipReviewer(r) \/ SendMessage(r) \/ SendFails(r)
  \/ RecordSent \/ RecordFails \/ DateSent \/ MarkShown \/ RecordUnsent
  \/ EndReview \/ ReviewDies
Handles(r) ==
  \/ \E a \in Rounds \cup {List}, c \in Candidates, state \in Choices : decide(r, a, c, state)
  \/ \E a \in Rounds : approve_all(r, a)
  \/ \E c \in Candidates : approve_next(r, c)
  \/ RefreshReads(r) \/ RefreshWrites(r) \/ HandlerStops(r)

ReviewNext == NextDay \/ ReviewRuns \/ \E r \in Reviewers : Handles(r)
ReviewSpec == ReviewInit /\ [][ReviewNext]_reviewVars

(***************************************************************************)
(* Properties.                                                             *)
(***************************************************************************)
\* What a reviewer never saw is not thrown away as unconfirmed: an expired candidate was in a
\* message that Slack took (expire_unconfirmed, mark_delivered).
ExpiredWasSeen ==
  \A c \in Candidates : candidate[c].state = "expired" => seen[c] # 0

\* A round that counts as done has no candidate left to decide, though handlers write the
\* state they computed after others have decided (refresh_artifact_state).
DoneMeansDecided ==
  \A a \in Rounds : round[a].state \in {"completed", "expired"} =>
                      \A c \in round[a].rows : candidate[c].state \in Final

\* What the comments of _canvas_round and _canvas_failure promise: however often the run is
\* repeated, a round has one Canvas.
OneCanvasPerRound == \A a \in Rounds : canvases[a] <= 1

\* What the docstring of expire_unconfirmed promises: a deferred candidate is shown once more
\* from the promised day on before it expires.
DeferredIsShownAgain ==
  [][\A c \in Candidates :
       candidate[c].state = "deferred" /\ candidate'[c].state = "expired"
         => seen[c] >= candidate[c].until]_reviewVars
=============================================================================
