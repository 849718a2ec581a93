----------------------------- MODULE ScheduleDm -----------------------------
(***************************************************************************)
(* Reminders of meetings by direct message (schedule_dm.py).  Every minute *)
(* a run plans, in one transaction: it makes and revives the rows of       *)
(* schedule_dm_delivery, cancels what nobody may get, expires what is      *)
(* late, and frees the rows of runs that died; then it claims the rows     *)
(* that are due and posts them one after the other.  A person may start    *)
(* another run by hand.  Meanwhile people turn their reminders on and off  *)
(* in Slack, and the synchronised calendar moves and deletes meetings.     *)
(*                                                                         *)
(* A key of the queue is one meeting and one person: the reminder comes    *)
(* one lead time before the start.  A tick is that lead time, ten minutes, *)
(* which is also the grace a late reminder has.  The two spans below a     *)
(* tick are flags: a row waits until its backoff is over, and a lock gets  *)
(* old after five minutes.  Which workspace a message goes to is left out: *)
(* a missing client is one of the errors no retry helps against.           *)
(***************************************************************************)
EXTENDS Naturals, FiniteSets

CONSTANTS
  Keys,           \* reminders: one meeting, one person
  People,
  PersonOf,       \* the person of a reminder
  NoKey,
  Senders,        \* processes that plan and send
  Timer,          \* the one systemd starts; the others are started by hand
  DmAttempts,     \* MAX_ATTEMPTS
  Horizon,        \* PLAN_HORIZON in ticks
  LastTick,       \* bound: the clock stops here
  MaxTurns        \* bound: what people, the calendar and faults do, together

ASSUME ScheduleAssumption ==
  /\ PersonOf \in [Keys -> People] /\ NoKey \notin Keys /\ Timer \in Senders /\ IsFiniteSet(Senders)
  /\ DmAttempts \in Nat \ {0} /\ Horizon \in Nat \ {0}
  /\ LastTick \in Nat /\ MaxTurns \in Nat

Lead == 1
Grace == 1

VARIABLES
  clock,
  meeting,      \* schedule_occurrence with the folder's rights
  prefs,        \* schedule_dm_preference: no row, on or off
  closing,      \* people whose rows disable has yet to cancel
  cancelling,   \* those of them whose UPDATE has begun
  matched,      \* the rows it found, which it cancels once nobody else has them locked
  dm,           \* schedule_dm_delivery
  sender,       \* each run's step
  turns,        \* how much people, the calendar and faults did
  wishes,       \* history: what a person asked for last
  escaped,      \* history: reminders under way when their person turned them off
  posts,        \* history: messages Slack took
  errors,       \* history: posts that raised
  lapses,       \* history: locks that grew old
  lostAnswers   \* history: messages Slack took while the post raised

dmVars == <<clock, meeting, prefs, closing, cancelling, matched, dm, sender, turns, wishes,
            escaped, posts, errors, lapses, lostAnswers>>

Ticks == 0 .. LastTick + Horizon
\* "unlisted" meetings became all-day ones, or their folder is closed to the person: the plan
\* cancels them, the last look before a post does not see it.
Meetings == [starts : Ticks, state : {"set", "deleted", "unlisted"}]
Queued == {"pending", "retry"}
DmRows == [state : Queued \cup {"absent", "sending", "sent", "cancelled", "expired", "failed"},
           due : Ticks, attempts : Nat, waits : BOOLEAN, old : BOOLEAN]
NoReminder == [state |-> "absent", due |-> 0, attempts |-> 0, waits |-> FALSE, old |-> FALSE]
SenderSteps ==
  [pc : {"idle", "planned", "ready", "sending", "loaded", "posted", "denied", "barred"},
   held : SUBSET Keys, plan : [Keys -> DmRows], todo : SUBSET Keys, tries : [Keys -> Nat],
   key : Keys \cup {NoKey}]
AtRest ==
  [pc |-> "idle", held |-> {}, plan |-> [k \in Keys |-> NoReminder], todo |-> {},
   tries |-> [k \in Keys |-> 0], key |-> NoKey]

DmTypeOK ==
  /\ clock \in 0 .. LastTick
  /\ meeting \in [Keys -> Meetings]
  /\ prefs \in [People -> {"none", "on", "off"}] /\ wishes \in [People -> {"on", "off"}]
  /\ closing \subseteq People /\ cancelling \subseteq closing
  /\ matched \subseteq Keys /\ escaped \subseteq Keys
  /\ dm \in [Keys -> DmRows]
  /\ sender \in [Senders -> SenderSteps]
  /\ turns \in 0 .. MaxTurns
  /\ posts \in [Keys -> Nat] /\ errors \in [Keys -> Nat]
  /\ lapses \in [Keys -> Nat] /\ lostAnswers \in [Keys -> Nat]

\* What earlier runs left: nothing, a reminder that was cancelled when its person moved to
\* another workspace, or one that a run had claimed and not sent when it died.
LeftBefore ==
  {NoReminder, [NoReminder EXCEPT !.state = "cancelled"],
   [NoReminder EXCEPT !.state = "sending", !.old = TRUE]}
DmInit ==
  /\ clock = 0
  /\ meeting \in [Keys -> [starts : {Lead}, state : {"set"}]]
  /\ prefs \in [People -> {"none", "on"}] /\ wishes = [p \in People |-> "on"]
  /\ closing = {} /\ cancelling = {} /\ matched = {} /\ escaped = {}
  /\ dm \in [Keys -> LeftBefore]
  /\ sender = [r \in Senders |-> AtRest]
  /\ turns = 0
  /\ posts = [k \in Keys |-> 0] /\ errors = [k \in Keys |-> 0]
  /\ lapses = [k \in Keys |-> IF dm[k].old THEN 1 ELSE 0] /\ lostAnswers = [k \in Keys |-> 0]

(***************************************************************************)
(* What a plan does to a row, statement by statement.                      *)
(***************************************************************************)
\* RECIPIENT_CTE: who has no row gets reminders, who has one gets what it says.
Receives(p) == prefs[p] # "off"
Eligible(k) == meeting[k].state = "set" /\ Receives(PersonOf[k])

\* A slip: a lock is taken for that of a living run.
StaysLocked(row) == row
\* RELEASE_STALE_SQL
Released(row) ==
  IF row.state = "sending" /\ row.old THEN [row EXCEPT !.state = "retry", !.old = FALSE] ELSE row

\* What PLAN_SQL selects.
Wanted(k) ==
  /\ Eligible(k)
  /\ meeting[k].starts > clock /\ meeting[k].starts <= clock + Horizon
  /\ meeting[k].starts - Lead + Grace > clock
Planned(k, row) ==
  [row EXCEPT !.state = "pending", !.due = meeting[k].starts - Lead, !.waits = FALSE,
              !.old = FALSE]
\* A slip: what was sent is planned again as well.
ForgetsSent(k, row) ==
  IF Wanted(k) /\ row.state \in Queued \cup {"absent", "expired", "cancelled", "sent"}
  THEN Planned(k, row) ELSE row
\* What is not there is inserted.  ON CONFLICT: sent, failed and sending rows stay.
Upserted(k, row) ==
  IF Wanted(k) /\ row.state \in Queued \cup {"absent", "expired", "cancelled"}
  THEN Planned(k, row) ELSE row
\* CANCEL_GONE_SQL and CANCEL_INELIGIBLE_SQL
Cancelled(k, row) ==
  IF row.state \in Queued /\ ~Eligible(k) THEN [row EXCEPT !.state = "cancelled"] ELSE row
\* EXPIRE_SQL
Expired(row) ==
  IF row.state \in Queued /\ row.due + Grace < clock THEN [row EXCEPT !.state = "expired"]
                                                     ELSE row
PlanRow(k) == Expired(Cancelled(k, Upserted(k, Released(dm[k]))))

(***************************************************************************)
(* A run.                                                                  *)
(***************************************************************************)
IsAt(r, pc) == sender[r].pc = pc
Turn(r, s) == sender' = [sender EXCEPT ![r] = s]
RowBecomes(k, row) == dm' = [dm EXCEPT ![k] = row]
\* A plan in flight has a lock on the row, or is about to insert it.
IsLocked(k) == \E r \in Senders : k \in sender[r].held

\* The transaction up to its commit: what it makes of the rows nobody else sees before; they
\* see, and their UPDATEs search, what is committed.  It has locked the rows it changes, and
\* by ON CONFLICT every row it would insert, the ones it leaves as they are included: who
\* wants to change one of them waits.  A plan that meets another one's rows waits likewise, in
\* the unique index where both would insert.
plan_dm(r) ==
  LET held == {k \in Keys : Wanted(k) \/ PlanRow(k) # dm[k]}
  IN /\ IsAt(r, "idle") /\ \A k \in held : ~IsLocked(k)
     /\ Turn(r, [AtRest EXCEPT !.pc = "planned", !.held = held,
                    !.plan = [k \in Keys |-> IF PlanRow(k) = dm[k] THEN NoReminder
                                             ELSE PlanRow(k)]])
     /\ UNCHANGED <<clock, meeting, prefs, closing, cancelling, matched, dm, turns, wishes,
                    escaped, posts, errors, lapses, lostAnswers>>

Writes(r) == {k \in Keys : sender[r].plan[k].state # "absent"}
commit(r) ==
  /\ IsAt(r, "planned")
  /\ dm' = [k \in Keys |-> IF k \in Writes(r) THEN sender[r].plan[k] ELSE dm[k]]
  /\ Turn(r, [AtRest EXCEPT !.pc = "ready"])
  /\ UNCHANGED <<clock, meeting, prefs, closing, cancelling, matched, turns, wishes, escaped,
                 posts, errors, lapses, lostAnswers>>

\* --send-only: without a plan.
SendOnly(r) ==
  /\ IsAt(r, "idle") /\ r # Timer /\ turns < MaxTurns /\ turns' = turns + 1
  /\ Turn(r, [AtRest EXCEPT !.pc = "ready"])
  /\ UNCHANGED <<clock, meeting, prefs, closing, cancelling, matched, dm, wishes, escaped, posts,
                 errors, lapses, lostAnswers>>

\* CLAIM_SQL: what is due, not late, and not waiting for its next attempt; SKIP LOCKED leaves
\* what a plan has locked.  The limit of 50 rows is not reached.
Sendable(k) ==
  /\ ~IsLocked(k)
  /\ dm[k].state \in Queued /\ ~dm[k].waits
  /\ dm[k].due <= clock /\ dm[k].due + Grace >= clock
claim_due(r) ==
  LET due == {k \in Keys : Sendable(k)}
  IN /\ IsAt(r, "ready")
     /\ dm' = [k \in Keys |-> IF k \in due THEN [dm[k] EXCEPT !.state = "sending", !.old = FALSE]
                              ELSE dm[k]]
     /\ Turn(r, IF due = {} THEN AtRest
                ELSE [AtRest EXCEPT !.pc = "sending", !.todo = due,
                        !.tries = [k \in Keys |-> IF k \in due THEN dm[k].attempts ELSE 0]])
     /\ UNCHANGED <<clock, meeting, prefs, closing, cancelling, matched, turns, wishes, escaped,
                    posts, errors, lapses, lostAnswers>>

\* What the run does after this row: the next one, or it is over.
NextRow(r, k) ==
  IF sender[r].todo = {k} THEN AtRest
  ELSE [sender[r] EXCEPT !.pc = "sending", !.todo = @ \ {k}, !.tries[k] = 0, !.key = NoKey]

\* load_occurrence sees a meeting that is on the calendar.
load_occurrence(r) ==
  /\ IsAt(r, "sending")
  /\ \E k \in sender[r].todo :
       /\ meeting[k].state # "deleted"
       /\ Turn(r, [sender[r] EXCEPT !.pc = "loaded", !.key = k])
  /\ UNCHANGED <<clock, meeting, prefs, closing, cancelling, matched, dm, turns, wishes, escaped,
                 posts, errors, lapses, lostAnswers>>

\* The three ways a row is closed: by its id alone, whoever has it now.
_mark_failed(k, state) ==
  RowBecomes(k, [dm[k] EXCEPT !.state = state, !.attempts = @ + 1, !.old = FALSE])
_mark_retry(k) ==
  RowBecomes(k, [dm[k] EXCEPT !.state = "retry", !.attempts = @ + 1, !.waits = TRUE,
                              !.old = FALSE])
_mark_sent(k) == RowBecomes(k, [dm[k] EXCEPT !.state = "sent", !.old = FALSE])

OccurrenceGone(r) ==
  /\ IsAt(r, "sending")
  /\ \E k \in sender[r].todo :
       /\ meeting[k].state = "deleted" /\ ~IsLocked(k)
       /\ _mark_failed(k, "cancelled")
       /\ Turn(r, NextRow(r, k))
  /\ UNCHANGED <<clock, meeting, prefs, closing, cancelling, matched, turns, wishes, escaped,
                 posts, errors, lapses, lostAnswers>>

\* chat_postMessage: the message is taken, or an error comes back, one that may pass or one of
\* PERMANENT_ERRORS.
Posted(r) ==
  /\ IsAt(r, "loaded")
  /\ posts' = [posts EXCEPT ![sender[r].key] = @ + 1]
  /\ Turn(r, [sender[r] EXCEPT !.pc = "posted"])
  /\ UNCHANGED <<clock, meeting, prefs, closing, cancelling, matched, dm, turns, wishes, escaped,
                 errors, lapses, lostAnswers>>
Denied(r) ==
  /\ IsAt(r, "loaded")
  /\ errors' = [errors EXCEPT ![sender[r].key] = @ + 1]
  /\ \E pc \in {"denied", "barred"} : Turn(r, [sender[r] EXCEPT !.pc = pc])
  /\ UNCHANGED <<clock, meeting, prefs, closing, cancelling, matched, dm, turns, wishes, escaped,
                 posts, lapses, lostAnswers>>
\* Slack took the message and its answer does not arrive.
AnswerIsLost(r) ==
  /\ IsAt(r, "loaded") /\ turns < MaxTurns /\ turns' = turns + 1
  /\ posts' = [posts EXCEPT ![sender[r].key] = @ + 1]
  /\ errors' = [errors EXCEPT ![sender[r].key] = @ + 1]
  /\ lostAnswers' = [lostAnswers EXCEPT ![sender[r].key] = @ + 1]
  /\ Turn(r, [sender[r] EXCEPT !.pc = "denied"])
  /\ UNCHANGED <<clock, meeting, prefs, closing, cancelling, matched, dm, wishes, escaped,
                 lapses>>

\* A slip: the attempt that just failed is not counted.
OneTryMore(tries) == tries >= DmAttempts
OutOfTries(tries) == tries + 1 >= DmAttempts
MarkRow(r) ==
  LET k == sender[r].key
  IN /\ ~IsLocked(k)
     /\ \/ IsAt(r, "posted") /\ _mark_sent(k)
        \/ IsAt(r, "denied") /\ ~OutOfTries(sender[r].tries[k]) /\ _mark_retry(k)
        \/ IsAt(r, "denied") /\ OutOfTries(sender[r].tries[k]) /\ _mark_failed(k, "failed")
        \/ IsAt(r, "barred") /\ _mark_failed(k, "failed")
     /\ Turn(r, NextRow(r, k))
     /\ UNCHANGED <<clock, meeting, prefs, closing, cancelling, matched, turns, wishes, escaped,
                    posts, errors, lapses, lostAnswers>>

\* Killed, by TimeoutStartSec or otherwise; what was not committed is rolled back.  A run with
\* --plan-only ends like this after its commit.
SenderDies(r) ==
  /\ ~IsAt(r, "idle") /\ turns < MaxTurns /\ turns' = turns + 1
  /\ Turn(r, AtRest)
  /\ UNCHANGED <<clock, meeting, prefs, closing, cancelling, matched, dm, wishes, escaped, posts,
                 errors, lapses, lostAnswers>>

(***************************************************************************)
(* Time, people and the calendar.                                          *)
(***************************************************************************)
Tick ==
  /\ clock < LastTick /\ clock' = clock + 1
  /\ UNCHANGED <<meeting, prefs, closing, cancelling, matched, dm, sender, turns, wishes,
                 escaped, posts, errors, lapses, lostAnswers>>

BackoffIsOver(k) ==
  /\ dm[k].waits /\ RowBecomes(k, [dm[k] EXCEPT !.waits = FALSE])
  /\ UNCHANGED <<clock, meeting, prefs, closing, cancelling, matched, sender, turns, wishes,
                 escaped, posts, errors, lapses, lostAnswers>>

LockGrowsOld(k) ==
  /\ dm[k].state = "sending" /\ ~dm[k].old
  /\ RowBecomes(k, [dm[k] EXCEPT !.old = TRUE])
  /\ lapses' = [lapses EXCEPT ![k] = @ + 1]
  /\ UNCHANGED <<clock, meeting, prefs, closing, cancelling, matched, sender, wishes, escaped,
                 posts, errors, lostAnswers>>
Holders(k) == {r \in Senders : k \in sender[r].todo}
LockOutlivesRun(k) == Holders(k) = {} /\ turns' = turns /\ LockGrowsOld(k)
\* TimeoutStartSec kills the timer's run long before; nothing kills one started by hand.
RunOutlivesLock(k) ==
  /\ Holders(k) # {} /\ Timer \notin Holders(k) /\ turns < MaxTurns /\ turns' = turns + 1
  /\ LockGrowsOld(k)

CancelRows(keys) ==
  dm' = [k \in Keys |-> IF k \in keys /\ dm[k].state \in Queued
                        THEN [dm[k] EXCEPT !.state = "cancelled"] ELSE dm[k]]
RowsOf(p) == {k \in Keys : PersonOf[k] = p}

\* Turned on in another workspace than before, what is queued for the old one is cancelled:
\* which rows that are depends on where each was queued for.
enable(p) ==
  /\ turns < MaxTurns /\ turns' = turns + 1
  /\ prefs' = [prefs EXCEPT ![p] = "on"] /\ wishes' = [wishes EXCEPT ![p] = "on"]
  /\ \E keys \in SUBSET {k \in RowsOf(p) : ~IsLocked(k)} : CancelRows(keys)
  /\ escaped' = escaped \ RowsOf(p)
  /\ UNCHANGED <<clock, meeting, closing, cancelling, matched, sender, posts, errors, lapses,
                 lostAnswers>>

\* PREF_DISABLE_SQL updates the row of the person; who never had one still has none.
disable(p) ==
  /\ prefs[p] # "off" /\ p \notin closing /\ turns < MaxTurns /\ turns' = turns + 1
  /\ prefs' = IF prefs[p] = "none" THEN prefs ELSE [prefs EXCEPT ![p] = "off"]
  /\ wishes' = [wishes EXCEPT ![p] = "off"] /\ closing' = closing \cup {p}
  /\ UNCHANGED <<clock, meeting, cancelling, matched, dm, sender, escaped, posts, errors,
                 lapses, lostAnswers>>

\* CANCEL_ALL_PENDING_SQL, a statement of its own: the connection commits after each.  It
\* finds the rows that are queued as far as was committed when it begins.  What is with a run
\* by then, or is queued by a plan in flight alone, it does not find and does not wait for.
StartCancel(p) ==
  /\ p \in closing \ cancelling /\ cancelling' = cancelling \cup {p}
  /\ matched' = matched \cup {k \in RowsOf(p) : dm[k].state \in Queued}
  /\ escaped' = escaped \cup
       {k \in RowsOf(p) : /\ dm[k].state \notin Queued
                          /\ \/ Holders(k) # {}
                             \/ \E r \in Senders : sender[r].plan[k].state \in Queued}
  /\ UNCHANGED <<clock, meeting, prefs, closing, dm, sender, turns, wishes, posts, errors, lapses,
                 lostAnswers>>

\* A slip: what waits for another attempt is left.
CancelsPending(keys) ==
  dm' = [k \in Keys |-> IF k \in keys /\ dm[k].state = "pending"
                        THEN [dm[k] EXCEPT !.state = "cancelled"] ELSE dm[k]]
CancelFound(keys) == CancelRows(keys)
\* For the rows it found it waits, and looks at each again: a run may have claimed it since.
cancel_pending(p) ==
  /\ p \in cancelling /\ \A k \in RowsOf(p) \cap matched : ~IsLocked(k)
  /\ CancelFound(RowsOf(p) \cap matched)
  /\ closing' = closing \ {p} /\ cancelling' = cancelling \ {p} /\ matched' = matched \ RowsOf(p)
  /\ escaped' = escaped \cup {k \in RowsOf(p) : Holders(k) # {}}
  /\ UNCHANGED <<clock, meeting, prefs, sender, turns, wishes, posts, errors, lapses,
                 lostAnswers>>

\* schedulesync, and the folder's rights.
MeetingChanges(k) ==
  /\ turns < MaxTurns /\ turns' = turns + 1
  /\ \E m \in Meetings : /\ m # meeting[k] /\ m.starts \in (clock + 1) .. LastTick
                         /\ meeting' = [meeting EXCEPT ![k] = m]
  /\ UNCHANGED <<clock, prefs, closing, cancelling, matched, dm, sender, wishes, escaped, posts,
                 errors, lapses, lostAnswers>>

Sending(r) ==
  \/ commit(r) \/ claim_due(r) \/ load_occurrence(r) \/ OccurrenceGone(r) \/ Posted(r)
  \/ Denied(r) \/ MarkRow(r)
Disturbs(r) == SendOnly(r) \/ AnswerIsLost(r) \/ SenderDies(r)
Asks(p) == enable(p) \/ disable(p) \/ StartCancel(p) \/ cancel_pending(p)
DmNext ==
  \/ \E r \in Senders : plan_dm(r) \/ Sending(r) \/ Disturbs(r)
  \/ \E p \in People : Asks(p)
  \/ \E k \in Keys : \/ BackoffIsOver(k) \/ LockOutlivesRun(k) \/ RunOutlivesLock(k)
                     \/ MeetingChanges(k)
  \/ Tick

\* A run goes on until it ends, and when it waits for a row it gets it in its turn, however many
\* plans lock the row one after the other; the timer starts the next run; a lock gets old when
\* its run is dead, whatever else happens.
DmFairness ==
  /\ WF_dmVars(plan_dm(Timer))
  /\ \A r \in Senders : SF_dmVars(Sending(r))
  /\ \A k \in Keys : WF_dmVars(LockOutlivesRun(k))
DmSpec == DmInit /\ [][DmNext]_dmVars /\ DmFairness

(***************************************************************************)
(* What it promises.                                                       *)
(***************************************************************************)
\* A person is reminded of a meeting once, whatever is moved, cancelled, revived or retried:
\* more often only by as many locks as grew old and answers as were lost.
RemindedOnce == \A k \in Keys : posts[k] <= 1 + lapses[k] + lostAnswers[k]

\* Slack refuses a reminder MAX_ATTEMPTS times at most, unless two runs had it at once.
TriesAreBounded == \A k \in Keys : lapses[k] = 0 => errors[k] <= DmAttempts

\* Whose preference says off gets no message after the cancellation, except a reminder that
\* escaped it: a run had claimed it, or a plan that had read the preference before had it
\* inserted, revived or released without having committed that.  What the cancellation found
\* queued, retries included, is sent only if a run claimed it before its turn came; and no
\* later plan queues anything again.
OptOutIsHeeded ==
  [][\A k \in Keys : LET p == PersonOf[k]
                     IN posts'[k] > posts[k] =>
                          prefs[p] # "off" \/ p \in closing \/ k \in escaped]_dmVars

\* No row stays with a run that died.
ClaimsEnd == \A k \in Keys : []<>(dm[k].state # "sending")

\* Who turned the reminders off gets none (RECIPIENT_CTE: what a person turned off by hand is
\* not revived by the default).
OptOutIsKept ==
  [][\A k \in Keys : LET p == PersonOf[k]
                     IN posts'[k] > posts[k] =>
                          wishes[p] = "on" \/ p \in closing \/ k \in escaped]_dmVars
=============================================================================
