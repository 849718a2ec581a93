--------------------------- MODULE ScheduleDmProofs ---------------------------
(***************************************************************************)
(* What ScheduleDm promises, for every number of reminders, people, runs   *)
(* and disturbances.                                                       *)
(***************************************************************************)
EXTENDS ScheduleDm, FiniteSetTheorems, TLAPS

\* A row a run can claim now or after the next plan.
IsLoose(row) ==
  \/ row.state \in {"absent", "pending", "retry", "cancelled", "expired"}
  \/ row.state = "sending" /\ row.old

\* Runs that may still post a reminder they hold.
Unposted(k) == {r \in Senders : /\ k \in sender[r].todo
                                /\ ~(sender[r].pc = "posted" /\ sender[r].key = k)}

\* The key a run works on is one it holds; before the claim it holds none.
RunsAreInOrder ==
  \A r \in Senders :
    /\ IF sender[r].pc \in {"loaded", "posted", "denied", "barred"}
       THEN sender[r].key \in sender[r].todo
       ELSE sender[r].key = NoKey
    /\ sender[r].pc \in {"idle", "planned", "ready"} => sender[r].todo = {}
    /\ sender[r].pc # "planned" => sender[r].held = {} /\ Writes(r) = {}

\* What a plan that has locked a row makes of it still follows from the row when it commits.
PlanFits(a, b) ==
  /\ IsLoose(a)
  /\ b \in DmRows /\ b.state \in Queued \cup {"cancelled", "expired"}
  /\ b.attempts = a.attempts
  /\ b.old => a.old
PlansAreSound ==
  /\ \A r \in Senders : \A k \in Writes(r) :
       k \in sender[r].held /\ PlanFits(dm[k], sender[r].plan[k])
  /\ \A r \in Senders, q \in Senders : r # q => sender[r].held \cap sender[q].held = {}

\* Messages sent, runs that may still send one, and a row that may be claimed again are
\* paid for: one for free, one for each lock that grew old and each answer that was lost.
Budget(k) ==
  posts[k] + Cardinality(Unposted(k)) + (IF IsLoose(dm[k]) THEN 1 ELSE 0)
    <= 1 + lapses[k] + lostAnswers[k]
PostsArePaid == \A k \in Keys : Budget(k)

\* As long as no lock of it grew old, a row has one run at most, which knows its attempts, and
\* each error but the last was counted.
IsFailing(r, k) == sender[r].key = k /\ sender[r].pc \in {"denied", "barred"}
Tried(k) ==
  lapses[k] = 0 =>
    /\ ~dm[k].old
    /\ errors[k] <= DmAttempts
    /\ \A r \in Holders(k) : /\ dm[k].state = "sending" /\ sender[r].tries[k] = dm[k].attempts
                             /\ Holders(k) = {r}
                             /\ IF IsFailing(r, k) THEN errors[k] <= dm[k].attempts + 1
                                ELSE errors[k] <= dm[k].attempts /\ errors[k] < DmAttempts
    /\ IsLoose(dm[k]) => errors[k] <= dm[k].attempts /\ errors[k] < DmAttempts
TriesAreCounted == \A k \in Keys : Tried(k)

\* A cancellation is through with the row: it is over, or has begun and did not find it.
Settled(k) ==
  PersonOf[k] \notin closing \/ (PersonOf[k] \in cancelling /\ k \notin matched)
\* A person whose preference says off has nothing queued, held or about to be committed, but
\* for what has escaped.
OffAndEmpty(k) ==
  prefs[PersonOf[k]] = "off" /\ Settled(k) /\ k \notin escaped =>
    /\ dm[k].state \notin Queued
    /\ Holders(k) = {}
    /\ \A r \in Senders : sender[r].plan[k].state \notin Queued
OffIsEmpty == \A k \in Keys : OffAndEmpty(k)

(***************************************************************************)
(* The statements of a plan, on one row.                                   *)
(***************************************************************************)
Mild(a, b) ==
  /\ b \in DmRows
  /\ b # a => IsLoose(a) /\ b.state \in Queued \cup {"cancelled", "expired"}
  /\ b.attempts = a.attempts
  /\ b.old => a.old

LEMMA MildTrans ==
  ASSUME NEW a, NEW b, NEW c, Mild(a, b), Mild(b, c)
  PROVE  Mild(a, c)
  BY DEF Mild

LEMMA MildRefl ==
  ASSUME NEW a \in DmRows
  PROVE  Mild(a, a)
  BY DEF Mild

LEMMA WithState ==
  ASSUME NEW a \in DmRows, NEW s \in Queued \cup {"sending", "sent", "cancelled", "expired", "failed"}
  PROVE  LET b == [a EXCEPT !.state = s]
         IN b \in DmRows /\ b.state = s /\ b.due = a.due /\ b.attempts = a.attempts
            /\ b.waits = a.waits /\ b.old = a.old
  BY DEF DmRows, Queued

LEMMA ReleasedMild ==
  ASSUME NEW a \in DmRows
  PROVE  Mild(a, Released(a))
<1>1. CASE a.state = "sending" /\ a.old
  <2> DEFINE b == [a EXCEPT !.state = "retry", !.old = FALSE]
  <2>1. b \in DmRows /\ b.state = "retry" /\ b.attempts = a.attempts /\ ~b.old
    BY DEF DmRows, Queued
  <2>2. Released(a) = b
    BY <1>1 DEF Released
  <2> HIDE DEF b
  <2> QED
    BY <1>1, <2>1, <2>2 DEF Mild, IsLoose, Queued
<1>2. CASE ~(a.state = "sending" /\ a.old)
  BY <1>2, MildRefl DEF Released
<1> QED
  BY <1>1, <1>2

LEMMA DueTyped ==
  ASSUME DmTypeOK, NEW k \in Keys, Wanted(k)
  PROVE  meeting[k].starts - Lead \in Ticks
<1>1. meeting[k].starts \in Ticks /\ clock \in Nat
  BY ScheduleAssumption DEF DmTypeOK, Meetings
<1>2. meeting[k].starts > clock
  BY DEF Wanted
<1> QED
  BY <1>1, <1>2, ScheduleAssumption DEF Ticks, Lead

LEMMA UpsertedMild ==
  ASSUME DmTypeOK, NEW k \in Keys, NEW a \in DmRows
  PROVE  Mild(a, Upserted(k, a))
<1>1. CASE Wanted(k) /\ a.state \in Queued \cup {"absent", "expired", "cancelled"}
  <2> DEFINE b == Planned(k, a)
  <2>1. b \in DmRows /\ b.state = "pending" /\ b.attempts = a.attempts /\ ~b.old
    BY <1>1, DueTyped DEF DmRows, Queued, Planned
  <2>2. Upserted(k, a) = b
    BY <1>1 DEF Upserted
  <2>3. IsLoose(a)
    BY <1>1 DEF IsLoose, Queued
  <2> HIDE DEF b
  <2> QED
    BY <1>1, <2>1, <2>2, <2>3 DEF Mild, IsLoose, Queued
<1>2. CASE ~(Wanted(k) /\ a.state \in Queued \cup {"absent", "expired", "cancelled"})
  BY <1>2, MildRefl DEF Upserted
<1> QED
  BY <1>1, <1>2

LEMMA ClosedMild ==
  ASSUME NEW a \in DmRows, a.state \in Queued, NEW s \in {"cancelled", "expired"}
  PROVE  Mild(a, [a EXCEPT !.state = s])
<1> DEFINE b == [a EXCEPT !.state = s]
<1>1. b \in DmRows /\ b.state = s /\ b.attempts = a.attempts /\ b.old = a.old
  BY WithState
<1> HIDE DEF b
<1>2. Mild(a, b)
  BY <1>1 DEF Mild, IsLoose, Queued
<1> QED
  BY <1>2 DEF b

LEMMA CancelledMild ==
  ASSUME NEW k \in Keys, NEW a \in DmRows
  PROVE  /\ Mild(a, Cancelled(k, a))
         /\ ~Eligible(k) => Cancelled(k, a).state \notin Queued
<1>1. CASE a.state \in Queued /\ ~Eligible(k)
  <2>1. Cancelled(k, a) = [a EXCEPT !.state = "cancelled"]
    BY <1>1 DEF Cancelled
  <2>2. [a EXCEPT !.state = "cancelled"].state = "cancelled"
    BY WithState
  <2>3. Mild(a, [a EXCEPT !.state = "cancelled"])
    BY <1>1, ClosedMild
  <2> QED
    BY <2>1, <2>2, <2>3 DEF Queued
<1>2. CASE ~(a.state \in Queued /\ ~Eligible(k))
  BY <1>2, MildRefl DEF Cancelled
<1> QED
  BY <1>1, <1>2

LEMMA ExpiredMild ==
  ASSUME NEW a \in DmRows
  PROVE  /\ Mild(a, Expired(a))
         /\ a.state \notin Queued => Expired(a).state \notin Queued
<1>1. CASE a.state \in Queued /\ a.due + Grace < clock
  <2>1. Expired(a) = [a EXCEPT !.state = "expired"]
    BY <1>1 DEF Expired
  <2>2. [a EXCEPT !.state = "expired"].state = "expired"
    BY WithState
  <2>3. Mild(a, [a EXCEPT !.state = "expired"])
    BY <1>1, ClosedMild
  <2> QED
    BY <2>1, <2>2, <2>3 DEF Queued
<1>2. CASE ~(a.state \in Queued /\ a.due + Grace < clock)
  BY <1>2, MildRefl DEF Expired
<1> QED
  BY <1>1, <1>2

LEMMA PlanRowMild ==
  ASSUME DmTypeOK, NEW k \in Keys
  PROVE  /\ Mild(dm[k], PlanRow(k))
         /\ ~Receives(PersonOf[k]) => PlanRow(k).state \notin Queued
<1> DEFINE a == dm[k]
           b == Released(a)
           c == Upserted(k, b)
           d == Cancelled(k, c)
<1>1. a \in DmRows
  BY DEF DmTypeOK
<1>2. Mild(a, b) /\ b \in DmRows
  BY <1>1, ReleasedMild DEF Mild
<1>3. Mild(b, c) /\ c \in DmRows
  BY <1>2, UpsertedMild DEF Mild
<1>4. Mild(c, d) /\ d \in DmRows
  BY <1>3, CancelledMild DEF Mild
<1>5. ~Receives(PersonOf[k]) => d.state \notin Queued
  BY <1>3, CancelledMild DEF Eligible
<1>6. Mild(d, Expired(d)) /\ (d.state \notin Queued => Expired(d).state \notin Queued)
  BY <1>4, ExpiredMild
<1>7. PlanRow(k) = Expired(d)
  BY DEF PlanRow
<1> HIDE DEF a, b, c, d
<1>8. Mild(a, Expired(d))
  BY <1>2, <1>3, <1>4, <1>6, MildTrans
<1> QED
  BY <1>5, <1>6, <1>7, <1>8 DEF a

(***************************************************************************)
(* What a run's step leaves behind.                                        *)
(***************************************************************************)
OnlyMoves(r) ==
  /\ sender' \in [Senders -> SenderSteps]
  /\ \A q \in Senders : q # r => sender'[q] = sender[q]

\* The run's new step: where it is, what it has claimed and works on, what it has locked.
Becomes(r, pc, todo, key, held) ==
  /\ OnlyMoves(r)
  /\ sender'[r].pc = pc /\ sender'[r].todo = todo /\ sender'[r].key = key
  /\ sender'[r].held = held
  /\ \A k \in Keys : k \notin held => sender'[r].plan[k].state = "absent"

LEMMA NoReminderTyped == NoReminder \in DmRows /\ NoReminder.state = "absent"
<1>1. 0 \in Ticks
  BY ScheduleAssumption DEF Ticks
<1> QED
  BY <1>1 DEF NoReminder, DmRows

LEMMA AtRestTyped ==
  /\ AtRest \in SenderSteps /\ AtRest.pc = "idle" /\ AtRest.todo = {} /\ AtRest.key = NoKey
  /\ AtRest.held = {} /\ AtRest.tries = [k \in Keys |-> 0]
  /\ \A k \in Keys : AtRest.plan[k].state = "absent"
  BY NoReminderTyped DEF AtRest, SenderSteps

LEMMA TurnMoves ==
  ASSUME DmTypeOK, NEW r \in Senders, NEW s \in SenderSteps, Turn(r, s)
  PROVE  OnlyMoves(r) /\ sender'[r] = s
  BY DEF DmTypeOK, Turn, OnlyMoves

LEMMA SenderTyped ==
  ASSUME DmTypeOK, NEW r \in Senders
  PROVE  /\ sender[r] \in SenderSteps /\ sender[r].held \subseteq Keys
         /\ sender[r].plan \in [Keys -> DmRows] /\ sender[r].todo \subseteq Keys
  BY DEF DmTypeOK, SenderSteps

LEMMA RestFacts ==
  ASSUME DmTypeOK, NEW r \in Senders, Turn(r, AtRest)
  PROVE  Becomes(r, "idle", {}, NoKey, {})
<1>1. OnlyMoves(r) /\ sender'[r] = AtRest
  BY AtRestTyped, TurnMoves
<1> QED
  BY <1>1, AtRestTyped DEF Becomes

\* A run that is not planning has locked nothing and has nothing to write.
LEMMA NotPlanning ==
  ASSUME RunsAreInOrder, NEW r \in Senders, sender[r].pc # "planned"
  PROVE  sender[r].held = {} /\ \A k \in Keys : sender[r].plan[k].state = "absent"
  BY DEF RunsAreInOrder, Writes

LEMMA PlanFacts ==
  ASSUME DmTypeOK, NEW r \in Senders, plan_dm(r)
  PROVE  \E held \in SUBSET Keys :
           /\ Becomes(r, "planned", {}, NoKey, held)
           /\ \A q \in Senders : sender[q].held \cap held = {}
           /\ \A k \in Keys : sender'[r].plan[k] = IF PlanRow(k) = dm[k] THEN NoReminder
                                                   ELSE PlanRow(k)
           /\ dm' = dm
<1> DEFINE held == {k \in Keys : Wanted(k) \/ PlanRow(k) # dm[k]}
           plan == [k \in Keys |-> IF PlanRow(k) = dm[k] THEN NoReminder ELSE PlanRow(k)]
           s == [AtRest EXCEPT !.pc = "planned", !.held = held, !.plan = plan]
<1>1. plan \in [Keys -> DmRows]
  BY NoReminderTyped, PlanRowMild DEF Mild
<1>2. \A k \in Keys : k \notin held => plan[k].state = "absent"
  BY NoReminderTyped
<1>3. /\ Turn(r, s) /\ dm' = dm /\ held \subseteq Keys
      /\ \A k \in held, q \in Senders : k \notin sender[q].held
  BY DEF plan_dm, IsLocked
<1>4. \A k \in Keys : plan[k] = IF PlanRow(k) = dm[k] THEN NoReminder ELSE PlanRow(k)
  OBVIOUS
<1> HIDE DEF held, plan
<1>5. /\ s \in SenderSteps /\ s.pc = "planned" /\ s.todo = {} /\ s.key = NoKey
      /\ s.held = held /\ s.plan = plan
  BY <1>1, <1>3, AtRestTyped DEF SenderSteps
<1>6. OnlyMoves(r) /\ sender'[r] = s
  BY <1>3, <1>5, TurnMoves
<1>7. Becomes(r, "planned", {}, NoKey, held)
  BY <1>2, <1>5, <1>6 DEF Becomes
<1> QED
  BY <1>3, <1>4, <1>5, <1>6, <1>7

LEMMA CommitFacts ==
  ASSUME DmTypeOK, NEW r \in Senders, commit(r)
  PROVE  /\ Becomes(r, "ready", {}, NoKey, {})
         /\ \A k \in Keys : IF k \in Writes(r) THEN dm'[k] = sender[r].plan[k]
                            ELSE dm'[k] = dm[k]
<1> DEFINE s == [AtRest EXCEPT !.pc = "ready"]
<1>1. /\ s \in SenderSteps /\ s.pc = "ready" /\ s.todo = {} /\ s.key = NoKey /\ s.held = {}
      /\ \A k \in Keys : s.plan[k].state = "absent"
  BY AtRestTyped DEF SenderSteps
<1>2. Turn(r, s)
  BY DEF commit
<1>3. OnlyMoves(r) /\ sender'[r] = s
  BY <1>1, <1>2, TurnMoves
<1> QED
  BY <1>1, <1>3 DEF Becomes, commit

LEMMA SendOnlyFacts ==
  ASSUME DmTypeOK, NEW r \in Senders, SendOnly(r)
  PROVE  Becomes(r, "ready", {}, NoKey, {}) /\ dm' = dm
<1> DEFINE s == [AtRest EXCEPT !.pc = "ready"]
<1>1. /\ s \in SenderSteps /\ s.pc = "ready" /\ s.todo = {} /\ s.key = NoKey /\ s.held = {}
      /\ \A k \in Keys : s.plan[k].state = "absent"
  BY AtRestTyped DEF SenderSteps
<1>2. OnlyMoves(r) /\ sender'[r] = s
  BY <1>1, TurnMoves DEF SendOnly
<1> QED
  BY <1>1, <1>2 DEF Becomes, SendOnly

LEMMA ClaimFacts ==
  ASSUME DmTypeOK, NEW r \in Senders, claim_due(r)
  PROVE  \E due \in SUBSET Keys :
           /\ \A k \in due : dm[k].state \in Queued /\ ~IsLocked(k)
           /\ Becomes(r, IF due = {} THEN "idle" ELSE "sending", due, NoKey, {})
           /\ \A k \in due : sender'[r].tries[k] = dm[k].attempts
           /\ \A k \in Keys :
                IF k \in due
                THEN /\ dm'[k] \in DmRows /\ dm'[k].state = "sending" /\ ~dm'[k].old
                     /\ dm'[k].attempts = dm[k].attempts
                ELSE dm'[k] = dm[k]
<1> DEFINE due == {k \in Keys : Sendable(k)}
           tries == [k \in Keys |-> IF k \in due THEN dm[k].attempts ELSE 0]
           s == IF due = {} THEN AtRest
                ELSE [AtRest EXCEPT !.pc = "sending", !.todo = due, !.tries = tries]
<1>1. \A k \in due : dm[k].state \in Queued /\ ~IsLocked(k)
  BY DEF Sendable
<1>2. \A k \in Keys : dm[k] \in DmRows
  BY DEF DmTypeOK
<1>3. tries \in [Keys -> Nat]
  BY <1>2 DEF DmRows
<1>4. /\ Turn(r, s)
      /\ dm' = [k \in Keys |-> IF k \in due THEN [dm[k] EXCEPT !.state = "sending", !.old = FALSE]
                               ELSE dm[k]]
  BY DEF claim_due
<1>5. due \subseteq Keys /\ \A k \in due : tries[k] = dm[k].attempts
  OBVIOUS
<1> HIDE DEF due, tries
<1>6. /\ s \in SenderSteps /\ s.pc = (IF due = {} THEN "idle" ELSE "sending") /\ s.todo = due
      /\ s.key = NoKey /\ s.held = {} /\ (due # {} => s.tries = tries)
      /\ \A k \in Keys : s.plan[k].state = "absent"
  BY <1>3, <1>5, AtRestTyped DEF SenderSteps
<1>7. OnlyMoves(r) /\ sender'[r] = s
  BY <1>4, <1>6, TurnMoves
<1>8. Becomes(r, IF due = {} THEN "idle" ELSE "sending", due, NoKey, {})
  BY <1>6, <1>7 DEF Becomes
<1>9. ASSUME NEW k \in due
      PROVE  /\ dm'[k] \in DmRows /\ dm'[k].state = "sending" /\ ~dm'[k].old
             /\ dm'[k].attempts = dm[k].attempts
  BY <1>2, <1>4, <1>5 DEF DmRows
<1>10. \A k \in Keys : k \notin due => dm'[k] = dm[k]
  BY <1>4
<1>11. \A k \in due : sender'[r].tries[k] = dm[k].attempts
  BY <1>5, <1>6, <1>7
<1> QED
  BY <1>1, <1>5, <1>8, <1>9, <1>10, <1>11

LEMMA LoadFacts ==
  ASSUME DmTypeOK, RunsAreInOrder, NEW r \in Senders, load_occurrence(r)
  PROVE  \E k \in sender[r].todo :
           /\ sender[r].pc = "sending" /\ k \in Keys
           /\ Becomes(r, "loaded", sender[r].todo, k, {})
           /\ sender'[r].tries = sender[r].tries
           /\ dm' = dm
<1>0. sender[r] \in SenderSteps
  BY SenderTyped
<1>1. PICK k \in sender[r].todo : Turn(r, [sender[r] EXCEPT !.pc = "loaded", !.key = k])
  BY DEF load_occurrence
<1> DEFINE s == [sender[r] EXCEPT !.pc = "loaded", !.key = k]
<1>2. /\ s \in SenderSteps /\ s.pc = "loaded" /\ s.todo = sender[r].todo /\ s.key = k
      /\ s.held = sender[r].held /\ s.plan = sender[r].plan /\ s.tries = sender[r].tries
      /\ k \in Keys
  BY <1>0 DEF SenderSteps
<1>3. OnlyMoves(r) /\ sender'[r] = s
  BY <1>1, <1>2, TurnMoves
<1>n. sender[r].held = {} /\ \A j \in Keys : sender[r].plan[j].state = "absent"
  BY NotPlanning DEF load_occurrence, IsAt
<1>4. Becomes(r, "loaded", sender[r].todo, k, {})
  BY <1>2, <1>3, <1>n DEF Becomes
<1> QED
  BY <1>2, <1>3, <1>4 DEF load_occurrence, IsAt

LEMMA AnswerFacts ==
  ASSUME DmTypeOK, RunsAreInOrder, NEW r \in Senders, Posted(r) \/ Denied(r) \/ AnswerIsLost(r)
  PROVE  \E k \in sender[r].todo :
           /\ sender[r].pc = "loaded" /\ sender[r].key = k /\ k \in Keys
           /\ \/ Posted(r) /\ Becomes(r, "posted", sender[r].todo, k, {})
              \/ /\ Denied(r)
                 /\ \E pc \in {"denied", "barred"} :
                      Becomes(r, pc, sender[r].todo, k, {})
              \/ AnswerIsLost(r) /\ Becomes(r, "denied", sender[r].todo, k, {})
           /\ sender'[r].tries = sender[r].tries
           /\ dm' = dm
<1>0. sender[r] \in SenderSteps
  BY SenderTyped
<1> DEFINE k == sender[r].key
<1>1. sender[r].pc = "loaded" /\ k \in sender[r].todo /\ dm' = dm
  BY DEF Posted, Denied, AnswerIsLost, IsAt, RunsAreInOrder
<1>2. k \in Keys
  BY <1>0, <1>1 DEF SenderSteps
<1>3. ASSUME NEW pc \in {"posted", "denied", "barred"}, Turn(r, [sender[r] EXCEPT !.pc = pc])
      PROVE  /\ Becomes(r, pc, sender[r].todo, k, {})
             /\ sender'[r].tries = sender[r].tries
  <2> DEFINE s == [sender[r] EXCEPT !.pc = pc]
  <2>1. /\ s \in SenderSteps /\ s.pc = pc /\ s.todo = sender[r].todo /\ s.key = k
        /\ s.held = sender[r].held /\ s.plan = sender[r].plan /\ s.tries = sender[r].tries
    BY <1>0 DEF SenderSteps
  <2>2. OnlyMoves(r) /\ sender'[r] = s
    BY <1>3, <2>1, TurnMoves
  <2>3. sender[r].held = {} /\ \A j \in Keys : sender[r].plan[j].state = "absent"
    BY <1>1, NotPlanning
  <2> QED
    BY <2>1, <2>2, <2>3 DEF Becomes
<1>4. \/ Posted(r) /\ Turn(r, [sender[r] EXCEPT !.pc = "posted"])
      \/ Denied(r) /\ \E pc \in {"denied", "barred"} : Turn(r, [sender[r] EXCEPT !.pc = pc])
      \/ AnswerIsLost(r) /\ Turn(r, [sender[r] EXCEPT !.pc = "denied"])
  BY DEF Posted, Denied, AnswerIsLost
<1> QED
  BY <1>1, <1>2, <1>3, <1>4

LEMMA NextRowFacts ==
  ASSUME DmTypeOK, RunsAreInOrder, NEW r \in Senders, NEW k \in sender[r].todo, Turn(r, NextRow(r, k))
  PROVE  /\ \E pc \in {"idle", "sending"} :
              /\ Becomes(r, pc, sender[r].todo \ {k}, NoKey, {})
              /\ pc = "idle" => sender[r].todo \ {k} = {}
         /\ \A j \in sender[r].todo \ {k} : sender'[r].tries[j] = sender[r].tries[j]
<1>0. sender[r] \in SenderSteps /\ k \in Keys
  BY SenderTyped DEF SenderSteps
<1>1. CASE sender[r].todo = {k}
  <2>1. Becomes(r, "idle", {}, NoKey, {})
    BY <1>1, RestFacts DEF NextRow
  <2> QED
    BY <1>1, <2>1
<1>2. CASE sender[r].todo # {k}
  <2> DEFINE s == [sender[r] EXCEPT !.pc = "sending", !.todo = @ \ {k}, !.tries[k] = 0,
                                    !.key = NoKey]
  <2>1. Turn(r, s)
    BY <1>2 DEF NextRow
  <2>2. sender[r].held = {} /\ \A j \in Keys : sender[r].plan[j].state = "absent"
    <3>1. sender[r].pc # "planned"
      BY DEF RunsAreInOrder
    <3> QED
      BY <3>1, NotPlanning
  <2>3. /\ s \in SenderSteps /\ s.pc = "sending" /\ s.todo = sender[r].todo \ {k}
        /\ s.key = NoKey /\ s.held = {} /\ s.plan = sender[r].plan
        /\ s.tries = [sender[r].tries EXCEPT ![k] = 0]
    BY <1>0, <2>2 DEF SenderSteps
  <2>4. OnlyMoves(r) /\ sender'[r] = s
    BY <2>1, <2>3, TurnMoves
  <2>5. Becomes(r, "sending", sender[r].todo \ {k}, NoKey, {})
    BY <2>2, <2>3, <2>4 DEF Becomes
  <2>6. \A j \in sender[r].todo \ {k} : sender'[r].tries[j] = sender[r].tries[j]
    BY <1>0, <2>3, <2>4 DEF SenderSteps
  <2> QED
    BY <2>5, <2>6
<1> QED
  BY <1>1, <1>2

\* How a row is closed.
ClosedAs(r, k) ==
  \/ sender[r].pc = "sending" /\ dm'[k].state = "cancelled" /\ dm'[k].attempts = dm[k].attempts + 1
  \/ /\ sender[r].pc = "posted" /\ sender[r].key = k
     /\ dm'[k].state = "sent" /\ dm'[k].attempts = dm[k].attempts
  \/ /\ sender[r].pc = "denied" /\ sender[r].key = k /\ ~OutOfTries(sender[r].tries[k])
     /\ dm'[k].state = "retry" /\ dm'[k].attempts = dm[k].attempts + 1
  \/ /\ sender[r].pc \in {"denied", "barred"} /\ sender[r].key = k
     /\ dm'[k].state = "failed" /\ dm'[k].attempts = dm[k].attempts + 1

LEMMA CountedRow ==
  ASSUME NEW a \in DmRows, NEW s \in Queued \cup {"cancelled", "failed"}
  PROVE  LET b == [a EXCEPT !.state = s, !.attempts = @ + 1, !.old = FALSE]
         IN b \in DmRows /\ ~b.old /\ b.state = s /\ b.attempts = a.attempts + 1
<1> DEFINE n == a.attempts + 1
           b == [a EXCEPT !.state = s, !.attempts = n, !.old = FALSE]
<1>1. n \in Nat
  BY DEF DmRows
<1>2. b = [a EXCEPT !.state = s, !.attempts = @ + 1, !.old = FALSE]
  OBVIOUS
<1>3. n = a.attempts + 1
  OBVIOUS
<1> HIDE DEF n
<1>4. b \in DmRows /\ ~b.old /\ b.state = s /\ b.attempts = n
  BY <1>1 DEF DmRows, Queued
<1> QED
  BY <1>2, <1>3, <1>4

LEMMA RowFacts ==
  ASSUME DmTypeOK, NEW k \in Keys, NEW row \in DmRows, RowBecomes(k, row)
  PROVE  dm'[k] = row /\ \A j \in Keys : j # k => dm'[j] = dm[j]
  BY DEF RowBecomes, DmTypeOK

LEMMA CloseFacts ==
  ASSUME DmTypeOK, RunsAreInOrder, NEW r \in Senders, OccurrenceGone(r) \/ MarkRow(r)
  PROVE  \E k \in sender[r].todo :
           /\ k \in Keys
           /\ Turn(r, NextRow(r, k))
           /\ ~IsLocked(k)
           /\ dm'[k] \in DmRows /\ ~dm'[k].old
           /\ \A j \in Keys : j # k => dm'[j] = dm[j]
           /\ ClosedAs(r, k)
<1>0. sender[r] \in SenderSteps
  BY SenderTyped
<1>k. sender[r].todo \subseteq Keys
  BY <1>0 DEF SenderSteps
<1>m. ASSUME NEW k \in Keys, NEW state \in {"cancelled", "failed"}, _mark_failed(k, state)
      PROVE  /\ dm'[k] \in DmRows /\ ~dm'[k].old /\ dm'[k].state = state
             /\ dm'[k].attempts = dm[k].attempts + 1
             /\ \A j \in Keys : j # k => dm'[j] = dm[j]
  <2> DEFINE row == [dm[k] EXCEPT !.state = state, !.attempts = @ + 1, !.old = FALSE]
  <2>1. dm[k] \in DmRows
    BY DEF DmTypeOK
  <2>2. /\ row \in DmRows /\ ~row.old /\ row.state = state
        /\ row.attempts = dm[k].attempts + 1
    BY <2>1, CountedRow DEF Queued
  <2>3. RowBecomes(k, row)
    BY <1>m DEF _mark_failed
  <2> HIDE DEF row
  <2> QED
    BY <2>2, <2>3, RowFacts
<1>1. CASE OccurrenceGone(r)
  <2>1. PICK k \in sender[r].todo :
          ~IsLocked(k) /\ _mark_failed(k, "cancelled") /\ Turn(r, NextRow(r, k))
    BY <1>1 DEF OccurrenceGone
  <2>2. sender[r].pc = "sending" /\ k \in Keys
    BY <1>1, <1>k DEF OccurrenceGone, IsAt
  <2> QED
    BY <1>m, <2>1, <2>2 DEF ClosedAs
<1>2. CASE MarkRow(r)
  <2> DEFINE k == sender[r].key
  <2>1. k \in sender[r].todo /\ ~IsLocked(k) /\ Turn(r, NextRow(r, k))
    BY <1>2 DEF MarkRow, IsAt, RunsAreInOrder
  <2>2. k \in Keys
    BY <1>k, <2>1
  <2>d. dm[k] \in DmRows
    BY <2>2 DEF DmTypeOK
  <2>3. CASE IsAt(r, "posted") /\ _mark_sent(k)
    <3>1. /\ dm'[k] \in DmRows /\ ~dm'[k].old /\ dm'[k].state = "sent"
          /\ dm'[k].attempts = dm[k].attempts
          /\ \A j \in Keys : j # k => dm'[j] = dm[j]
      <4> DEFINE row == [dm[k] EXCEPT !.state = "sent", !.old = FALSE]
      <4>1. row \in DmRows /\ ~row.old /\ row.state = "sent" /\ row.attempts = dm[k].attempts
        BY <2>d DEF DmRows
      <4>2. RowBecomes(k, row)
        BY <2>3 DEF _mark_sent
      <4> HIDE DEF row
      <4> QED
        BY <2>2, <4>1, <4>2, RowFacts
    <3> QED
      BY <2>1, <2>2, <2>3, <3>1 DEF ClosedAs, IsAt
  <2>4. CASE IsAt(r, "denied") /\ ~OutOfTries(sender[r].tries[k]) /\ _mark_retry(k)
    <3>1. /\ dm'[k] \in DmRows /\ ~dm'[k].old /\ dm'[k].state = "retry"
          /\ dm'[k].attempts = dm[k].attempts + 1
          /\ \A j \in Keys : j # k => dm'[j] = dm[j]
      <4> DEFINE row == [dm[k] EXCEPT !.state = "retry", !.attempts = @ + 1, !.waits = TRUE,
                                      !.old = FALSE]
      <4>1. /\ row \in DmRows /\ ~row.old /\ row.state = "retry"
            /\ row.attempts = dm[k].attempts + 1
        <5>1. LET b == [dm[k] EXCEPT !.state = "retry", !.attempts = @ + 1, !.old = FALSE]
              IN /\ b \in DmRows /\ ~b.old /\ b.state = "retry"
                 /\ b.attempts = dm[k].attempts + 1
          BY <2>d, CountedRow DEF Queued
        <5>2. row = [[dm[k] EXCEPT !.state = "retry", !.attempts = @ + 1, !.old = FALSE]
                      EXCEPT !.waits = TRUE]
          BY <2>d DEF DmRows
        <5> QED
          BY <5>1, <5>2 DEF DmRows
      <4>2. RowBecomes(k, row)
        BY <2>4 DEF _mark_retry
      <4> HIDE DEF row
      <4> QED
        BY <2>2, <4>1, <4>2, RowFacts
    <3> QED
      BY <2>1, <2>2, <2>4, <3>1 DEF ClosedAs, IsAt
  <2>5. CASE (IsAt(r, "denied") \/ IsAt(r, "barred")) /\ _mark_failed(k, "failed")
    BY <1>m, <2>1, <2>2, <2>5 DEF ClosedAs, IsAt
  <2> QED
    BY <1>2, <2>3, <2>4, <2>5 DEF MarkRow
<1> QED
  BY <1>1, <1>2

(***************************************************************************)
(* Steps of nobody's run.                                                  *)
(***************************************************************************)
CancelRow(k) ==
  /\ dm[k].state \in Queued /\ dm'[k] \in DmRows /\ dm'[k].state = "cancelled"
  /\ dm'[k].attempts = dm[k].attempts /\ dm'[k].old = dm[k].old

LEMMA CancelRowsFacts ==
  ASSUME DmTypeOK, NEW keys, CancelRows(keys), NEW k \in Keys
  PROVE  /\ dm'[k] = dm[k] \/ CancelRow(k)
         /\ IF k \in keys THEN dm'[k].state \notin Queued ELSE dm'[k] = dm[k]
<1>0. dm[k] \in DmRows
  BY DEF DmTypeOK
<1>1. CASE k \in keys /\ dm[k].state \in Queued
  <2>1. dm'[k] = [dm[k] EXCEPT !.state = "cancelled"]
    BY <1>1 DEF CancelRows
  <2>2. /\ dm'[k] \in DmRows /\ dm'[k].state = "cancelled"
        /\ dm'[k].attempts = dm[k].attempts /\ dm'[k].old = dm[k].old
    BY <1>0, <2>1, WithState
  <2> QED
    BY <1>1, <2>2 DEF CancelRow, Queued
<1>2. CASE ~(k \in keys /\ dm[k].state \in Queued)
  BY <1>2 DEF CancelRows
<1> QED
  BY <1>1, <1>2

\* What an answer of a person cancels.
LEMMA AsksFacts ==
  ASSUME NEW p \in People, Asks(p)
  PROVE  /\ sender' = sender
         /\ dm' = dm \/ \E keys \in SUBSET Keys : /\ CancelRows(keys)
                                                 /\ \A k \in keys : ~IsLocked(k)
  BY DEF Asks, enable, disable, StartCancel, cancel_pending, CancelFound, RowsOf

\* A row of the same state: only its waiting or its age changes.
AgeRow(k) ==
  /\ dm'[k] \in DmRows /\ dm'[k].state = dm[k].state /\ dm'[k].attempts = dm[k].attempts

Outside ==
  \/ Tick
  \/ \E p \in People : Asks(p)
  \/ \E k \in Keys : BackoffIsOver(k) \/ MeetingChanges(k)

LEMMA OutsideFacts ==
  ASSUME DmTypeOK, Outside
  PROVE  /\ UNCHANGED <<sender, posts, errors, lapses, lostAnswers>>
         /\ \A k \in Keys : \/ CancelRow(k) /\ ~IsLocked(k)
                            \/ AgeRow(k) /\ dm'[k].old = dm[k].old
<1>0. \A k \in Keys : dm[k] \in DmRows
  BY DEF DmTypeOK
<1>1. UNCHANGED <<sender, posts, errors, lapses, lostAnswers>>
  BY DEF Outside, Tick, Asks, enable, disable, StartCancel, cancel_pending, BackoffIsOver,
         MeetingChanges
<1>2. ASSUME dm' = dm
      PROVE  \A k \in Keys : AgeRow(k) /\ dm'[k].old = dm[k].old
  BY <1>0, <1>2 DEF AgeRow
<1>3. ASSUME NEW keys \in SUBSET Keys, CancelRows(keys), \A k \in keys : ~IsLocked(k)
      PROVE  \A k \in Keys : \/ CancelRow(k) /\ ~IsLocked(k)
                             \/ AgeRow(k) /\ dm'[k].old = dm[k].old
  <2>1. ASSUME NEW k \in Keys
        PROVE  dm'[k] = dm[k] \/ (CancelRow(k) /\ k \in keys)
    BY <1>3, <2>1, CancelRowsFacts
  <2> QED
    BY <1>0, <1>3, <2>1 DEF AgeRow
<1>4. ASSUME NEW k \in Keys, BackoffIsOver(k)
      PROVE  \A j \in Keys : AgeRow(j) /\ dm'[j].old = dm[j].old
  <2> DEFINE row == [dm[k] EXCEPT !.waits = FALSE]
  <2>1. /\ row \in DmRows /\ row.state = dm[k].state /\ row.attempts = dm[k].attempts
        /\ row.old = dm[k].old
    BY <1>0 DEF DmRows
  <2>2. RowBecomes(k, row)
    BY <1>4 DEF BackoffIsOver
  <2> HIDE DEF row
  <2>3. dm'[k] = row /\ \A j \in Keys : j # k => dm'[j] = dm[j]
    BY <2>1, <2>2, RowFacts
  <2> QED
    BY <1>0, <2>1, <2>3 DEF AgeRow
<1>5. ASSUME NEW p \in People, Asks(p)
      PROVE  \A k \in Keys : \/ CancelRow(k) /\ ~IsLocked(k)
                             \/ AgeRow(k) /\ dm'[k].old = dm[k].old
  BY <1>2, <1>3, <1>5, AsksFacts
<1>6. CASE Tick \/ \E k \in Keys : MeetingChanges(k)
  BY <1>2, <1>6 DEF Tick, MeetingChanges
<1> QED
  BY <1>1, <1>4, <1>5, <1>6 DEF Outside

LEMMA LockFacts ==
  ASSUME DmTypeOK, NEW k \in Keys, LockGrowsOld(k)
  PROVE  /\ UNCHANGED <<sender, posts, errors, lostAnswers, prefs, closing, escaped>>
         /\ UNCHANGED <<cancelling, matched>>
         /\ AgeRow(k) /\ dm[k].state = "sending" /\ ~dm[k].old
         /\ lapses' = [lapses EXCEPT ![k] = @ + 1]
         /\ \A j \in Keys : j # k => dm'[j] = dm[j]
<1> DEFINE row == [dm[k] EXCEPT !.old = TRUE]
<1>0. dm[k] \in DmRows
  BY DEF DmTypeOK
<1>1. row \in DmRows /\ row.state = dm[k].state /\ row.attempts = dm[k].attempts
  BY <1>0 DEF DmRows
<1>r. RowBecomes(k, row)
  BY DEF LockGrowsOld
<1> HIDE DEF row
<1>2. AgeRow(k) /\ \A j \in Keys : j # k => dm'[j] = dm[j]
  BY <1>1, <1>r, RowFacts DEF AgeRow
<1> QED
  BY <1>2 DEF LockGrowsOld

(***************************************************************************)
(* The kinds of steps.                                                     *)
(***************************************************************************)
Answers(r) == Posted(r) \/ Denied(r) \/ AnswerIsLost(r)
Closes(r) == OccurrenceGone(r) \/ MarkRow(r)
Starts(r) == plan_dm(r) \/ commit(r) \/ SendOnly(r) \/ claim_due(r) \/ load_occurrence(r)

LEMMA StepKinds ==
  ASSUME [DmNext]_dmVars
  PROVE  \/ \E r \in Senders : Starts(r) \/ Answers(r) \/ Closes(r) \/ SenderDies(r)
         \/ \E k \in Keys : LockGrowsOld(k) /\ (LockOutlivesRun(k) \/ RunOutlivesLock(k))
         \/ Outside
         \/ UNCHANGED dmVars
  BY DEF DmNext, Sending, Disturbs, Starts, Answers, Closes, Outside, LockOutlivesRun,
         RunOutlivesLock

LEMMA StepLeaves ==
  ASSUME NEW r \in Senders
  PROVE  /\ Starts(r) \/ Closes(r) \/ SenderDies(r) =>
              UNCHANGED <<clock, meeting, prefs, closing, cancelling, matched, wishes, escaped,
                          posts, errors, lapses, lostAnswers>>
         /\ Answers(r) =>
              UNCHANGED <<clock, meeting, prefs, closing, cancelling, matched, wishes, escaped,
                          lapses, dm>>
  BY DEF Starts, plan_dm, commit, SendOnly, claim_due, load_occurrence, Closes, OccurrenceGone,
         MarkRow, SenderDies, Answers, Posted, Denied, AnswerIsLost

\* A run's step is the run's alone.
LEMMA RunsMoveAlone ==
  ASSUME DmTypeOK, RunsAreInOrder, NEW r \in Senders,
         Starts(r) \/ Answers(r) \/ Closes(r) \/ SenderDies(r)
  PROVE  OnlyMoves(r)
<1>1. CASE plan_dm(r)
  BY <1>1, PlanFacts DEF Becomes
<1>2. CASE commit(r)
  BY <1>2, CommitFacts DEF Becomes
<1>3. CASE SendOnly(r)
  BY <1>3, SendOnlyFacts DEF Becomes
<1>4. CASE claim_due(r)
  BY <1>4, ClaimFacts DEF Becomes
<1>5. CASE load_occurrence(r)
  BY <1>5, LoadFacts DEF Becomes
<1>6. CASE Answers(r)
  BY <1>6, AnswerFacts DEF Becomes, Answers
<1>7. CASE Closes(r)
  <2>1. PICK k \in sender[r].todo : Turn(r, NextRow(r, k))
    BY <1>7, CloseFacts DEF Closes
  <2> QED
    BY <2>1, NextRowFacts DEF Becomes
<1>8. CASE SenderDies(r)
  BY <1>8, RestFacts DEF Becomes, SenderDies
<1> QED
  BY <1>1, <1>2, <1>3, <1>4, <1>5, <1>6, <1>7, <1>8 DEF Starts

(***************************************************************************)
(* Types.                                                                  *)
(***************************************************************************)
LEMMA RowsTyped ==
  ASSUME DmTypeOK, RunsAreInOrder, [DmNext]_dmVars
  PROVE  dm' \in [Keys -> DmRows]
<1>0. dm \in [Keys -> DmRows]
  BY DEF DmTypeOK
<1>1. SUFFICES /\ dm' = [k \in Keys |-> dm'[k]]
               /\ \A k \in Keys : dm'[k] \in DmRows
  OBVIOUS
<1>2. ASSUME dm' = dm
      PROVE  dm' = [k \in Keys |-> dm'[k]] /\ \A k \in Keys : dm'[k] \in DmRows
  BY <1>0, <1>2
<1>3. ASSUME NEW k, NEW row, RowBecomes(k, row)
      PROVE  dm' = [j \in Keys |-> dm'[j]]
  BY <1>0, <1>3 DEF RowBecomes
<1>4. ASSUME NEW r \in Senders, Starts(r)
      PROVE  dm' = [k \in Keys |-> dm'[k]] /\ \A k \in Keys : dm'[k] \in DmRows
  <2>1. CASE plan_dm(r)
    BY <1>2, <2>1 DEF plan_dm
  <2>2. CASE commit(r)
    <3>1. dm' = [k \in Keys |-> dm'[k]]
      BY <2>2 DEF commit
    <3>2. sender[r].plan \in [Keys -> DmRows]
      BY SenderTyped
    <3> QED
      BY <1>0, <2>2, <3>1, <3>2, CommitFacts
  <2>3. CASE claim_due(r)
    <3>1. dm' = [k \in Keys |-> dm'[k]]
      BY <2>3 DEF claim_due
    <3> QED
      BY <1>0, <2>3, <3>1, ClaimFacts
  <2>4. CASE SendOnly(r) \/ load_occurrence(r)
    BY <1>2, <2>4 DEF SendOnly, load_occurrence
  <2> QED
    BY <1>4, <2>1, <2>2, <2>3, <2>4 DEF Starts
<1>5. ASSUME NEW r \in Senders, Answers(r) \/ SenderDies(r)
      PROVE  dm' = [k \in Keys |-> dm'[k]] /\ \A k \in Keys : dm'[k] \in DmRows
  BY <1>2, <1>5 DEF Answers, Posted, Denied, AnswerIsLost, SenderDies
<1>6. ASSUME NEW r \in Senders, Closes(r)
      PROVE  dm' = [k \in Keys |-> dm'[k]] /\ \A k \in Keys : dm'[k] \in DmRows
  <2>1. dm' = [k \in Keys |-> dm'[k]]
    BY <1>3, <1>6 DEF Closes, OccurrenceGone, MarkRow, _mark_failed, _mark_retry, _mark_sent
  <2> QED
    BY <1>0, <1>6, <2>1, CloseFacts DEF Closes
<1>7. ASSUME NEW k \in Keys, LockGrowsOld(k)
      PROVE  dm' = [j \in Keys |-> dm'[j]] /\ \A j \in Keys : dm'[j] \in DmRows
  <2>1. dm' = [j \in Keys |-> dm'[j]]
    BY <1>3, <1>7 DEF LockGrowsOld
  <2> QED
    BY <1>0, <1>7, <2>1, LockFacts DEF AgeRow
<1>8. CASE Outside
  <2>1. \A k \in Keys : dm'[k] \in DmRows
    BY <1>8, OutsideFacts DEF CancelRow, AgeRow
  <2>2. ASSUME NEW keys, CancelRows(keys)
        PROVE  dm' = [k \in Keys |-> dm'[k]]
    BY <2>2 DEF CancelRows
  <2>3. dm' = [k \in Keys |-> dm'[k]]
    BY <1>2, <1>3, <1>8, <2>2, AsksFacts DEF Outside, Tick, BackoffIsOver, MeetingChanges
  <2> QED
    BY <2>1, <2>3
<1>9. CASE UNCHANGED dmVars
  BY <1>2, <1>9 DEF dmVars
<1> QED
  BY <1>4, <1>5, <1>6, <1>7, <1>8, <1>9, StepKinds

LEMMA CountsTyped ==
  ASSUME DmTypeOK, RunsAreInOrder, [DmNext]_dmVars
  PROVE  /\ posts' \in [Keys -> Nat] /\ errors' \in [Keys -> Nat]
         /\ lapses' \in [Keys -> Nat] /\ lostAnswers' \in [Keys -> Nat]
<1>0. /\ posts \in [Keys -> Nat] /\ errors \in [Keys -> Nat]
      /\ lapses \in [Keys -> Nat] /\ lostAnswers \in [Keys -> Nat]
  BY DEF DmTypeOK
<1>1. ASSUME NEW r \in Senders, Starts(r) \/ Closes(r) \/ SenderDies(r)
      PROVE  UNCHANGED <<posts, errors, lapses, lostAnswers>>
  BY <1>1, StepLeaves
<1>2. ASSUME NEW r \in Senders, Answers(r)
      PROVE  /\ posts' \in [Keys -> Nat] /\ errors' \in [Keys -> Nat]
             /\ lapses' = lapses /\ lostAnswers' \in [Keys -> Nat]
  BY <1>0, <1>2 DEF Answers, Posted, Denied, AnswerIsLost
<1>3. ASSUME NEW k \in Keys, LockGrowsOld(k)
      PROVE  lapses' \in [Keys -> Nat] /\ UNCHANGED <<posts, errors, lostAnswers>>
  BY <1>0, <1>3, LockFacts
<1>4. CASE Outside
  BY <1>0, <1>4, OutsideFacts
<1>5. CASE UNCHANGED dmVars
  BY <1>0, <1>5 DEF dmVars
<1> QED
  BY <1>0, <1>1, <1>2, <1>3, <1>4, <1>5, StepKinds

LEMMA SurroundingsTyped ==
  ASSUME DmTypeOK, [DmNext]_dmVars
  PROVE  /\ clock' \in 0 .. LastTick /\ turns' \in 0 .. MaxTurns
         /\ meeting' \in [Keys -> Meetings]
         /\ prefs' \in [People -> {"none", "on", "off"}] /\ wishes' \in [People -> {"on", "off"}]
         /\ closing' \subseteq People /\ cancelling' \subseteq closing'
         /\ matched' \subseteq Keys /\ escaped' \subseteq Keys
<1> USE DEF DmTypeOK
<1>t. ASSUME turns' = turns \/ (turns < MaxTurns /\ turns' = turns + 1)
      PROVE  turns' \in 0 .. MaxTurns
  BY <1>t, ScheduleAssumption
<1>1. ASSUME NEW r \in Senders, plan_dm(r) \/ Sending(r) \/ Disturbs(r)
      PROVE  /\ UNCHANGED <<clock, meeting, prefs, closing, cancelling, matched, wishes, escaped>>
             /\ turns' = turns \/ (turns < MaxTurns /\ turns' = turns + 1)
  BY <1>1 DEF plan_dm, Sending, commit, SendOnly, claim_due, load_occurrence, OccurrenceGone,
              MarkRow, SenderDies, Posted, Denied, AnswerIsLost, Disturbs
<1>2. ASSUME NEW p \in People, Asks(p)
      PROVE  /\ UNCHANGED <<clock, meeting>>
             /\ prefs' \in [People -> {"none", "on", "off"}]
             /\ wishes' \in [People -> {"on", "off"}]
             /\ closing' \subseteq People /\ cancelling' \subseteq closing'
             /\ matched' \subseteq Keys /\ escaped' \subseteq Keys
             /\ turns' = turns \/ (turns < MaxTurns /\ turns' = turns + 1)
  BY <1>2 DEF Asks, enable, disable, StartCancel, cancel_pending, RowsOf
<1>3. ASSUME NEW k \in Keys,
             BackoffIsOver(k) \/ LockOutlivesRun(k) \/ RunOutlivesLock(k) \/ MeetingChanges(k)
      PROVE  /\ UNCHANGED <<clock, prefs, closing, cancelling, matched, wishes, escaped>>
             /\ meeting' \in [Keys -> Meetings]
             /\ turns' = turns \/ (turns < MaxTurns /\ turns' = turns + 1)
  BY <1>3 DEF BackoffIsOver, LockOutlivesRun, RunOutlivesLock, LockGrowsOld, MeetingChanges
<1>4. CASE Tick
  <2>1. clock' \in 0 .. LastTick
    BY <1>4, ScheduleAssumption DEF Tick
  <2> QED
    BY <1>4, <2>1 DEF Tick
<1>5. CASE UNCHANGED dmVars
  BY <1>5 DEF dmVars
<1> QED
  BY <1>t, <1>1, <1>2, <1>3, <1>4, <1>5 DEF DmNext

LEMMA DmTypeStep ==
  ASSUME DmTypeOK, RunsAreInOrder, [DmNext]_dmVars
  PROVE  DmTypeOK'
<1>1. sender' \in [Senders -> SenderSteps]
  <2>1. CASE \E r \in Senders : Starts(r) \/ Answers(r) \/ Closes(r) \/ SenderDies(r)
    BY <2>1, RunsMoveAlone DEF OnlyMoves
  <2>2. CASE UNCHANGED sender
    BY <2>2 DEF DmTypeOK
  <2> QED
    BY <2>1, <2>2, StepKinds, OutsideFacts, LockFacts DEF dmVars
<1> QED
  BY <1>1, RowsTyped, CountsTyped, SurroundingsTyped DEF DmTypeOK

(***************************************************************************)
(* Runs keep their order, and plans what they have locked.                 *)
(***************************************************************************)
LEMMA RunsInOrderStep ==
  ASSUME DmTypeOK, RunsAreInOrder, [DmNext]_dmVars
  PROVE  RunsAreInOrder'
<1> DEFINE InOrder(r) ==
             /\ IF sender[r].pc \in {"loaded", "posted", "denied", "barred"}
                THEN sender[r].key \in sender[r].todo
                ELSE sender[r].key = NoKey
             /\ sender[r].pc \in {"idle", "planned", "ready"} => sender[r].todo = {}
             /\ sender[r].pc # "planned" => sender[r].held = {} /\ Writes(r) = {}
<1>0. \A r \in Senders : InOrder(r)
  BY DEF RunsAreInOrder
<1>e. ASSUME NEW r \in Senders, NEW pc, NEW todo, NEW key, Becomes(r, pc, todo, key, {})
      PROVE  sender'[r].held = {} /\ Writes(r)' = {}
  BY <1>e DEF Becomes, Writes
<1>1. ASSUME NEW r \in Senders, Starts(r) \/ Answers(r) \/ Closes(r) \/ SenderDies(r)
      PROVE  InOrder(r)'
  <2>1. CASE plan_dm(r)
    BY <2>1, PlanFacts DEF Becomes
  <2>2. CASE commit(r)
    BY <1>e, <2>2, CommitFacts DEF Becomes
  <2>3. CASE SendOnly(r)
    BY <1>e, <2>3, SendOnlyFacts DEF Becomes
  <2>4. CASE claim_due(r)
    BY <1>e, <2>4, ClaimFacts DEF Becomes
  <2>5. CASE load_occurrence(r)
    BY <1>e, <2>5, LoadFacts DEF Becomes
  <2>6. CASE Answers(r)
    <3>1. PICK k \in sender[r].todo, pc \in {"posted", "denied", "barred"} :
            sender[r].pc = "loaded" /\ Becomes(r, pc, sender[r].todo, k, {})
      BY <2>6, AnswerFacts DEF Answers
    <3> QED
      BY <1>e, <3>1 DEF Becomes
  <2>7. CASE Closes(r)
    <3>1. PICK k \in sender[r].todo : Turn(r, NextRow(r, k))
      BY <2>7, CloseFacts DEF Closes
    <3> QED
      BY <1>e, <3>1, NextRowFacts DEF Becomes
  <2>8. CASE SenderDies(r)
    BY <1>e, <2>8, RestFacts DEF Becomes, SenderDies
  <2> QED
    BY <1>1, <2>1, <2>2, <2>3, <2>4, <2>5, <2>6, <2>7, <2>8 DEF Starts
<1>2. CASE \E r \in Senders : Starts(r) \/ Answers(r) \/ Closes(r) \/ SenderDies(r)
  <2>1. PICK r \in Senders : Starts(r) \/ Answers(r) \/ Closes(r) \/ SenderDies(r)
    BY <1>2
  <2>2. InOrder(r)' /\ OnlyMoves(r)
    BY <1>1, <2>1, RunsMoveAlone
  <2>3. \A q \in Senders : q # r => InOrder(q)'
    BY <1>0, <2>2 DEF OnlyMoves, Writes
  <2> QED
    BY <2>2, <2>3 DEF RunsAreInOrder
<1>3. CASE UNCHANGED sender
  BY <1>3 DEF RunsAreInOrder, Writes
<1> QED
  BY <1>2, <1>3, StepKinds, OutsideFacts, LockFacts DEF dmVars

\* A row that is not locked is in no plan; one that is stays as it is but for its backoff.
LEMMA LockedRows ==
  ASSUME DmTypeOK, PlansAreSound, NEW r \in Senders, NEW k \in Writes(r)
  PROVE  /\ k \in Keys /\ k \in sender[r].held /\ IsLocked(k) /\ PlanFits(dm[k], sender[r].plan[k])
         /\ \A q \in Senders : q # r => k \notin sender[q].held
  BY DEF PlansAreSound, IsLocked, Writes

LEMMA PlansStep ==
  ASSUME DmTypeOK, RunsAreInOrder, PlansAreSound, [DmNext]_dmVars
  PROVE  PlansAreSound'
<1> DEFINE Sound(r) == \A k \in Writes(r) :
                         k \in sender[r].held /\ PlanFits(dm[k], sender[r].plan[k])
           Apart(r, q) == sender[r].held \cap sender[q].held = {}
<1>0. \A r \in Senders : Sound(r) /\ \A q \in Senders : r # q => Apart(r, q)
  BY DEF PlansAreSound
<1>s. SUFFICES \A r \in Senders : Sound(r)' /\ \A q \in Senders : r # q => Apart(r, q)'
  BY DEF PlansAreSound
<1>f. ASSUME NEW a, NEW b, NEW c, PlanFits(a, c), a.state = b.state, a.attempts = b.attempts,
             a.old = b.old
      PROVE  PlanFits(b, c)
  BY <1>f DEF PlanFits, IsLoose
\* What no step of the run changes while the run has it locked.
<1>u. ASSUME NEW r \in Senders, sender'[r] = sender[r],
             \A k \in Writes(r) : /\ dm'[k].state = dm[k].state /\ dm'[k].old = dm[k].old
                                 /\ dm'[k].attempts = dm[k].attempts
      PROVE  Sound(r)'
  <2>1. Writes(r)' = Writes(r)
    BY <1>u DEF Writes
  <2>2. ASSUME NEW k \in Writes(r)
        PROVE  k \in sender[r].held /\ PlanFits(dm'[k], sender[r].plan[k])
    BY <1>0, <1>f, <1>u, <2>2
  <2> QED
    BY <1>u, <2>1, <2>2
<1>m. ASSUME NEW r \in Senders, NEW pc, NEW todo, NEW key, Becomes(r, pc, todo, key, {}),
             \A q \in Senders \ {r} : \A k \in Writes(q) : dm'[k] = dm[k]
      PROVE  \A u \in Senders : Sound(u)' /\ \A q \in Senders : u # q => Apart(u, q)'
  <2>1. /\ sender'[r].held = {} /\ Writes(r)' = {}
        /\ \A q \in Senders \ {r} : sender'[q] = sender[q]
    BY <1>m DEF Becomes, OnlyMoves, Writes
  <2>2. \A q \in Senders \ {r} : Sound(q)'
    BY <1>m, <1>u, <2>1
  <2>3. \A u \in Senders, q \in Senders : u # q => Apart(u, q)'
    BY <1>0, <2>1
  <2> QED
    BY <2>1, <2>2, <2>3
<1>1. ASSUME NEW r \in Senders, Starts(r) \/ Answers(r) \/ Closes(r) \/ SenderDies(r)
      PROVE  \A u \in Senders : Sound(u)' /\ \A q \in Senders : u # q => Apart(u, q)'
  <2>1. CASE plan_dm(r)
    <3>1. PICK held \in SUBSET Keys :
            /\ Becomes(r, "planned", {}, NoKey, held)
            /\ \A q \in Senders : sender[q].held \cap held = {}
            /\ \A k \in Keys : sender'[r].plan[k] = IF PlanRow(k) = dm[k] THEN NoReminder
                                                    ELSE PlanRow(k)
            /\ dm' = dm
      BY <2>1, PlanFacts
    <3>2. /\ sender'[r].held = held /\ \A q \in Senders \ {r} : sender'[q] = sender[q]
          /\ \A k \in Keys : k \notin held => sender'[r].plan[k].state = "absent"
      BY <3>1 DEF Becomes, OnlyMoves
    <3>3. ASSUME NEW k \in Writes(r)'
          PROVE  k \in held /\ PlanFits(dm[k], sender'[r].plan[k])
      <4>1. k \in Keys /\ sender'[r].plan[k].state # "absent"
        BY <3>3 DEF Writes
      <4>2. PlanRow(k) # dm[k] /\ sender'[r].plan[k] = PlanRow(k)
        BY <3>1, <4>1, NoReminderTyped
      <4>3. Mild(dm[k], PlanRow(k))
        BY <4>1, PlanRowMild
      <4> QED
        BY <3>2, <4>1, <4>2, <4>3 DEF Mild, PlanFits
    <3>4. Sound(r)'
      BY <3>1, <3>2, <3>3
    <3>5. \A q \in Senders \ {r} : Sound(q)'
      BY <1>u, <3>1, <3>2
    <3>6. \A u \in Senders, q \in Senders : u # q => Apart(u, q)'
      BY <1>0, <3>1, <3>2
    <3> QED
      BY <3>4, <3>5, <3>6
  <2>2. CASE commit(r)
    <3>1. \A q \in Senders \ {r} : \A k \in Writes(q) : k \in Keys /\ k \notin Writes(r)
      BY LockedRows
    <3> QED
      BY <1>m, <2>2, <3>1, CommitFacts
  <2>3. CASE SendOnly(r)
    BY <1>m, <2>3, SendOnlyFacts
  <2>4. CASE claim_due(r)
    <3>1. PICK due \in SUBSET Keys :
            /\ \A k \in due : ~IsLocked(k)
            /\ Becomes(r, IF due = {} THEN "idle" ELSE "sending", due, NoKey, {})
            /\ \A k \in Keys : k \notin due => dm'[k] = dm[k]
      BY <2>4, ClaimFacts
    <3>2. \A q \in Senders : \A k \in Writes(q) : dm'[k] = dm[k]
      BY <3>1, LockedRows
    <3> QED
      BY <1>m, <3>1, <3>2
  <2>5. CASE load_occurrence(r)
    BY <1>m, <2>5, LoadFacts
  <2>6. CASE Answers(r)
    BY <1>m, <2>6, AnswerFacts, StepLeaves DEF Answers
  <2>7. CASE Closes(r)
    <3>1. PICK k \in sender[r].todo :
            /\ Turn(r, NextRow(r, k)) /\ k \in Keys /\ ~IsLocked(k)
            /\ \A j \in Keys : j # k => dm'[j] = dm[j]
      BY <2>7, CloseFacts DEF Closes
    <3>2. \A q \in Senders : \A j \in Writes(q) : dm'[j] = dm[j]
      BY <3>1, LockedRows
    <3>3. PICK pc \in {"idle", "sending"} : Becomes(r, pc, sender[r].todo \ {k}, NoKey, {})
      BY <3>1, NextRowFacts
    <3> QED
      BY <1>m, <3>2, <3>3
  <2>8. CASE SenderDies(r)
    BY <1>m, <2>8, RestFacts DEF SenderDies
  <2> QED
    BY <1>1, <2>1, <2>2, <2>3, <2>4, <2>5, <2>6, <2>7, <2>8 DEF Starts
<1>o. ASSUME UNCHANGED sender,
             \A r \in Senders : \A k \in Writes(r) :
               /\ dm'[k].state = dm[k].state /\ dm'[k].old = dm[k].old
               /\ dm'[k].attempts = dm[k].attempts
      PROVE  \A u \in Senders : Sound(u)' /\ \A q \in Senders : u # q => Apart(u, q)'
  BY <1>0, <1>o, <1>u
<1>2. ASSUME NEW k \in Keys, LockGrowsOld(k)
      PROVE  \A u \in Senders : Sound(u)' /\ \A q \in Senders : u # q => Apart(u, q)'
  <2>1. dm[k].state = "sending" /\ ~dm[k].old /\ UNCHANGED sender
        /\ \A j \in Keys : j # k => dm'[j] = dm[j]
    BY <1>2, LockFacts
  <2>2. \A r \in Senders : k \notin Writes(r)
    BY <2>1, LockedRows DEF PlanFits, IsLoose
  <2>3. \A r \in Senders : \A j \in Writes(r) : dm'[j] = dm[j]
    BY <2>1, <2>2, LockedRows
  <2> QED
    BY <1>o, <2>1, <2>3
<1>3. CASE Outside
  <2>1. UNCHANGED sender
    BY <1>3, OutsideFacts
  <2>2. ASSUME NEW r \in Senders, NEW k \in Writes(r)
        PROVE  /\ dm'[k].state = dm[k].state /\ dm'[k].old = dm[k].old
               /\ dm'[k].attempts = dm[k].attempts
    BY <1>3, <2>2, LockedRows, OutsideFacts DEF AgeRow
  <2> QED
    BY <1>o, <2>1, <2>2
<1>4. CASE UNCHANGED dmVars
  BY <1>4, <1>o DEF dmVars
<1> QED
  BY <1>1, <1>2, <1>3, <1>4, StepKinds

(***************************************************************************)
(* Each message is paid for.                                               *)
(***************************************************************************)
LEMMA UnpostedCounts ==
  ASSUME NEW k
  PROVE  /\ Cardinality(Unposted(k)) \in Nat /\ Cardinality(Unposted(k)') \in Nat
         /\ Unposted(k)' \subseteq Unposted(k) =>
              Cardinality(Unposted(k)') <= Cardinality(Unposted(k))
         /\ \A r \in Senders :
              /\ Unposted(k)' \subseteq Unposted(k) \cup {r} =>
                   Cardinality(Unposted(k)') <= Cardinality(Unposted(k)) + 1
              /\ r \in Unposted(k) /\ Unposted(k)' \subseteq Unposted(k) \ {r} =>
                   Cardinality(Unposted(k)') <= Cardinality(Unposted(k)) - 1
<1> DEFINE A == Unposted(k)
           B == Unposted(k)'
<1>0. A \subseteq Senders /\ B \subseteq Senders
  BY DEF Unposted
<1> HIDE DEF A, B
<1>1. IsFiniteSet(A) /\ IsFiniteSet(B)
  BY <1>0, ScheduleAssumption, FS_Subset
<1>2. Cardinality(A) \in Nat /\ Cardinality(B) \in Nat
  BY <1>1, FS_CardinalityType
<1>3. B \subseteq A => Cardinality(B) <= Cardinality(A)
  BY <1>1, FS_Subset
<1>4. ASSUME NEW r \in Senders, B \subseteq A \cup {r}
      PROVE  Cardinality(B) <= Cardinality(A) + 1
  <2>1. IsFiniteSet(A \cup {r}) /\ Cardinality(A \cup {r}) \in Nat
        /\ Cardinality(A \cup {r}) <= Cardinality(A) + 1
    <3>1. CASE r \in A
      <4>1. A \cup {r} = A
        BY <3>1
      <4> QED
        BY <1>1, <1>2, <4>1
    <3>2. CASE r \notin A
      <4>1. IsFiniteSet(A \cup {r}) /\ Cardinality(A \cup {r}) = Cardinality(A) + 1
        BY <1>1, <3>2, FS_AddElement
      <4> QED
        BY <1>2, <4>1
    <3> QED
      BY <3>1, <3>2
  <2>2. Cardinality(B) <= Cardinality(A \cup {r})
    BY <1>4, <2>1, FS_Subset
  <2> QED
    BY <1>2, <2>1, <2>2
<1>5. ASSUME NEW r \in Senders, r \in A, B \subseteq A \ {r}
      PROVE  Cardinality(B) <= Cardinality(A) - 1
  <2>1. IsFiniteSet(A \ {r}) /\ Cardinality(A \ {r}) = Cardinality(A) - 1
    BY <1>1, <1>5, FS_RemoveElement
  <2>2. Cardinality(B) <= Cardinality(A \ {r})
    BY <1>5, <2>1, FS_Subset
  <2> QED
    BY <2>1, <2>2
<1> QED
  BY <1>2, <1>3, <1>4, <1>5 DEF A, B

LEMMA OthersUnposted ==
  ASSUME NEW r \in Senders, OnlyMoves(r), NEW k
  PROVE  Unposted(k)' \subseteq Unposted(k) \cup {r} /\ Unposted(k) \subseteq Unposted(k)' \cup {r}
  BY DEF OnlyMoves, Unposted

\* How a step may move what is paid for one reminder.
LEMMA PaidFor ==
  ASSUME DmTypeOK, DmTypeOK', NEW k \in Keys, Budget(k), NEW r \in Senders,
         \/ /\ UNCHANGED <<posts[k], lapses[k], lostAnswers[k]>>
            /\ Unposted(k)' \subseteq Unposted(k)
            /\ IsLoose(dm'[k]) => IsLoose(dm[k])
         \/ /\ UNCHANGED <<posts[k], lapses[k], lostAnswers[k]>>
            /\ Unposted(k)' \subseteq Unposted(k) \cup {r}
            /\ IsLoose(dm[k]) /\ ~IsLoose(dm'[k])
         \/ /\ UNCHANGED <<posts[k], lapses[k], lostAnswers[k]>>
            /\ r \in Unposted(k) /\ Unposted(k)' \subseteq Unposted(k) \ {r}
         \/ /\ UNCHANGED <<dm[k], lapses[k], lostAnswers[k]>> /\ posts'[k] = posts[k] + 1
            /\ r \in Unposted(k) /\ Unposted(k)' \subseteq Unposted(k) \ {r}
         \/ /\ UNCHANGED <<dm[k], lapses[k]>>
            /\ posts'[k] = posts[k] + 1 /\ lostAnswers'[k] = lostAnswers[k] + 1
            /\ Unposted(k)' \subseteq Unposted(k)
         \/ /\ UNCHANGED <<posts[k], lostAnswers[k]>> /\ lapses'[k] = lapses[k] + 1
            /\ Unposted(k)' \subseteq Unposted(k)
  PROVE  Budget(k)'
<1>1. /\ posts[k] \in Nat /\ lapses[k] \in Nat /\ lostAnswers[k] \in Nat
      /\ posts'[k] \in Nat /\ lapses'[k] \in Nat /\ lostAnswers'[k] \in Nat
  BY DEF DmTypeOK
<1> DEFINE n == Cardinality(Unposted(k))
           m == Cardinality(Unposted(k)')
           x == IF IsLoose(dm[k]) THEN 1 ELSE 0
           y == IF IsLoose(dm'[k]) THEN 1 ELSE 0
<1>2. /\ n \in Nat /\ m \in Nat
      /\ Unposted(k)' \subseteq Unposted(k) => m <= n
      /\ Unposted(k)' \subseteq Unposted(k) \cup {r} => m <= n + 1
      /\ r \in Unposted(k) /\ Unposted(k)' \subseteq Unposted(k) \ {r} => m <= n - 1
  BY UnpostedCounts
<1>3. /\ x \in {0, 1} /\ y \in {0, 1}
      /\ (IsLoose(dm'[k]) => IsLoose(dm[k])) => y <= x
      /\ IsLoose(dm[k]) /\ ~IsLoose(dm'[k]) => x = 1 /\ y = 0
      /\ dm'[k] = dm[k] => x = y
  OBVIOUS
<1>4. posts[k] + n + x <= 1 + lapses[k] + lostAnswers[k]
  BY DEF Budget
<1> HIDE DEF n, m, x, y
<1>5. posts'[k] + m + y <= 1 + lapses'[k] + lostAnswers'[k]
  <2>1. CASE /\ UNCHANGED <<posts[k], lapses[k], lostAnswers[k]>> /\ m <= n /\ y <= x
    BY <1>1, <1>2, <1>3, <1>4, <2>1
  <2>2. CASE /\ UNCHANGED <<posts[k], lapses[k], lostAnswers[k]>> /\ m <= n + 1 /\ x = 1 /\ y = 0
    BY <1>1, <1>2, <1>3, <1>4, <2>2
  <2>3. CASE /\ UNCHANGED <<posts[k], lapses[k], lostAnswers[k]>> /\ m <= n - 1
    BY <1>1, <1>2, <1>3, <1>4, <2>3
  <2>4. CASE /\ UNCHANGED <<lapses[k], lostAnswers[k]>> /\ posts'[k] = posts[k] + 1 /\ m <= n - 1
             /\ x = y
    BY <1>1, <1>2, <1>3, <1>4, <2>4
  <2>5. CASE /\ UNCHANGED lapses[k] /\ posts'[k] = posts[k] + 1 /\ m <= n /\ x = y
             /\ lostAnswers'[k] = lostAnswers[k] + 1
    BY <1>1, <1>2, <1>3, <1>4, <2>5
  <2>6. CASE /\ UNCHANGED <<posts[k], lostAnswers[k]>> /\ lapses'[k] = lapses[k] + 1 /\ m <= n
             /\ ~IsLoose(dm[k])
    BY <1>1, <1>2, <1>3, <1>4, <2>6
  <2>7. CASE /\ UNCHANGED <<posts[k], lostAnswers[k]>> /\ lapses'[k] = lapses[k] + 1 /\ m <= n
    BY <1>1, <1>2, <1>3, <1>4, <2>7
  <2> QED
    BY <1>2, <1>3, <2>1, <2>2, <2>3, <2>4, <2>5, <2>7
<1> QED
  BY <1>5 DEF Budget, n, m, x, y

LEMMA BudgetStep ==
  ASSUME DmTypeOK, DmTypeOK', RunsAreInOrder, PlansAreSound, PostsArePaid, [DmNext]_dmVars
  PROVE  PostsArePaid'
<1>0. SUFFICES ASSUME NEW k \in Keys
               PROVE  Budget(k)'
  BY DEF PostsArePaid
<1>b. Budget(k)
  BY DEF PostsArePaid
<1>c. /\ posts \in [Keys -> Nat] /\ lapses \in [Keys -> Nat] /\ lostAnswers \in [Keys -> Nat]
      /\ \A r \in Senders : sender[r].todo \subseteq Keys
  BY SenderTyped DEF DmTypeOK, SenderSteps
<1>h. ASSUME NEW r \in Senders, k \in sender[r].todo, sender[r].pc # "posted"
      PROVE  r \in Unposted(k)
  BY <1>h DEF Unposted
\* A run that lets go of everything, or claims nothing.
<1>e. ASSUME NEW r \in Senders, OnlyMoves(r), k \notin sender'[r].todo
      PROVE  Unposted(k)' \subseteq Unposted(k) \ {r}
  BY <1>e DEF OnlyMoves, Unposted
<1>1. ASSUME NEW r \in Senders, plan_dm(r) \/ commit(r) \/ SendOnly(r) \/ SenderDies(r)
      PROVE  Budget(k)'
  <2>1. OnlyMoves(r) /\ sender'[r].todo = {}
    BY <1>1, PlanFacts, CommitFacts, SendOnlyFacts, RestFacts DEF Becomes, SenderDies
  <2>2. Unposted(k)' \subseteq Unposted(k)
    BY <1>e, <2>1
  <2>3. IsLoose(dm'[k]) => IsLoose(dm[k])
    <3>1. CASE plan_dm(r)
      BY <3>1, PlanFacts
    <3>2. CASE commit(r)
      BY <3>2, CommitFacts, LockedRows DEF PlanFits
    <3>3. CASE SendOnly(r) \/ SenderDies(r)
      BY <3>3 DEF SendOnly, SenderDies
    <3> QED
      BY <1>1, <3>1, <3>2, <3>3
  <2>4. UNCHANGED <<posts, lapses, lostAnswers>>
    BY <1>1, StepLeaves DEF Starts
  <2> QED
    BY <1>b, <2>2, <2>3, <2>4, PaidFor
<1>2. ASSUME NEW r \in Senders, claim_due(r)
      PROVE  Budget(k)'
  <2>1. PICK due \in SUBSET Keys :
          /\ \A j \in due : dm[j].state \in Queued
          /\ OnlyMoves(r) /\ sender'[r].todo = due
          /\ \A j \in due : dm'[j].state = "sending" /\ ~dm'[j].old
          /\ \A j \in Keys : j \notin due => dm'[j] = dm[j]
    BY <1>2, ClaimFacts DEF Becomes
  <2>2. UNCHANGED <<posts, lapses, lostAnswers>>
    BY <1>2, StepLeaves DEF Starts
  <2>3. CASE k \in due
    <3>1. IsLoose(dm[k]) /\ ~IsLoose(dm'[k])
      BY <2>1, <2>3 DEF IsLoose, Queued
    <3>2. Unposted(k)' \subseteq Unposted(k) \cup {r}
      BY <2>1, OthersUnposted
    <3> QED
      BY <1>b, <2>2, <3>1, <3>2, PaidFor
  <2>4. CASE k \notin due
    <3>1. Unposted(k)' \subseteq Unposted(k) /\ dm'[k] = dm[k]
      BY <1>e, <2>1, <2>4
    <3> QED
      BY <1>b, <2>2, <3>1, PaidFor
  <2> QED
    BY <2>3, <2>4
<1>3. ASSUME NEW r \in Senders, load_occurrence(r)
      PROVE  Budget(k)'
  <2>1. /\ OnlyMoves(r) /\ sender'[r].todo = sender[r].todo /\ sender'[r].pc = "loaded"
        /\ sender[r].pc = "sending" /\ dm' = dm
    BY <1>3, LoadFacts DEF Becomes
  <2>2. Unposted(k)' \subseteq Unposted(k)
    BY <2>1 DEF OnlyMoves, Unposted
  <2>3. UNCHANGED <<posts, lapses, lostAnswers>>
    BY <1>3, StepLeaves DEF Starts
  <2> QED
    BY <1>b, <2>1, <2>2, <2>3, PaidFor
<1>4. ASSUME NEW r \in Senders, Answers(r)
      PROVE  Budget(k)'
  <2>1. PICK j \in sender[r].todo :
          /\ sender[r].pc = "loaded" /\ sender[r].key = j /\ j \in Keys
          /\ \/ Posted(r) /\ Becomes(r, "posted", sender[r].todo, j, {})
             \/ /\ Denied(r)
                /\ \E pc \in {"denied", "barred"} : Becomes(r, pc, sender[r].todo, j, {})
             \/ AnswerIsLost(r) /\ Becomes(r, "denied", sender[r].todo, j, {})
          /\ dm' = dm
    BY <1>4, AnswerFacts DEF Answers
  <2>2. OnlyMoves(r) /\ sender'[r].todo = sender[r].todo /\ lapses' = lapses
    BY <1>4, <2>1, StepLeaves DEF Becomes
  <2>3. Unposted(k)' \subseteq Unposted(k)
    BY <2>1, <2>2 DEF OnlyMoves, Unposted
  <2>4. CASE Posted(r) /\ k = j /\ Becomes(r, "posted", sender[r].todo, j, {})
    <3>1. r \in Unposted(k)
      BY <1>h, <2>1, <2>4
    <3>2. r \notin Unposted(k)'
      BY <2>4 DEF Becomes, Unposted
    <3>3. /\ posts'[k] = posts[k] + 1 /\ lostAnswers' = lostAnswers
      BY <1>c, <2>1, <2>4 DEF Posted
    <3> QED
      BY <1>b, <2>1, <2>2, <2>3, <3>1, <3>2, <3>3, PaidFor
  <2>5. CASE Denied(r) \/ (k # j /\ (Posted(r) \/ AnswerIsLost(r)))
    <3>1. posts'[k] = posts[k] /\ lostAnswers'[k] = lostAnswers[k]
      BY <1>c, <2>1, <2>5 DEF Posted, Denied, AnswerIsLost
    <3> QED
      BY <1>b, <2>1, <2>2, <2>3, <3>1, PaidFor
  <2>6. CASE AnswerIsLost(r) /\ k = j
    <3>1. posts'[k] = posts[k] + 1 /\ lostAnswers'[k] = lostAnswers[k] + 1
      BY <1>c, <2>1, <2>6 DEF AnswerIsLost
    <3> QED
      BY <1>b, <2>1, <2>2, <2>3, <3>1, PaidFor
  <2> QED
    BY <2>1, <2>4, <2>5, <2>6
<1>5. ASSUME NEW r \in Senders, Closes(r)
      PROVE  Budget(k)'
  <2>1. PICK j \in sender[r].todo :
          /\ j \in Keys /\ Turn(r, NextRow(r, j))
          /\ ~dm'[j].old
          /\ \A i \in Keys : i # j => dm'[i] = dm[i]
          /\ ClosedAs(r, j)
    BY <1>5, CloseFacts DEF Closes
  <2>2. OnlyMoves(r) /\ sender'[r].todo = sender[r].todo \ {j}
    BY <2>1, NextRowFacts DEF Becomes
  <2>3. UNCHANGED <<posts, lapses, lostAnswers>>
    BY <1>5, StepLeaves
  <2>4. CASE k = j /\ sender[r].pc # "posted"
    <3>1. r \in Unposted(k)
      BY <1>h, <2>4
    <3>2. Unposted(k)' \subseteq Unposted(k) \ {r}
      BY <1>e, <2>2, <2>4
    <3> QED
      BY <1>b, <2>3, <3>1, <3>2, PaidFor
  <2>5. CASE k = j /\ sender[r].pc = "posted"
    <3>1. ~IsLoose(dm'[k])
      BY <2>1, <2>5 DEF ClosedAs, IsLoose
    <3>2. Unposted(k)' \subseteq Unposted(k)
      BY <1>e, <2>2, <2>5
    <3> QED
      BY <1>b, <2>3, <3>1, <3>2, PaidFor
  <2>6. CASE k # j
    <3>1. dm'[k] = dm[k]
      BY <2>1, <2>6
    <3>2. k \in sender[r].todo => ~(sender[r].pc = "posted" /\ sender[r].key = k)
      BY <2>1, <2>6 DEF ClosedAs
    <3>3. Unposted(k)' \subseteq Unposted(k)
      BY <2>2, <2>6, <3>2 DEF OnlyMoves, Unposted
    <3> QED
      BY <1>b, <2>3, <3>1, <3>3, PaidFor
  <2> QED
    BY <2>4, <2>5, <2>6
<1>t. PICK r \in Senders : TRUE
  BY ScheduleAssumption
<1>6. CASE Outside \/ UNCHANGED dmVars
  <2>1. UNCHANGED <<sender, posts, lapses, lostAnswers>>
    BY <1>6, OutsideFacts DEF dmVars
  <2>2. IsLoose(dm'[k]) => IsLoose(dm[k])
    BY <1>6, OutsideFacts DEF dmVars, CancelRow, AgeRow, IsLoose, Queued
  <2>3. Unposted(k)' = Unposted(k)
    BY <2>1 DEF Unposted
  <2> QED
    BY <1>b, <1>t, <2>1, <2>2, <2>3, PaidFor
<1>7. ASSUME NEW j \in Keys, LockGrowsOld(j)
      PROVE  Budget(k)'
  <2>1. /\ UNCHANGED <<sender, posts, lostAnswers>>
        /\ IF k = j THEN lapses'[k] = lapses[k] + 1 ELSE lapses'[k] = lapses[k] /\ dm'[k] = dm[k]
    BY <1>7, <1>c, LockFacts
  <2>2. Unposted(k)' = Unposted(k)
    BY <2>1 DEF Unposted
  <2> QED
    BY <1>b, <1>t, <2>1, <2>2, PaidFor
<1> QED
  BY <1>1, <1>2, <1>3, <1>4, <1>5, <1>6, <1>7, StepKinds DEF Starts

(***************************************************************************)
(* Tries are counted.                                                      *)
(***************************************************************************)
\* Whoever held the row still does, and the row says the same of its tries.
LEMMA SameTries ==
  ASSUME DmTypeOK, NEW k \in Keys, Tried(k), UNCHANGED <<errors[k], lapses[k]>>,
         dm'[k].old => dm[k].old, dm'[k].attempts = dm[k].attempts,
         IsLoose(dm'[k]) => IsLoose(dm[k]),
         Holders(k) # {} /\ dm[k].state = "sending" /\ ~dm[k].old => dm'[k].state = "sending",
         \A r \in Holders(k)' : /\ r \in Holders(k) /\ sender'[r].tries[k] = sender[r].tries[k]
                                /\ IsFailing(r, k)' <=> IsFailing(r, k)
  PROVE  Tried(k)'
<1>1. SUFFICES ASSUME lapses[k] = 0
               PROVE  /\ ~dm'[k].old /\ errors[k] <= DmAttempts
                      /\ IsLoose(dm'[k]) => errors[k] <= dm[k].attempts /\ errors[k] < DmAttempts
                      /\ \A r \in Holders(k)' :
                           /\ dm'[k].state = "sending" /\ sender'[r].tries[k] = dm[k].attempts
                           /\ Holders(k)' = {r}
                           /\ IF IsFailing(r, k) THEN errors[k] <= dm[k].attempts + 1
                              ELSE errors[k] <= dm[k].attempts /\ errors[k] < DmAttempts
  BY DEF Tried
<1>2. /\ ~dm'[k].old /\ errors[k] <= DmAttempts
      /\ IsLoose(dm'[k]) => errors[k] <= dm[k].attempts /\ errors[k] < DmAttempts
  BY <1>1 DEF Tried
<1>3. ASSUME NEW r \in Holders(k)'
      PROVE  /\ dm'[k].state = "sending" /\ sender'[r].tries[k] = dm[k].attempts
             /\ Holders(k)' = {r}
             /\ IF IsFailing(r, k) THEN errors[k] <= dm[k].attempts + 1
                ELSE errors[k] <= dm[k].attempts /\ errors[k] < DmAttempts
  <2>1. r \in Holders(k) /\ sender'[r].tries[k] = sender[r].tries[k]
    BY <1>3
  <2>2. /\ ~dm[k].old /\ dm[k].state = "sending" /\ sender[r].tries[k] = dm[k].attempts
        /\ Holders(k) = {r}
        /\ IF IsFailing(r, k) THEN errors[k] <= dm[k].attempts + 1
           ELSE errors[k] <= dm[k].attempts /\ errors[k] < DmAttempts
    BY <1>1, <2>1 DEF Tried
  <2>3. Holders(k)' = {r}
    BY <1>3, <2>2
  <2> QED
    BY <2>1, <2>2, <2>3
<1> QED
  BY <1>2, <1>3

\* What a run's step does to who holds a row it does not touch.
LEMMA SameHolders ==
  ASSUME NEW r \in Senders, OnlyMoves(r), NEW k,
         k \in sender'[r].todo =>
           /\ k \in sender[r].todo /\ sender'[r].tries[k] = sender[r].tries[k]
           /\ IsFailing(r, k)' <=> IsFailing(r, k)
  PROVE  \A q \in Holders(k)' : /\ q \in Holders(k) /\ sender'[q].tries[k] = sender[q].tries[k]
                                /\ IsFailing(q, k)' <=> IsFailing(q, k)
  BY DEF OnlyMoves, Holders, IsFailing

LEMMA TriesStep ==
  ASSUME DmTypeOK, DmTypeOK', RunsAreInOrder, PlansAreSound, TriesAreCounted, [DmNext]_dmVars
  PROVE  TriesAreCounted'
<1>0. SUFFICES ASSUME NEW k \in Keys
               PROVE  Tried(k)'
  BY DEF TriesAreCounted
<1>b. Tried(k)
  BY DEF TriesAreCounted
<1>c. /\ errors[k] \in Nat /\ errors'[k] \in Nat /\ lapses[k] \in Nat /\ lapses'[k] \in Nat
      /\ dm[k] \in DmRows /\ dm'[k] \in DmRows /\ DmAttempts \in Nat /\ NoKey # k
      /\ dm[k].attempts \in Nat /\ dm'[k].attempts \in Nat
  BY ScheduleAssumption DEF DmTypeOK, DmRows
<1>1. ASSUME NEW r \in Senders, plan_dm(r) \/ SendOnly(r) \/ SenderDies(r)
      PROVE  Tried(k)'
  <2>1. OnlyMoves(r) /\ sender'[r].todo = {}
    BY <1>1, PlanFacts, SendOnlyFacts, RestFacts DEF Becomes, SenderDies
  <2>2. /\ dm'[k].old => dm[k].old
        /\ dm'[k].attempts = dm[k].attempts
        /\ IsLoose(dm'[k]) => IsLoose(dm[k])
        /\ dm[k].state = "sending" /\ ~dm[k].old => dm'[k].state = "sending"
    <3>1. CASE plan_dm(r)
      BY <3>1, PlanFacts
    <3>2. CASE SendOnly(r) \/ SenderDies(r)
      BY <3>2 DEF SendOnly, SenderDies
    <3> QED
      BY <1>1, <3>1, <3>2
  <2>3. UNCHANGED <<errors, lapses>>
    BY <1>1, StepLeaves DEF Starts
  <2>4. \A q \in Holders(k)' : /\ q \in Holders(k) /\ sender'[q].tries[k] = sender[q].tries[k]
                               /\ IsFailing(q, k)' <=> IsFailing(q, k)
    BY <2>1, SameHolders
  <2> QED
    BY <1>b, <2>2, <2>3, <2>4, SameTries
<1>2. ASSUME NEW r \in Senders, commit(r)
      PROVE  Tried(k)'
  <2>1. OnlyMoves(r) /\ sender'[r].todo = {}
    BY <1>2, CommitFacts DEF Becomes
  <2>2. UNCHANGED <<errors, lapses>>
    BY <1>2, StepLeaves DEF Starts
  <2>3. \A q \in Holders(k)' : /\ q \in Holders(k) /\ sender'[q].tries[k] = sender[q].tries[k]
                               /\ IsFailing(q, k)' <=> IsFailing(q, k)
    BY <2>1, SameHolders
  <2>4. CASE k \in Writes(r)
    <3>1. PlanFits(dm[k], dm'[k])
      BY <1>2, <2>4, CommitFacts, LockedRows
    <3>2. /\ dm'[k].attempts = dm[k].attempts
          /\ dm'[k].old => dm[k].old
          /\ IsLoose(dm[k])
      BY <3>1 DEF PlanFits
    <3>3. ~(dm[k].state = "sending" /\ ~dm[k].old)
      BY <3>2 DEF IsLoose
    <3> QED
      BY <1>b, <2>2, <2>3, <3>2, <3>3, SameTries
  <2>5. CASE k \notin Writes(r)
    <3>1. dm'[k] = dm[k]
      BY <1>2, <2>5, CommitFacts
    <3> QED
      BY <1>b, <2>2, <2>3, <3>1, SameTries
  <2> QED
    BY <2>4, <2>5
<1>3. ASSUME NEW r \in Senders, claim_due(r)
      PROVE  Tried(k)'
  <2>1. PICK due \in SUBSET Keys :
          /\ \A j \in due : dm[j].state \in Queued
          /\ OnlyMoves(r) /\ sender'[r].todo = due /\ sender'[r].key = NoKey
          /\ \A j \in due : sender'[r].tries[j] = dm[j].attempts
          /\ \A j \in due : /\ dm'[j].state = "sending" /\ ~dm'[j].old
                            /\ dm'[j].attempts = dm[j].attempts
          /\ \A j \in Keys : j \notin due => dm'[j] = dm[j]
    BY <1>3, ClaimFacts DEF Becomes
  <2>2. UNCHANGED <<errors, lapses>>
    BY <1>3, StepLeaves DEF Starts
  <2>3. CASE k \in due
    <3>1. SUFFICES ASSUME lapses[k] = 0
                   PROVE  Tried(k)'
      BY <2>2 DEF Tried
    <3>2. IsLoose(dm[k]) /\ dm[k].state # "sending"
      BY <2>1, <2>3 DEF IsLoose, Queued
    <3>3. Holders(k) = {} /\ errors[k] <= dm[k].attempts /\ errors[k] < DmAttempts
      BY <1>b, <3>1, <3>2 DEF Tried
    <3>4. Holders(k)' = {r}
      BY <2>1, <2>3, <3>3 DEF Holders, OnlyMoves
    <3>5. ~IsFailing(r, k)'
      BY <1>c, <2>1 DEF IsFailing
    <3>6. /\ dm'[k].state = "sending" /\ ~dm'[k].old /\ dm'[k].attempts = dm[k].attempts
          /\ sender'[r].tries[k] = dm'[k].attempts /\ ~IsLoose(dm'[k])
      BY <2>1, <2>3 DEF IsLoose
    <3>7. errors'[k] <= DmAttempts /\ errors'[k] <= dm'[k].attempts /\ errors'[k] < DmAttempts
      BY <1>c, <2>2, <3>3, <3>6
    <3> QED
      BY <3>4, <3>5, <3>6, <3>7 DEF Tried
  <2>4. CASE k \notin due
    <3>1. dm'[k] = dm[k]
      BY <2>1, <2>4
    <3>2. \A q \in Holders(k)' : /\ q \in Holders(k) /\ sender'[q].tries[k] = sender[q].tries[k]
                                 /\ IsFailing(q, k)' <=> IsFailing(q, k)
      BY <2>1, <2>4, SameHolders
    <3> QED
      BY <1>b, <2>2, <3>1, <3>2, SameTries
  <2> QED
    BY <2>3, <2>4
<1>4. ASSUME NEW r \in Senders, load_occurrence(r)
      PROVE  Tried(k)'
  <2>1. /\ OnlyMoves(r) /\ sender'[r].todo = sender[r].todo /\ sender'[r].pc = "loaded"
        /\ sender[r].pc = "sending" /\ dm' = dm /\ sender'[r].tries = sender[r].tries
    BY <1>4, LoadFacts DEF Becomes
  <2>2. UNCHANGED <<errors, lapses>>
    BY <1>4, StepLeaves DEF Starts
  <2>3. \A q \in Holders(k)' : /\ q \in Holders(k) /\ sender'[q].tries[k] = sender[q].tries[k]
                               /\ IsFailing(q, k)' <=> IsFailing(q, k)
    <3>1. ~IsFailing(r, k) /\ ~IsFailing(r, k)'
      BY <2>1 DEF IsFailing
    <3> QED
      BY <2>1, <3>1, SameHolders
  <2> QED
    BY <1>b, <2>1, <2>2, <2>3, SameTries
<1>5. ASSUME NEW r \in Senders, Answers(r)
      PROVE  Tried(k)'
  <2>1. PICK j \in sender[r].todo :
          /\ sender[r].pc = "loaded" /\ sender[r].key = j /\ j \in Keys
          /\ \/ Posted(r) /\ Becomes(r, "posted", sender[r].todo, j, {})
             \/ /\ Denied(r)
                /\ \E pc \in {"denied", "barred"} : Becomes(r, pc, sender[r].todo, j, {})
             \/ AnswerIsLost(r) /\ Becomes(r, "denied", sender[r].todo, j, {})
          /\ sender'[r].tries = sender[r].tries
          /\ dm' = dm
    BY <1>5, AnswerFacts DEF Answers
  <2>2. /\ OnlyMoves(r) /\ sender'[r].todo = sender[r].todo /\ lapses' = lapses
        /\ sender'[r].key = j /\ ~IsFailing(r, k)
    BY <1>5, <2>1, StepLeaves DEF Becomes, IsFailing
  <2>3. CASE Posted(r) /\ Becomes(r, "posted", sender[r].todo, j, {})
    <3>1. ~IsFailing(r, k)' /\ errors' = errors
      BY <2>3 DEF Becomes, IsFailing, Posted
    <3>2. \A q \in Holders(k)' : /\ q \in Holders(k) /\ sender'[q].tries[k] = sender[q].tries[k]
                                 /\ IsFailing(q, k)' <=> IsFailing(q, k)
      BY <2>1, <2>2, <3>1, SameHolders
    <3> QED
      BY <1>b, <2>1, <2>2, <3>1, <3>2, SameTries
  <2>4. CASE (Denied(r) \/ AnswerIsLost(r)) /\ k # j
    <3>1. ~IsFailing(r, k)' /\ errors'[k] = errors[k]
      BY <2>1, <2>2, <2>4 DEF DmTypeOK, IsFailing, Denied, AnswerIsLost
    <3>2. \A q \in Holders(k)' : /\ q \in Holders(k) /\ sender'[q].tries[k] = sender[q].tries[k]
                                 /\ IsFailing(q, k)' <=> IsFailing(q, k)
      BY <2>1, <2>2, <3>1, SameHolders
    <3> QED
      BY <1>b, <2>1, <2>2, <3>1, <3>2, SameTries
  <2>5. CASE /\ Denied(r) \/ AnswerIsLost(r)
             /\ k = j /\ sender'[r].pc \in {"denied", "barred"}
    <3>1. SUFFICES ASSUME lapses[k] = 0
                   PROVE  Tried(k)'
      BY <2>2 DEF Tried
    <3>2. errors'[k] = errors[k] + 1
      BY <2>1, <2>5 DEF DmTypeOK, Denied, AnswerIsLost
    <3>3. r \in Holders(k)
      BY <2>1, <2>5 DEF Holders
    <3>4. /\ ~dm[k].old /\ dm[k].state = "sending" /\ sender[r].tries[k] = dm[k].attempts
          /\ Holders(k) = {r} /\ errors[k] <= dm[k].attempts /\ errors[k] < DmAttempts
      BY <1>b, <2>2, <3>1, <3>3 DEF Tried
    <3>5. Holders(k)' = {r}
      BY <2>2, <3>4 DEF Holders, OnlyMoves
    <3>6. IsFailing(r, k)'
      BY <2>2, <2>5 DEF IsFailing
    <3>7. errors'[k] <= DmAttempts /\ errors'[k] <= dm[k].attempts + 1
      BY <1>c, <3>2, <3>4
    <3>8. ~IsLoose(dm[k])
      BY <3>4 DEF IsLoose
    <3> QED
      BY <2>1, <3>4, <3>5, <3>6, <3>7, <3>8 DEF Tried
  <2> QED
    BY <2>1, <2>3, <2>4, <2>5 DEF Becomes
<1>6. ASSUME NEW r \in Senders, Closes(r)
      PROVE  Tried(k)'
  <2>1. PICK j \in sender[r].todo :
          /\ j \in Keys /\ Turn(r, NextRow(r, j))
          /\ ~dm'[j].old
          /\ \A i \in Keys : i # j => dm'[i] = dm[i]
          /\ ClosedAs(r, j)
    BY <1>6, CloseFacts DEF Closes
  <2>2. /\ OnlyMoves(r) /\ sender'[r].todo = sender[r].todo \ {j} /\ sender'[r].key = NoKey
        /\ \A i \in sender[r].todo \ {j} : sender'[r].tries[i] = sender[r].tries[i]
    BY <2>1, NextRowFacts DEF Becomes
  <2>3. UNCHANGED <<errors, lapses>>
    BY <1>6, StepLeaves
  <2>4. CASE k # j
    <3>1. dm'[k] = dm[k] /\ ~IsFailing(r, k)'
      BY <1>c, <2>1, <2>2, <2>4 DEF IsFailing
    <3>2. ~IsFailing(r, k)
      BY <2>1, <2>4 DEF IsFailing, ClosedAs
    <3>3. \A q \in Holders(k)' : /\ q \in Holders(k) /\ sender'[q].tries[k] = sender[q].tries[k]
                                 /\ IsFailing(q, k)' <=> IsFailing(q, k)
      BY <2>2, <2>4, <3>1, <3>2, SameHolders
    <3> QED
      BY <1>b, <2>3, <3>1, <3>3, SameTries
  <2>5. CASE k = j
    <3>1. SUFFICES ASSUME lapses[k] = 0
                   PROVE  Tried(k)'
      BY <2>3 DEF Tried
    <3>2. r \in Holders(k)
      BY <2>1, <2>5 DEF Holders
    <3>3. /\ sender[r].tries[k] = dm[k].attempts /\ Holders(k) = {r}
          /\ errors[k] <= DmAttempts
          /\ IF IsFailing(r, k) THEN errors[k] <= dm[k].attempts + 1
             ELSE errors[k] <= dm[k].attempts /\ errors[k] < DmAttempts
      BY <1>b, <3>1, <3>2 DEF Tried
    <3>4. Holders(k)' = {}
      BY <2>2, <2>5, <3>3 DEF Holders, OnlyMoves
    <3>5. IsLoose(dm'[k]) => errors[k] <= dm'[k].attempts /\ errors[k] < DmAttempts
      <4>1. CASE sender[r].pc = "sending" /\ dm'[k].attempts = dm[k].attempts + 1
        <5>1. ~IsFailing(r, k)
          BY <4>1 DEF IsFailing
        <5> QED
          BY <1>c, <3>3, <4>1, <5>1
      <4>2. CASE /\ sender[r].pc = "denied" /\ sender[r].key = k
                 /\ ~OutOfTries(sender[r].tries[k]) /\ dm'[k].attempts = dm[k].attempts + 1
        <5>1. IsFailing(r, k)
          BY <4>2 DEF IsFailing
        <5> QED
          BY <1>c, <3>3, <4>2, <5>1 DEF OutOfTries
      <4>3. CASE dm'[k].state \in {"sent", "failed"}
        BY <4>3 DEF IsLoose
      <4> QED
        BY <2>1, <2>5, <4>1, <4>2, <4>3 DEF ClosedAs
    <3> QED
      BY <2>1, <2>3, <2>5, <3>3, <3>4, <3>5 DEF Tried
  <2> QED
    BY <2>4, <2>5
<1>7. ASSUME UNCHANGED sender
      PROVE  \A q \in Holders(k)' : /\ q \in Holders(k) /\ sender'[q].tries[k] = sender[q].tries[k]
                                    /\ IsFailing(q, k)' <=> IsFailing(q, k)
  BY <1>7 DEF Holders, IsFailing
<1>8. CASE Outside \/ UNCHANGED dmVars
  <2>1. UNCHANGED <<sender, errors, lapses>>
    BY <1>8, OutsideFacts DEF dmVars
  <2>2. /\ dm'[k].attempts = dm[k].attempts /\ dm'[k].old = dm[k].old
        /\ IsLoose(dm'[k]) => IsLoose(dm[k])
        /\ dm[k].state = "sending" => dm'[k].state = "sending"
    BY <1>8, OutsideFacts DEF dmVars, CancelRow, AgeRow, IsLoose, Queued
  <2> QED
    BY <1>b, <1>7, <2>1, <2>2, SameTries
<1>9. ASSUME NEW j \in Keys, LockGrowsOld(j)
      PROVE  Tried(k)'
  <2>1. UNCHANGED <<sender, errors>>
    BY <1>9, LockFacts
  <2>2. CASE k = j
    <3>1. lapses'[k] = lapses[k] + 1
      BY <1>9, <2>2, LockFacts DEF DmTypeOK
    <3>2. lapses'[k] # 0
      BY <1>c, <3>1
    <3> QED
      BY <3>2 DEF Tried
  <2>3. CASE k # j
    <3>1. lapses'[k] = lapses[k] /\ dm'[k] = dm[k]
      BY <1>9, <2>3, LockFacts DEF DmTypeOK
    <3> QED
      BY <1>7, <1>b, <2>1, <3>1, SameTries
  <2> QED
    BY <2>2, <2>3
<1> QED
  BY <1>1, <1>2, <1>3, <1>4, <1>5, <1>6, <1>8, <1>9, StepKinds DEF Starts

(***************************************************************************)
(* Whose reminders are off has none.                                       *)
(***************************************************************************)
\* Nothing of it was queued, claimed or inserted.
LEMMA StaysEmpty ==
  ASSUME NEW k \in Keys, OffAndEmpty(k),
         prefs'[PersonOf[k]] = "off" /\ Settled(k)' /\ k \notin escaped' =>
           prefs[PersonOf[k]] = "off" /\ Settled(k) /\ k \notin escaped,
         /\ dm[k].state \notin Queued /\ Holders(k) = {} /\ prefs[PersonOf[k]] = "off"
         /\ \A r \in Senders : sender[r].plan[k].state \notin Queued
         => /\ dm'[k].state \notin Queued
            /\ \A r \in Senders : k \notin sender'[r].todo /\ sender'[r].plan[k].state \notin Queued
  PROVE  OffAndEmpty(k)'
  BY DEF OffAndEmpty, Holders

LEMMA OffStep ==
  ASSUME DmTypeOK, RunsAreInOrder, PlansAreSound, OffIsEmpty, [DmNext]_dmVars
  PROVE  OffIsEmpty'
<1>0. SUFFICES ASSUME NEW k \in Keys
               PROVE  OffAndEmpty(k)'
  BY DEF OffIsEmpty
<1>b. OffAndEmpty(k)
  BY DEF OffIsEmpty
<1>p. PersonOf[k] \in People
  BY ScheduleAssumption
<1>s. UNCHANGED <<closing, cancelling, matched>> => (Settled(k)' <=> Settled(k))
  BY DEF Settled
<1>q. "absent" \notin Queued /\ "cancelled" \notin Queued
  BY DEF Queued
<1>o. ASSUME NEW r \in Senders, OnlyMoves(r),
             UNCHANGED <<prefs, closing, cancelling, matched, escaped>>,
             /\ dm[k].state \notin Queued /\ k \notin sender[r].todo
             /\ sender[r].plan[k].state \notin Queued /\ prefs[PersonOf[k]] = "off"
             => /\ dm'[k].state \notin Queued /\ k \notin sender'[r].todo
                /\ sender'[r].plan[k].state \notin Queued
      PROVE  OffAndEmpty(k)'
  <2>1. \A q \in Senders : q # r => sender'[q] = sender[q]
    BY <1>o DEF OnlyMoves
  <2> QED
    BY <1>b, <1>s, <1>o, <2>1, StaysEmpty DEF Holders
<1>m. ASSUME NEW r \in Senders, NEW pc, NEW todo, NEW key, Becomes(r, pc, todo, key, {})
      PROVE  sender'[r].plan[k].state \notin Queued /\ OnlyMoves(r) /\ sender'[r].todo = todo
  BY <1>m, <1>q DEF Becomes
<1>1. ASSUME NEW r \in Senders, plan_dm(r)
      PROVE  OffAndEmpty(k)'
  <2>1. /\ OnlyMoves(r) /\ sender'[r].todo = {} /\ dm' = dm
        /\ sender'[r].plan[k] = IF PlanRow(k) = dm[k] THEN NoReminder ELSE PlanRow(k)
    BY <1>1, PlanFacts DEF Becomes
  <2>2. ASSUME prefs[PersonOf[k]] = "off"
        PROVE  sender'[r].plan[k].state \notin Queued
    <3>1. ~Receives(PersonOf[k])
      BY <2>2 DEF Receives
    <3> QED
      BY <1>q, <2>1, <3>1, PlanRowMild, NoReminderTyped
  <2>3. UNCHANGED <<prefs, closing, cancelling, matched, escaped>>
    BY <1>1, StepLeaves DEF Starts
  <2> QED
    BY <1>o, <2>1, <2>2, <2>3
<1>2. ASSUME NEW r \in Senders, commit(r)
      PROVE  OffAndEmpty(k)'
  <2>1. Becomes(r, "ready", {}, NoKey, {})
        /\ dm'[k] = IF k \in Writes(r) THEN sender[r].plan[k] ELSE dm[k]
    BY <1>2, CommitFacts
  <2>2. UNCHANGED <<prefs, closing, cancelling, matched, escaped>>
    BY <1>2, StepLeaves DEF Starts
  <2> QED
    BY <1>m, <1>o, <2>1, <2>2
<1>3. ASSUME NEW r \in Senders, SendOnly(r) \/ SenderDies(r) \/ load_occurrence(r) \/ Answers(r)
      PROVE  OffAndEmpty(k)'
  <2>1. \E pc, todo, key : Becomes(r, pc, todo, key, {}) /\ todo \subseteq sender[r].todo
    BY <1>3, SendOnlyFacts, RestFacts, LoadFacts, AnswerFacts DEF SenderDies, Answers
  <2>2. UNCHANGED <<prefs, closing, cancelling, matched, escaped>> /\ dm' = dm
    BY <1>3, StepLeaves, SendOnlyFacts, LoadFacts DEF Starts, SenderDies
  <2> QED
    BY <1>m, <1>o, <2>1, <2>2
<1>4. ASSUME NEW r \in Senders, claim_due(r)
      PROVE  OffAndEmpty(k)'
  <2>1. PICK due \in SUBSET Keys :
          /\ \A j \in due : dm[j].state \in Queued
          /\ Becomes(r, IF due = {} THEN "idle" ELSE "sending", due, NoKey, {})
          /\ \A j \in Keys : j \notin due => dm'[j] = dm[j]
    BY <1>4, ClaimFacts
  <2>2. UNCHANGED <<prefs, closing, cancelling, matched, escaped>>
    BY <1>4, StepLeaves DEF Starts
  <2>3. OnlyMoves(r) /\ sender'[r].todo = due /\ sender'[r].plan[k].state \notin Queued
    BY <1>m, <2>1
  <2> QED
    BY <1>o, <2>1, <2>2, <2>3
<1>5. ASSUME NEW r \in Senders, Closes(r)
      PROVE  OffAndEmpty(k)'
  <2>1. PICK j \in sender[r].todo :
          /\ j \in Keys /\ Turn(r, NextRow(r, j))
          /\ \A i \in Keys : i # j => dm'[i] = dm[i]
    BY <1>5, CloseFacts DEF Closes
  <2>p. sender[r].pc \in {"sending", "posted", "denied", "barred"}
    BY <1>5 DEF Closes, OccurrenceGone, MarkRow, IsAt
  <2>2. \E pc : Becomes(r, pc, sender[r].todo \ {j}, NoKey, {})
    BY <2>1, <2>p, NextRowFacts
  <2>3. UNCHANGED <<prefs, closing, cancelling, matched, escaped>>
    BY <1>5, StepLeaves
  <2>4. /\ OnlyMoves(r) /\ sender'[r].todo = sender[r].todo \ {j}
        /\ sender'[r].plan[k].state \notin Queued
    BY <1>m, <2>2
  <2> QED
    BY <1>o, <2>1, <2>3, <2>4
<1>a. ASSUME NEW p \in People, Asks(p)
      PROVE  OffAndEmpty(k)'
  <2>0. sender' = sender /\ (dm[k].state \notin Queued => dm'[k].state \notin Queued)
    BY <1>a, AsksFacts, CancelRowsFacts DEF CancelRow, Queued
  <2>e. ASSUME prefs'[PersonOf[k]] = "off" /\ Settled(k)' /\ k \notin escaped' =>
                 prefs[PersonOf[k]] = "off" /\ Settled(k) /\ k \notin escaped
        PROVE  OffAndEmpty(k)'
    BY <1>b, <2>0, <2>e, StaysEmpty DEF Holders
  <2>1. CASE PersonOf[k] # p
    <3>1. /\ prefs'[PersonOf[k]] = prefs[PersonOf[k]]
          /\ k \in escaped => k \in escaped'
          /\ PersonOf[k] \in closing' <=> PersonOf[k] \in closing
          /\ PersonOf[k] \in cancelling' <=> PersonOf[k] \in cancelling
          /\ k \in matched' <=> k \in matched
      BY <1>a, <1>p, <2>1 DEF Asks, enable, disable, StartCancel, cancel_pending, RowsOf, DmTypeOK
    <3>2. Settled(k)' <=> Settled(k)
      BY <3>1 DEF Settled
    <3> QED
      BY <2>e, <3>1, <3>2
  <2>2. CASE PersonOf[k] = p /\ enable(p)
    <3>1. prefs'[PersonOf[k]] # "off"
      BY <1>p, <2>2 DEF enable, DmTypeOK
    <3> QED
      BY <2>e, <3>1
  <2>3. CASE PersonOf[k] = p /\ disable(p)
    <3>1. ~Settled(k)'
      BY <2>3 DEF disable, Settled, DmTypeOK
    <3> QED
      BY <2>e, <3>1
  <2>4. CASE PersonOf[k] = p /\ StartCancel(p)
    <3>1. ASSUME Settled(k)', k \notin escaped'
          PROVE  /\ dm[k].state \notin Queued /\ Holders(k) = {}
                 /\ \A r \in Senders : sender[r].plan[k].state \notin Queued
      BY <2>4, <3>1 DEF StartCancel, RowsOf, Settled
    <3>2. Holders(k)' = Holders(k)
      BY <2>0 DEF Holders
    <3> QED
      BY <2>0, <3>1, <3>2 DEF OffAndEmpty
  <2>5. CASE PersonOf[k] = p /\ cancel_pending(p) /\ k \notin matched
    <3>1. Settled(k) /\ prefs' = prefs /\ (k \in escaped => k \in escaped')
      BY <2>5 DEF cancel_pending, Settled
    <3> QED
      BY <2>e, <3>1
  <2>6. CASE PersonOf[k] = p /\ cancel_pending(p) /\ k \in matched
    <3>1. k \in RowsOf(p) \cap matched
      BY <2>6 DEF RowsOf
    <3>2. dm'[k].state \notin Queued
      BY <2>6, <3>1, CancelRowsFacts DEF cancel_pending, CancelFound
    <3>3. k \notin escaped' => Holders(k) = {}
      BY <2>6, <3>1 DEF cancel_pending
    <3>4. \A r \in Senders : sender'[r].plan[k].state \notin Queued
      <4>1. ~IsLocked(k)
        BY <2>6, <3>1 DEF cancel_pending
      <4>2. \A r \in Senders : k \notin Writes(r)
        BY <4>1, LockedRows
      <4> QED
        BY <1>q, <2>0, <4>2 DEF Writes
    <3>5. Holders(k)' = Holders(k)
      BY <2>0 DEF Holders
    <3> QED
      BY <3>2, <3>3, <3>4, <3>5 DEF OffAndEmpty
  <2> QED
    BY <1>a, <2>1, <2>2, <2>3, <2>4, <2>5, <2>6 DEF Asks
<1>6. ASSUME UNCHANGED <<sender, prefs, closing, cancelling, matched, escaped>>,
             dm'[k].state = dm[k].state
      PROVE  OffAndEmpty(k)'
  BY <1>b, <1>s, <1>6, StaysEmpty DEF Holders
<1>7. CASE Tick \/ (\E j \in Keys : BackoffIsOver(j) \/ MeetingChanges(j)) \/ UNCHANGED dmVars
  <2>1. UNCHANGED <<sender, prefs, closing, cancelling, matched, escaped>>
    BY <1>7 DEF Tick, BackoffIsOver, MeetingChanges, dmVars
  <2>2. dm'[k].state = dm[k].state
    <3>1. ASSUME NEW j \in Keys, BackoffIsOver(j)
          PROVE  dm'[k].state = dm[k].state
      BY <3>1 DEF BackoffIsOver, RowBecomes, DmTypeOK, DmRows
    <3> QED
      BY <1>7, <3>1 DEF Tick, MeetingChanges, dmVars
  <2> QED
    BY <1>6, <2>1, <2>2
<1>8. ASSUME NEW j \in Keys, LockGrowsOld(j)
      PROVE  OffAndEmpty(k)'
  <2>1. dm'[k].state = dm[k].state
    BY <1>8, LockFacts DEF AgeRow
  <2> QED
    BY <1>6, <1>8, <2>1, LockFacts
<1> QED
  BY <1>1, <1>2, <1>3, <1>4, <1>5, <1>a, <1>7, <1>8, StepKinds DEF Starts, Outside

(***************************************************************************)
(* The invariant.                                                          *)
(***************************************************************************)
DmInv ==
  /\ DmTypeOK /\ RunsAreInOrder /\ PlansAreSound
  /\ PostsArePaid /\ TriesAreCounted /\ OffIsEmpty

LEMMA DmInitInv ==
  ASSUME DmInit
  PROVE  DmInv
<1>r. \A r \in Senders : /\ sender[r] = AtRest /\ Writes(r) = {}
                        /\ \A k \in Keys : sender[r].plan[k].state = "absent"
  BY AtRestTyped DEF DmInit, Writes
<1>h. \A k : Holders(k) = {} /\ Unposted(k) = {}
  BY <1>r, AtRestTyped DEF Holders, Unposted
<1>d. \A k \in Keys : /\ dm[k] \in DmRows /\ IsLoose(dm[k]) /\ dm[k].attempts = 0
                     /\ dm[k].state \in {"absent", "cancelled", "sending"}
  <2>1. ASSUME NEW s \in {"absent", "cancelled", "sending"}, NEW b \in BOOLEAN
        PROVE  [state |-> s, due |-> 0, attempts |-> 0, waits |-> FALSE, old |-> b] \in DmRows
    <3>1. 0 \in Ticks
      BY ScheduleAssumption DEF Ticks
    <3> QED
      BY <3>1 DEF DmRows
  <2>2. ASSUME NEW row \in LeftBefore
        PROVE  \/ row = [state |-> "absent", due |-> 0, attempts |-> 0, waits |-> FALSE, old |-> FALSE]
               \/ row = [state |-> "cancelled", due |-> 0, attempts |-> 0, waits |-> FALSE,
                         old |-> FALSE]
               \/ row = [state |-> "sending", due |-> 0, attempts |-> 0, waits |-> FALSE,
                         old |-> TRUE]
    BY DEF LeftBefore, NoReminder
  <2>3. ASSUME NEW row \in LeftBefore
        PROVE  /\ row \in DmRows /\ IsLoose(row) /\ row.attempts = 0
               /\ row.state \in {"absent", "cancelled", "sending"}
    <3>1. row \in DmRows
      BY <2>1, <2>2
    <3> QED
      BY <2>2, <3>1 DEF IsLoose
  <2> QED
    BY <2>3 DEF DmInit
<1>z. \A k \in Keys : /\ posts[k] = 0 /\ errors[k] = 0 /\ lostAnswers[k] = 0
                     /\ lapses[k] = IF dm[k].old THEN 1 ELSE 0
  BY DEF DmInit
<1>1. DmTypeOK
  <2>1. Lead \in Ticks
    BY ScheduleAssumption DEF Ticks, Lead
  <2>2. meeting \in [Keys -> Meetings]
    BY <2>1 DEF DmInit, Meetings
  <2>3. clock \in 0 .. LastTick /\ turns \in 0 .. MaxTurns
    BY ScheduleAssumption DEF DmInit
  <2> QED
    BY <1>d, <2>2, <2>3, AtRestTyped DEF DmTypeOK, DmInit
<1>2. RunsAreInOrder
  BY <1>r, AtRestTyped DEF RunsAreInOrder
<1>3. PlansAreSound
  BY <1>r, AtRestTyped DEF PlansAreSound
<1>4. PostsArePaid
  <2>1. \A k \in Keys : Cardinality(Unposted(k)) = 0
    BY <1>h, FS_EmptySet
  <2> QED
    BY <1>z, <1>d, <2>1 DEF PostsArePaid, Budget, IsLoose
<1>5. TriesAreCounted
  BY <1>z, <1>d, <1>h, ScheduleAssumption DEF TriesAreCounted, Tried
<1>6. OffIsEmpty
  BY <1>r, <1>d, <1>h DEF OffIsEmpty, OffAndEmpty, Queued
<1> QED
  BY <1>1, <1>2, <1>3, <1>4, <1>5, <1>6 DEF DmInv

LEMMA DmInvStep ==
  ASSUME DmInv, [DmNext]_dmVars
  PROVE  DmInv'
<1>1. DmTypeOK'
  BY DmTypeStep DEF DmInv
<1> QED
  BY <1>1, RunsInOrderStep, PlansStep, BudgetStep, TriesStep, OffStep DEF DmInv

\* The inductive invariant of the reminders.
THEOREM DmInvariant == DmSpec => []DmInv
<1>1. DmInit => DmInv
  BY DmInitInv
<1>2. DmInv /\ [DmNext]_dmVars => DmInv'
  BY DmInvStep
<1> QED
  BY <1>1, <1>2, PTL DEF DmSpec

\* The rows, the runs and the calendar keep their types.
THEOREM DmTypes == DmSpec => []DmTypeOK
<1>1. DmInv => DmTypeOK
  BY DEF DmInv
<1> QED
  BY <1>1, DmInvariant, PTL

\* Reminders moved, cancelled, revived or retried are sent once, but for locks that grew old
\* and answers that were lost.
THEOREM PeopleAreRemindedOnce == DmSpec => []RemindedOnce
<1>1. ASSUME DmInv
      PROVE  RemindedOnce
  <2>1. SUFFICES ASSUME NEW k \in Keys
                 PROVE  posts[k] <= 1 + lapses[k] + lostAnswers[k]
    BY DEF RemindedOnce
  <2>2. posts[k] \in Nat /\ lapses[k] \in Nat /\ lostAnswers[k] \in Nat
    BY <1>1 DEF DmInv, DmTypeOK
  <2> DEFINE n == Cardinality(Unposted(k))
             x == IF IsLoose(dm[k]) THEN 1 ELSE 0
  <2>3. n \in Nat /\ x \in Nat
    BY UnpostedCounts
  <2>4. posts[k] + n + x <= 1 + lapses[k] + lostAnswers[k]
    BY <1>1 DEF DmInv, PostsArePaid, Budget
  <2> HIDE DEF n, x
  <2> QED
    BY <2>2, <2>3, <2>4
<1> QED
  BY <1>1, DmInvariant, PTL

\* Slack is asked MAX_ATTEMPTS times at most for a row no two runs had.
THEOREM TriesStayBounded == DmSpec => []TriesAreBounded
<1>1. DmInv => TriesAreBounded
  BY DEF DmInv, TriesAreCounted, Tried, TriesAreBounded
<1> QED
  BY <1>1, DmInvariant, PTL

\* A preference that says off is heeded by every later message, but for what had escaped.
THEOREM OptOutsAreHeeded == DmSpec => OptOutIsHeeded
<1> DEFINE A == \A k \in Keys : LET p == PersonOf[k]
                                IN posts'[k] > posts[k] =>
                                     prefs[p] # "off" \/ p \in closing \/ k \in escaped
<1>1. ASSUME DmInv, [DmNext]_dmVars
      PROVE  A
  <2>1. SUFFICES ASSUME NEW k \in Keys, posts'[k] > posts[k]
                 PROVE  prefs[PersonOf[k]] # "off" \/ PersonOf[k] \in closing \/ k \in escaped
    OBVIOUS
  <2>0. posts \in [Keys -> Nat] /\ DmTypeOK /\ RunsAreInOrder /\ OffAndEmpty(k)
    BY <1>1 DEF DmInv, DmTypeOK, OffIsEmpty
  <2>2. posts'[k] # posts[k]
    BY <2>0, <2>1
  <2>3. PICK r \in Senders : Answers(r)
    BY <1>1, <2>2, StepKinds, StepLeaves, OutsideFacts, LockFacts, <2>0 DEF dmVars
  <2>4. sender[r].key = k /\ sender[r].pc = "loaded"
    BY <2>0, <2>2, <2>3 DEF Answers, Posted, Denied, AnswerIsLost, IsAt
  <2>5. k \in sender[r].todo
    BY <2>0, <2>4 DEF RunsAreInOrder
  <2> QED
    BY <2>0, <2>5 DEF OffAndEmpty, Settled, Holders
<1>2. DmSpec => [][A]_dmVars
  <2>1. DmInv /\ [DmNext]_dmVars => [A]_dmVars
    BY <1>1
  <2> QED
    BY <2>1, DmInvariant, PTL DEF DmSpec
<1>3. [][A]_dmVars <=> OptOutIsHeeded
  BY DEF OptOutIsHeeded
<1> QED
  BY <1>2, <1>3

(***************************************************************************)
(* Why a wish to get none may be overridden (MCOptOut): the one cause is   *)
(* that the person never had a row in schedule_dm_preference.              *)
(***************************************************************************)
WishesAreStored == \A p \in People : wishes[p] = "off" => prefs[p] \in {"none", "off"}

LEMMA WishesStayStored ==
  ASSUME DmTypeOK, WishesAreStored, [DmNext]_dmVars
  PROVE  WishesAreStored'
<1>0. prefs \in [People -> {"none", "on", "off"}] /\ wishes \in [People -> {"on", "off"}]
  BY DEF DmTypeOK
<1>1. CASE UNCHANGED <<prefs, wishes>>
  BY <1>1 DEF WishesAreStored
<1>2. ASSUME NEW p \in People, enable(p)
      PROVE  WishesAreStored'
  BY <1>0, <1>2 DEF enable, WishesAreStored
<1>3. ASSUME NEW p \in People, disable(p)
      PROVE  WishesAreStored'
  BY <1>0, <1>3 DEF disable, WishesAreStored
<1>4. ASSUME NEW r \in Senders, Starts(r) \/ Answers(r) \/ Closes(r) \/ SenderDies(r)
      PROVE  UNCHANGED <<prefs, wishes>>
  BY <1>4, StepLeaves
<1>5. ASSUME NEW k \in Keys, LockGrowsOld(k)
      PROVE  UNCHANGED <<prefs, wishes>>
  BY <1>5 DEF LockGrowsOld
<1>6. CASE Outside
  <2>1. CASE \E p \in People : StartCancel(p) \/ cancel_pending(p)
    BY <1>1, <2>1 DEF StartCancel, cancel_pending
  <2>2. CASE Tick \/ (\E k \in Keys : BackoffIsOver(k) \/ MeetingChanges(k))
    BY <1>1, <2>2 DEF Tick, BackoffIsOver, MeetingChanges
  <2>3. QED
    BY <1>2, <1>3, <1>6, <2>1, <2>2 DEF Outside, Asks
<1>7. CASE UNCHANGED dmVars
  BY <1>1, <1>7 DEF dmVars
<1>8. QED
  BY <1>1, <1>4, <1>5, <1>6, <1>7, StepKinds

\* Who asked for no reminders gets one only if that wish was never stored, because the table
\* has no row of theirs, or if it had escaped the cancellation (PREF_DISABLE_SQL).
THEOREM OnlyUnstoredWishesAreOverridden ==
  DmSpec => [][\A k \in Keys : LET p == PersonOf[k]
                               IN posts'[k] > posts[k] =>
                                    \/ wishes[p] = "on" \/ prefs[p] = "none"
                                    \/ p \in closing \/ k \in escaped]_dmVars
<1> DEFINE A == \A k \in Keys : LET p == PersonOf[k]
                                IN posts'[k] > posts[k] =>
                                     prefs[p] # "off" \/ p \in closing \/ k \in escaped
           B == \A k \in Keys : LET p == PersonOf[k]
                                IN posts'[k] > posts[k] =>
                                     \/ wishes[p] = "on" \/ prefs[p] = "none"
                                     \/ p \in closing \/ k \in escaped
<1>1. DmSpec => []WishesAreStored
  <2>1. DmInit => WishesAreStored
    BY DEF DmInit, WishesAreStored
  <2>2. DmInv /\ WishesAreStored /\ [DmNext]_dmVars => WishesAreStored'
    BY WishesStayStored DEF DmInv
  <2>3. QED
    BY <2>1, <2>2, DmInvariant, PTL DEF DmSpec
<1>2. DmInv /\ WishesAreStored /\ [A]_dmVars => [B]_dmVars
  BY ScheduleAssumption DEF DmInv, DmTypeOK, WishesAreStored
<1>3. DmSpec => [][A]_dmVars
  BY OptOutsAreHeeded DEF OptOutIsHeeded
<1>4. DmSpec => [][B]_dmVars
  BY <1>1, <1>2, <1>3, DmInvariant, PTL
<1>5. QED
  BY <1>4
=============================================================================
