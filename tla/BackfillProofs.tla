--------------------------- MODULE BackfillProofs ---------------------------
(***************************************************************************)
(* What Backfill promises, for every number of archivers, consoles, jobs,  *)
(* channels, messages and faults.                                          *)
(***************************************************************************)
EXTENDS Backfill, TLAPS

\* The process holds a job of its own, and the row is past the queue.
Busy(a) == Does(a, {"claimed", "listing", "scanned", "writing", "closing", "erring"})

JobsAreHeldOnce ==
  /\ \A a \in Archivers :
       /\ ~Busy(a) <=> archiver[a].job = 0
       /\ Busy(a) => ticket[archiver[a].job].state \in {"running", "failed"}
  /\ \A a, b \in Archivers : Busy(a) /\ Busy(b) /\ a # b => archiver[a].job # archiver[b].job

\* What a job owes was posted in its scope and can be found.
OwedCanBeFound ==
  \A j \in JobIds : owed[j] # {} =>
    /\ ticket[j].state \notin {"absent", "queued"}
    /\ \A m \in owed[j] :
         /\ m <= posted /\ _in_range(m, ticket[j].order)
         /\ InReach(m, ticket[j].order)

\* Between its steps a real job keeps account of what it owes: by the channels still to be
\* read, by what the reads found and are about to find, and by what was written.
Account(a) ==
  LET s == archiver[a]
      due == owed[s.job]
  IN /\ s.pc \in {"listing", "scanned", "writing"} /\ ~s.failed =>
          \A m \in due : ChannelOf[m] \notin s.left => m \in Handled
     /\ s.pc \in {"scanned", "writing"} => s.at \in s.left /\ ~OrderOf(a).dry
     /\ s.pc = "scanned" => /\ ~s.trouble
                            /\ \A m \in due : ChannelOf[m] = s.at =>
                                 IF ParentOf[m] = 0 THEN m \in s.found ELSE ParentOf[m] \in s.threads
     /\ s.pc = "writing" /\ s.trouble => s.failed
     /\ s.pc = "writing" /\ ~s.trouble =>
          \A m \in due : ChannelOf[m] = s.at => m \in s.found \cup Handled
     /\ s.pc = "closing" /\ s.verdict = "succeeded" /\ ~OrderOf(a).dry => due \subseteq Handled
     /\ s.pc = "erring" => s.verdict = "failed"

HolderWorksAlone == ~lockLost => \A a \in Archivers : ~Does(a, {"down"}) => lock = a

BackfillInv ==
  /\ BackfillTypeOK
  /\ JobsAreHeldOnce
  /\ OwedCanBeFound
  /\ \A a \in Archivers : Busy(a) => Account(a)
  /\ SucceededMeansComplete
  /\ HolderWorksAlone
  /\ RunningIsRun

(***************************************************************************)
(* Types.                                                                  *)
(***************************************************************************)
LEMMA OrdersOfScopes ==
  ASSUME NEW scope \in Scopes, NEW dry \in BOOLEAN
  PROVE  [channel |-> scope.channel, from |-> scope.from, to |-> scope.to,
          dry |-> dry] \in Orders
  BY BackfillAssumption DEF Orders

LEMMA ZeroTs == 0 \in 0 .. LastTs
  BY BackfillAssumption

LEMMA IdleTyped == Idle \in ArchiverSteps /\ Down \in ArchiverSteps
<1>1. Idle \in ArchiverSteps
  BY ZeroTs DEF Idle, ArchiverSteps
<1>2. Down \in ArchiverSteps
  BY <1>1 DEF Down, ArchiverSteps
<1> QED
  BY <1>1, <1>2

LEMMA BackfillInitType == BackfillInit => BackfillTypeOK
<1> SUFFICES ASSUME BackfillInit
             PROVE  BackfillTypeOK
  OBVIOUS
<1>1. 0 \in 0 .. LastTs /\ 0 \in 0 .. MaxUpsets /\ Before \in 0 .. LastTs
  BY BackfillAssumption
<1>2. [state |-> "absent", order |-> NoOrder] \in BackfillRows
  BY <1>1 DEF NoOrder, Orders, BackfillRows, Ended
<1>3. /\ ticket \in [JobIds -> BackfillRows] /\ desk \in [Consoles -> SUBSET Orders]
      /\ archiver \in [Archivers -> ArchiverSteps] /\ owed \in [JobIds -> SUBSET Messages]
  BY <1>2, IdleTyped DEF BackfillInit
<1>4. /\ cursor \in [Channels -> 0 .. LastTs] /\ posted \in 0 .. LastTs
      /\ upsets \in 0 .. MaxUpsets
  BY <1>1 DEF BackfillInit
<1>5. /\ lock \in Archivers \cup {NoArchiver} /\ stored \subseteq Messages
      /\ refused \subseteq Messages /\ collectible \subseteq Channels
      /\ abandoned \subseteq JobIds
  BY DEF BackfillInit
<1>6. lockLost \in BOOLEAN
  BY DEF BackfillInit
<1> QED
  BY <1>3, <1>4, <1>5, <1>6 DEF BackfillTypeOK

\* What an archiver becomes is typed, whichever step it takes.
Turned(a) == \E s \in ArchiverSteps : Turns(a, s)

LEMMA StepsTyped ==
  ASSUME BackfillTypeOK, NEW a \in Archivers
  PROVE  archiver[a] \in ArchiverSteps
  BY DEF BackfillTypeOK

LEMMA AccountsTyped ==
  ASSUME NEW s \in ArchiverSteps, NEW m \in Messages,
         NEW answer \in {"written", "duplicate", "refused", "partial", "raised"}
  PROVE  Accounts(s, m, answer) \in ArchiverSteps
<1>1. m \in 0 .. LastTs
  BY BackfillAssumption DEF Messages
<1>2. CASE answer = "written"
  BY <1>1, <1>2 DEF Accounts, ArchiverSteps
<1>3. CASE answer \in {"duplicate", "refused"}
  BY <1>1, <1>3 DEF Accounts, ArchiverSteps
<1>4. CASE answer = "partial"
  BY <1>1, <1>4 DEF Accounts, ArchiverSteps
<1>5. CASE answer = "raised"
  BY <1>1, <1>5 DEF Accounts, ArchiverSteps
<1> QED
  BY <1>2, <1>3, <1>4, <1>5

LEMMA ReadsTyped ==
  ASSUME BackfillTypeOK, NEW c, NEW order, NEW threads
  PROVE  HistoryWindow(c, order) \subseteq Messages /\ RepliesTo(threads) \subseteq Messages
  BY BackfillAssumption DEF BackfillTypeOK, HistoryWindow, RepliesTo, Messages

LEMMA TurnsTyped ==
  ASSUME BackfillTypeOK, NEW a \in Archivers, Works(a) \/ Stumbles(a)
  PROVE  Turned(a)
<1>0. archiver[a] \in ArchiverSteps
  BY StepsTyped
<1>1. CASE Acquire(a)
  BY <1>1, IdleTyped DEF Turned, Acquire, ArchiverSteps
<1>2. CASE recover_interrupted(a) \/ Finish(a) \/ HandlerFails(a) \/ Die(a)
  BY <1>2, IdleTyped DEF Turned, recover_interrupted, Finish, HandlerFails, Die
<1>3. ASSUME NEW j \in JobIds, claim_backfill(a, j)
      PROVE  Turned(a)
  BY <1>3, IdleTyped DEF Turned, claim_backfill, ArchiverSteps
<1>4. CASE _targets(a)
  BY <1>0, <1>4 DEF Turned, _targets, ScopeOf, ArchiverSteps
<1>5. ASSUME NEW denied \in SUBSET Channels, plan(a, denied)
      PROVE  Turned(a)
  <2>1. preview_state(archiver[a].left, denied) \in {"succeeded", "partial", "failed"}
    BY DEF preview_state
  <2>2. [archiver[a] EXCEPT !.pc = "closing", !.left = {},
           !.verdict = preview_state(archiver[a].left, denied)] \in ArchiverSteps
    BY <1>0, <2>1 DEF ArchiverSteps
  <2> QED
    BY <1>5, <2>2 DEF Turned, plan
<1>6. ASSUME NEW c \in Channels, ReadHistory(a, c)
      PROVE  Turned(a)
  <2>1. /\ {m \in HistoryWindow(c, OrderOf(a)) : RepliesTo({m}) # {}} \subseteq Messages
        /\ {m \in HistoryWindow(c, OrderOf(a)) : _in_range(m, OrderOf(a))} \subseteq Messages
    BY ReadsTyped
  <2> QED
    BY <1>0, <1>6, <2>1, ZeroTs DEF Turned, ReadHistory, ArchiverSteps
<1>7. ASSUME NEW c \in Channels, ChannelDenied(a, c)
      PROVE  Turned(a)
  BY <1>0, <1>7 DEF Turned, ChannelDenied, ArchiverSteps
<1>8. CASE ReadReplies(a)
  <2>1. {m \in RepliesTo(archiver[a].threads) : _in_range(m, OrderOf(a))} \subseteq Messages
    BY ReadsTyped
  <2> QED
    BY <1>0, <1>8, <2>1 DEF Turned, ReadReplies, ArchiverSteps
<1>9. ASSUME NEW m \in Messages, ingest(a, m)
      PROVE  Turned(a)
  <2>1. PICK answer \in Outcomes(a, m) :
          Turns(a, [Accounts(archiver[a], m, answer) EXCEPT !.known = Known(a)])
    BY <1>9 DEF ingest
  <2>2. answer \in {"written", "duplicate", "refused", "partial", "raised"}
    BY DEF Outcomes
  <2>3. Known(a) \in {"open", "closed"}
    BY <1>0 DEF Known, ArchiverSteps
  <2>4. Accounts(archiver[a], m, answer) \in ArchiverSteps
    BY <1>0, <2>2, AccountsTyped
  <2> QED
    BY <2>1, <2>3, <2>4 DEF Turned, ArchiverSteps
<1>10. CASE save_cursor(a)
  BY <1>0, <1>10 DEF Turned, save_cursor, ArchiverSteps
<1>11. CASE run_targets(a)
  BY <1>0, <1>11 DEF Turned, run_targets, finish_state, ArchiverSteps
<1>12. CASE DatabaseFails(a)
  BY <1>0, <1>12 DEF Turned, DatabaseFails, ArchiverSteps
<1> QED
  BY <1>1, <1>2, <1>3, <1>4, <1>5, <1>6, <1>7, <1>8, <1>9, <1>10, <1>11, <1>12
  DEF Works, Stumbles

\* The rest of the state, beside what the archivers hold.
RestTyped ==
  /\ ticket \in [JobIds -> BackfillRows] /\ desk \in [Consoles -> SUBSET Orders]
  /\ lock \in Archivers \cup {NoArchiver} /\ posted \in 0 .. LastTs
  /\ stored \subseteq Messages /\ refused \subseteq Messages
  /\ cursor \in [Channels -> 0 .. LastTs] /\ collectible \subseteq Channels
  /\ upsets \in 0 .. MaxUpsets /\ owed \in [JobIds -> SUBSET Messages]
  /\ abandoned \subseteq JobIds /\ lockLost \in BOOLEAN

LEMMA RestOfTypeOK == BackfillTypeOK <=> archiver \in [Archivers -> ArchiverSteps] /\ RestTyped
  BY DEF BackfillTypeOK, RestTyped

LEMMA UpsetCounts == ASSUME BackfillTypeOK, Upset PROVE upsets' \in 0 .. MaxUpsets
  BY BackfillAssumption DEF BackfillTypeOK, Upset

LEMMA WorkTyped ==
  ASSUME BackfillTypeOK, NEW a \in Archivers, Works(a)
  PROVE  RestTyped'
<1>0. RestTyped /\ archiver[a] \in ArchiverSteps
  BY RestOfTypeOK, StepsTyped
<1>1. CASE Acquire(a)
  BY <1>0, <1>1 DEF Acquire, RestTyped
<1>2. CASE recover_interrupted(a)
  <2>1. ticket' \in [JobIds -> BackfillRows]
    BY <1>0, <1>2 DEF recover_interrupted, fail_interrupted, RestTyped, BackfillRows, Ended
  <2> QED
    BY <1>0, <1>2, <2>1 DEF recover_interrupted, RestTyped
<1>3. ASSUME NEW j \in JobIds, claim_backfill(a, j)
      PROVE  RestTyped'
  <2>1. ticket' \in [JobIds -> BackfillRows]
    BY <1>0, <1>3 DEF claim_backfill, RestTyped, BackfillRows
  <2> QED
    BY <1>0, <1>3, <2>1 DEF claim_backfill, RestTyped
<1>4. CASE _targets(a)
  <2>1. \A targets, order : Owed(targets, order) \subseteq Messages
    BY <1>0, BackfillAssumption DEF Owed, RestTyped, Messages
  <2>2. owed' \in [JobIds -> SUBSET Messages]
    BY <1>0, <1>4, <2>1 DEF _targets, RestTyped
  <2> QED
    BY <1>0, <1>4, <2>2 DEF _targets, RestTyped
<1>5. ASSUME NEW denied \in SUBSET Channels, plan(a, denied)
      PROVE  RestTyped'
  BY <1>0, <1>5 DEF plan, RestTyped
<1>6. ASSUME NEW c \in Channels, ReadHistory(a, c) \/ ChannelDenied(a, c)
      PROVE  RestTyped'
  BY <1>0, <1>6 DEF ReadHistory, ChannelDenied, RestTyped
<1>7. CASE ReadReplies(a) \/ run_targets(a)
  BY <1>0, <1>7 DEF ReadReplies, run_targets, RestTyped
<1>8. ASSUME NEW m \in Messages, ingest(a, m)
      PROVE  RestTyped'
  <2>1. stored' \subseteq Messages /\ refused' \subseteq Messages
    BY <1>0, <1>8 DEF ingest, RestTyped
  <2> QED
    BY <1>0, <1>8, <2>1 DEF ingest, RestTyped
<1>9. CASE save_cursor(a)
  <2>1. cursor' \in [Channels -> 0 .. LastTs]
    BY <1>0, <1>9 DEF save_cursor, advance_cursor, RestTyped, ArchiverSteps
  <2> QED
    BY <1>0, <1>9, <2>1 DEF save_cursor, RestTyped
<1>10. CASE Finish(a)
  <2>1. archiver[a].verdict \in Ended
    BY <1>0 DEF ArchiverSteps, Ended
  <2>2. ticket' \in [JobIds -> BackfillRows]
    BY <1>0, <1>10, <2>1 DEF Finish, finish_backfill, RestTyped, BackfillRows
  <2> QED
    BY <1>0, <1>10, <2>2 DEF Finish, RestTyped
<1> QED
  BY <1>1, <1>2, <1>3, <1>4, <1>5, <1>6, <1>7, <1>8, <1>9, <1>10 DEF Works

LEMMA StumbleTyped ==
  ASSUME BackfillTypeOK, JobsAreHeldOnce, NEW a \in Archivers, Stumbles(a)
  PROVE  RestTyped'
<1>0. RestTyped /\ archiver[a] \in ArchiverSteps
  BY RestOfTypeOK, StepsTyped
<1>1. CASE DatabaseFails(a)
  BY <1>0, <1>1, UpsetCounts DEF DatabaseFails, RestTyped
<1>2. CASE HandlerFails(a)
  <2>1. archiver[a].job \in JobIds
    BY <1>0, <1>2 DEF ArchiverSteps, JobsAreHeldOnce, Busy, Does, HandlerFails
  <2> QED
    BY <1>0, <1>2, <2>1 DEF HandlerFails, RestTyped
<1>3. CASE Die(a)
  BY <1>0, <1>3, UpsetCounts DEF Die, RestTyped
<1> QED
  BY <1>1, <1>2, <1>3 DEF Stumbles

LEMMA BackfillTypeStep ==
  BackfillTypeOK /\ JobsAreHeldOnce /\ [BackfillNext]_backfillVars => BackfillTypeOK'
<1> SUFFICES ASSUME BackfillTypeOK, JobsAreHeldOnce, [BackfillNext]_backfillVars
             PROVE  BackfillTypeOK'
  OBVIOUS
<1>0. RestTyped /\ archiver \in [Archivers -> ArchiverSteps]
  BY RestOfTypeOK
<1>1. ASSUME NEW c \in Consoles, NEW scope \in Scopes, NEW dry \in BOOLEAN,
             request_backfill(c, [channel |-> scope.channel, from |-> scope.from,
                                  to |-> scope.to, dry |-> dry])
      PROVE  BackfillTypeOK'
  <2>1. desk' \in [Consoles -> SUBSET Orders]
    BY <1>0, <1>1, OrdersOfScopes DEF request_backfill, RestTyped
  <2> QED
    BY <1>0, <1>1, <2>1 DEF request_backfill, RestTyped, BackfillTypeOK
<1>2. ASSUME NEW c \in Consoles, NEW j \in JobIds, create_job(c, j)
      PROVE  BackfillTypeOK'
  <2>1. ticket' \in [JobIds -> BackfillRows] /\ desk' \in [Consoles -> SUBSET Orders]
    BY <1>0, <1>2 DEF create_job, RestTyped, BackfillRows
  <2> QED
    BY <1>0, <1>2, <2>1 DEF create_job, RestTyped, BackfillTypeOK
<1>3. ASSUME NEW j \in JobIds, cancel_backfill(j)
      PROVE  BackfillTypeOK'
  <2>1. ticket' \in [JobIds -> BackfillRows]
    BY <1>0, <1>3 DEF cancel_backfill, RestTyped, BackfillRows, Ended
  <2> QED
    BY <1>0, <1>3, <2>1 DEF cancel_backfill, RestTyped, BackfillTypeOK
<1>4. CASE Post
  <2>1. posted + 1 \in Messages /\ posted' \in 0 .. LastTs
    BY <1>0, <1>4, BackfillAssumption DEF Post, RestTyped, Messages
  <2>2. stored' \subseteq Messages
    BY <1>0, <1>4, <2>1 DEF Post, RestTyped
  <2> QED
    BY <1>0, <1>4, <2>1, <2>2 DEF Post, RestTyped, BackfillTypeOK
<1>5. ASSUME NEW c \in Channels, SwitchChannel(c)
      PROVE  BackfillTypeOK'
  BY <1>0, <1>5, UpsetCounts DEF SwitchChannel, RestTyped, BackfillTypeOK
<1>6. ASSUME NEW a \in Archivers, Works(a) \/ Stumbles(a)
      PROVE  BackfillTypeOK'
  <2>1. PICK s \in ArchiverSteps : Turns(a, s)
    BY <1>6, TurnsTyped DEF Turned
  <2>2. archiver' \in [Archivers -> ArchiverSteps]
    BY <1>0, <2>1 DEF Turns
  <2> QED
    BY <1>6, <2>2, WorkTyped, StumbleTyped DEF BackfillTypeOK, RestTyped
<1>7. CASE LoseLock
  BY <1>0, <1>7, UpsetCounts DEF LoseLock, RestTyped, BackfillTypeOK
<1>8. CASE UNCHANGED backfillVars
  BY <1>0, <1>8 DEF backfillVars, RestTyped, BackfillTypeOK
<1> QED
  BY <1>1, <1>2, <1>3, <1>4, <1>5, <1>6, <1>7, <1>8 DEF BackfillNext

(***************************************************************************)
(* What a step does to an archiver's hold of a job, and to a job's row.       *)
(***************************************************************************)
Only(a) == \A b \in Archivers \ {a} : archiver'[b] = archiver[b]
KeepsJob(a) == /\ UNCHANGED ticket
               /\ archiver'[a].job = archiver[a].job
               /\ Does(a, {"listing", "scanned", "writing", "closing", "erring"})'
LetsGo(a) == /\ Acquire(a) \/ recover_interrupted(a) \/ Finish(a) \/ HandlerFails(a) \/ Die(a)
             /\ archiver'[a].job = 0 /\ Does(a, {"starting", "idle", "down"})'
Takes(a, j) == /\ ticket[j].state = "queued" /\ ticket' = [ticket EXCEPT ![j].state = "running"]
               /\ archiver'[a].job = j /\ Does(a, {"claimed"})'

LEMMA TurnsOnly ==
  ASSUME BackfillTypeOK, NEW a \in Archivers, Works(a) \/ Stumbles(a)
  PROVE  Only(a)
<1>1. PICK s \in ArchiverSteps : Turns(a, s)
  BY TurnsTyped DEF Turned
<1> QED
  BY <1>1 DEF Turns, Only, BackfillTypeOK

LEMMA ArchiverKinds ==
  ASSUME BackfillTypeOK, NEW a \in Archivers, Works(a) \/ Stumbles(a)
  PROVE  \/ Busy(a) /\ KeepsJob(a)
         \/ LetsGo(a)
         \/ ~Busy(a) /\ \E j \in JobIds : Takes(a, j)
<1>0. archiver \in [Archivers -> ArchiverSteps] /\ archiver[a] \in ArchiverSteps
  BY DEF BackfillTypeOK
<1>1. CASE Acquire(a) \/ recover_interrupted(a) \/ Finish(a) \/ HandlerFails(a) \/ Die(a)
  <2>1. /\ Idle.job = 0 /\ Idle.pc = "idle" /\ Down.job = 0 /\ Down.pc = "down"
        /\ [Idle EXCEPT !.pc = "starting"].job = 0
        /\ [Idle EXCEPT !.pc = "starting"].pc = "starting"
    BY DEF Idle, Down
  <2> QED
    BY <1>0, <1>1, <2>1
    DEF Acquire, recover_interrupted, Finish, HandlerFails, Die, LetsGo, Turns, Does
<1>2. ASSUME NEW j \in JobIds, claim_backfill(a, j)
      PROVE  ~Busy(a) /\ Takes(a, j)
  BY <1>0, <1>2 DEF claim_backfill, Takes, Busy, Idle, Turns, Does
<1>3. CASE _targets(a)
  BY <1>0, <1>3 DEF _targets, Busy, Does, KeepsJob, Turns, ArchiverSteps
<1>4. ASSUME NEW denied \in SUBSET Channels, plan(a, denied)
      PROVE  Busy(a) /\ KeepsJob(a)
  BY <1>0, <1>4 DEF plan, Busy, Does, KeepsJob, Turns, ArchiverSteps
<1>5. ASSUME NEW c \in Channels, ReadHistory(a, c)
      PROVE  Busy(a) /\ KeepsJob(a)
  BY <1>0, <1>5 DEF ReadHistory, Busy, Does, KeepsJob, Turns, ArchiverSteps
<1>6. ASSUME NEW c \in Channels, ChannelDenied(a, c)
      PROVE  Busy(a) /\ KeepsJob(a)
  BY <1>0, <1>6 DEF ChannelDenied, Busy, Does, KeepsJob, Turns, ArchiverSteps
<1>7. CASE ReadReplies(a)
  BY <1>0, <1>7 DEF ReadReplies, Busy, Does, KeepsJob, Turns, ArchiverSteps
<1>8. ASSUME NEW m \in Messages, ingest(a, m)
      PROVE  Busy(a) /\ KeepsJob(a)
  <2>1. PICK answer \in Outcomes(a, m) :
          Turns(a, [Accounts(archiver[a], m, answer) EXCEPT !.known = Known(a)])
    BY <1>8 DEF ingest
  <2>2. PICK s : s = [Accounts(archiver[a], m, answer) EXCEPT !.known = Known(a)]
    OBVIOUS
  <2>3. answer \in {"written", "duplicate", "refused", "partial", "raised"}
    BY DEF Outcomes
  <2>4. s.pc = archiver[a].pc /\ s.job = archiver[a].job
    BY <1>0, <2>2, <2>3 DEF Accounts, ArchiverSteps
  <2> QED
    BY <1>0, <1>8, <2>1, <2>2, <2>4 DEF ingest, Busy, Does, KeepsJob, Turns
<1>9. CASE save_cursor(a)
  BY <1>0, <1>9 DEF save_cursor, Busy, Does, KeepsJob, Turns, ArchiverSteps
<1>10. CASE run_targets(a)
  BY <1>0, <1>10 DEF run_targets, Busy, Does, KeepsJob, Turns, ArchiverSteps
<1>11. CASE DatabaseFails(a)
  BY <1>0, <1>11 DEF DatabaseFails, Busy, Does, KeepsJob, Turns, ArchiverSteps
<1> QED
  BY <1>1, <1>2, <1>3, <1>4, <1>5, <1>6, <1>7, <1>8, <1>9, <1>10, <1>11 DEF Works, Stumbles

\* A row is created, or it moves on and keeps its order; once ended it stays.
RowMoves(j) ==
  \/ ticket'[j] = ticket[j]
  \/ ticket[j].state = "absent" /\ ticket'[j].state = "queued"
  \/ /\ ticket'[j].order = ticket[j].order
     /\ \/ ticket[j].state = "queued" /\ ticket'[j].state \in {"running", "cancelled"}
        \/ ticket[j].state = "running" /\ ticket'[j].state = "failed"
        \/ /\ ticket[j].state = "running"
           /\ \E a \in Archivers : /\ Finish(a) /\ archiver[a].job = j
                                   /\ ticket'[j].state = archiver[a].verdict

LEMMA RowKinds ==
  ASSUME BackfillTypeOK, [BackfillNext]_backfillVars, NEW j \in JobIds
  PROVE  RowMoves(j)
<1>0. ticket \in [JobIds -> BackfillRows] /\ ticket[j] \in BackfillRows
  BY DEF BackfillTypeOK
<1>1. ASSUME NEW c \in Consoles, NEW k \in JobIds, create_job(c, k)
      PROVE  RowMoves(j)
  BY <1>0, <1>1 DEF create_job, RowMoves
<1>2. ASSUME NEW k \in JobIds, cancel_backfill(k)
      PROVE  RowMoves(j)
  BY <1>0, <1>2 DEF cancel_backfill, RowMoves, BackfillRows, Ended
<1>3. ASSUME NEW a \in Archivers, recover_interrupted(a)
      PROVE  RowMoves(j)
  BY <1>0, <1>3 DEF recover_interrupted, fail_interrupted, RowMoves, BackfillRows, Ended
<1>4. ASSUME NEW a \in Archivers, NEW k \in JobIds, claim_backfill(a, k)
      PROVE  RowMoves(j)
  BY <1>0, <1>4 DEF claim_backfill, RowMoves, BackfillRows
<1>5. ASSUME NEW a \in Archivers, Finish(a)
      PROVE  RowMoves(j)
  <2>1. archiver[a].verdict \in Ended
    BY StepsTyped DEF ArchiverSteps, Ended
  <2> QED
    BY <1>0, <1>5, <2>1 DEF Finish, finish_backfill, RowMoves, BackfillRows
<1>6. CASE UNCHANGED ticket
  BY <1>6 DEF RowMoves
<1> QED
  BY <1>1, <1>2, <1>3, <1>4, <1>5, <1>6, ZenonT(60)
  DEF BackfillNext, Works, Stumbles, backfillVars, request_backfill, Post, SwitchChannel,
      Acquire, _targets, plan, ReadHistory, ChannelDenied, ReadReplies, ingest, save_cursor,
      run_targets, DatabaseFails, HandlerFails, Die, LoseLock

\* Only archivers' own steps change what archivers hold.
LEMMA SomeTurn ==
  ASSUME BackfillTypeOK, [BackfillNext]_backfillVars
  PROVE  \/ UNCHANGED archiver /\ (UNCHANGED owed)
         \/ \E a \in Archivers : Works(a) \/ Stumbles(a)
  BY DEF BackfillNext, backfillVars, request_backfill, create_job, cancel_backfill, Post,
         SwitchChannel, LoseLock

LEMMA HeldOnceStep ==
  BackfillTypeOK /\ JobsAreHeldOnce /\ [BackfillNext]_backfillVars => JobsAreHeldOnce'
<1> SUFFICES ASSUME BackfillTypeOK, JobsAreHeldOnce, [BackfillNext]_backfillVars
             PROVE  JobsAreHeldOnce'
  OBVIOUS
<1>0. \A b \in Archivers : archiver[b].job \in JobIds \cup {0}
  BY StepsTyped DEF ArchiverSteps
<1>1. 0 \notin JobIds
  BY BackfillAssumption
<1>2. \A j \in JobIds : RowMoves(j)
  BY RowKinds
<1>3. ASSUME NEW b \in Archivers, archiver'[b] = archiver[b]
      PROVE  /\ Busy(b)' <=> Busy(b)
             /\ ~Busy(b)' <=> archiver'[b].job = 0
             /\ Busy(b)' => ticket'[archiver'[b].job].state \in {"running", "failed"}
  <2>1. (Busy(b)' <=> Busy(b)) /\ (~Busy(b)' <=> archiver'[b].job = 0)
    BY <1>3 DEF JobsAreHeldOnce, Busy, Does
  <2>2. ASSUME Busy(b)
        PROVE  ticket'[archiver[b].job].state \in {"running", "failed"}
    <3>1. PICK j \in JobIds : j = archiver[b].job
      BY <1>0, <1>1, <2>2 DEF JobsAreHeldOnce
    <3>2. ticket[j].state \in {"running", "failed"}
      BY <2>2, <3>1 DEF JobsAreHeldOnce
    <3>3. ASSUME NEW a \in Archivers, Finish(a), archiver[a].job = j
          PROVE  FALSE
      <4>1. a = b
        BY <2>2, <3>1, <3>3 DEF JobsAreHeldOnce, Finish, Busy, Does
      <4>2. archiver'[b].pc = "idle"
        BY <3>3, <4>1 DEF Finish, Turns, Idle, BackfillTypeOK
      <4> QED
        BY <1>3, <3>3, <4>1, <4>2 DEF Finish, Does
    <3> QED
      BY <1>2, <3>1, <3>2, <3>3 DEF RowMoves
  <2> QED
    BY <1>3, <2>1, <2>2
<1>4. CASE UNCHANGED archiver
  BY <1>3, <1>4 DEF JobsAreHeldOnce
<1>5. ASSUME NEW a \in Archivers, Works(a) \/ Stumbles(a)
      PROVE  JobsAreHeldOnce'
  <2>1. \A b \in Archivers \ {a} : archiver'[b] = archiver[b]
    BY <1>5, TurnsOnly DEF Only
  <2>2. CASE Busy(a) /\ KeepsJob(a)
    BY <1>0, <1>1, <1>3, <2>1, <2>2 DEF KeepsJob, JobsAreHeldOnce, Busy, Does
  <2>3. CASE LetsGo(a)
    BY <1>0, <1>1, <1>3, <2>1, <2>3 DEF LetsGo, JobsAreHeldOnce, Busy, Does
  <2>4. ASSUME NEW j \in JobIds, Takes(a, j)
        PROVE  JobsAreHeldOnce'
    <3>1. Busy(a)' /\ archiver'[a].job = j /\ j # 0 /\ ticket'[j].state = "running"
      BY <1>1, <2>4 DEF Takes, Busy, Does, BackfillTypeOK, BackfillRows
    <3>2. \A b \in Archivers : Busy(b) => archiver[b].job # j
      BY <2>4 DEF Takes, JobsAreHeldOnce
    <3> QED
      BY <1>3, <2>1, <3>1, <3>2 DEF JobsAreHeldOnce
  <2> QED
    BY <1>5, <2>2, <2>3, <2>4, ArchiverKinds
<1> QED
  BY <1>4, <1>5, SomeTurn

(***************************************************************************)
(* What a job ended as stays.                                              *)
(***************************************************************************)
LEMMA EndedRowStays ==
  ASSUME BackfillTypeOK, [BackfillNext]_backfillVars, NEW j \in JobIds, ticket[j].state \in Ended
  PROVE  ticket'[j] = ticket[j]
  BY RowKinds DEF RowMoves, Ended

(***************************************************************************)
(* The account of what a job owes.                                         *)
(***************************************************************************)
LEMMA Grows ==
  ASSUME BackfillTypeOK, [BackfillNext]_backfillVars
  PROVE  Handled \subseteq Handled' /\ posted <= posted'
<1>1. stored \subseteq stored' /\ refused \subseteq refused'
  BY ZenonT(60) DEF BackfillNext, Works, Stumbles, backfillVars, request_backfill, create_job,
         cancel_backfill, Post, SwitchChannel, Acquire, recover_interrupted, claim_backfill,
         _targets, plan, ReadHistory, ChannelDenied, ReadReplies, ingest, save_cursor, run_targets,
         Finish, DatabaseFails, HandlerFails, Die, LoseLock
<1>2. posted' = posted \/ posted' = posted + 1
  BY ZenonT(60) DEF BackfillNext, Works, Stumbles, backfillVars, request_backfill, create_job,
         cancel_backfill, Post, SwitchChannel, Acquire, recover_interrupted, claim_backfill,
         _targets, plan, ReadHistory, ChannelDenied, ReadReplies, ingest, save_cursor, run_targets,
         Finish, DatabaseFails, HandlerFails, Die, LoseLock
<1> QED
  BY <1>1, <1>2 DEF Handled, BackfillTypeOK

\* Only the choice of a ticket's channels changes what it owes.
LEMMA OwedChanges ==
  ASSUME BackfillTypeOK, JobsAreHeldOnce, [BackfillNext]_backfillVars
  PROVE  \/ owed' = owed
         \/ \E a \in Archivers : _targets(a) /\ archiver[a].job \in JobIds
<1>1. \A a \in Archivers : _targets(a) => archiver[a].job \in JobIds
  BY StepsTyped DEF ArchiverSteps, _targets, JobsAreHeldOnce, Busy, Does
<1> QED
  BY <1>1, ZenonT(60)
  DEF BackfillNext, Works, Stumbles, backfillVars, request_backfill, create_job,
      cancel_backfill, Post, SwitchChannel, Acquire, recover_interrupted, claim_backfill,
      plan, ReadHistory, ChannelDenied, ReadReplies, ingest, save_cursor, run_targets,
      Finish, DatabaseFails, HandlerFails, Die, LoseLock

LEMMA OwedFoundStep ==
  BackfillTypeOK /\ JobsAreHeldOnce /\ OwedCanBeFound /\ [BackfillNext]_backfillVars
    => OwedCanBeFound'
<1> SUFFICES ASSUME BackfillTypeOK, JobsAreHeldOnce, OwedCanBeFound,
                    [BackfillNext]_backfillVars, NEW j \in JobIds, owed'[j] # {}
             PROVE  /\ ticket'[j].state \notin {"absent", "queued"}
                    /\ \A m \in owed'[j] :
                         /\ m <= posted' /\ _in_range(m, ticket'[j].order)
                         /\ InReach(m, ticket'[j].order)
  BY DEF OwedCanBeFound
<1>1. CASE owed'[j] = owed[j]
  <2>1. ticket[j].state \notin {"absent", "queued"}
    BY <1>1 DEF OwedCanBeFound
  <2>2. ticket'[j].order = ticket[j].order /\ ticket'[j].state \notin {"absent", "queued"}
    <3>1. RowMoves(j)
      BY RowKinds
    <3>2. \A a \in Archivers : archiver[a].verdict \in {"succeeded", "partial", "failed"}
      BY StepsTyped DEF ArchiverSteps
    <3> QED
      BY <2>1, <3>1, <3>2 DEF RowMoves
  <2>3. \A m \in owed[j] : m \in Nat
    BY BackfillAssumption DEF BackfillTypeOK, Messages
  <2>4. posted \in Nat /\ posted' \in Nat /\ posted <= posted'
    BY Grows, BackfillTypeStep, BackfillAssumption DEF BackfillTypeOK
  <2>5. \A m \in owed[j] : m <= posted'
    BY <1>1, <2>3, <2>4 DEF OwedCanBeFound
  <2> QED
    BY <1>1, <2>2, <2>5 DEF OwedCanBeFound
<1>2. ASSUME NEW a \in Archivers, _targets(a), archiver[a].job \in JobIds, owed'[j] # owed[j]
      PROVE  /\ ticket'[j].state \notin {"absent", "queued"}
             /\ \A m \in owed'[j] :
                  /\ m <= posted' /\ _in_range(m, ticket'[j].order)
                  /\ InReach(m, ticket'[j].order)
  <2>1. j = archiver[a].job /\ UNCHANGED <<ticket, posted>>
    BY <1>2 DEF _targets, BackfillTypeOK
  <2>2. ticket[j].state \in {"running", "failed"}
    BY <1>2, <2>1 DEF JobsAreHeldOnce, _targets, Busy, Does
  <2>3. PICK targets : owed'[j] \subseteq Owed(targets, ticket[j].order)
    BY <1>2, <2>1 DEF _targets, BackfillTypeOK, OrderOf
  <2>4. posted \in Nat
    BY BackfillAssumption DEF BackfillTypeOK
  <2> QED
    BY <2>1, <2>2, <2>3, <2>4 DEF Owed
<1> QED
  BY <1>1, <1>2, OwedChanges

LEMMA AccountKept ==
  ASSUME BackfillTypeOK, JobsAreHeldOnce, [BackfillNext]_backfillVars,
         NEW b \in Archivers, Busy(b), Account(b), archiver'[b] = archiver[b],
         owed'[archiver[b].job] = owed[archiver[b].job]
  PROVE  Account(b)'
<1>1. PICK j \in JobIds : j = archiver[b].job
  BY StepsTyped DEF ArchiverSteps, JobsAreHeldOnce
<1>2. ticket[j].state \in {"running", "failed"}
  BY <1>1 DEF JobsAreHeldOnce
<1>3. ticket'[j].order = ticket[j].order
  BY <1>2, RowKinds DEF RowMoves
<1>4. OrderOf(b)' = OrderOf(b)
  BY <1>1, <1>3 DEF OrderOf
<1> QED
  BY <1>4, Grows DEF Account

\* The read of a history finds what is owed of its channel, or the thread it is in.
LEMMA HistoryFinds ==
  ASSUME BackfillTypeOK, NEW order \in Orders, NEW c \in Channels, NEW m \in Messages,
         m <= posted, ChannelOf[m] = c, _in_range(m, order), InReach(m, order)
  PROVE  IF ParentOf[m] = 0 THEN m \in HistoryWindow(c, order)
         ELSE ParentOf[m] \in HistoryWindow(c, order) /\ m \in RepliesTo({ParentOf[m]})
<1>1. /\ m \in Nat /\ 1 <= m /\ m \in 1 .. posted
      /\ order.from \in Nat /\ order.to \in Nat /\ posted \in Nat /\ Lookback \in Nat
      /\ ParentOf[m] \in Nat
  BY BackfillAssumption DEF BackfillTypeOK, Messages, Orders
<1>2. order.to # 0 => m <= order.to
  BY DEF _in_range
<1>3. CASE ParentOf[m] = 0
  <2>1. parent_scan_oldest(order) < m
    BY <1>1, BackfillAssumption DEF _in_range, parent_scan_oldest
  <2>2. order.to # 0 => m < order.to
    BY <1>3 DEF InReach
  <2> QED
    BY <1>1, <1>3, <2>1, <2>2 DEF HistoryWindow
<1>4. CASE ParentOf[m] # 0
  <2>1. PICK p : p = ParentOf[m]
    OBVIOUS
  <2>2. /\ p \in Nat /\ p # 0 /\ p < m /\ ParentOf[p] = 0 /\ ChannelOf[p] = c
        /\ parent_scan_oldest(order) < p
    BY <1>1, <1>4, <2>1, BackfillAssumption DEF InReach
  <2>3. p \in 1 .. posted /\ (order.to # 0 => p < order.to)
    BY <1>1, <1>2, <2>2
  <2>4. p \in HistoryWindow(c, order)
    BY <2>2, <2>3 DEF HistoryWindow
  <2>5. m \in RepliesTo({p})
    BY <1>1, <2>1 DEF RepliesTo
  <2> QED
    BY <1>4, <2>1, <2>4, <2>5
<1> QED
  BY <1>3, <1>4

LEMMA AccountMoved ==
  ASSUME BackfillTypeOK, JobsAreHeldOnce, OwedCanBeFound, [BackfillNext]_backfillVars,
         NEW a \in Archivers, Works(a) \/ Stumbles(a), Busy(a) => Account(a), Busy(a)'
  PROVE  Account(a)'
<1>0. archiver \in [Archivers -> ArchiverSteps] /\ archiver[a] \in ArchiverSteps
  BY DEF BackfillTypeOK
<1>1. CASE Acquire(a) \/ recover_interrupted(a) \/ Finish(a) \/ HandlerFails(a) \/ Die(a)
  <2>1. /\ Idle.pc = "idle" /\ Down.pc = "down"
        /\ [Idle EXCEPT !.pc = "starting"].pc = "starting"
    BY DEF Idle, Down
  <2> QED
    BY <1>0, <1>1, <2>1
    DEF Acquire, recover_interrupted, Finish, HandlerFails, Die, Turns, Busy, Does
<1>2. ASSUME NEW j \in JobIds, claim_backfill(a, j)
      PROVE  Account(a)'
  BY <1>0, <1>2 DEF claim_backfill, Turns, Idle, Account
<1>3. CASE _targets(a)
  <2>1. PICK targets : targets = ScopeOf(OrderOf(a)) \cap collectible
    OBVIOUS
  <2>2. archiver'[a].left = targets /\ archiver'[a].verdict = "failed"
    BY <1>0, <1>3, <2>1 DEF _targets, Turns, ArchiverSteps
  <2>3. archiver'[a].pc \in {"closing", "listing"} /\ archiver'[a].job = archiver[a].job
    BY <1>0, <1>3, <2>1 DEF _targets, Turns, ArchiverSteps
  <2>4. archiver[a].job \in JobIds
    BY <1>0, <1>3 DEF ArchiverSteps, _targets, JobsAreHeldOnce, Busy, Does
  <2>5. owed'[archiver[a].job] \subseteq Owed(targets, OrderOf(a))
    BY <1>3, <2>1, <2>4 DEF _targets, BackfillTypeOK
  <2>6. \A m \in owed'[archiver[a].job] : ChannelOf[m] \in targets
    BY <2>5 DEF Owed
  <2> QED
    BY <2>2, <2>3, <2>6 DEF Account
<1>4. ASSUME NEW denied \in SUBSET Channels, plan(a, denied)
      PROVE  Account(a)'
  <2>1. archiver'[a].pc = "closing" /\ archiver'[a].job = archiver[a].job
    BY <1>0, <1>4 DEF plan, Turns, ArchiverSteps
  <2>2. OrderOf(a)' = OrderOf(a) /\ OrderOf(a).dry
    BY <1>4, <2>1 DEF plan, OrderOf
  <2> QED
    BY <2>1, <2>2 DEF Account
<1>5. ASSUME NEW c \in Channels, ReadHistory(a, c)
      PROVE  Account(a)'
  <2>0. /\ archiver'[a] = [archiver[a] EXCEPT
               !.pc = "scanned", !.at = c, !.known = "unasked",
               !.threads = {m \in HistoryWindow(c, OrderOf(a)) : RepliesTo({m}) # {}},
               !.found = {m \in HistoryWindow(c, OrderOf(a)) : _in_range(m, OrderOf(a))},
               !.highest = 0, !.trouble = FALSE]
        /\ UNCHANGED <<ticket, owed, stored, refused>>
        /\ ~OrderOf(a).dry /\ c \in archiver[a].left /\ archiver[a].pc = "listing"
    BY <1>0, <1>5 DEF ReadHistory, Turns, Does
  <2>1. PICK s : s = archiver'[a]
    OBVIOUS
  <2>2. /\ s.pc = "scanned" /\ s.at = c /\ s.job = archiver[a].job /\ s.left = archiver[a].left
        /\ s.failed = archiver[a].failed /\ s.trouble = FALSE
        /\ s.threads = {m \in HistoryWindow(c, OrderOf(a)) : RepliesTo({m}) # {}}
        /\ s.found = {m \in HistoryWindow(c, OrderOf(a)) : _in_range(m, OrderOf(a))}
    BY <1>0, <2>0, <2>1 DEF ArchiverSteps
  <2>3. archiver[a].job \in JobIds /\ OrderOf(a) \in Orders
    BY <1>0, <2>0 DEF ArchiverSteps, JobsAreHeldOnce, Busy, Does, OrderOf, BackfillTypeOK,
                      BackfillRows
  <2>4. ASSUME NEW m \in owed[archiver[a].job], ChannelOf[m] = c
        PROVE  IF ParentOf[m] = 0 THEN m \in s.found ELSE ParentOf[m] \in s.threads
    <3>1. /\ m \in Messages /\ m <= posted /\ _in_range(m, OrderOf(a))
          /\ InReach(m, OrderOf(a))
      BY <2>3 DEF OwedCanBeFound, OrderOf, BackfillTypeOK
    <3>2. IF ParentOf[m] = 0 THEN m \in HistoryWindow(c, OrderOf(a))
          ELSE /\ ParentOf[m] \in HistoryWindow(c, OrderOf(a))
               /\ m \in RepliesTo({ParentOf[m]})
      BY <2>3, <2>4, <3>1, HistoryFinds
    <3> QED
      BY <2>2, <3>1, <3>2
  <2>5. Account(a)
    BY <1>5 DEF ReadHistory, Busy, Does
  <2>6. OrderOf(a)' = OrderOf(a)
    BY <2>0, <2>1, <2>2 DEF OrderOf
  <2> QED
    BY <2>0, <2>1, <2>2, <2>4, <2>5, <2>6 DEF Account, Handled
<1>6. ASSUME NEW c \in Channels, ChannelDenied(a, c)
      PROVE  Account(a)'
  <2>1. archiver'[a].pc = "listing" /\ archiver'[a].failed
    BY <1>0, <1>6 DEF ChannelDenied, Turns, ArchiverSteps
  <2> QED
    BY <2>1 DEF Account
<1>7. CASE ReadReplies(a)
  <2>0. /\ archiver'[a] = [archiver[a] EXCEPT
               !.pc = "writing", !.threads = {},
               !.found = @ \cup {m \in RepliesTo(archiver[a].threads) : _in_range(m, OrderOf(a))}]
        /\ UNCHANGED <<ticket, owed, stored, refused>> /\ archiver[a].pc = "scanned"
    BY <1>0, <1>7 DEF ReadReplies, Turns, Does
  <2>1. PICK s : s = archiver'[a]
    OBVIOUS
  <2>2. /\ s.pc = "writing" /\ s.at = archiver[a].at /\ s.job = archiver[a].job
        /\ s.left = archiver[a].left /\ s.failed = archiver[a].failed
        /\ s.trouble = archiver[a].trouble
        /\ s.found = archiver[a].found
                       \cup {m \in RepliesTo(archiver[a].threads) : _in_range(m, OrderOf(a))}
    BY <1>0, <2>0, <2>1 DEF ArchiverSteps
  <2>3. Account(a) /\ archiver[a].job \in JobIds
    BY <1>0, <2>0 DEF ArchiverSteps, JobsAreHeldOnce, Busy, Does
  <2>4. ASSUME NEW m \in owed[archiver[a].job], ChannelOf[m] = archiver[a].at
        PROVE  m \in s.found
    <3>1. m \in Messages /\ m <= posted /\ _in_range(m, OrderOf(a))
      BY <2>3 DEF OwedCanBeFound, OrderOf, BackfillTypeOK
    <3>2. IF ParentOf[m] = 0 THEN m \in archiver[a].found
          ELSE ParentOf[m] \in archiver[a].threads
      BY <2>0, <2>3, <2>4 DEF Account
    <3>3. m \in 1 .. posted
      BY <3>1, BackfillAssumption DEF BackfillTypeOK, Messages
    <3> QED
      BY <2>2, <3>1, <3>2, <3>3 DEF RepliesTo
  <2>5. OrderOf(a)' = OrderOf(a)
    BY <2>0, <2>1, <2>2 DEF OrderOf
  <2> QED
    BY <2>0, <2>1, <2>2, <2>3, <2>4, <2>5 DEF Account, Handled
<1>8. ASSUME NEW n \in Messages, ingest(a, n)
      PROVE  Account(a)'
  <2>1. PICK answer \in Outcomes(a, n) :
          /\ Turns(a, [Accounts(archiver[a], n, answer) EXCEPT !.known = Known(a)])
          /\ \/ stored' = stored \cup {n}
             \/ answer # "written" /\ stored' = stored
          /\ refused' = IF answer = "refused" THEN refused \cup {n} ELSE refused
    BY <1>8 DEF ingest
  <2>2. PICK s : s = archiver'[a]
    OBVIOUS
  <2>3. s = [Accounts(archiver[a], n, answer) EXCEPT !.known = Known(a)]
    BY <1>0, <2>1, <2>2 DEF Turns
  <2>4. /\ answer \in {"written", "duplicate", "refused", "partial", "raised"}
        /\ answer = "duplicate" => n \in stored
    BY DEF Outcomes
  <2>5. /\ s.pc = archiver[a].pc /\ s.at = archiver[a].at /\ s.job = archiver[a].job
        /\ s.left = archiver[a].left
    BY <1>0, <2>3, <2>4 DEF Accounts, ArchiverSteps
  <2>6. \/ answer \in {"partial", "raised"} /\ s.failed = TRUE
        \/ /\ answer \in {"written", "duplicate", "refused"}
           /\ s.found = archiver[a].found \ {n} /\ s.failed = archiver[a].failed
           /\ s.trouble = archiver[a].trouble
    BY <1>0, <2>3, <2>4 DEF Accounts, ArchiverSteps
  <2>7. answer \in {"partial", "raised"} => s.trouble = TRUE
    BY <1>0, <2>3, <2>4 DEF Accounts, ArchiverSteps
  <2>8. /\ Account(a) /\ archiver[a].pc = "writing" /\ owed' = owed /\ ticket' = ticket
    BY <1>8 DEF ingest, Busy, Does
  <2>9. Handled \subseteq Handled' /\ (answer \notin {"partial", "raised"} => n \in Handled')
    BY <2>1, <2>4 DEF Handled
  <2>10. OrderOf(a)' = OrderOf(a)
    BY <2>2, <2>5, <2>8 DEF OrderOf
  <2> QED
    BY <2>2, <2>5, <2>6, <2>7, <2>8, <2>9, <2>10 DEF Account
<1>9. CASE save_cursor(a)
  <2>1. /\ archiver'[a].pc = "listing" /\ archiver'[a].left = archiver[a].left \ {archiver[a].at}
        /\ archiver'[a].failed = archiver[a].failed /\ archiver'[a].job = archiver[a].job
    BY <1>0, <1>9 DEF save_cursor, Turns, ArchiverSteps
  <2>2. /\ Account(a) /\ archiver[a].pc = "writing" /\ archiver[a].found = {}
        /\ UNCHANGED <<owed, stored, refused>>
    BY <1>9 DEF save_cursor, Busy, Does
  <2> QED
    BY <2>1, <2>2 DEF Account, Handled
<1>10. CASE run_targets(a)
  <2>1. /\ archiver'[a].pc = "closing" /\ archiver'[a].job = archiver[a].job
        /\ archiver'[a].verdict = finish_state(archiver[a])
    BY <1>0, <1>10 DEF run_targets, Turns, ArchiverSteps
  <2>2. /\ Account(a) /\ archiver[a].pc = "listing" /\ archiver[a].left = {}
        /\ UNCHANGED <<owed, stored, refused>>
    BY <1>10 DEF run_targets, Busy, Does
  <2>3. archiver'[a].verdict = "succeeded" => ~archiver[a].failed
    BY <2>1 DEF finish_state
  <2> QED
    BY <2>1, <2>2, <2>3 DEF Account, Handled
<1>11. CASE DatabaseFails(a)
  <2>1. archiver'[a].pc = "erring" /\ archiver'[a].verdict = "failed"
    BY <1>0, <1>11 DEF DatabaseFails, Turns, ArchiverSteps
  <2> QED
    BY <2>1 DEF Account
<1> QED
  BY <1>1, <1>2, <1>3, <1>4, <1>5, <1>6, <1>7, <1>8, <1>9, <1>10, <1>11 DEF Works, Stumbles

LEMMA AccountStep ==
  ASSUME BackfillTypeOK, JobsAreHeldOnce, OwedCanBeFound, [BackfillNext]_backfillVars,
         \A a \in Archivers : Busy(a) => Account(a)
  PROVE  \A b \in Archivers : Busy(b)' => Account(b)'
<1>1. CASE UNCHANGED archiver /\ UNCHANGED owed
  BY <1>1, AccountKept DEF Busy, Does
<1>2. ASSUME NEW a \in Archivers, Works(a) \/ Stumbles(a), NEW b \in Archivers, Busy(b)'
      PROVE  Account(b)'
  <2>1. CASE b = a
    BY <1>2, <2>1, AccountMoved
  <2>2. CASE b # a
    <3>1. archiver'[b] = archiver[b] /\ Busy(b)
      BY <1>2, <2>2, TurnsOnly DEF Only, Busy, Does
    <3>2. owed'[archiver[b].job] = owed[archiver[b].job]
      <4>1. CASE _targets(a)
        <5>1. archiver[b].job # archiver[a].job
          BY <2>2, <3>1, <4>1 DEF JobsAreHeldOnce, Busy, Does, _targets
        <5>2. archiver[b].job \in JobIds
          BY <3>1, StepsTyped DEF ArchiverSteps, JobsAreHeldOnce
        <5> QED
          BY <4>1, <5>1, <5>2 DEF _targets, BackfillTypeOK
      <4>2. CASE ~_targets(a)
        BY <1>2, <4>2
        DEF Works, Stumbles, Acquire, recover_interrupted, claim_backfill, plan, ReadHistory,
            ChannelDenied, ReadReplies, ingest, save_cursor, run_targets, Finish, DatabaseFails,
            HandlerFails, Die
      <4> QED
        BY <4>1, <4>2
    <3> QED
      BY <3>1, <3>2, AccountKept
  <2> QED
    BY <2>1, <2>2
<1> QED
  BY <1>1, <1>2, SomeTurn

LEMMA SucceededStep ==
  ASSUME BackfillTypeOK, JobsAreHeldOnce, SucceededMeansComplete, [BackfillNext]_backfillVars,
         \A a \in Archivers : Busy(a) => Account(a)
  PROVE  SucceededMeansComplete'
<1> SUFFICES ASSUME NEW j \in JobIds, ticket'[j].state = "succeeded", ~ticket'[j].order.dry
             PROVE  owed'[j] \subseteq Handled'
  BY DEF SucceededMeansComplete
<1>1. CASE ticket'[j] = ticket[j]
  <2>1. owed'[j] = owed[j]
    <3>1. ASSUME NEW a \in Archivers, _targets(a)
          PROVE  archiver[a].job # j
      BY <1>1, <3>1 DEF _targets, Does, Busy, JobsAreHeldOnce
    <3> QED
      BY <3>1, OwedChanges DEF _targets, BackfillTypeOK
  <2> QED
    BY <1>1, <2>1, Grows DEF SucceededMeansComplete
<1>2. ASSUME NEW a \in Archivers, Finish(a), archiver[a].job = j,
             ticket'[j].state = archiver[a].verdict, ticket'[j].order = ticket[j].order
      PROVE  owed'[j] \subseteq Handled'
  <2>1. Account(a) /\ archiver[a].pc \in {"closing", "erring"} /\ owed' = owed
    BY <1>2 DEF Finish, Does, Busy
  <2> QED
    BY <1>2, <2>1, Grows DEF Account, OrderOf
<1> QED
  BY <1>1, <1>2, RowKinds DEF RowMoves

LEMMA LockLostStays ==
  ASSUME [BackfillNext]_backfillVars
  PROVE  /\ ~lockLost' => ~lockLost /\ ~LoseLock
         /\ abandoned \subseteq abandoned'
<1>1. LoseLock \/ lockLost' = lockLost
  BY ZenonT(60) DEF BackfillNext, Works, Stumbles, backfillVars, request_backfill, create_job,
         cancel_backfill, Post, SwitchChannel, Acquire, recover_interrupted, claim_backfill,
         _targets, plan, ReadHistory, ChannelDenied, ReadReplies, ingest, save_cursor, run_targets,
         Finish, DatabaseFails, HandlerFails, Die, LoseLock
<1>2. LoseLock => lockLost' = TRUE
  BY DEF LoseLock
<1>3. abandoned \subseteq abandoned'
  BY ZenonT(60) DEF BackfillNext, Works, Stumbles, backfillVars, request_backfill, create_job,
         cancel_backfill, Post, SwitchChannel, Acquire, recover_interrupted, claim_backfill,
         _targets, plan, ReadHistory, ChannelDenied, ReadReplies, ingest, save_cursor, run_targets,
         Finish, DatabaseFails, HandlerFails, Die, LoseLock
<1> QED
  BY <1>1, <1>2, <1>3

LEMMA HolderStep ==
  ASSUME BackfillTypeOK, HolderWorksAlone, [BackfillNext]_backfillVars
  PROVE  HolderWorksAlone'
<1> SUFFICES ASSUME ~lockLost', NEW b \in Archivers, ~Does(b, {"down"})'
             PROVE  lock' = b
  BY DEF HolderWorksAlone
<1>1. ~lockLost /\ ~LoseLock
  BY LockLostStays
<1>2. ASSUME NEW a \in Archivers, Acquire(a)
      PROVE  lock' = b
  <2>1. \A c \in Archivers : Does(c, {"down"})
    BY <1>1, <1>2, BackfillAssumption DEF Acquire, HolderWorksAlone
  <2>2. b = a
    BY <1>2, <2>1, TurnsOnly DEF Only, Does, Works
  <2> QED
    BY <1>2, <2>2 DEF Acquire
<1>3. ASSUME NEW a \in Archivers, Die(a)
      PROVE  lock' = b
  <2>1. archiver'[a].pc = "down"
    BY <1>3 DEF Die, Turns, Down, Idle, BackfillTypeOK
  <2>2. b # a /\ archiver'[b] = archiver[b]
    BY <1>3, <2>1, TurnsOnly DEF Only, Does, Stumbles
  <2>3. lock = b
    BY <1>1, <2>2 DEF HolderWorksAlone, Does
  <2> QED
    BY <1>3, <2>2, <2>3 DEF Die
<1>4. ASSUME NEW a \in Archivers, Works(a) \/ Stumbles(a), ~Acquire(a), ~Die(a)
      PROVE  lock' = b
  <2>1. lock' = lock /\ ~Does(a, {"down"})
    BY <1>4 DEF Works, Stumbles, Does, recover_interrupted, claim_backfill, _targets, plan,
                ReadHistory, ChannelDenied, ReadReplies, ingest, save_cursor, run_targets, Finish,
                DatabaseFails, HandlerFails
  <2>2. \A c \in Archivers \ {a} : archiver'[c] = archiver[c]
    BY <1>4, TurnsOnly DEF Only
  <2> QED
    BY <1>1, <2>1, <2>2 DEF HolderWorksAlone, Does
<1>5. CASE UNCHANGED archiver /\ UNCHANGED lock
  BY <1>1, <1>5 DEF HolderWorksAlone, Does
<1> QED
  BY <1>1, <1>2, <1>3, <1>4, <1>5
  DEF BackfillNext, backfillVars, request_backfill, create_job, cancel_backfill, Post,
      SwitchChannel

LEMMA RunningIsClaimed ==
  ASSUME BackfillTypeOK, [BackfillNext]_backfillVars, NEW j \in JobIds,
         ticket[j].state # "running", ticket'[j].state = "running"
  PROVE  \E a \in Archivers : claim_backfill(a, j)
<1>0. ticket \in [JobIds -> BackfillRows] /\ ticket[j] \in BackfillRows
  BY DEF BackfillTypeOK
<1>1. ASSUME NEW c \in Consoles, NEW k \in JobIds, create_job(c, k)
      PROVE  FALSE
  BY <1>0, <1>1 DEF create_job
<1>2. ASSUME NEW k \in JobIds, cancel_backfill(k)
      PROVE  FALSE
  BY <1>0, <1>2 DEF cancel_backfill, BackfillRows
<1>3. ASSUME NEW a \in Archivers, recover_interrupted(a)
      PROVE  FALSE
  BY <1>0, <1>3 DEF recover_interrupted, fail_interrupted, BackfillRows
<1>4. ASSUME NEW a \in Archivers, Finish(a)
      PROVE  FALSE
  <2>1. archiver[a].verdict # "running"
    BY StepsTyped DEF ArchiverSteps
  <2> QED
    BY <1>0, <1>4, <2>1 DEF Finish, finish_backfill, BackfillRows
<1>5. ASSUME NEW a \in Archivers, NEW k \in JobIds, claim_backfill(a, k)
      PROVE  k = j
  BY <1>0, <1>5 DEF claim_backfill, BackfillRows
<1>6. CASE UNCHANGED ticket
  BY <1>6
<1> QED
  BY <1>1, <1>2, <1>3, <1>4, <1>5, <1>6, ZenonT(60)
  DEF BackfillNext, Works, Stumbles, backfillVars, request_backfill, Post, SwitchChannel,
      Acquire, _targets, plan, ReadHistory, ChannelDenied, ReadReplies, ingest, save_cursor,
      run_targets, DatabaseFails, HandlerFails, Die, LoseLock

LEMMA RunningStep ==
  ASSUME BackfillTypeOK, JobsAreHeldOnce, HolderWorksAlone, RunningIsRun,
         [BackfillNext]_backfillVars
  PROVE  RunningIsRun'
<1> SUFFICES ASSUME ~lockLost', NEW j \in JobIds, ticket'[j].state = "running"
             PROVE  \/ j \in abandoned'
                    \/ \A a \in Archivers : Does(a, {"down", "starting"})'
                    \/ \E a \in Archivers : lock' = a /\ archiver'[a].job = j
  BY DEF RunningIsRun, In
<1>0. 0 \notin JobIds
  BY BackfillAssumption
<1>1. ~lockLost /\ ~LoseLock /\ abandoned \subseteq abandoned'
  BY LockLostStays
<1>2. HolderWorksAlone'
  BY HolderStep
<1>3. ASSUME NEW a \in Archivers, Takes(a, j)
      PROVE  \E b \in Archivers : lock' = b /\ archiver'[b].job = j
  BY <1>2, <1>3 DEF Takes, HolderWorksAlone, Does
<1>4. CASE ticket[j].state = "running"
  <2>1. \/ j \in abandoned
        \/ \A a \in Archivers : Does(a, {"down", "starting"})
        \/ \E a \in Archivers : lock = a /\ archiver[a].job = j
    BY <1>1, <1>4 DEF RunningIsRun, In
  <2>2. CASE \A a \in Archivers : Does(a, {"down", "starting"})
    <3>1. ASSUME NEW a \in Archivers, recover_interrupted(a)
          PROVE  FALSE
      BY <1>4, <3>1 DEF recover_interrupted, fail_interrupted, BackfillTypeOK, BackfillRows
    <3>2. ASSUME NEW a \in Archivers, Acquire(a) \/ Die(a)
          PROVE  \A b \in Archivers : Does(b, {"down", "starting"})'
      <4>1. archiver'[a].pc \in {"down", "starting"}
        BY <3>2 DEF Acquire, Die, Turns, Down, Idle, BackfillTypeOK
      <4> QED
        BY <2>2, <3>2, <4>1, TurnsOnly DEF Only, Does, Works, Stumbles
    <3>3. \A a \in Archivers : Works(a) \/ Stumbles(a)
            => recover_interrupted(a) \/ Acquire(a) \/ Die(a)
      BY <2>2, ZenonT(60) DEF Works, Stumbles, Does, claim_backfill, _targets, plan, ReadHistory,
                  ChannelDenied, ReadReplies, ingest, save_cursor, run_targets, Finish,
                  DatabaseFails, HandlerFails
    <3> QED
      BY <2>2, <3>1, <3>2, <3>3, SomeTurn DEF Does
  <2>3. ASSUME NEW b \in Archivers, lock = b, archiver[b].job = j, j \notin abandoned'
        PROVE  \/ \A a \in Archivers : Does(a, {"down", "starting"})'
               \/ \E a \in Archivers : lock' = a /\ archiver'[a].job = j
    <3>1. Busy(b)
      BY <1>0, <2>3 DEF JobsAreHeldOnce
    <3>2. \A a \in Archivers \ {b} : Does(a, {"down"})
      BY <1>1, <2>3 DEF HolderWorksAlone
    <3>3. CASE archiver'[b].job = j
      <4>1. ~Does(b, {"down"})'
        BY <1>0, <3>3, HeldOnceStep DEF JobsAreHeldOnce, Busy, Does
      <4> QED
        BY <1>2, <3>3, <4>1 DEF HolderWorksAlone
    <3>4. CASE archiver'[b].job # j
      <4>1. Works(b) \/ Stumbles(b)
        BY <2>3, <3>4, SomeTurn, TurnsOnly DEF Only
      <4>2. LetsGo(b)
        BY <2>3, <3>1, <3>4, <4>1, ArchiverKinds DEF KeepsJob
      <4>3. ASSUME Finish(b)
            PROVE  FALSE
        <5>1. archiver[b].verdict # "running"
          BY StepsTyped DEF ArchiverSteps
        <5> QED
          BY <1>4, <2>3, <4>3, <5>1 DEF Finish, finish_backfill, BackfillTypeOK, BackfillRows
      <4>4. ~HandlerFails(b)
        BY <2>3 DEF HandlerFails
      <4>5. Die(b)
        BY <3>1, <4>2, <4>3, <4>4 DEF LetsGo, Busy, Does, Acquire, recover_interrupted
      <4>6. archiver'[b].pc = "down"
        BY <4>5 DEF Die, Turns, Down, Idle, BackfillTypeOK
      <4>7. \A a \in Archivers \ {b} : archiver'[a] = archiver[a]
        BY <4>1, TurnsOnly DEF Only
      <4> QED
        BY <3>2, <4>6, <4>7 DEF Does
    <3> QED
      BY <3>3, <3>4
  <2> QED
    BY <1>1, <2>1, <2>2, <2>3
<1>5. CASE ticket[j].state # "running"
  <2>1. \E a \in Archivers : claim_backfill(a, j)
    BY <1>5, RunningIsClaimed
  <2> QED
    BY <1>3, <2>1 DEF claim_backfill, Takes, Turns, Idle, Does, BackfillTypeOK
<1> QED
  BY <1>4, <1>5

(***************************************************************************)
(* Theorems.                                                               *)
(***************************************************************************)
LEMMA BackfillInvInit == BackfillInit => BackfillInv
<1> SUFFICES ASSUME BackfillInit
             PROVE  BackfillInv
  OBVIOUS
<1>1. BackfillTypeOK
  BY BackfillInitType
<1>2. \A a \in Archivers : archiver[a].pc = "down" /\ archiver[a].job = 0
  BY DEF BackfillInit, Down, Idle
<1>3. \A j \in JobIds : ticket[j].state = "absent" /\ owed[j] = {}
  BY DEF BackfillInit
<1> QED
  BY <1>1, <1>2, <1>3 DEF BackfillInv, JobsAreHeldOnce, OwedCanBeFound, SucceededMeansComplete,
     HolderWorksAlone, RunningIsRun, Busy, Does, In

LEMMA BackfillInvStep == BackfillInv /\ [BackfillNext]_backfillVars => BackfillInv'
  BY BackfillTypeStep, HeldOnceStep, OwedFoundStep, AccountStep, SucceededStep, HolderStep,
     RunningStep DEF BackfillInv

THEOREM BackfillInvariant == BackfillSpec => []BackfillInv
  BY BackfillInvInit, BackfillInvStep, PTL DEF BackfillSpec

\* Every reachable state of the backfill is well typed.
THEOREM BackfillTypes == BackfillSpec => []BackfillTypeOK
<1>1. BackfillInv => BackfillTypeOK
  BY DEF BackfillInv
<1> QED
  BY <1>1, BackfillInvariant, PTL

\* A succeeded job left nothing it owed unhandled: the invariant carries the account of each
\* archiver from the choice of its channels to the verdict.
THEOREM SucceededJobsAreComplete == BackfillSpec => []SucceededMeansComplete
<1>1. BackfillInv => SucceededMeansComplete
  BY DEF BackfillInv
<1> QED
  BY <1>1, BackfillInvariant, PTL

\* As long as no lock was lost, every running row has a process that answers for it.
THEOREM RunningRowsAreRun == BackfillSpec => []RunningIsRun
<1>1. BackfillInv => RunningIsRun
  BY DEF BackfillInv
<1> QED
  BY <1>1, BackfillInvariant, PTL

\* An ended job never changes, lost locks and late processes included.
THEOREM EndedJobsAreFinal == BackfillSpec => FinishedIsFinal
<1>1. BackfillInv /\ [BackfillNext]_backfillVars
        => [\A j \in JobIds : ticket[j].state \in Ended => ticket'[j] = ticket[j]]_backfillVars
  BY EndedRowStays DEF BackfillInv
<1> QED
  BY <1>1, BackfillInvariant, PTL DEF BackfillSpec, FinishedIsFinal

\* A cursor moves forward, and only past what was handled: the move is made by the process
\* whose account of that channel is empty.
THEOREM CursorsPassOnlyHandled == BackfillSpec => CursorPassesOnlyHandled
<1>1. ASSUME BackfillInv, [BackfillNext]_backfillVars, NEW c \in Channels, cursor'[c] # cursor[c]
      PROVE  /\ cursor'[c] > cursor[c]
             /\ \E a \in Archivers : /\ archiver[a].at = c /\ archiver[a].job # 0
                                     /\ \A m \in owed[archiver[a].job] :
                                          ChannelOf[m] = c /\ m <= cursor'[c] => m \in Handled
  <2>1. PICK a \in Archivers : save_cursor(a)
    BY <1>1, ZenonT(60)
    DEF BackfillNext, Works, Stumbles, backfillVars, request_backfill, create_job,
        cancel_backfill, Post, SwitchChannel, Acquire, recover_interrupted, claim_backfill,
        _targets, plan, ReadHistory, ChannelDenied, ReadReplies, ingest, run_targets,
        Finish, DatabaseFails, HandlerFails, Die, LoseLock
  <2>2. /\ BackfillTypeOK /\ archiver[a].pc = "writing" /\ archiver[a].found = {}
        /\ Account(a) /\ archiver[a].job # 0
    BY <1>1, <2>1 DEF BackfillInv, save_cursor, JobsAreHeldOnce, Busy, Does
  <2>3. /\ archiver[a].at = c /\ archiver[a].highest > cursor[c] /\ ~archiver[a].trouble
        /\ cursor'[c] = archiver[a].highest
    BY <1>1, <2>1, <2>2 DEF save_cursor, advance_cursor, BackfillTypeOK
  <2> QED
    BY <2>2, <2>3 DEF Account
<1>2. BackfillInv /\ [BackfillNext]_backfillVars
        => [\A c \in Channels : cursor'[c] # cursor[c] =>
              /\ cursor'[c] > cursor[c]
              /\ \E a \in Archivers : /\ archiver[a].at = c /\ archiver[a].job # 0
                                      /\ \A m \in owed[archiver[a].job] :
                                           ChannelOf[m] = c /\ m <= cursor'[c]
                                             => m \in Handled]_backfillVars
  BY <1>1
<1> QED
  BY <1>2, BackfillInvariant, PTL DEF BackfillSpec, CursorPassesOnlyHandled

(***************************************************************************)
(* The backfill implements its promise.                                    *)
(***************************************************************************)
\* A claimed job has not looked yet, and a dry one never owes: a debt is settled once.
DebtsAreFresh ==
  /\ \A a \in Archivers : Does(a, {"claimed"}) => owed[archiver[a].job] = {}
  /\ \A j \in JobIds : ticket[j].order.dry => owed[j] = {}

LEMMA ClaimedStaysFresh ==
  ASSUME BackfillInv, DebtsAreFresh, [BackfillNext]_backfillVars, NEW b \in Archivers,
         Does(b, {"claimed"})'
  PROVE  owed'[archiver'[b].job] = {}
<1>0. /\ BackfillTypeOK /\ JobsAreHeldOnce /\ OwedCanBeFound
      /\ archiver[b].job \in JobIds \cup {0}
  BY StepsTyped DEF ArchiverSteps, BackfillInv
<1>1. ASSUME NEW a \in Archivers, _targets(a), archiver[a].job \in JobIds
      PROVE  owed'[archiver'[b].job] = {}
  <2>1. Busy(a) /\ archiver' = [archiver EXCEPT ![a] = archiver'[a]]
    BY <1>0, <1>1 DEF _targets, Busy, Does, Turns, BackfillTypeOK
  <2>2. archiver'[a].pc # "claimed"
    BY <1>0, <1>1, StepsTyped DEF _targets, Turns, BackfillTypeOK, ArchiverSteps
  <2>3. b # a /\ archiver'[b] = archiver[b] /\ Busy(b) /\ Does(b, {"claimed"})
    BY <2>1, <2>2, <1>0 DEF Does, Busy, BackfillTypeOK
  <2>4. archiver[b].job # archiver[a].job /\ archiver[b].job \in JobIds
    BY <1>0, <2>1, <2>3 DEF JobsAreHeldOnce
  <2> QED
    BY <1>0, <1>1, <2>3, <2>4 DEF _targets, BackfillTypeOK, DebtsAreFresh
<1>2. CASE owed' = owed
  <2>1. CASE archiver'[b] = archiver[b]
    BY <1>2, <2>1 DEF DebtsAreFresh, Does
  <2>2. ASSUME NEW j \in JobIds, Takes(b, j)
        PROVE  owed'[archiver'[b].job] = {}
    BY <1>0, <1>2, <2>2 DEF Takes, OwedCanBeFound
  <2>3. ASSUME NEW a \in Archivers, Works(a) \/ Stumbles(a)
        PROVE  archiver'[b] = archiver[b] \/ (b = a /\ \E j \in JobIds : Takes(b, j))
    BY <1>0, <2>3, TurnsOnly, ArchiverKinds DEF Only, KeepsJob, LetsGo, Does
  <2> QED
    BY <1>0, <2>1, <2>2, <2>3, SomeTurn
<1> QED
  BY <1>0, <1>1, <1>2, OwedChanges

LEMMA DebtsAreFreshStep ==
  BackfillInv /\ DebtsAreFresh /\ [BackfillNext]_backfillVars => DebtsAreFresh'
<1> SUFFICES ASSUME BackfillInv, DebtsAreFresh, [BackfillNext]_backfillVars,
                    NEW j \in JobIds, ticket'[j].order.dry
             PROVE  owed'[j] = {}
  BY ClaimedStaysFresh DEF DebtsAreFresh
<1>0. BackfillTypeOK /\ JobsAreHeldOnce /\ OwedCanBeFound
  BY DEF BackfillInv
<1>1. owed[j] = {}
  BY <1>0, RowKinds DEF RowMoves, OwedCanBeFound, DebtsAreFresh
<1>2. ASSUME NEW a \in Archivers, _targets(a)
      PROVE  owed'[j] = {}
  BY <1>0, <1>1, <1>2 DEF _targets, OrderOf, BackfillTypeOK
<1> QED
  BY <1>0, <1>1, <1>2, OwedChanges

StateOf == [j \in JobIds |-> ticket[j].state]

LEMMA OneRowSeen ==
  ASSUME BackfillTypeOK, NEW j \in JobIds, NEW s, NEW row, row.state = s,
         ticket' = [ticket EXCEPT ![j] = row], UNCHANGED <<owed, stored, refused, cursor>>
  PROVE  JobPromise!Becomes(j, s)
  BY DEF BackfillTypeOK, JobPromise!Becomes, Handled

LEMMA ConsoleKeepsPromise ==
  ASSUME BackfillInv, NEW j \in JobIds
  PROVE  /\ \A c \in Consoles : create_job(c, j) => JobPromise!Request(j)
         /\ cancel_backfill(j) => JobPromise!Withdraw(j)
         /\ \A a \in Archivers : claim_backfill(a, j) => JobPromise!Begin(j)
<1>0. BackfillTypeOK /\ ticket[j] \in BackfillRows
  BY DEF BackfillInv, BackfillTypeOK
<1>1. ASSUME NEW c \in Consoles, create_job(c, j)
      PROVE  JobPromise!Request(j)
  <2>1. PICK row : row.state = "queued" /\ ticket' = [ticket EXCEPT ![j] = row]
    BY <1>1 DEF create_job
  <2>2. JobPromise!Becomes(j, "queued")
    BY <1>0, <1>1, <2>1, OneRowSeen DEF create_job
  <2> QED
    BY <1>0, <1>1, <2>2 DEF create_job, In, JobPromise!Request, JobPromise!IsNext
<1>2. ASSUME cancel_backfill(j)
      PROVE  JobPromise!Withdraw(j)
  <2>1. PICK row : row.state = "cancelled" /\ ticket' = [ticket EXCEPT ![j] = row]
    BY <1>0, <1>2 DEF cancel_backfill, BackfillRows
  <2> QED
    BY <1>0, <1>2, <2>1, OneRowSeen DEF cancel_backfill, JobPromise!Withdraw
<1>3. ASSUME NEW a \in Archivers, claim_backfill(a, j)
      PROVE  JobPromise!Begin(j)
  <2>1. PICK row : row.state = "running" /\ ticket' = [ticket EXCEPT ![j] = row]
    BY <1>0, <1>3 DEF claim_backfill, BackfillRows
  <2>2. JobPromise!Becomes(j, "running")
    BY <1>0, <1>3, <2>1, OneRowSeen DEF claim_backfill
  <2> QED
    BY <1>0, <1>3, <2>2 DEF claim_backfill, In, JobPromise!Begin, JobPromise!IsNext
<1> QED
  BY <1>1, <1>2, <1>3

LEMMA SurveyKeepsPromise ==
  ASSUME BackfillInv, DebtsAreFresh, NEW a \in Archivers, _targets(a)
  PROVE  \E j \in JobIds : JobPromise!Survey(j)
<1>0. /\ BackfillTypeOK /\ archiver[a].job \in JobIds /\ Does(a, {"claimed"})
      /\ ticket[archiver[a].job].state \in {"running", "failed"}
  BY StepsTyped DEF ArchiverSteps, BackfillInv, JobsAreHeldOnce, Busy, Does, _targets
<1>1. \A targets, order : Owed(targets, order) \subseteq Messages
  BY <1>0, BackfillAssumption DEF Owed, BackfillTypeOK, Messages
<1>2. \E found \in SUBSET Messages : owed' = [owed EXCEPT ![archiver[a].job] = found]
  BY <1>1 DEF _targets
<1>3. UNCHANGED <<StateOf, Handled, cursor>> /\ owed[archiver[a].job] = {}
  BY <1>0 DEF _targets, DebtsAreFresh, StateOf, Handled
<1> QED
  BY <1>0, <1>2, <1>3 DEF JobPromise!Survey, JobPromise!WasBegun, StateOf

LEMMA CursorKeepsPromise ==
  ASSUME BackfillInv, NEW a \in Archivers, save_cursor(a)
  PROVE  \/ UNCHANGED cursor
         \/ \E j \in JobIds, c \in Channels : JobPromise!Advance(c, j)
<1>0. /\ BackfillTypeOK /\ archiver[a] \in ArchiverSteps /\ archiver[a].job \in JobIds
      /\ ticket[archiver[a].job].state \in {"running", "failed"} /\ Account(a)
      /\ archiver[a].pc = "writing" /\ archiver[a].found = {}
  BY StepsTyped DEF ArchiverSteps, BackfillInv, JobsAreHeldOnce, Busy, Does, save_cursor
<1>1. CASE \/ archiver[a].at \notin Channels
           \/ ~(archiver[a].highest > cursor[archiver[a].at] /\ ~archiver[a].trouble)
  BY <1>0, <1>1 DEF save_cursor, advance_cursor, BackfillTypeOK
<1>2. CASE /\ archiver[a].at \in Channels
           /\ archiver[a].highest > cursor[archiver[a].at] /\ ~archiver[a].trouble
  <2> DEFINE c == archiver[a].at
             to == archiver[a].highest
  <2>1. cursor' = [cursor EXCEPT ![c] = to] /\ to > cursor[c]
    BY <1>0, <1>2 DEF save_cursor, advance_cursor, BackfillTypeOK
  <2>2. to \in Messages
    BY <1>0, <1>2, BackfillAssumption DEF ArchiverSteps, BackfillTypeOK, Messages
  <2>3. \A m \in owed[archiver[a].job] : ChannelOf[m] = c /\ m <= to => m \in Handled
    BY <1>0, <1>2 DEF Account
  <2>4. UNCHANGED <<StateOf, owed, Handled>>
    BY DEF save_cursor, StateOf, Handled
  <2>5. JobPromise!Advance(c, archiver[a].job)
    BY <1>0, <2>1, <2>2, <2>3, <2>4 DEF JobPromise!Advance, JobPromise!WasBegun, StateOf
  <2> QED
    BY <1>0, <1>2, <2>5
<1> QED
  BY <1>1, <1>2

LEMMA EndKeepsPromise ==
  ASSUME BackfillInv, DebtsAreFresh, NEW a \in Archivers, Finish(a)
  PROVE  \/ UNCHANGED ticket
         \/ \E j \in JobIds, verdict \in JobPromise!Verdicts : JobPromise!Close(j, verdict)
<1>0. /\ BackfillTypeOK /\ archiver[a] \in ArchiverSteps /\ archiver[a].job \in JobIds
      /\ archiver[a].pc \in {"closing", "erring"} /\ Account(a)
      /\ ticket[archiver[a].job] \in BackfillRows
  BY StepsTyped DEF ArchiverSteps, BackfillInv, BackfillTypeOK, JobsAreHeldOnce, Busy, Does, Finish
<1>1. PICK j \in JobIds, verdict \in JobPromise!Verdicts :
        j = archiver[a].job /\ verdict = archiver[a].verdict
  BY <1>0 DEF ArchiverSteps, JobPromise!Verdicts
<1>2. CASE ticket[j].state # "running"
  BY <1>0, <1>1, <1>2 DEF Finish, finish_backfill, BackfillTypeOK
<1>3. CASE ticket[j].state = "running"
  <2>1. PICK row : row.state = verdict /\ ticket' = [ticket EXCEPT ![j] = row]
    BY <1>0, <1>1, <1>3 DEF Finish, finish_backfill, BackfillRows
  <2>2. JobPromise!Becomes(j, verdict)
    BY <1>0, <2>1, OneRowSeen DEF Finish
  <2>3. verdict = "succeeded" => owed[j] \subseteq Handled
    BY <1>0, <1>1 DEF Account, OrderOf, DebtsAreFresh
  <2> QED
    BY <1>0, <1>3, <2>2, <2>3 DEF JobPromise!Close
<1> QED
  BY <1>2, <1>3

LEMMA RecoveryKeepsPromise ==
  ASSUME BackfillTypeOK, NEW a \in Archivers, recover_interrupted(a)
  PROVE  JobPromise!Interrupt
<1>1. \A j \in JobIds : fail_interrupted(ticket[j]).state
                          = IF ticket[j].state = "running" THEN "failed" ELSE ticket[j].state
  BY DEF BackfillTypeOK, BackfillRows, fail_interrupted
<1> QED
  BY <1>1 DEF recover_interrupted, JobPromise!Interrupt, Handled

LEMMA ArchiveKeepsPromise ==
  ASSUME BackfillTypeOK, [BackfillNext]_backfillVars, UNCHANGED <<ticket, owed, cursor>>,
         JobsAreHeldOnce
  PROVE  JobPromise!Archive
<1>1. Handled \subseteq Handled' /\ Handled' \subseteq Messages
  BY Grows, BackfillTypeStep DEF BackfillTypeOK, Handled
<1> QED
  BY <1>1 DEF JobPromise!Archive, Handled

LEMMA BackfillStepKeepsPromise ==
  ASSUME BackfillInv, DebtsAreFresh, [BackfillNext]_backfillVars
  PROVE  [JobPromise!Next]_<<StateOf, owed, Handled, cursor>>
<1>0. BackfillTypeOK /\ JobsAreHeldOnce
  BY DEF BackfillInv
<1>1. CASE UNCHANGED <<ticket, owed, cursor>>
  BY <1>0, <1>1, ArchiveKeepsPromise DEF JobPromise!Next
<1>2. ASSUME NEW c \in Consoles, NEW j \in JobIds, create_job(c, j)
      PROVE  JobPromise!Next
  BY <1>2, ConsoleKeepsPromise DEF JobPromise!Next
<1>3. ASSUME NEW j \in JobIds, cancel_backfill(j)
      PROVE  JobPromise!Next
  BY <1>3, ConsoleKeepsPromise DEF JobPromise!Next
<1>4. ASSUME NEW a \in Archivers, NEW j \in JobIds, claim_backfill(a, j)
      PROVE  JobPromise!Next
  BY <1>4, ConsoleKeepsPromise DEF JobPromise!Next
<1>5. ASSUME NEW a \in Archivers, _targets(a)
      PROVE  JobPromise!Next
  BY <1>5, SurveyKeepsPromise DEF JobPromise!Next
<1>6. ASSUME NEW a \in Archivers, save_cursor(a)
      PROVE  UNCHANGED <<ticket, owed, cursor>> \/ JobPromise!Next
  BY <1>6, CursorKeepsPromise DEF JobPromise!Next, save_cursor
<1>7. ASSUME NEW a \in Archivers, Finish(a)
      PROVE  UNCHANGED <<ticket, owed, cursor>> \/ JobPromise!Next
  BY <1>7, EndKeepsPromise DEF JobPromise!Next, Finish
<1>8. ASSUME NEW a \in Archivers, recover_interrupted(a)
      PROVE  JobPromise!Next
  BY <1>0, <1>8, RecoveryKeepsPromise DEF JobPromise!Next
<1> QED
  BY <1>1, <1>2, <1>3, <1>4, <1>5, <1>6, <1>7, <1>8, ZenonT(60)
  DEF BackfillNext, Works, Stumbles, backfillVars, request_backfill, Post, SwitchChannel, Acquire,
      plan, ReadHistory, ChannelDenied, ReadReplies, ingest, run_targets, DatabaseFails,
      HandlerFails, Die, LoseLock

\* The backfill implements its promise: whatever its processes, the lock, the reads and the
\* faults do, what a reader of jobs, cursors and archive sees is one job after the other, begun
\* and closed once, and nothing said to be dealt with that is not.
THEOREM BackfillKeepsPromise == BackfillSpec => JobPromiseKept
<1>1. BackfillInit => DebtsAreFresh /\ JobPromise!Init
  BY DEF BackfillInit, DebtsAreFresh, Does, Down, Idle, NoOrder, JobPromise!Init, Handled
<1>2. BackfillSpec => []DebtsAreFresh
  BY <1>1, DebtsAreFreshStep, BackfillInvariant, PTL DEF BackfillSpec
<1>3. BackfillInv /\ DebtsAreFresh /\ [BackfillNext]_backfillVars
        => [JobPromise!Next]_<<[j \in JobIds |-> ticket[j].state], owed, Handled, cursor>>
  BY BackfillStepKeepsPromise DEF StateOf
<1> QED
  BY <1>1, <1>2, <1>3, BackfillInvariant, PTL DEF BackfillSpec, JobPromiseKept, JobPromise!Spec
=============================================================================
