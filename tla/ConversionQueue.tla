--------------------------- MODULE ConversionQueue ---------------------------
(***************************************************************************)
(* The queue of attachment conversions to try again (conversion_queue.py)  *)
(* and the runs that empty it (scripts/drain_conversion_queue.py): every   *)
(* five minutes, one every night, one whenever somebody types the command. *)
(* A run takes back the leases that ran out, looks at the circuit breaker, *)
(* claims a batch, and then works through it one job after the other: it   *)
(* converts, publishes, and closes the job by its id alone.  Ingest, the   *)
(* nightly scan and people put jobs into the queue meanwhile.              *)
(*                                                                         *)
(* Time is not counted: a lease may run out, a waiting job may become due  *)
(* and a breaker's probe may become due whenever they are pending, so all  *)
(* lengths of leases, pauses and conversions are covered.  The reason of a *)
(* failure matters only by what it does to the job and to the breaker.     *)
(***************************************************************************)
EXTENDS Naturals, FiniteSets

CONSTANTS
  Jobs,
  Runs,               \* processes of the drain script
  NoJob,
  MAX_ATTEMPTS,
  BREAKER_THRESHOLD,
  Limit               \* jobs a run claims at once

ASSUME QueueAssumption ==
  /\ NoJob \notin Jobs
  /\ MAX_ATTEMPTS \in Nat \ {0}
  /\ BREAKER_THRESHOLD \in Nat \ {0}
  /\ Limit \in Nat \ {0}

VARIABLES
  job,        \* each job's row in conversion_job
  breaker,    \* the row of conversion_breaker for the jobs' converter
  run,        \* each run's step, what it holds, and what it knows
  published,  \* are the job's results in the archive and the index?
  tried,      \* history: how often the job was handed to a run (up to MAX_ATTEMPTS)
  lapsed,     \* history: was the job ever taken from a run by its lease or a new request?
  forced      \* history: did a person ever ask for the job?

queueVars == <<job, breaker, run, published, tried, lapsed, forced>>

\* MAX_ATTEMPTS stands for every greater count: the code only compares with it.
Attempts == 0 .. MAX_ATTEMPTS
OneMore(n) == IF n < MAX_ATTEMPTS THEN n + 1 ELSE n

States == {"queued", "leased", "succeeded", "failed", "held"}

\* A failure's code: the environment's (converter_missing), a time-out, a crash of the
\* converter, another one that may be tried again, and one that may not.
Codes == {"environment", "timeout", "crash", "transient", "terminal"}

JobRows == [state : States \cup {"absent"}, attempts : Attempts, due : BOOLEAN,
            lease : {"none", "running", "over"}]
Breakers == [failures : 0 .. BREAKER_THRESHOLD, state : {"closed", "open", "probing"}]
Steps == [pc : {"idle", "reclaimed", "looked", "working", "converted", "published",
                "failing", "judged"},
          blocked : BOOLEAN, batch : SUBSET Jobs, at : Jobs \cup {NoJob},
          code : Codes, next : {"queued", "failed", "held"}]

NoJobRow == [state |-> "absent", attempts |-> 0, due |-> FALSE, lease |-> "none"]
NoRun == [pc |-> "idle", blocked |-> FALSE, batch |-> {}, at |-> NoJob,
          code |-> "terminal", next |-> "failed"]

QueueTypeOK ==
  /\ job \in [Jobs -> JobRows] /\ breaker \in Breakers /\ run \in [Runs -> Steps]
  /\ published \subseteq Jobs /\ lapsed \subseteq Jobs /\ forced \subseteq Jobs
  /\ tried \in [Jobs -> Attempts]

QueueInit ==
  /\ job = [j \in Jobs |-> NoJobRow]
  /\ breaker = [failures |-> 0, state |-> "closed"]
  /\ run = [w \in Runs |-> NoRun]
  /\ published = {} /\ lapsed = {} /\ forced = {}
  /\ tried = [j \in Jobs |-> 0]

(***************************************************************************)
(* Retry policy.                                                           *)
(***************************************************************************)
is_retryable(code) == code \in {"timeout", "transient"}

\* A slip: the attempts are not counted.
NextStateForgetsCap(code, attempts) ==
  CASE code = "environment"                          -> "held"
    [] code # "environment" /\ ~is_retryable(code)   -> "failed"
    [] OTHER                                         -> "queued"

next_state(code, attempts) ==
  CASE code = "environment"                             -> "held"
    [] is_retryable(code) /\ attempts < MAX_ATTEMPTS     -> "queued"
    [] OTHER                                            -> "failed"

(***************************************************************************)
(* Putting jobs in.                                                        *)
(***************************************************************************)

\* A slip: a person's request revives what has succeeded.
RequeuesFinished(row, force) == force \/ row.attempts < MAX_ATTEMPTS

\* The WHERE of the upsert: a success is not revived, a used-up job only by force.
Requeues(row, force) ==
  row.state # "succeeded" /\ (force \/ row.attempts < MAX_ATTEMPTS)

\* Ingest and the nightly scan ask without force, people with it.  An existing row only
\* changes its state: its count, its time and its lease stay.
Enqueue(j, force) ==
  /\ \/ /\ job[j].state = "absent"
        /\ job' = [job EXCEPT ![j] = [NoJobRow EXCEPT !.state = "queued", !.due = TRUE]]
     \/ /\ job[j].state # "absent"
        /\ Requeues(job[j], force)
        /\ job' = [job EXCEPT ![j].state = "queued"]
  /\ lapsed' = IF job[j].state = "leased" THEN lapsed \cup {j} ELSE lapsed
  /\ forced' = IF force THEN forced \cup {j} ELSE forced
  /\ UNCHANGED <<breaker, run, published, tried>>

(***************************************************************************)
(* A run.                                                                  *)
(***************************************************************************)
TakeStep(w, step) == run' = [run EXCEPT ![w] = step]

\* A slip: a job that used up its attempts is left with the run that died on it.
ReclaimableWithAttempts(row) ==
  row.state = "leased" /\ row.lease = "over" /\ row.attempts < MAX_ATTEMPTS

Reclaimable(row) == row.state = "leased" /\ row.lease = "over"

\* reclaim_expired, the first thing a run does.
Reclaim(w) ==
  /\ run[w].pc = "idle"
  /\ job' = [j \in Jobs |-> IF Reclaimable(job[j])
                            THEN [job[j] EXCEPT !.state = "queued", !.lease = "none"]
                            ELSE job[j]]
  /\ lapsed' = lapsed \cup {j \in Jobs : Reclaimable(job[j])}
  /\ TakeStep(w, [NoRun EXCEPT !.pc = "reclaimed"])
  /\ UNCHANGED <<breaker, published, tried, forced>>

\* open_breakers, in a transaction of its own; unreadable means that nothing is blocked.
LookAtBreaker(w) ==
  /\ run[w].pc = "reclaimed"
  /\ \E blocked \in {FALSE, breaker.state = "open"} :
       TakeStep(w, [run[w] EXCEPT !.pc = "looked", !.blocked = blocked])
  /\ UNCHANGED <<job, breaker, published, tried, lapsed, forced>>

\* A slip: a job given back keeps the attempt it was not given.
HeldBackCounted(row) ==
  [row EXCEPT !.attempts = OneMore(@), !.due = FALSE, !.lease = "none"]

\* Claimed and given back in the same transaction: the attempt is taken off again.
HeldBack(row) == [row EXCEPT !.due = FALSE, !.lease = "none"]

\* A slip: a lease without an end.
LeasedForever(row) == [row EXCEPT !.state = "leased", !.attempts = OneMore(@), !.lease = "endless"]

Leased(row) == [row EXCEPT !.state = "leased", !.attempts = OneMore(@), !.lease = "running"]

\* A slip: rows under a lease are claimed as well.
ClaimableAnyTime(row) == row.state \in {"queued", "leased"} /\ row.due

Claimable(row) == row.state = "queued" /\ row.due

\* claim.  Rows another transaction has locked are skipped, so any choice is possible.
Claim(w) ==
  /\ run[w].pc = "looked"
  /\ \E picked \in SUBSET {j \in Jobs : Claimable(job[j])} :
       LET given == IF run[w].blocked THEN {} ELSE picked
       IN /\ Cardinality(picked) <= Limit
          /\ job' = [j \in Jobs |-> CASE j \in given             -> Leased(job[j])
                                      [] j \in picked \ given    -> HeldBack(job[j])
                                      [] j \notin picked         -> job[j]]
          /\ tried' = [j \in Jobs |-> IF j \in given THEN OneMore(tried[j]) ELSE tried[j]]
          /\ TakeStep(w, IF given = {} THEN NoRun
                       ELSE [NoRun EXCEPT !.pc = "working", !.batch = given])
  /\ UNCHANGED <<breaker, published, lapsed, forced>>

Failing(w, j, code) == [run[w] EXCEPT !.pc = "failing", !.at = j, !.code = code]

\* reconvert: the original is there and its text comes out, or a code.
ConvertJob(w) ==
  /\ run[w].pc = "working"
  /\ \E j \in run[w].batch :
       \/ TakeStep(w, [run[w] EXCEPT !.pc = "converted", !.at = j])
       \/ \E code \in Codes : TakeStep(w, Failing(w, j, code))
  /\ UNCHANGED <<job, breaker, published, tried, lapsed, forced>>

\* A slip: a document that could not be indexed closes the job all the same.
PublishesWithoutIndex(w) ==
  /\ UNCHANGED published
  /\ TakeStep(w, [run[w] EXCEPT !.pc = "published"])

\* The document and its index entry: what the job's success stands for.
PublishSucceeds(w) ==
  /\ published' = published \cup {run[w].at}
  /\ TakeStep(w, [run[w] EXCEPT !.pc = "published"])

\* publish_reconversion: repeatable, and it may stop short with a code.
Publish(w) ==
  /\ run[w].pc = "converted"
  /\ \/ PublishSucceeds(w)
     \/ /\ \E code \in {"transient", "terminal"} : TakeStep(w, Failing(w, run[w].at, code))
        /\ UNCHANGED published
  /\ UNCHANGED <<job, breaker, tried, lapsed, forced>>

\* On with the next job of the batch.
NextJob(w) ==
  LET left == run[w].batch \ {run[w].at}
  IN TakeStep(w, IF left = {} THEN NoRun ELSE [NoRun EXCEPT !.pc = "working", !.batch = left])

\* succeed: by the id alone, whoever holds the lease; the breaker closes.
Succeed(w) ==
  /\ run[w].pc = "published"
  /\ job' = [job EXCEPT ![run[w].at].state = "succeeded", ![run[w].at].lease = "none"]
  /\ breaker' = [failures |-> 0, state |-> "closed"]
  /\ NextJob(w)
  /\ UNCHANGED <<published, tried, lapsed, forced>>

\* fail, first half: the row is read, without a lock, and judged.
FailReads(w) ==
  /\ run[w].pc = "failing"
  /\ TakeStep(w, [run[w] EXCEPT !.pc = "judged",
                              !.next = next_state(run[w].code, job[run[w].at].attempts)])
  /\ UNCHANGED <<job, breaker, published, tried, lapsed, forced>>

\* _trip_breaker: the time a breaker opened at is set once and kept.
Tripped ==
  LET failures == IF breaker.failures < BREAKER_THRESHOLD
                  THEN breaker.failures + 1 ELSE breaker.failures
  IN [failures |-> failures,
      state |-> IF failures = BREAKER_THRESHOLD /\ breaker.state = "closed"
                THEN "open" ELSE breaker.state]

\* fail, second half: the verdict is written by the id alone.
FailWrites(w) ==
  /\ run[w].pc = "judged"
  /\ job' = [job EXCEPT ![run[w].at].state = run[w].next, ![run[w].at].lease = "none",
                        ![run[w].at].due = (run[w].next # "queued")]
  /\ breaker' = IF run[w].code \in {"environment", "timeout", "crash"}
                THEN Tripped ELSE breaker
  /\ NextJob(w)
  /\ UNCHANGED <<published, tried, lapsed, forced>>

RunStep(w) ==
  LookAtBreaker(w) \/ Claim(w) \/ ConvertJob(w) \/ Publish(w) \/ Succeed(w) \/ FailReads(w)
    \/ FailWrites(w)

\* A run is killed, times out, or loses the database.
Dies(w) ==
  /\ run[w].pc # "idle"
  /\ TakeStep(w, NoRun)
  /\ UNCHANGED <<job, breaker, published, tried, lapsed, forced>>

(***************************************************************************)
(* Time.                                                                   *)
(***************************************************************************)
LeaseRunsOut(j) ==
  /\ job[j].state = "leased" /\ job[j].lease = "running"
  /\ job' = [job EXCEPT ![j].lease = "over"]
  /\ UNCHANGED <<breaker, run, published, tried, lapsed, forced>>

BecomesDue(j) ==
  /\ job[j].state = "queued" /\ ~job[j].due
  /\ job' = [job EXCEPT ![j].due = TRUE]
  /\ UNCHANGED <<breaker, run, published, tried, lapsed, forced>>

\* breaker_allows, once BREAKER_PROBE_SECONDS have passed.
ProbeBecomesDue ==
  /\ breaker.state = "open"
  /\ breaker' = [breaker EXCEPT !.state = "probing"]
  /\ UNCHANGED <<job, run, published, tried, lapsed, forced>>

QueueNext ==
  \/ \E j \in Jobs, force \in BOOLEAN : Enqueue(j, force)
  \/ \E w \in Runs : Reclaim(w) \/ RunStep(w) \/ Dies(w)
  \/ \E j \in Jobs : LeaseRunsOut(j) \/ BecomesDue(j)
  \/ ProbeBecomesDue

QueueSpec == QueueInit /\ [][QueueNext]_queueVars

\* The timer starts a run whenever none is under way, a run goes on, and time passes.
QueueFairness ==
  /\ \A w \in Runs : WF_queueVars(Reclaim(w)) /\ WF_queueVars(RunStep(w))
  /\ \A j \in Jobs : WF_queueVars(LeaseRunsOut(j))

FairQueueSpec == QueueSpec /\ QueueFairness

(***************************************************************************)
(* Properties.                                                             *)
(***************************************************************************)
Holds(w, j) == j \in run[w].batch

\* drain_conversion_queue.py: a job is closed as succeeded only after its document was
\* confirmed in the archive and indexed, whichever of several runs closed it.
SucceededIsPublished == \A j \in Jobs : job[j].state = "succeeded" => j \in published

\* claim: two runs work on the same job only after its lease ran out or somebody asked
\* for it while it was under way.
SharedOnlyAfterLapse ==
  \A j \in Jobs : (\E v, w \in Runs : v # w /\ Holds(v, j) /\ Holds(w, j)) => j \in lapsed

\* enqueue, "a success is not revived": nothing takes a success back, except a run that
\* was overtaken and still has its own verdict to write.
SuccessStaysUnlessOvertaken ==
  [][\A j \in Jobs : job[j].state = "succeeded" /\ (\A w \in Runs : ~Holds(w, j))
                       => job'[j].state = "succeeded"]_queueVars

\* next_state and enqueue together: a job that used up its attempts waits in the queue
\* only because a person asked for it or a run lost its lease.
CapIsKept ==
  \A j \in Jobs : job[j].state = "queued" /\ job[j].attempts = MAX_ATTEMPTS
                    => j \in forced \cup lapsed

\* claim: an open breaker costs the jobs it holds back no attempt.  The attempts counted
\* are the times the job was handed to a run.
AttemptsAreRuns == \A j \in Jobs : job[j].attempts = tried[j]

\* reclaim_expired: no job stays with a run that died.
LeaseEnds == \A j \in Jobs : []<>(job[j].state # "leased")

\* The module's docstring: a lease lets only one process at a time work on a file.
OneRunAtATime ==
  \A j \in Jobs, v, w \in Runs : Holds(v, j) /\ Holds(w, j) => v = w
=============================================================================
