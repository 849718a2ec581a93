------------------------ MODULE ConversionQueueProofs ------------------------
(***************************************************************************)
(* Theorems of ConversionQueue for any number of jobs and runs, any cap on *)
(* attempts, any threshold of the breaker and any size of a batch.         *)
(*                                                                         *)
(* The argument is about lapses.  As long as a job never lost its lease and*)
(* nobody asked for it while it was under way, a run that holds it is alone*)
(* with it and the row says so; hence what that run judged from the row is *)
(* still true of the row when it writes its verdict by the id alone.       *)
(***************************************************************************)
EXTENDS ConversionQueue, TLAPS

\* A run's batch and place belong to its step.
RunHolds ==
  \A w \in Runs :
    /\ run[w].pc \in {"idle", "reclaimed", "looked"} => run[w].batch = {}
    /\ run[w].pc \in {"converted", "published", "failing", "judged"}
         => run[w].at \in run[w].batch
    /\ run[w].pc = "published" => run[w].at \in published

AbsentIsFresh == \A j \in Jobs : job[j].state = "absent" => job[j].attempts = 0

\* Without a lapse the holder is alone, and the row is its lease.
HeldAlone ==
  \A w \in Runs, j \in Jobs \ lapsed :
    Holds(w, j) => job[j].state = "leased" /\ \A v \in Runs : Holds(v, j) => v = w

\* A verdict from a row that did not change since.
VerdictFits ==
  \A w \in Runs :
    run[w].pc = "judged" /\ run[w].next = "queued"
      => \/ run[w].at \in lapsed
         \/ job[run[w].at].attempts < MAX_ATTEMPTS

QueueInv ==
  /\ QueueTypeOK
  /\ RunHolds
  /\ AbsentIsFresh
  /\ SucceededIsPublished
  /\ HeldAlone
  /\ VerdictFits
  /\ CapIsKept
  /\ AttemptsAreRuns

(***************************************************************************)
(* Types.                                                                  *)
(***************************************************************************)
LEMMA AttemptsCount ==
  ASSUME NEW n \in Attempts
  PROVE  OneMore(n) \in Attempts /\ n \in Nat /\ n <= MAX_ATTEMPTS
  BY QueueAssumption DEF Attempts, OneMore

LEMMA RowsStayRows ==
  ASSUME NEW row \in JobRows
  PROVE  Leased(row) \in JobRows /\ HeldBack(row) \in JobRows
  BY AttemptsCount DEF Leased, HeldBack, JobRows, States

LEMMA ZeroAttempts == 0 \in Attempts /\ 0 # MAX_ATTEMPTS
  BY QueueAssumption DEF Attempts

LEMMA NoRunIsAStep == NoRun \in Steps
  BY DEF NoRun, Steps, Codes

\* Going on with the batch, whatever the run held.
LEMMA NextStep ==
  ASSUME NEW w \in Runs, run \in [Runs -> Steps], NextJob(w)
  PROVE  /\ run' \in [Runs -> Steps]
         /\ run'[w].batch \subseteq run[w].batch /\ run[w].at \notin run'[w].batch
         /\ run'[w].pc \in {"idle", "working"}
         /\ run'[w].pc = "idle" => run'[w].batch = {}
         /\ \A v \in Runs : v # w => run'[v] = run[v]
<1> DEFINE left == run[w].batch \ {run[w].at}
           step == IF left = {} THEN NoRun ELSE [NoRun EXCEPT !.pc = "working", !.batch = left]
<1>1. run' = [run EXCEPT ![w] = step]
  BY DEF NextJob, TakeStep
<1>2. left \subseteq Jobs /\ left \subseteq run[w].batch
  BY DEF Steps
<1>3. /\ step \in Steps
      /\ step.batch \subseteq run[w].batch /\ run[w].at \notin step.batch
      /\ step.pc \in {"idle", "working"}
      /\ step.pc = "idle" => step.batch = {}
  BY <1>2, NoRunIsAStep DEF NoRun, Steps
<1>4. QED
  BY <1>1, <1>3

LEMMA Verdicts ==
  ASSUME NEW code \in Codes, NEW n \in Attempts
  PROVE  /\ next_state(code, n) \in {"queued", "failed", "held"}
         /\ next_state(code, n) = "queued" => n < MAX_ATTEMPTS
  BY DEF next_state

LEMMA TrippedIsABreaker ==
  ASSUME breaker \in Breakers
  PROVE  Tripped \in Breakers
<1> DEFINE failures == IF breaker.failures < BREAKER_THRESHOLD
                       THEN breaker.failures + 1 ELSE breaker.failures
<1>1. failures \in 0 .. BREAKER_THRESHOLD
  BY QueueAssumption DEF Breakers
<1>2. QED
  BY <1>1 DEF Tripped, Breakers

LEMMA TypeHolds ==
  ASSUME QueueTypeOK, RunHolds, QueueNext
  PROVE  QueueTypeOK'
<1> USE DEF QueueTypeOK
<1>1. ASSUME NEW j \in Jobs, NEW force \in BOOLEAN, Enqueue(j, force)
      PROVE  QueueTypeOK'
  <2>1. [NoJobRow EXCEPT !.state = "queued", !.due = TRUE] \in JobRows
    BY ZeroAttempts DEF NoJobRow, JobRows, States
  <2>2. [job[j] EXCEPT !.state = "queued"] \in JobRows
    BY DEF JobRows, States
  <2>3. job' \in [Jobs -> JobRows]
    BY <1>1, <2>1, <2>2 DEF Enqueue
  <2>4. QED
    BY <1>1, <2>3 DEF Enqueue
<1>2. ASSUME NEW w \in Runs, Reclaim(w)
      PROVE  QueueTypeOK'
  <2>1. \A j \in Jobs : [job[j] EXCEPT !.state = "queued", !.lease = "none"] \in JobRows
    BY DEF JobRows, States
  <2>2. [NoRun EXCEPT !.pc = "reclaimed"] \in Steps
    BY DEF NoRun, Steps, Codes
  <2>3. job' \in [Jobs -> JobRows]
    BY <1>2, <2>1 DEF Reclaim
  <2>4. QED
    BY <1>2, <2>2, <2>3 DEF Reclaim, TakeStep
<1>3. ASSUME NEW w \in Runs, LookAtBreaker(w)
      PROVE  QueueTypeOK'
  <2>1. \A blocked \in BOOLEAN :
          [run[w] EXCEPT !.pc = "looked", !.blocked = blocked] \in Steps
    BY DEF Steps
  <2>2. PICK blocked \in {FALSE, breaker.state = "open"} :
          TakeStep(w, [run[w] EXCEPT !.pc = "looked", !.blocked = blocked])
    BY <1>3 DEF LookAtBreaker
  <2>3. blocked \in BOOLEAN
    BY <2>2
  <2>4. run' \in [Runs -> Steps]
    BY <2>1, <2>2, <2>3 DEF TakeStep
  <2>5. QED
    BY <1>3, <2>4 DEF LookAtBreaker
<1>4. ASSUME NEW w \in Runs, Claim(w)
      PROVE  QueueTypeOK'
  <2>1. PICK picked \in SUBSET {j \in Jobs : Claimable(job[j])} :
          LET given == IF run[w].blocked THEN {} ELSE picked
          IN /\ job' = [j \in Jobs |-> CASE j \in given           -> Leased(job[j])
                                        [] j \in picked \ given  -> HeldBack(job[j])
                                        [] j \notin picked       -> job[j]]
             /\ tried' = [j \in Jobs |-> IF j \in given THEN OneMore(tried[j]) ELSE tried[j]]
             /\ TakeStep(w, IF given = {} THEN NoRun
                          ELSE [NoRun EXCEPT !.pc = "working", !.batch = given])
    BY <1>4 DEF Claim
  <2>2. PICK given : given = IF run[w].blocked THEN {} ELSE picked
    OBVIOUS
  <2>3. given \subseteq picked /\ given \subseteq Jobs
    BY <2>2
  <2>4. job' \in [Jobs -> JobRows]
    BY <2>1, <2>2, <2>3, RowsStayRows
  <2>5. tried' \in [Jobs -> Attempts]
    BY <2>1, <2>2, AttemptsCount
  <2>6. (IF given = {} THEN NoRun ELSE [NoRun EXCEPT !.pc = "working", !.batch = given])
          \in Steps
    BY <2>3, NoRunIsAStep DEF NoRun, Steps
  <2>7. run' \in [Runs -> Steps]
    BY <2>1, <2>2, <2>6 DEF TakeStep
  <2>8. QED
    BY <1>4, <2>4, <2>5, <2>7 DEF Claim
<1>5. ASSUME NEW w \in Runs, ConvertJob(w)
      PROVE  QueueTypeOK'
  <2>1. PICK j \in run[w].batch :
          \/ TakeStep(w, [run[w] EXCEPT !.pc = "converted", !.at = j])
          \/ \E code \in Codes : TakeStep(w, Failing(w, j, code))
    BY <1>5 DEF ConvertJob
  <2>2. j \in Jobs
    BY DEF Steps
  <2>3. /\ [run[w] EXCEPT !.pc = "converted", !.at = j] \in Steps
        /\ \A code \in Codes : Failing(w, j, code) \in Steps
    BY <2>2 DEF Steps, Failing
  <2>4. run' \in [Runs -> Steps]
    BY <2>1, <2>3 DEF TakeStep
  <2>5. QED
    BY <1>5, <2>4 DEF ConvertJob
<1>6. ASSUME NEW w \in Runs, Publish(w)
      PROVE  QueueTypeOK'
  <2>1. run[w].at \in Jobs
    BY <1>6 DEF Publish, RunHolds, Steps
  <2>2. /\ [run[w] EXCEPT !.pc = "published"] \in Steps
        /\ \A code \in Codes : Failing(w, run[w].at, code) \in Steps
    BY DEF Steps, Failing
  <2>3. {"transient", "terminal"} \subseteq Codes
    BY DEF Codes
  <2>4. run' \in [Runs -> Steps] /\ published' \subseteq Jobs
    BY <1>6, <2>1, <2>2, <2>3 DEF Publish, PublishSucceeds, TakeStep
  <2>5. QED
    BY <1>6, <2>4 DEF Publish
<1>7. ASSUME NEW w \in Runs, Succeed(w)
      PROVE  QueueTypeOK'
  <2>1. \A j \in Jobs : [job[j] EXCEPT !.state = "succeeded", !.lease = "none"] \in JobRows
    BY DEF JobRows, States
  <2>2. job' \in [Jobs -> JobRows]
    BY <1>7, <2>1 DEF Succeed
  <2>3. [failures |-> 0, state |-> "closed"] \in Breakers
    BY QueueAssumption DEF Breakers
  <2>4. run' \in [Runs -> Steps]
    BY <1>7, NextStep DEF Succeed
  <2>5. QED
    BY <1>7, <2>2, <2>3, <2>4 DEF Succeed
<1>8. ASSUME NEW w \in Runs, FailReads(w)
      PROVE  QueueTypeOK'
  <2>1. run[w].at \in Jobs /\ run[w].code \in Codes
    BY <1>8 DEF FailReads, RunHolds, Steps
  <2>2. next_state(run[w].code, job[run[w].at].attempts) \in {"queued", "failed", "held"}
    BY <2>1, Verdicts DEF JobRows
  <2>3. [run[w] EXCEPT !.pc = "judged",
                       !.next = next_state(run[w].code, job[run[w].at].attempts)] \in Steps
    BY <2>2 DEF Steps
  <2>4. run' \in [Runs -> Steps]
    BY <1>8, <2>3 DEF FailReads, TakeStep
  <2>5. QED
    BY <1>8, <2>4 DEF FailReads
<1>9. ASSUME NEW w \in Runs, FailWrites(w)
      PROVE  QueueTypeOK'
  <2>1. run[w].next \in States
    BY DEF Steps, States
  <2>2. \A j \in Jobs : [job[j] EXCEPT !.state = run[w].next, !.lease = "none",
                                      !.due = (run[w].next # "queued")] \in JobRows
    BY <2>1 DEF JobRows
  <2>3. job' \in [Jobs -> JobRows]
    BY <1>9, <2>2 DEF FailWrites
  <2>4. breaker' \in Breakers
    BY <1>9, TrippedIsABreaker DEF FailWrites
  <2>5. run' \in [Runs -> Steps]
    BY <1>9, NextStep DEF FailWrites
  <2>6. QED
    BY <1>9, <2>3, <2>4, <2>5 DEF FailWrites
<1>10. ASSUME NEW w \in Runs, Dies(w)
       PROVE  QueueTypeOK'
  BY <1>10, NoRunIsAStep DEF Dies, TakeStep
<1>11. ASSUME NEW j \in Jobs, LeaseRunsOut(j) \/ BecomesDue(j)
       PROVE  QueueTypeOK'
  <2>1. /\ [job[j] EXCEPT !.lease = "over"] \in JobRows
        /\ [job[j] EXCEPT !.due = TRUE] \in JobRows
    BY DEF JobRows
  <2>2. QED
    BY <1>11, <2>1 DEF LeaseRunsOut, BecomesDue
<1>12. CASE ProbeBecomesDue
  BY <1>12 DEF ProbeBecomesDue, Breakers
<1>13. QED
  BY <1>1, <1>2, <1>3, <1>4, <1>5, <1>6, <1>7, <1>8, <1>9, <1>10, <1>11, <1>12
     DEF QueueNext, RunStep

(***************************************************************************)
(* What a step does to one row and to one run.                             *)
(***************************************************************************)
LEMMA Claims ==
  ASSUME QueueTypeOK, NEW w \in Runs, Claim(w), NEW j \in Jobs
  PROVE  /\ \/ job'[j] = job[j] /\ tried'[j] = tried[j] /\ j \notin run'[w].batch
            \/ /\ Claimable(job[j]) /\ job'[j] = HeldBack(job[j]) /\ tried'[j] = tried[j]
               /\ j \notin run'[w].batch
            \/ /\ Claimable(job[j]) /\ job'[j] = Leased(job[j])
               /\ tried'[j] = OneMore(tried[j])
         /\ run'[w].pc \in {"idle", "working"}
         /\ run'[w].pc = "idle" => run'[w].batch = {}
         /\ \A v \in Runs : v # w => run'[v] = run[v]
<1>1. PICK picked \in SUBSET {i \in Jobs : Claimable(job[i])} :
        LET given == IF run[w].blocked THEN {} ELSE picked
        IN /\ job' = [i \in Jobs |-> CASE i \in given           -> Leased(job[i])
                                      [] i \in picked \ given  -> HeldBack(job[i])
                                      [] i \notin picked       -> job[i]]
           /\ tried' = [i \in Jobs |-> IF i \in given THEN OneMore(tried[i]) ELSE tried[i]]
           /\ TakeStep(w, IF given = {} THEN NoRun
                        ELSE [NoRun EXCEPT !.pc = "working", !.batch = given])
  BY DEF Claim
<1>2. PICK given : given = IF run[w].blocked THEN {} ELSE picked
  OBVIOUS
<1>3. given \subseteq picked
  BY <1>2
<1>4. PICK step : step = IF given = {} THEN NoRun
                         ELSE [NoRun EXCEPT !.pc = "working", !.batch = given]
  OBVIOUS
<1>5. step.batch = given /\ step.pc = (IF given = {} THEN "idle" ELSE "working")
  BY <1>4 DEF NoRun
<1>6. run' = [run EXCEPT ![w] = step]
  BY <1>1, <1>2, <1>4 DEF TakeStep
<1>7. run'[w] = step /\ \A v \in Runs : v # w => run'[v] = run[v]
  BY <1>6 DEF QueueTypeOK
<1>8. /\ job'[j] = CASE j \in given           -> Leased(job[j])
                     [] j \in picked \ given  -> HeldBack(job[j])
                     [] j \notin picked       -> job[j]
      /\ tried'[j] = IF j \in given THEN OneMore(tried[j]) ELSE tried[j]
  BY <1>1, <1>2
<1>9. CASE j \in given
  BY <1>1, <1>3, <1>5, <1>7, <1>8, <1>9
<1>10. CASE j \in picked \ given
  BY <1>1, <1>5, <1>7, <1>8, <1>10
<1>11. CASE j \notin picked
  BY <1>3, <1>5, <1>7, <1>8, <1>11
<1>12. QED
  BY <1>9, <1>10, <1>11

\* The ways a job's row changes.
LEMMA RowChanges ==
  ASSUME QueueTypeOK, QueueNext, NEW j \in Jobs
  PROVE  \/ job'[j] = job[j]
         \/ \E force \in BOOLEAN : Enqueue(j, force)
         \/ /\ job[j].state = "leased" /\ j \in lapsed'
            /\ job'[j] = [job[j] EXCEPT !.state = "queued", !.lease = "none"]
         \/ Claimable(job[j]) /\ job'[j] \in {HeldBack(job[j]), Leased(job[j])}
         \/ \E w \in Runs : run[w].at = j /\ (Succeed(w) \/ FailWrites(w))
         \/ LeaseRunsOut(j) \/ BecomesDue(j)
<1>1. ASSUME NEW i \in Jobs, NEW force \in BOOLEAN, Enqueue(i, force), i # j
      PROVE  job'[j] = job[j]
  BY <1>1 DEF Enqueue, QueueTypeOK
<1>2. ASSUME NEW w \in Runs, Reclaim(w)
      PROVE  \/ job'[j] = job[j]
             \/ /\ job[j].state = "leased" /\ j \in lapsed'
                /\ job'[j] = [job[j] EXCEPT !.state = "queued", !.lease = "none"]
  BY <1>2 DEF Reclaim, Reclaimable
<1>3. ASSUME NEW w \in Runs, Claim(w)
      PROVE  \/ job'[j] = job[j]
             \/ Claimable(job[j]) /\ job'[j] \in {HeldBack(job[j]), Leased(job[j])}
  BY <1>3, Claims
<1>4. ASSUME NEW w \in Runs, Succeed(w) \/ FailWrites(w), run[w].at # j
      PROVE  job'[j] = job[j]
  BY <1>4 DEF Succeed, FailWrites, QueueTypeOK
<1>5. ASSUME NEW i \in Jobs, LeaseRunsOut(i) \/ BecomesDue(i), i # j
      PROVE  job'[j] = job[j]
  BY <1>5 DEF LeaseRunsOut, BecomesDue, QueueTypeOK
<1>6. ASSUME NEW w \in Runs,
             LookAtBreaker(w) \/ ConvertJob(w) \/ Publish(w) \/ FailReads(w) \/ Dies(w)
      PROVE  job'[j] = job[j]
  BY <1>6 DEF LookAtBreaker, ConvertJob, Publish, FailReads, Dies
<1>7. ASSUME ProbeBecomesDue
      PROVE  job'[j] = job[j]
  BY <1>7 DEF ProbeBecomesDue
<1>8. QED
  BY <1>1, <1>2, <1>3, <1>4, <1>5, <1>6, <1>7 DEF QueueNext, RunStep

\* Histories only grow; only a claim counts.
LEMMA Histories ==
  ASSUME QueueNext
  PROVE  /\ lapsed \subseteq lapsed' /\ forced \subseteq forced' /\ published \subseteq published'
         /\ (\E w \in Runs : Claim(w)) \/ tried' = tried
<1>1. ASSUME NEW j \in Jobs, NEW force \in BOOLEAN, Enqueue(j, force)
      PROVE  /\ lapsed \subseteq lapsed' /\ forced \subseteq forced'
             /\ published' = published /\ tried' = tried
  BY <1>1 DEF Enqueue
<1>2. ASSUME NEW w \in Runs, Reclaim(w)
      PROVE  /\ lapsed \subseteq lapsed' /\ forced' = forced
             /\ published' = published /\ tried' = tried
  BY <1>2 DEF Reclaim
<1>3. ASSUME NEW w \in Runs, RunStep(w) \/ Dies(w)
      PROVE  /\ lapsed' = lapsed /\ forced' = forced /\ published \subseteq published'
             /\ Claim(w) \/ tried' = tried
  BY <1>3 DEF RunStep, LookAtBreaker, Claim, ConvertJob, Publish, PublishSucceeds, Succeed,
              FailReads, FailWrites, Dies
<1>4. ASSUME NEW j \in Jobs, LeaseRunsOut(j) \/ BecomesDue(j) \/ ProbeBecomesDue
      PROVE  lapsed' = lapsed /\ forced' = forced /\ published' = published /\ tried' = tried
  BY <1>4 DEF LeaseRunsOut, BecomesDue, ProbeBecomesDue
<1>5. ASSUME ProbeBecomesDue
      PROVE  lapsed' = lapsed /\ forced' = forced /\ published' = published /\ tried' = tried
  BY <1>5 DEF ProbeBecomesDue
<1>6. QED
  BY <1>1, <1>2, <1>3, <1>4, <1>5 DEF QueueNext

\* The ways a run's batch and place change.
LEMMA RunChanges ==
  ASSUME QueueTypeOK, RunHolds, QueueNext, NEW v \in Runs
  PROVE  \/ run'[v] = run[v]
         \/ run'[v].pc \in {"idle", "reclaimed", "looked"} /\ run'[v].batch = {}
         \/ /\ run'[v].pc = "working"
            /\ Claim(v) \/ run'[v].batch \subseteq run[v].batch
         \/ /\ run'[v].pc \in {"converted", "failing"}
            /\ run'[v].batch = run[v].batch /\ run'[v].at \in run[v].batch
         \/ Publish(v) /\ run'[v].batch = run[v].batch /\ run'[v].at = run[v].at
         \/ FailReads(v) /\ run'[v].batch = run[v].batch /\ run'[v].at = run[v].at
<1>1. ASSUME NEW w \in Runs, NEW step, TakeStep(w, step), w # v
      PROVE  run'[v] = run[v]
  BY <1>1 DEF TakeStep, QueueTypeOK
<1>2. ASSUME NEW step, TakeStep(v, step)
      PROVE  run'[v] = step
  BY <1>2 DEF TakeStep, QueueTypeOK
<1>3. ASSUME NEW w \in Runs, RunStep(w) \/ Reclaim(w) \/ Dies(w), w # v
      PROVE  run'[v] = run[v]
  <2>1. ASSUME Reclaim(w) \/ LookAtBreaker(w) \/ ConvertJob(w) \/ FailReads(w) \/ Dies(w)
        PROVE  run'[v] = run[v]
    BY <1>1, <1>3, <2>1 DEF Reclaim, LookAtBreaker, ConvertJob, FailReads, Dies
  <2>2. ASSUME Publish(w)
        PROVE  run'[v] = run[v]
    BY <1>1, <1>3, <2>2 DEF Publish, PublishSucceeds
  <2>3. ASSUME Succeed(w) \/ FailWrites(w)
        PROVE  run'[v] = run[v]
    BY <1>3, <2>3, NextStep DEF Succeed, FailWrites, QueueTypeOK
  <2>4. ASSUME Claim(w)
        PROVE  run'[v] = run[v]
    <3>1. PICK step : TakeStep(w, step)
      BY <2>4 DEF Claim
    <3>2. QED
      BY <1>1, <1>3, <3>1
  <2>5. QED
    BY <1>3, <2>1, <2>2, <2>3, <2>4 DEF RunStep
<1>4. ASSUME Reclaim(v) \/ Dies(v)
      PROVE  run'[v].pc \in {"idle", "reclaimed"} /\ run'[v].batch = {}
  <2>1. \E step \in {NoRun, [NoRun EXCEPT !.pc = "reclaimed"]} : TakeStep(v, step)
    BY <1>4 DEF Reclaim, Dies
  <2>2. run'[v] \in {NoRun, [NoRun EXCEPT !.pc = "reclaimed"]}
    BY <1>2, <2>1
  <2>3. QED
    BY <2>2 DEF NoRun
<1>5. ASSUME LookAtBreaker(v)
      PROVE  run'[v].pc = "looked" /\ run'[v].batch = {}
  <2>1. PICK blocked : TakeStep(v, [run[v] EXCEPT !.pc = "looked", !.blocked = blocked])
    BY <1>5 DEF LookAtBreaker
  <2>2. run[v].batch = {}
    BY <1>5 DEF LookAtBreaker, RunHolds
  <2>3. run'[v] = [run[v] EXCEPT !.pc = "looked", !.blocked = blocked]
    BY <1>2, <2>1
  <2>4. QED
    BY <2>2, <2>3 DEF QueueTypeOK, Steps
<1>6. ASSUME Claim(v)
      PROVE  \/ run'[v].pc = "idle" /\ run'[v].batch = {}
             \/ run'[v].pc = "working"
  <2>1. PICK given :
          TakeStep(v, IF given = {} THEN NoRun
                    ELSE [NoRun EXCEPT !.pc = "working", !.batch = given])
    BY <1>6 DEF Claim
  <2>2. run'[v] = IF given = {} THEN NoRun
                  ELSE [NoRun EXCEPT !.pc = "working", !.batch = given]
    BY <1>2, <2>1
  <2>3. QED
    BY <2>2 DEF NoRun
<1>7. ASSUME ConvertJob(v)
      PROVE  /\ run'[v].pc \in {"converted", "failing"}
             /\ run'[v].batch = run[v].batch /\ run'[v].at \in run[v].batch
  <2>1. PICK j \in run[v].batch :
          \/ TakeStep(v, [run[v] EXCEPT !.pc = "converted", !.at = j])
          \/ \E code \in Codes : TakeStep(v, Failing(v, j, code))
    BY <1>7 DEF ConvertJob
  <2>2. \/ run'[v] = [run[v] EXCEPT !.pc = "converted", !.at = j]
        \/ \E code \in Codes : run'[v] = Failing(v, j, code)
    BY <1>2, <2>1
  <2>3. QED
    BY <2>2 DEF Failing, QueueTypeOK, Steps
<1>8. ASSUME Publish(v)
      PROVE  run'[v].batch = run[v].batch /\ run'[v].at = run[v].at
  <2>1. \/ TakeStep(v, [run[v] EXCEPT !.pc = "published"])
        \/ \E code \in Codes : TakeStep(v, Failing(v, run[v].at, code))
    BY <1>8 DEF Publish, PublishSucceeds, Codes
  <2>2. \/ run'[v] = [run[v] EXCEPT !.pc = "published"]
        \/ \E code \in Codes : run'[v] = Failing(v, run[v].at, code)
    BY <1>2, <2>1
  <2>3. QED
    BY <2>2 DEF Failing, QueueTypeOK, Steps
<1>9. ASSUME FailReads(v)
      PROVE  run'[v].batch = run[v].batch /\ run'[v].at = run[v].at
  BY <1>2, <1>9 DEF FailReads, QueueTypeOK, Steps
<1>10. ASSUME Succeed(v) \/ FailWrites(v)
       PROVE  \/ run'[v].pc = "idle" /\ run'[v].batch = {}
              \/ run'[v].pc = "working" /\ run'[v].batch \subseteq run[v].batch
  BY <1>10, NextStep DEF Succeed, FailWrites, QueueTypeOK
<1>11. ASSUME NEW j \in Jobs, NEW force \in BOOLEAN,
              Enqueue(j, force) \/ LeaseRunsOut(j) \/ BecomesDue(j)
       PROVE  run'[v] = run[v]
  BY <1>11 DEF Enqueue, LeaseRunsOut, BecomesDue
<1>12. ASSUME ProbeBecomesDue
       PROVE  run'[v] = run[v]
  BY <1>12 DEF ProbeBecomesDue
<1>13. CASE \E w \in Runs : Reclaim(w) \/ RunStep(w) \/ Dies(w)
  BY <1>3, <1>4, <1>5, <1>6, <1>7, <1>8, <1>9, <1>10, <1>13 DEF RunStep
<1>14. QED
  BY <1>11, <1>12, <1>13 DEF QueueNext

(***************************************************************************)
(* The parts of the invariant.                                             *)
(***************************************************************************)
LEMMA RunsHold ==
  ASSUME QueueTypeOK, RunHolds, QueueNext
  PROVE  RunHolds'
<1> SUFFICES ASSUME NEW v \in Runs
             PROVE  /\ run'[v].pc \in {"idle", "reclaimed", "looked"} => run'[v].batch = {}
                    /\ run'[v].pc \in {"converted", "published", "failing", "judged"}
                         => run'[v].at \in run'[v].batch
                    /\ run'[v].pc = "published" => run'[v].at \in published'
  BY DEF RunHolds
<1>1. published \subseteq published'
  BY Histories
<1>2. CASE run'[v] = run[v]
  BY <1>1, <1>2 DEF RunHolds
<1>3. CASE Publish(v) /\ run'[v].batch = run[v].batch /\ run'[v].at = run[v].at
  <2>1. \/ /\ TakeStep(v, [run[v] EXCEPT !.pc = "published"])
           /\ published' = published \cup {run[v].at}
        \/ \E code \in Codes : TakeStep(v, Failing(v, run[v].at, code))
    BY <1>3 DEF Publish, PublishSucceeds, Codes
  <2>2. \/ run'[v].pc = "published" /\ run[v].at \in published'
        \/ run'[v].pc = "failing"
    <3>1. ASSUME TakeStep(v, [run[v] EXCEPT !.pc = "published"])
          PROVE  run'[v].pc = "published"
      BY <3>1 DEF TakeStep, QueueTypeOK, Steps
    <3>2. ASSUME NEW code \in Codes, TakeStep(v, Failing(v, run[v].at, code))
          PROVE  run'[v].pc = "failing"
      BY <3>2 DEF TakeStep, Failing, QueueTypeOK, Steps
    <3>3. QED
      BY <2>1, <3>1, <3>2
  <2>3. run[v].at \in run[v].batch
    BY <1>3 DEF Publish, RunHolds
  <2>4. QED
    BY <1>3, <2>2, <2>3
<1>4. CASE FailReads(v) /\ run'[v].batch = run[v].batch /\ run'[v].at = run[v].at
  <2>1. run'[v].pc = "judged" /\ run[v].at \in run[v].batch
    BY <1>4 DEF FailReads, TakeStep, RunHolds, QueueTypeOK, Steps
  <2>2. QED
    BY <1>4, <2>1
<1>5. QED
  BY <1>2, <1>3, <1>4, RunChanges

LEMMA AbsentStaysFresh ==
  ASSUME QueueTypeOK, AbsentIsFresh, QueueNext
  PROVE  AbsentIsFresh'
<1> SUFFICES ASSUME NEW j \in Jobs, job'[j].state = "absent"
             PROVE  job'[j].attempts = 0
  BY DEF AbsentIsFresh
<1>1. \A force \in BOOLEAN : ~Enqueue(j, force)
  BY DEF Enqueue, NoJobRow, QueueTypeOK, JobRows
<1>2. /\ [job[j] EXCEPT !.state = "queued", !.lease = "none"].state = "queued"
      /\ Leased(job[j]).state = "leased" /\ HeldBack(job[j]).state = job[j].state
  BY DEF Leased, HeldBack, QueueTypeOK, JobRows
<1>3. ASSUME NEW w \in Runs, run[w].at = j
      PROVE  ~Succeed(w) /\ ~FailWrites(w)
  BY <1>3 DEF Succeed, FailWrites, QueueTypeOK, JobRows, Steps
<1>4. ~LeaseRunsOut(j) /\ ~BecomesDue(j)
  BY DEF LeaseRunsOut, BecomesDue, QueueTypeOK, JobRows
<1>5. job'[j] = job[j]
  BY <1>1, <1>2, <1>3, <1>4, RowChanges DEF Claimable
<1>6. QED
  BY <1>5 DEF AbsentIsFresh

\* drain_conversion_queue.py, step 5: the job is closed only after the index.
LEMMA SuccessStaysTrue ==
  ASSUME QueueTypeOK, RunHolds, SucceededIsPublished, QueueNext
  PROVE  SucceededIsPublished'
<1> SUFFICES ASSUME NEW j \in Jobs, job'[j].state = "succeeded"
             PROVE  j \in published'
  BY DEF SucceededIsPublished
<1>1. published \subseteq published'
  BY Histories
<1>2. \A force \in BOOLEAN : ~Enqueue(j, force)
  BY DEF Enqueue, NoJobRow, QueueTypeOK, JobRows
<1>3. /\ [job[j] EXCEPT !.state = "queued", !.lease = "none"].state = "queued"
      /\ Leased(job[j]).state = "leased" /\ HeldBack(job[j]).state = job[j].state
  BY DEF Leased, HeldBack, QueueTypeOK, JobRows
<1>4. ASSUME NEW w \in Runs, run[w].at = j, Succeed(w)
      PROVE  j \in published
  BY <1>4 DEF Succeed, RunHolds
<1>5. ASSUME NEW w \in Runs, run[w].at = j
      PROVE  ~FailWrites(w)
  BY <1>5 DEF FailWrites, QueueTypeOK, JobRows, Steps
<1>6. ~LeaseRunsOut(j) /\ ~BecomesDue(j)
  BY DEF LeaseRunsOut, BecomesDue, QueueTypeOK, JobRows
<1>7. CASE job'[j] = job[j]
  BY <1>1, <1>7 DEF SucceededIsPublished
<1>8. QED
  BY <1>1, <1>2, <1>3, <1>4, <1>5, <1>6, <1>7, RowChanges DEF Claimable

LEMMA AttemptsStayRuns ==
  ASSUME QueueTypeOK, AbsentIsFresh, AttemptsAreRuns, QueueNext
  PROVE  AttemptsAreRuns'
<1> SUFFICES ASSUME NEW j \in Jobs
             PROVE  job'[j].attempts = tried'[j]
  BY DEF AttemptsAreRuns
<1>1. job[j].attempts = tried[j] /\ job[j] \in JobRows
  BY DEF AttemptsAreRuns, QueueTypeOK
<1>2. HeldBack(job[j]).attempts = job[j].attempts
      /\ Leased(job[j]).attempts = OneMore(job[j].attempts)
  BY <1>1 DEF HeldBack, Leased, JobRows
<1>3. ASSUME NEW w \in Runs, Claim(w)
      PROVE  job'[j].attempts = tried'[j]
  BY <1>1, <1>2, <1>3, Claims
<1>4. ASSUME \A w \in Runs : ~Claim(w)
      PROVE  job'[j].attempts = tried'[j]
  <2>1. tried' = tried
    BY <1>4, Histories
  <2>2. ASSUME NEW i \in Jobs, NEW force \in BOOLEAN, Enqueue(i, force)
        PROVE  job'[j].attempts = job[j].attempts
    <3>1. \/ job' = [job EXCEPT ![i] = [NoJobRow EXCEPT !.state = "queued", !.due = TRUE]]
             /\ job[i].state = "absent"
          \/ job' = [job EXCEPT ![i].state = "queued"]
      BY <2>2 DEF Enqueue
    <3>2. job[i].state = "absent" => job[i].attempts = 0
      BY DEF AbsentIsFresh
    <3>3. PICK fresh : fresh = [NoJobRow EXCEPT !.state = "queued", !.due = TRUE]
      OBVIOUS
    <3>4. fresh.attempts = 0
      BY <3>3 DEF NoJobRow
    <3>5. CASE job' = [job EXCEPT ![i] = fresh] /\ job[i].state = "absent"
      BY <3>2, <3>4, <3>5 DEF QueueTypeOK
    <3>6. CASE job' = [job EXCEPT ![i].state = "queued"]
      BY <1>1, <3>6 DEF QueueTypeOK, JobRows
    <3>7. QED
      BY <3>1, <3>3, <3>5, <3>6
  <2>3. ASSUME NEW w \in Runs, Reclaim(w)
        PROVE  job'[j].attempts = job[j].attempts
    BY <1>1, <2>3 DEF Reclaim, JobRows
  <2>4. ASSUME NEW w \in Runs, RunStep(w) \/ Dies(w)
        PROVE  job'[j].attempts = job[j].attempts
    <3>1. ASSUME Succeed(w) \/ FailWrites(w)
          PROVE  job'[j].attempts = job[j].attempts
      BY <1>1, <3>1 DEF Succeed, FailWrites, QueueTypeOK, JobRows
    <3>2. QED
      BY <1>4, <2>4, <3>1
         DEF RunStep, LookAtBreaker, ConvertJob, Publish, FailReads, Dies
  <2>5. ASSUME NEW i \in Jobs, LeaseRunsOut(i) \/ BecomesDue(i)
        PROVE  job'[j].attempts = job[j].attempts
    BY <1>1, <2>5 DEF LeaseRunsOut, BecomesDue, QueueTypeOK, JobRows
  <2>6. ASSUME ProbeBecomesDue
        PROVE  job'[j].attempts = job[j].attempts
    BY <2>6 DEF ProbeBecomesDue
  <2>7. job'[j].attempts = job[j].attempts
    BY <2>2, <2>3, <2>4, <2>5, <2>6 DEF QueueNext
  <2>8. QED
    BY <1>1, <2>1, <2>7
<1>5. QED
  BY <1>3, <1>4

LEMMA StaysAlone ==
  ASSUME QueueTypeOK, RunHolds, HeldAlone, QueueNext
  PROVE  HeldAlone'
<1> SUFFICES ASSUME NEW w \in Runs, NEW j \in Jobs, j \notin lapsed', j \in run'[w].batch
             PROVE  /\ job'[j].state = "leased"
                    /\ \A v \in Runs : j \in run'[v].batch => v = w
  BY DEF HeldAlone, Holds
<1>1. j \notin lapsed
  BY Histories
<1>2. ASSUME NEW v \in Runs, j \in run'[v].batch, ~Claim(v)
      PROVE  j \in run[v].batch
  BY <1>2, RunChanges
<1>3. ASSUME NEW v \in Runs, j \in run[v].batch
      PROVE  job[j].state = "leased" /\ \A u \in Runs : j \in run[u].batch => u = v
  BY <1>1, <1>3 DEF HeldAlone, Holds
<1>4. ASSUME NEW c \in Runs, Claim(c)
      PROVE  /\ job'[j].state = "leased"
             /\ \A v \in Runs : j \in run'[v].batch => v = w
  <2>1. \A v \in Runs : v # c => run'[v] = run[v]
    BY <1>4, Claims
  <2>2. CASE j \in run'[c].batch
    <3>1. Claimable(job[j]) /\ job'[j] = Leased(job[j])
      BY <1>4, <2>2, Claims
    <3>2. \A v \in Runs : j \notin run[v].batch
      BY <1>3, <3>1 DEF Claimable
    <3>3. job'[j].state = "leased"
      BY <3>1 DEF Leased, QueueTypeOK, JobRows
    <3>4. QED
      BY <2>1, <3>2, <3>3
  <2>3. CASE j \notin run'[c].batch
    <3>1. \A v \in Runs : j \in run'[v].batch => j \in run[v].batch
      BY <2>1, <2>3
    <3>2. job[j].state = "leased" /\ \A v \in Runs : j \in run[v].batch => v = w
      BY <1>3, <3>1
    <3>3. ~Claimable(job[j])
      BY <3>2 DEF Claimable
    <3>4. job'[j] = job[j]
      BY <1>4, <3>3, Claims
    <3>5. QED
      BY <3>1, <3>2, <3>4
  <2>4. QED
    BY <2>2, <2>3
<1>5. ASSUME \A c \in Runs : ~Claim(c)
      PROVE  /\ job'[j].state = "leased"
             /\ \A v \in Runs : j \in run'[v].batch => v = w
  <2>1. /\ job[j].state = "leased"
        /\ \A v \in Runs : j \in run[v].batch => v = w
    BY <1>2, <1>3, <1>5
  <2>2. \A force \in BOOLEAN : ~Enqueue(j, force)
    BY <2>1 DEF Enqueue
  <2>3. ~Claimable(job[j])
    BY <2>1 DEF Claimable
  <2>4. ASSUME NEW v \in Runs, run[v].at = j
        PROVE  ~Succeed(v) /\ ~FailWrites(v)
    <3>1. SUFFICES ASSUME Succeed(v) \/ FailWrites(v)
                   PROVE  FALSE
      OBVIOUS
    <3>2. j \in run[v].batch /\ NextJob(v)
      BY <2>4, <3>1 DEF Succeed, FailWrites, RunHolds
    <3>3. v = w /\ j \notin run'[v].batch
      BY <2>1, <2>4, <3>2, NextStep DEF QueueTypeOK
    <3>4. QED
      BY <3>3
  <2>5. CASE LeaseRunsOut(j) \/ BecomesDue(j)
    BY <1>2, <1>5, <2>1, <2>5 DEF LeaseRunsOut, BecomesDue, QueueTypeOK, JobRows
  <2>6. CASE job'[j] = job[j]
    BY <1>2, <1>5, <2>1, <2>6
  <2>7. QED
    BY <2>2, <2>3, <2>4, <2>5, <2>6, RowChanges
<1>6. QED
  BY <1>4, <1>5

\* Attempts of a job that is held and did not lapse do not change.
LEMMA VerdictsFit ==
  ASSUME QueueTypeOK, RunHolds, HeldAlone, AbsentIsFresh, VerdictFits, QueueNext
  PROVE  VerdictFits'
<1> SUFFICES ASSUME NEW w \in Runs, run'[w].pc = "judged", run'[w].next = "queued",
                    run'[w].at \notin lapsed'
             PROVE  job'[run'[w].at].attempts < MAX_ATTEMPTS
  BY DEF VerdictFits
<1>1. lapsed \subseteq lapsed'
  BY Histories
<1>2. CASE FailReads(w) /\ run'[w].at = run[w].at
  <2>1. run[w].at \in Jobs
    BY <1>2 DEF FailReads, RunHolds, QueueTypeOK, Steps
  <2>2. job[run[w].at].attempts \in Attempts /\ run[w].code \in Codes
    BY <2>1 DEF QueueTypeOK, JobRows, Steps
  <2>3. next_state(run[w].code, job[run[w].at].attempts) = "queued"
    BY <1>2 DEF FailReads, TakeStep, QueueTypeOK, Steps
  <2>4. job[run[w].at].attempts < MAX_ATTEMPTS
    BY <2>2, <2>3, Verdicts
  <2>5. QED
    BY <1>2, <2>4 DEF FailReads
<1>3. CASE run'[w] = run[w]
  <2>1. PICK j : j = run[w].at
    OBVIOUS
  <2>2. j \in Jobs /\ j \in run[w].batch /\ j \notin lapsed
    BY <1>1, <1>3, <2>1 DEF RunHolds, QueueTypeOK, Steps
  <2>3. job[j].state = "leased" /\ job[j].attempts < MAX_ATTEMPTS /\ job[j] \in JobRows
    BY <1>3, <2>1, <2>2 DEF HeldAlone, Holds, VerdictFits, QueueTypeOK
  <2>4. ASSUME NEW force \in BOOLEAN, Enqueue(j, force)
        PROVE  job'[j].attempts = job[j].attempts
    BY <2>2, <2>3, <2>4 DEF Enqueue, QueueTypeOK, JobRows
  <2>5. [job[j] EXCEPT !.state = "queued", !.lease = "none"].attempts = job[j].attempts
    BY <2>3 DEF JobRows
  <2>6. ASSUME NEW v \in Runs, run[v].at = j, Succeed(v) \/ FailWrites(v)
        PROVE  job'[j].attempts = job[j].attempts
    BY <2>2, <2>3, <2>6 DEF Succeed, FailWrites, QueueTypeOK, JobRows
  <2>7. ASSUME LeaseRunsOut(j) \/ BecomesDue(j)
        PROVE  job'[j].attempts = job[j].attempts
    BY <2>2, <2>3, <2>7 DEF LeaseRunsOut, BecomesDue, QueueTypeOK, JobRows
  <2>8. job'[j].attempts = job[j].attempts
    BY <2>2, <2>3, <2>4, <2>5, <2>6, <2>7, RowChanges DEF Claimable
  <2>9. QED
    BY <1>3, <2>1, <2>3, <2>8
<1>4. ASSUME Publish(w)
      PROVE  run'[w].pc # "judged"
  <2>1. \/ TakeStep(w, [run[w] EXCEPT !.pc = "published"])
        \/ \E code \in Codes : TakeStep(w, Failing(w, run[w].at, code))
    BY <1>4 DEF Publish, PublishSucceeds, Codes
  <2>2. ASSUME TakeStep(w, [run[w] EXCEPT !.pc = "published"])
        PROVE  run'[w].pc = "published"
    BY <2>2 DEF TakeStep, QueueTypeOK, Steps
  <2>3. ASSUME NEW code \in Codes, TakeStep(w, Failing(w, run[w].at, code))
        PROVE  run'[w].pc = "failing"
    BY <2>3 DEF TakeStep, Failing, QueueTypeOK, Steps
  <2>4. QED
    BY <2>1, <2>2, <2>3
<1>5. QED
  BY <1>2, <1>3, <1>4, RunChanges

\* next_state and enqueue together keep the cap.
LEMMA CapStaysKept ==
  ASSUME QueueTypeOK, RunHolds, VerdictFits, CapIsKept, QueueNext
  PROVE  CapIsKept'
<1> SUFFICES ASSUME NEW j \in Jobs, job'[j].state = "queued",
                    job'[j].attempts = MAX_ATTEMPTS
             PROVE  j \in forced' \cup lapsed'
  BY DEF CapIsKept
<1>1. lapsed \subseteq lapsed' /\ forced \subseteq forced' /\ job[j] \in JobRows
  BY Histories DEF QueueTypeOK
<1>2. ASSUME NEW force \in BOOLEAN, Enqueue(j, force)
      PROVE  j \in forced'
  <2>1. PICK fresh : fresh = [NoJobRow EXCEPT !.state = "queued", !.due = TRUE]
    OBVIOUS
  <2>2. fresh.attempts # MAX_ATTEMPTS
    BY <2>1, ZeroAttempts DEF NoJobRow
  <2>3. job' # [job EXCEPT ![j] = fresh]
    BY <2>2 DEF QueueTypeOK
  <2>4. job' = [job EXCEPT ![j].state = "queued"] /\ Requeues(job[j], force)
    BY <1>2, <2>1, <2>3 DEF Enqueue
  <2>5. job[j].attempts = MAX_ATTEMPTS
    BY <1>1, <2>4 DEF QueueTypeOK, JobRows
  <2>6. force
    BY <2>4, <2>5, AttemptsCount, QueueAssumption DEF Requeues
  <2>7. QED
    BY <1>2, <2>6 DEF Enqueue
<1>3. /\ HeldBack(job[j]).attempts = job[j].attempts
      /\ Leased(job[j]).state = "leased"
  BY <1>1 DEF HeldBack, Leased, JobRows
<1>4. ASSUME NEW w \in Runs, run[w].at = j, Succeed(w)
      PROVE  FALSE
  BY <1>4 DEF Succeed, QueueTypeOK, JobRows
<1>5. ASSUME NEW w \in Runs, run[w].at = j, FailWrites(w)
      PROVE  j \in lapsed
  <2>1. run[w].pc = "judged" /\ run[w].next = "queued"
    BY <1>1, <1>5 DEF FailWrites, QueueTypeOK, JobRows
  <2>2. job[j].attempts = MAX_ATTEMPTS
    BY <1>1, <1>5 DEF FailWrites, QueueTypeOK, JobRows
  <2>3. ~(job[j].attempts < MAX_ATTEMPTS)
    BY <2>2, QueueAssumption
  <2>4. QED
    BY <1>5, <2>1, <2>3 DEF VerdictFits
<1>6. ASSUME job'[j] = job[j] \/ (Claimable(job[j]) /\ job'[j] = HeldBack(job[j]))
      PROVE  j \in forced \cup lapsed
  BY <1>3, <1>6 DEF CapIsKept, Claimable
<1>7. ASSUME LeaseRunsOut(j) \/ BecomesDue(j)
      PROVE  j \in forced \cup lapsed
  BY <1>1, <1>7 DEF LeaseRunsOut, BecomesDue, CapIsKept, QueueTypeOK, JobRows
<1>8. QED
  BY <1>1, <1>2, <1>3, <1>4, <1>5, <1>6, <1>7, RowChanges

(***************************************************************************)
(* The invariant and what follows from it.                                 *)
(***************************************************************************)
LEMMA InitHolds == QueueInit => QueueInv
<1> SUFFICES ASSUME QueueInit
             PROVE  QueueInv
  OBVIOUS
<1>1. QueueTypeOK
  BY ZeroAttempts, NoRunIsAStep, QueueAssumption
     DEF QueueInit, QueueTypeOK, NoJobRow, JobRows, States, Breakers
<1>2. RunHolds /\ HeldAlone /\ VerdictFits
  BY DEF QueueInit, RunHolds, HeldAlone, VerdictFits, Holds, NoRun
<1>3. AbsentIsFresh /\ SucceededIsPublished /\ CapIsKept /\ AttemptsAreRuns
  BY DEF QueueInit, AbsentIsFresh, SucceededIsPublished, CapIsKept, AttemptsAreRuns, NoJobRow
<1>4. QED
  BY <1>1, <1>2, <1>3 DEF QueueInv

LEMMA NextHolds == QueueInv /\ [QueueNext]_queueVars => QueueInv'
<1> SUFFICES ASSUME QueueInv, [QueueNext]_queueVars
             PROVE  QueueInv'
  OBVIOUS
<1>1. CASE QueueNext
  <2>1. QueueTypeOK' /\ RunHolds' /\ AbsentIsFresh'
    BY <1>1, TypeHolds, RunsHold, AbsentStaysFresh DEF QueueInv
  <2>2. SucceededIsPublished' /\ AttemptsAreRuns'
    BY <1>1, SuccessStaysTrue, AttemptsStayRuns DEF QueueInv
  <2>3. HeldAlone' /\ VerdictFits' /\ CapIsKept'
    BY <1>1, StaysAlone, VerdictsFit, CapStaysKept DEF QueueInv
  <2>4. QED
    BY <2>1, <2>2, <2>3 DEF QueueInv
<1>2. CASE UNCHANGED queueVars
  BY <1>2 DEF queueVars, QueueInv, QueueTypeOK, RunHolds, AbsentIsFresh, SucceededIsPublished,
             HeldAlone,
              Holds, VerdictFits, CapIsKept, AttemptsAreRuns
<1>3. QED
  BY <1>1, <1>2

LEMMA QueueInvariant == QueueSpec => []QueueInv
  BY InitHolds, NextHolds, PTL DEF QueueSpec

\* The row of every job, the breaker, and every run keep their types, for any number of
\* jobs and runs.
THEOREM QueueTypes == QueueSpec => []QueueTypeOK
<1>1. QueueInv => QueueTypeOK
  BY DEF QueueInv
<1>2. QED
  BY <1>1, QueueInvariant, PTL

\* drain_conversion_queue.py, main: a job closed as succeeded has its document in the
\* archive and the index, whichever run closed it and whatever became of its lease.
THEOREM SuccessIsPublished == QueueSpec => []SucceededIsPublished
<1>1. QueueInv => SucceededIsPublished
  BY DEF QueueInv
<1>2. QED
  BY <1>1, QueueInvariant, PTL

\* claim and reclaim_expired: of any number of runs two share a job only after its lease
\* ran out or it was asked for while under way.
THEOREM SharedAfterLapse == QueueSpec => []SharedOnlyAfterLapse
<1>1. QueueInv => SharedOnlyAfterLapse
  BY DEF QueueInv, HeldAlone, SharedOnlyAfterLapse
<1>2. QED
  BY <1>1, QueueInvariant, PTL

\* claim: the attempts of a job are the times it was handed to a run, open breakers or not.
THEOREM AttemptsCountRuns == QueueSpec => []AttemptsAreRuns
<1>1. QueueInv => AttemptsAreRuns
  BY DEF QueueInv
<1>2. QED
  BY <1>1, QueueInvariant, PTL

\* next_state and enqueue: a used-up job is queued again only by a person or a lapse.
THEOREM CapKept == QueueSpec => []CapIsKept
<1>1. QueueInv => CapIsKept
  BY DEF QueueInv
<1>2. QED
  BY <1>1, QueueInvariant, PTL

\* enqueue, succeed, fail: a success that no run holds any more is final.
THEOREM SuccessIsFinal == QueueSpec => SuccessStaysUnlessOvertaken
<1> DEFINE Stays == \A j \in Jobs :
             job[j].state = "succeeded" /\ (\A w \in Runs : ~Holds(w, j))
               => job'[j].state = "succeeded"
<1>1. QueueInv /\ [QueueNext]_queueVars => [Stays]_queueVars
  <2>1. SUFFICES ASSUME QueueInv, QueueNext, NEW j \in Jobs, job[j].state = "succeeded",
                        \A w \in Runs : ~Holds(w, j)
                 PROVE  job'[j].state = "succeeded"
    OBVIOUS
  <2>2. \A force \in BOOLEAN : ~Enqueue(j, force)
    BY <2>1 DEF Enqueue, Requeues
  <2>3. ASSUME NEW w \in Runs, run[w].at = j
        PROVE  ~Succeed(w) /\ ~FailWrites(w)
    BY <2>1, <2>3 DEF Succeed, FailWrites, QueueInv, RunHolds, Holds
  <2>4. ~Claimable(job[j]) /\ ~LeaseRunsOut(j) /\ ~BecomesDue(j)
    BY <2>1 DEF Claimable, LeaseRunsOut, BecomesDue
  <2>5. job'[j] = job[j]
    BY <2>1, <2>2, <2>3, <2>4, RowChanges DEF QueueInv
  <2>6. QED
    BY <2>1, <2>5
<1>2. QED
  BY <1>1, QueueInvariant, PTL DEF QueueSpec, SuccessStaysUnlessOvertaken
=============================================================================
