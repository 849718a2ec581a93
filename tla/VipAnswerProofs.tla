--------------------------- MODULE VipAnswerProofs ---------------------------
(***************************************************************************)
(* What VipAnswer promises, for every number of people, questions, rooms,  *)
(* listener threads and disturbances.  At the end, the bots beside the     *)
(* other services.                                                         *)
(***************************************************************************)
EXTENDS MCServices, BackfillProofs, ImageDescriptionProofs, ScheduleDmProofs,
        ConversionQueueProofs, TLAPS

Claiming == {"claimed", "allowed", "generated", "delivering", "denying", "told"}
Has(t) == thread[t].pc \in Claiming

\* A thread past its claim works on a claimed question.
WorkIsClaimed ==
  \A t \in Threads : /\ thread[t].pc # "free" => thread[t].question \in Questions
                     /\ Has(t) => thread[t].question \in claimed

\* A claim is one thread's.
ClaimsAreOwn ==
  \A t \in Threads, u \in Threads :
    t # u /\ Has(t) /\ Has(u) => thread[t].question # thread[u].question

\* Nothing was sent for a question nobody claimed, nor by a thread that has yet to send it.
NothingSentBefore ==
  /\ \A q \in Questions : q \notin claimed => answers[q] = 0 /\ denials[q] = 0 /\ notices[q] = 0
  /\ \A t \in Threads :
       Has(t) => /\ notices[thread[t].question] = 0
                 /\ IF thread[t].pc = "told" THEN answers[thread[t].question] = 1
                    ELSE answers[thread[t].question] = 0 /\ denials[thread[t].question] = 0

\* Until it looks again a thread counts as overtaken exactly when its scope is not in force.
ScopeIsWatched ==
  \A t \in Threads :
    thread[t].pc \in Undecided =>
      (t \in overtaken <=>
         thread[t].scope # [grant |-> grant[Asker[thread[t].question]], sources |-> sources])

VipInv ==
  /\ VipTypeOK
  /\ WorkIsClaimed
  /\ ClaimsAreOwn
  /\ NothingSentBefore
  /\ OneReply
  /\ NoticeTellsTruth
  /\ ScopeIsWatched
  /\ RevokedIsNotDelivered

(***************************************************************************)
(* What a step may do to the threads.                                      *)
(***************************************************************************)
\* Only this thread moves; it starts to hold a question by claiming it.
ThreadMoved(t) ==
  /\ thread'[t] \in ThreadSteps
  /\ \A u \in Threads : u # t => thread'[u] = thread[u]
  /\ thread'[t].pc # "free" => thread'[t].question \in Questions
  /\ claimed' = claimed \/ claimed' = claimed \cup {thread[t].question}
  /\ claimed' # claimed => thread[t].pc = "taken"
  /\ Has(t)' => /\ thread'[t].question = thread[t].question
                /\ thread'[t].question \in claimed'
                /\ Has(t) \/ thread[t].question \notin claimed

Quiet(t) ==
  /\ UNCHANGED <<answers, denials, notices>>
  /\ Has(t)' => thread'[t].pc # "told"
  /\ Has(t)' /\ Has(t) => thread[t].pc # "told"
Answered(t) ==
  /\ thread[t].pc = "delivering" /\ answers' = [answers EXCEPT ![thread[t].question] = @ + 1]
  /\ Has(t)' => thread'[t].pc = "told"
  /\ UNCHANGED <<denials, notices>>
Refused(t) ==
  /\ thread[t].pc = "denying" /\ denials' = [denials EXCEPT ![thread[t].question] = @ + 1]
  /\ ~Has(t)'
  /\ UNCHANGED <<answers, notices>>
Announced(t) ==
  /\ thread[t].pc = "told" /\ notices' = [notices EXCEPT ![thread[t].question] = @ + 1]
  /\ ~Has(t)'
  /\ UNCHANGED <<answers, denials>>
Sends(t) == Quiet(t) \/ Answered(t) \/ Refused(t) \/ Announced(t)

LEMMA FreeTyped ==
  /\ Free \in ThreadSteps /\ Free.pc = "free"
  /\ \A q \in Questions : LET s == [Free EXCEPT !.pc = "taken", !.question = q]
                          IN s \in ThreadSteps /\ s.pc = "taken" /\ s.question = q
  BY DEF Free, Nobody, ThreadSteps, VipScopes

LEMMA ScopeTyped ==
  ASSUME VipTypeOK, NEW u \in Askers
  PROVE  ScopeNow(u) \in VipScopes
  BY DEF VipTypeOK, ScopeNow, VipScopes, Nobody

LEMMA EventSteps ==
  ASSUME VipTypeOK, WorkIsClaimed, NEW t \in Threads, HandleEvent(t)
  PROVE  ThreadMoved(t) /\ Sends(t)
<1>0. thread[t] \in ThreadSteps /\ thread \in [Threads -> ThreadSteps]
  BY DEF VipTypeOK
<1>w. /\ thread[t].pc # "free" => thread[t].question \in Questions
      /\ Has(t) => thread[t].question \in claimed
  BY DEF WorkIsClaimed
<1>t. ASSUME NEW s \in ThreadSteps, thread' = [thread EXCEPT ![t] = s]
      PROVE  thread'[t] = s /\ \A u \in Threads : u # t => thread'[u] = thread[u]
  BY <1>0, <1>t
<1>f. ASSUME thread' = [thread EXCEPT ![t] = Free]
      PROVE  /\ thread'[t] = Free /\ thread'[t].pc = "free" /\ ~Has(t)'
             /\ claimed' = claimed => ThreadMoved(t)
  <2>1. thread'[t] = Free /\ \A u \in Threads : u # t => thread'[u] = thread[u]
    BY <1>t, <1>f, FreeTyped
  <2>2. thread'[t].pc = "free"
    BY <2>1, FreeTyped
  <2>3. ~Has(t)'
    BY <2>2 DEF Has, Claiming
  <2> QED
    BY <2>1, <2>2, <2>3, FreeTyped DEF ThreadMoved
<1>n. ASSUME NEW pc \in {"generated", "delivering", "told"},
             thread' = [thread EXCEPT ![t] = [thread[t] EXCEPT !.pc = pc]],
             claimed' = claimed, Has(t)
      PROVE  ThreadMoved(t) /\ thread'[t].pc = pc
  <2>1. [thread[t] EXCEPT !.pc = pc] \in ThreadSteps
    BY <1>0 DEF ThreadSteps
  <2>2. /\ thread'[t] = [thread[t] EXCEPT !.pc = pc]
        /\ \A u \in Threads : u # t => thread'[u] = thread[u]
    BY <1>t, <1>n, <2>1
  <2>3. thread'[t].pc = pc /\ thread'[t].question = thread[t].question
    BY <1>0, <2>2 DEF ThreadSteps
  <2>4. thread[t].pc # "free"
    BY <1>n DEF Has, Claiming
  <2> QED
    BY <1>n, <1>w, <2>1, <2>2, <2>3, <2>4 DEF ThreadMoved
<1>1. ASSUME NEW q \in Questions, take(t, q)
      PROVE  ThreadMoved(t) /\ Sends(t)
  <2> DEFINE s == [Free EXCEPT !.pc = "taken", !.question = q]
  <2>1. s \in ThreadSteps /\ s.pc = "taken" /\ s.question = q
    BY FreeTyped
  <2>2. thread' = [thread EXCEPT ![t] = s] /\ UNCHANGED <<claimed, answers, denials, notices>>
    BY <1>1 DEF take, ThreadTurns
  <2>3. thread'[t] = s /\ \A u \in Threads : u # t => thread'[u] = thread[u]
    BY <1>t, <2>1, <2>2
  <2>4. thread'[t].pc = "taken" /\ thread'[t].question = q
    BY <2>1, <2>3
  <2>5. ~Has(t)'
    BY <2>4 DEF Has, Claiming
  <2> QED
    BY <2>1, <2>2, <2>3, <2>4, <2>5 DEF ThreadMoved, Sends, Quiet
<1>2. CASE claim(t)
  <2>1. thread[t].pc = "taken" /\ ~Has(t)
    BY <1>2 DEF claim, Stands, Has, Claiming
  <2>2. CASE thread[t].question \in claimed
    <3>1. thread' = [thread EXCEPT ![t] = Free] /\ claimed' = claimed
      BY <1>2, <2>2 DEF claim, ThreadTurns, Asked, IsKnown
    <3> QED
      BY <1>2, <1>f, <3>1 DEF claim, Sends, Quiet
  <2>3. CASE thread[t].question \notin claimed
    <3> DEFINE s == [thread[t] EXCEPT !.pc = "claimed"]
    <3>1. s \in ThreadSteps /\ s.pc = "claimed" /\ s.question = thread[t].question
      BY <1>0 DEF ThreadSteps
    <3>2. thread' = [thread EXCEPT ![t] = s] /\ claimed' = claimed \cup {thread[t].question}
      BY <1>2, <2>3 DEF claim, ThreadTurns, Asked, IsKnown
    <3>3. thread'[t] = s /\ \A u \in Threads : u # t => thread'[u] = thread[u]
      BY <1>t, <3>1, <3>2
    <3>4. thread'[t].pc = "claimed" /\ thread'[t].question = thread[t].question
      BY <3>1, <3>3
    <3>5. ThreadMoved(t)
      BY <1>w, <2>1, <2>3, <3>1, <3>2, <3>3, <3>4 DEF ThreadMoved
    <3> QED
      BY <1>2, <2>1, <3>4, <3>5 DEF claim, Sends, Quiet
  <2> QED
    BY <2>2, <2>3
<1>3. CASE authorize(t)
  <2> DEFINE scope == ScopeNow(AskerAt(t))
             pc == IF scope = Nobody THEN "denying" ELSE "allowed"
             s == [thread[t] EXCEPT !.pc = pc, !.scope = scope]
  <2>1. thread[t].pc = "claimed" /\ Has(t)
    BY <1>3 DEF authorize, Stands, Has, Claiming
  <2>2. scope \in VipScopes
    BY <1>w, <2>1, ScopeTyped DEF AskerAt, Askers
  <2>3. pc \in {"denying", "allowed"}
    OBVIOUS
  <2>4. thread' = [thread EXCEPT ![t] = s] /\ UNCHANGED <<claimed, answers, denials, notices>>
    BY <1>3 DEF authorize, ThreadTurns
  <2> HIDE DEF scope, pc
  <2>5. s \in ThreadSteps /\ s.pc = pc /\ s.question = thread[t].question
    BY <1>0, <2>2, <2>3 DEF ThreadSteps
  <2>6. thread'[t] = s /\ \A u \in Threads : u # t => thread'[u] = thread[u]
    BY <1>t, <2>4, <2>5
  <2>7. thread'[t].pc = pc /\ thread'[t].question = thread[t].question
    BY <2>5, <2>6
  <2> QED
    BY <1>w, <2>1, <2>3, <2>4, <2>5, <2>6, <2>7 DEF ThreadMoved, Sends, Quiet
<1>4. CASE generate(t)
  <2>1. thread[t].pc = "allowed" /\ Has(t)
    BY <1>4 DEF generate, Stands, Has, Claiming
  <2>2. thread' = [thread EXCEPT ![t] = [thread[t] EXCEPT !.pc = "generated"]]
    BY <1>4 DEF generate
  <2>3. UNCHANGED <<claimed, answers, denials, notices>>
    BY <1>4 DEF generate
  <2> QED
    BY <1>n, <2>1, <2>2, <2>3 DEF Sends, Quiet
<1>5. CASE authorize_again(t)
  <2>1. thread[t].pc = "generated" /\ Has(t)
    BY <1>5 DEF authorize_again, Stands, Has, Claiming
  <2>2. UNCHANGED <<claimed, answers, denials, notices>>
    BY <1>5 DEF authorize_again
  <2>3. \/ thread' = [thread EXCEPT ![t] = [thread[t] EXCEPT !.pc = "delivering"]]
        \/ thread' = [thread EXCEPT ![t] = Free]
    BY <1>5 DEF authorize_again
  <2> QED
    BY <1>n, <1>f, <2>1, <2>2, <2>3 DEF Sends, Quiet
<1>6. CASE deliver(t)
  <2>1. thread[t].pc = "delivering" /\ Has(t)
    BY <1>6 DEF deliver, Stands, Has, Claiming
  <2>2. UNCHANGED <<claimed, denials, notices>>
        /\ answers' = [answers EXCEPT ![thread[t].question] = @ + 1]
    BY <1>6 DEF deliver, Asked
  <2>3. \/ thread' = [thread EXCEPT ![t] = [thread[t] EXCEPT !.pc = "told"]]
        \/ thread' = [thread EXCEPT ![t] = Free]
    BY <1>6 DEF deliver, ThreadTurns
  <2> QED
    BY <1>n, <1>f, <2>1, <2>2, <2>3 DEF Sends, Answered
<1>7. CASE deny(t)
  <2>1. thread' = [thread EXCEPT ![t] = Free] /\ claimed' = claimed
    BY <1>7 DEF deny, ThreadTurns
  <2> QED
    BY <1>7, <1>f, <2>1 DEF deny, Stands, Asked, Sends, Refused
<1>8. CASE notice(t)
  <2>1. thread' = [thread EXCEPT ![t] = Free] /\ claimed' = claimed
    BY <1>8 DEF notice, ThreadTurns
  <2> QED
    BY <1>8, <1>f, <2>1 DEF notice, Stands, Asked, Sends, Announced
<1>9. CASE CallFails(t)
  <2>1. thread' = [thread EXCEPT ![t] = Free] /\ claimed' = claimed
    BY <1>9 DEF CallFails, AfterFailure, ThreadTurns
  <2> QED
    BY <1>9, <1>f, <2>1 DEF CallFails, Sends, Quiet
<1>10. CASE SentUnknown(t)
  <2>1. thread' = [thread EXCEPT ![t] = Free] /\ claimed' = claimed
    BY <1>10 DEF SentUnknown, AfterFailure, ThreadTurns
  <2> QED
    BY <1>10, <1>f, <2>1 DEF SentUnknown, Stands, Asked, Sends, Answered
<1> QED
  BY <1>1, <1>2, <1>3, <1>4, <1>5, <1>6, <1>7, <1>8, <1>9, <1>10 DEF HandleEvent

(***************************************************************************)
(* The other steps leave the threads alone, or end them all.               *)
(***************************************************************************)
Around ==
  \/ \E u \in Askers : grant_access(u) \/ revoke_access(u)
  \/ \E room \in Rooms : add_sources(room) \/ remove_sources(room)
  \/ \E q \in Questions : Redeliver(q)

LEMMA AroundSteps ==
  ASSUME Around
  PROVE  UNCHANGED <<claimed, thread, answers, denials, notices>>
  BY DEF Around, grant_access, revoke_access, add_sources, remove_sources, Redeliver

LEMMA RestartSteps ==
  ASSUME VipTypeOK, Restart
  PROVE  /\ \A t \in Threads : thread'[t] = Free /\ thread'[t].pc = "free" /\ ~Has(t)'
         /\ UNCHANGED <<claimed, answers, denials, notices>>
<1>1. \A t \in Threads : thread'[t] = Free
  BY DEF Restart
<1>2. \A t \in Threads : thread'[t].pc = "free"
  BY <1>1, FreeTyped
<1> QED
  BY <1>1, <1>2 DEF Restart, Has, Claiming

LEMMA ShiftTyped ==
  ASSUME shifts \in 0 .. MaxShifts, Shift \/ shifts' = shifts
  PROVE  shifts' \in 0 .. MaxShifts
  BY VipAssumption DEF Shift

LEMMA VipTypeStep ==
  ASSUME VipTypeOK, WorkIsClaimed, [VipNext]_vipVars
  PROVE  VipTypeOK'
<1> USE DEF VipTypeOK
<1>1. ASSUME NEW u \in Askers, grant_access(u) \/ revoke_access(u)
      PROVE  VipTypeOK'
  <2>1. granted' \in Nat /\ grant' \in [Askers -> Nat]
    BY <1>1 DEF grant_access, revoke_access
  <2>2. Shift /\ Overtakes
    BY <1>1 DEF grant_access, revoke_access
  <2>3. shifts' \in 0 .. MaxShifts /\ overtaken' \subseteq Threads
    BY <2>2, ShiftTyped DEF Overtakes
  <2> QED
    BY <1>1, <2>1, <2>3 DEF grant_access, revoke_access
<1>2. ASSUME NEW room \in Rooms, add_sources(room) \/ remove_sources(room)
      PROVE  VipTypeOK'
  <2>1. Shift /\ Overtakes
    BY <1>2 DEF add_sources, remove_sources
  <2>2. shifts' \in 0 .. MaxShifts /\ overtaken' \subseteq Threads
    BY <2>1, ShiftTyped DEF Overtakes
  <2> QED
    BY <1>2, <2>2 DEF add_sources, remove_sources
<1>3. ASSUME NEW q \in Questions, Redeliver(q)
      PROVE  VipTypeOK'
  BY <1>3, ShiftTyped DEF Redeliver
<1>4. ASSUME NEW t \in Threads, HandleEvent(t)
      PROVE  VipTypeOK'
  <2>1. ThreadMoved(t) /\ Sends(t)
    BY <1>4, EventSteps
  <2>2. thread' \in [Threads -> ThreadSteps]
    <3>1. \E s : thread' = [thread EXCEPT ![t] = s]
      BY <1>4 DEF HandleEvent, take, claim, authorize, generate, authorize_again, deliver, deny,
                  notice, CallFails, SentUnknown, ThreadTurns
    <3> QED
      BY <2>1, <3>1 DEF ThreadMoved
  <2>3. /\ answers' \in [Questions -> Nat] /\ denials' \in [Questions -> Nat]
        /\ notices' \in [Questions -> Nat]
    BY <2>1 DEF Sends, Quiet, Answered, Refused, Announced
  <2>4. claimed' \subseteq Questions
    BY <2>1 DEF ThreadMoved, WorkIsClaimed
  <2>5. /\ UNCHANGED <<grant, granted, sources>>
        /\ overtaken' = overtaken \/ overtaken' = overtaken \ {t}
    BY <1>4
    DEF HandleEvent, take, claim, authorize, generate, authorize_again, deliver, deny, notice,
        CallFails, SentUnknown, ThreadTurns
  <2>i. /\ inbox' = inbox \/ \E q \in Questions :
                              inbox[q] > 0 /\ inbox' = [inbox EXCEPT ![q] = @ - 1]
        /\ Shift \/ shifts' = shifts
    BY <1>4
    DEF HandleEvent, take, claim, authorize, generate, authorize_again, deliver, deny, notice,
        CallFails, SentUnknown
  <2>j. inbox' \in [Questions -> Nat]
    BY <2>i
  <2>6. shifts' \in 0 .. MaxShifts /\ overtaken' \subseteq Threads
    BY <2>5, <2>i, ShiftTyped
  <2> QED
    BY <2>2, <2>3, <2>4, <2>5, <2>6, <2>j
<1>5. CASE Restart
  <2>1. shifts' \in 0 .. MaxShifts
    BY <1>5, ShiftTyped DEF Restart
  <2> QED
    BY <1>5, <2>1, FreeTyped DEF Restart
<1>6. CASE UNCHANGED vipVars
  BY <1>6 DEF vipVars
<1> QED
  BY <1>1, <1>2, <1>3, <1>4, <1>5, <1>6 DEF VipNext

(***************************************************************************)
(* Claims and what is sent under them.                                     *)
(***************************************************************************)
Replies == WorkIsClaimed /\ ClaimsAreOwn /\ NothingSentBefore /\ OneReply /\ NoticeTellsTruth

LEMMA RepliesStep ==
  ASSUME VipTypeOK, Replies, [VipNext]_vipVars
  PROVE  Replies'
<1> USE DEF Replies
<1>1. CASE Around \/ UNCHANGED vipVars
  <2>1. UNCHANGED <<claimed, thread, answers, denials, notices>>
    BY <1>1, AroundSteps DEF vipVars
  <2> QED
    BY <2>1 DEF WorkIsClaimed, ClaimsAreOwn, NothingSentBefore, OneReply, NoticeTellsTruth, Has
<1>2. CASE Restart
  <2>1. /\ \A t \in Threads : thread'[t].pc = "free" /\ ~Has(t)'
        /\ UNCHANGED <<claimed, answers, denials, notices>>
    BY <1>2, RestartSteps
  <2> QED
    BY <2>1 DEF WorkIsClaimed, ClaimsAreOwn, NothingSentBefore, OneReply, NoticeTellsTruth
<1>3. ASSUME NEW t \in Threads, HandleEvent(t)
      PROVE  Replies'
  <2> DEFINE q == thread[t].question
  <2>1. ThreadMoved(t) /\ Sends(t)
    BY <1>3, EventSteps
  <2>2. \A u \in Threads : u # t => thread'[u] = thread[u] /\ (Has(u)' <=> Has(u))
    BY <2>1 DEF ThreadMoved, Has
  <2>3. claimed \subseteq claimed'
    BY <2>1 DEF ThreadMoved
  <2>4. WorkIsClaimed'
    BY <2>1, <2>2, <2>3 DEF ThreadMoved, WorkIsClaimed
  <2>5. ClaimsAreOwn'
    BY <2>1, <2>2 DEF ThreadMoved, WorkIsClaimed, ClaimsAreOwn
  <2>6. \A u \in Threads : u # t /\ Has(u) /\ Has(t) => thread[u].question # q
    BY DEF ClaimsAreOwn
  <2>7. CASE Quiet(t)
    <3>1. UNCHANGED <<answers, denials, notices>>
      BY <2>7 DEF Quiet
    <3>2. ASSUME NEW p \in Questions, p \notin claimed'
          PROVE  answers'[p] = 0 /\ denials'[p] = 0 /\ notices'[p] = 0
      BY <2>3, <3>1, <3>2 DEF NothingSentBefore
    <3>3. ASSUME NEW u \in Threads, Has(u)', u # t
          PROVE  /\ notices'[thread'[u].question] = 0
                 /\ IF thread'[u].pc = "told" THEN answers'[thread'[u].question] = 1
                    ELSE answers'[thread'[u].question] = 0 /\ denials'[thread'[u].question] = 0
      <4>1. thread'[u] = thread[u] /\ Has(u)
        BY <2>2, <3>3
      <4> QED
        BY <3>1, <3>3, <4>1 DEF NothingSentBefore
    <3>4. ASSUME Has(t)'
          PROVE  /\ notices'[thread'[t].question] = 0 /\ thread'[t].pc # "told"
                 /\ answers'[thread'[t].question] = 0 /\ denials'[thread'[t].question] = 0
      <4>1. thread'[t].question = q /\ thread'[t].pc # "told" /\ q \in Questions
        BY <2>1, <2>7, <3>4 DEF ThreadMoved, Quiet, Has, Claiming
      <4>2. Has(t) => thread[t].pc # "told"
        BY <2>7, <3>4 DEF Quiet
      <4>3. Has(t) \/ q \notin claimed
        BY <2>1, <3>4 DEF ThreadMoved
      <4> QED
        BY <3>1, <4>1, <4>2, <4>3 DEF NothingSentBefore
    <3>5. NothingSentBefore'
      BY <3>2, <3>3, <3>4 DEF NothingSentBefore
    <3> QED
      BY <2>4, <2>5, <3>1, <3>5 DEF OneReply, NoticeTellsTruth
  <2>8. CASE ~Quiet(t)
    <3>1. Has(t) /\ q \in Questions /\ q \in claimed /\ claimed' = claimed
      BY <2>1, <2>8 DEF Sends, Answered, Refused, Announced, Has, Claiming, WorkIsClaimed, ThreadMoved
    <3>2. /\ \A p \in Questions : p # q => /\ answers'[p] = answers[p]
                                           /\ denials'[p] = denials[p]
                                           /\ notices'[p] = notices[p]
          /\ answers[q] \in Nat /\ denials[q] \in Nat /\ notices[q] \in Nat
      BY <2>1, <2>8, <3>1 DEF Sends, Answered, Refused, Announced, VipTypeOK
    <3>3. /\ answers'[q] + denials'[q] = 1 /\ notices'[q] <= answers'[q]
          /\ Has(t)' => /\ thread'[t].pc = "told" /\ thread'[t].question = q
                        /\ notices'[q] = 0 /\ answers'[q] = 1
      <4>1. CASE Answered(t)
        <5>1. answers[q] = 0 /\ denials[q] = 0 /\ notices[q] = 0
          BY <3>1, <4>1 DEF NothingSentBefore, Answered
        <5>2. answers'[q] = 1 /\ denials'[q] = 0 /\ notices'[q] = 0
          BY <3>1, <4>1, <5>1 DEF Answered, VipTypeOK
        <5>3. Has(t)' => thread'[t].pc = "told" /\ thread'[t].question = q
          BY <2>1, <4>1 DEF Answered, ThreadMoved
        <5> QED
          BY <5>2, <5>3
      <4>2. CASE Refused(t)
        <5>1. answers[q] = 0 /\ denials[q] = 0 /\ notices[q] = 0
          BY <3>1, <4>2 DEF NothingSentBefore, Refused
        <5>2. answers'[q] = 0 /\ denials'[q] = 1 /\ notices'[q] = 0
          BY <3>1, <4>2, <5>1 DEF Refused, VipTypeOK
        <5> QED
          BY <4>2, <5>2 DEF Refused
      <4>3. CASE Announced(t)
        <5>1. answers[q] = 1 /\ notices[q] = 0
          BY <3>1, <4>3 DEF NothingSentBefore, Announced
        <5>2. denials[q] = 0
          BY <3>1, <3>2, <5>1 DEF OneReply
        <5>3. answers'[q] = 1 /\ denials'[q] = 0 /\ notices'[q] = 1
          BY <3>1, <4>3, <5>1, <5>2 DEF Announced, VipTypeOK
        <5> QED
          BY <4>3, <5>3 DEF Announced
      <4> QED
        BY <2>1, <2>8, <4>1, <4>2, <4>3 DEF Sends
    <3>4. ASSUME NEW u \in Threads, Has(u)', u # t
          PROVE  /\ notices'[thread'[u].question] = 0
                 /\ IF thread'[u].pc = "told" THEN answers'[thread'[u].question] = 1
                    ELSE answers'[thread'[u].question] = 0 /\ denials'[thread'[u].question] = 0
      <4>1. thread'[u] = thread[u] /\ Has(u)
        BY <2>2, <3>4
      <4>2. thread[u].question # q /\ thread[u].question \in Questions
        BY <2>6, <3>1, <3>4, <4>1 DEF WorkIsClaimed, Has, Claiming
      <4> QED
        BY <3>2, <4>1, <4>2 DEF NothingSentBefore
    <3>5. NothingSentBefore'
      BY <3>1, <3>2, <3>3, <3>4 DEF NothingSentBefore
    <3>6. OneReply' /\ NoticeTellsTruth'
      BY <3>2, <3>3 DEF OneReply, NoticeTellsTruth
    <3> QED
      BY <2>4, <2>5, <3>5, <3>6
  <2> QED
    BY <2>7, <2>8
<1> QED
  BY <1>1, <1>2, <1>3 DEF VipNext, Around

(***************************************************************************)
(* What is revoked while the answer is written.                            *)
(***************************************************************************)
Watch == ScopeIsWatched /\ RevokedIsNotDelivered

LEMMA WatchStep ==
  ASSUME VipTypeOK, WorkIsClaimed, Watch, [VipNext]_vipVars
  PROVE  Watch'
<1> USE DEF Watch
<1>0. thread \in [Threads -> ThreadSteps]
  BY DEF VipTypeOK
<1>1. ASSUME Overtakes, UNCHANGED thread
      PROVE  Watch'
  BY <1>1 DEF Overtakes, ScopeIsWatched, RevokedIsNotDelivered, Undecided, AskerAt
<1>2. CASE Around
  <2>1. CASE \E q \in Questions : Redeliver(q)
    BY <2>1 DEF Redeliver, ScopeIsWatched, RevokedIsNotDelivered
  <2>2. CASE ~\E q \in Questions : Redeliver(q)
    BY <1>1, <1>2, <2>2 DEF Around, grant_access, revoke_access, add_sources, remove_sources
  <2> QED
    BY <2>1, <2>2
<1>3. CASE Restart
  <2>1. \A t \in Threads : thread'[t].pc = "free"
    BY <1>3, RestartSteps
  <2> QED
    BY <2>1 DEF ScopeIsWatched, RevokedIsNotDelivered, Undecided
<1>4. ASSUME NEW t \in Threads, HandleEvent(t)
      PROVE  Watch'
  <2>1. ThreadMoved(t)
    BY <1>4, EventSteps
  <2>2. \A u \in Threads : u # t => thread'[u] = thread[u] /\ (u \in overtaken' <=> u \in overtaken)
    BY <1>4, <2>1 DEF ThreadMoved, HandleEvent, take, claim, authorize, generate, authorize_again,
                      deliver, deny, notice, CallFails, SentUnknown, ThreadTurns
  <2>3. UNCHANGED <<grant, sources>>
    BY <1>4 DEF HandleEvent, take, claim, authorize, generate, authorize_again, deliver, deny,
                notice, CallFails, SentUnknown
  <2> DEFINE now == [grant |-> grant[Asker[thread'[t].question]], sources |-> sources]
  <2>4. SUFFICES /\ thread'[t].pc \in Undecided =>
                      (t \in overtaken' <=> thread'[t].scope # now)
                 /\ thread'[t].pc \in {"delivering", "told"} => t \notin overtaken'
    BY <2>2, <2>3 DEF ScopeIsWatched, RevokedIsNotDelivered
  <2>5. CASE authorize(t)
    <3> DEFINE scope == ScopeNow(AskerAt(t))
               pc == IF scope = Nobody THEN "denying" ELSE "allowed"
    <3>1. thread' = [thread EXCEPT ![t] = [thread[t] EXCEPT !.pc = pc, !.scope = scope]]
          /\ t \notin overtaken'
      BY <2>5 DEF authorize, ThreadTurns
    <3>2. thread'[t].pc = pc /\ thread'[t].scope = scope
          /\ thread'[t].question = thread[t].question
      BY <1>0, <3>1 DEF ThreadSteps
    <3>3. scope # Nobody => scope = now
      BY <3>2 DEF ScopeNow, AskerAt
    <3> QED
      BY <3>1, <3>2, <3>3 DEF Undecided
  <2>6. CASE generate(t)
    <3>1. /\ thread[t].pc = "allowed" /\ overtaken' = overtaken
          /\ thread' = [thread EXCEPT ![t] = [thread[t] EXCEPT !.pc = "generated"]]
      BY <2>6 DEF generate, Stands
    <3>2. /\ thread'[t].pc = "generated" /\ thread'[t].scope = thread[t].scope
          /\ thread'[t].question = thread[t].question
      BY <1>0, <3>1 DEF ThreadSteps
    <3> QED
      BY <3>1, <3>2 DEF ScopeIsWatched, Undecided
  <2>7. CASE authorize_again(t)
    <3>1. thread[t].pc = "generated" /\ overtaken' = overtaken
      BY <2>7 DEF authorize_again, Stands
    <3>2. CASE thread' = [thread EXCEPT ![t] = Free]
      BY <1>0, <3>2, FreeTyped DEF Undecided
    <3>3. CASE /\ thread' = [thread EXCEPT ![t] = [thread[t] EXCEPT !.pc = "delivering"]]
               /\ _same_scope(thread[t].scope, ScopeNow(AskerAt(t)))
      <4>1. /\ thread'[t].pc = "delivering" /\ thread'[t].scope = thread[t].scope
            /\ thread'[t].question = thread[t].question
        BY <1>0, <3>3 DEF ThreadSteps
      <4>2. thread[t].scope = now
        BY <3>3, <4>1 DEF _same_scope, ScopeNow, AskerAt
      <4>3. t \notin overtaken
        BY <3>1, <4>1, <4>2 DEF ScopeIsWatched, Undecided
      <4> QED
        BY <3>1, <4>1, <4>3 DEF Undecided
    <3> QED
      BY <2>7, <3>2, <3>3 DEF authorize_again
  <2>8. CASE ~authorize(t) /\ ~generate(t) /\ ~authorize_again(t)
    <3>1. t \notin overtaken'
      BY <1>4, <2>8 DEF HandleEvent, take, claim, deliver, deny, notice, CallFails, SentUnknown,
                        ThreadTurns
    <3>2. thread'[t].pc \notin Undecided
      <4>1. \/ thread' = [thread EXCEPT ![t] = Free]
            \/ \E q \in Questions :
                 thread' = [thread EXCEPT ![t] = [Free EXCEPT !.pc = "taken", !.question = q]]
            \/ \E pc \in {"claimed", "told"} :
                 thread' = [thread EXCEPT ![t] = [thread[t] EXCEPT !.pc = pc]]
        BY <1>4, <2>8 DEF HandleEvent, take, claim, deliver, deny, notice, CallFails,
                          SentUnknown, AfterFailure, ThreadTurns
      <4>2. thread'[t].pc \in {"free", "taken", "claimed", "told"}
        <5>1. ASSUME NEW q \in Questions,
                     thread' = [thread EXCEPT ![t] = [Free EXCEPT !.pc = "taken", !.question = q]]
              PROVE  thread'[t].pc = "taken"
          BY <1>0, <5>1, FreeTyped
        <5>2. ASSUME NEW pc \in {"claimed", "told"},
                     thread' = [thread EXCEPT ![t] = [thread[t] EXCEPT !.pc = pc]]
              PROVE  thread'[t].pc = pc
          BY <1>0, <5>2 DEF ThreadSteps
        <5>3. ASSUME thread' = [thread EXCEPT ![t] = Free]
              PROVE  thread'[t].pc = "free"
          BY <1>0, <5>3, FreeTyped
        <5> QED
          BY <4>1, <5>1, <5>2, <5>3
      <4> QED
        BY <4>2 DEF Undecided
    <3> QED
      BY <3>1, <3>2
  <2> QED
    BY <2>5, <2>6, <2>7, <2>8
<1>5. CASE UNCHANGED vipVars
  BY <1>5 DEF vipVars, ScopeIsWatched, RevokedIsNotDelivered
<1> QED
  BY <1>2, <1>3, <1>4, <1>5 DEF VipNext, Around

(***************************************************************************)
(* The theorems.                                                           *)
(***************************************************************************)
LEMMA VipInitInv == VipInit => VipInv
<1> SUFFICES ASSUME VipInit
             PROVE  VipInv
  OBVIOUS
<1>1. VipTypeOK
  <2>1. thread \in [Threads -> ThreadSteps]
    BY FreeTyped DEF VipInit
  <2>2. shifts \in 0 .. MaxShifts
    BY VipAssumption DEF VipInit
  <2>3. granted \in Nat /\ grant \in [Askers -> Nat]
    BY DEF VipInit
  <2>4. /\ answers \in [Questions -> Nat] /\ denials \in [Questions -> Nat]
        /\ notices \in [Questions -> Nat] /\ inbox \in [Questions -> Nat]
    BY DEF VipInit
  <2> QED
    BY <2>1, <2>2, <2>3, <2>4 DEF VipInit, VipTypeOK
<1>2. \A t \in Threads : thread[t].pc = "free" /\ ~Has(t)
  BY FreeTyped DEF VipInit, Has, Claiming
<1>3. \A q \in Questions : answers[q] = 0 /\ denials[q] = 0 /\ notices[q] = 0
  BY DEF VipInit
<1> QED
  BY <1>1, <1>2, <1>3 DEF VipInv, WorkIsClaimed, ClaimsAreOwn, NothingSentBefore, OneReply,
                          NoticeTellsTruth, ScopeIsWatched, RevokedIsNotDelivered, Undecided

LEMMA VipInvStep == VipInv /\ [VipNext]_vipVars => VipInv'
<1> SUFFICES ASSUME VipInv, [VipNext]_vipVars
             PROVE  VipInv'
  OBVIOUS
<1>1. VipTypeOK'
  BY VipTypeStep DEF VipInv
<1>2. Replies'
  BY RepliesStep DEF VipInv, Replies
<1>3. Watch'
  BY WatchStep DEF VipInv, Watch
<1> QED
  BY <1>1, <1>2, <1>3 DEF VipInv, Replies, Watch

\* The inductive invariant the others rest on.
THEOREM VipInvariant == VipSpec => []VipInv
  BY VipInitInv, VipInvStep, PTL DEF VipSpec

\* Every variable keeps its type (the claim file, a listener's progress).
THEOREM VipTypes == VipSpec => []VipTypeOK
<1>1. VipInv => VipTypeOK
  BY DEF VipInv
<1> QED
  BY <1>1, VipInvariant, PTL

\* A question is answered or refused once, however often it is delivered (EventClaims.claim).
THEOREM QuestionsGetOneReply == VipSpec => []OneReply
<1>1. VipInv => OneReply
  BY DEF VipInv
<1> QED
  BY <1>1, VipInvariant, PTL

\* What was revoked before the second look is not delivered (handle_event, _same_scope).
THEOREM NothingRevokedIsDelivered == VipSpec => []RevokedIsNotDelivered
<1>1. VipInv => RevokedIsNotDelivered
  BY DEF VipInv
<1> QED
  BY <1>1, VipInvariant, PTL

\* The channel is told of a message only after it was sent (deliver_channel_answer).
THEOREM NoticesTellTheTruth == VipSpec => []NoticeTellsTruth
<1>1. VipInv => NoticeTellsTruth
  BY DEF VipInv
<1> QED
  BY <1>1, VipInvariant, PTL

(***************************************************************************)
(* The claim file implements OncePromise.                                  *)
(***************************************************************************)
RepliesSent == [q \in Questions |-> answers[q] + denials[q]]

LEMMA RepliesIncrease ==
  ASSUME VipTypeOK, NEW q \in Questions, answers[q] = 0, denials[q] = 0,
         \/ answers' = [answers EXCEPT ![q] = @ + 1] /\ UNCHANGED denials
         \/ denials' = [denials EXCEPT ![q] = @ + 1] /\ UNCHANGED answers
  PROVE  RepliesSent[q] = 0 /\ RepliesSent' = [RepliesSent EXCEPT ![q] = 1]
<1>1. \A p \in Questions :
        answers'[p] + denials'[p] = IF p = q THEN 1 ELSE answers[p] + denials[p]
  BY DEF VipTypeOK
<1>2. RepliesSent' = [p \in Questions |-> IF p = q THEN 1 ELSE answers[p] + denials[p]]
  BY <1>1, Zenon DEF RepliesSent
<1>3. RepliesSent[q] = 0
  BY DEF RepliesSent
<1> QED
  BY <1>2, <1>3 DEF RepliesSent

LEMMA EventKeepsPromise ==
  ASSUME VipInv, NEW t \in Threads, HandleEvent(t)
  PROVE  [ReplyPromise!Next]_<<claimed, RepliesSent>>
<1>0. VipTypeOK /\ WorkIsClaimed /\ NothingSentBefore
  BY DEF VipInv
<1>1. ThreadMoved(t) /\ Sends(t)
  BY <1>0, EventSteps
<1>2. CASE Answered(t) \/ Refused(t)
  <2>1. PICK q \in Questions : q = thread[t].question /\ q \in claimed
    BY <1>0, <1>2 DEF Answered, Refused, WorkIsClaimed, Has, Claiming
  <2>2. answers[q] = 0 /\ denials[q] = 0
    BY <1>0, <1>2, <2>1 DEF Answered, Refused, NothingSentBefore, Has, Claiming
  <2>3. RepliesSent[q] = 0 /\ RepliesSent' = [RepliesSent EXCEPT ![q] = 1]
    BY <1>0, <1>2, <2>1, <2>2, RepliesIncrease DEF Answered, Refused
  <2>4. claimed' = claimed
    BY <1>1, <1>2 DEF ThreadMoved, Answered, Refused
  <2> QED
    BY <2>1, <2>3, <2>4 DEF ReplyPromise!Next, ReplyPromise!Perform, RepliesSent
<1>3. CASE Quiet(t) \/ Announced(t)
  <2>1. RepliesSent' = RepliesSent
    BY <1>3 DEF Quiet, Announced, RepliesSent
  <2>2. CASE claimed' # claimed
    <3>1. PICK q \in Questions : q \notin claimed /\ claimed' = claimed \cup {q}
      BY <1>0, <1>1, <2>2 DEF ThreadMoved, WorkIsClaimed
    <3> QED
      BY <2>1, <3>1 DEF ReplyPromise!Next, ReplyPromise!Permit, RepliesSent
  <2> QED
    BY <2>1, <2>2
<1> QED
  BY <1>1, <1>2, <1>3 DEF Sends

LEMMA VipStepKeepsPromise ==
  ASSUME VipInv, [VipNext]_vipVars
  PROVE  [ReplyPromise!Next]_<<claimed, RepliesSent>>
<1>1. CASE Around \/ Restart \/ UNCHANGED vipVars
  <2>1. UNCHANGED <<claimed, answers, denials>>
    BY <1>1, AroundSteps DEF Restart, vipVars
  <2> QED
    BY <2>1 DEF RepliesSent
<1>2. ASSUME NEW t \in Threads, HandleEvent(t)
      PROVE  [ReplyPromise!Next]_<<claimed, RepliesSent>>
  BY <1>2, EventKeepsPromise
<1> QED
  BY <1>1, <1>2 DEF VipNext, Around

\* A reply, answer or refusal, is sent on a claim that was written in an earlier transaction,
\* once for a question whatever Slack redelivers and however often the process starts again.
THEOREM ClaimsKeepReplyPromise == VipSpec => ReplyPromiseKept
<1>1. VipInit => ReplyPromise!Init
  BY DEF VipInit, ReplyPromise!Init
<1>2. VipInv /\ [VipNext]_vipVars
        => [ReplyPromise!Next]_<<claimed, [q \in Questions |-> answers[q] + denials[q]]>>
  BY VipStepKeepsPromise DEF RepliesSent
<1> QED
  BY <1>1, <1>2, VipInvariant, PTL DEF VipSpec, ReplyPromiseKept, ReplyPromise!Spec

(***************************************************************************)
(* The bots beside the other services (MCServices).                        *)
(***************************************************************************)
LEMMA RowsWrittenTyped ==
  ASSUME NEW row \in Mode!Row
  PROVE  /\ \A target \in Mode!Modes, ts \in Mode!Cutovers :
              Mode!plan_mode_change(row, target, ts) \in Mode!Row
         /\ \A hold \in BOOLEAN : Mode!set_operator_hold(row, hold) \in Mode!Row
         /\ \A wish \in Mode!Plans : Mode!archiver_save_membership(row, wish) \in Mode!Row
<1>z. 0 \in Mode!Cutovers
  BY SweepAssumption DEF Mode!Cutovers
<1>1. ASSUME NEW target \in Mode!Modes, NEW ts \in Mode!Cutovers
      PROVE  Mode!plan_mode_change(row, target, ts) \in Mode!Row
  <2>1. /\ Mode!OwnerAfter(row, target) \in Mode!Owners
        /\ Mode!CutoverAfter(row, target, ts) \in Mode!Cutovers
    BY <1>z, <1>1 DEF Mode!Row, Mode!Modes, Mode!Owners, Mode!OwnerAfter, Mode!CutoverAfter,
                      Mode!ActivationTs
  <2> QED
    BY <2>1 DEF Mode!plan_mode_change, Mode!Row
<1>2. ASSUME NEW hold \in BOOLEAN
      PROVE  Mode!set_operator_hold(row, hold) \in Mode!Row
  BY DEF Mode!set_operator_hold, Mode!Row, Mode!Modes
<1>3. ASSUME NEW wish \in Mode!Plans
      PROVE  Mode!MembershipRow(row, wish) \in Mode!Row
  <2>1. Mode!NoRow \in Mode!Row
    BY <1>z DEF Mode!NoRow, Mode!Row, Mode!Owners, Mode!Memberships
  <2>2. CASE row.mode = "absent"
    BY <2>1, <2>2 DEF Mode!MembershipRow, Mode!Row, Mode!Modes, Mode!Memberships
  <2>3. CASE row.mode # "absent"
    <3>1. Mode!MembershipMode(row, wish) \in Mode!Modes /\ wish.membership \in Mode!Memberships
      BY DEF Mode!MembershipMode, Mode!Modes, Mode!Plans, Mode!Memberships
    <3> QED
      BY <2>3, <3>1 DEF Mode!MembershipRow, Mode!Row
  <2> QED
    BY <2>2, <2>3
<1> QED
  BY <1>1, <1>2, <1>3 DEF Mode!archiver_save_membership

LEMMA SweepTypesInit ==
  ASSUME SweepInit
  PROVE  SweepTypeOK
<1>1. Mode!NoRow \in Mode!Row
  BY SweepAssumption DEF Mode!NoRow, Mode!Row, Mode!Owners, Mode!Memberships, Mode!Cutovers
<1> QED
  BY <1>1, SweepAssumption DEF SweepInit, SweepTypeOK, BetweenRounds, NothingPlanned

\* What is left of a wish is a step of the round.
LEMMA LeftOfTyped ==
  ASSUME SweepTypeOK, NEW wish \in [SweptChannels -> Mode!Plans \cup {Mode!NoPlan}],
         sweep' = LeftOf(wish)
  PROVE  sweep' \in [pc : {"waiting", "fetched", "applying"}, joined : SUBSET SweptChannels,
                     plan : [SweptChannels -> Mode!Plans \cup {Mode!NoPlan}]]
<1>1. CASE ToApply(wish) = {}
  BY <1>1 DEF LeftOf, BetweenRounds, NothingPlanned
<1>2. CASE ToApply(wish) # {}
  BY <1>2 DEF LeftOf, SweepTypeOK
<1> QED
  BY <1>1, <1>2

LEMMA SweepTypesStep ==
  ASSUME SweepTypeOK, [SweepNext]_sweepVars
  PROVE  SweepTypeOK'
<1>0. rows \in [SweptChannels -> Mode!Row]
  BY DEF SweepTypeOK
<1>1. ASSUME NEW c \in SweptChannels, NEW new \in Mode!Row, Press(c, new)
      PROVE  SweepTypeOK'
  BY <1>1, SweepAssumption DEF Press, SweepTypeOK
<1>2. ASSUME NEW c \in SweptChannels, NEW target \in Mode!Modes, NEW ts \in Mode!Cutovers,
             PressMode(c, target, ts)
      PROVE  SweepTypeOK'
  BY <1>0, <1>1, <1>2, RowsWrittenTyped DEF PressMode
<1>3. ASSUME NEW c \in SweptChannels, NEW hold \in BOOLEAN, PressHold(c, hold)
      PROVE  SweepTypeOK'
  BY <1>0, <1>1, <1>3, RowsWrittenTyped DEF PressHold
<1>4. CASE \E c \in SweptChannels : Join(c) \/ Leave(c)
  BY <1>4 DEF Join, Leave, SweepTypeOK
<1>5. CASE fetch_joined
  BY <1>5 DEF fetch_joined, BetweenRounds, NothingPlanned, SweepTypeOK
<1>6. CASE plan_all
  <2> DEFINE wish == [c \in SweptChannels |-> Mode!plan_sync(rows[c], c \in sweep.joined)]
  <2>1. ASSUME NEW c \in SweptChannels
        PROVE  Mode!plan_sync(rows[c], c \in sweep.joined) \in Mode!Plans \cup {Mode!NoPlan}
    <3> DEFINE row == rows[c]
    <3>1. row.mode \in Mode!Modes \cup {"absent"}
      BY <1>0 DEF Mode!Row
    <3>2. CASE c \in sweep.joined
      <4>1. PICK m : Mode!plan_sync(row, c \in sweep.joined) = [membership |-> "joined", mode |-> m]
                     /\ (m \in {"shadow", "paused"} \/ (m = row.mode /\ row.mode # "absent"))
        <5>1. CASE row.mode = "absent"
          BY <3>2, <5>1 DEF Mode!plan_sync
        <5>2. CASE row.mode # "absent" /\ row.hold
          BY <3>2, <5>2 DEF Mode!plan_sync
        <5>3. CASE row.mode # "absent" /\ ~row.hold /\ row.owner = "archiver"
          BY <3>2, <5>3 DEF Mode!plan_sync
        <5>4. CASE row.mode # "absent" /\ ~row.hold /\ row.owner # "archiver"
          BY <3>2, <5>4 DEF Mode!plan_sync
        <5> QED
          BY <5>1, <5>2, <5>3, <5>4
      <4>2. m \in Mode!Modes
        BY <3>1, <4>1 DEF Mode!Modes
      <4> QED
        BY <4>1, <4>2 DEF Mode!Plans
    <3>3. CASE c \notin sweep.joined
      BY <3>3 DEF Mode!plan_sync, Mode!Plans, Mode!Modes
    <3> QED
      BY <3>2, <3>3
  <2>2. wish \in [SweptChannels -> Mode!Plans \cup {Mode!NoPlan}]
    BY <2>1
  <2>3. sweep' = LeftOf(wish) /\ UNCHANGED <<rows, members, presses>>
    BY <1>6 DEF plan_all
  <2> HIDE DEF wish
  <2> QED
    BY <2>2, <2>3, LeftOfTyped DEF SweepTypeOK
<1>7. ASSUME NEW c \in SweptChannels, ApplyAction(c)
      PROVE  SweepTypeOK'
  <2> DEFINE row == Mode!archiver_save_membership(rows[c], sweep.plan[c])
             wish == [sweep.plan EXCEPT ![c] = Mode!NoPlan]
  <2>1. sweep.plan[c] \in Mode!Plans
    BY <1>7 DEF ApplyAction, IsNext, ToApply, SweepTypeOK
  <2>2. row \in Mode!Row
    BY <1>0, <2>1, RowsWrittenTyped
  <2>3. wish \in [SweptChannels -> Mode!Plans \cup {Mode!NoPlan}]
    BY DEF SweepTypeOK
  <2>4. /\ rows' = [rows EXCEPT ![c] = row] /\ sweep' = LeftOf(wish)
        /\ UNCHANGED <<members, presses>>
    BY <1>7 DEF ApplyAction
  <2> HIDE DEF row, wish
  <2>5. rows' \in [SweptChannels -> Mode!Row]
    BY <1>0, <2>2, <2>4
  <2> QED
    BY <2>3, <2>4, <2>5, LeftOfTyped DEF SweepTypeOK
<1>8. ASSUME NEW c \in SweptChannels, ActionRaises(c)
      PROVE  SweepTypeOK'
  BY <1>8 DEF ActionRaises, BetweenRounds, NothingPlanned, SweepTypeOK
<1>9. CASE UNCHANGED sweepVars
  BY <1>9 DEF sweepVars, SweepTypeOK
<1> QED
  BY <1>2, <1>3, <1>4, <1>5, <1>6, <1>7, <1>8, <1>9 DEF SweepNext, apply_plan

\* A step of the whole is a step of one part and leaves the others alone: but for fairness,
\* which a part has only while it is the one that moves, each behaves as it does by itself.
THEOREM ServicesKeepTheirParts ==
  ServicesSpec => /\ BackfillInit /\ [][BackfillNext]_backfillVars
                  /\ ImageInit /\ [][ImageNext]_imageVars
                  /\ DmInit /\ [][DmNext]_dmVars
                  /\ VipSpec
                  /\ QueueSpec
                  /\ SweepInit /\ [][SweepNext]_sweepVars
<1>1. ServicesInit => BackfillInit /\ ImageInit /\ DmInit /\ VipInit /\ QueueInit
                   /\ SweepInit
  BY DEF ServicesInit
<1>2. [ServicesNext]_serviceVars
        => /\ [BackfillNext]_backfillVars /\ [ImageNext]_imageVars /\ [DmNext]_dmVars
           /\ [VipNext]_vipVars /\ [QueueNext]_queueVars /\ [SweepNext]_sweepVars
  BY DEF ServicesNext, BackfillMoves, ImagesMove, RemindersMove, VipMoves, QueueMoves, SweepMoves,
         serviceVars
<1> QED
  BY <1>1, <1>2, PTL DEF ServicesSpec, VipSpec, QueueSpec

\* So together they keep the inductive invariants of all six ...
LEMMA ServicesInvariant ==
  ServicesSpec => [](BackfillInv /\ ImageInv /\ DmInv /\ VipInv /\ QueueInv /\ SweepTypeOK)
<1>1. DmInit => DmInv
  BY DmInitInv
<1>2. DmInv /\ [DmNext]_dmVars => DmInv'
  BY DmInvStep
<1> QED
  BY <1>1, <1>2, ServicesKeepTheirParts, BackfillInvInit, BackfillInvStep, ImageInitInv,
     ImageInvStep, VipInvariant, QueueInvariant, SweepTypesInit, SweepTypesStep, PTL

\* ... and every variable its type.
THEOREM ServicesTypes == ServicesSpec => []ServicesTypeOK
<1>1. BackfillInv /\ ImageInv /\ DmInv /\ VipInv /\ QueueInv /\ SweepTypeOK => ServicesTypeOK
  BY DEF ServicesTypeOK, BackfillInv, ImageInv, DmInv, VipInv, QueueInv
<1> QED
  BY <1>1, ServicesInvariant, PTL
=============================================================================
