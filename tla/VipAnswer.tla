------------------------------ MODULE VipAnswer ------------------------------
(***************************************************************************)
(* A question to VIPBot, from Slack's event to the answer (vipbot_event,   *)
(* vipbot_event_claims, vipbot_delivery, vipbot_runtime).  Slack may send  *)
(* an event more than once, and Bolt handles each delivery in a thread of  *)
(* its own.  A thread claims the event in a SQLite file, asks the database *)
(* what the person may see, generates from that scope, asks again, and     *)
(* delivers only if nothing changed: the answer by direct message, and in  *)
(* the channel one fixed sentence.  Meanwhile a console grants, revokes    *)
(* and registers source channels, calls fail, and the process dies and is  *)
(* started again; flock admits one process at a time.                      *)
(*                                                                         *)
(* A scope is the grant and the registered sources: the employee number    *)
(* goes with the grant.  A grant is revoked for good, a later one has a    *)
(* new id; a source channel may come back.  The 30 days a claim is kept    *)
(* are longer than Slack redelivers anything.                              *)
(***************************************************************************)
EXTENDS Naturals, FiniteSets

CONSTANTS
  Questions,      \* event ids of valid mentions and direct messages
  Asker,          \* who sent each
  InChannel,      \* the questions asked in a channel
  Threads,
  NoQuestion,
  Rooms,          \* channels that can be a source
  MaxShifts       \* bound: what the console, Slack's retries and faults do, together

ASSUME VipAssumption ==
  /\ InChannel \subseteq Questions /\ NoQuestion \notin Questions
  /\ MaxShifts \in Nat

Askers == {Asker[q] : q \in Questions}

VARIABLES
  grant,        \* bot_access: the live grant of a person, 0 if there is none
  granted,      \* the last grant id given
  sources,      \* bot_source_channel
  inbox,        \* deliveries Slack has made and no thread has taken yet
  claimed,      \* claimed_event
  thread,       \* each listener thread's step
  shifts,       \* how much the console, Slack and faults did
  answers,      \* history: direct messages with an answer, per question
  denials,      \* history: direct messages with the refusal, per question
  notices,      \* history: sentences in the channel, per question
  overtaken     \* history: threads whose scope was not in force when they last could look

vipVars == <<grant, granted, sources, inbox, claimed, thread, shifts, answers, denials, notices,
             overtaken>>

VipScopes == [grant : Nat, sources : SUBSET Rooms]
Nobody == [grant |-> 0, sources |-> {}]
ThreadSteps ==
  [pc : {"free", "taken", "claimed", "allowed", "generated", "delivering", "denying", "told"},
   question : Questions \cup {NoQuestion}, scope : VipScopes]
Free == [pc |-> "free", question |-> NoQuestion, scope |-> Nobody]

VipTypeOK ==
  /\ grant \in [Askers -> Nat] /\ granted \in Nat
  /\ sources \subseteq Rooms
  /\ inbox \in [Questions -> Nat]
  /\ claimed \subseteq Questions
  /\ thread \in [Threads -> ThreadSteps]
  /\ shifts \in 0 .. MaxShifts
  /\ answers \in [Questions -> Nat] /\ denials \in [Questions -> Nat]
  /\ notices \in [Questions -> Nat]
  /\ overtaken \subseteq Threads

VipInit ==
  /\ granted = 1 /\ grant = [u \in Askers |-> 1]
  /\ sources = Rooms
  /\ inbox = [q \in Questions |-> 1]
  /\ claimed = {}
  /\ thread = [t \in Threads |-> Free]
  /\ shifts = 0
  /\ answers = [q \in Questions |-> 0] /\ denials = [q \in Questions |-> 0]
  /\ notices = [q \in Questions |-> 0]
  /\ overtaken = {}

(***************************************************************************)
(* The console and Slack.                                                  *)
(***************************************************************************)
\* vipbot_authorization: a scope, or a refusal, which is Nobody.
ScopeNow(u) == IF grant[u] = 0 \/ sources = {} THEN Nobody
               ELSE [grant |-> grant[u], sources |-> sources]
Undecided == {"allowed", "generated"}
AskerAt(t) == Asker[thread[t].question]
Shift == shifts < MaxShifts /\ shifts' = shifts + 1

\* History: a thread that still has to look again is overtaken while its scope is not in force.
Overtakes ==
  overtaken' = {t \in Threads :
                  IF thread[t].pc \in Undecided
                  THEN thread[t].scope # [grant |-> grant'[AskerAt(t)], sources |-> sources']
                  ELSE t \in overtaken}

\* grant: a new id each time; an expired one that is still open is closed.
grant_access(u) ==
  /\ Shift /\ grant[u] = 0
  /\ granted' = granted + 1 /\ grant' = [grant EXCEPT ![u] = granted']
  /\ UNCHANGED <<sources, inbox, claimed, thread, answers, denials, notices>>
  /\ Overtakes

\* revoke, or the grant expires, or the person leaves.
revoke_access(u) ==
  /\ Shift /\ grant[u] # 0
  /\ grant' = [grant EXCEPT ![u] = 0]
  /\ UNCHANGED <<granted, sources, inbox, claimed, thread, answers, denials, notices>>
  /\ Overtakes

add_sources(room) ==
  /\ Shift /\ room \notin sources
  /\ sources' = sources \cup {room}
  /\ UNCHANGED <<grant, granted, inbox, claimed, thread, answers, denials, notices>>
  /\ Overtakes

remove_sources(room) ==
  /\ Shift /\ room \in sources
  /\ sources' = sources \ {room}
  /\ UNCHANGED <<grant, granted, inbox, claimed, thread, answers, denials, notices>>
  /\ Overtakes

\* Slack did not see the acknowledgement and sends the event again.
Redeliver(q) ==
  /\ Shift
  /\ inbox' = [inbox EXCEPT ![q] = @ + 1]
  /\ UNCHANGED <<grant, granted, sources, claimed, thread, answers, denials, notices, overtaken>>

(***************************************************************************)
(* A thread.                                                               *)
(***************************************************************************)
Stands(t, pc) == thread[t].pc = pc
ThreadTurns(t, s) == thread' = [thread EXCEPT ![t] = s] /\ overtaken' = overtaken \ {t}
Asked(t) == thread[t].question

take(t, q) ==
  /\ Stands(t, "free") /\ inbox[q] > 0
  /\ inbox' = [inbox EXCEPT ![q] = @ - 1]
  /\ ThreadTurns(t, [Free EXCEPT !.pc = "taken", !.question = q])
  /\ UNCHANGED <<grant, granted, sources, claimed, shifts, answers, denials, notices>>

\* A slip: only an event that was answered counts as known.
IsAnswered(q) == answers[q] > 0
\* INSERT OR IGNORE, in a transaction of its own.
IsKnown(q) == q \in claimed
claim(t) ==
  /\ Stands(t, "taken")
  /\ claimed' = claimed \cup {Asked(t)}
  /\ ThreadTurns(t, IF IsKnown(Asked(t)) THEN Free ELSE [thread[t] EXCEPT !.pc = "claimed"])
  /\ UNCHANGED <<grant, granted, sources, inbox, shifts, answers, denials, notices>>

\* authorize_runtime; if the database cannot be asked the question ends here.
authorize(t) ==
  LET scope == ScopeNow(AskerAt(t))
  IN /\ Stands(t, "claimed")
     /\ ThreadTurns(t, [thread[t] EXCEPT !.pc = IF scope = Nobody THEN "denying" ELSE "allowed",
                                    !.scope = scope])
     /\ UNCHANGED <<grant, granted, sources, inbox, claimed, shifts, answers, denials, notices>>

\* The engine answers from the scope it was given, with at least one source.
generate(t) ==
  /\ Stands(t, "allowed")
  /\ thread' = [thread EXCEPT ![t].pc = "generated"]
  /\ UNCHANGED <<grant, granted, sources, inbox, claimed, shifts, answers, denials, notices,
                 overtaken>>

\* A slip: the grant still stands, whatever happened to the sources.
SameGrant(before, after) == after # Nobody /\ after.grant = before.grant
_same_scope(before, after) == after # Nobody /\ after = before
\* The second authorisation, after the answer is there and before anything is sent.
authorize_again(t) ==
  /\ Stands(t, "generated")
  /\ thread' = [thread EXCEPT ![t] =
                  IF _same_scope(thread[t].scope, ScopeNow(AskerAt(t)))
                  THEN [@ EXCEPT !.pc = "delivering"] ELSE Free]
  /\ UNCHANGED <<grant, granted, sources, inbox, claimed, shifts, answers, denials, notices,
                 overtaken>>

\* _dm, _post_dm_channel: the conversation opens and Slack takes the message.
deliver(t) ==
  /\ Stands(t, "delivering")
  /\ answers' = [answers EXCEPT ![Asked(t)] = @ + 1]
  /\ ThreadTurns(t, IF Asked(t) \in InChannel THEN [thread[t] EXCEPT !.pc = "told"] ELSE Free)
  /\ UNCHANGED <<grant, granted, sources, inbox, claimed, shifts, denials, notices>>
deny(t) ==
  /\ Stands(t, "denying")
  /\ denials' = [denials EXCEPT ![Asked(t)] = @ + 1]
  /\ ThreadTurns(t, Free)
  /\ UNCHANGED <<grant, granted, sources, inbox, claimed, shifts, answers, notices>>
\* _notice
notice(t) ==
  /\ Stands(t, "told")
  /\ notices' = [notices EXCEPT ![Asked(t)] = @ + 1]
  /\ ThreadTurns(t, Free)
  /\ UNCHANGED <<grant, granted, sources, inbox, claimed, shifts, answers, denials>>

\* A slip: a message that could not be sent is still announced in the channel.
AnnouncesAnyway(t) == IF Asked(t) \in InChannel THEN [thread[t] EXCEPT !.pc = "told"] ELSE Free
\* No way around: what cannot be sent by direct message is not sent.
AfterFailure(t) == Free
\* The claim file, the database, the model or Slack fails the call this thread makes.
CallFails(t) ==
  /\ ~Stands(t, "free") /\ Shift
  /\ ThreadTurns(t, IF Stands(t, "delivering") THEN AfterFailure(t) ELSE Free)
  /\ UNCHANGED <<grant, granted, sources, inbox, claimed, answers, denials, notices>>

\* The message was sent and the answer to the call is lost: as if it had failed.
SentUnknown(t) ==
  /\ Stands(t, "delivering") /\ Shift
  /\ answers' = [answers EXCEPT ![Asked(t)] = @ + 1]
  /\ ThreadTurns(t, AfterFailure(t))
  /\ UNCHANGED <<grant, granted, sources, inbox, claimed, denials, notices>>

\* The process dies, and the next one has the lock: claims are in the file, threads are not.
Restart ==
  /\ Shift /\ \E t \in Threads : ~Stands(t, "free")
  /\ thread' = [t \in Threads |-> Free] /\ overtaken' = {}
  /\ UNCHANGED <<grant, granted, sources, inbox, claimed, answers, denials, notices>>

HandleEvent(t) ==
  \/ \E q \in Questions : take(t, q)
  \/ claim(t) \/ authorize(t) \/ generate(t) \/ authorize_again(t)
  \/ deliver(t) \/ deny(t) \/ notice(t) \/ CallFails(t) \/ SentUnknown(t)
VipNext ==
  \/ \E u \in Askers : grant_access(u) \/ revoke_access(u)
  \/ \E room \in Rooms : add_sources(room) \/ remove_sources(room)
  \/ \E q \in Questions : Redeliver(q)
  \/ \E t \in Threads : HandleEvent(t)
  \/ Restart
VipSpec == VipInit /\ [][VipNext]_vipVars

(***************************************************************************)
(* What it promises.                                                       *)
(***************************************************************************)
\* However often Slack sends a question and the process dies, it is answered or refused once.
OneReply == \A q \in Questions : answers[q] + denials[q] <= 1

\* OncePromise: the claim of an event is the permission to reply, given once whatever Slack
\* redelivers; a reply, answer or refusal, follows at most once and never without it.
ReplyPromise ==
  INSTANCE OncePromise WITH
    Items <- Questions, permitted <- claimed,
    done <- [q \in Questions |-> answers[q] + denials[q]]
ReplyPromiseKept == ReplyPromise!Spec

\* An answer goes out only by a thread whose scope was in force when it looked after the
\* answer had been made: what is revoked while the model writes is not delivered.
RevokedIsNotDelivered ==
  \A t \in Threads : thread[t].pc \in {"delivering", "told"} => t \notin overtaken

\* The sentence in the channel says that a message was sent, so there is one.
NoticeTellsTruth == \A q \in Questions : notices[q] <= answers[q]
=============================================================================
