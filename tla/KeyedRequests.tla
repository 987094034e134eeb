---------------------------- MODULE KeyedRequests ----------------------------
(***************************************************************************)
(* The requests that create something under an Idempotency-Key, POST        *)
(* /conversations, /conversations/{id}/runs and /conversations/{id}/messages, *)
(* sent again by a client that got no answer, or twice at once; and the     *)
(* dispatch of the runs they create, in the request or through the arq      *)
(* queue to the worker.                                                     *)
(*                                                                          *)
(* One user, and one endpoint per key.  The key's row and what it points to *)
(* are committed together by the first two endpoints; send_message executes *)
(* the run first and stores its key afterwards.                             *)
(***************************************************************************)
EXTENDS Naturals, FiniteSets

CONSTANTS
  CreateKeys,    \* keys of create_conversation
  StartKeys,     \* keys of start_run
  SendKeys,      \* keys of send_message
  MaxAttempts,   \* bound: requests that arrive, with any key
  MaxCrashes     \* bound: handlers and workers that die

Keys == CreateKeys \cup StartKeys \cup SendKeys
Attempts == 1..MaxAttempts

ASSUME KeysAssumption ==
  /\ Keys # {}
  /\ CreateKeys \cap StartKeys = {}
  /\ SendKeys \cap (CreateKeys \cup StartKeys) = {}
  /\ MaxAttempts \in Nat /\ MaxCrashes \in Nat

VARIABLES
  mode,        \* settings.run_execution_mode
  key_row,     \* key_row[k]: the row of agent_idempotency_keys; of = 0 if none
  resource,    \* resource[a]: the conversation or run that a has committed
  attempt,     \* attempt[a]: its key and where its handler stands
  answer,      \* answer[a]: the attempt whose resource it was answered with
  job,         \* job[a]: the job of a's run in the queue
  lost,        \* attempts whose run is committed and that nobody will execute
  crashes      \* deaths so far

vars == <<mode, key_row, resource, attempt, answer, job, lost, crashes>>

NoRow == [of |-> 0, expired |-> FALSE]

-----------------------------------------------------------------------------
Init ==
  /\ mode \in {"inline", "arq"}
  /\ key_row = [k \in Keys |-> NoRow]
  /\ resource = [a \in Attempts |-> "none"]
  /\ attempt = [a \in Attempts |-> [key |-> CHOOSE k \in Keys : TRUE, at |-> "unsent"]]
  /\ answer = [a \in Attempts |-> 0]
  /\ job = [a \in Attempts |-> "none"]
  /\ lost = {}
  /\ crashes = 0

At(a, place) == attempt[a].at = place
Goto(a, place) == attempt' = [attempt EXCEPT ![a].at = place]
Key(a) == attempt[a].key
Row(a) == key_row[Key(a)]

\* The client sends a request, for the first time or again.
Request(a, k) ==
  /\ At(a, "unsent")
  /\ attempt' = [attempt EXCEPT ![a] = [key |-> k, at |-> "get_replay"]]
  /\ UNCHANGED <<mode, key_row, resource, answer, job, lost, crashes>>

Answer(a, of) ==
  /\ answer' = [answer EXCEPT ![a] = of]
  /\ Goto(a, "answered")

\* get_replay finds a row that has not expired.
Replay(a) ==
  /\ At(a, "get_replay")
  /\ Row(a).of # 0
  /\ ~Row(a).expired
  /\ Answer(a, Row(a).of)
  /\ UNCHANGED <<mode, key_row, resource, job, lost, crashes>>

NoReplay(a) ==
  /\ At(a, "get_replay")
  /\ Row(a).of = 0 \/ Row(a).expired
  /\ Goto(a, "create")
  /\ UNCHANGED <<mode, key_row, resource, answer, job, lost, crashes>>

\* Mutant: an existing row is overwritten.
StoreReplayUpserted(a) == key_row' = [key_row EXCEPT ![Key(a)] = [of |-> a, expired |-> FALSE]]

\* store_replay, at the commit: (user_id, key) is the primary key, and a row
\* that has expired is still there.
StoreReplay(a) ==
  /\ Row(a).of = 0
  /\ key_row' = [key_row EXCEPT ![Key(a)] = [of |-> a, expired |-> FALSE]]

CreateConversation(a) ==
  /\ At(a, "create")
  /\ Key(a) \in CreateKeys
  /\ StoreReplay(a)
  /\ resource' = [resource EXCEPT ![a] = "done"]
  /\ Answer(a, a)
  /\ UNCHANGED <<mode, job, lost, crashes>>

\* Mutant: the key is stored by a transaction before the run's.
StartRunKeyFirst(a) ==
  /\ At(a, "create")
  /\ Key(a) \in StartKeys
  /\ StoreReplay(a)
  /\ Goto(a, "dispatch")
  /\ UNCHANGED <<mode, resource, answer, job, lost, crashes>>

\* start_run up to its commit.
StartRun(a) ==
  /\ At(a, "create")
  /\ Key(a) \in StartKeys
  /\ StoreReplay(a)
  /\ resource' = [resource EXCEPT ![a] = "queued"]
  /\ Goto(a, "dispatch")
  /\ UNCHANGED <<mode, answer, job, lost, crashes>>

\* start_run: enqueue_agent_run.  No job id is given, so arq never refuses.
Enqueue(a) ==
  /\ At(a, "dispatch")
  /\ mode = "arq"
  /\ job' = [job EXCEPT ![a] = "queued"]
  /\ \/ Answer(a, a)
     \/ Goto(a, "failed") /\ UNCHANGED answer     \* Redis does not answer
  /\ UNCHANGED <<mode, key_row, resource, lost, crashes>>

\* start_run: execute_run in the request.
ExecuteInline(a) ==
  /\ At(a, "dispatch")
  /\ mode = "inline"
  /\ resource' = [resource EXCEPT ![a] = "done"]
  /\ Answer(a, a)
  /\ UNCHANGED <<mode, key_row, job, lost, crashes>>

\* send_message: a runner that streams commits the run with its first delta.
CommitDelta(a) ==
  /\ At(a, "create")
  /\ Key(a) \in SendKeys
  /\ resource[a] = "none"
  /\ resource' = [resource EXCEPT ![a] = "queued"]
  /\ UNCHANGED <<mode, key_row, attempt, answer, job, lost, crashes>>

\* send_message: execute_run returns, the run is committed.
ExecuteMessage(a) ==
  /\ At(a, "create")
  /\ Key(a) \in SendKeys
  /\ resource' = [resource EXCEPT ![a] = "done"]
  /\ Goto(a, "store")
  /\ UNCHANGED <<mode, key_row, answer, job, lost, crashes>>

\* send_message: store_replay and the last commit.
SendMessage(a) ==
  /\ At(a, "store")
  /\ StoreReplay(a)
  /\ Answer(a, a)
  /\ UNCHANGED <<mode, resource, job, lost, crashes>>

\* The INSERT of store_replay raises IntegrityError: the answer is a 500, and
\* the open transaction rolls back.
KeyConflict(a) ==
  /\ \/ At(a, "create") /\ Key(a) \notin SendKeys
     \/ At(a, "store")
  /\ Row(a).of # 0
  /\ Goto(a, "failed")
  /\ UNCHANGED <<mode, key_row, resource, answer, job, lost, crashes>>

\* A run that was committed as queued and will not be executed.
Lose(a) == lost' = IF resource[a] = "queued" THEN lost \cup {a} ELSE lost

\* The handler raises, or its process dies.
Fail(a) ==
  /\ attempt[a].at \in {"get_replay", "create", "dispatch", "store"}
  /\ crashes < MaxCrashes
  /\ crashes' = crashes + 1
  /\ Goto(a, "failed")
  /\ Lose(a)
  /\ UNCHANGED <<mode, key_row, resource, answer, job>>

-----------------------------------------------------------------------------
\* The worker.

\* run_agent_job is called for a job.
TakeJob(a) ==
  /\ job[a] = "queued"
  /\ job' = [job EXCEPT ![a] = "running"]
  /\ UNCHANGED <<mode, key_row, resource, attempt, answer, lost, crashes>>

\* The runner's last commit.
FinishJob(a) ==
  /\ job[a] = "running"
  /\ resource' = [resource EXCEPT ![a] = "done"]
  /\ job' = [job EXCEPT ![a] = "finished"]
  /\ UNCHANGED <<mode, key_row, attempt, answer, lost, crashes>>

\* arq removes a job that has returned.
RemoveJob(a) ==
  /\ job[a] = "finished"
  /\ job' = [job EXCEPT ![a] = "none"]
  /\ UNCHANGED <<mode, key_row, resource, attempt, answer, lost, crashes>>

\* An error escapes the runner: the job is over, and the run as it was.
JobRaises(a) ==
  /\ job[a] = "running"
  /\ crashes < MaxCrashes
  /\ crashes' = crashes + 1
  /\ job' = [job EXCEPT ![a] = "none"]
  /\ Lose(a)
  /\ UNCHANGED <<mode, key_row, resource, attempt, answer>>

\* Mutant: a job is removed when it is taken.
WorkerDiesJobGone(a) ==
  /\ job[a] \in {"running", "finished"}
  /\ crashes < MaxCrashes
  /\ crashes' = crashes + 1
  /\ job' = [job EXCEPT ![a] = "none"]
  /\ UNCHANGED <<mode, key_row, resource, attempt, answer, lost>>

\* The worker dies; arq delivers the job again.
WorkerDies(a) ==
  /\ job[a] \in {"running", "finished"}
  /\ crashes < MaxCrashes
  /\ crashes' = crashes + 1
  /\ job' = [job EXCEPT ![a] = "queued"]
  /\ UNCHANGED <<mode, key_row, resource, attempt, answer, lost>>

\* expires_at passes.  Nothing deletes the row.
Expire(k) ==
  /\ key_row[k].of # 0
  /\ ~key_row[k].expired
  /\ key_row' = [key_row EXCEPT ![k].expired = TRUE]
  /\ UNCHANGED <<mode, resource, attempt, answer, job, lost, crashes>>

Handle(a) ==
  \/ Replay(a) \/ NoReplay(a)
  \/ CreateConversation(a) \/ StartRun(a) \/ Enqueue(a) \/ ExecuteInline(a)
  \/ CommitDelta(a) \/ ExecuteMessage(a) \/ SendMessage(a) \/ KeyConflict(a)

Work(a) == TakeJob(a) \/ FinishJob(a) \/ RemoveJob(a)

Next ==
  \/ \E a \in Attempts :
       \/ \E k \in Keys : Request(a, k)
       \/ Handle(a) \/ Fail(a) \/ Work(a) \/ JobRaises(a) \/ WorkerDies(a)
  \/ \E k \in Keys : Expire(k)

Spec == Init /\ [][Next]_vars

\* Handlers are run on, and the worker takes the jobs of its queue.
Fairness == \A a \in Attempts : WF_vars(Handle(a)) /\ WF_vars(Work(a))

FairSpec == Spec /\ Fairness

-----------------------------------------------------------------------------
\* Types; and a job is for a run that is committed.
TypeOK ==
  /\ mode \in {"inline", "arq"}
  /\ key_row \in [Keys -> [of : Attempts \cup {0}, expired : BOOLEAN]]
  /\ resource \in [Attempts -> {"none", "queued", "done"}]
  /\ attempt \in [Attempts -> [key : Keys, at : {"unsent", "get_replay", "create",
                    "dispatch", "store", "answered", "failed"}]]
  /\ answer \in [Attempts -> Attempts \cup {0}]
  /\ job \in [Attempts -> {"none", "queued", "running", "finished"}]
  /\ lost \subseteq Attempts
  /\ crashes \in Nat
  /\ \A a \in Attempts : job[a] # "none" => resource[a] # "none"

Created(k) == {a \in Attempts : Key(a) = k /\ resource[a] # "none"}

(* However often and however concurrently a client sends create_conversation or
   start_run with a key, one conversation or one run comes of it, expiry and
   crashes included.                                                          *)
OneResourcePerKey ==
  \A k \in CreateKeys \cup StartKeys : \A a, b \in Created(k) : a = b

(* All answers to a key name the same resource, and it is a committed one that
   this key created: a replay never tells of a run that was rolled back, nor of
   a second one that a concurrent request executed.                           *)
AnswersAgree ==
  \A a, b \in Attempts :
    answer[a] # 0 /\ answer[b] # 0 /\ Key(a) = Key(b) =>
      answer[a] = answer[b] /\ answer[a] \in Created(Key(a))

(* A run that stays queued is still on its way: in its handler, or in the queue
   or at the worker; or it is lost, because the handler failed between the
   commit and the enqueue, or an error ended its execution.                   *)
QueuedIsOnItsWay ==
  \A a \in Attempts : resource[a] = "queued" =>
    \/ attempt[a].at \in {"create", "dispatch"}
    \/ job[a] \in {"queued", "running"}
    \/ a \in lost

(* A run that start_run has answered for is executed, although a worker may
   die with it and the job be delivered again, unless its execution raises.   *)
AnsweredIsExecuted ==
  \A a \in Attempts : answer[a] = a ~> resource[a] = "done" \/ a \in lost

(* "Idempotency key handling uses DB unique constraints; concurrent same-key
   writes will fail one and replay the other"
   (docs/handbook/12-security-safety.md:239): one of them takes effect, with
   send_message as with the other endpoints.                                  *)
OneEffectPerKey == \A k \in Keys : \A a, b \in Created(k) : a = b

-----------------------------------------------------------------------------
(* The inductive invariant.                                                  *)

\* A key's row points to what a request with that key has committed.
RowsPoint == \A k \in Keys : key_row[k].of # 0 => key_row[k].of \in Created(k)

\* What a request has created, and what it was answered, is in its key's row.
InRow(a) ==
  /\ resource[a] # "none" /\ Key(a) \notin SendKeys => Row(a).of = a
  /\ answer[a] # 0 => Row(a).of = answer[a]

\* What a request has done, by where its handler stands.
InPlace(a) ==
  /\ attempt[a].at \in {"unsent", "get_replay"} => resource[a] = "none" /\ answer[a] = 0
  /\ At(a, "create") => Key(a) \in SendKeys \/ resource[a] = "none"
  /\ At(a, "dispatch") => Key(a) \in StartKeys /\ resource[a] # "none"
  /\ At(a, "store") => resource[a] = "done"
  /\ job[a] = "finished" => resource[a] = "done"

IInv ==
  /\ TypeOK
  /\ RowsPoint
  /\ \A a \in Attempts : InRow(a) /\ InPlace(a)
  /\ QueuedIsOnItsWay
=============================================================================
