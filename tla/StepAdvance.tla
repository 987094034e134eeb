----------------------------- MODULE StepAdvance -----------------------------
(***************************************************************************)
(* The wizard's steps: POST /runs/{run_id}/step_advance (Next), which       *)
(* proposes the tool call a step ends with, and /step_decisions, which      *)
(* rejects what is proposed for a step, or approves it: call by call, each  *)
(* committed as executing before PriceFRAME carries it out.  The result of  *)
(* a call is committed together with the start of the next one, or with the *)
(* step's advance_approved event.                                           *)
(*                                                                          *)
(* A step's call may need the quote an earlier step has created: the last   *)
(* one of this run, or else of the conversation, whose runs these are.      *)
(***************************************************************************)
EXTENDS Naturals, Sequences, FiniteSets

CONSTANTS
  Runs,          \* runs of the conversation
  CreateSteps,   \* steps whose call creates a quote
  QuoteSteps,    \* steps whose call needs draft.created_quote_id
  ReadSteps,     \* the ones of them whose tool has risk READ
  PlainSteps,    \* steps without a call: no on_complete, or batch_at_submit
  Handlers,      \* requests in progress at a time
  MaxCalls,      \* bound: tool calls in all
  MaxRequests    \* bound: requests in all

Steps == CreateSteps \cup QuoteSteps \cup PlainSteps
Calls == 1..MaxCalls

ASSUME StepsAssumption ==
  /\ CreateSteps \cap QuoteSteps = {}
  /\ PlainSteps \cap (CreateSteps \cup QuoteSteps) = {}
  /\ ReadSteps \subseteq QuoteSteps
  /\ Runs # {} /\ Steps # {}
  /\ MaxCalls \in Nat /\ MaxRequests \in Nat

VARIABLES
  status,      \* status[r]: agent_runs.status, as committed
  call,        \* call[c]: the row of the c-th tool call
  made,        \* tool calls so far
  events,      \* advance events of the journal, with the calls they name
  started,     \* started[i]: the i-th commit of a call as executing, and how many
               \*   there were when its handler listed the calls
  done,        \* calls PriceFRAME has carried out; a quote is named by its call
  audited,     \* calls whose audit callback PriceFRAME has accepted
  clock,       \* utc_now(), which moves when a result is recorded
  handler,     \* handler[h]: its place, its request and what it has loaded
  abandoned,   \* calls whose execution failed, or died with its handler
  requests     \* requests so far

db == <<status, call, made, events, started>>
priceframe == <<done, audited>>
vars == <<db, priceframe, clock, handler, abandoned, requests>>

Undecided == {"proposed", "pending"}
CallStatus == Undecided \cup {"executing", "succeeded", "rejected"}
RunStatus == {"awaiting_decision", "completed"}

SomeRun == CHOOSE r \in Runs : TRUE
SomeStep == CHOOSE s \in Steps : TRUE

\* quote = 0 and completed_at = 0 stand for null.
NoRow == [run |-> SomeRun, step |-> SomeStep, status |-> "proposed",
          quote |-> 0, completed_at |-> 0]

\* bundle: the calls listed; todo: the ones still to execute; current: the call
\* under way, or whose result is not committed yet.
Idle == [at |-> "idle", op |-> "none", run |-> SomeRun, step |-> SomeStep,
         saw |-> "completed", quote |-> 0, bundle |-> {}, todo |-> {},
         current |-> 0, completed_at |-> 0, listed |-> 0]

-----------------------------------------------------------------------------
\* The model's turn has ended: the wizard begins.
Init ==
  /\ status = [r \in Runs |-> "completed"]
  /\ call = [c \in Calls |-> NoRow]
  /\ made = 0
  /\ events = {}
  /\ started = <<>>
  /\ done = {}
  /\ audited = {}
  /\ clock = 0
  /\ handler = [h \in Handlers |-> Idle]
  /\ abandoned = {}
  /\ requests = 0

Made == 1..made

\* A request arrives, and require_run loads its run.
Begin(h) ==
  /\ handler[h].at = "idle"
  /\ requests < MaxRequests
  /\ requests' = requests + 1
  /\ \E op \in {"next", "approve", "reject"}, r \in Runs, s \in Steps :
       handler' = [handler EXCEPT ![h] = [Idle EXCEPT
         !.at = IF op = "next" THEN "evaluate" ELSE "list",
         !.op = op, !.run = r, !.step = s, !.saw = status[r]]]
  /\ UNCHANGED <<db, priceframe, clock, abandoned>>

Done(h) == handler' = [handler EXCEPT ![h] = Idle]

Announce(h, type, calls) ==
  events' = events \cup
    {[type |-> type, run |-> handler[h].run, step |-> handler[h].step, calls |-> calls]}

-----------------------------------------------------------------------------
\* Next: request_step_advance.

Created(R) ==
  {c \in Made : call[c].run \in R /\ call[c].step \in CreateSteps
                  /\ call[c].status = "succeeded"}

\* Mutant: the last call counts, whether it has succeeded or not.
LatestOfProposed(C) == {c \in Made : \A d \in Made : d <= c}

\* What ORDER BY completed_at DESC LIMIT 1 may return.
Latest(C) == {c \in C : \A d \in C : call[d].completed_at <= call[c].completed_at}

\* latest_created_quote_id.
LatestCreatedQuote(r) ==
  LET own == Created({r})
      all == Created(Runs)
  IN  IF all = {} THEN {0} ELSE Latest(IF own # {} THEN own ELSE all)

\* evaluate_step_advance reads the quote.
Evaluate(h) ==
  /\ handler[h].at = "evaluate"
  /\ \E q \in LatestCreatedQuote(handler[h].run) :
       handler' = [handler EXCEPT ![h].at = "advance", ![h].quote = q]
  /\ UNCHANGED <<db, priceframe, clock, abandoned, requests>>

\* The step has no call: it is approved, and the run completed (again).
Pass(h) ==
  /\ handler[h].at = "advance"
  /\ handler[h].step \in PlainSteps
  /\ Announce(h, "approved", {})
  /\ status' = [status EXCEPT ![handler[h].run] = "completed"]
  /\ Done(h)
  /\ UNCHANGED <<call, made, started, priceframe, clock, abandoned, requests>>

\* The call's args cannot be resolved or do not validate: no quote, or fields of
\* the draft that are missing.
Block(h) ==
  /\ handler[h].at = "advance"
  /\ handler[h].step \notin PlainSteps
  /\ Announce(h, "blocked", {})
  /\ status' = [status EXCEPT ![handler[h].run] = "completed"]
  /\ Done(h)
  /\ UNCHANGED <<call, made, started, priceframe, clock, abandoned, requests>>

QuoteKnown(h) == handler[h].step \in QuoteSteps => handler[h].quote # 0

\* The call is proposed.  A run that was loaded as awaiting_decision is not
\* written: the value is the one loaded.
Propose(h) ==
  /\ handler[h].at = "advance"
  /\ handler[h].step \notin PlainSteps
  /\ QuoteKnown(h)
  /\ made < MaxCalls
  /\ made' = made + 1
  /\ call' = [call EXCEPT ![made + 1] =
       [run |-> handler[h].run, step |-> handler[h].step,
        status |-> IF handler[h].step \in ReadSteps THEN "pending" ELSE "proposed",
        quote |-> IF handler[h].step \in QuoteSteps THEN handler[h].quote ELSE 0,
        completed_at |-> 0]]
  /\ Announce(h, "requested", {made + 1})
  /\ status' = IF handler[h].saw = "awaiting_decision" THEN status
               ELSE [status EXCEPT ![handler[h].run] = "awaiting_decision"]
  /\ Done(h)
  /\ UNCHANGED <<started, priceframe, clock, abandoned, requests>>

-----------------------------------------------------------------------------
\* The decision on a step's bundle: decide_step_advance.

\* Mutant: a retry finds the call again whose execution was interrupted.
ListableAlsoExecuting == Undecided \cup {"executing"}

Listable == Undecided

\* _list_proposed_tool_calls_for_step.
ListedFor(r, s) ==
  {c \in Made : call[c].run = r /\ call[c].step = s /\ call[c].status \in Listable}

\* An empty list is answered with 404.
List(h) ==
  /\ handler[h].at = "list"
  /\ LET bundle == ListedFor(handler[h].run, handler[h].step)
         next == IF handler[h].op = "reject" THEN "reject" ELSE "start"
     IN  handler' = [handler EXCEPT ![h] =
           IF bundle = {} THEN Idle
           ELSE [@ EXCEPT !.at = next, !.bundle = bundle, !.todo = bundle,
                          !.listed = Len(started)]]
  /\ UNCHANGED <<db, priceframe, clock, abandoned, requests>>

\* Mutant: the run gets a status that no reader of it knows.
CompleteAsDone(h) ==
  status' = IF handler[h].saw = "awaiting_decision"
            THEN [status EXCEPT ![handler[h].run] = "done"] ELSE status

\* run.status is the one that was loaded when the request began.
CompleteIfAwaited(h) ==
  status' = IF handler[h].saw = "awaiting_decision"
            THEN [status EXCEPT ![handler[h].run] = "completed"] ELSE status

Reject(h) ==
  /\ handler[h].at = "reject"
  /\ call' = [c \in Calls |->
       IF c \in handler[h].bundle THEN [call[c] EXCEPT !.status = "rejected"] ELSE call[c]]
  /\ Announce(h, "rejected", handler[h].bundle)
  /\ CompleteIfAwaited(h)
  /\ Done(h)
  /\ UNCHANGED <<made, started, priceframe, clock, abandoned, requests>>

\* The rows with the result of h's last call, which is in its open transaction.
WithResult(h) ==
  IF handler[h].current = 0 THEN call
  ELSE [call EXCEPT ![handler[h].current].status = "succeeded",
                    ![handler[h].current].completed_at = handler[h].completed_at]

\* One commit: the last call's result, and the next call, by created_at, as
\* executing.
StartCall(h) ==
  /\ handler[h].at = "start"
  /\ \E c \in handler[h].todo :
         /\ \A d \in handler[h].todo : c <= d
         /\ call' = [WithResult(h) EXCEPT ![c].status = "executing"]
         /\ started' = Append(started, [call |-> c, listed |-> handler[h].listed])
         /\ handler' = [handler EXCEPT ![h].at = "execute", ![h].current = c,
                                       ![h].todo = @ \ {c}]
  /\ UNCHANGED <<status, made, events, priceframe, clock, abandoned, requests>>

\* tool.execute.
Execute(h) ==
  /\ handler[h].at = "execute"
  /\ done' = done \cup {handler[h].current}
  /\ handler' = [handler EXCEPT ![h].at =
       IF handler[h].step \in ReadSteps THEN "result" ELSE "audit"]
  /\ UNCHANGED <<db, audited, clock, abandoned, requests>>

\* Mutant: a failing audit callback is logged and ignored.
AuditSwallowed(h) ==
  /\ handler[h].at = "audit"
  /\ audited' = audited \cup {handler[h].current} \/ UNCHANGED audited
  /\ handler' = [handler EXCEPT ![h].at = "result"]
  /\ UNCHANGED <<db, done, clock, abandoned, requests>>

\* post_agent_audit_callback, accepted.
Audit(h) ==
  /\ handler[h].at = "audit"
  /\ audited' = audited \cup {handler[h].current}
  /\ handler' = [handler EXCEPT ![h].at = "result"]
  /\ UNCHANGED <<db, done, clock, abandoned, requests>>

\* The result is recorded in the open transaction; the bundle goes on.
Result(h) ==
  /\ handler[h].at = "result"
  /\ clock' = clock + 1
  /\ handler' = [handler EXCEPT
       ![h].completed_at = clock + 1,
       ![h].at = IF handler[h].todo = {} THEN "finish" ELSE "start"]
  /\ UNCHANGED <<db, priceframe, abandoned, requests>>

\* Mutant: the last result is forgotten with the handler's transaction.
FinishWithoutResult(h) ==
  /\ handler[h].at = "finish"
  /\ Announce(h, "approved", handler[h].bundle)
  /\ CompleteIfAwaited(h)
  /\ Done(h)
  /\ UNCHANGED <<call, made, started, priceframe, clock, abandoned, requests>>

\* The last commit: the last result and the step's approval.
Finish(h) ==
  /\ handler[h].at = "finish"
  /\ call' = WithResult(h)
  /\ Announce(h, "approved", handler[h].bundle)
  /\ CompleteIfAwaited(h)
  /\ Done(h)
  /\ UNCHANGED <<made, started, priceframe, clock, abandoned, requests>>

-----------------------------------------------------------------------------
Abandon(h) ==
  /\ Done(h)
  /\ abandoned' = abandoned \cup ({handler[h].current} \ {0})

\* An error is raised, or the process dies: what h has not committed is gone, the
\* result of its last call included.
Fail(h) ==
  /\ handler[h].at # "idle"
  /\ Abandon(h)
  /\ UNCHANGED <<db, priceframe, clock, requests>>

\* The same, after PriceFRAME has got the request or accepted the audit.
FailAfterReceipt(h) ==
  /\ \/ /\ handler[h].at = "execute"
        /\ done' = done \cup {handler[h].current}
        /\ UNCHANGED audited
     \/ /\ handler[h].at = "audit"
        /\ audited' = audited \cup {handler[h].current}
        /\ UNCHANGED done
  /\ Abandon(h)
  /\ UNCHANGED <<db, clock, requests>>

Step(h) ==
  \/ Evaluate(h) \/ Pass(h) \/ Block(h) \/ Propose(h)
  \/ List(h) \/ Reject(h) \/ StartCall(h) \/ Execute(h) \/ Audit(h) \/ Result(h)
  \/ Finish(h)

Next ==
  \E h \in Handlers : Begin(h) \/ Step(h) \/ Fail(h) \/ FailAfterReceipt(h)

Spec == Init /\ [][Next]_vars

\* A handler that has begun is run on to its end, unless it fails.
Fairness == \A h \in Handlers : WF_vars(Step(h))

FairSpec == Spec /\ Fairness

-----------------------------------------------------------------------------
Row == [run : Runs, step : Steps, status : CallStatus,
        quote : Calls \cup {0}, completed_at : Nat]

Places == {"idle", "evaluate", "advance", "list", "reject", "start", "execute",
           "audit", "result", "finish"}

Handler == [at : Places, op : {"none", "next", "approve", "reject"}, run : Runs,
            step : Steps, saw : RunStatus, quote : Calls \cup {0},
            bundle : SUBSET Calls, todo : SUBSET Calls, current : Calls \cup {0},
            completed_at : Nat, listed : Nat]

Event == [type : {"requested", "approved", "blocked", "rejected"}, run : Runs,
          step : Steps, calls : SUBSET Calls]

TypeOK ==
  /\ status \in [Runs -> RunStatus]
  /\ call \in [Calls -> Row]
  /\ made \in 0..MaxCalls
  /\ events \subseteq Event
  /\ started \in Seq([call : Calls, listed : Nat])
  /\ done \subseteq Calls
  /\ audited \subseteq Calls
  /\ clock \in Nat
  /\ handler \in [Handlers -> Handler]
  /\ abandoned \subseteq Calls
  /\ requests \in Nat

\* PriceFRAME has carried out c, and if it writes, has accepted its audit.
Effective(c) == c \in done /\ (call[c].step \notin ReadSteps => c \in audited)

(* A step that ends with a call is announced as approved only over calls of that
   step, at least one, and all of them carried out and audited: whichever call of
   a bundle failed before, and whatever other requests decided meanwhile.     *)
ApprovedStepWasExecuted ==
  \A e \in events : e.type = "approved" /\ e.step \notin PlainSteps =>
    /\ e.calls # {}
    /\ \A c \in e.calls : call[c].step = e.step /\ Effective(c)

(* A call that works on a quote names one that PriceFRAME has created, and whose
   creation was audited, before the call was proposed.                        *)
QuoteWasCreated ==
  \A c \in Made : call[c].step \in QuoteSteps =>
    LET q == call[c].quote
    IN  q \in Made /\ q < c /\ call[q].step \in CreateSteps /\ Effective(q)

(* A call is executed twice only by two requests that had both listed it before
   either started it: no retry, after a failure in the middle of a bundle or a
   dead process, executes a call again.                                       *)
RetryNeverReexecutes ==
  \A i, j \in 1..Len(started) :
    i < j /\ started[i].call = started[j].call => started[j].listed < i

(* A call does not stay executing unless an execution of it failed, though its
   result waits for the commit of the next call of its bundle.                *)
BundleSettles ==
  \A c \in Calls :
    c <= made /\ call[c].status = "executing"
      ~> call[c].status # "executing" \/ c \in abandoned

-----------------------------------------------------------------------------
(* The inductive invariant.                                                  *)

\* The call whose result h holds, if any, is the last one it has executed.
HoldsResult(h) ==
  \/ handler[h].at \in {"result", "finish"}
  \/ handler[h].at = "start" /\ handler[h].current # 0

\* What a handler in a bundle has behind it.
BundleInOrder(h) ==
  handler[h].at \in {"reject", "start", "execute", "audit", "result", "finish"} =>
    /\ handler[h].bundle # {}
    /\ handler[h].bundle \subseteq Made
    /\ \A c \in handler[h].bundle : call[c].step = handler[h].step
    /\ handler[h].todo \subseteq handler[h].bundle
    /\ handler[h].at \notin {"reject", "start"} => handler[h].current \in handler[h].bundle
    /\ handler[h].current # 0 => handler[h].current \in handler[h].bundle
    /\ handler[h].at = "start" => handler[h].todo # {}
    /\ handler[h].at = "finish" => handler[h].todo = {}
    /\ handler[h].at = "audit" => handler[h].current \in done
    /\ HoldsResult(h) => Effective(handler[h].current)
    /\ \A c \in handler[h].bundle \ (handler[h].todo \cup {handler[h].current}) :
         handler[h].at # "reject" => Effective(c)

QuoteInHand(h) ==
  handler[h].at = "advance" /\ handler[h].quote # 0 =>
    LET q == handler[h].quote
    IN  q \in Made /\ call[q].step \in CreateSteps /\ Effective(q)

\* A handler has still to do only what was undecided when it listed it.
ListedUndecided(h) ==
  /\ handler[h].listed <= Len(started)
  /\ \A c \in handler[h].todo : \A i \in 1..Len(started) :
       started[i].call = c => handler[h].listed < i

SucceededIsEffective ==
  \A c \in Made : call[c].status = "succeeded" => Effective(c)

StartedIsDecided ==
  \A i \in 1..Len(started) :
    started[i].call \in Made /\ call[started[i].call].status \notin Listable

\* Before it lists the calls, a handler has none under way.
NoneYet(h) == handler[h].at = "list" => handler[h].current = 0

EventsNameCalls == \A e \in events : e.calls \subseteq Made

IInv ==
  /\ TypeOK
  /\ \A h \in Handlers :
       BundleInOrder(h) /\ NoneYet(h) /\ QuoteInHand(h) /\ ListedUndecided(h)
  /\ EventsNameCalls
  /\ SucceededIsEffective
  /\ StartedIsDecided
  /\ ApprovedStepWasExecuted
  /\ QuoteWasCreated
  /\ RetryNeverReexecutes

-----------------------------------------------------------------------------
(* What BundleSettles rests on, step by step.                                *)

\* h has started c, and has neither settled nor given it up.
UnderWay(h, c) ==
  /\ handler[h].current = c
  /\ handler[h].at \in {"start", "execute", "audit", "result", "finish"}

(* A call that is executing is some handler's, or its execution has failed: no
   other request, on this step or its run, takes it away.                     *)
ExecutingHasOwner ==
  \A c \in Made : call[c].status = "executing" =>
    c \in abandoned \/ \E h \in Handlers : UnderWay(h, c)

\* The places h passes on its way from a call's start to its settling.
PlacesLeft(h) ==
  CASE handler[h].at = "execute" -> 3
    [] handler[h].at = "audit" -> 2
    [] handler[h].at = "result" -> 1
    [] OTHER -> 0

(* Whatever the others do meanwhile, a call's handler stays where it is or goes
   on by a place, or else it leaves the call: it never comes back to one.     *)
OwnerGoesOn ==
  [][\A h \in Handlers : \A c \in Calls :
       UnderWay(h, c) /\ UnderWay(h, c)' =>
         handler'[h] = handler[h] \/ PlacesLeft(h)' < PlacesLeft(h)]_vars

\* Inductive: a call under way is no longer one to do.
OwnerInv ==
  /\ IInv
  /\ ExecutingHasOwner
  /\ \A h \in Handlers : handler[h].current \notin handler[h].todo
=============================================================================
