---------------------------- MODULE ToolDecisions ----------------------------
(***************************************************************************)
(* Decisions on the tool calls of a paused run: concurrent requests to      *)
(* POST /runs/{run_id}/decisions (reject, edit, approve) and /cancel.       *)
(*                                                                          *)
(* A handler loads the run and the call in two statements, decides on what  *)
(* it loaded, and commits; no row is locked before its first write.  An     *)
(* approval is committed before the call is executed at PriceFRAME, and its *)
(* result in a second transaction, so handlers interleave between the two   *)
(* and may die there.                                                       *)
(*                                                                          *)
(* PriceFRAME is external: it applies a request once per Idempotency-Key,   *)
(* which is the call's id (docs/handbook/06-priceframe-integration.md:209). *)
(***************************************************************************)
EXTENDS Naturals, Sequences, FiniteSets

CONSTANTS
  Calls,        \* tool calls of the run
  NoCall,       \* the call of a request that is about none
  Reads,        \* the ones whose tool has risk READ: nothing to audit
  Handlers,     \* requests in progress at a time
  MaxRequests   \* bound: requests in all

ASSUME DecisionsAssumption ==
  /\ Reads \subseteq Calls
  /\ NoCall \notin Calls
  /\ MaxRequests \in Nat

VARIABLES
  run,         \* agent_runs.status, as committed
  call,        \* call[c]: status and args of its agent_tool_calls row
  events,      \* the journal: what was decided or completed, for which call,
               \*   and how long the journal was when the handler loaded the call
  audit_log,   \* calls with a row in agent_audit_log
  received,    \* received[c]: args of c's executions that reached PriceFRAME, the
               \*   retries of one execution being one (same key, same args)
  audited,     \* calls whose audit callback PriceFRAME has accepted
  handler,     \* handler[h]: its place, its input and its session's objects
  abandoned,   \* calls whose execution failed, or died with its handler
  requests     \* requests so far

db == <<run, call, events, audit_log>>
priceframe == <<received, audited>>
vars == <<db, priceframe, handler, abandoned, requests>>

Args == {"original", "edited"}
RunStatus == {"awaiting_decision", "completed", "cancelled"}

\* The statuses from which a call can be approved; a read awaits it "pending".
Undecided == {"pending", "proposed"}
CallStatus == Undecided \cup {"executing", "succeeded", "rejected"}
Decisions == {"reject", "edit", "approve", "approve_edited"}

Idle == [at |-> "idle", op |-> "none", call |-> NoCall, run |-> "awaiting_decision",
         status |-> "proposed", args |-> "original", loaded |-> 0]

Places == {"idle", "load_run", "load_call", "decide", "execute", "audit", "finish"}

Handler == [at : Places, op : {"none", "cancel"} \cup Decisions,
            call : Calls \cup {NoCall}, run : RunStatus, status : CallStatus,
            args : Args, loaded : Nat]

Event == [type : {"rejected", "edited", "approved", "completed", "error"},
          call : Calls \cup {NoCall}, loaded : Nat]

\* A column is in the session's UPDATE only if its value differs from the one
\* that was loaded; otherwise the row keeps what it has by now.
Column(loaded, value, now) == IF value = loaded THEN now ELSE value

-----------------------------------------------------------------------------
\* The run has paused: it has calls that await a decision.
Init ==
  /\ run = "awaiting_decision"
  /\ call = [c \in Calls |->
       [status |-> IF c \in Reads THEN "pending" ELSE "proposed", args |-> "original"]]
  /\ events = <<>>
  /\ audit_log = {}
  /\ received = [c \in Calls |-> <<>>]
  /\ audited = {}
  /\ handler = [h \in Handlers |-> Idle]
  /\ abandoned = {}
  /\ requests = 0

\* A request arrives.
Begin(h) ==
  /\ handler[h].at = "idle"
  /\ requests < MaxRequests
  /\ requests' = requests + 1
  /\ \/ handler' = [handler EXCEPT ![h].at = "load_run", ![h].op = "cancel"]
     \/ \E op \in Decisions, c \in Calls :
          handler' = [handler EXCEPT
            ![h].at = "load_run", ![h].op = op, ![h].call = c]
  /\ UNCHANGED <<db, priceframe, abandoned>>

\* require_run.
LoadRun(h) ==
  /\ handler[h].at = "load_run"
  /\ handler' = [handler EXCEPT
       ![h].run = run,
       ![h].at = IF handler[h].op = "cancel" THEN "decide" ELSE "load_call"]
  /\ UNCHANGED <<db, priceframe, abandoned, requests>>

\* require_tool_call.
LoadCall(h) ==
  /\ handler[h].at = "load_call"
  /\ LET row == call[handler[h].call]
     IN  handler' = [handler EXCEPT
           ![h].at = "decide", ![h].status = row.status, ![h].args = row.args,
           ![h].loaded = Len(events)]
  /\ UNCHANGED <<db, priceframe, abandoned, requests>>

\* The request is answered, or its process is gone.
Done(h) == handler' = [handler EXCEPT ![h] = Idle]

Record(h, type) ==
  events' = Append(events,
    [type |-> type, call |-> handler[h].call, loaded |-> handler[h].loaded])

\* Mutant: the status is one that no reader of it knows.
CancelMisspelled(h) ==
  /\ handler[h].at = "decide"
  /\ handler[h].op = "cancel"
  /\ run' = "canceled"
  /\ Record(h, "error")
  /\ Done(h)
  /\ UNCHANGED <<call, audit_log, priceframe, abandoned, requests>>

\* cancel_run.  A run it found ended stays as it is.
Cancel(h) ==
  /\ handler[h].at = "decide"
  /\ handler[h].op = "cancel"
  /\ \/ /\ handler[h].run \notin {"completed", "error", "cancelled"}
        /\ run' = "cancelled"
        /\ Record(h, "error")
     \/ /\ handler[h].run \in {"completed", "error", "cancelled"}
        /\ UNCHANGED <<run, events>>
  /\ Done(h)
  /\ UNCHANGED <<call, audit_log, priceframe, abandoned, requests>>

Reject(h) ==
  /\ handler[h].at = "decide"
  /\ handler[h].op = "reject"
  /\ call' = [call EXCEPT
       ![handler[h].call].status = Column(handler[h].status, "rejected", @)]
  /\ Record(h, "rejected")
  /\ Done(h)
  /\ UNCHANGED <<run, audit_log, priceframe, abandoned, requests>>

\* The args are replaced and the call is proposed again, whatever it was.
Edit(h) ==
  /\ handler[h].at = "decide"
  /\ handler[h].op = "edit"
  /\ LET c == handler[h].call
     IN  call' = [call EXCEPT
           ![c].status = Column(handler[h].status, "proposed", @),
           ![c].args = Column(handler[h].args, "edited", @)]
  /\ Record(h, "edited")
  /\ Done(h)
  /\ UNCHANGED <<run, audit_log, priceframe, abandoned, requests>>

\* Mutant: a call that is already executing is executed again.
ApprovableAlsoExecuting == Undecided \cup {"executing"}

Approvable == Undecided

\* An approve of a call found executing or succeeded is answered with that
\* status, of a rejected one with 409.
ApproveAnswered(h) ==
  /\ handler[h].at = "decide"
  /\ handler[h].op \in {"approve", "approve_edited"}
  /\ handler[h].status \notin Approvable
  /\ Done(h)
  /\ UNCHANGED <<db, priceframe, abandoned, requests>>

\* Mutant: the approval is committed together with the result, not before.
ApproveUncommitted(h) ==
  /\ handler[h].at = "decide"
  /\ handler[h].op \in {"approve", "approve_edited"}
  /\ handler[h].status \in Approvable
  /\ handler' = [handler EXCEPT ![h].at = "execute", ![h].status = "executing"]
  /\ UNCHANGED <<db, priceframe, abandoned, requests>>

\* The first commit of an approval.
Approve(h) ==
  /\ handler[h].at = "decide"
  /\ handler[h].op \in {"approve", "approve_edited"}
  /\ handler[h].status \in Approvable
  /\ LET c == handler[h].call
         args == IF handler[h].op = "approve_edited" THEN "edited" ELSE handler[h].args
     IN  /\ call' = [call EXCEPT
              ![c].status = Column(handler[h].status, "executing", @),
              ![c].args = Column(handler[h].args, args, @)]
         /\ handler' = [handler EXCEPT
              ![h].at = "execute", ![h].status = "executing", ![h].args = args]
  /\ Record(h, "approved")
  /\ UNCHANGED <<run, audit_log, priceframe, abandoned, requests>>

\* tool.execute: the request reaches PriceFRAME, perhaps after retries, and its
\* answer comes back.
Execute(h) ==
  /\ handler[h].at = "execute"
  /\ LET c == handler[h].call
     IN  /\ received' = [received EXCEPT ![c] = Append(@, handler[h].args)]
         /\ handler' = [handler EXCEPT
              ![h].at = IF c \in Reads THEN "finish" ELSE "audit"]
  /\ UNCHANGED <<db, audited, abandoned, requests>>

\* Mutant: a failing audit callback is logged and ignored.
AuditSwallowed(h) ==
  /\ handler[h].at = "audit"
  /\ handler' = [handler EXCEPT ![h].at = "finish"]
  /\ \/ audited' = audited \cup {handler[h].call}
     \/ UNCHANGED audited
  /\ UNCHANGED <<db, received, abandoned, requests>>

\* post_agent_audit_callback, accepted.
Audit(h) ==
  /\ handler[h].at = "audit"
  /\ handler' = [handler EXCEPT ![h].at = "finish"]
  /\ audited' = audited \cup {handler[h].call}
  /\ UNCHANGED <<db, received, abandoned, requests>>

\* Mutant: the second commit has the result and not the call's status.
FinishResultOnly(h) ==
  /\ handler[h].at = "finish"
  /\ audit_log' = audit_log \cup ({handler[h].call} \ Reads)
  /\ Record(h, "completed")
  /\ Done(h)
  /\ UNCHANGED <<run, call, priceframe, abandoned, requests>>

\* The second commit of an approval.  The run is completed if it awaited the
\* decision when this request began.
Finish(h) ==
  /\ handler[h].at = "finish"
  /\ LET c == handler[h].call
     IN  /\ call' = [call EXCEPT ![c].status = "succeeded"]
         /\ audit_log' = audit_log \cup ({c} \ Reads)
  /\ run' = IF handler[h].run = "awaiting_decision" THEN "completed" ELSE run
  /\ Record(h, "completed")
  /\ Done(h)
  /\ UNCHANGED <<priceframe, abandoned, requests>>

Abandon(h) ==
  /\ Done(h)
  /\ abandoned' =
       IF handler[h].at \in {"execute", "audit", "finish"}
       THEN abandoned \cup {handler[h].call} ELSE abandoned

\* An error is raised (PriceFRAME, a permission, an argument, a conflict in the
\* journal), or the process dies: the open transaction rolls back, nothing else
\* is undone.
Fail(h) ==
  /\ handler[h].at # "idle"
  /\ Abandon(h)
  /\ UNCHANGED <<db, priceframe, requests>>

\* The same, after PriceFRAME has got the request or accepted the audit, and
\* before its answer.
FailAfterReceipt(h) ==
  /\ \/ /\ handler[h].at = "execute"
        /\ received' = [received EXCEPT ![handler[h].call] = Append(@, handler[h].args)]
        /\ UNCHANGED audited
     \/ /\ handler[h].at = "audit"
        /\ audited' = audited \cup {handler[h].call}
        /\ UNCHANGED received
  /\ Abandon(h)
  /\ UNCHANGED <<db, requests>>

Step(h) ==
  \/ LoadRun(h) \/ LoadCall(h)
  \/ Cancel(h) \/ Reject(h) \/ Edit(h) \/ ApproveAnswered(h) \/ Approve(h)
  \/ Execute(h) \/ Audit(h) \/ Finish(h)

Next ==
  \E h \in Handlers : Begin(h) \/ Step(h) \/ Fail(h) \/ FailAfterReceipt(h)

\* A handler that has begun is run on to its end, unless it fails.
Fairness == \A h \in Handlers : WF_vars(Step(h))

Spec == Init /\ [][Next]_vars

FairSpec == Spec /\ Fairness

-----------------------------------------------------------------------------
TypeOK ==
  /\ run \in RunStatus
  /\ call \in [Calls -> [status : CallStatus, args : Args]]
  /\ events \in Seq(Event)
  /\ audit_log \subseteq Calls
  /\ received \in [Calls -> Seq(Args)]
  /\ audited \subseteq Calls
  /\ handler \in [Handlers -> Handler]
  /\ abandoned \subseteq Calls
  /\ requests \in Nat

Approvals(c) ==
  {i \in 1..Len(events) : events[i].type = "approved" /\ events[i].call = c}

(* A call never reaches PriceFRAME in more executions than approvals of it have
   been committed: each execution has its own durable approval before it, even
   if the handler dies on the way.                                            *)
ApprovedBeforeExecuted ==
  \A c \in Calls : Len(received[c]) <= Cardinality(Approvals(c))

(* A call that reads as succeeded was received by PriceFRAME, and if it writes,
   it was audited there and in the local audit log: whatever other requests
   decided meanwhile, and whichever step failed.                              *)
SucceededIsAudited ==
  \A c \in Calls : call[c].status = "succeeded" =>
    /\ received[c] # <<>>
    /\ c \notin Reads => c \in audited \cap audit_log

(* A call is approved a second time only by a request that loaded it before the
   first approval was committed, or after an edit that came in between.       *)
ReapprovedOnlyAfterEdit ==
  \A c \in Calls : \A i, j \in Approvals(c) : i < j =>
    \/ events[j].loaded < i
    \/ \E k \in i+1..events[j].loaded :
         events[k].type = "edited" /\ events[k].call = c

Executing(h, c) ==
  handler[h].call = c /\ handler[h].at \in {"execute", "audit", "finish"}

(* A call that reads as executing is being executed, or its execution failed:
   the handler that set the status is the one that will replace it.           *)
ExecutingHasOwner ==
  \A c \in Calls : call[c].status = "executing" =>
    c \in abandoned \/ \E h \in Handlers : Executing(h, c)

(* A call does not stay executing unless an execution of it failed.           *)
ExecutionSettles ==
  \A c \in Calls :
    call[c].status = "executing" ~> call[c].status # "executing" \/ c \in abandoned

(* "Three terminal states: completed, error, cancelled. No transitions out."
   (docs/book/part-04-agent-architecture.md:553)                              *)
TerminalStatesAreFinal ==
  [][(run \in {"completed", "cancelled"}) => UNCHANGED run]_vars

-----------------------------------------------------------------------------
(* The inductive invariant.                                                  *)

\* What a handler past its loads knows about its call.
HandlerInOrder(h) ==
  /\ handler[h].at \in {"load_call", "execute", "audit", "finish"} =>
       handler[h].call \in Calls
  /\ handler[h].at \in {"load_run", "decide"} /\ handler[h].op # "cancel" =>
       handler[h].call \in Calls
  /\ handler[h].at \in {"audit", "finish"} => received[handler[h].call] # <<>>
  /\ handler[h].at = "finish" => handler[h].call \in Reads \cup audited

\* c has been edited by an event of lo..hi.
EditedIn(c, lo, hi) ==
  \E k \in lo..hi : events[k].type = "edited" /\ events[k].call = c

\* An approved call is not undecided again before an edit.
DecidedUntilEdited(c) ==
  \A i \in Approvals(c) :
    EditedIn(c, i + 1, Len(events)) \/ call[c].status \notin Approvable

\* A handler that has loaded it after the approval has seen that.
SawDecided(h) ==
  /\ handler[h].loaded <= Len(events)
  /\ handler[h].at = "decide" /\ handler[h].op # "cancel" =>
       \A i \in Approvals(handler[h].call) :
         \/ handler[h].loaded < i
         \/ EditedIn(handler[h].call, i + 1, handler[h].loaded)
         \/ handler[h].status \notin Approvable

\* What a handler had loaded is older than what it records.
LoadedBefore == \A j \in 1..Len(events) : events[j].loaded < j

IInv ==
  /\ TypeOK
  /\ LoadedBefore
  /\ \A h \in Handlers : HandlerInOrder(h) /\ SawDecided(h)
  /\ \A c \in Calls : DecidedUntilEdited(c)
  /\ SucceededIsAudited
  /\ ReapprovedOnlyAfterEdit
  /\ ExecutingHasOwner

\* Each execution under way has an approval of its own, which nobody else used.
ToBeExecuted(c) == {h \in Handlers : handler[h].at = "execute" /\ handler[h].call = c}

ApprovalsLeft(c) ==
  /\ IsFiniteSet(ToBeExecuted(c))
  /\ Len(received[c]) + Cardinality(ToBeExecuted(c)) <= Cardinality(Approvals(c))
=============================================================================
