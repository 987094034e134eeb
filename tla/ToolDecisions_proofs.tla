------------------------ MODULE ToolDecisions_proofs ------------------------
(***************************************************************************)
(* Proofs about ToolDecisions, for any calls, handlers and requests: that   *)
(* IInv is an inductive invariant, and with it that what reads as succeeded *)
(* was executed and audited, that a call is approved again only after an    *)
(* edit, and that what reads as executing is being executed or has failed.  *)
(***************************************************************************)
EXTENDS ToolDecisions, FiniteSetTheorems, TLAPS

\* The initial state.
LEMMA InitIInv == Init => IInv
<1> SUFFICES ASSUME Init PROVE IInv
  OBVIOUS
<1>1. TypeOK
  BY DecisionsAssumption DEF Init, TypeOK, Idle, Handler, Places, RunStatus,
    CallStatus, Undecided, Args, Event, Decisions
<1>2. \A h \in Handlers : HandlerInOrder(h)
  BY DEF Init, HandlerInOrder, Idle
<1>3. Len(events) = 0 /\ \A c : Approvals(c) = {}
  BY DEF Init, Approvals
<1>4. /\ \A c \in Calls : DecidedUntilEdited(c)
      /\ \A h \in Handlers : SawDecided(h)
  BY <1>3 DEF Init, DecidedUntilEdited, SawDecided, Idle
<1>5. SucceededIsAudited
  BY DEF Init, SucceededIsAudited
<1>6. ReapprovedOnlyAfterEdit
  BY <1>3 DEF ReapprovedOnlyAfterEdit
<1>7. ExecutingHasOwner
  BY DEF Init, ExecutingHasOwner
<1>8. LoadedBefore
  BY <1>3 DEF LoadedBefore
<1> QED
  BY <1>1, <1>2, <1>4, <1>5, <1>6, <1>7, <1>8 DEF IInv

-----------------------------------------------------------------------------
\* Type correctness is preserved.

\* What an event recorded by h is.
LEMMA RecordIsEvent ==
  ASSUME TypeOK, NEW h \in Handlers,
         NEW type \in {"rejected", "edited", "approved", "completed", "error"},
         Record(h, type)
  PROVE  events' \in Seq(Event)
<1> DEFINE e == [type |-> type, call |-> handler[h].call, loaded |-> handler[h].loaded]
<1>1. handler[h] \in Handler
  BY DEF TypeOK
<1>2. e \in Event
  BY <1>1 DEF Handler, Event
<1>3. events' = Append(events, e)
  BY DEF Record
<1> QED
  BY <1>2, <1>3 DEF TypeOK

LEMMA IdleIsHandler == Idle \in Handler
  BY DEF Idle, Handler, Places, RunStatus, CallStatus, Undecided, Args, Decisions

LEMMA DoneKeepsType ==
  ASSUME TypeOK, NEW h \in Handlers, Done(h)
  PROVE  handler' \in [Handlers -> Handler]
  BY IdleIsHandler DEF TypeOK, Done

LEMMA TypeNext ==
  TypeOK /\ (\A h \in Handlers : HandlerInOrder(h)) /\ [Next]_vars => TypeOK'
<1> SUFFICES ASSUME TypeOK, \A h \in Handlers : HandlerInOrder(h), [Next]_vars
             PROVE  TypeOK'
  OBVIOUS
<1> USE DEF db, priceframe
<1>1. CASE UNCHANGED vars
  BY <1>1 DEF TypeOK, vars
<1>2. ASSUME NEW h \in Handlers, Begin(h) PROVE TypeOK'
  <2>1. handler' \in [Handlers -> Handler]
    <3>1. handler[h] \in Handler
      BY DEF TypeOK
    <3>2. CASE handler' = [handler EXCEPT ![h].at = "load_run", ![h].op = "cancel"]
      BY <3>1, <3>2 DEF TypeOK, Handler, Places
    <3>3. ASSUME NEW op \in Decisions, NEW c \in Calls,
                 handler' = [handler EXCEPT
                   ![h].at = "load_run", ![h].op = op, ![h].call = c]
          PROVE  handler' \in [Handlers -> Handler]
      BY <3>1, <3>3 DEF TypeOK, Handler, Places
    <3> QED
      BY <1>2, <3>2, <3>3 DEF Begin
  <2>2. requests' \in Nat
    <3>1. requests' = requests + 1
      BY <1>2 DEF Begin
    <3> QED
      BY <3>1 DEF TypeOK
  <2>3. UNCHANGED <<run, call, events, audit_log, received, audited, abandoned>>
    BY <1>2 DEF Begin
  <2> QED
    BY <2>1, <2>2, <2>3 DEF TypeOK
<1>3. ASSUME NEW h \in Handlers, LoadRun(h) PROVE TypeOK'
  <2> DEFINE at == IF handler[h].op = "cancel" THEN "decide" ELSE "load_call"
  <2>1. at \in Places /\ run \in RunStatus
    BY DEF Places, TypeOK
  <2>2. handler' = [handler EXCEPT ![h].run = run, ![h].at = at]
    BY <1>3 DEF LoadRun
  <2>3. handler' \in [Handlers -> Handler]
    <3>1. handler \in [Handlers -> Handler]
      BY DEF TypeOK
    <3> HIDE DEF at
    <3>2. [handler[h] EXCEPT !.run = run, !.at = at] \in Handler
      BY <2>1, <3>1 DEF Handler
    <3>3. handler' = [handler EXCEPT ![h] = [@ EXCEPT !.run = run, !.at = at]]
      BY <2>2, <3>1
    <3> QED
      BY <3>1, <3>2, <3>3
  <2> QED
    BY <1>3, <2>3 DEF LoadRun, TypeOK
<1>4. ASSUME NEW h \in Handlers, LoadCall(h) PROVE TypeOK'
  <2>1. handler[h].call \in Calls
    BY <1>4 DEF LoadCall, HandlerInOrder
  <2> DEFINE status == call[handler[h].call].status
             args == call[handler[h].call].args
             loaded == Len(events)
  <2>2. status \in CallStatus /\ args \in Args /\ loaded \in Nat
    BY <2>1 DEF TypeOK
  <2>3. handler' \in [Handlers -> Handler]
    <3>1. handler' = [handler EXCEPT ![h].at = "decide", ![h].status = status,
                                     ![h].args = args, ![h].loaded = loaded]
      BY <1>4 DEF LoadCall
    <3>2. handler[h] \in Handler /\ "decide" \in Places
      BY DEF TypeOK, Places
    <3> HIDE DEF status, args, loaded
    <3>3. [handler[h] EXCEPT !.at = "decide", !.status = status,
                             !.args = args, !.loaded = loaded] \in Handler
      BY <2>2, <3>2 DEF Handler
    <3> QED
      BY <3>1, <3>3 DEF TypeOK
  <2> QED
    BY <1>4, <2>3 DEF LoadCall, TypeOK
<1>5. ASSUME NEW h \in Handlers, Cancel(h) PROVE TypeOK'
  <2>1. events' \in Seq(Event)
    BY <1>5, RecordIsEvent DEF Cancel, TypeOK
  <2>2. handler' \in [Handlers -> Handler]
    BY <1>5, DoneKeepsType DEF Cancel
  <2> QED
    BY <1>5, <2>1, <2>2 DEF Cancel, TypeOK, RunStatus
<1>6. ASSUME NEW h \in Handlers, Reject(h) PROVE TypeOK'
  <2>1. events' \in Seq(Event)
    BY <1>6, RecordIsEvent DEF Reject
  <2>2. handler' \in [Handlers -> Handler]
    BY <1>6, DoneKeepsType DEF Reject
  <2>3. call' \in [Calls -> [status : CallStatus, args : Args]]
    BY <1>6 DEF Reject, TypeOK, Column, CallStatus
  <2> QED
    BY <1>6, <2>1, <2>2, <2>3 DEF Reject, TypeOK
<1>7. ASSUME NEW h \in Handlers, Edit(h) PROVE TypeOK'
  <2>1. events' \in Seq(Event)
    BY <1>7, RecordIsEvent DEF Edit
  <2>2. handler' \in [Handlers -> Handler]
    BY <1>7, DoneKeepsType DEF Edit
  <2>3. call' \in [Calls -> [status : CallStatus, args : Args]]
    <3> DEFINE c == handler[h].call
               status == Column(handler[h].status, "proposed", call[c].status)
               args == Column(handler[h].args, "edited", call[c].args)
    <3>1. call' = [call EXCEPT ![c].status = status, ![c].args = args]
      BY <1>7 DEF Edit
    <3>2. ASSUME c \in Calls PROVE status \in CallStatus /\ args \in Args
      BY <3>2 DEF TypeOK, Column, CallStatus, Undecided, Args
    <3> HIDE DEF c, status, args
    <3> QED
      BY <3>1, <3>2 DEF TypeOK
  <2> QED
    BY <1>7, <2>1, <2>2, <2>3 DEF Edit, TypeOK
<1>8. ASSUME NEW h \in Handlers, ApproveAnswered(h) PROVE TypeOK'
  BY <1>8, DoneKeepsType DEF ApproveAnswered, TypeOK
<1>9. ASSUME NEW h \in Handlers, Approve(h) PROVE TypeOK'
  <2>1. events' \in Seq(Event)
    BY <1>9, RecordIsEvent DEF Approve
  <2> DEFINE args == IF handler[h].op = "approve_edited" THEN "edited" ELSE handler[h].args
  <2>2. handler[h] \in Handler /\ args \in Args
    BY DEF TypeOK, Handler, Args
  <2>3. handler' \in [Handlers -> Handler]
    <3>1. handler' = [handler EXCEPT
            ![h].at = "execute", ![h].status = "executing", ![h].args = args]
      BY <1>9 DEF Approve
    <3> HIDE DEF args
    <3> QED
      BY <2>2, <3>1 DEF TypeOK, Handler, Places, CallStatus
  <2>4. call' \in [Calls -> [status : CallStatus, args : Args]]
    <3> DEFINE c == handler[h].call
               status == Column(handler[h].status, "executing", call[c].status)
               column == Column(handler[h].args, args, call[c].args)
    <3>1. call' = [call EXCEPT ![c].status = status, ![c].args = column]
      BY <1>9 DEF Approve
    <3>2. ASSUME c \in Calls PROVE status \in CallStatus /\ column \in Args
      BY <2>2, <3>2 DEF TypeOK, Column, CallStatus
    <3> HIDE DEF c, status, column, args
    <3> QED
      BY <3>1, <3>2 DEF TypeOK
  <2> QED
    BY <1>9, <2>1, <2>3, <2>4 DEF Approve, TypeOK
<1>10. ASSUME NEW h \in Handlers, Execute(h) PROVE TypeOK'
  <2>1. handler' \in [Handlers -> Handler]
    <3> DEFINE at == IF handler[h].call \in Reads THEN "finish" ELSE "audit"
    <3>1. at \in Places
      BY DEF Places
    <3>2. handler' = [handler EXCEPT ![h].at = at]
      BY <1>10 DEF Execute
    <3> HIDE DEF at
    <3> QED
      BY <3>1, <3>2 DEF TypeOK, Handler
  <2>2. received' \in [Calls -> Seq(Args)]
    BY <1>10 DEF Execute, TypeOK, HandlerInOrder, Handler
  <2> QED
    BY <1>10, <2>1, <2>2 DEF Execute, TypeOK
<1>11. ASSUME NEW h \in Handlers, Audit(h) PROVE TypeOK'
  <2>1. handler[h].call \in Calls
    BY <1>11 DEF Audit, HandlerInOrder
  <2>2. handler' \in [Handlers -> Handler]
    <3>1. handler \in [Handlers -> Handler] /\ "finish" \in Places
      BY DEF TypeOK, Places
    <3>2. [handler[h] EXCEPT !.at = "finish"] \in Handler
      BY <3>1 DEF Handler
    <3>3. handler' = [handler EXCEPT ![h] = [@ EXCEPT !.at = "finish"]]
      BY <1>11, <3>1 DEF Audit
    <3> QED
      BY <3>1, <3>2, <3>3
  <2> QED
    BY <1>11, <2>1, <2>2 DEF Audit, TypeOK
<1>12. ASSUME NEW h \in Handlers, Finish(h) PROVE TypeOK'
  <2>1. handler[h].call \in Calls
    BY <1>12 DEF Finish, HandlerInOrder
  <2>2. events' \in Seq(Event)
    BY <1>12, RecordIsEvent DEF Finish
  <2>3. handler' \in [Handlers -> Handler]
    BY <1>12, DoneKeepsType DEF Finish
  <2>4. call' \in [Calls -> [status : CallStatus, args : Args]]
    BY <1>12, <2>1 DEF Finish, TypeOK, CallStatus
  <2>5. run' \in RunStatus
    BY <1>12 DEF Finish, TypeOK, RunStatus
  <2> QED
    BY <1>12, <2>1, <2>2, <2>3, <2>4, <2>5 DEF Finish, TypeOK
<1>13. ASSUME NEW h \in Handlers, Fail(h) PROVE TypeOK'
  BY <1>13, DoneKeepsType DEF Fail, Abandon, TypeOK, HandlerInOrder
<1>14. ASSUME NEW h \in Handlers, FailAfterReceipt(h) PROVE TypeOK'
  <2>1. handler[h].call \in Calls /\ handler[h].args \in Args
    BY <1>14 DEF FailAfterReceipt, HandlerInOrder, TypeOK, Handler
  <2>2. received' \in [Calls -> Seq(Args)]
    <3>1. CASE UNCHANGED received
      BY <3>1 DEF TypeOK
    <3>2. CASE received' = [received EXCEPT
                 ![handler[h].call] = Append(@, handler[h].args)]
      BY <3>2, <2>1 DEF TypeOK
    <3> QED
      BY <1>14, <3>1, <3>2 DEF FailAfterReceipt
  <2>3. handler' \in [Handlers -> Handler]
    BY <1>14, DoneKeepsType DEF FailAfterReceipt, Abandon
  <2> QED
    BY <1>14, <2>1, <2>2, <2>3 DEF FailAfterReceipt, Abandon, TypeOK
<1> QED
  BY <1>1, <1>2, <1>3, <1>4, <1>5, <1>6, <1>7, <1>8, <1>9, <1>10, <1>11, <1>12,
     <1>13, <1>14 DEF Next, Step

-----------------------------------------------------------------------------
\* What a step of one handler leaves alone.

Act(h) == Begin(h) \/ Step(h) \/ Fail(h) \/ FailAfterReceipt(h)

LEMMA AppendNotEmpty ==
  ASSUME NEW S, NEW s \in Seq(S), NEW e \in S
  PROVE  Append(s, e) # <<>>
<1>1. Len(Append(s, e)) = Len(s) + 1
  OBVIOUS
<1>2. Len(s) \in Nat /\ Len(<<>>) = 0
  OBVIOUS
<1> QED
  BY <1>1, <1>2

LEMMA Frame ==
  ASSUME TypeOK, NEW h \in Handlers, HandlerInOrder(h), Act(h)
  PROVE  /\ \A g \in Handlers \ {h} : handler'[g] = handler[g]
         /\ \A c \in Calls : received[c] # <<>> => received'[c] # <<>>
         /\ audited \subseteq audited'
         /\ audit_log \subseteq audit_log'
         /\ abandoned \subseteq abandoned'
<1> USE DEF db, priceframe
<1>1. \A g \in Handlers \ {h} : handler'[g] = handler[g]
  BY DEF TypeOK, Act, Step, Begin, LoadRun, LoadCall, Cancel, Reject, Edit,
    ApproveAnswered, Approve, Execute, Audit, Finish, Fail, FailAfterReceipt,
    Abandon, Done
<1>2. \A c \in Calls : received[c] # <<>> => received'[c] # <<>>
  <2>1. CASE Execute(h) \/ FailAfterReceipt(h)
    <3>1. \/ UNCHANGED received
          \/ received' = [received EXCEPT
                ![handler[h].call] = Append(@, handler[h].args)]
      BY <2>1 DEF Execute, FailAfterReceipt
    <3>2. handler[h].call \in Calls /\ handler[h].args \in Args
      BY <2>1 DEF Execute, FailAfterReceipt, HandlerInOrder, TypeOK, Handler
    <3>3. Append(received[handler[h].call], handler[h].args) # <<>>
      BY <3>2, AppendNotEmpty DEF TypeOK
    <3> QED
      BY <3>1, <3>2, <3>3 DEF TypeOK
  <2>2. CASE ~(Execute(h) \/ FailAfterReceipt(h))
    BY <2>2 DEF Act, Step, Begin, LoadRun, LoadCall, Cancel, Reject, Edit,
      ApproveAnswered, Approve, Audit, Finish, Fail
  <2> QED
    BY <2>1, <2>2
<1>3. audited \subseteq audited' /\ audit_log \subseteq audit_log'
  BY DEF Act, Step, Begin, LoadRun, LoadCall, Cancel, Reject, Edit,
    ApproveAnswered, Approve, Execute, Audit, Finish, Fail, FailAfterReceipt
<1>4. abandoned \subseteq abandoned'
  BY DEF Act, Step, Begin, LoadRun, LoadCall, Cancel, Reject, Edit,
    ApproveAnswered, Approve, Execute, Audit, Finish, Fail, FailAfterReceipt,
    Abandon
<1> QED
  BY <1>1, <1>2, <1>3, <1>4

\* A handler that is done has forgotten its request.
LEMMA DoneIsIdle ==
  ASSUME TypeOK, NEW h \in Handlers, Done(h)
  PROVE  handler'[h] = Idle
  BY DEF TypeOK, Done

LEMMA LoadCallStep ==
  ASSUME TypeOK, NEW h \in Handlers, LoadCall(h)
  PROVE  /\ handler'[h].at = "decide"
         /\ handler'[h].op = handler[h].op
         /\ handler'[h].call = handler[h].call
         /\ handler'[h].loaded = Len(events)
         /\ handler'[h].status = call[handler[h].call].status
<1> DEFINE status == call[handler[h].call].status
           args == call[handler[h].call].args
           loaded == Len(events)
<1>1. handler' = [handler EXCEPT ![h].at = "decide", ![h].status = status,
                                 ![h].args = args, ![h].loaded = loaded]
  BY DEF LoadCall
<1>2. handler[h] \in Handler /\ handler \in [Handlers -> Handler]
  BY DEF TypeOK
<1>3. /\ handler'[h].at = "decide"
      /\ handler'[h].op = handler[h].op
      /\ handler'[h].call = handler[h].call
      /\ handler'[h].loaded = loaded
      /\ handler'[h].status = status
  <2> HIDE DEF status, args, loaded
  <2> QED
    BY <1>1, <1>2 DEF Handler
<1> QED
  BY <1>3

LEMMA ApproveStep ==
  ASSUME TypeOK, NEW h \in Handlers, Approve(h)
  PROVE  /\ handler'[h].at = "execute"
         /\ handler'[h].call = handler[h].call
         /\ handler'[h].loaded = handler[h].loaded
<1> DEFINE value == IF handler[h].op = "approve_edited" THEN "edited" ELSE handler[h].args
<1>1. handler' = [handler EXCEPT
        ![h].at = "execute", ![h].status = "executing", ![h].args = value]
  BY DEF Approve
<1>2. handler[h] \in Handler /\ handler \in [Handlers -> Handler]
  BY DEF TypeOK
<1>3. /\ handler'[h].at = "execute"
      /\ handler'[h].call = handler[h].call
      /\ handler'[h].loaded = handler[h].loaded
  <2> HIDE DEF value
  <2> QED
    BY <1>1, <1>2 DEF Handler
<1> QED
  BY <1>3

LEMMA ExecuteStep ==
  ASSUME TypeOK, NEW h \in Handlers, Execute(h)
  PROVE  /\ handler'[h].at = 
              IF handler[h].call \in Reads THEN "finish" ELSE "audit"
         /\ handler'[h].call = handler[h].call
         /\ handler'[h].loaded = handler[h].loaded
<1> DEFINE at == IF handler[h].call \in Reads THEN "finish" ELSE "audit"
<1>1. handler' = [handler EXCEPT ![h].at = at]
  BY DEF Execute
<1>2. handler[h] \in Handler /\ handler \in [Handlers -> Handler]
  BY DEF TypeOK
<1>3. /\ handler'[h].at = at
      /\ handler'[h].call = handler[h].call
      /\ handler'[h].loaded = handler[h].loaded
  <2> HIDE DEF at
  <2> QED
    BY <1>1, <1>2 DEF Handler
<1> QED
  BY <1>3

LEMMA AuditStep ==
  ASSUME TypeOK, NEW h \in Handlers, Audit(h)
  PROVE  /\ handler'[h].at = "finish"
         /\ handler'[h].call = handler[h].call
         /\ handler'[h].loaded = handler[h].loaded
<1>1. handler' = [handler EXCEPT ![h].at = "finish"]
  BY DEF Audit
<1>2. handler[h] \in Handler /\ handler \in [Handlers -> Handler]
  BY DEF TypeOK
<1>3. /\ handler'[h].at = "finish"
      /\ handler'[h].call = handler[h].call
      /\ handler'[h].loaded = handler[h].loaded
  BY <1>1, <1>2 DEF Handler
<1> QED
  BY <1>3

\* What a step of a handler makes of it.
LEMMA HandlerStep ==
  ASSUME TypeOK, NEW h \in Handlers, HandlerInOrder(h), Act(h)
  PROVE  \/ handler'[h] = Idle
         \/ /\ Begin(h)
            /\ handler'[h].at = "load_run"
            /\ handler'[h].op = "cancel" \/ handler'[h].call \in Calls
            /\ handler'[h].loaded = handler[h].loaded
         \/ /\ LoadRun(h)
            /\ handler'[h].at =
                 IF handler[h].op = "cancel" THEN "decide" ELSE "load_call"
            /\ handler'[h].op = handler[h].op
            /\ handler'[h].call = handler[h].call
            /\ handler'[h].loaded = handler[h].loaded
         \/ /\ LoadCall(h)
            /\ handler'[h].at = "decide"
            /\ handler'[h].op = handler[h].op
            /\ handler'[h].call = handler[h].call
            /\ handler'[h].loaded = Len(events)
            /\ handler'[h].status = call[handler[h].call].status
         \/ /\ Approve(h)
            /\ handler'[h].at = "execute"
            /\ handler'[h].call = handler[h].call
            /\ handler'[h].loaded = handler[h].loaded
         \/ /\ Execute(h)
            /\ handler'[h].at =
                 IF handler[h].call \in Reads THEN "finish" ELSE "audit"
            /\ handler'[h].call = handler[h].call
            /\ handler'[h].loaded = handler[h].loaded
         \/ /\ Audit(h)
            /\ handler'[h].at = "finish"
            /\ handler'[h].call = handler[h].call
            /\ handler'[h].loaded = handler[h].loaded
<1>1. handler[h] \in Handler /\ handler \in [Handlers -> Handler]
  BY DEF TypeOK
<1>2. CASE Begin(h)
  <2>1. \/ handler' = [handler EXCEPT ![h].at = "load_run", ![h].op = "cancel"]
        \/ \E op \in Decisions, c \in Calls :
             handler' = [handler EXCEPT
               ![h].at = "load_run", ![h].op = op, ![h].call = c]
    BY <1>2 DEF Begin
  <2>2. /\ handler'[h].at = "load_run"
        /\ handler'[h].op = "cancel" \/ handler'[h].call \in Calls
        /\ handler'[h].loaded = handler[h].loaded
    <3>1. CASE handler' =
                 [handler EXCEPT ![h].at = "load_run", ![h].op = "cancel"]
      BY <1>1, <3>1 DEF Handler
    <3>2. ASSUME NEW op \in Decisions, NEW c \in Calls,
                 handler' = [handler EXCEPT
                   ![h].at = "load_run", ![h].op = op, ![h].call = c]
          PROVE  /\ handler'[h].at = "load_run"
                 /\ handler'[h].call \in Calls
                 /\ handler'[h].loaded = handler[h].loaded
      BY <1>1, <3>2 DEF Handler
    <3> QED
      BY <2>1, <3>1, <3>2
  <2> QED
    BY <1>2, <2>2
<1>3. CASE LoadRun(h)
  <2> DEFINE at == IF handler[h].op = "cancel" THEN "decide" ELSE "load_call"
  <2>1. handler' = [handler EXCEPT ![h].run = run, ![h].at = at]
    BY <1>3 DEF LoadRun
  <2>2. /\ handler'[h].at = at
        /\ handler'[h].op = handler[h].op
        /\ handler'[h].call = handler[h].call
        /\ handler'[h].loaded = handler[h].loaded
    <3> HIDE DEF at
    <3> QED
      BY <1>1, <2>1 DEF Handler
  <2> QED
    BY <1>3, <2>2
<1>4. CASE LoadCall(h)
  BY <1>4, LoadCallStep
<1>5. CASE Approve(h)
  BY <1>5, ApproveStep
<1>6. CASE Execute(h)
  BY <1>6, ExecuteStep
<1>7. CASE Audit(h)
  BY <1>7, AuditStep
<1>8. CASE Done(h)
  BY <1>8, DoneIsIdle
<1>9. \/ Begin(h) \/ LoadRun(h) \/ LoadCall(h) \/ Approve(h)
      \/ Execute(h) \/ Audit(h) \/ Done(h)
  BY DEF Act, Step, Cancel, Reject, Edit, ApproveAnswered, Finish, Fail,
         FailAfterReceipt, Abandon
<1> QED
  BY <1>2, <1>3, <1>4, <1>5, <1>6, <1>7, <1>8, <1>9

LEMMA InOrderNext ==
  ASSUME TypeOK, \A g \in Handlers : HandlerInOrder(g),
         NEW h \in Handlers, Act(h)
  PROVE  \A g \in Handlers : HandlerInOrder(g)'
<1>1. ASSUME NEW g \in Handlers \ {h} PROVE HandlerInOrder(g)'
  <2>1. HandlerInOrder(g) /\ handler'[g] = handler[g]
    BY Frame
  <2>2. /\ \A c \in Calls : received[c] # <<>> => received'[c] # <<>>
        /\ audited \subseteq audited'
    BY Frame
  <2>3. handler[g].at \in {"audit", "finish"} => handler[g].call \in Calls
    BY <2>1 DEF HandlerInOrder
  <2> QED
    BY <2>1, <2>2, <2>3 DEF HandlerInOrder
<1>2. HandlerInOrder(h)'
  <2>1. HandlerInOrder(h)
    OBVIOUS
  <2>2. ASSUME Execute(h) PROVE handler[h].call \in Calls /\ received'[handler[h].call] # <<>>
    <3>1. handler[h].call \in Calls /\ handler[h].args \in Args
      BY <2>1, <2>2 DEF Execute, HandlerInOrder, TypeOK, Handler
    <3>2. received'[handler[h].call] = Append(received[handler[h].call], handler[h].args)
      BY <2>2, <3>1 DEF Execute, TypeOK
    <3> QED
      BY <3>1, <3>2, AppendNotEmpty DEF TypeOK
  <2>3. ASSUME Audit(h)
        PROVE  /\ handler[h].call \in Calls
               /\ handler[h].call \in audited'
               /\ received'[handler[h].call] # <<>>
    BY <2>1, <2>3 DEF Audit, HandlerInOrder
  <2>4. ASSUME LoadRun(h) \/ LoadCall(h) \/ Approve(h)
        PROVE  handler[h].op = "cancel" \/ handler[h].call \in Calls
    BY <2>1, <2>4 DEF HandlerInOrder, LoadRun, LoadCall, Approve
  <2>5. ASSUME LoadCall(h) \/ Approve(h)
        PROVE  handler[h].call \in Calls
    BY <2>1, <2>5 DEF HandlerInOrder, LoadCall, Approve
  <2> QED
    BY <2>1, <2>2, <2>3, <2>4, <2>5, HandlerStep DEF HandlerInOrder, Idle
<1> QED
  BY <1>1, <1>2

-----------------------------------------------------------------------------
\* What a step does to the journal and to the status of a call.

EventTypes == {"rejected", "edited", "approved", "completed", "error"}

LEMMA RecordAppends ==
  ASSUME TypeOK, NEW h \in Handlers, NEW type \in EventTypes, Record(h, type)
  PROVE  /\ Len(events') = Len(events) + 1
         /\ \A i \in 1..Len(events) : events'[i] = events[i]
         /\ events'[Len(events) + 1] =
              [type |-> type, call |-> handler[h].call, loaded |-> handler[h].loaded]
<1> DEFINE e == [type |-> type, call |-> handler[h].call, loaded |-> handler[h].loaded]
<1>1. events' = Append(events, e)
  BY DEF Record
<1>2. events \in Seq(Event)
  BY DEF TypeOK
<1>3. e \in Event
  BY DEF TypeOK, Handler, Event, EventTypes
<1> HIDE DEF e
<1>4. /\ Len(events') = Len(events) + 1
      /\ \A i \in 1..Len(events) : events'[i] = events[i]
      /\ events'[Len(events) + 1] = e
  BY <1>1, <1>2, <1>3
<1> QED
  BY <1>4 DEF e

\* A step leaves the journal alone or appends one event of its handler.
LEMMA EventsStep ==
  ASSUME TypeOK, NEW h \in Handlers, Act(h)
  PROVE  \/ events' = events
         \/ \E type \in EventTypes :
              /\ Record(h, type)
              /\ type = "approved" => Approve(h)
<1> USE DEF EventTypes
<1>1. \/ events' = events
      \/ Record(h, "error") \/ Record(h, "rejected") \/ Record(h, "edited")
      \/ Record(h, "approved") /\ Approve(h)
      \/ Record(h, "completed")
  BY DEF Act, Step, Begin, LoadRun, LoadCall, Cancel, Reject, Edit,
    ApproveAnswered, Approve, Execute, Audit, Finish, Fail, FailAfterReceipt,
    db
<1> QED
  BY <1>1

LEMMA JournalGrows ==
  ASSUME TypeOK, NEW h \in Handlers, Act(h)
  PROVE  /\ Len(events) \in Nat /\ Len(events') \in Nat
         /\ Len(events) <= Len(events')
         /\ \A i \in 1..Len(events) : events'[i] = events[i]
         /\ \A i \in 1..Len(events') : i \notin 1..Len(events) =>
              /\ i = Len(events) + 1
              /\ events'[i].call = handler[h].call
              /\ events'[i].loaded = handler[h].loaded
              /\ events'[i].type = "approved" => Approve(h)
<1>1. Len(events) \in Nat
  BY DEF TypeOK
<1>2. CASE events' = events
  BY <1>1, <1>2
<1>3. ASSUME NEW type \in EventTypes, Record(h, type), type = "approved" => Approve(h)
      PROVE  /\ Len(events) \in Nat /\ Len(events') \in Nat
             /\ Len(events) <= Len(events')
             /\ \A i \in 1..Len(events) : events'[i] = events[i]
             /\ \A i \in 1..Len(events') : i \notin 1..Len(events) =>
                  /\ i = Len(events) + 1
                  /\ events'[i].call = handler[h].call
                  /\ events'[i].loaded = handler[h].loaded
                  /\ events'[i].type = "approved" => Approve(h)
  <2>1. /\ Len(events') = Len(events) + 1
        /\ \A i \in 1..Len(events) : events'[i] = events[i]
        /\ events'[Len(events) + 1] =
             [type |-> type, call |-> handler[h].call, loaded |-> handler[h].loaded]
    BY <1>3, RecordAppends
  <2>2. \A i \in 1..Len(events') : i \notin 1..Len(events) => i = Len(events) + 1
    BY <1>1, <2>1
  <2> QED
    BY <1>1, <1>3, <2>1, <2>2
<1> QED
  BY <1>2, <1>3, EventsStep

\* The approvals after a step are the ones before it, and perhaps its own.
LEMMA ApprovalsStep ==
  ASSUME TypeOK, NEW h \in Handlers, Act(h), NEW c
  PROVE  /\ \A i \in Approvals(c)' :
              \/ i \in Approvals(c)
              \/ /\ i = Len(events) + 1
                 /\ c = handler[h].call
                 /\ events'[i].loaded = handler[h].loaded
                 /\ Approve(h)
         /\ \A i \in Approvals(c) : i \in 1..Len(events)
  BY JournalGrows DEF Approvals

LEMMA CallStep ==
  ASSUME TypeOK, NEW h \in Handlers, HandlerInOrder(h), Act(h), NEW c \in Calls
  PROVE  \/ call'[c].status = call[c].status
         \/ /\ handler[h].call = c
            /\ \/ Reject(h) /\ call'[c].status = "rejected"
               \/ Edit(h) /\ call'[c].status = "proposed"
               \/ Approve(h) /\ call'[c].status = "executing"
               \/ Finish(h) /\ call'[c].status = "succeeded"
<1>1. call \in [Calls -> [status : CallStatus, args : Args]]
  BY DEF TypeOK
<1>2. CASE Reject(h)
  BY <1>1, <1>2 DEF Reject, Column
<1>3. ASSUME NEW status, NEW args,
             call' = [call EXCEPT ![handler[h].call].status = status,
                                  ![handler[h].call].args = args]
      PROVE  /\ handler[h].call = c => call'[c].status = status
             /\ handler[h].call # c => call'[c] = call[c]
  BY <1>1, <1>3
<1>4. CASE Edit(h)
  <2> DEFINE status == Column(handler[h].status, "proposed", call[handler[h].call].status)
             args == Column(handler[h].args, "edited", call[handler[h].call].args)
  <2>1. call' = [call EXCEPT ![handler[h].call].status = status,
                             ![handler[h].call].args = args]
    BY <1>4 DEF Edit
  <2>2. status \in {"proposed", call[handler[h].call].status}
    BY DEF Column
  <2> HIDE DEF status, args
  <2> QED
    BY <1>3, <1>4, <2>1, <2>2
<1>5. CASE Approve(h)
  <2> DEFINE value == IF handler[h].op = "approve_edited" THEN "edited" ELSE handler[h].args
             status == Column(handler[h].status, "executing", call[handler[h].call].status)
             args == Column(handler[h].args, value, call[handler[h].call].args)
  <2>1. call' = [call EXCEPT ![handler[h].call].status = status,
                             ![handler[h].call].args = args]
    BY <1>5 DEF Approve
  <2>2. status \in {"executing", call[handler[h].call].status}
    BY DEF Column
  <2> HIDE DEF status, args
  <2> QED
    BY <1>3, <1>5, <2>1, <2>2
<1>6. CASE Finish(h)
  BY <1>1, <1>6 DEF Finish
<1>7. \/ Reject(h) \/ Edit(h) \/ Approve(h) \/ Finish(h)
      \/ call' = call
  BY DEF Act, Step, Begin, LoadRun, LoadCall, Cancel, ApproveAnswered, Execute,
    Audit, Fail, FailAfterReceipt, db
<1> QED
  BY <1>2, <1>4, <1>5, <1>6, <1>7

\* An approval makes its call executing: the status differs from what was loaded.
LEMMA ApproveExecutes ==
  ASSUME TypeOK, NEW h \in Handlers, HandlerInOrder(h), Approve(h)
  PROVE  /\ handler[h].call \in Calls
         /\ call'[handler[h].call].status = "executing"
<1>1. handler[h].call \in Calls
  BY DEF Approve, HandlerInOrder
<1> DEFINE c == handler[h].call
           value == IF handler[h].op = "approve_edited" THEN "edited" ELSE handler[h].args
           args == Column(handler[h].args, value, call[c].args)
<1>2. Column(handler[h].status, "executing", call[c].status) = "executing"
  BY DEF Approve, Approvable, Undecided, Column
<1>3. call' = [call EXCEPT
        ![c].status = Column(handler[h].status, "executing", call[c].status),
        ![c].args = args]
  BY DEF Approve
<1> HIDE DEF args, c
<1>4. call' = [call EXCEPT ![c].status = "executing", ![c].args = args]
  BY <1>2, <1>3
<1>5. c \in Calls => call'[c].status = "executing"
  BY <1>4 DEF TypeOK
<1> QED
  BY <1>1, <1>5 DEF c

-----------------------------------------------------------------------------
\* The other parts of the invariant.

LEMMA LoadedNext ==
  ASSUME TypeOK, LoadedBefore, NEW h \in Handlers, SawDecided(h), Act(h)
  PROVE  LoadedBefore'
<1>1. ASSUME NEW j \in 1..Len(events') PROVE events'[j].loaded < j
  <2>1. CASE j \in 1..Len(events)
    BY <2>1, JournalGrows DEF LoadedBefore
  <2>2. CASE j \notin 1..Len(events)
    <3>1. j = Len(events) + 1 /\ events'[j].loaded = handler[h].loaded
      BY <2>2, JournalGrows
    <3>2. handler[h].loaded \in Nat
      BY DEF TypeOK, Handler
    <3> QED
      BY <3>1, <3>2, JournalGrows DEF SawDecided
  <2> QED
    BY <2>1, <2>2
<1> QED
  BY <1>1 DEF LoadedBefore

LEMMA DecidedNext ==
  ASSUME TypeOK, NEW h \in Handlers, HandlerInOrder(h), Act(h),
         NEW c \in Calls, DecidedUntilEdited(c)
  PROVE  DecidedUntilEdited(c)'
<1>1. SUFFICES ASSUME NEW i \in Approvals(c)', call'[c].status \in Approvable
               PROVE  \E k \in i + 1..Len(events') :
                        events'[k].type = "edited" /\ events'[k].call = c
  BY DEF DecidedUntilEdited, EditedIn, Approvable
<1>2. CASE i \in Approvals(c)
  <2>1. i \in 1..Len(events) /\ Len(events) \in Nat
    BY <1>2, ApprovalsStep, JournalGrows
  <2>2. CASE EditedIn(c, i + 1, Len(events))
    <3>1. PICK k \in i + 1..Len(events) : events[k].type = "edited" /\ events[k].call = c
      BY <2>2 DEF EditedIn
    <3>2. k \in 1..Len(events) /\ k \in i + 1..Len(events')
      BY <2>1, JournalGrows
    <3> QED
      BY <3>1, <3>2, JournalGrows
  <2>3. CASE Edit(h) /\ handler[h].call = c
    <3>1. Record(h, "edited")
      BY <2>3 DEF Edit
    <3>2. /\ Len(events') = Len(events) + 1
          /\ events'[Len(events) + 1] =
               [type |-> "edited", call |-> handler[h].call, loaded |-> handler[h].loaded]
      <4>1. "edited" \in EventTypes
        BY DEF EventTypes
      <4> QED
        BY <3>1, <4>1, RecordAppends
    <3>3. Len(events) + 1 \in i + 1..Len(events')
      BY <2>1, <3>2
    <3> QED
      BY <2>3, <3>2, <3>3
  <2>4. \/ call'[c].status = call[c].status
        \/ Edit(h) /\ handler[h].call = c
    BY <1>1, CallStep DEF Approvable, Undecided
  <2> QED
    BY <1>1, <1>2, <2>2, <2>3, <2>4 DEF DecidedUntilEdited
<1>3. CASE i \notin Approvals(c)
  <2>1. Approve(h) /\ c = handler[h].call
    BY <1>3, ApprovalsStep
  <2>2. call'[c].status = "executing"
    BY <2>1, ApproveExecutes
  <2> QED
    BY <1>1, <2>2 DEF Approvable, Undecided
<1> QED
  BY <1>2, <1>3

LEMMA SawNext ==
  ASSUME TypeOK, \A g \in Handlers : HandlerInOrder(g) /\ SawDecided(g),
         \A c \in Calls : DecidedUntilEdited(c),
         NEW h \in Handlers, Act(h), NEW g \in Handlers
  PROVE  SawDecided(g)'
<1>1. handler[g].loaded \in Nat /\ SawDecided(g)
  BY DEF TypeOK, Handler
<1>2. CASE g # h
  <2>1. handler'[g] = handler[g]
    BY <1>2, Frame
  <2>2. handler'[g].loaded <= Len(events')
    BY <1>1, <2>1, JournalGrows DEF SawDecided
  <2>3. SUFFICES ASSUME handler[g].at = "decide", handler[g].op # "cancel",
                        NEW c, c = handler[g].call, NEW i \in Approvals(c)',
                        ~ (handler[g].loaded < i), handler[g].status \in Approvable
                 PROVE  \E k \in i + 1..handler[g].loaded :
                          events'[k].type = "edited" /\ events'[k].call = c
    BY <2>1, <2>2 DEF SawDecided, EditedIn, Approvable, Approvals
  <2>4. handler[g].loaded <= Len(events) /\ Len(events) \in Nat
    BY <1>1, JournalGrows DEF SawDecided
  <2>5. i \in Approvals(c) /\ i \in 1..Len(events)
    <3>1. i # Len(events) + 1
      BY <1>1, <2>3, <2>4
    <3> QED
      BY <2>3, <3>1, ApprovalsStep
  <2>6. EditedIn(c, i + 1, handler[g].loaded)
    BY <1>1, <2>3, <2>5 DEF SawDecided
  <2>7. PICK k \in i + 1..handler[g].loaded : events[k].type = "edited" /\ events[k].call = c
    BY <2>6 DEF EditedIn
  <2>8. k \in 1..Len(events)
    BY <1>1, <2>4, <2>5
  <2> QED
    BY <2>7, <2>8, JournalGrows
<1>3. CASE g = h
  <2>1. CASE LoadCall(h)
    <3>1. /\ handler[h].call \in Calls
          /\ events' = events
      BY <2>1 DEF LoadCall, HandlerInOrder, db
    <3>2. /\ handler'[h].call = handler[h].call
          /\ handler'[h].loaded = Len(events)
          /\ handler'[h].status = call[handler[h].call].status
      BY <2>1, LoadCallStep
    <3> QED
      BY <1>3, <3>1, <3>2, JournalGrows
         DEF SawDecided, DecidedUntilEdited, Approvals, EditedIn, Approvable
  <2>2. CASE ~LoadCall(h)
    <3>1. \/ handler'[h] = Idle
          \/ handler'[h].loaded = handler[h].loaded
      BY <2>2, HandlerStep
    <3>2. handler'[h].loaded <= Len(events')
      BY <1>1, <1>3, <3>1, JournalGrows DEF Idle, SawDecided
    <3>3. handler'[h].at = "decide" => handler'[h].op = "cancel"
      BY <2>2, HandlerStep DEF Idle
    <3> QED
      BY <1>3, <3>2, <3>3 DEF SawDecided
  <2> QED
    BY <2>1, <2>2
<1> QED
  BY <1>2, <1>3

LEMMA ReapprovedNext ==
  ASSUME TypeOK, ReapprovedOnlyAfterEdit, LoadedBefore,
         NEW h \in Handlers, HandlerInOrder(h), SawDecided(h), Act(h)
  PROVE  ReapprovedOnlyAfterEdit'
<1>1. SUFFICES ASSUME NEW c \in Calls, NEW i \in Approvals(c)', NEW j \in Approvals(c)',
                      i < j, ~ (events'[j].loaded < i)
               PROVE  \E k \in i + 1..events'[j].loaded :
                        events'[k].type = "edited" /\ events'[k].call = c
  BY DEF ReapprovedOnlyAfterEdit
<1>2. Len(events) \in Nat /\ i \in Nat /\ j \in Nat /\ j <= Len(events')
  BY JournalGrows DEF Approvals
<1>3. i \in Approvals(c) /\ i \in 1..Len(events)
  <2>1. CASE i = Len(events) + 1
    BY <1>1, <1>2, <2>1, ApprovalsStep
  <2>2. CASE i # Len(events) + 1
    BY <2>2, ApprovalsStep
  <2> QED
    BY <2>1, <2>2
<1>4. PICK k \in i + 1..events'[j].loaded :
        k \in 1..Len(events) /\ events[k].type = "edited" /\ events[k].call = c
  <2>1. CASE j \in Approvals(c)
    <3>1. j \in 1..Len(events) /\ events'[j] = events[j]
      BY <2>1, ApprovalsStep, JournalGrows
    <3>2. events[j] \in Event
      BY <3>1 DEF TypeOK
    <3>3. events[j].loaded \in Nat /\ events[j].loaded < j
      BY <3>1, <3>2 DEF LoadedBefore, Event
    <3>4. \E k \in i + 1..events[j].loaded : events[k].type = "edited" /\ events[k].call = c
      BY <1>1, <1>3, <2>1, <3>1 DEF ReapprovedOnlyAfterEdit
    <3>5. \A k \in i + 1..events[j].loaded : k \in 1..Len(events)
      BY <1>2, <3>1, <3>3
    <3> QED
      BY <3>1, <3>4, <3>5
  <2>2. CASE j \notin Approvals(c)
    <3>1. Approve(h) /\ c = handler[h].call /\ events'[j].loaded = handler[h].loaded
      BY <2>2, ApprovalsStep
    <3>2. handler[h].loaded \in Nat /\ handler[h].loaded <= Len(events)
      BY DEF TypeOK, Handler, SawDecided
    <3>3. /\ handler[h].at = "decide" /\ handler[h].op # "cancel"
          /\ handler[h].status \in Approvable
      BY <3>1 DEF Approve
    <3>4. EditedIn(c, i + 1, handler[h].loaded)
      BY <1>1, <1>3, <3>1, <3>3 DEF SawDecided
    <3>5. \A k \in i + 1..handler[h].loaded : k \in 1..Len(events)
      BY <1>2, <3>2
    <3> QED
      BY <3>1, <3>4, <3>5 DEF EditedIn
  <2> QED
    BY <2>1, <2>2
<1> QED
  BY <1>4, JournalGrows

LEMMA SucceededNext ==
  ASSUME TypeOK, SucceededIsAudited, NEW h \in Handlers, HandlerInOrder(h), Act(h)
  PROVE  SucceededIsAudited'
<1>1. SUFFICES ASSUME NEW c \in Calls, call'[c].status = "succeeded"
               PROVE  /\ received'[c] # <<>>
                      /\ c \notin Reads => c \in audited' \cap audit_log'
  BY DEF SucceededIsAudited
<1>2. CASE call[c].status = "succeeded"
  BY <1>2, Frame DEF SucceededIsAudited
<1>3. CASE Finish(h) /\ handler[h].call = c
  <2>1. /\ received[c] # <<>> /\ c \in Reads \cup audited
        /\ audit_log' = audit_log \cup ({c} \ Reads)
    BY <1>3 DEF Finish, HandlerInOrder
  <2> QED
    BY <2>1, Frame
<1>4. \/ call[c].status = "succeeded"
      \/ Finish(h) /\ handler[h].call = c
  BY <1>1, CallStep
<1> QED
  BY <1>2, <1>3, <1>4

LEMMA OwnerNext ==
  ASSUME TypeOK, ExecutingHasOwner, NEW h \in Handlers, HandlerInOrder(h), Act(h)
  PROVE  ExecutingHasOwner'
<1>1. SUFFICES ASSUME NEW c \in Calls, call'[c].status = "executing",
                      c \notin abandoned'
               PROVE  \E g \in Handlers :
                        /\ handler'[g].call = c
                        /\ handler'[g].at \in {"execute", "audit", "finish"}
  BY DEF ExecutingHasOwner, Executing
<1>2. CASE Approve(h) /\ handler[h].call = c
  BY <1>2, ApproveStep
<1>3. CASE call[c].status = "executing"
  <2>1. c \notin abandoned
    BY <1>1, Frame
  <2>2. PICK g \in Handlers : Executing(g, c)
    BY <1>3, <2>1 DEF ExecutingHasOwner
  <2>3. CASE g # h
    BY <2>2, <2>3, Frame DEF Executing
  <2>4. CASE g = h
    <3>1. handler[h].call = c /\ handler[h].at \in {"execute", "audit", "finish"}
      BY <2>2, <2>4 DEF Executing
    <3>2. Execute(h) \/ Audit(h) \/ Finish(h) \/ Fail(h) \/ FailAfterReceipt(h)
      BY <3>1 DEF Act, Step, Begin, LoadRun, LoadCall, Cancel, Reject, Edit,
        ApproveAnswered, Approve
    <3>3. ~ Fail(h) /\ ~ FailAfterReceipt(h)
      BY <1>1, <3>1 DEF Fail, FailAfterReceipt, Abandon
    <3>4. ~ Finish(h)
      <4>1. SUFFICES ASSUME Finish(h) PROVE call'[c].status = "succeeded"
        BY <1>1
      <4> QED
        BY <3>1, <4>1 DEF Finish, TypeOK
    <3>5. CASE Execute(h)
      BY <3>1, <3>5, ExecuteStep
    <3>6. CASE Audit(h)
      BY <3>1, <3>6, AuditStep
    <3> QED
      BY <3>2, <3>3, <3>4, <3>5, <3>6
  <2> QED
    BY <2>3, <2>4
<1>4. \/ call[c].status = "executing"
      \/ Approve(h) /\ handler[h].call = c
  BY <1>1, CallStep
<1> QED
  BY <1>2, <1>3, <1>4

LEMMA NextIInv == IInv /\ [Next]_vars => IInv'
<1> SUFFICES ASSUME IInv, [Next]_vars PROVE IInv'
  OBVIOUS
<1>1. CASE UNCHANGED vars
  BY <1>1 DEF IInv, TypeOK, LoadedBefore, HandlerInOrder, SawDecided,
    DecidedUntilEdited, EditedIn, Approvals, SucceededIsAudited,
    ReapprovedOnlyAfterEdit, ExecutingHasOwner, Executing, vars, db, priceframe
<1>2. ASSUME NEW h \in Handlers, Act(h) PROVE IInv'
  <2>1. TypeOK'
    BY TypeNext DEF IInv
  <2>2. \A g \in Handlers : HandlerInOrder(g)'
    BY <1>2, InOrderNext DEF IInv
  <2>3. \A g \in Handlers : SawDecided(g)'
    BY <1>2, SawNext DEF IInv
  <2>4. \A c \in Calls : DecidedUntilEdited(c)'
    BY <1>2, DecidedNext DEF IInv
  <2>5. LoadedBefore'
    BY <1>2, LoadedNext DEF IInv
  <2>6. SucceededIsAudited'
    BY <1>2, SucceededNext DEF IInv
  <2>7. ReapprovedOnlyAfterEdit'
    BY <1>2, ReapprovedNext DEF IInv
  <2>8. ExecutingHasOwner'
    BY <1>2, OwnerNext DEF IInv
  <2> QED
    BY <2>1, <2>2, <2>3, <2>4, <2>5, <2>6, <2>7, <2>8 DEF IInv
<1> QED
  BY <1>1, <1>2 DEF Next, Act

-----------------------------------------------------------------------------
\* The approvals and the executions of a call, counted.

LEMMA ApprovalsFinite ==
  ASSUME TypeOK, NEW c
  PROVE  IsFiniteSet(Approvals(c)) /\ Cardinality(Approvals(c)) \in Nat
<1>1. IsFiniteSet(1..Len(events))
  BY FS_Interval DEF TypeOK
<1>2. Approvals(c) \subseteq 1..Len(events)
  BY DEF Approvals
<1> QED
  BY <1>1, <1>2, FS_Subset, FS_CardinalityType

LEMMA InitApprovalsLeft == Init => \A c \in Calls : ApprovalsLeft(c)
<1> SUFFICES ASSUME Init, NEW c \in Calls PROVE ApprovalsLeft(c)
  OBVIOUS
<1>1. ToBeExecuted(c) = {}
  BY DEF Init, ToBeExecuted, Idle
<1>2. received[c] = <<>>
  BY DEF Init
<1>3. Cardinality(Approvals(c)) \in Nat
  BY InitIInv, ApprovalsFinite DEF IInv
<1> QED
  BY <1>1, <1>2, <1>3, FS_EmptySet DEF ApprovalsLeft

\* An approval is one more, and so is what is to be executed.
LEMMA ApproveCounts ==
  ASSUME TypeOK, TypeOK', NEW h \in Handlers, HandlerInOrder(h), Approve(h),
         NEW c \in Calls, handler[h].call = c, ApprovalsLeft(c)
  PROVE  ApprovalsLeft(c)'
<1>1. Act(h)
  BY DEF Act, Step
<1>2. received[c] \in Seq(Args) /\ received' = received
  BY DEF Approve, TypeOK, priceframe
<1>3. /\ handler'[h].at = "execute" /\ handler'[h].call = c
      /\ \A g \in Handlers \ {h} : handler'[g] = handler[g]
  BY <1>1, ApproveStep, Frame
<1>4. PICK n : /\ n \in 1..Len(events') /\ n \notin 1..Len(events)
               /\ events'[n].type = "approved" /\ events'[n].call = c
  <2>1. Record(h, "approved") /\ "approved" \in EventTypes
    BY DEF Approve, EventTypes
  <2>2. /\ Len(events') = Len(events) + 1
        /\ events'[Len(events) + 1] =
             [type |-> "approved", call |-> handler[h].call, loaded |-> handler[h].loaded]
    BY <2>1, RecordAppends
  <2>3. Len(events) \in Nat
    BY DEF TypeOK
  <2> QED
    BY <2>2, <2>3
<1>5. Approvals(c) \cup {n} \subseteq Approvals(c)' /\ n \notin Approvals(c)
  BY <1>1, <1>4, JournalGrows DEF Approvals
<1>6. ToBeExecuted(c)' = ToBeExecuted(c) \cup {h} /\ h \notin ToBeExecuted(c)
  BY <1>3 DEF ToBeExecuted, Approve
<1>7. IsFiniteSet(Approvals(c)') /\ Cardinality(Approvals(c)') \in Nat
  <2>1. IsFiniteSet(1..Len(events'))
    BY FS_Interval DEF TypeOK
  <2>2. Approvals(c)' \subseteq 1..Len(events')
    BY DEF Approvals
  <2> QED
    BY <2>1, <2>2, FS_Subset, FS_CardinalityType
<1>8. Cardinality(Approvals(c)') >= Cardinality(Approvals(c)) + 1
  <2>1. Cardinality(Approvals(c) \cup {n}) = Cardinality(Approvals(c)) + 1
    BY <1>5, ApprovalsFinite, FS_AddElement
  <2> QED
    BY <1>5, <1>7, <2>1, ApprovalsFinite, FS_Subset
<1>9. /\ IsFiniteSet(ToBeExecuted(c)')
      /\ Cardinality(ToBeExecuted(c)') = Cardinality(ToBeExecuted(c)) + 1
      /\ Cardinality(ToBeExecuted(c)) \in Nat
  BY <1>6, FS_AddElement, FS_CardinalityType DEF ApprovalsLeft
<1> QED
  BY <1>2, <1>7, <1>8, <1>9, ApprovalsFinite DEF ApprovalsLeft

\* An execution that PriceFRAME receives uses its approval up.
LEMMA ReceiptCounts ==
  ASSUME TypeOK, NEW h \in Handlers, NEW c \in Calls, ApprovalsLeft(c),
         handler[h].at = "execute", handler[h].call = c,
         handler'[h].at # "execute", \A g \in Handlers \ {h} : handler'[g] = handler[g],
         received' = [received EXCEPT ![c] = Append(@, handler[h].args)],
         events' = events
  PROVE  ApprovalsLeft(c)'
<1>1. received[c] \in Seq(Args) /\ received \in [Calls -> Seq(Args)] /\ handler[h].args \in Args
  BY DEF TypeOK, Handler
<1>2. Len(received'[c]) = Len(received[c]) + 1 /\ Len(received[c]) \in Nat
  BY <1>1
<1>3. ToBeExecuted(c)' = ToBeExecuted(c) \ {h} /\ h \in ToBeExecuted(c)
  BY DEF ToBeExecuted
<1>4. /\ IsFiniteSet(ToBeExecuted(c)')
      /\ Cardinality(ToBeExecuted(c)') = Cardinality(ToBeExecuted(c)) - 1
      /\ Cardinality(ToBeExecuted(c)) \in Nat
  BY <1>3, FS_RemoveElement, FS_CardinalityType DEF ApprovalsLeft
<1>5. Approvals(c)' = Approvals(c)
  BY DEF Approvals
<1> QED
  BY <1>2, <1>4, <1>5, ApprovalsFinite DEF ApprovalsLeft

\* Any other step leaves no more to be executed, and no fewer approvals.
LEMMA OtherCounts ==
  ASSUME TypeOK, NEW h \in Handlers, HandlerInOrder(h), Act(h), NEW c \in Calls,
         ApprovalsLeft(c), received'[c] = received[c], TypeOK',
         (handler'[h].at = "execute" /\ handler'[h].call = c) => h \in ToBeExecuted(c)
  PROVE  ApprovalsLeft(c)'
<1>1. ToBeExecuted(c)' \subseteq ToBeExecuted(c)
  BY Frame DEF ToBeExecuted
<1>2. /\ IsFiniteSet(ToBeExecuted(c)')
      /\ Cardinality(ToBeExecuted(c)') <= Cardinality(ToBeExecuted(c))
      /\ Cardinality(ToBeExecuted(c)) \in Nat /\ Cardinality(ToBeExecuted(c)') \in Nat
  BY <1>1, FS_Subset, FS_CardinalityType DEF ApprovalsLeft
<1>3. IsFiniteSet(1..Len(events')) /\ Approvals(c)' \subseteq 1..Len(events')
  BY FS_Interval DEF TypeOK, Approvals
<1>4. Approvals(c) \subseteq Approvals(c)'
  BY JournalGrows DEF Approvals
<1>5. /\ Cardinality(Approvals(c)) <= Cardinality(Approvals(c)')
      /\ Cardinality(Approvals(c)') \in Nat
  BY <1>3, <1>4, FS_Subset, FS_CardinalityType
<1>6. Len(received[c]) \in Nat
  BY DEF TypeOK
<1> QED
  BY <1>2, <1>5, <1>6, ApprovalsFinite DEF ApprovalsLeft

LEMMA NextApprovalsLeft ==
  ASSUME IInv, IInv', [Next]_vars, NEW c \in Calls, ApprovalsLeft(c)
  PROVE  ApprovalsLeft(c)'
<1>1. CASE UNCHANGED vars
  <2>1. ToBeExecuted(c)' = ToBeExecuted(c) /\ Approvals(c)' = Approvals(c)
        /\ received'[c] = received[c]
    BY <1>1 DEF vars, db, priceframe, ToBeExecuted, Approvals
  <2> QED
    BY <2>1 DEF ApprovalsLeft
<1>2. ASSUME NEW h \in Handlers, Act(h) PROVE ApprovalsLeft(c)'
  <2> DEFINE Receipt == handler[h].at = "execute"
                        /\ received' = [received EXCEPT
                             ![handler[h].call] = Append(@, handler[h].args)]
  <2>1. TypeOK /\ TypeOK' /\ HandlerInOrder(h)
    BY DEF IInv
  <2>2. \/ Approve(h)
        \/ Receipt /\ (Execute(h) \/ FailAfterReceipt(h)) /\ events' = events
        \/ received' = received /\ ~Approve(h)
    BY <1>2 DEF Act, Step, Begin, LoadRun, LoadCall, Cancel, Reject, Edit, ApproveAnswered,
       Execute, Audit, Finish, Fail, FailAfterReceipt, db, priceframe
  <2>3. CASE Approve(h) /\ handler[h].call = c
    BY <2>1, <2>3, ApproveCounts
  <2>4. CASE Receipt /\ (Execute(h) \/ FailAfterReceipt(h)) /\ events' = events
             /\ handler[h].call = c
    <3>1. handler'[h].at # "execute" /\ \A g \in Handlers \ {h} : handler'[g] = handler[g]
      BY <1>2, <2>1, <2>4, HandlerStep, Frame, ExecuteStep, DoneIsIdle DEF Abandon, FailAfterReceipt, Idle
    <3> QED
      BY <2>1, <2>4, <3>1, ReceiptCounts
  <2>5. CASE handler[h].call # c /\ (Approve(h) \/ Receipt)
    <3>1. received'[c] = received[c]
      BY <2>1, <2>5 DEF Approve, priceframe, TypeOK
    <3>2. handler'[h].at = "execute" => handler'[h].call # c
      BY <1>2, <2>1, <2>5, HandlerStep DEF Idle
    <3> QED
      BY <1>2, <2>1, <3>1, <3>2, OtherCounts
  <2>6. CASE received' = received /\ ~Approve(h)
    <3>1. handler'[h].at # "execute"
      BY <1>2, <2>1, <2>6, HandlerStep DEF Idle
    <3> QED
      BY <1>2, <2>1, <2>6, <3>1, OtherCounts
  <2> QED
    BY <2>2, <2>3, <2>4, <2>5, <2>6
<1> QED
  BY <1>1, <1>2 DEF Next, Act

-----------------------------------------------------------------------------
\* The theorems.

(* The inductive invariant holds in every state, whatever the calls, the
   handlers and the number of requests.                                       *)
THEOREM Invariance == Spec => []IInv
  BY InitIInv, NextIInv, PTL DEF Spec

(* The run, its calls, the journal and the handlers' sessions keep their types:
   a handler never works on a call the run does not have.                     *)
THEOREM TypeCorrect == Spec => []TypeOK
<1>1. IInv => TypeOK
  BY DEF IInv
<1> QED
  BY <1>1, Invariance, PTL

(* What reads as succeeded was received by PriceFRAME and audited in both
   places: no interleaving of approvals, edits, rejections and failures
   separates the status of a call from its audit trail.                       *)
THEOREM SucceededWasAudited == Spec => []SucceededIsAudited
<1>1. IInv => SucceededIsAudited
  BY DEF IInv
<1> QED
  BY <1>1, Invariance, PTL

(* A second approval of a call is one that had loaded it before the first was
   committed, or one that found it edited since.                              *)
THEOREM ReapprovalNeedsEdit == Spec => []ReapprovedOnlyAfterEdit
<1>1. IInv => ReapprovedOnlyAfterEdit
  BY DEF IInv
<1> QED
  BY <1>1, Invariance, PTL

(* What reads as executing is being executed by a handler, or an execution of
   it has failed: nothing else leaves a call executing.                       *)
THEOREM ExecutionHasOwner == Spec => []ExecutingHasOwner
<1>1. IInv => ExecutingHasOwner
  BY DEF IInv
<1> QED
  BY <1>1, Invariance, PTL

(* PriceFRAME receives no execution of a call that has no approval of its own,
   committed before it, whatever fails in between (runs.py:194-209).          *)
THEOREM ApprovedFirst == Spec => []ApprovedBeforeExecuted
<1> DEFINE Counted == \A c \in Calls : ApprovalsLeft(c)
<1>1. Init => Counted
  BY InitApprovalsLeft
<1>2. IInv /\ IInv' /\ Counted /\ [Next]_vars => Counted'
  BY NextApprovalsLeft
<1>3. IInv /\ Counted => ApprovedBeforeExecuted
  <2> SUFFICES ASSUME IInv, Counted, NEW c \in Calls
               PROVE  Len(received[c]) <= Cardinality(Approvals(c))
    BY DEF ApprovedBeforeExecuted
  <2>1. Cardinality(ToBeExecuted(c)) \in Nat
    BY FS_CardinalityType DEF ApprovalsLeft
  <2>2. Len(received[c]) \in Nat /\ Cardinality(Approvals(c)) \in Nat
    BY ApprovalsFinite DEF IInv, TypeOK
  <2> QED
    BY <2>1, <2>2 DEF ApprovalsLeft
<1> HIDE DEF Counted
<1> QED
  BY <1>1, <1>2, <1>3, Invariance, PTL DEF Spec

-----------------------------------------------------------------------------
(* One request at a time.                                                    *)

\* What a request loaded of the run is still so when it writes.
Fresh ==
  \A h \in Handlers : handler[h].at \notin {"idle", "load_run"} => handler[h].run = run

(* With one handler, each action finds it where it is or leaves it idle.      *)
LEMMA NextFresh ==
  ASSUME TypeOK, Fresh, [Next]_vars, \A g, h \in Handlers : g = h
  PROVE  Fresh' /\ (run \in {"completed", "cancelled"} => UNCHANGED run)
<1>1. CASE UNCHANGED vars
  BY <1>1 DEF vars, db, Fresh
<1>2. ASSUME NEW h \in Handlers, Begin(h) \/ Step(h) \/ Fail(h) \/ FailAfterReceipt(h)
      PROVE  Fresh' /\ (run \in {"completed", "cancelled"} => UNCHANGED run)
  <2>1. /\ Handlers = {h} /\ handler \in [Handlers -> Handler]
        /\ handler[h].at \notin {"idle", "load_run"} => handler[h].run = run
    BY DEF TypeOK, Fresh
  <2>2. CASE Begin(h)
    <3>1. handler'[h].at = "load_run"
      <4>1. CASE handler' = [handler EXCEPT ![h].at = "load_run", ![h].op = "cancel"]
        BY <2>1, <4>1 DEF Handler
      <4>2. ASSUME NEW op \in Decisions, NEW c \in Calls,
                   handler' = [handler EXCEPT ![h].at = "load_run", ![h].op = op, ![h].call = c]
            PROVE  handler'[h].at = "load_run"
        BY <2>1, <4>2 DEF Handler
      <4> QED
        BY <2>2, <4>1, <4>2 DEF Begin
    <3>2. UNCHANGED run
      BY <2>2 DEF Begin, db
    <3> QED
      BY <2>1, <3>1, <3>2 DEF Fresh
  <2>3. CASE LoadRun(h)
    BY <2>1, <2>3 DEF LoadRun, Fresh, db, Handler
  <2>4. CASE LoadCall(h)
    BY <2>1, <2>4 DEF LoadCall, Fresh, db, Handler
  <2>5. CASE Cancel(h)
    BY <2>1, <2>5 DEF Cancel, Done, Idle, Fresh
  <2>6. CASE Reject(h) \/ Edit(h) \/ ApproveAnswered(h)
    BY <2>1, <2>6 DEF Reject, Edit, ApproveAnswered, Done, Idle, Fresh, db
  <2>7. CASE Approve(h) \/ Execute(h) \/ Audit(h)
    BY <2>1, <2>7 DEF Approve, Execute, Audit, Fresh, db, Handler
  <2>8. CASE Finish(h)
    BY <2>1, <2>8 DEF Finish, Done, Idle, Fresh
  <2>9. CASE Fail(h) \/ FailAfterReceipt(h)
    BY <2>1, <2>9 DEF Fail, FailAfterReceipt, Abandon, Done, Idle, Fresh, db
  <2> QED
    BY <1>2, <2>2, <2>3, <2>4, <2>5, <2>6, <2>7, <2>8, <2>9 DEF Step
<1> QED
  BY <1>1, <1>2 DEF Next

(* A terminal status is final as long as requests come one after the other
   (runs.py:97-111, 267): it takes a second one, between a request's load of the
   run and its commit, to leave it.                                           *)
THEOREM FinalOneByOne ==
  ASSUME \A g, h \in Handlers : g = h
  PROVE  Spec => TerminalStatesAreFinal
<1>1. Init => Fresh
  BY DEF Init, Idle, Fresh
<1>2. IInv => TypeOK
  BY DEF IInv
<1>3. IInv /\ Fresh /\ [Next]_vars =>
        Fresh' /\ [(run \in {"completed", "cancelled"}) => UNCHANGED run]_vars
  BY <1>2, NextFresh
<1> QED
  BY <1>1, <1>3, Invariance, PTL DEF Spec, TerminalStatesAreFinal
=============================================================================
