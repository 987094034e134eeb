-------------------------- MODULE StepAdvance_proofs --------------------------
(***************************************************************************)
(* The wizard's safety properties, for any steps, runs, handlers and        *)
(* requests.                                                                *)
(***************************************************************************)
EXTENDS StepAdvance, TLAPS

Act(h) == Begin(h) \/ Step(h) \/ Fail(h) \/ FailAfterReceipt(h)

-----------------------------------------------------------------------------
\* The initial state.

LEMMA SomeOnes == SomeRun \in Runs /\ SomeStep \in Steps
  BY StepsAssumption DEF SomeRun, SomeStep

LEMMA IdleIsHandler == Idle \in Handler
  BY SomeOnes DEF Idle, Handler, Places, RunStatus

LEMMA InitIInv == Init => IInv
<1> SUFFICES ASSUME Init PROVE IInv
  OBVIOUS
<1>1. Made = {}
  BY DEF Init, Made
<1>2. NoRow \in Row
  BY SomeOnes DEF NoRow, Row, CallStatus, Undecided
<1>3. Len(started) = 0 /\ started \in Seq([call : Calls, listed : Nat])
  BY DEF Init
<1>4. TypeOK
  BY <1>2, <1>3, IdleIsHandler, StepsAssumption DEF Init, TypeOK, RunStatus
<1>5. ASSUME NEW h \in Handlers
      PROVE BundleInOrder(h) /\ NoneYet(h) /\ QuoteInHand(h) /\ ListedUndecided(h)
  <2>1. handler[h] = Idle
    BY DEF Init
  <2> QED
    BY <1>3, <2>1 DEF Idle, BundleInOrder, NoneYet, QuoteInHand, ListedUndecided
<1> QED
  BY <1>1, <1>3, <1>4, <1>5 DEF Init, IInv, EventsNameCalls, SucceededIsEffective,
    StartedIsDecided, ApprovedStepWasExecuted, QuoteWasCreated, RetryNeverReexecutes

-----------------------------------------------------------------------------
\* What the steps make of a handler.

LEMMA DoneKeepsType ==
  ASSUME TypeOK, NEW h \in Handlers, Done(h)
  PROVE  handler' \in [Handlers -> Handler] /\ handler'[h] = Idle
  BY IdleIsHandler DEF TypeOK, Done

\* A row, with some fields changed.
LEMMA RowTypes ==
  ASSUME NEW r \in Row, NEW s \in CallStatus
  PROVE  /\ [r EXCEPT !.status = s] \in Row
         /\ \A t \in Nat : [r EXCEPT !.status = s, !.completed_at = t] \in Row
<1>1. [r EXCEPT !.status = s] \in Row
  BY DEF Row
<1>2. \A t \in Nat : [r EXCEPT !.status = s, !.completed_at = t] \in Row
  BY DEF Row
<1> QED
  BY <1>1, <1>2

\* The rows, with a result that is still in a transaction.
LEMMA WithResultRows ==
  ASSUME TypeOK, NEW h \in Handlers
  PROVE  /\ WithResult(h) \in [Calls -> Row]
         /\ \A c \in Calls :
              /\ WithResult(h)[c].step = call[c].step
              /\ WithResult(h)[c].quote = call[c].quote
              /\ WithResult(h)[c].status =
                   IF c = handler[h].current THEN "succeeded" ELSE call[c].status
<1> DEFINE current == handler[h].current
           at == handler[h].completed_at
<1>1. current \in Calls \cup {0} /\ at \in Nat /\ call \in [Calls -> Row]
  BY DEF TypeOK, Handler
<1>2. CASE current = 0
  <2>1. \A c \in Calls : c # 0
    BY StepsAssumption DEF Calls
  <2> QED
    BY <1>1, <1>2, <2>1 DEF WithResult
<1>3. CASE current # 0
  <2>1. current \in Calls
    BY <1>1, <1>3
  <2>2. WithResult(h) =
          [call EXCEPT ![current].status = "succeeded", ![current].completed_at = at]
    BY <1>3 DEF WithResult
  <2> HIDE DEF current, at
  <2>3. WithResult(h) \in [Calls -> Row]
    <3>1. [call[current] EXCEPT !.status = "succeeded", !.completed_at = at] \in Row
      BY <1>1, <2>1, RowTypes DEF CallStatus
    <3>2. WithResult(h) =
            [call EXCEPT ![current] = [@ EXCEPT !.status = "succeeded", !.completed_at = at]]
      BY <1>1, <2>1, <2>2
    <3> QED
      BY <1>1, <2>1, <3>1, <3>2
  <2>4. ASSUME NEW c \in Calls
        PROVE  /\ WithResult(h)[c].step = call[c].step
               /\ WithResult(h)[c].quote = call[c].quote
               /\ WithResult(h)[c].status =
                    IF c = current THEN "succeeded" ELSE call[c].status
    BY <1>1, <2>1, <2>2 DEF Row
  <2> QED
    BY <2>3, <2>4 DEF current
<1> QED
  BY <1>2, <1>3

\* The rows of StartCall.
LEMMA StartCallRows ==
  ASSUME TypeOK, NEW h \in Handlers, NEW c \in Calls,
         call' = [WithResult(h) EXCEPT ![c].status = "executing"]
  PROVE  /\ call' \in [Calls -> Row]
         /\ \A d \in Calls :
              /\ call'[d].step = call[d].step
              /\ call'[d].quote = call[d].quote
              /\ call'[d].status =
                   IF d = c THEN "executing" ELSE WithResult(h)[d].status
<1> DEFINE rows == WithResult(h)
<1>1. /\ rows \in [Calls -> Row]
      /\ \A d \in Calls : rows[d].step = call[d].step /\ rows[d].quote = call[d].quote
  BY WithResultRows
<1>2. call' = [rows EXCEPT ![c].status = "executing"]
  OBVIOUS
<1> HIDE DEF rows
<1>3. call' \in [Calls -> Row]
  <2>1. [rows[c] EXCEPT !.status = "executing"] \in Row
    BY <1>1, RowTypes DEF CallStatus
  <2>2. call' = [rows EXCEPT ![c] = [@ EXCEPT !.status = "executing"]]
    BY <1>1, <1>2
  <2> QED
    BY <1>1, <2>1, <2>2
<1>4. ASSUME NEW d \in Calls
      PROVE  /\ call'[d].step = call[d].step
             /\ call'[d].quote = call[d].quote
             /\ call'[d].status = IF d = c THEN "executing" ELSE rows[d].status
  BY <1>1, <1>2 DEF Row
<1> QED
  BY <1>3, <1>4 DEF rows

\* The rows of Reject.
LEMMA RejectRows ==
  ASSUME TypeOK, NEW h \in Handlers, Reject(h)
  PROVE  /\ call' \in [Calls -> Row]
         /\ \A d \in Calls :
              /\ call'[d].step = call[d].step
              /\ call'[d].quote = call[d].quote
              /\ call'[d].status =
                   IF d \in handler[h].bundle THEN "rejected" ELSE call[d].status
  BY DEF TypeOK, Reject, Row, CallStatus

\* The rows of Propose.
LEMMA ProposeRows ==
  ASSUME TypeOK, NEW h \in Handlers, Propose(h)
  PROVE  /\ made + 1 \in Calls /\ made' = made + 1
         /\ call' \in [Calls -> Row]
         /\ \A d \in Calls \ {made + 1} : call'[d] = call[d]
         /\ call'[made + 1].step = handler[h].step
         /\ call'[made + 1].quote =
              IF handler[h].step \in QuoteSteps THEN handler[h].quote ELSE 0
         /\ call'[made + 1].status \in Undecided
<1>1. made + 1 \in Calls /\ made' = made + 1
  BY StepsAssumption DEF TypeOK, Propose, Calls
<1>2. /\ handler[h].run \in Runs /\ handler[h].step \in Steps
      /\ handler[h].quote \in Calls \cup {0}
  BY DEF TypeOK, Handler
<1> QED
  BY <1>1, <1>2 DEF TypeOK, Propose, Row, CallStatus, Undecided

-----------------------------------------------------------------------------
\* The types are kept.

\* A handler that advances.
LEMMA HandlerType ==
  ASSUME TypeOK, NEW h \in Handlers, NEW rec \in Handler,
         handler' = [handler EXCEPT ![h] = rec]
  PROVE  handler' \in [Handlers -> Handler]
  BY DEF TypeOK

\* A handler's record, with some fields changed.
LEMMA RecordTypes ==
  ASSUME NEW r \in Handler, NEW at \in Places
  PROVE  /\ [r EXCEPT !.at = at] \in Handler
         /\ \A q \in Calls \cup {0} : [r EXCEPT !.at = at, !.quote = q] \in Handler
         /\ \A t \in Nat : [r EXCEPT !.completed_at = t, !.at = at] \in Handler
         /\ \A b \in SUBSET Calls, n \in Nat :
              [r EXCEPT !.at = at, !.bundle = b, !.todo = b, !.listed = n] \in Handler
         /\ \A c \in Calls, d \in SUBSET Calls :
              [r EXCEPT !.at = at, !.current = c, !.todo = d] \in Handler
<1>1. [r EXCEPT !.at = at] \in Handler
  BY DEF Handler
<1>2. \A q \in Calls \cup {0} : [r EXCEPT !.at = at, !.quote = q] \in Handler
  BY DEF Handler
<1>3. \A t \in Nat : [r EXCEPT !.completed_at = t, !.at = at] \in Handler
  BY DEF Handler
<1>4. \A b \in SUBSET Calls, n \in Nat :
        [r EXCEPT !.at = at, !.bundle = b, !.todo = b, !.listed = n] \in Handler
  BY DEF Handler
<1>5. \A c \in Calls, d \in SUBSET Calls :
        [r EXCEPT !.at = at, !.current = c, !.todo = d] \in Handler
  BY DEF Handler
<1> QED
  BY <1>1, <1>2, <1>3, <1>4, <1>5

LEMMA AnnounceType ==
  ASSUME TypeOK, NEW h \in Handlers, NEW type \in {"requested", "approved", "blocked", "rejected"},
         NEW calls \in SUBSET Calls, Announce(h, type, calls)
  PROVE  events' \subseteq Event
<1>1. handler[h].run \in Runs /\ handler[h].step \in Steps
  BY DEF TypeOK, Handler
<1> QED
  BY <1>1 DEF TypeOK, Announce, Event

LEMMA StatusType ==
  ASSUME TypeOK, NEW h \in Handlers,
         CompleteIfAwaited(h) \/ status' = [status EXCEPT ![handler[h].run] = "completed"]
  PROVE  status' \in [Runs -> RunStatus]
<1>1. handler[h].run \in Runs
  BY DEF TypeOK, Handler
<1> QED
  BY <1>1 DEF TypeOK, CompleteIfAwaited, RunStatus

\* The quote that is found is 0, or a create call of the run's conversation that
\* has succeeded.
LEMMA LatestIsCreated ==
  ASSUME TypeOK, NEW r \in Runs, NEW q \in LatestCreatedQuote(r)
  PROVE  /\ q \in Calls \cup {0}
         /\ q # 0 => /\ q \in Made
                     /\ call[q].step \in CreateSteps
                     /\ call[q].status = "succeeded"
<1>1. Made \subseteq Calls
  BY StepsAssumption DEF TypeOK, Made, Calls
<1>2. ASSUME NEW R, NEW c \in Latest(Created(R))
      PROVE  c \in Made /\ call[c].step \in CreateSteps /\ call[c].status = "succeeded"
  BY DEF Latest, Created
<1>3. q = 0 \/ q \in Latest(Created({r})) \/ q \in Latest(Created(Runs))
  BY DEF LatestCreatedQuote
<1> QED
  BY <1>1, <1>2, <1>3

LEMMA TypeNext ==
  ASSUME TypeOK, NEW h \in Handlers, BundleInOrder(h), Act(h)
  PROVE  TypeOK'
<1> USE DEF db, priceframe
<1>0. /\ handler[h].run \in Runs /\ handler[h].step \in Steps
      /\ handler[h].quote \in Calls \cup {0} /\ handler[h].saw \in RunStatus
      /\ handler[h].bundle \subseteq Calls /\ handler[h].todo \subseteq Calls
      /\ handler[h].current \in Calls \cup {0} /\ handler[h].listed \in Nat
  BY DEF TypeOK, Handler
<1>00. handler \in [Handlers -> Handler] /\ handler[h] \in Handler
  BY DEF TypeOK
<1>1. CASE Begin(h)
  <2>1. requests' \in Nat
    BY <1>1 DEF TypeOK, Begin
  <2>2. PICK op \in {"next", "approve", "reject"}, r \in Runs, s \in Steps :
          handler' = [handler EXCEPT ![h] = [Idle EXCEPT
            !.at = IF op = "next" THEN "evaluate" ELSE "list",
            !.op = op, !.run = r, !.step = s, !.saw = status[r]]]
    BY <1>1 DEF Begin
  <2>3. status[r] \in RunStatus
    BY DEF TypeOK
  <2> DEFINE rec == [Idle EXCEPT
               !.at = IF op = "next" THEN "evaluate" ELSE "list",
               !.op = op, !.run = r, !.step = s, !.saw = status[r]]
  <2>4. rec \in Handler
    BY <2>3, SomeOnes DEF Idle, Handler, Places
  <2>5. handler' = [handler EXCEPT ![h] = rec]
    BY <2>2
  <2>6. handler' \in [Handlers -> Handler]
    BY <2>4, <2>5, HandlerType
  <2> QED
    BY <1>1, <2>1, <2>6 DEF TypeOK, Begin
<1>2. CASE Evaluate(h)
  <2>1. PICK q \in LatestCreatedQuote(handler[h].run) :
          handler' = [handler EXCEPT ![h].at = "advance", ![h].quote = q]
    BY <1>2 DEF Evaluate
  <2>2. q \in Calls \cup {0}
    BY <1>0, LatestIsCreated
  <2> DEFINE rec == [handler[h] EXCEPT !.at = "advance", !.quote = q]
  <2>3. rec \in Handler
    BY <1>00, <2>2, RecordTypes DEF Places
  <2>5. handler' = [handler EXCEPT ![h] = rec]
    BY <1>00, <2>1
  <2>4. handler' \in [Handlers -> Handler]
    BY <2>3, <2>5, HandlerType
  <2> QED
    BY <1>2, <2>4 DEF TypeOK, Evaluate
<1>3. CASE Pass(h)
  <2>1. events' \subseteq Event
    BY <1>3, AnnounceType DEF Pass
  <2>2. status' \in [Runs -> RunStatus]
    BY <1>3, StatusType DEF Pass
  <2> QED
    BY <1>3, <2>1, <2>2, DoneKeepsType DEF TypeOK, Pass
<1>4. CASE Block(h)
  <2>1. events' \subseteq Event
    BY <1>4, AnnounceType DEF Block
  <2>2. status' \in [Runs -> RunStatus]
    BY <1>4, StatusType DEF Block
  <2> QED
    BY <1>4, <2>1, <2>2, DoneKeepsType DEF TypeOK, Block
<1>5. CASE Propose(h)
  <2>1. made + 1 \in Calls /\ made' = made + 1 /\ call' \in [Calls -> Row]
    BY <1>5, ProposeRows
  <2>2. made' \in 0..MaxCalls
    BY <2>1, StepsAssumption DEF Calls, TypeOK
  <2>3. events' \subseteq Event
    BY <1>5, <2>1, AnnounceType DEF Propose
  <2>4. status' \in [Runs -> RunStatus]
    BY <1>0, <1>5 DEF TypeOK, Propose, RunStatus
  <2> QED
    BY <1>5, <2>1, <2>2, <2>3, <2>4, DoneKeepsType DEF TypeOK, Propose
<1>6. CASE List(h)
  <2>1. ListedFor(handler[h].run, handler[h].step) \subseteq Calls
    BY StepsAssumption DEF ListedFor, Made, Calls, TypeOK
  <2>2. Len(started) \in Nat
    BY DEF TypeOK
  <2> DEFINE bundle == ListedFor(handler[h].run, handler[h].step)
             next == IF handler[h].op = "reject" THEN "reject" ELSE "start"
             rec == [handler[h] EXCEPT !.at = next, !.bundle = bundle, !.todo = bundle,
                                       !.listed = Len(started)]
  <2>3. rec \in Handler
    <3>1. next \in Places
      BY DEF Places
    <3> HIDE DEF bundle, next
    <3> QED
      BY <1>00, <2>1, <2>2, <3>1, RecordTypes DEF bundle
  <2>4. handler' = [handler EXCEPT ![h] = IF bundle = {} THEN Idle ELSE rec]
    BY <1>00, <1>6 DEF List
  <2>5. handler' \in [Handlers -> Handler]
    BY <2>3, <2>4, IdleIsHandler, HandlerType
  <2> QED
    BY <1>6, <2>5 DEF TypeOK, List
<1>7. CASE Reject(h)
  <2>1. events' \subseteq Event
    BY <1>0, <1>7, AnnounceType DEF Reject
  <2>2. status' \in [Runs -> RunStatus]
    BY <1>7, StatusType DEF Reject
  <2> QED
    BY <1>7, <2>1, <2>2, DoneKeepsType, RejectRows DEF TypeOK, Reject
<1>8. CASE StartCall(h)
  <2>1. PICK c \in handler[h].todo :
          /\ call' = [WithResult(h) EXCEPT ![c].status = "executing"]
          /\ started' = Append(started, [call |-> c, listed |-> handler[h].listed])
          /\ handler' = [handler EXCEPT ![h].at = "execute", ![h].current = c,
                                        ![h].todo = @ \ {c}]
    BY <1>8 DEF StartCall
  <2>2. c \in Calls /\ handler[h].listed \in Nat
    BY <1>0 DEF TypeOK, Handler
  <2>3. call' \in [Calls -> Row]
    BY <2>1, <2>2, StartCallRows
  <2>4. started' \in Seq([call : Calls, listed : Nat])
    BY <2>1, <2>2 DEF TypeOK
  <2>5. handler' \in [Handlers -> Handler]
    BY <2>1, <2>2 DEF TypeOK, Handler, Places
  <2> QED
    BY <1>8, <2>3, <2>4, <2>5 DEF TypeOK, StartCall
<1>9. ASSUME handler[h].at \in {"execute", "audit"} PROVE handler[h].current \in Calls
  BY <1>0, <1>9 DEF BundleInOrder
<1>10. CASE Execute(h)
  <2> DEFINE rec == [handler[h] EXCEPT !.at =
               IF handler[h].step \in ReadSteps THEN "result" ELSE "audit"]
  <2>1. rec \in Handler
    BY <1>00, RecordTypes DEF Places
  <2>3. handler' = [handler EXCEPT ![h] = rec]
    BY <1>00, <1>10 DEF Execute
  <2>2. handler' \in [Handlers -> Handler]
    BY <2>1, <2>3, HandlerType
  <2> QED
    BY <1>9, <1>10, <2>2 DEF TypeOK, Execute
<1>11. CASE Audit(h)
  <2> DEFINE rec == [handler[h] EXCEPT !.at = "result"]
  <2>1. rec \in Handler
    BY <1>00, RecordTypes DEF Places
  <2>3. handler' = [handler EXCEPT ![h] = rec]
    BY <1>00, <1>11 DEF Audit
  <2>2. handler' \in [Handlers -> Handler]
    BY <2>1, <2>3, HandlerType
  <2> QED
    BY <1>9, <1>11, <2>2 DEF TypeOK, Audit
<1>12. CASE Result(h)
  <2>1. clock' \in Nat /\ clock' = clock + 1
    BY <1>12 DEF TypeOK, Result
  <2> DEFINE rec == [handler[h] EXCEPT
               !.completed_at = clock + 1,
               !.at = IF handler[h].todo = {} THEN "finish" ELSE "start"]
  <2>2. rec \in Handler
    BY <1>00, <2>1, RecordTypes DEF Places
  <2>4. handler' = [handler EXCEPT ![h] = rec]
    BY <1>00, <1>12 DEF Result
  <2>3. handler' \in [Handlers -> Handler]
    BY <2>2, <2>4, HandlerType
  <2> QED
    BY <1>12, <2>1, <2>3 DEF TypeOK, Result
<1>13. CASE Finish(h)
  <2>1. events' \subseteq Event
    BY <1>0, <1>13, AnnounceType DEF Finish
  <2>2. status' \in [Runs -> RunStatus]
    BY <1>13, StatusType DEF Finish
  <2>3. call' \in [Calls -> Row]
    BY <1>13, WithResultRows DEF Finish
  <2> QED
    BY <1>13, <2>1, <2>2, <2>3, DoneKeepsType DEF TypeOK, Finish
<1>14. CASE Fail(h)
  BY <1>0, <1>14, DoneKeepsType DEF TypeOK, Fail, Abandon
<1>15. CASE FailAfterReceipt(h)
  <2>1. abandoned' \subseteq Calls /\ Done(h)
    BY <1>0, <1>15 DEF TypeOK, FailAfterReceipt, Abandon
  <2>2. done' \subseteq Calls /\ audited' \subseteq Calls
    BY <1>9, <1>15 DEF TypeOK, FailAfterReceipt
  <2> QED
    BY <1>15, <2>1, <2>2, DoneKeepsType DEF TypeOK, FailAfterReceipt
<1> QED
  BY <1>1, <1>2, <1>3, <1>4, <1>5, <1>6, <1>7, <1>8, <1>10, <1>11, <1>12, <1>13, <1>14, <1>15
  DEF Act, Step

-----------------------------------------------------------------------------
\* What a step leaves as it was.

LEMMA MadeType == TypeOK => Made \subseteq Calls /\ made \in Nat
  BY StepsAssumption DEF TypeOK, Made, Calls

\* Other handlers are left alone, calls keep their step and quote, and what
\* PriceFRAME has done stays done.
LEMMA Frame ==
  ASSUME TypeOK, NEW h \in Handlers, Act(h)
  PROVE  /\ \A k \in Handlers \ {h} : handler'[k] = handler[k]
         /\ Made \subseteq Made'
         /\ \A c \in Made : call'[c].step = call[c].step /\ call'[c].quote = call[c].quote
         /\ done \subseteq done' /\ audited \subseteq audited'
<1> USE DEF db, priceframe
<1> DEFINE Same == call' = call /\ made' = made
<1>1. \A k \in Handlers \ {h} : handler'[k] = handler[k]
  BY DEF TypeOK, Act, Begin, Step, Evaluate, Pass, Block, Propose, List, Reject, StartCall,
    Execute, Audit, Result, Finish, Fail, FailAfterReceipt, Abandon, Done
<1>2. done \subseteq done' /\ audited \subseteq audited'
  BY DEF Act, Begin, Step, Evaluate, Pass, Block, Propose, List, Reject, StartCall,
    Execute, Audit, Result, Finish, Fail, FailAfterReceipt
<1>3. CASE Propose(h)
  <2>1. Made \subseteq Made' /\ made + 1 \notin Made
    BY <1>3, ProposeRows, MadeType DEF Made
  <2> QED
    BY <1>1, <1>2, <1>3, <2>1, ProposeRows, MadeType
<1>4. CASE Reject(h)
  BY <1>1, <1>2, <1>4, RejectRows, MadeType DEF Made, Reject
<1>5. CASE StartCall(h)
  <2>1. PICK c \in handler[h].todo : call' = [WithResult(h) EXCEPT ![c].status = "executing"]
    BY <1>5 DEF StartCall
  <2>2. c \in Calls
    BY DEF TypeOK, Handler
  <2> QED
    BY <1>1, <1>2, <1>5, <2>1, <2>2, StartCallRows, MadeType DEF Made, StartCall
<1>6. CASE Finish(h)
  BY <1>1, <1>2, <1>6, WithResultRows, MadeType DEF Made, Finish
<1>7. ASSUME Act(h), ~Propose(h), ~Reject(h), ~StartCall(h), ~Finish(h) PROVE Same
  BY <1>7 DEF Act, Begin, Step, Evaluate, Pass, Block, List, Execute, Audit, Result, Fail,
    FailAfterReceipt
<1> QED
  BY <1>1, <1>2, <1>3, <1>4, <1>5, <1>6, <1>7 DEF Made

\* What is carried out and audited stays so.
LEMMA EffectiveStays ==
  ASSUME TypeOK, NEW h \in Handlers, Act(h), NEW c \in Made, Effective(c)
  PROVE  Effective(c)'
  BY Frame DEF Effective

\* A call is undecided only when it is new or was so before, and has succeeded
\* only when it had before, or is the one whose result h holds.
LEMMA StatusFrame ==
  ASSUME TypeOK, NEW h \in Handlers, BundleInOrder(h), Act(h)
  PROVE  /\ \A c \in Made : call'[c].status \in Listable => call[c].status \in Listable
         /\ \A c \in Made : call'[c].status = "succeeded" =>
              call[c].status = "succeeded" \/ Effective(c)
         /\ \A c \in Made' \ Made : call'[c].status # "succeeded"
<1> USE DEF db, priceframe
<1>1. CASE Propose(h)
  <2>1. made + 1 \notin Made /\ Made' = Made \cup {made + 1}
    BY <1>1, ProposeRows, MadeType DEF Made
  <2> QED
    BY <2>1, <1>1, ProposeRows, MadeType DEF Undecided
<1>2. CASE Reject(h)
  <2>1. Made' = Made
    BY <1>2 DEF Made, Reject
  <2> QED
    BY <1>2, <2>1, RejectRows, MadeType DEF Listable, Undecided
<1>3. ASSUME handler[h].at \in {"start", "finish"}, handler[h].current # 0
      PROVE  Effective(handler[h].current)
  BY <1>3 DEF BundleInOrder, HoldsResult
<1>4. CASE StartCall(h)
  <2>1. PICK c \in handler[h].todo : call' = [WithResult(h) EXCEPT ![c].status = "executing"]
    BY <1>4 DEF StartCall
  <2>2. c \in Calls
    BY DEF TypeOK, Handler
  <2>3. Made' = Made /\ \A d \in Made : d # 0
    BY <1>4 DEF Made, StartCall, TypeOK
  <2>4. \A d \in Calls : call'[d].status =
          IF d = c THEN "executing"
          ELSE IF d = handler[h].current THEN "succeeded" ELSE call[d].status
    BY <2>1, <2>2, StartCallRows, WithResultRows
  <2>5. handler[h].at = "start"
    BY <1>4 DEF StartCall
  <2> QED
    BY <1>3, <2>3, <2>4, <2>5, MadeType DEF Listable, Undecided
<1>5. CASE Finish(h)
  <2>1. Made' = Made /\ call' = WithResult(h) /\ handler[h].at = "finish"
    BY <1>5 DEF Made, Finish
  <2>2. \A d \in Made : d # 0
    BY DEF Made, TypeOK
  <2> QED
    BY <1>3, <2>1, <2>2, WithResultRows, MadeType DEF Listable, Undecided
<1>6. ASSUME ~Propose(h), ~Reject(h), ~StartCall(h), ~Finish(h)
      PROVE  call' = call /\ Made' = Made
  BY <1>6 DEF Act, Begin, Step, Evaluate, Pass, Block, List, Execute, Audit, Result, Fail,
    FailAfterReceipt, Made
<1> QED
  BY <1>1, <1>2, <1>4, <1>5, <1>6

\* The journal of starts grows only by StartCall.
LEMMA StartedFrame ==
  ASSUME TypeOK, NEW h \in Handlers, Act(h)
  PROVE  \/ started' = started /\ Len(started) \in Nat
         \/ \E c \in handler[h].todo :
              /\ started' = Append(started, [call |-> c, listed |-> handler[h].listed])
              /\ Len(started') = Len(started) + 1 /\ Len(started) \in Nat
              /\ started'[Len(started) + 1] = [call |-> c, listed |-> handler[h].listed]
              /\ \A i \in 1..Len(started) : started'[i] = started[i]
              /\ call'[c].status = "executing"
              /\ StartCall(h)
<1> USE DEF db, priceframe
<1>1. CASE StartCall(h)
  <2>1. PICK c \in handler[h].todo :
          /\ call' = [WithResult(h) EXCEPT ![c].status = "executing"]
          /\ started' = Append(started, [call |-> c, listed |-> handler[h].listed])
    BY <1>1 DEF StartCall
  <2>2. c \in Calls /\ handler[h].listed \in Nat
    BY DEF TypeOK, Handler
  <2>3. call'[c].status = "executing"
    <3>1. call' = [WithResult(h) EXCEPT ![c].status = "executing"]
      BY <2>1
    <3>2. \A d \in Calls : call'[d].status =
            IF d = c THEN "executing" ELSE WithResult(h)[d].status
      BY <2>2, <3>1, StartCallRows
    <3> QED
      BY <2>2, <3>2
  <2> QED
    BY <1>1, <2>1, <2>2, <2>3 DEF TypeOK
<1>2. ASSUME ~StartCall(h) PROVE started' = started
  BY <1>2 DEF Act, Begin, Step, Evaluate, Pass, Block, Propose, List, Reject, Execute,
    Audit, Result, Finish, Fail, FailAfterReceipt
<1>3. Len(started) \in Nat
  BY DEF TypeOK
<1> QED
  BY <1>1, <1>2, <1>3

-----------------------------------------------------------------------------
\* The handlers' part of the invariant.

HandlerInv(h) == BundleInOrder(h) /\ NoneYet(h) /\ QuoteInHand(h) /\ ListedUndecided(h)

\* A handler does not lose by what another one does.
LEMMA OthersKeep ==
  ASSUME TypeOK, NEW h \in Handlers, Act(h), NEW k \in Handlers \ {h}, HandlerInv(k)
  PROVE  HandlerInv(k)'
<1>1. handler'[k] = handler[k]
  BY Frame
<1>2. BundleInOrder(k)'
  <2>1. ASSUME NEW c \in Made, Effective(c) PROVE Effective(c)'
    BY <2>1, EffectiveStays
  <2>2. \A c \in Made : call'[c].step = call[c].step
    BY Frame
  <2>3. Made \subseteq Made' /\ done \subseteq done' /\ 0 \notin Made
    BY Frame DEF Made, TypeOK
  <2>4. HoldsResult(k)' = HoldsResult(k)
    BY <1>1 DEF HoldsResult
  <2>5. SUFFICES ASSUME handler[k].at \in {"reject", "start", "execute", "audit", "result", "finish"}
                 PROVE  BundleInOrder(k)'
    BY <1>1 DEF BundleInOrder
  <2>6. HoldsResult(k) => handler[k].current \in handler[k].bundle
    BY <2>5 DEF HandlerInv, BundleInOrder, HoldsResult
  <2> QED
    BY <1>1, <2>1, <2>2, <2>3, <2>4, <2>5, <2>6 DEF HandlerInv, BundleInOrder
<1>3. NoneYet(k)'
  BY <1>1 DEF HandlerInv, NoneYet
<1>4. QuoteInHand(k)'
  BY <1>1, Frame, EffectiveStays DEF HandlerInv, QuoteInHand
<1>5. ListedUndecided(k)'
  <2>1. handler[k].listed \in Nat
    BY DEF TypeOK, Handler
  <2>2. CASE started' = started
    BY <1>1, <2>2 DEF HandlerInv, ListedUndecided
  <2>3. ASSUME Len(started') = Len(started) + 1, Len(started) \in Nat,
               \A i \in 1..Len(started) : started'[i] = started[i]
        PROVE  ListedUndecided(k)'
    BY <1>1, <2>1, <2>3 DEF HandlerInv, ListedUndecided
  <2> QED
    BY <2>2, <2>3, StartedFrame
<1> QED
  BY <1>2, <1>3, <1>4, <1>5 DEF HandlerInv

\* A handler that has ended.
LEMMA DoneKeeps ==
  ASSUME TypeOK, NEW h \in Handlers, Done(h), started' = started
  PROVE  HandlerInv(h)'
<1>1. handler'[h] = Idle
  BY DoneKeepsType
<1>2. Len(started) \in Nat
  BY DEF TypeOK
<1> QED
  BY <1>1, <1>2 DEF Idle, HandlerInv, BundleInOrder, NoneYet, QuoteInHand, ListedUndecided

LEMMA BeginKeeps ==
  ASSUME TypeOK, NEW h \in Handlers, Begin(h)
  PROVE  HandlerInv(h)'
<1>1. /\ handler'[h].at \in {"evaluate", "list"} /\ handler'[h].current = 0
      /\ handler'[h].todo = {} /\ handler'[h].listed = 0
  BY DEF TypeOK, Begin, Idle
<1>2. started' = started /\ Len(started) \in Nat
  BY DEF TypeOK, Begin, db
<1> QED
  BY <1>1, <1>2 DEF HandlerInv, BundleInOrder, NoneYet, QuoteInHand, ListedUndecided

LEMMA EvaluateKeeps ==
  ASSUME TypeOK, NEW h \in Handlers, HandlerInv(h), SucceededIsEffective, Evaluate(h)
  PROVE  HandlerInv(h)'
<1>1. PICK q \in LatestCreatedQuote(handler[h].run) :
        handler' = [handler EXCEPT ![h].at = "advance", ![h].quote = q]
  BY DEF Evaluate
<1>2. /\ handler'[h].at = "advance" /\ handler'[h].quote = q
      /\ handler'[h].todo = handler[h].todo /\ handler'[h].listed = handler[h].listed
  BY <1>1 DEF TypeOK, Handler
<1>3. q # 0 => q \in Made /\ call[q].step \in CreateSteps /\ Effective(q)
  <2>1. handler[h].run \in Runs
    BY DEF TypeOK, Handler
  <2> QED
    BY <2>1, LatestIsCreated DEF SucceededIsEffective
<1>4. UNCHANGED <<call, made, started, done, audited>>
  BY DEF Evaluate, db, priceframe
<1>5. QuoteInHand(h)'
  BY <1>2, <1>3, <1>4 DEF QuoteInHand, Effective, Made
<1>6. BundleInOrder(h)' /\ NoneYet(h)'
  BY <1>2 DEF BundleInOrder, NoneYet
<1>7. ListedUndecided(h)'
  BY <1>2, <1>4 DEF ListedUndecided, HandlerInv
<1> QED
  BY <1>5, <1>6, <1>7 DEF HandlerInv

\* What was undecided when it was listed has not been started before.
LEMMA ListKeeps ==
  ASSUME TypeOK, NEW h \in Handlers, HandlerInv(h), StartedIsDecided, List(h)
  PROVE  HandlerInv(h)'
<1> DEFINE bundle == ListedFor(handler[h].run, handler[h].step)
<1>1. started' = started /\ call' = call /\ made' = made /\ Len(started) \in Nat
  BY DEF List, db, TypeOK
<1>2. CASE bundle = {}
  <2>1. Done(h)
    BY <1>2 DEF List, Done
  <2> QED
    BY <1>1, <2>1, DoneKeeps
<1>3. CASE bundle # {}
  <2>1. /\ handler'[h].at \in {"reject", "start"} /\ handler'[h].bundle = bundle
        /\ handler'[h].todo = bundle /\ handler'[h].listed = Len(started)
        /\ handler'[h].current = handler[h].current /\ handler'[h].step = handler[h].step
    BY <1>3 DEF List, TypeOK, Handler
  <2>2. handler[h].current = 0
    BY DEF HandlerInv, NoneYet, List
  <2>3. bundle \subseteq Made /\ \A c \in bundle :
          call[c].step = handler[h].step /\ call[c].status \in Listable
    BY DEF ListedFor
  <2>4. BundleInOrder(h)'
    BY <1>1, <1>3, <2>1, <2>2, <2>3 DEF BundleInOrder, HoldsResult, Made
  <2>5. ListedUndecided(h)'
    BY <1>1, <2>1, <2>3 DEF ListedUndecided, StartedIsDecided
  <2>6. NoneYet(h)' /\ QuoteInHand(h)'
    BY <2>1 DEF NoneYet, QuoteInHand
  <2> QED
    BY <2>4, <2>5, <2>6 DEF HandlerInv
<1> QED
  BY <1>2, <1>3

LEMMA StartCallKeeps ==
  ASSUME TypeOK, NEW h \in Handlers, HandlerInv(h), Act(h), StartCall(h)
  PROVE  HandlerInv(h)'
<1>1. PICK c \in handler[h].todo :
        /\ call' = [WithResult(h) EXCEPT ![c].status = "executing"]
        /\ started' = Append(started, [call |-> c, listed |-> handler[h].listed])
        /\ handler' = [handler EXCEPT ![h].at = "execute", ![h].current = c,
                                      ![h].todo = @ \ {c}]
  BY DEF StartCall
<1>2. /\ handler'[h].at = "execute" /\ handler'[h].current = c
      /\ handler'[h].todo = handler[h].todo \ {c}
      /\ handler'[h].bundle = handler[h].bundle /\ handler'[h].step = handler[h].step
      /\ handler'[h].listed = handler[h].listed
  BY <1>1 DEF TypeOK, Handler
<1>3. handler[h].at = "start" /\ made' = made
  BY DEF StartCall
<1>4. Made' = Made /\ 0 \notin Made
  BY <1>3 DEF Made, TypeOK
<1>5. \A d \in Made : Effective(d) => Effective(d)'
  BY EffectiveStays
<1>6. BundleInOrder(h)'
  <2>1. \A d \in Made : call'[d].step = call[d].step
    BY Frame
  <2>2. ASSUME NEW d \in handler[h].bundle, d \notin handler[h].todo PROVE Effective(d)
    BY <1>3, <1>4, <2>2 DEF HandlerInv, BundleInOrder, HoldsResult
  <2>3. ~HoldsResult(h)'
    BY <1>2 DEF HoldsResult
  <2> QED
    BY <1>2, <1>3, <1>4, <1>5, <2>1, <2>2, <2>3 DEF HandlerInv, BundleInOrder
<1>7. NoneYet(h)' /\ QuoteInHand(h)'
  BY <1>2 DEF NoneYet, QuoteInHand
<1>8. ListedUndecided(h)'
  <2>1. /\ Len(started') = Len(started) + 1 /\ Len(started) \in Nat
        /\ started'[Len(started) + 1].call = c
        /\ \A i \in 1..Len(started) : started'[i] = started[i]
        /\ handler[h].listed \in Nat
    <3>1. c \in Calls /\ handler[h].listed \in Nat
      BY DEF TypeOK, Handler
    <3> QED
      BY <1>1, <3>1 DEF TypeOK
  <2> QED
    BY <1>2, <2>1 DEF ListedUndecided, HandlerInv
<1> QED
  BY <1>6, <1>7, <1>8 DEF HandlerInv

\* Executing, auditing and recording a result.
LEMMA WorkKeeps ==
  ASSUME TypeOK, NEW h \in Handlers, HandlerInv(h), Act(h),
         Execute(h) \/ Audit(h) \/ Result(h)
  PROVE  HandlerInv(h)'
<1>1. /\ handler'[h].current = handler[h].current /\ handler'[h].todo = handler[h].todo
      /\ handler'[h].bundle = handler[h].bundle /\ handler'[h].step = handler[h].step
      /\ handler'[h].listed = handler[h].listed
  BY DEF TypeOK, Handler, Execute, Audit, Result
<1>2. UNCHANGED <<call, made, started>>
  BY DEF Execute, Audit, Result, db
<1>3. \A d \in Made : Effective(d) => Effective(d)'
  BY EffectiveStays
<1>4. /\ handler[h].at \in {"execute", "audit", "result"}
      /\ handler'[h].at \in {"audit", "result", "start", "finish"}
      /\ handler'[h].at = "start" => handler[h].todo # {}
      /\ handler'[h].at = "finish" => handler[h].todo = {}
      /\ handler'[h].at = "audit" => handler[h].current \in done'
  BY DEF TypeOK, Handler, Execute, Audit, Result
<1>5. /\ handler[h].current \in handler[h].bundle /\ handler[h].bundle \subseteq Made
      /\ call[handler[h].current].step = handler[h].step
  BY <1>4 DEF HandlerInv, BundleInOrder
<1>6. handler'[h].at # "audit" => Effective(handler[h].current)'
  <2>1. CASE Execute(h)
    BY <1>2, <1>5, <2>1 DEF Execute, Effective, TypeOK, Handler
  <2>2. CASE Audit(h)
    BY <1>2, <1>5, <2>2 DEF Audit, Effective, HandlerInv, BundleInOrder
  <2>3. CASE Result(h)
    <3>1. Effective(handler[h].current)
      BY <2>3 DEF Result, HandlerInv, BundleInOrder, HoldsResult
    <3> QED
      BY <1>1, <1>2, <2>3, <3>1 DEF Result, Effective, priceframe
  <2> QED
    BY <2>1, <2>2, <2>3
<1>7. BundleInOrder(h)'
  <2>1. Made' = Made
    BY <1>2 DEF Made
  <2>2. HoldsResult(h)' => handler'[h].at # "audit"
    BY DEF HoldsResult
  <2> QED
    BY <1>1, <1>2, <1>3, <1>4, <1>5, <1>6, <2>1, <2>2 DEF HandlerInv, BundleInOrder
<1>8. NoneYet(h)' /\ QuoteInHand(h)'
  BY <1>4 DEF NoneYet, QuoteInHand
<1>9. ListedUndecided(h)'
  BY <1>1, <1>2 DEF HandlerInv, ListedUndecided
<1> QED
  BY <1>7, <1>8, <1>9 DEF HandlerInv

LEMMA HandlersKeep ==
  ASSUME TypeOK, NEW h \in Handlers, Act(h), \A k \in Handlers : HandlerInv(k),
         SucceededIsEffective, StartedIsDecided
  PROVE  \A k \in Handlers : HandlerInv(k)'
<1>1. ASSUME Pass(h) \/ Block(h) \/ Propose(h) \/ Reject(h) \/ Finish(h) \/ Fail(h)
               \/ FailAfterReceipt(h)
      PROVE  HandlerInv(h)'
  BY <1>1, DoneKeeps DEF Pass, Block, Propose, Reject, Finish, Fail, FailAfterReceipt,
    Abandon, db
<1>2. HandlerInv(h)'
  BY <1>1, BeginKeeps, EvaluateKeeps, ListKeeps, StartCallKeeps, WorkKeeps DEF Act, Step
<1> QED
  BY <1>2, OthersKeep

-----------------------------------------------------------------------------
\* The rest of the invariant.

LEMMA SucceededKept ==
  ASSUME TypeOK, NEW h \in Handlers, BundleInOrder(h), Act(h), SucceededIsEffective
  PROVE  SucceededIsEffective'
<1> SUFFICES ASSUME NEW c \in Made', call'[c].status = "succeeded"
             PROVE  Effective(c)'
  BY DEF SucceededIsEffective
<1>1. c \in Made /\ Effective(c)
  BY StatusFrame DEF SucceededIsEffective
<1> QED
  BY <1>1, EffectiveStays

LEMMA StartedKept ==
  ASSUME TypeOK, NEW h \in Handlers, HandlerInv(h), Act(h), StartedIsDecided
  PROVE  StartedIsDecided'
<1>1. \A c \in Made : call[c].status \notin Listable => call'[c].status \notin Listable
  BY StatusFrame DEF HandlerInv
<1>2. Made \subseteq Made'
  BY Frame
<1>3. CASE started' = started
  BY <1>1, <1>2, <1>3 DEF StartedIsDecided, Listable
<1>4. ASSUME NEW c \in handler[h].todo, StartCall(h), call'[c].status = "executing",
             Len(started') = Len(started) + 1, Len(started) \in Nat,
             started'[Len(started) + 1] = [call |-> c, listed |-> handler[h].listed],
             \A i \in 1..Len(started) : started'[i] = started[i]
      PROVE  StartedIsDecided'
  <2>1. c \in Made
    BY <1>4 DEF HandlerInv, BundleInOrder, StartCall
  <2>2. ASSUME NEW i \in 1..Len(started')
        PROVE  started'[i].call \in Made' /\ call'[started'[i].call].status \notin Listable'
    <3>1. CASE i \in 1..Len(started)
      BY <1>1, <1>2, <1>4, <3>1 DEF StartedIsDecided, Listable
    <3>2. CASE i = Len(started) + 1
      BY <1>2, <1>4, <2>1, <3>2 DEF Listable, Undecided
    <3> QED
      BY <1>4, <3>1, <3>2
  <2> QED
    BY <2>2 DEF StartedIsDecided
<1> QED
  BY <1>3, <1>4, StartedFrame

\* A start that repeats an earlier one was listed before it.
LEMMA RetryKept ==
  ASSUME TypeOK, NEW h \in Handlers, HandlerInv(h), Act(h), RetryNeverReexecutes
  PROVE  RetryNeverReexecutes'
<1>1. CASE started' = started
  BY <1>1 DEF RetryNeverReexecutes
<1>2. ASSUME NEW c \in handler[h].todo,
             Len(started') = Len(started) + 1, Len(started) \in Nat,
             started'[Len(started) + 1] = [call |-> c, listed |-> handler[h].listed],
             \A i \in 1..Len(started) : started'[i] = started[i]
      PROVE  RetryNeverReexecutes'
  <2> SUFFICES ASSUME NEW i \in 1..Len(started'), NEW j \in 1..Len(started'),
                      i < j, started'[i].call = started'[j].call
               PROVE  started'[j].listed < i
    BY DEF RetryNeverReexecutes
  <2>1. i \in 1..Len(started) /\ started'[i] = started[i]
    BY <1>2
  <2>2. CASE j \in 1..Len(started)
    BY <1>2, <2>1, <2>2 DEF RetryNeverReexecutes
  <2>3. CASE j = Len(started) + 1
    BY <1>2, <2>1, <2>3 DEF HandlerInv, ListedUndecided
  <2> QED
    BY <1>2, <2>2, <2>3
<1> QED
  BY <1>1, <1>2, StartedFrame

\* A call is proposed with the quote its handler has in hand.
LEMMA QuoteKept ==
  ASSUME TypeOK, NEW h \in Handlers, HandlerInv(h), Act(h), QuoteWasCreated
  PROVE  QuoteWasCreated'
<1> SUFFICES ASSUME NEW c \in Made', call'[c].step \in QuoteSteps
             PROVE  LET q == call'[c].quote
                    IN  /\ q \in Made' /\ q < c /\ call'[q].step \in CreateSteps
                        /\ q \in done' /\ (call'[q].step \notin ReadSteps => q \in audited')
  BY DEF QuoteWasCreated, Effective
<1>1. \A q \in Made : Effective(q) =>
        /\ q \in Made' /\ call'[q].step = call[q].step
        /\ q \in done' /\ (call'[q].step \notin ReadSteps => q \in audited')
  BY Frame DEF Effective
<1>2. CASE c \in Made
  <2>1. call'[c].step = call[c].step /\ call'[c].quote = call[c].quote
    BY <1>2, Frame
  <2> QED
    BY <1>1, <1>2, <2>1 DEF QuoteWasCreated
<1>3. CASE c \notin Made
  <2>1. Propose(h)
    BY <1>3 DEF Act, Begin, Step, Evaluate, Pass, Block, List, Reject, StartCall, Execute,
      Audit, Result, Finish, Fail, FailAfterReceipt, db, Made
  <2>2. c = made + 1
    BY <1>3, <2>1, ProposeRows, MadeType DEF Made
  <2>3. call'[c].step = handler[h].step /\ handler[h].step \in QuoteSteps
    BY <2>1, <2>2, ProposeRows
  <2>4. call'[c].quote = handler[h].quote /\ handler[h].quote # 0
    BY <2>1, <2>2, <2>3, ProposeRows DEF Propose, QuoteKnown
  <2>5. LET q == handler[h].quote
        IN  q \in Made /\ call[q].step \in CreateSteps /\ Effective(q)
    BY <2>1, <2>4 DEF HandlerInv, QuoteInHand, Propose
  <2>6. handler[h].quote < c
    BY <2>2, <2>5, MadeType DEF Made
  <2> QED
    BY <1>1, <2>4, <2>5, <2>6
<1> QED
  BY <1>2, <1>3

\* The events of the journal, and the one a step may add.
LEMMA ApprovalsKept ==
  ASSUME TypeOK, NEW h \in Handlers, HandlerInv(h), Act(h), EventsNameCalls,
         ApprovedStepWasExecuted
  PROVE  EventsNameCalls' /\ ApprovedStepWasExecuted'
<1> DEFINE Said(e) == e.type = "approved" /\ e.step \notin PlainSteps =>
             e.calls # {} /\ \A c \in e.calls : call[c].step = e.step /\ Effective(c)
<1>1. ASSUME NEW c \in Made PROVE c \in Made' /\ call'[c].step = call[c].step
                                  /\ (Effective(c) => Effective(c)')
  BY Frame, EffectiveStays
<1>2. ASSUME NEW e \in events PROVE e.calls \subseteq Made' /\ Said(e)'
  BY <1>1 DEF EventsNameCalls, ApprovedStepWasExecuted
<1>3. ASSUME NEW e \in events', e \notin events PROVE e.calls \subseteq Made' /\ Said(e)'
  <2>1. CASE Pass(h)
    <3>1. e.calls = {} /\ e.step \in PlainSteps
      BY <1>3, <2>1 DEF Pass, Announce
    <3> QED
      BY <3>1
  <2>2. CASE Block(h)
    <3>1. e.calls = {} /\ e.type = "blocked"
      BY <1>3, <2>2 DEF Block, Announce
    <3> QED
      BY <3>1
  <2>3. CASE Propose(h)
    <3>1. e.calls = {made + 1} /\ e.type = "requested"
      BY <1>3, <2>3 DEF Propose, Announce
    <3>2. made + 1 \in Made'
      BY <2>3, ProposeRows, MadeType DEF Made
    <3> QED
      BY <3>1, <3>2
  <2>4. CASE Reject(h)
    <3>1. e.calls = handler[h].bundle /\ e.type = "rejected"
      BY <1>3, <2>4 DEF Reject, Announce
    <3>2. handler[h].bundle \subseteq Made
      BY <2>4 DEF Reject, HandlerInv, BundleInOrder
    <3> QED
      BY <1>1, <3>1, <3>2
  <2>5. CASE Finish(h)
    <3>1. e.calls = handler[h].bundle /\ e.step = handler[h].step
      BY <1>3, <2>5 DEF Finish, Announce
    <3>2. /\ handler[h].bundle \subseteq Made /\ handler[h].bundle # {}
          /\ \A c \in handler[h].bundle : call[c].step = handler[h].step /\ Effective(c)
      BY <2>5 DEF Finish, HandlerInv, BundleInOrder, HoldsResult
    <3> QED
      BY <1>1, <3>1, <3>2
  <2>6. Pass(h) \/ Block(h) \/ Propose(h) \/ Reject(h) \/ Finish(h)
    BY <1>3 DEF Act, Begin, Step, Evaluate, List, StartCall, Execute, Audit, Result, Fail,
      FailAfterReceipt, db
  <2> QED
    BY <2>1, <2>2, <2>3, <2>4, <2>5, <2>6
<1> QED
  BY <1>2, <1>3 DEF EventsNameCalls, ApprovedStepWasExecuted

-----------------------------------------------------------------------------
\* The invariant, and what it gives.

LEMMA NextIInv == IInv /\ [Next]_vars => IInv'
<1> SUFFICES ASSUME IInv, [Next]_vars PROVE IInv'
  OBVIOUS
<1>1. TypeOK /\ \A k \in Handlers : HandlerInv(k)
  BY DEF IInv, HandlerInv
<1>2. ASSUME NEW h \in Handlers, Act(h) PROVE IInv'
  <2>1. TypeOK'
    BY <1>1, <1>2, TypeNext DEF HandlerInv
  <2>2. \A k \in Handlers : HandlerInv(k)'
    BY <1>1, <1>2, HandlersKeep DEF IInv
  <2>3. SucceededIsEffective' /\ StartedIsDecided'
    BY <1>1, <1>2, SucceededKept, StartedKept DEF IInv, HandlerInv
  <2>4. RetryNeverReexecutes' /\ QuoteWasCreated'
    BY <1>1, <1>2, RetryKept, QuoteKept DEF IInv
  <2>5. EventsNameCalls' /\ ApprovedStepWasExecuted'
    BY <1>1, <1>2, ApprovalsKept DEF IInv
  <2> QED
    BY <2>1, <2>2, <2>3, <2>4, <2>5 DEF IInv, HandlerInv
<1>3. CASE UNCHANGED vars
  BY <1>3 DEF vars, db, priceframe, IInv, TypeOK, BundleInOrder, NoneYet, QuoteInHand,
    ListedUndecided, EventsNameCalls, SucceededIsEffective, StartedIsDecided,
    ApprovedStepWasExecuted, QuoteWasCreated, RetryNeverReexecutes, Made, Effective,
    HoldsResult, Listable
<1> QED
  BY <1>2, <1>3 DEF Next, Act

\* The inductive invariant holds in every behaviour of the wizard's steps.
THEOREM Invariance == Spec => []IInv
  BY InitIInv, NextIInv, PTL DEF Spec

\* Every variable keeps its type, whatever requests, failures and retries come.
THEOREM TypeCorrect == Spec => []TypeOK
<1>1. IInv => TypeOK
  BY DEF IInv
<1> QED
  BY <1>1, Invariance, PTL

\* decide_step_advance announces a step as approved only when every call of its
\* bundle was carried out, and audited if it writes.
THEOREM ApprovedWasExecuted == Spec => []ApprovedStepWasExecuted
<1>1. IInv => ApprovedStepWasExecuted
  BY DEF IInv
<1> QED
  BY <1>1, Invariance, PTL

\* A call proposed by request_step_advance names a quote that exists, with its
\* audit, in PriceFRAME.
THEOREM QuotesExist == Spec => []QuoteWasCreated
<1>1. IInv => QuoteWasCreated
  BY DEF IInv
<1> QED
  BY <1>1, Invariance, PTL

\* A decision that is sent again, after any failure, executes no call that had
\* been started when it listed the step's calls.
THEOREM RetriesAreSafe == Spec => []RetryNeverReexecutes
<1>1. IInv => RetryNeverReexecutes
  BY DEF IInv
<1> QED
  BY <1>1, Invariance, PTL
-----------------------------------------------------------------------------
\* The owner of a call that is executing.

Busy == {"start", "execute", "audit", "result", "finish"}

\* What h makes of its place, its call and its todo list.
LEMMA OwnerFrame ==
  ASSUME TypeOK, NEW h \in Handlers, Act(h)
  PROVE  \/ handler'[h].current = 0 /\ handler'[h].todo = {}
         \/ /\ List(h) /\ handler'[h].current = handler[h].current
            /\ handler'[h].todo \subseteq Made
         \/ /\ StartCall(h)
            /\ handler'[h].current \in handler[h].todo
            /\ handler'[h].todo = handler[h].todo \ {handler'[h].current}
         \/ /\ handler'[h].current = handler[h].current
            /\ handler'[h].todo = handler[h].todo
            /\ handler'[h].at \in Busy => PlacesLeft(h)' < PlacesLeft(h)
<1>1. CASE Begin(h)
  BY <1>1 DEF TypeOK, Begin, Idle
<1>2. CASE Pass(h) \/ Block(h) \/ Propose(h) \/ Reject(h) \/ Finish(h) \/ Fail(h) \/ FailAfterReceipt(h)
  <2>1. handler'[h] = Idle
    BY <1>2, DoneKeepsType DEF Pass, Block, Propose, Reject, Finish, Fail, FailAfterReceipt, Abandon
  <2> QED
    BY <2>1 DEF Idle
<1>3. CASE Evaluate(h)
  BY <1>3 DEF TypeOK, Evaluate, Handler, Busy
<1>4. CASE List(h)
  BY <1>4 DEF TypeOK, List, ListedFor, Handler, Idle
<1>5. CASE StartCall(h)
  <2>1. PICK c \in handler[h].todo :
          handler' = [handler EXCEPT ![h].at = "execute", ![h].current = c, ![h].todo = @ \ {c}]
    BY <1>5 DEF StartCall
  <2>2. handler'[h].current = c /\ handler'[h].todo = handler[h].todo \ {c}
    BY <2>1 DEF TypeOK, Handler
  <2> QED
    BY <1>5, <2>2
<1>6. CASE Execute(h) \/ Audit(h) \/ Result(h)
  BY <1>6 DEF TypeOK, Execute, Audit, Result, Handler, PlacesLeft
<1> QED
  BY <1>1, <1>2, <1>3, <1>4, <1>5, <1>6 DEF Act, Step

\* A call that is executing was so before, or is the one that h starts; and it is
\* not the one that h has settled.
LEMMA ExecutingFrame ==
  ASSUME TypeOK, NEW h \in Handlers, BundleInOrder(h), Act(h),
         NEW c \in Made', call'[c].status = "executing"
  PROVE  \/ StartCall(h) /\ handler'[h].current = c /\ handler'[h].at = "execute"
         \/ /\ c \in Made /\ call[c].status = "executing"
            /\ UnderWay(h, c) => \/ c \in abandoned'
                                 \/ UnderWay(h, c)'
<1> USE DEF db, priceframe
<1>1. CASE Propose(h)
  <2>1. c # made + 1 => c \in Made
    BY <1>1, ProposeRows, MadeType DEF Made
  <2>2. c # made + 1
    BY <1>1, ProposeRows DEF Undecided
  <2>3. call[c].status = "executing"
    BY <1>1, <2>1, <2>2, ProposeRows, MadeType
  <2> QED
    BY <1>1, <2>1, <2>2, <2>3 DEF Propose, UnderWay
<1>2. CASE Reject(h)
  BY <1>2, RejectRows, MadeType DEF Made, Reject, UnderWay
<1>3. CASE StartCall(h)
  <2>1. PICK d \in handler[h].todo :
          /\ call' = [WithResult(h) EXCEPT ![d].status = "executing"]
          /\ handler' = [handler EXCEPT ![h].at = "execute", ![h].current = d,
                                        ![h].todo = @ \ {d}]
    BY <1>3 DEF StartCall
  <2>2. d \in Calls /\ handler'[h].current = d /\ handler'[h].at = "execute"
    BY <2>1 DEF TypeOK, Handler
  <2>3. c \in Made /\ c \in Calls
    BY <1>3, MadeType DEF Made, StartCall
  <2>4. CASE c = d
    BY <1>3, <2>2, <2>4
  <2>5. CASE c # d
    <3>1. call'[c].status = WithResult(h)[c].status
      BY <2>1, <2>2, <2>3, <2>5, StartCallRows
    <3>2. c # handler[h].current /\ call[c].status = "executing"
      BY <2>3, <3>1, WithResultRows
    <3> QED
      BY <2>3, <3>2 DEF UnderWay
  <2> QED
    BY <2>4, <2>5
<1>4. CASE Finish(h)
  <2>1. c \in Made /\ c \in Calls /\ call' = WithResult(h)
    BY <1>4, MadeType DEF Made, Finish
  <2>2. c # handler[h].current /\ call[c].status = "executing"
    BY <2>1, WithResultRows
  <2> QED
    BY <2>1, <2>2 DEF UnderWay
<1>5. ASSUME ~Propose(h), ~Reject(h), ~StartCall(h), ~Finish(h)
      PROVE  c \in Made /\ call[c].status = "executing"
  BY <1>5 DEF Act, Begin, Step, Evaluate, Pass, Block, List, Execute, Audit, Result, Fail,
    FailAfterReceipt, Made
<1>6. CASE Execute(h) \/ Audit(h) \/ Result(h)
  <2>1. handler'[h].current = handler[h].current /\ handler'[h].at \in Busy
    BY <1>6 DEF TypeOK, Execute, Audit, Result, Handler, Busy
  <2> QED
    BY <1>5, <1>6, <2>1 DEF UnderWay, Busy, Execute, Audit, Result, StartCall, Finish, Propose, Reject
<1>7. CASE Fail(h) \/ FailAfterReceipt(h)
  <2>1. c # 0
    BY MadeType DEF Fail, FailAfterReceipt, Made
  <2>2. UnderWay(h, c) => c \in abandoned'
    BY <1>7, <2>1 DEF Fail, FailAfterReceipt, Abandon, UnderWay
  <2>3. c \in Made /\ call[c].status = "executing"
    BY <1>7 DEF Fail, FailAfterReceipt, Made
  <2> QED
    BY <2>2, <2>3
<1>8. CASE Begin(h) \/ Evaluate(h) \/ List(h) \/ Pass(h) \/ Block(h)
  <2>1. ~UnderWay(h, c)
    BY <1>8 DEF Begin, Evaluate, List, Pass, Block, UnderWay
  <2>2. c \in Made /\ call[c].status = "executing"
    BY <1>8 DEF Begin, Evaluate, List, Pass, Block, Made
  <2> QED
    BY <2>1, <2>2
<1> QED
  BY <1>1, <1>2, <1>3, <1>4, <1>6, <1>7, <1>8 DEF Act, Step

LEMMA AbandonedStays ==
  ASSUME NEW h \in Handlers, Act(h)
  PROVE  abandoned \subseteq abandoned'
  BY DEF Act, Begin, Step, Evaluate, Pass, Block, Propose, List, Reject, StartCall,
    Execute, Audit, Result, Finish, Fail, FailAfterReceipt, Abandon

LEMMA OwnerKept ==
  ASSUME IInv, ExecutingHasOwner, NEW h \in Handlers, Act(h)
  PROVE  ExecutingHasOwner'
<1>1. TypeOK /\ BundleInOrder(h)
  BY DEF IInv
<1> SUFFICES ASSUME NEW c \in Made', call'[c].status = "executing"
             PROVE  c \in abandoned' \/ \E k \in Handlers : UnderWay(k, c)'
  BY DEF ExecutingHasOwner
<1>2. CASE StartCall(h) /\ handler'[h].current = c /\ handler'[h].at = "execute"
  BY <1>2 DEF UnderWay
<1>3. ASSUME c \in Made, call[c].status = "executing",
             UnderWay(h, c) => c \in abandoned' \/ UnderWay(h, c)'
      PROVE  c \in abandoned' \/ \E k \in Handlers : UnderWay(k, c)'
  <2>1. c \in abandoned \/ \E k \in Handlers : UnderWay(k, c)
    BY <1>3 DEF ExecutingHasOwner
  <2>2. CASE c \in abandoned
    BY <2>2, AbandonedStays
  <2>3. ASSUME NEW k \in Handlers, UnderWay(k, c), k # h PROVE UnderWay(k, c)'
    BY <1>1, <2>3, Frame DEF UnderWay
  <2> QED
    BY <1>3, <2>1, <2>2, <2>3
<1> QED
  BY <1>1, <1>2, <1>3, ExecutingFrame

LEMMA CurrentIsTaken ==
  ASSUME OwnerInv, NEW h \in Handlers, Act(h), NEW k \in Handlers
  PROVE  handler'[k].current \notin handler'[k].todo
<1>1. TypeOK
  BY DEF OwnerInv, IInv
<1>2. CASE k # h
  BY <1>1, <1>2, Frame DEF OwnerInv
<1>3. ASSUME List(h) PROVE handler[h].current \notin Made
  <2>1. handler[h].current = 0
    BY <1>3 DEF OwnerInv, IInv, NoneYet, List
  <2> QED
    BY <1>1, <2>1 DEF Made, TypeOK
<1>4. CASE k = h
  BY <1>1, <1>3, <1>4, OwnerFrame DEF OwnerInv
<1> QED
  BY <1>2, <1>4

\* A handler with a call under way goes on, or leaves the call.
LEMMA OwnerMoves ==
  ASSUME OwnerInv, NEW g \in Handlers, Act(g), NEW h \in Handlers, NEW c \in Calls,
         UnderWay(h, c), UnderWay(h, c)'
  PROVE  handler'[h] = handler[h] \/ PlacesLeft(h)' < PlacesLeft(h)
<1>1. TypeOK /\ c # 0
  BY StepsAssumption DEF OwnerInv, IInv, Calls
<1>2. CASE g # h
  BY <1>1, <1>2, Frame
<1>3. CASE g = h
  <2>1. ~List(h)
    BY DEF List, UnderWay
  <2>2. ~(handler'[h].current \in handler[h].todo)
    BY DEF OwnerInv, UnderWay
  <2>3. handler'[h].current # 0 /\ handler'[h].at \in Busy
    BY <1>1 DEF UnderWay, Busy
  <2> QED
    BY <1>1, <1>3, <2>1, <2>2, <2>3, OwnerFrame
<1> QED
  BY <1>2, <1>3

LEMMA InitOwnerInv == Init => OwnerInv
  BY InitIInv DEF Init, OwnerInv, ExecutingHasOwner, NoRow, Made, Idle

LEMMA NextOwnerInv == OwnerInv /\ [Next]_vars => OwnerInv'
<1> SUFFICES ASSUME OwnerInv, [Next]_vars PROVE OwnerInv'
  OBVIOUS
<1>1. IInv'
  BY NextIInv DEF OwnerInv
<1>2. ASSUME NEW h \in Handlers, Act(h) PROVE OwnerInv'
  BY <1>1, <1>2, OwnerKept, CurrentIsTaken DEF OwnerInv
<1>3. CASE UNCHANGED vars
  BY <1>1, <1>3 DEF vars, db, OwnerInv, ExecutingHasOwner, UnderWay, Made
<1> QED
  BY <1>2, <1>3 DEF Next, Act

\* A call that decide_step_advance has committed as executing always has a handler
\* that holds it, or one that failed: the safety half of BundleSettles.
THEOREM ExecutingIsOwned == Spec => []ExecutingHasOwner
<1>1. OwnerInv => ExecutingHasOwner
  BY DEF OwnerInv
<1> QED
  BY <1>1, InitOwnerInv, NextOwnerInv, PTL DEF Spec

\* The handler of such a call only goes on towards its settling, at most three
\* places, whatever other requests do: with fairness it gets there.
THEOREM OwnersGoOn == Spec => OwnerGoesOn
<1> DEFINE A == \A h \in Handlers : \A c \in Calls :
                  UnderWay(h, c) /\ UnderWay(h, c)' =>
                    handler'[h] = handler[h] \/ PlacesLeft(h)' < PlacesLeft(h)
<1>1. ASSUME OwnerInv, [Next]_vars PROVE [A]_vars
  <2>1. CASE UNCHANGED vars
    BY <2>1
  <2>2. ASSUME NEW g \in Handlers, Act(g) PROVE A
    BY <1>1, <2>2, OwnerMoves
  <2> QED
    BY <1>1, <2>1, <2>2 DEF Next, Act
<1> QED
  BY <1>1, InitOwnerInv, NextOwnerInv, PTL DEF Spec, OwnerGoesOn
=============================================================================
