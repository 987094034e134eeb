------------------------ MODULE KeyedRequests_proofs ------------------------
(***************************************************************************)
(* Proofs about KeyedRequests, for any keys and any number of requests and  *)
(* crashes: one resource for each key of create_conversation and start_run, *)
(* answers to a key that agree, and a queued run that is on its way or      *)
(* known to be lost.                                                        *)
(***************************************************************************)
EXTENDS KeyedRequests, TLAPS

LEMMA InitIInv == Init => IInv
<1> SUFFICES ASSUME Init PROVE IInv
  OBVIOUS
<1>1. (CHOOSE k \in Keys : TRUE) \in Keys
  BY KeysAssumption
<1>2. TypeOK
  BY <1>1, KeysAssumption DEF Init, TypeOK, NoRow
<1> QED
  BY <1>2 DEF Init, IInv, RowsPoint, InRow, InPlace, QueuedIsOnItsWay, NoRow, At, Row, Key

LEMMA NextIInv == IInv /\ [Next]_vars => IInv'
<1> SUFFICES ASSUME IInv, [Next]_vars PROVE IInv'
  OBVIOUS
<1> USE DEF IInv
<1>0. TypeOK /\ 0 \notin Attempts /\ StartKeys \cap SendKeys = {}
  BY KeysAssumption DEF Attempts
<1>1. CASE UNCHANGED vars
  BY <1>1 DEF TypeOK, RowsPoint, Created, InRow, InPlace, QueuedIsOnItsWay,
    At, Row, Key, vars
<1>2. ASSUME NEW a \in Attempts, NEW k \in Keys, Request(a, k) PROVE IInv'
  <2>1. TypeOK'
    BY <1>0, <1>2 DEF Request, TypeOK
  <2>2. RowsPoint'
    BY <1>0, <1>2 DEF Request, RowsPoint, Created, Key, TypeOK, Row, InRow, InPlace,
      At
  <2>3. \A b \in Attempts : InRow(b)'
    BY <1>0, <1>2 DEF Request, InRow, Row, Key, TypeOK, InPlace, At
  <2>4. \A b \in Attempts : InPlace(b)'
    BY <1>0, <1>2 DEF Request, InPlace, At, Key, TypeOK
  <2>5. QueuedIsOnItsWay'
    BY <1>0, <1>2 DEF Request, QueuedIsOnItsWay, TypeOK, InPlace, At, Key
  <2> QED
    BY <2>1, <2>2, <2>3, <2>4, <2>5
<1>3. ASSUME NEW a \in Attempts, Replay(a) PROVE IInv'
  <2>1. TypeOK'
    BY <1>0, <1>3 DEF Replay, Answer, Goto, TypeOK, InPlace, At, Row, Key
  <2>2. RowsPoint'
    BY <1>0, <1>3 DEF Replay, Answer, Goto, RowsPoint, Created, Key, TypeOK
  <2>3. \A b \in Attempts : InRow(b)'
    BY <1>0, <1>3 DEF Replay, Answer, Goto, InRow, Row, Key, TypeOK
  <2>4. \A b \in Attempts : InPlace(b)'
    BY <1>0, <1>3 DEF Replay, Answer, Goto, InPlace, At, Key, TypeOK
  <2>5. QueuedIsOnItsWay'
    BY <1>0, <1>3 DEF Replay, Answer, Goto, QueuedIsOnItsWay, TypeOK, InPlace, At,
      Key
  <2> QED
    BY <2>1, <2>2, <2>3, <2>4, <2>5
<1>4. ASSUME NEW a \in Attempts, NoReplay(a) PROVE IInv'
  <2>1. TypeOK'
    BY <1>0, <1>4 DEF NoReplay, Goto, TypeOK
  <2>2. RowsPoint'
    BY <1>0, <1>4 DEF NoReplay, Goto, RowsPoint, Created, Key, TypeOK
  <2>3. \A b \in Attempts : InRow(b)'
    BY <1>0, <1>4 DEF NoReplay, Goto, InRow, Row, Key, TypeOK
  <2>4. \A b \in Attempts : InPlace(b)'
    BY <1>0, <1>4 DEF NoReplay, Goto, InPlace, At, Key, TypeOK
  <2>5. QueuedIsOnItsWay'
    BY <1>0, <1>4 DEF NoReplay, Goto, QueuedIsOnItsWay, TypeOK
  <2> QED
    BY <2>1, <2>2, <2>3, <2>4, <2>5
<1>5. ASSUME NEW a \in Attempts, CreateConversation(a) PROVE IInv'
  <2>1. TypeOK'
    BY <1>0, <1>5 DEF CreateConversation, StoreReplay, Answer, Goto, TypeOK
  <2>2. RowsPoint'
    BY <1>0, <1>5 DEF CreateConversation, StoreReplay, Answer, Goto, RowsPoint,
      Created, Key, TypeOK
  <2>3. \A b \in Attempts : InRow(b)'
    BY <1>0, <1>5 DEF CreateConversation, StoreReplay, Answer, Goto, InRow, Row,
      Key, TypeOK
  <2>4. \A b \in Attempts : InPlace(b)'
    BY <1>0, <1>5 DEF CreateConversation, StoreReplay, Answer, Goto, InPlace, At,
      Key, TypeOK
  <2>5. QueuedIsOnItsWay'
    BY <1>0, <1>5 DEF CreateConversation, StoreReplay, Answer, Goto,
      QueuedIsOnItsWay, TypeOK
  <2> QED
    BY <2>1, <2>2, <2>3, <2>4, <2>5
<1>6. ASSUME NEW a \in Attempts, StartRun(a) PROVE IInv'
  <2>1. TypeOK'
    BY <1>0, <1>6 DEF StartRun, StoreReplay, Goto, TypeOK
  <2>2. RowsPoint'
    BY <1>0, <1>6 DEF StartRun, StoreReplay, Goto, RowsPoint, Created, Key, TypeOK
  <2>3. \A b \in Attempts : InRow(b)'
    BY <1>0, <1>6 DEF StartRun, StoreReplay, Goto, InRow, Row, Key, TypeOK
  <2>4. \A b \in Attempts : InPlace(b)'
    BY <1>0, <1>6 DEF StartRun, StoreReplay, Goto, InPlace, At, Key, TypeOK, Row,
      InRow
  <2>5. QueuedIsOnItsWay'
    BY <1>0, <1>6 DEF StartRun, StoreReplay, Goto, QueuedIsOnItsWay, TypeOK
  <2> QED
    BY <2>1, <2>2, <2>3, <2>4, <2>5
<1>7. ASSUME NEW a \in Attempts, Enqueue(a) PROVE IInv'
  <2> DEFINE enqueued ==
        /\ At(a, "dispatch") /\ job' = [job EXCEPT ![a] = "queued"]
        /\ UNCHANGED <<mode, key_row, resource, lost, crashes>>
  <2>0. /\ enqueued
        /\ \/ answer' = [answer EXCEPT ![a] = a] /\ attempt' = [attempt EXCEPT ![a].at = "answered"]
           \/ attempt' = [attempt EXCEPT ![a].at = "failed"] /\ UNCHANGED answer
    BY <1>7 DEF Enqueue, Answer, Goto
  <2>1. TypeOK'
    <3>1. CASE attempt' = [attempt EXCEPT ![a].at = "answered"] /\ answer' = [answer EXCEPT ![a] = a]
      BY <1>0, <2>0, <3>1 DEF TypeOK, InPlace, At, Row, Key
    <3>2. CASE attempt' = [attempt EXCEPT ![a].at = "failed"] /\ UNCHANGED answer
      BY <1>0, <2>0, <3>2 DEF TypeOK, InPlace, At, Row, Key
    <3> QED
      BY <2>0, <3>1, <3>2
  <2>2. RowsPoint'
    <3>1. CASE attempt' = [attempt EXCEPT ![a].at = "answered"] /\ answer' = [answer EXCEPT ![a] = a]
      BY <1>0, <2>0, <3>1 DEF RowsPoint, Created, Key, TypeOK, At
    <3>2. CASE attempt' = [attempt EXCEPT ![a].at = "failed"] /\ UNCHANGED answer
      BY <1>0, <2>0, <3>2 DEF RowsPoint, Created, Key, TypeOK, At
    <3> QED
      BY <2>0, <3>1, <3>2
  <2>3. \A b \in Attempts : InRow(b)'
    <3>1. CASE attempt' = [attempt EXCEPT ![a].at = "answered"] /\ answer' = [answer EXCEPT ![a] = a]
      BY <1>0, <2>0, <3>1 DEF InRow, Row, Key, TypeOK, InPlace, At
    <3>2. CASE attempt' = [attempt EXCEPT ![a].at = "failed"] /\ UNCHANGED answer
      BY <1>0, <2>0, <3>2 DEF InRow, Row, Key, TypeOK, InPlace, At
    <3> QED
      BY <2>0, <3>1, <3>2
  <2>4. \A b \in Attempts : InPlace(b)'
    <3>1. CASE attempt' = [attempt EXCEPT ![a].at = "answered"] /\ answer' = [answer EXCEPT ![a] = a]
      BY <1>0, <2>0, <3>1 DEF InPlace, At, Key, TypeOK
    <3>2. CASE attempt' = [attempt EXCEPT ![a].at = "failed"] /\ UNCHANGED answer
      BY <1>0, <2>0, <3>2 DEF InPlace, At, Key, TypeOK
    <3> QED
      BY <2>0, <3>1, <3>2
  <2>5. QueuedIsOnItsWay'
    <3>1. CASE attempt' = [attempt EXCEPT ![a].at = "answered"] /\ answer' = [answer EXCEPT ![a] = a]
      BY <1>0, <2>0, <3>1 DEF QueuedIsOnItsWay, TypeOK, At
    <3>2. CASE attempt' = [attempt EXCEPT ![a].at = "failed"] /\ UNCHANGED answer
      BY <1>0, <2>0, <3>2 DEF QueuedIsOnItsWay, TypeOK, At
    <3> QED
      BY <2>0, <3>1, <3>2
  <2> QED
    BY <2>1, <2>2, <2>3, <2>4, <2>5
<1>8. ASSUME NEW a \in Attempts, ExecuteInline(a) PROVE IInv'
  <2>1. TypeOK'
    BY <1>0, <1>8 DEF ExecuteInline, Answer, Goto, TypeOK
  <2>2. RowsPoint'
    BY <1>0, <1>8 DEF ExecuteInline, Answer, Goto, RowsPoint, Created, Key, TypeOK
  <2>3. \A b \in Attempts : InRow(b)'
    BY <1>0, <1>8 DEF ExecuteInline, Answer, Goto, InRow, Row, Key, TypeOK, InPlace,
      At
  <2>4. \A b \in Attempts : InPlace(b)'
    BY <1>0, <1>8 DEF ExecuteInline, Answer, Goto, InPlace, At, Key, TypeOK
  <2>5. QueuedIsOnItsWay'
    BY <1>0, <1>8 DEF ExecuteInline, Answer, Goto, QueuedIsOnItsWay, TypeOK
  <2> QED
    BY <2>1, <2>2, <2>3, <2>4, <2>5
<1>9. ASSUME NEW a \in Attempts, CommitDelta(a) PROVE IInv'
  <2>1. TypeOK'
    BY <1>0, <1>9 DEF CommitDelta, TypeOK
  <2>2. RowsPoint'
    BY <1>0, <1>9 DEF CommitDelta, RowsPoint, Created, Key, TypeOK
  <2>3. \A b \in Attempts : InRow(b)'
    BY <1>0, <1>9 DEF CommitDelta, InRow, Row, Key, TypeOK
  <2>4. \A b \in Attempts : InPlace(b)'
    BY <1>0, <1>9 DEF CommitDelta, InPlace, At, Key, TypeOK
  <2>5. QueuedIsOnItsWay'
    BY <1>0, <1>9 DEF CommitDelta, QueuedIsOnItsWay, TypeOK, InPlace, At, Key
  <2> QED
    BY <2>1, <2>2, <2>3, <2>4, <2>5
<1>10. ASSUME NEW a \in Attempts, ExecuteMessage(a) PROVE IInv'
  <2>1. TypeOK'
    BY <1>0, <1>10 DEF ExecuteMessage, Goto, TypeOK
  <2>2. RowsPoint'
    BY <1>0, <1>10 DEF ExecuteMessage, Goto, RowsPoint, Created, Key, TypeOK
  <2>3. \A b \in Attempts : InRow(b)'
    BY <1>0, <1>10 DEF ExecuteMessage, Goto, InRow, Row, Key, TypeOK
  <2>4. \A b \in Attempts : InPlace(b)'
    BY <1>0, <1>10 DEF ExecuteMessage, Goto, InPlace, At, Key, TypeOK
  <2>5. QueuedIsOnItsWay'
    BY <1>0, <1>10 DEF ExecuteMessage, Goto, QueuedIsOnItsWay, TypeOK
  <2> QED
    BY <2>1, <2>2, <2>3, <2>4, <2>5
<1>11. ASSUME NEW a \in Attempts, SendMessage(a) PROVE IInv'
  <2>1. TypeOK'
    BY <1>0, <1>11 DEF SendMessage, StoreReplay, Answer, Goto, TypeOK
  <2>2. RowsPoint'
    BY <1>0, <1>11 DEF SendMessage, StoreReplay, Answer, Goto, RowsPoint, Created,
      Key, TypeOK, Row, InRow, InPlace, At
  <2>3. \A b \in Attempts : InRow(b)'
    BY <1>0, <1>11 DEF SendMessage, StoreReplay, Answer, Goto, InRow, Row, Key,
      TypeOK
  <2>4. \A b \in Attempts : InPlace(b)'
    BY <1>0, <1>11 DEF SendMessage, StoreReplay, Answer, Goto, InPlace, At, Key,
      TypeOK
  <2>5. QueuedIsOnItsWay'
    BY <1>0, <1>11 DEF SendMessage, StoreReplay, Answer, Goto, QueuedIsOnItsWay,
      TypeOK, InPlace, At, Key
  <2> QED
    BY <2>1, <2>2, <2>3, <2>4, <2>5
<1>12. ASSUME NEW a \in Attempts, KeyConflict(a) PROVE IInv'
  <2>1. TypeOK'
    BY <1>0, <1>12 DEF KeyConflict, Goto, TypeOK
  <2>2. RowsPoint'
    BY <1>0, <1>12 DEF KeyConflict, Goto, RowsPoint, Created, Key, TypeOK
  <2>3. \A b \in Attempts : InRow(b)'
    BY <1>0, <1>12 DEF KeyConflict, Goto, InRow, Row, Key, TypeOK
  <2>4. \A b \in Attempts : InPlace(b)'
    BY <1>0, <1>12 DEF KeyConflict, Goto, InPlace, At, Key, TypeOK
  <2>5. QueuedIsOnItsWay'
    BY <1>0, <1>12 DEF KeyConflict, Goto, QueuedIsOnItsWay, TypeOK, InPlace, At, Key
  <2> QED
    BY <2>1, <2>2, <2>3, <2>4, <2>5
<1>13. ASSUME NEW a \in Attempts, Fail(a) PROVE IInv'
  <2>1. TypeOK'
    BY <1>0, <1>13 DEF Fail, Goto, Lose, TypeOK
  <2>2. RowsPoint'
    BY <1>0, <1>13 DEF Fail, Goto, Lose, RowsPoint, Created, Key, TypeOK
  <2>3. \A b \in Attempts : InRow(b)'
    BY <1>0, <1>13 DEF Fail, Goto, Lose, InRow, Row, Key, TypeOK
  <2>4. \A b \in Attempts : InPlace(b)'
    BY <1>0, <1>13 DEF Fail, Goto, Lose, InPlace, At, Key, TypeOK
  <2>5. QueuedIsOnItsWay'
    BY <1>0, <1>13 DEF Fail, Goto, Lose, QueuedIsOnItsWay, TypeOK
  <2> QED
    BY <2>1, <2>2, <2>3, <2>4, <2>5
<1>14. ASSUME NEW a \in Attempts, TakeJob(a) PROVE IInv'
  <2>1. TypeOK'
    BY <1>0, <1>14 DEF TakeJob, TypeOK
  <2>2. RowsPoint'
    BY <1>0, <1>14 DEF TakeJob, RowsPoint, Created, Key, TypeOK
  <2>3. \A b \in Attempts : InRow(b)'
    BY <1>0, <1>14 DEF TakeJob, InRow, Row, Key, TypeOK
  <2>4. \A b \in Attempts : InPlace(b)'
    BY <1>0, <1>14 DEF TakeJob, InPlace, At, Key, TypeOK
  <2>5. QueuedIsOnItsWay'
    BY <1>0, <1>14 DEF TakeJob, QueuedIsOnItsWay, TypeOK
  <2> QED
    BY <2>1, <2>2, <2>3, <2>4, <2>5
<1>15. ASSUME NEW a \in Attempts, FinishJob(a) PROVE IInv'
  <2>1. TypeOK'
    BY <1>0, <1>15 DEF FinishJob, TypeOK
  <2>2. RowsPoint'
    BY <1>0, <1>15 DEF FinishJob, RowsPoint, Created, Key, TypeOK
  <2>3. \A b \in Attempts : InRow(b)'
    BY <1>0, <1>15 DEF FinishJob, InRow, Row, Key, TypeOK
  <2>4. \A b \in Attempts : InPlace(b)'
    BY <1>0, <1>15 DEF FinishJob, InPlace, At, Key, TypeOK
  <2>5. QueuedIsOnItsWay'
    BY <1>0, <1>15 DEF FinishJob, QueuedIsOnItsWay, TypeOK
  <2> QED
    BY <2>1, <2>2, <2>3, <2>4, <2>5
<1>16. ASSUME NEW a \in Attempts, RemoveJob(a) PROVE IInv'
  <2>1. TypeOK'
    BY <1>0, <1>16 DEF RemoveJob, TypeOK
  <2>2. RowsPoint'
    BY <1>0, <1>16 DEF RemoveJob, RowsPoint, Created, Key, TypeOK
  <2>3. \A b \in Attempts : InRow(b)'
    BY <1>0, <1>16 DEF RemoveJob, InRow, Row, Key, TypeOK
  <2>4. \A b \in Attempts : InPlace(b)'
    BY <1>0, <1>16 DEF RemoveJob, InPlace, At, Key, TypeOK
  <2>5. QueuedIsOnItsWay'
    BY <1>0, <1>16 DEF RemoveJob, QueuedIsOnItsWay, TypeOK
  <2> QED
    BY <2>1, <2>2, <2>3, <2>4, <2>5
<1>17. ASSUME NEW a \in Attempts, JobRaises(a) PROVE IInv'
  <2>1. TypeOK'
    BY <1>0, <1>17 DEF JobRaises, Lose, TypeOK
  <2>2. RowsPoint'
    BY <1>0, <1>17 DEF JobRaises, Lose, RowsPoint, Created, Key, TypeOK
  <2>3. \A b \in Attempts : InRow(b)'
    BY <1>0, <1>17 DEF JobRaises, Lose, InRow, Row, Key, TypeOK
  <2>4. \A b \in Attempts : InPlace(b)'
    BY <1>0, <1>17 DEF JobRaises, Lose, InPlace, At, Key, TypeOK
  <2>5. QueuedIsOnItsWay'
    BY <1>0, <1>17 DEF JobRaises, Lose, QueuedIsOnItsWay, TypeOK
  <2> QED
    BY <2>1, <2>2, <2>3, <2>4, <2>5
<1>18. ASSUME NEW a \in Attempts, WorkerDies(a) PROVE IInv'
  <2>1. TypeOK'
    BY <1>0, <1>18 DEF WorkerDies, TypeOK
  <2>2. RowsPoint'
    BY <1>0, <1>18 DEF WorkerDies, RowsPoint, Created, Key, TypeOK
  <2>3. \A b \in Attempts : InRow(b)'
    BY <1>0, <1>18 DEF WorkerDies, InRow, Row, Key, TypeOK
  <2>4. \A b \in Attempts : InPlace(b)'
    BY <1>0, <1>18 DEF WorkerDies, InPlace, At, Key, TypeOK
  <2>5. QueuedIsOnItsWay'
    BY <1>0, <1>18 DEF WorkerDies, QueuedIsOnItsWay, TypeOK
  <2> QED
    BY <2>1, <2>2, <2>3, <2>4, <2>5
<1>19. ASSUME NEW k \in Keys, Expire(k) PROVE IInv'
  <2>1. /\ key_row' = [key_row EXCEPT ![k].expired = TRUE]
        /\ UNCHANGED <<mode, resource, attempt, answer, job, lost, crashes>>
    BY <1>19 DEF Expire
  <2>2. key_row' \in [Keys -> [of : Attempts \cup {0}, expired : BOOLEAN]]
    <3>1. key_row \in [Keys -> [of : Attempts \cup {0}, expired : BOOLEAN]]
      BY DEF TypeOK
    <3> HIDE DEF Attempts
    <3> QED
      BY <2>1, <3>1
  <2>3. \A q \in Keys : key_row'[q].of = key_row[q].of
    <3>1. key_row \in [Keys -> [of : Attempts \cup {0}, expired : BOOLEAN]]
      BY DEF TypeOK
    <3> QED
      BY <2>1, <3>1
  <2>4. TypeOK'
    BY <2>1, <2>2 DEF TypeOK
  <2>5. RowsPoint'
    BY <2>1, <2>3 DEF RowsPoint, Created, Key
  <2>6. \A a \in Attempts : InRow(a)' /\ InPlace(a)'
    BY <2>1, <2>3 DEF TypeOK, InRow, InPlace, Row, Key, At
  <2>7. QueuedIsOnItsWay'
    BY <2>1 DEF QueuedIsOnItsWay
  <2> QED
    BY <2>4, <2>5, <2>6, <2>7
<1> QED
  BY <1>1, <1>2, <1>3, <1>4, <1>5, <1>6, <1>7, <1>8, <1>9, <1>10, <1>11, <1>12,
      <1>13, <1>14, <1>15, <1>16, <1>17, <1>18, <1>19
     DEF Next, Handle, Work

-----------------------------------------------------------------------------
(* The inductive invariant holds whatever the keys, requests and crashes.     *)
THEOREM Invariance == Spec => []IInv
  BY InitIInv, NextIInv, PTL DEF Spec

(* Types, and that a job is only ever queued for a run that is committed.     *)
THEOREM TypeCorrect == Spec => []TypeOK
<1>1. IInv => TypeOK
  BY DEF IInv
<1> QED
  BY <1>1, Invariance, PTL

(* One conversation or run for each key of create_conversation and start_run:
   the primary key of agent_idempotency_keys decides, even after expiry.      *)
THEOREM OneResource == Spec => []OneResourcePerKey
<1>1. IInv => OneResourcePerKey
  <2> SUFFICES ASSUME IInv, NEW k \in CreateKeys \cup StartKeys,
                      NEW a \in Created(k), NEW b \in Created(k)
               PROVE  a = b
    BY DEF OneResourcePerKey
  <2>1. k \notin SendKeys
    BY KeysAssumption
  <2> QED
    BY <2>1 DEF IInv, Created, InRow, Row
<1> QED
  BY <1>1, Invariance, PTL

(* Only send_message may take effect twice under one key: without its keys the
   promise of docs/handbook/12-security-safety.md:239 holds, for any crashes.  *)
THEOREM OneEffectWithoutSend ==
  ASSUME SendKeys = {}
  PROVE  Spec => []OneEffectPerKey
<1>1. OneResourcePerKey => OneEffectPerKey
  BY DEF OneResourcePerKey, OneEffectPerKey, Keys
<1> QED
  BY <1>1, OneResource, PTL

(* All answers to a key name one resource, committed under that key.          *)
THEOREM OneAnswer == Spec => []AnswersAgree
<1>1. IInv => AnswersAgree
  <2> SUFFICES ASSUME IInv, NEW a \in Attempts, NEW b \in Attempts,
                      answer[a] # 0, answer[b] # 0, Key(a) = Key(b)
               PROVE  answer[a] = answer[b] /\ answer[a] \in Created(Key(a))
    BY DEF AnswersAgree
  <2>1. Row(a).of = answer[a] /\ Row(b).of = answer[b]
    BY DEF IInv, InRow
  <2>2. Key(a) \in Keys
    BY DEF IInv, TypeOK, Key
  <2> QED
    BY <2>1, <2>2 DEF IInv, RowsPoint, Row
<1> QED
  BY <1>1, Invariance, PTL

(* No queued run is forgotten: it is with its handler, in the queue, at the
   worker, or among the ones the code is known to lose.                       *)
THEOREM NoneForgotten == Spec => []QueuedIsOnItsWay
<1>1. IInv => QueuedIsOnItsWay
  BY DEF IInv
<1> QED
  BY <1>1, Invariance, PTL
=============================================================================
