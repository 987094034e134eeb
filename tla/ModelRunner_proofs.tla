------------------------- MODULE ModelRunner_proofs -------------------------
(***************************************************************************)
(* Proofs about ModelRunner, for any providers, tools and limits: the       *)
(* budget is kept, writes are executed alone, the deltas of a message join  *)
(* to its redacted text, every value has its type, and every call that a    *)
(* model proposes is answered.                                              *)
(***************************************************************************)
EXTENDS ModelRunner, FiniteSetTheorems, SequenceTheorems, TLAPS

Outcome == {"refused", "pending", "proposed", "executing", "succeeded", "failed"}

LEMMA Limits ==
  /\ MaxSteps \in Nat /\ MaxCalls \in Nat /\ MaxTokens \in Nat /\ MaxUsage \in Nat
  /\ MaxParallel \in Nat /\ MaxSteps > 0 /\ MaxCalls > 0 /\ MaxParallel > 0
BY RunnerAssumption

LEMMA Bounds ==
  /\ Holdback \in Nat /\ LongestOpen \in Nat /\ MaxText \in Nat /\ MaxProposals \in Nat
  /\ Providers \in Seq(STRING) /\ Len(Providers) \in Nat
  /\ Deltas \subseteq Seq(Char) \ {<<>>}
BY RunnerAssumption

-----------------------------------------------------------------------------
\* The budget.

\* A step that spends nothing, and comes neither out of the end nor to a place
\* where nothing may be spent yet.
LEMMA SpendsNothing ==
  ASSUME Budgeted, UNCHANGED budget,
         at' = at \/ (at # "stopped" /\ at' \notin {"queued", "loop"})
  PROVE  Budgeted'
BY DEF Budgeted

LEMMA InitBudgeted == Init => Budgeted
BY Limits DEF Init, Budgeted, EmptyBudget

LEMMA LoopBudgeted ==
  ASSUME Budgeted, LoopBegin \/ LoopPropose
  PROVE  Budgeted'
<1>1. CASE LoopBegin /\ status # "cancelled"
  BY <1>1, Limits DEF LoopBegin, Budgeted, EmptyBudget
<1>2. CASE LoopBegin /\ status = "cancelled"
  BY <1>2, SpendsNothing DEF LoopBegin
<1>3. CASE LoopPropose
  BY <1>3, Limits DEF LoopPropose, Finalize, Budgeted
<1> QED
  BY <1>1, <1>2, <1>3

LEMMA TurnBudgeted ==
  ASSUME Budgeted, BeginTurn \/ Drain
  PROVE  Budgeted'
<1>1. CASE BeginTurn
  BY <1>1, Limits DEF BeginTurn, Finalize, Budgeted
<1>2. CASE Drain
  <2>1. PICK n \in 0..MaxUsage : budget' = [budget EXCEPT !.tokens = @ + n]
    BY <1>2 DEF Drain
  <2>2. at = "stream" /\ at' \in {"stopped", "finish"}
    BY <1>2 DEF Drain, Finalize
  <2>3. at' = "finish" => budget'.tokens <= MaxTokens
    <3>1. budget'.tokens \in Nat
      BY <2>1, Limits DEF Budgeted
    <3> QED
      BY <1>2, <3>1, Limits DEF Drain, Finalize, Overspent
  <2> QED
    BY <2>1, <2>2, <2>3, Limits DEF Budgeted
<1> QED
  BY <1>1, <1>2

LEMMA CallBudgeted ==
  ASSUME Budgeted, Pause \/ Accept
  PROVE  Budgeted'
<1>1. budget.calls < MaxCalls /\ budget' = [budget EXCEPT !.calls = @ + 1]
  BY DEF Pause, Accept
<1>2. at = "dispatch" /\ at' \in {"dispatch", "stopped"}
  BY DEF Pause, Accept, Finalize
<1> QED
  BY <1>1, <1>2, Limits DEF Budgeted

LEMMA NextBudgeted == Budgeted /\ [Next]_vars => Budgeted'
<1> SUFFICES ASSUME Budgeted, [Next]_vars PROVE Budgeted'
  OBVIOUS
<1>1. CASE UNCHANGED vars
  BY <1>1, SpendsNothing DEF vars
<1>2. CASE LoopBegin \/ LoopPropose \/ BeginTurn \/ Drain \/ Pause \/ Accept
  BY <1>2, LoopBudgeted, TurnBudgeted, CallBudgeted
<1>3. CASE LoopError \/ LoopWizard \/ LoopAnswer \/ LoopDies \/ GuidedError \/ GuidedPropose
           \/ GuidedInputs \/ StartLoop \/ OutOfSteps
  BY <1>3, SpendsNothing DEF LoopError, LoopWizard, LoopAnswer, LoopDies, GuidedError,
     GuidedPropose, GuidedInputs, StartLoop, OutOfSteps, Finalize, Die
<1>4. CASE StreamText \/ StreamToolUse \/ FailOver \/ StreamRaises \/ FinishText \/ EndTurn
  BY <1>4, SpendsNothing DEF StreamText, StreamToolUse, FailOver, StreamRaises, FinishText,
     EndTurn, Finalize, Die
<1>5. CASE Refuse \/ OutOfCalls \/ StartReads \/ EndReads \/ StartWrite \/ EndWrite \/ NoClient
           \/ FeedResults
  BY <1>5, SpendsNothing DEF Refuse, OutOfCalls, StartReads, EndReads, StartWrite, EndWrite,
     NoClient, FeedResults, Finalize, Die
<1>6. ASSUME NEW i \in 1..MaxProposals, Read(i) PROVE Budgeted'
  <2>1. UNCHANGED budget /\ (at' = at \/ (at = "reads" /\ at' = "stopped"))
    BY <1>6 DEF Read, Acquire, ReadSeq, BeginFlush, EndFlush, ExecuteRead, Move, Die
  <2> QED
    BY <2>1, SpendsNothing
<1>7. CASE Cancel
  BY <1>7, SpendsNothing DEF Cancel
<1> QED
  BY <1>1, <1>2, <1>3, <1>4, <1>5, <1>6, <1>7 DEF Next, Job, Stream, Dispatch

\* Steps and calls stay within their limits, and a run whose tokens are overspent
\* is over (budget.py:48-88), whatever providers stream and tools answer.
THEOREM BudgetIsKept == Spec => []WithinBudget
<1>1. Budgeted => WithinBudget
  BY Limits DEF Budgeted, WithinBudget
<1> QED
  BY <1>1, InitBudgeted, NextBudgeted, PTL DEF Spec

-----------------------------------------------------------------------------
\* The dispatch.

LEMMA ActiveFinite ==
  ASSUME Dispatched
  PROVE  /\ Active \subseteq DOMAIN records
         /\ IsFiniteSet(Active) /\ Cardinality(Active) \in Nat
<1>1. Active \subseteq DOMAIN records
  BY DEF Dispatched, Active
<1>2. DOMAIN records = 1..Len(records) /\ Len(records) \in Nat
  BY DEF Dispatched
<1>3. IsFiniteSet(DOMAIN records)
  BY <1>2, FS_Interval
<1> QED
  BY <1>1, <1>3, FS_Subset, FS_CardinalityType

\* Of what is dispatched the invariants see the turn's proposals, the records and
\* who is reading.
Safe == Dispatched /\ WritesAlone

\* A step that leaves the dispatch alone.
LEMMA LeavesAlone ==
  ASSUME Safe, UNCHANGED <<proposals, records, gather>>,
         \/ at' = at
         \/ at' = "stopped"
         \/ at \notin {"stopped", "reads"} /\ at' \in {"loop", "begin"}
         \/ at \in {"stream", "finish", "drained"} /\ at' \in {"finish", "drained", "dispatch"}
  PROVE  Safe'
<1>1. Active' = Active /\ Writers' = Writers /\ Readers' = Readers
  BY DEF Active, Writers, Readers
<1>2. Dispatched'
  <2>1. records = <<>> => Writers = {}
    BY DEF Writers
  <2> QED
    BY <1>1, <2>1 DEF Safe, Dispatched
<1>3. WritesAlone'
  BY <1>1 DEF Safe, WritesAlone
<1> QED
  BY <1>2, <1>3 DEF Safe

\* Records as they begin: no call is dispatched, and nothing is read.
LEMMA NothingDispatched ==
  ASSUME proposals' \in Seq(Tools), records' = <<>>, DOMAIN gather' = DOMAIN NoReads,
         DOMAIN gather'.place = {}
  PROVE  Safe'
<1>1. DOMAIN gather'.place = {} /\ DOMAIN records' = {} /\ Len(records') = 0
  OBVIOUS
<1>2. Active' = {} /\ Writers' = {} /\ Readers' = {}
  BY <1>1 DEF Active, Writers, Readers
<1>3. Len(records') <= Len(proposals')
  BY <1>1
<1>4. Dispatched'
  BY <1>1, <1>2, <1>3 DEF Dispatched
<1>5. WritesAlone'
  BY <1>2, Limits, FS_EmptySet DEF WritesAlone
<1> QED
  BY <1>4, <1>5 DEF Safe

LEMMA InitSafe == Init => Safe
<1> SUFFICES ASSUME Init PROVE Safe
  OBVIOUS
<1>1. DOMAIN gather.place = {} /\ DOMAIN records = {} /\ Len(records) = 0
  BY DEF Init, NoReads
<1>2. Active = {} /\ Writers = {} /\ Readers = {}
  BY <1>1 DEF Active, Writers, Readers
<1>3. proposals \in Seq(Tools) /\ Len(proposals) = 0 /\ records = <<>> /\ gather = NoReads
  BY DEF Init
<1>4. Dispatched
  BY <1>1, <1>2, <1>3 DEF Dispatched
<1>5. WritesAlone
  BY <1>2, Limits, FS_EmptySet DEF WritesAlone
<1> QED
  BY <1>4, <1>5 DEF Safe

\* Up to the dispatch, and between turns.
LEMMA StreamSafe ==
  ASSUME Safe, BeginTurn \/ OutOfSteps \/ Stream \/ FinishText \/ EndTurn
  PROVE  Safe'
<1>1. CASE BeginTurn
  <2>1. proposals' = <<>> /\ records' = <<>> /\ gather' = NoReads /\ DOMAIN gather'.place = {}
    BY <1>1 DEF BeginTurn, NoReads
  <2> QED
    BY <2>1, NothingDispatched
<1>2. CASE StreamToolUse
  <2>1. PICK t \in Tools : proposals' = Append(proposals, t)
    BY <1>2 DEF StreamToolUse
  <2>2. at = "stream" /\ UNCHANGED <<records, gather>>
    BY <1>2 DEF StreamToolUse, tools
  <2>3. records' = <<>> /\ DOMAIN gather' = DOMAIN NoReads /\ DOMAIN gather'.place = {}
    BY <2>2 DEF Safe, Dispatched
  <2>4. proposals' \in Seq(Tools)
    BY <2>1 DEF Safe, Dispatched
  <2> QED
    BY <2>3, <2>4, NothingDispatched
<1>3. CASE OutOfSteps \/ StreamText \/ FailOver \/ StreamRaises \/ Drain \/ FinishText
  BY <1>3, LeavesAlone DEF OutOfSteps, StreamText, FailOver, StreamRaises, Drain, FinishText,
     Finalize, Die, turn, tools
<1>4. CASE EndTurn
  BY <1>4, LeavesAlone DEF EndTurn, Finalize, tools
<1> QED
  BY <1>1, <1>2, <1>3, <1>4 DEF Stream

\* One more record: refused, pending or proposed, for the next proposal.
LEMMA OneMoreRecord ==
  ASSUME Safe, at = "dispatch", Next1 <= Len(proposals), UNCHANGED <<proposals, gather>>,
         NEW o \in Outcome, records' = Append(records, o),
         \/ o = "refused" /\ at' = at
         \/ o = "pending" /\ at' = at /\ Kind[Proposed] \in {"read", "auto"}
         \/ o = "proposed" /\ at' = "stopped" /\ Kind[Proposed] # "read"
  PROVE  Safe'
<1>1. /\ Active = {} /\ DOMAIN gather.place \subseteq DOMAIN records
      /\ records \in Seq(Outcome) /\ proposals \in Seq(Tools)
      /\ \A i \in Writers : records[i] = "pending" /\ Kind[proposals[i]] = "auto"
  BY DEF Safe, Dispatched, Outcome
<1>2. Active' = {}
  BY <1>1 DEF Active
<1>3. /\ records' \in Seq(Outcome) /\ Len(records') = Len(records) + 1
      /\ DOMAIN records' = DOMAIN records \cup {Next1} /\ Next1 \notin DOMAIN records
      /\ records'[Next1] = o /\ \A i \in DOMAIN records : records'[i] = records[i]
  BY <1>1 DEF Next1
<1>4. \A i \in Writers' : \/ i \in Writers /\ records'[i] = records[i]
                          \/ i = Next1 /\ o # "refused" /\ Kind[Proposed] # "read"
  BY <1>3 DEF Writers, Proposed
<1>5. \A i \in Writers' : records'[i] = "pending" \/ (at' = "stopped" /\ records'[i] = "proposed")
  BY <1>1, <1>3, <1>4
<1>6. \A i \in Writers' : records'[i] # "proposed" => Kind[proposals[i]] = "auto"
  BY <1>1, <1>3, <1>4 DEF Proposed
<1>7. Dispatched'
  BY <1>1, <1>2, <1>3, <1>5, <1>6 DEF Safe, Dispatched, Next1, Outcome
<1>8. WritesAlone'
  <2>1. Cardinality(Active') <= MaxParallel
    BY <1>2, Limits, FS_EmptySet
  <2>2. \A i \in Writers' : records'[i] \notin {"executing", "succeeded", "failed"}
    BY <1>5
  <2> QED
    BY <2>1, <2>2 DEF WritesAlone
<1> QED
  BY <1>7, <1>8 DEF Safe

LEMMA DispatchSafe ==
  ASSUME Safe, Refuse \/ OutOfCalls \/ Pause \/ Accept
  PROVE  Safe'
<1>1. CASE Refuse
  BY <1>1, OneMoreRecord DEF Refuse, turn, Outcome
<1>2. CASE OutOfCalls
  BY <1>2, LeavesAlone DEF OutOfCalls, Finalize, turn, tools
<1>3. CASE Pause
  BY <1>3, OneMoreRecord DEF Pause, Finalize, NeedsApproval, turn, Outcome
<1>4. CASE Accept
  <2>1. Proposed \in Tools
    BY <1>4 DEF Accept, Next1, Proposed, Safe, Dispatched
  <2>2. Kind[Proposed] \in {"read", "auto"}
    BY <1>4, <2>1, RunnerAssumption DEF Accept, NeedsApproval
  <2> QED
    BY <1>4, <2>2, OneMoreRecord DEF Accept, turn, Outcome
<1> QED
  BY <1>1, <1>2, <1>3, <1>4

-----------------------------------------------------------------------------
\* The reads and the writes.

\* The reads are started while no write is.
LEMMA StartReadsSafe == ASSUME Safe, StartReads PROVE Safe'
<1>1. /\ at = "dispatch" /\ at' = "reads" /\ UNCHANGED <<proposals, records>>
      /\ gather'.place = [i \in Readers |-> "waiting"] /\ DOMAIN gather' = DOMAIN NoReads
  BY DEF StartReads, NoReads, turn
<1>2. Active' = {} /\ DOMAIN gather'.place \subseteq DOMAIN records'
  BY <1>1 DEF Active, Readers
<1>3. Writers' = Writers /\ Readers' = Readers
  BY <1>1 DEF Writers, Readers
<1>4. Dispatched'
  BY <1>1, <1>2, <1>3 DEF Safe, Dispatched
<1>5. WritesAlone'
  <2>1. Cardinality(Active') <= MaxParallel
    BY <1>2, Limits, FS_EmptySet
  <2>2. \A i \in Writers' : records'[i] = "pending"
    BY <1>1, <1>3 DEF Safe, Dispatched
  <2> QED
    BY <2>1, <2>2 DEF WritesAlone
<1> QED
  BY <1>4, <1>5 DEF Safe

\* A read goes on, or its failure ends the job: the writes stay pending.
LEMMA ReadSafe == ASSUME Safe, NEW i \in 1..MaxProposals, Read(i) PROVE Safe'
<1>1. at = "reads" /\ at' \in {"reads", "stopped"} /\ UNCHANGED proposals
  BY DEF Read, Acquire, ReadSeq, BeginFlush, EndFlush, ExecuteRead, Move, Die, turn
<1>2. /\ records \in Seq(Outcome) /\ DOMAIN gather.place = Readers
      /\ \A w \in Writers : records[w] = "pending"
  BY <1>1 DEF Safe, Dispatched, Outcome
<1>3. \/ UNCHANGED records
      \/ /\ i \in DOMAIN gather.place
         /\ \E o \in {"succeeded", "failed"} : records' = [records EXCEPT ![i] = o]
  BY DEF Read, Acquire, ReadSeq, BeginFlush, EndFlush, ExecuteRead, Move, tools
<1>4. /\ records' \in Seq(Outcome) /\ Len(records') = Len(records)
      /\ DOMAIN records' = DOMAIN records
      /\ \A j \in DOMAIN records : \/ records'[j] = records[j]
                                   \/ j \in Readers /\ records'[j] \in {"succeeded", "failed"}
  BY <1>2, <1>3 DEF Outcome
<1>5. Readers' = Readers /\ Writers' = Writers /\ \A w \in Writers : records'[w] = records[w]
  BY <1>1, <1>4 DEF Readers, Writers
<1>6. /\ DOMAIN gather' = DOMAIN gather
      /\ DOMAIN gather'.place = DOMAIN gather.place
      /\ \A j \in DOMAIN gather.place : j # i => gather'.place[j] = gather.place[j]
      /\ gather.place[i] \in {"waiting", "done"} => Acquire(i) \/ UNCHANGED gather
  <2>0. DOMAIN gather = {"place", "seen", "inserted", "flushing"}
    BY DEF Safe, Dispatched, NoReads
  <2>1. CASE Acquire(i)
    BY <2>0, <2>1 DEF Acquire, Move
  <2>2. CASE ExecuteRead(i)
    BY <2>0, <2>2 DEF ExecuteRead, Move, tools
  <2>3. ASSUME NEW from \in Place \ {"waiting", "done"}, NEW to \in Place,
               ReadSeq(i, from, to) \/ BeginFlush(i, from, to) \/ EndFlush(i, from, to)
        PROVE  /\ DOMAIN gather' = DOMAIN gather
               /\ DOMAIN gather'.place = DOMAIN gather.place
               /\ \A j \in DOMAIN gather.place : j # i => gather'.place[j] = gather.place[j]
               /\ gather.place[i] \notin {"waiting", "done"}
    BY <2>0, <2>3 DEF ReadSeq, BeginFlush, EndFlush
  <2> QED
    BY <2>1, <2>2, <2>3 DEF Read, Place
<1>7. Cardinality(Active') <= MaxParallel
  <2>1. IsFiniteSet(Active) /\ Cardinality(Active) \in Nat /\ Cardinality(Active) <= MaxParallel
    BY ActiveFinite DEF Safe, WritesAlone
  <2>2. CASE Acquire(i)
    <3>1. Active' \subseteq Active \cup {i}
      BY <1>6 DEF Active
    <3>3. Cardinality(Active) < MaxParallel
      BY <2>2 DEF Acquire
    <3>2. IsFiniteSet(Active \cup {i}) /\ Cardinality(Active \cup {i}) <= Cardinality(Active) + 1
      BY <2>1, FS_AddElement
    <3> QED
      BY <2>1, <3>1, <3>2, <3>3, FS_Subset, FS_CardinalityType, Limits
  <2>3. CASE ~Acquire(i)
    <3>1. Active' \subseteq Active
      BY <2>3, <1>6 DEF Active
    <3> QED
      BY <2>1, <3>1, FS_Subset, FS_CardinalityType, Limits
  <2> QED
    BY <2>2, <2>3
<1>8. Dispatched'
  BY <1>1, <1>2, <1>4, <1>5, <1>6 DEF Safe, Dispatched, Outcome
<1>9. WritesAlone'
  BY <1>2, <1>5, <1>7 DEF WritesAlone
<1> QED
  BY <1>8, <1>9 DEF Safe

LEMMA EndReadsSafe == ASSUME Safe, EndReads PROVE Safe'
<1>1. /\ at = "reads" /\ at' = "writes" /\ UNCHANGED <<proposals, records, gather>>
      /\ \A i \in DOMAIN gather.place : gather.place[i] = "done"
  BY DEF EndReads, ReadsDone, turn
<1>2. Active = {} /\ Active' = {} /\ Writers' = Writers
  BY <1>1 DEF Active, Writers
<1>3. Dispatched'
  BY <1>1, <1>2 DEF Safe, Dispatched
<1>4. WritesAlone'
  BY <1>1, <1>2 DEF Safe, WritesAlone
<1> QED
  BY <1>3, <1>4 DEF Safe

\* A write that is pending is started, or the one executing settles.
LEMMA WriteSafe == ASSUME Safe, StartWrite \/ EndWrite PROVE Safe'
<1>1. CASE EndWrite /\ UNCHANGED records
  BY <1>1, LeavesAlone DEF EndWrite, Die, turn
<1>2. CASE StartWrite \/ (EndWrite /\ records' # records)
  <2>1. /\ at = "writes" /\ at' = at /\ UNCHANGED <<proposals, gather>>
    BY <1>2 DEF StartWrite, EndWrite, Die, turn
  <2>2. PICK i \in Writers, o \in {"executing", "succeeded", "failed"} :
          /\ records' = [records EXCEPT ![i] = o]
          /\ records[i] # "proposed"
          /\ o = "executing" => Executing = {}
    <3>1. CASE StartWrite
      BY <3>1 DEF StartWrite, PendingWrites
    <3>2. CASE EndWrite /\ records' # records
      BY <3>2 DEF EndWrite, Executing
    <3> QED
      BY <1>2, <3>1, <3>2
  <2>3. records \in Seq(Outcome) /\ Active = {} /\ i \in DOMAIN records /\ records[i] # "refused"
    BY <2>1, <2>2 DEF Safe, Dispatched, Outcome, Writers
  <2>4. /\ records' \in Seq(Outcome) /\ Len(records') = Len(records)
        /\ DOMAIN records' = DOMAIN records /\ records'[i] = o
        /\ \A j \in DOMAIN records : j # i => records'[j] = records[j]
    BY <2>2, <2>3 DEF Outcome
  <2>5. Active' = {} /\ Writers' = Writers
    BY <2>1, <2>3, <2>4 DEF Active, Writers
  <2>6. Kind[proposals[i]] = "auto"
    BY <2>2 DEF Safe, Dispatched
  <2>7. Dispatched'
    BY <2>1, <2>4, <2>5, <2>6 DEF Safe, Dispatched, Outcome, Writers
  <2>8. WritesAlone'
    <3>1. Cardinality(Active') <= MaxParallel
      BY <2>5, Limits, FS_EmptySet
    <3>2. ASSUME NEW j \in Writers, NEW k \in Writers \ {j},
                 records'[j] = "executing", records'[k] = "executing"
          PROVE  FALSE
      BY <2>2, <2>4, <3>2 DEF Safe, WritesAlone, Executing, Writers
    <3>3. \A j \in Writers : records'[j] # "proposed" => Kind[proposals'[j]] = "auto"
      BY <2>5, <2>7 DEF Dispatched
    <3> QED
      BY <2>5, <3>1, <3>2, <3>3 DEF WritesAlone
  <2> QED
    BY <2>7, <2>8 DEF Safe
<1> QED
  BY <1>1, <1>2

LEMMA NextSafe == Safe /\ [Next]_vars => Safe'
<1> SUFFICES ASSUME Safe, [Next]_vars PROVE Safe'
  OBVIOUS
<1>1. CASE UNCHANGED vars
  BY <1>1, LeavesAlone DEF vars, turn, tools
<1>2. CASE LoopBegin \/ LoopError \/ LoopPropose \/ LoopWizard \/ LoopAnswer \/ LoopDies
  BY <1>2, LeavesAlone DEF LoopBegin, LoopError, LoopPropose, LoopWizard, LoopAnswer, LoopDies,
     Finalize, Die, turn, tools
<1>3. CASE GuidedError \/ GuidedPropose \/ GuidedInputs \/ StartLoop \/ Cancel \/ FeedResults
  BY <1>3, LeavesAlone DEF GuidedError, GuidedPropose, GuidedInputs, StartLoop, Cancel,
     FeedResults, Finalize, Die, turn, tools
<1>4. CASE BeginTurn \/ OutOfSteps \/ Stream \/ FinishText \/ EndTurn
  BY <1>4, StreamSafe
<1>5. CASE Dispatch
  BY <1>5, DispatchSafe, StartReadsSafe DEF Dispatch
<1>6. ASSUME NEW i \in 1..MaxProposals, Read(i) PROVE Safe'
  BY <1>6, ReadSafe
<1>7. CASE EndReads \/ StartWrite \/ EndWrite
  BY <1>7, EndReadsSafe, WriteSafe
<1>8. CASE NoClient
  BY <1>8, LeavesAlone DEF NoClient, Finalize, turn, tools
<1> QED
  BY <1>1, <1>2, <1>3, <1>4, <1>5, <1>6, <1>7, <1>8 DEF Next, Job

\* A write is executed while no read and no other write is, and only if it needs no
\* approval; reads stay within the semaphore (runner.py:10-12, 710).
THEOREM WritesAreAlone == Spec => []WritesAlone
<1>1. Safe => WritesAlone
  BY DEF Safe
<1> QED
  BY <1>1, InitSafe, NextSafe, PTL DEF Spec

-----------------------------------------------------------------------------
\* Induction over the naturals, for a set, and the least of a set of them.

Less == {p \in Nat \X Nat : p[1] < p[2]}

LEMMA Least ==
  ASSUME NEW S \in SUBSET Nat, S # {}
  PROVE  \E m \in S : \A k \in S : m <= k
<1>1. IsWellFoundedOn(Less, Nat)
  BY NatLessThanWellFounded DEF OpToRel, Less
<1>2. PICK m \in S : \A k \in S : <<k, m>> \notin Less
  BY <1>1, WFMin
<1>3. \A k \in S : k < m => <<k, m>> \in Less
  BY DEF Less
<1> QED
  <2>1. \A k \in S : ~(k < m) /\ k \in Nat
    BY <1>2, <1>3
  <2> QED
    BY <1>2, <2>1

LEMMA Induction ==
  ASSUME NEW S, 0 \in S, \A n \in Nat : n \in S => n + 1 \in S
  PROVE  Nat \subseteq S
<1> SUFFICES ASSUME Nat \ S # {} PROVE FALSE
  OBVIOUS
<1>1. PICK m \in Nat \ S : \A k \in Nat \ S : m <= k
  BY Least
<1>2. m - 1 \in Nat /\ m = (m - 1) + 1 /\ ~(m <= m - 1)
  BY <1>1
<1> QED
  BY <1>1, <1>2

-----------------------------------------------------------------------------
\* What redact computes.

\* s begins with r.
Extends(s, r) ==
  /\ s \in Seq(Shown) /\ Len(r) <= Len(s)
  /\ \A i \in 1..Len(r) : s[i] = r[i]

LEMMA ConcatExtends ==
  ASSUME NEW s \in Seq(Shown), NEW r \in Seq(Shown)
  PROVE  Extends(s \o r, s) /\ Len(s \o r) = Len(s) + Len(r)
BY ConcatProperties DEF Extends

LEMMA ExtendsOn ==
  ASSUME NEW s, NEW r, NEW q, Len(s) \in Nat, Len(r) \in Nat, Len(q) \in Nat,
         Extends(s, r), Extends(r, q)
  PROVE  Extends(s, q)
<1>1. \A i \in 1..Len(q) : i \in 1..Len(r) /\ s[i] = q[i]
  BY DEF Extends
<1>2. Len(q) <= Len(s)
  BY DEF Extends
<1> QED
  BY <1>1, <1>2 DEF Extends

LEMMA AppendExtends ==
  ASSUME NEW s \in Seq(Shown), NEW c \in Shown
  PROVE  /\ Append(s, c) \in Seq(Shown) /\ Extends(Append(s, c), s)
         /\ Len(Append(s, c)) = Len(s) + 1 /\ Len(s) \in Nat
BY DEF Extends

\* The parts of a scan.
LEMMA ScanParts ==
  ASSUME NEW acc \in ScanState
  PROVE  /\ acc.out \in Seq(Shown) /\ acc.head \in Seq(Char) /\ acc.word \in Seq(Char)
         /\ acc.head \in Seq(Shown) /\ acc.word \in Seq(Shown)
         /\ Open(acc) \in Seq(Shown) /\ Open(acc) = acc.head \o acc.word
         /\ Len(Open(acc)) = Len(acc.head) + Len(acc.word)
         /\ Len(acc.out) \in Nat /\ Len(acc.head) \in Nat /\ Len(acc.word) \in Nat
         /\ Extends(acc.out, acc.out)
<1>1. /\ acc.out \in Seq(Shown) /\ acc.head \in Seq(Char) /\ acc.word \in Seq(Char)
  BY DEF ScanState
<1>2. acc.head \in Seq(Shown) /\ acc.word \in Seq(Shown)
  BY <1>1, SeqMonotonic DEF Shown
<1>3. Open(acc) \in Seq(Shown) /\ Len(Open(acc)) = Len(acc.head) + Len(acc.word)
  BY <1>2, ConcatProperties DEF Open
<1> QED
  BY <1>1, <1>2, <1>3 DEF Extends, Open

\* The scan goes on from acc to new: what acc has settled stays, and the redacted text
\* is longer by one character at most.
Extended(new, acc) ==
  /\ new \in ScanState
  /\ Extends(new.out, acc.out)
  /\ Len(new.out) + Len(Open(new)) <= Len(acc.out) + Len(Open(acc)) + 1

LEMMA ScanIsState ==
  ASSUME NEW o \in Seq(Shown), NEW h \in Seq(Char), NEW w \in Seq(Char), NEW a \in BOOLEAN,
         NEW acc \in ScanState, Extends(o, acc.out),
         Len(o) + Len(h) + Len(w) <= Len(acc.out) + Len(acc.head) + Len(acc.word) + 1
  PROVE  Extended([out |-> o, head |-> h, word |-> w, address |-> a], acc)
<1> DEFINE new == [out |-> o, head |-> h, word |-> w, address |-> a]
<1>1. new \in ScanState
  BY DEF ScanState
<1>2. new.out = o /\ new.head = h /\ new.word = w
  OBVIOUS
<1> HIDE DEF new
<1>3. /\ Len(Open(new)) = Len(h) + Len(w) /\ Len(Open(acc)) = Len(acc.head) + Len(acc.word)
      /\ Len(o) \in Nat /\ Len(h) \in Nat /\ Len(w) \in Nat
      /\ Len(acc.out) \in Nat /\ Len(acc.head) \in Nat /\ Len(acc.word) \in Nat
  BY <1>1, <1>2, ScanParts
<1>4. Len(new.out) + Len(Open(new)) <= Len(acc.out) + Len(Open(acc)) + 1
  <2>1. \A x, y, z, p, q, r \in Nat :
          x + y + z <= p + q + r + 1 => x + (y + z) <= p + (q + r) + 1
    OBVIOUS
  <2>2. Len(o) + (Len(h) + Len(w)) <= Len(acc.out) + (Len(acc.head) + Len(acc.word)) + 1
    BY <1>3, <2>1
  <2> QED
    BY <1>2, <1>3, <2>2
<1>5. Extended(new, acc)
  BY <1>1, <1>2, <1>4 DEF Extended
<1> QED
  BY <1>5 DEF new

LEMMA NoCharacters == <<>> \in Seq(Char) /\ <<>> \in Seq(Shown) /\ Len(<<>>) = 0
OBVIOUS

LEMMA SettleExtends ==
  ASSUME NEW acc \in ScanState, NEW c \in Char
  PROVE  Extended(Settle(acc, c), acc)
<1> DEFINE both == acc.out \o Open(acc)
           out == Append(both, c)
<1>1. /\ acc.out \in Seq(Shown) /\ Open(acc) \in Seq(Shown) /\ c \in Shown
      /\ Len(Open(acc)) = Len(acc.head) + Len(acc.word)
      /\ Len(acc.out) \in Nat /\ Len(acc.head) \in Nat /\ Len(acc.word) \in Nat
  BY ScanParts DEF Shown
<1>2. Extends(both, acc.out) /\ Len(both) = Len(acc.out) + Len(Open(acc)) /\ both \in Seq(Shown)
  BY <1>1, ConcatExtends DEF Extends
<1>3. Settle(acc, c) = [out |-> out, head |-> <<>>, word |-> <<>>, address |-> FALSE]
  BY DEF Settle
<1> HIDE DEF both
<1>4. out \in Seq(Shown) /\ Extends(out, both) /\ Len(out) = Len(both) + 1 /\ Len(both) \in Nat
  BY <1>1, <1>2, AppendExtends
<1> HIDE DEF out
<1>5. Extends(out, acc.out)
  BY <1>1, <1>2, <1>4, ExtendsOn
<1>6. Len(out) + Len(<<>>) + Len(<<>>) <= Len(acc.out) + Len(acc.head) + Len(acc.word) + 1
  <2>1. \A p, q, r \in Nat : (p + (q + r) + 1) + 0 + 0 <= p + q + r + 1
    OBVIOUS
  <2> QED
    BY <1>1, <1>2, <1>4, <2>1, NoCharacters
<1> QED
  BY <1>3, <1>4, <1>5, <1>6, NoCharacters, ScanIsState

LEMMA ScanAtExtends ==
  ASSUME NEW acc \in ScanState
  PROVE  Extended(ScanAt(acc), acc)
<1>1. CASE acc.word = <<>>
  BY <1>1, SettleExtends DEF ScanAt, Char
<1>2. CASE acc.word # <<>>
  <2> DEFINE out == acc.out \o acc.head
             head == Append(acc.word, "at")
  <2>1. ScanAt(acc) = [out |-> out, head |-> head, word |-> <<>>, address |-> FALSE]
    BY <1>2 DEF ScanAt
  <2>2. Extends(out, acc.out) /\ Len(out) = Len(acc.out) + Len(acc.head) /\ out \in Seq(Shown)
    BY ScanParts, ConcatExtends DEF Extends
  <2>3. head \in Seq(Char) /\ Len(head) = Len(acc.word) + 1
    <3>1. acc.word \in Seq(Char) /\ "at" \in Char
      BY ScanParts DEF Char
    <3> QED
      BY <3>1
  <2> HIDE DEF out, head
  <2>4. Len(out) + Len(head) + Len(<<>>) <= Len(acc.out) + Len(acc.head) + Len(acc.word) + 1
    <3>1. \A p, q, r \in Nat : (p + q) + (r + 1) + 0 <= p + q + r + 1
      OBVIOUS
    <3>2. Len(acc.out) \in Nat /\ Len(acc.head) \in Nat /\ Len(acc.word) \in Nat
      BY ScanParts
    <3> QED
      BY <2>2, <2>3, <3>1, <3>2, NoCharacters
  <2> QED
    BY <2>1, <2>2, <2>3, <2>4, NoCharacters, ScanIsState
<1> QED
  BY <1>1, <1>2

\* One more character of a word, of whatever kind.
LEMMA WordGrows ==
  ASSUME NEW acc \in ScanState, NEW c \in Char
  PROVE  Extended([acc EXCEPT !.word = Append(@, c)], acc)
<1> DEFINE word == Append(acc.word, c)
<1>1. /\ [acc EXCEPT !.word = Append(@, c)]
           = [out |-> acc.out, head |-> acc.head, word |-> word, address |-> acc.address]
  <2>1. \A x : [acc EXCEPT !.word = x]
                 = [out |-> acc.out, head |-> acc.head, word |-> x, address |-> acc.address]
    BY DEF ScanState
  <2> QED
    BY <2>1
<1>2. word \in Seq(Char) /\ Len(word) = Len(acc.word) + 1
  <2>1. acc.word \in Seq(Char)
    BY ScanParts
  <2> QED
    BY <2>1
<1> HIDE DEF word
<1>3. Len(acc.out) + Len(acc.head) + Len(word) <= Len(acc.out) + Len(acc.head) + Len(acc.word) + 1
  <2>1. \A p, q, r \in Nat : p + q + (r + 1) <= p + q + r + 1
    OBVIOUS
  <2>2. Len(acc.out) \in Nat /\ Len(acc.head) \in Nat /\ Len(acc.word) \in Nat
    BY ScanParts
  <2> QED
    BY <1>2, <2>1, <2>2
<1> QED
  <2>1. acc.address \in BOOLEAN
    BY DEF ScanState
  <2>2. /\ Extends(acc.out, acc.out)
        /\ acc.out \in Seq(Shown) /\ acc.head \in Seq(Char)
    BY ScanParts
  <2>3. Extended([out |-> acc.out, head |-> acc.head, word |-> word, address |-> acc.address], acc)
    BY <1>2, <1>3, <2>1, <2>2, ScanIsState
  <2> QED
    BY <1>1, <2>3

LEMMA ScanDotExtends ==
  ASSUME NEW acc \in ScanState
  PROVE  Extended(ScanDot(acc), acc)
<1>1. "dot" \in Char
  BY DEF Char
<1>2. Extended(Settle(acc, "dot"), acc) /\ Extended([acc EXCEPT !.word = Append(@, "dot")], acc)
  BY <1>1, SettleExtends, WordGrows
<1> QED
  BY <1>2 DEF ScanDot

LEMMA ScanWordExtends ==
  ASSUME NEW acc \in ScanState
  PROVE  Extended(ScanWord(acc), acc)
<1>0. /\ Extends(acc.out, acc.out)
      /\ acc.out \in Seq(Shown) /\ acc.head \in Seq(Char) /\ acc.word \in Seq(Char)
      /\ Len(acc.out) \in Nat /\ Len(acc.head) \in Nat /\ Len(acc.word) \in Nat
  BY ScanParts
<1>1. CASE acc.address
  <2>1. ScanWord(acc) = [out |-> acc.out, head |-> acc.head, word |-> <<>>, address |-> acc.address]
    BY <1>1 DEF ScanWord, ScanState
  <2>2. Len(acc.out) + Len(acc.head) + Len(<<>>)
          <= Len(acc.out) + Len(acc.head) + Len(acc.word) + 1
    <3>1. \A p, q, r \in Nat : p + q + 0 <= p + q + r + 1
      OBVIOUS
    <3> QED
      BY <1>0, <3>1, NoCharacters
  <2>3. acc.address \in BOOLEAN
    BY DEF ScanState
  <2> QED
    BY <1>0, <2>1, <2>2, <2>3, NoCharacters, ScanIsState
<1>2. CASE ~acc.address /\ Completes(acc)
  <2> DEFINE out == Append(acc.out, "pii")
  <2>1. ScanWord(acc) = [out |-> out, head |-> <<>>, word |-> <<>>, address |-> TRUE]
    BY <1>2 DEF ScanWord
  <2>2. out \in Seq(Shown) /\ Extends(out, acc.out) /\ Len(out) = Len(acc.out) + 1
    BY <1>0, AppendExtends DEF Shown
  <2> HIDE DEF out
  <2>3. Len(out) + Len(<<>>) + Len(<<>>) <= Len(acc.out) + Len(acc.head) + Len(acc.word) + 1
    <3>1. \A p, q, r \in Nat : (p + 1) + 0 + 0 <= p + q + r + 1
      OBVIOUS
    <3> QED
      BY <1>0, <2>2, <3>1, NoCharacters
  <2> QED
    BY <2>1, <2>2, <2>3, NoCharacters, ScanIsState
<1>3. CASE ~acc.address /\ ~Completes(acc)
  <2>1. ScanWord(acc) = [acc EXCEPT !.word = Append(@, "word")]
    BY <1>3 DEF ScanWord
  <2> QED
    BY <2>1, WordGrows DEF Char
<1> QED
  BY <1>1, <1>2, <1>3

\* One character: the text that is settled only grows, and the whole by one at most.
LEMMA ScanOnce ==
  ASSUME NEW acc \in ScanState, NEW c \in Char
  PROVE  Scan[c][acc] \in ScanState /\ Extended(Scan[c][acc], acc)
<1>1. Scan[c][acc] = CASE c = "space" -> Settle(acc, c)
                       [] c = "at" -> ScanAt(acc)
                       [] c = "dot" -> ScanDot(acc)
                       [] c = "word" -> ScanWord(acc)
  BY DEF Scan
<1>2. c \in {"word", "dot", "at", "space"}
  BY DEF Char
<1>3. Extended(Scan[c][acc], acc)
  BY <1>1, <1>2, SettleExtends, ScanAtExtends, ScanDotExtends, ScanWordExtends
<1> QED
  BY <1>3 DEF Extended

\* The scan of a text exists: the function that Scanned chooses is one.
IsScan(g, t) == g = [n \in 0..Len(t) |-> IF n = 0 THEN Blank ELSE Scan[t[n]][g[n - 1]]]

LEMMA ScanExists ==
  ASSUME NEW t \in Seq(Char)
  PROVE  \E g \in [0..Len(t) -> ScanState] : IsScan(g, t)
<1> DEFINE UpTo(n) == \E g \in [0..n -> ScanState] :
                        g = [k \in 0..n |-> IF k = 0 THEN Blank ELSE Scan[t[k]][g[k - 1]]]
           S == {n \in Nat : n <= Len(t) => UpTo(n)}
<1>0. Len(t) \in Nat /\ \A k \in 1..Len(t) : t[k] \in Char
  OBVIOUS
<1>1. 0 \in S
  <2> DEFINE g == [k \in 0..0 |-> Blank]
  <2>1. Blank \in ScanState
    <3>1. <<>> \in Seq(Shown) /\ <<>> \in Seq(Char)
      OBVIOUS
    <3> QED
      BY <3>1 DEF Blank, ScanState
  <2>2. g \in [0..0 -> ScanState]
    BY <2>1
  <2>3. \A k \in 0..0 : g[k] = IF k = 0 THEN Blank ELSE Scan[t[k]][g[k - 1]]
    OBVIOUS
  <2> HIDE DEF g
  <2>4. g = [k \in 0..0 |-> IF k = 0 THEN Blank ELSE Scan[t[k]][g[k - 1]]]
    BY <2>2, <2>3
  <2> QED
    BY <2>2, <2>4
<1>2. ASSUME NEW n \in Nat, n \in S PROVE n + 1 \in S
  <2> SUFFICES ASSUME n + 1 <= Len(t) PROVE UpTo(n + 1)
    <3> HIDE DEF UpTo
    <3> QED
      OBVIOUS
  <2>1. PICK g \in [0..n -> ScanState] :
          g = [k \in 0..n |-> IF k = 0 THEN Blank ELSE Scan[t[k]][g[k - 1]]]
    BY <1>0, <1>2
  <2> DEFINE h == [k \in 0..(n + 1) |-> IF k = n + 1 THEN Scan[t[n + 1]][g[n]] ELSE g[k]]
  <2>2. g[n] \in ScanState /\ t[n + 1] \in Char
    BY <1>0, <2>1
  <2>3. Scan[t[n + 1]][g[n]] \in ScanState
    BY <2>2, ScanOnce
  <2>4. h \in [0..(n + 1) -> ScanState]
    BY <2>1, <2>3
  <2>5. \A k \in 0..(n + 1) : h[k] = IF k = 0 THEN Blank ELSE Scan[t[k]][h[k - 1]]
    <3> SUFFICES ASSUME NEW k \in 0..(n + 1)
                 PROVE  h[k] = IF k = 0 THEN Blank ELSE Scan[t[k]][h[k - 1]]
      OBVIOUS
    <3>1. CASE k = n + 1
      <4>1. k # 0 /\ k - 1 = n /\ h[k - 1] = g[n] /\ h[k] = Scan[t[n + 1]][g[n]]
        BY <3>1
      <4> QED
        BY <3>1, <4>1
    <3>2. CASE k # n + 1
      <4>1. k \in 0..n /\ h[k] = g[k]
        BY <3>2
      <4>2. g[k] = IF k = 0 THEN Blank ELSE Scan[t[k]][g[k - 1]]
        BY <2>1, <4>1
      <4>3. k # 0 => h[k - 1] = g[k - 1]
        BY <3>2
      <4> QED
        BY <4>1, <4>2, <4>3
    <3> QED
      BY <3>1, <3>2
  <2>6. h = [k \in 0..(n + 1) |-> IF k = 0 THEN Blank ELSE Scan[t[k]][h[k - 1]]]
    <3> HIDE DEF h
    <3> QED
      BY <2>4, <2>5
  <2> HIDE DEF h
  <2> QED
    BY <2>4, <2>6
<1>3. Nat \subseteq S
  <2> HIDE DEF S
  <2> QED
    BY <1>1, <1>2, Induction
<1>4. Len(t) \in S
  <2> HIDE DEF S
  <2> QED
    BY <1>0, <1>3
<1>5. UpTo(Len(t))
  BY <1>0, <1>4
<1> QED
  BY <1>5 DEF IsScan

\* Texts that agree on a prefix have scans that do.
Begins(t, u) == Len(t) <= Len(u) /\ \A i \in 1..Len(t) : t[i] = u[i]

LEMMA ScansAgree ==
  ASSUME NEW t \in Seq(Char), NEW u \in Seq(Char), NEW g, NEW h, IsScan(g, t), IsScan(h, u),
         Begins(t, u)
  PROVE  \A n \in 0..Len(t) : g[n] = h[n]
<1> DEFINE S == {n \in Nat : n <= Len(t) => g[n] = h[n]}
<1>0. /\ Len(t) \in Nat /\ Len(u) \in Nat
      /\ Len(t) <= Len(u) /\ \A i \in 1..Len(t) : t[i] = u[i]
  BY DEF Begins
<1>1. /\ \A n \in 0..Len(t) : g[n] = IF n = 0 THEN Blank ELSE Scan[t[n]][g[n - 1]]
      /\ \A n \in 0..Len(u) : h[n] = IF n = 0 THEN Blank ELSE Scan[u[n]][h[n - 1]]
  BY DEF IsScan
<1>2. 0 \in S
  BY <1>0, <1>1
<1>3. ASSUME NEW n \in Nat, n \in S PROVE n + 1 \in S
  <2> SUFFICES ASSUME n + 1 <= Len(t) PROVE g[n + 1] = h[n + 1]
    OBVIOUS
  <2>1. g[n] = h[n] /\ n + 1 \in 0..Len(t) /\ n + 1 \in 0..Len(u) /\ (n + 1) - 1 = n /\ n + 1 # 0
    BY <1>0, <1>3
  <2>2. g[n + 1] = Scan[t[n + 1]][g[n]] /\ h[n + 1] = Scan[u[n + 1]][h[n]]
    BY <1>1, <2>1
  <2>3. t[n + 1] = u[n + 1]
    BY <1>0
  <2> QED
    BY <2>1, <2>2, <2>3
<1>4. Nat \subseteq S
  <2> HIDE DEF S
  <2> QED
    BY <1>2, <1>3, Induction
<1> QED
  BY <1>0, <1>4

LEMMA ScannedIsScan ==
  ASSUME NEW t \in Seq(Char)
  PROVE  \E g \in [0..Len(t) -> ScanState] : IsScan(g, t) /\ g[Len(t)] = Scanned(t)
<1> DEFINE scan == CHOOSE scan : scan = [n \in 0..Len(t) |->
                                           IF n = 0 THEN Blank ELSE Scan[t[n]][scan[n - 1]]]
<1>1. PICK g \in [0..Len(t) -> ScanState] : IsScan(g, t)
  BY ScanExists
<1>2. IsScan(scan, t)
  BY <1>1 DEF IsScan
<1>3. Scanned(t) = scan[Len(t)]
  BY DEF Scanned
<1> HIDE DEF scan
<1>4. g[Len(t)] = scan[Len(t)]
  <2>1. Begins(t, t) /\ Len(t) \in 0..Len(t)
    BY DEF Begins
  <2> QED
    BY <1>1, <1>2, <2>1, ScansAgree
<1> QED
  BY <1>1, <1>3, <1>4

LEMMA ScannedEmpty == Scanned(<<>>) = Blank
<1>1. <<>> \in Seq(Char) /\ Len(<<>>) = 0
  OBVIOUS
<1>2. PICK g : IsScan(g, <<>>) /\ g[0] = Scanned(<<>>)
  BY <1>1, ScannedIsScan
<1> QED
  BY <1>1, <1>2 DEF IsScan

LEMMA OpenBlank == Len(Open(Blank)) = 0
<1>1. <<>> \o <<>> = <<>> /\ Len(<<>>) = 0
  OBVIOUS
<1>2. Open(Blank) = <<>> \o <<>>
  BY DEF Open, Blank
<1> QED
  BY <1>1, <1>2

LEMMA ScannedType == ASSUME NEW t \in Seq(Char) PROVE Scanned(t) \in ScanState
BY ScannedIsScan

\* Redacting never lengthens a text.
LEMMA RedactType ==
  ASSUME NEW t \in Seq(Char)
  PROVE  /\ Scanned(t).out \in Seq(Shown) /\ Open(Scanned(t)) \in Seq(Shown)
         /\ Redact(t) \in Seq(Shown)
         /\ Len(Redact(t)) = Len(Scanned(t).out) + Len(Open(Scanned(t)))
         /\ Len(Scanned(t).out) \in Nat /\ Len(Open(Scanned(t))) \in Nat
         /\ \A i \in 1..Len(Scanned(t).out) : Redact(t)[i] = Scanned(t).out[i]
<1>1. Scanned(t).out \in Seq(Shown) /\ Open(Scanned(t)) \in Seq(Shown)
  BY ScannedType, ScanParts
<1>2. Len(Scanned(t).out) \in Nat /\ Len(Open(Scanned(t))) \in Nat
  BY <1>1
<1> QED
  BY <1>1, <1>2, ConcatExtends DEF Redact, Extends

LEMMA RedactShortens ==
  ASSUME NEW t \in Seq(Char)
  PROVE  Len(Redact(t)) <= Len(t)
<1>0. Len(t) \in Nat
  OBVIOUS
<1>1. PICK g \in [0..Len(t) -> ScanState] : IsScan(g, t) /\ g[Len(t)] = Scanned(t)
  BY ScannedIsScan
<1>2. \A n \in 0..Len(t) : g[n] = IF n = 0 THEN Blank ELSE Scan[t[n]][g[n - 1]]
  BY <1>1 DEF IsScan
<1> DEFINE Size(n) == Len(g[n].out) + Len(Open(g[n]))
           S == {n \in Nat : n <= Len(t) => Size(n) <= n}
<1>3. \A n \in 0..Len(t) : Len(g[n].out) \in Nat /\ Len(Open(g[n])) \in Nat
  <2> SUFFICES ASSUME NEW n \in 0..Len(t) PROVE Len(g[n].out) \in Nat /\ Len(Open(g[n])) \in Nat
    OBVIOUS
  <2>1. g[n].out \in Seq(Shown) /\ Open(g[n]) \in Seq(Shown)
    BY <1>1, ScanParts
  <2> QED
    BY <2>1
<1>4. 0 \in S
  <2>1. g[0] = Blank /\ Len(<<>>) = 0 /\ <<>> \o <<>> = <<>>
    BY <1>0, <1>2
  <2>2. g[0].out = <<>> /\ Open(g[0]) = <<>>
    BY <2>1 DEF Blank, Open
  <2>3. Size(0) = 0
    BY <2>1, <2>2
  <2> QED
    BY <2>3
<1>5. ASSUME NEW n \in Nat, n \in S PROVE n + 1 \in S
  <2> SUFFICES ASSUME n + 1 <= Len(t) PROVE Size(n + 1) <= n + 1
    OBVIOUS
  <2>1. n \in 0..Len(t) /\ n + 1 \in 0..Len(t) /\ t[n + 1] \in Char
    BY <1>0
  <2>2. g[n] \in ScanState /\ g[n + 1] = Scan[t[n + 1]][g[n]]
    BY <1>1, <1>2, <2>1
  <2>3. Size(n + 1) <= Size(n) + 1
    BY <2>1, <2>2, ScanOnce DEF Extended
  <2>4. Size(n) <= n
    BY <1>0, <1>5
  <2>5. Size(n) \in Nat /\ Size(n + 1) \in Nat
    <3>1. \A a, b \in Nat : a + b \in Nat
      OBVIOUS
    <3> QED
      BY <1>3, <2>1, <3>1
  <2> HIDE DEF Size
  <2> QED
    BY <2>3, <2>4, <2>5
<1>6. Nat \subseteq S
  <2> HIDE DEF S
  <2> QED
    BY <1>4, <1>5, Induction
<1>7. Len(t) \in S
  <2> HIDE DEF S
  <2> QED
    BY <1>0, <1>6
<1> QED
  BY <1>0, <1>1, <1>7, RedactType

\* What a scan has settled, it has settled of a longer text as well.
LEMMA SettledOnce ==
  ASSUME NEW t \in Seq(Char), NEW u \in Seq(Char)
  PROVE  Extends(Scanned(t \o u).out, Scanned(t).out)
<1> DEFINE w == t \o u
<1>1. /\ w \in Seq(Char) /\ Len(w) = Len(t) + Len(u) /\ Len(t) \in Nat /\ Len(u) \in Nat
      /\ \A i \in 1..Len(t) : w[i] = t[i]
  BY ConcatProperties
<1> HIDE DEF w
<1>2. PICK g : IsScan(g, t) /\ g[Len(t)] = Scanned(t)
  BY ScannedIsScan
<1>3. PICK h \in [0..Len(w) -> ScanState] : IsScan(h, w) /\ h[Len(w)] = Scanned(w)
  BY <1>1, ScannedIsScan
<1>4. h[Len(t)] = Scanned(t)
  <2>1. Begins(t, w)
    BY <1>1 DEF Begins
  <2>2. \A n \in 0..Len(t) : g[n] = h[n]
    <3>1. IsScan(g, t) /\ IsScan(h, w) /\ w \in Seq(Char)
      BY <1>1, <1>2, <1>3
    <3> QED
      BY <2>1, <3>1, ScansAgree
  <2>3. Len(t) \in 0..Len(t)
    BY <1>1
  <2> QED
    BY <1>2, <2>2, <2>3
<1> DEFINE S == {n \in Nat : Len(t) + n <= Len(w) => Extends(h[Len(t) + n].out, Scanned(t).out)}
<1>5. Scanned(t) \in ScanState
  BY ScannedType
<1>6. 0 \in S
  <2>1. Extends(Scanned(t).out, Scanned(t).out)
    BY <1>5 DEF Extends, ScanState
  <2>2. Len(t) + 0 = Len(t)
    BY <1>1
  <2> QED
    BY <1>4, <2>1, <2>2
<1>7. ASSUME NEW n \in Nat, n \in S PROVE n + 1 \in S
  <2> DEFINE m == Len(t) + n
  <2> SUFFICES ASSUME Len(t) + (n + 1) <= Len(w)
               PROVE  Extends(h[Len(t) + (n + 1)].out, Scanned(t).out)
    OBVIOUS
  <2>1. /\ Len(t) + (n + 1) = m + 1 /\ m \in 0..Len(w) /\ m + 1 \in 0..Len(w)
        /\ w[m + 1] \in Char /\ (m + 1) - 1 = m /\ m + 1 # 0
    BY <1>1
  <2>2. Extends(h[m].out, Scanned(t).out)
    BY <1>7, <2>1
  <2> HIDE DEF m
  <2>3. h[m] \in ScanState /\ h[m + 1] = Scan[w[m + 1]][h[m]]
    BY <1>3, <2>1 DEF IsScan
  <2>4. Extends(h[m + 1].out, h[m].out)
    <3>1. Extends(Scan[w[m + 1]][h[m]].out, h[m].out)
      BY <2>1, <2>3, ScanOnce DEF Extended
    <3> QED
      BY <2>3, <3>1
  <2>5. Extends(h[m + 1].out, Scanned(t).out)
    <3>1. h[m + 1] \in ScanState
      BY <1>3, <2>1
    <3>2. /\ Len(h[m].out) \in Nat /\ Len(Scanned(t).out) \in Nat /\ Len(h[m + 1].out) \in Nat
      BY <1>5, <2>3, <3>1, ScanParts
    <3> QED
      BY <2>2, <2>4, <3>2, ExtendsOn
  <2> QED
    BY <2>1, <2>5
<1>8. Len(u) \in S
  <2> HIDE DEF S
  <2>1. Nat \subseteq S
    BY <1>6, <1>7, Induction
  <2> QED
    BY <1>1, <2>1
<1>9. Extends(Scanned(w).out, Scanned(t).out)
  <2>1. Len(t) + Len(u) <= Len(w)
    BY <1>1
  <2> QED
    BY <1>1, <1>3, <1>8, <2>1
<1> QED
  BY <1>9 DEF w

\* What redact has settled of a text, no later redaction changes: redacting a longer
\* text yields the same up to what may yet become part of an address, a local part,
\* its "at" and label, or dots behind an address (redaction.py:14, 43-75, and why
\* runner.py:896-910 may show that much of it).
THEOREM SettledTextStays ==
  ASSUME NEW t \in Seq(Char), NEW u \in Seq(Char)
  PROVE  /\ Redact(t) = Scanned(t).out \o Open(Scanned(t))
         /\ Extends(Redact(t \o u), Scanned(t).out)
<1> DEFINE w == t \o u
<1>1. w \in Seq(Char)
  BY ConcatProperties
<1>2. Extends(Scanned(w).out, Scanned(t).out)
  BY SettledOnce
<1> HIDE DEF w
<1>3. Extends(Redact(w), Scanned(w).out)
  BY <1>1, RedactType, ConcatExtends DEF Redact
<1>4. /\ Len(Scanned(t).out) \in Nat /\ Len(Scanned(w).out) \in Nat /\ Len(Redact(w)) \in Nat
  <2>1. Redact(w) \in Seq(Shown)
    BY <1>1, RedactType
  <2> QED
    BY <1>1, <2>1, RedactType
<1>5. Extends(Redact(w), Scanned(t).out)
  BY <1>2, <1>3, <1>4, ExtendsOn
<1> QED
  BY <1>5 DEF w, Redact

\* A prefix of the text before, joined with what the text now has behind it.
LEMMA SendsTheRest ==
  ASSUME NEW s \in Seq(Shown), NEW r \in Seq(Shown), NEW e \in Nat, NEW f \in Nat,
         e <= Len(s), e <= f, f <= Len(r), \A i \in 1..e : r[i] = s[i]
  PROVE  SubSeq(s, 1, e) \o SubSeq(r, e + 1, f) = SubSeq(r, 1, f)
<1>0. /\ Len(s) \in Nat /\ Len(r) \in Nat
      /\ \A i \in 1..Len(s) : s[i] \in Shown
      /\ \A i \in 1..Len(r) : r[i] \in Shown
  OBVIOUS
<1>1. SubSeq(s, 1, e) = SubSeq(r, 1, e)
  <2>1. /\ SubSeq(s, 1, e) \in Seq(Shown) /\ Len(SubSeq(s, 1, e)) = e
        /\ \A i \in 1..e : SubSeq(s, 1, e)[i] = s[i]
    <3>1. \A i \in 1..e : s[i] \in Shown
      BY <1>0
    <3> QED
      BY <3>1, SubSeqProperties
  <2>2. /\ SubSeq(r, 1, e) \in Seq(Shown) /\ Len(SubSeq(r, 1, e)) = e
        /\ \A i \in 1..e : SubSeq(r, 1, e)[i] = r[i]
    <3>1. \A i \in 1..e : r[i] \in Shown
      BY <1>0
    <3> QED
      BY <3>1, SubSeqProperties
  <2> QED
    BY <2>1, <2>2, SeqEqual
<1>2. SubSeq(r, 1, e) \o SubSeq(r, e + 1, f) = SubSeq(r, 1, f)
  <2>1. 1 \in 1..(Len(r) + 1) /\ e \in (1 - 1)..Len(r) /\ f \in e..Len(r)
    BY <1>0
  <2> QED
    BY <2>1, ConcatAdjacentSubSeq
<1> QED
  BY <1>1, <1>2

-----------------------------------------------------------------------------
\* The deltas.

LEMMA InitStreamed == Init => Streamed
<1> SUFFICES ASSUME Init PROVE Streamed
  OBVIOUS
<1>1. /\ text = <<>> /\ emitted = 0 /\ sent = <<>> /\ at = "queued"
      /\ text \in Seq(Char) /\ Len(text) = 0
  BY DEF Init
<1>2. Scanned(text).out = <<>> /\ Len(Open(Scanned(text))) = 0
  <2>1. Scanned(text) = Blank
    BY <1>1, ScannedEmpty
  <2>2. Blank.out = <<>>
    BY DEF Blank
  <2> QED
    BY <2>1, <2>2, OpenBlank
<1>3. SubSeq(Redact(text), 1, 0) = <<>>
  BY SubSeqEmpty
<1> QED
  BY <1>1, <1>2, <1>3, Bounds DEF Streamed

\* A step that leaves the text alone, and where it is drained.
LEMMA KeepsText ==
  ASSUME Streamed, UNCHANGED <<text, emitted, sent>>,
         at' = at \/ (at' # "drained" /\ at \notin {"drained", "stopped"})
  PROVE  Streamed'
BY DEF Streamed

\* A delta more: what may yet become an address stays within the tail, so what is
\* shown of the text before and now is settled.
LEMMA StreamTextStreamed ==
  ASSUME LongestOpen <= Holdback, Streamed, StreamText
  PROVE  Streamed'
<1>1. PICK d \in Deltas : text' = text \o d
  BY DEF StreamText
<1>2. /\ at = "stream" /\ at' = at /\ Len(text') <= MaxText
      /\ Len(Open(Scanned(text'))) <= LongestOpen
  BY DEF StreamText
<1>3. text \in Seq(Char) /\ d \in Seq(Char)
  BY Bounds DEF Streamed
<1>4. text' \in Seq(Char)
  BY <1>1, <1>3
<1> DEFINE old == Scanned(text)
           new == Scanned(text')
           s == Redact(text)
           r == Redact(text')
<1>5. emitted \in 0..Len(old.out) /\ sent = SubSeq(s, 1, emitted)
  BY <1>2 DEF Streamed
<1>6. /\ s \in Seq(Shown) /\ Len(s) = Len(old.out) + Len(Open(old))
      /\ Len(old.out) \in Nat /\ Len(Open(old)) \in Nat
      /\ \A i \in 1..Len(old.out) : s[i] = old.out[i]
  BY <1>3, RedactType
<1>7. /\ r \in Seq(Shown) /\ Len(r) = Len(new.out) + Len(Open(new))
      /\ Len(new.out) \in Nat /\ Len(Open(new)) \in Nat
      /\ \A i \in 1..Len(new.out) : r[i] = new.out[i]
  BY <1>4, RedactType
<1>8. emitted' = SafeLen(r) /\ sent' = sent \o SubSeq(r, emitted + 1, SafeLen(r))
  BY DEF StreamText
<1>9. /\ Len(old.out) <= Len(new.out)
      /\ \A i \in 1..Len(old.out) : new.out[i] = old.out[i]
  BY <1>1, <1>3, SettledOnce DEF Extends
<1>10. Len(Open(new)) <= LongestOpen
  BY <1>2
<1> HIDE DEF old, new, s, r
<1>11. SafeLen(r) \in Nat /\ emitted <= SafeLen(r) /\ SafeLen(r) <= Len(new.out)
  <2>1. emitted \in Nat /\ emitted <= Len(old.out)
    BY <1>5, <1>6
  <2>2. SafeLen(r) = IF Len(new.out) + Len(Open(new)) > emitted + Holdback
                       THEN (Len(new.out) + Len(Open(new))) - Holdback ELSE emitted
    BY <1>7 DEF SafeLen
  <2>3. CASE Len(new.out) + Len(Open(new)) > emitted + Holdback
    <3>1. \A e, n, w, l, h \in Nat :
            n + w > e + h /\ w <= l /\ l <= h =>
              (n + w) - h \in Nat /\ e <= (n + w) - h /\ (n + w) - h <= n
      OBVIOUS
    <3>2. SafeLen(r) = (Len(new.out) + Len(Open(new))) - Holdback
      BY <2>2, <2>3
    <3>3. /\ emitted \in Nat /\ Len(new.out) \in Nat /\ Len(Open(new)) \in Nat
          /\ Len(Open(new)) <= LongestOpen /\ LongestOpen \in Nat /\ Holdback \in Nat
      BY <1>7, <1>10, <2>1, Bounds
    <3> DEFINE a == Len(new.out)
               b == Len(Open(new))
    <3> HIDE DEF a, b
    <3>4. LET k == (a + b) - Holdback IN k \in Nat /\ emitted <= k /\ k <= a
      BY <2>3, <3>1, <3>3 DEF a, b
    <3> QED
      BY <3>2, <3>4 DEF a, b
  <2>4. CASE ~(Len(new.out) + Len(Open(new)) > emitted + Holdback)
    <3>1. SafeLen(r) = emitted
      BY <2>2, <2>4
    <3> QED
      BY <1>6, <1>7, <1>9, <2>1, <3>1
  <2> QED
    BY <2>3, <2>4
<1> DEFINE f == SafeLen(r)
<1> HIDE DEF f
<1>12. emitted \in Nat /\ emitted <= Len(s) /\ emitted <= f /\ f <= Len(r) /\ f \in Nat
  <2>1. f \in Nat /\ emitted <= f /\ f <= Len(new.out)
    BY <1>11 DEF f
  <2>2. \A a, b, c1 \in Nat : c1 <= a => c1 <= a + b
    OBVIOUS
  <2>3. emitted \in Nat /\ emitted <= Len(old.out)
    BY <1>5, <1>6
  <2> QED
    BY <1>6, <1>7, <1>9, <2>1, <2>2, <2>3
<1>13. \A i \in 1..emitted : r[i] = s[i]
  <2> SUFFICES ASSUME NEW i \in 1..emitted PROVE r[i] = s[i]
    OBVIOUS
  <2>1. i \in 1..Len(old.out) /\ i \in 1..Len(new.out)
    BY <1>5, <1>6, <1>7, <1>9
  <2>2. s[i] = old.out[i]
    BY <1>6, <2>1
  <2>3. r[i] = new.out[i]
    BY <1>7, <2>1
  <2>4. new.out[i] = old.out[i]
    BY <1>9, <2>1
  <2> QED
    BY <2>2, <2>3, <2>4
<1>14. SubSeq(s, 1, emitted) \o SubSeq(r, emitted + 1, f) = SubSeq(r, 1, f)
  BY <1>12, <1>13, SendsTheRest
<1>15. SafeLen(r) \in 0..Len(new.out)
  BY <1>7, <1>11
<1> QED
  BY <1>2, <1>4, <1>5, <1>8, <1>10, <1>14, <1>15 DEF Streamed, new, r, f

LEMMA FinishTextStreamed ==
  ASSUME Streamed, FinishText
  PROVE  Streamed'
<1>1. /\ at = "finish" /\ at' = "drained" /\ text' = text
      /\ IF Len(Redact(text)) > emitted
           THEN sent' = sent \o SubSeq(Redact(text), emitted + 1, Len(Redact(text)))
           ELSE sent' = sent
  BY DEF FinishText
<1>2. /\ text \in Seq(Char) /\ emitted \in 0..Len(Scanned(text).out)
      /\ sent = SubSeq(Redact(text), 1, emitted)
  BY <1>1 DEF Streamed
<1>3. ASSUME NEW final \in Seq(Shown), emitted \in Nat, emitted <= Len(final)
      PROVE  IF Len(final) > emitted
               THEN SubSeq(final, 1, emitted) \o SubSeq(final, emitted + 1, Len(final)) = final
               ELSE SubSeq(final, 1, emitted) = final
  <2>1. SubSeq(final, 1, Len(final)) = final
    BY SubSeqFull
  <2>2. Len(final) \in Nat
    OBVIOUS
  <2>3. Len(final) > emitted =>
          SubSeq(final, 1, emitted) \o SubSeq(final, emitted + 1, Len(final)) = final
    <3> DEFINE n == Len(final)
    <3>1. n \in Nat /\ n <= Len(final) /\ emitted <= n /\ emitted <= Len(final)
      BY <1>3, <2>2
    <3> HIDE DEF n
    <3>2. SubSeq(final, 1, emitted) \o SubSeq(final, emitted + 1, n) = SubSeq(final, 1, n)
      BY <1>3, <3>1, SendsTheRest
    <3> QED
      BY <2>1, <3>2 DEF n
  <2>4. ~(Len(final) > emitted) => emitted = Len(final)
    BY <1>3, <2>2
  <2> QED
    BY <2>1, <2>3, <2>4
<1>4. /\ Redact(text) \in Seq(Shown) /\ emitted \in Nat /\ emitted <= Len(Redact(text))
  <2>1. /\ Redact(text) \in Seq(Shown)
        /\ Len(Redact(text)) = Len(Scanned(text).out) + Len(Open(Scanned(text)))
    BY <1>2, RedactType
  <2>2. Len(Scanned(text).out) \in Nat /\ Len(Open(Scanned(text))) \in Nat
    BY <1>2, RedactType
  <2>3. \A a, b \in Nat : \A e \in 0..a : e \in Nat /\ e <= a + b
    OBVIOUS
  <2> QED
    BY <1>2, <2>1, <2>2, <2>3
<1>5. sent' = Redact(text)
  BY <1>1, <1>2, <1>3, <1>4
<1> QED
  BY <1>1, <1>5 DEF Streamed

LEMMA EndTurnStreamed ==
  ASSUME EndTurn
  PROVE  Streamed'
<1>1. text' = <<>> /\ emitted' = 0 /\ sent' = <<>> /\ at' \in {"stopped", "dispatch"}
      /\ text' \in Seq(Char) /\ Len(text') = 0
  BY DEF EndTurn, Finalize
<1>2. Scanned(text').out = <<>> /\ Len(Open(Scanned(text'))) = 0
  <2>1. Scanned(text') = Blank
    BY <1>1, ScannedEmpty
  <2>2. Blank.out = <<>>
    BY DEF Blank
  <2> QED
    BY <2>1, <2>2, OpenBlank
<1>3. SubSeq(Redact(text'), 1, 0) = <<>>
  BY SubSeqEmpty
<1> QED
  BY <1>1, <1>2, <1>3, Bounds DEF Streamed

LEMMA NextStreamed ==
  ASSUME LongestOpen <= Holdback, Streamed, [Next]_vars
  PROVE  Streamed'
<1>1. CASE UNCHANGED vars
  BY <1>1, KeepsText DEF vars, turn
<1>2. CASE LoopBegin \/ LoopError \/ LoopPropose \/ LoopWizard \/ LoopAnswer \/ LoopDies
  BY <1>2, KeepsText DEF LoopBegin, LoopError, LoopPropose, LoopWizard, LoopAnswer, LoopDies,
     Finalize, Die, turn
<1>3. CASE GuidedError \/ GuidedPropose \/ GuidedInputs \/ StartLoop \/ Cancel \/ FeedResults
  BY <1>3, KeepsText DEF GuidedError, GuidedPropose, GuidedInputs, StartLoop, Cancel,
     FeedResults, Finalize, Die, turn
<1>4. CASE BeginTurn \/ OutOfSteps \/ StreamToolUse \/ FailOver \/ StreamRaises \/ Drain
  BY <1>4, KeepsText DEF BeginTurn, OutOfSteps, StreamToolUse, FailOver, StreamRaises, Drain,
     Finalize, Die, turn
<1>5. CASE StreamText
  BY <1>5, StreamTextStreamed
<1>6. CASE FinishText
  BY <1>6, FinishTextStreamed
<1>7. CASE EndTurn
  BY <1>7, EndTurnStreamed
<1>8. CASE \/ Refuse \/ OutOfCalls \/ Pause \/ Accept \/ StartReads \/ EndReads \/ StartWrite
           \/ EndWrite \/ NoClient
  BY <1>8, KeepsText DEF Refuse, OutOfCalls, Pause, Accept, StartReads, EndReads, StartWrite,
     EndWrite, NoClient, Finalize, Die, turn
<1>9. ASSUME NEW i \in 1..MaxProposals, Read(i) PROVE Streamed'
  <2>1. at = "reads" /\ at' \in {"reads", "stopped"} /\ UNCHANGED turn
    BY <1>9 DEF Read, Acquire, ReadSeq, BeginFlush, EndFlush, ExecuteRead, Move, Die
  <2> QED
    BY <2>1, KeepsText DEF turn
<1> QED
  BY <1>1, <1>2, <1>3, <1>4, <1>5, <1>6, <1>7, <1>8, <1>9 DEF Next, Job, Stream, Dispatch

\* While no local part with its label and dots outgrows the tail, the deltas of a
\* message, joined, are its redacted text (_IncrementalDeltaStreamer), whatever a
\* provider streams, in whatever deltas, and however often the next one takes over.
THEOREM DeltasJoinToTheMessage ==
  ASSUME LongestOpen <= Holdback
  PROVE  Spec => []DeltasAreTheMessage
<1>1. Streamed => DeltasAreTheMessage
  BY DEF Streamed, DeltasAreTheMessage
<1>2. Streamed /\ [Next]_vars => Streamed'
  BY NextStreamed
<1> QED
  BY <1>1, <1>2, InitStreamed, PTL DEF Spec

-----------------------------------------------------------------------------
\* The types.

LEMMA InitTyped == Init => Typed
<1> SUFFICES ASSUME Init PROVE Typed
  OBVIOUS
<1>1. /\ text \in Seq(Char) /\ Len(text) = 0 /\ sent \in Seq(Shown)
      /\ proposals \in Seq(Tools) /\ Len(proposals) = 0
      /\ recent \in Seq(Tools) /\ Len(recent) = 0 /\ records \in Seq(Outcome) /\ results \in Seq(Nat)
  BY DEF Init
<1>2. DOMAIN gather.place = {}
  BY DEF Init, NoReads
<1>3. provider \in 0..Len(Providers) /\ emitted \in 0..MaxText /\ unhealthy \subseteq Range(Providers)
  BY Bounds DEF Init
<1> QED
  BY <1>1, <1>2, <1>3, Bounds DEF Init, Typed, TypeOK, Status, Shown, Outcome

\* What a step leaves alone keeps its type: the part of TypeOK for the runner, its
\* place and its status, for the turn, and for the dispatch.
RunTyped ==
  /\ runner \in {"model", "loop"}
  /\ at \in {"queued", "loop", "begin", "stream", "finish", "drained", "dispatch",
             "reads", "writes", "stopped"}
  /\ status \in Status

ProviderTyped ==
  /\ provider \in 0..Len(Providers) /\ unhealthy \subseteq Range(Providers)
  /\ at = "stream" => provider # 0

TextTyped ==
  /\ text \in Seq(Char) /\ Len(text) <= MaxText /\ emitted \in 0..MaxText
  /\ sent \in Seq(Shown)

CallsTyped ==
  /\ proposals \in Seq(Tools) /\ Len(proposals) <= MaxProposals
  /\ recent \in Seq(Tools) /\ Len(recent) <= 3

GatherTyped == \A i \in DOMAIN gather.place : gather.place[i] \in Place

LEMMA TypedParts ==
  Typed <=> /\ RunTyped /\ ProviderTyped /\ TextTyped /\ CallsTyped /\ GatherTyped
            /\ records \in Seq(Outcome) /\ results \in Seq(Nat)
BY DEF Typed, TypeOK, RunTyped, ProviderTyped, TextTyped, CallsTyped, GatherTyped, Outcome

LEMMA TypedPartsNext ==
  Typed' <=> /\ RunTyped' /\ ProviderTyped' /\ TextTyped' /\ CallsTyped' /\ GatherTyped'
             /\ records' \in Seq(Outcome) /\ results' \in Seq(Nat)
BY DEF Typed, TypeOK, RunTyped, ProviderTyped, TextTyped, CallsTyped, GatherTyped, Outcome

\* A step that does not begin to stream, and changes neither the turn nor the tools.
LEMMA MovesOn ==
  ASSUME Typed, RunTyped', UNCHANGED <<recent, unhealthy, turn, tools>>,
         at' = "stream" => at = "stream"
  PROVE  Typed'
BY TypedParts, TypedPartsNext DEF ProviderTyped, TextTyped, CallsTyped, GatherTyped, turn, tools

LEMMA NextHealthyType ==
  ASSUME NEW out, NEW skip \in Nat
  PROVE  /\ NextHealthy(out, skip) \in 0..Len(Providers)
         /\ NextHealthy(out, skip) = 0 \/ NextHealthy(out, skip) > skip
<1> DEFINE open == {p \in DOMAIN Providers : Providers[p] \notin out /\ p > skip}
<1>1. DOMAIN Providers = 1..Len(Providers) /\ Len(Providers) \in Nat
  BY Bounds
<1>2. CASE open = {}
  BY <1>1, <1>2 DEF NextHealthy
<1>3. CASE open # {}
  <2>1. open \in SUBSET Nat
    BY <1>1
  <2>2. NextHealthy(out, skip) = CHOOSE p \in open : \A q \in open : p <= q
    BY <1>3 DEF NextHealthy
  <2>3. open \subseteq 1..Len(Providers)
    BY <1>1
  <2> HIDE DEF open
  <2>4. \E p \in open : \A q \in open : p <= q
    BY <1>3, <2>1, Least
  <2>5. NextHealthy(out, skip) \in open
    BY <2>2, <2>4
  <2>6. NextHealthy(out, skip) \in 1..Len(Providers) /\ NextHealthy(out, skip) > skip
    BY <2>3, <2>5 DEF open
  <2> HIDE DEF NextHealthy
  <2> QED
    BY <1>1, <2>6
<1> QED
  BY <1>2, <1>3

LEMMA TurnTyped ==
  ASSUME Typed, BeginTurn \/ FailOver
  PROVE  Typed'
<1>1. CASE BeginTurn
  <2>1. provider' \in 0..Len(Providers)
    BY <1>1, NextHealthyType DEF BeginTurn
  <2>2. RunTyped'
    BY <1>1, TypedParts DEF BeginTurn, Finalize, RunTyped, Status
  <2>3. ProviderTyped'
    BY <1>1, <2>1, TypedParts DEF BeginTurn, Finalize, ProviderTyped
  <2>4. TextTyped'
    BY <1>1, TypedParts DEF BeginTurn, TextTyped
  <2>5. CallsTyped'
    <3>1. proposals' = <<>> /\ proposals' \in Seq(Tools) /\ Len(proposals') = 0 /\ recent' = recent
      BY <1>1 DEF BeginTurn
    <3> QED
      BY <3>1, TypedParts, Bounds DEF CallsTyped
  <2>6. GatherTyped'
    <3>1. DOMAIN gather'.place = {}
      BY <1>1 DEF BeginTurn, NoReads
    <3> QED
      BY <3>1 DEF GatherTyped
  <2>7. records' \in Seq(Outcome) /\ results' \in Seq(Nat)
    BY <1>1 DEF BeginTurn
  <2> QED
    BY <2>2, <2>3, <2>4, <2>5, <2>6, <2>7, TypedPartsNext
<1>2. CASE FailOver
  <2>1. /\ at = "stream" /\ provider \in 1..Len(Providers) /\ unhealthy \subseteq Range(Providers)
    BY <1>2, TypedParts, Bounds DEF FailOver, ProviderTyped
  <2>2. Providers[provider] \in Range(Providers)
    BY <2>1, Bounds DEF Range
  <2>3. provider' \in 0..Len(Providers) /\ unhealthy' \subseteq Range(Providers)
    BY <1>2, <2>1, <2>2, NextHealthyType DEF FailOver
  <2>4. RunTyped'
    BY <1>2, TypedParts DEF FailOver, Finalize, RunTyped, Status
  <2>5. ProviderTyped'
    BY <1>2, <2>3 DEF FailOver, Finalize, ProviderTyped
  <2>6. TextTyped' /\ CallsTyped' /\ GatherTyped' /\ UNCHANGED <<records, results>>
    BY <1>2, TypedParts DEF FailOver, TextTyped, CallsTyped, GatherTyped, tools
  <2> QED
    BY <2>4, <2>5, <2>6, TypedParts, TypedPartsNext
<1> QED
  BY <1>1, <1>2

\* What is shown grows with the redacted text, which is never longer than the text.
LEMMA TextStepTyped ==
  ASSUME Typed, StreamText \/ FinishText
  PROVE  Typed'
<1>1. /\ text \in Seq(Char) /\ Len(text) <= MaxText /\ emitted \in 0..MaxText
      /\ sent \in Seq(Shown)
  BY TypedParts DEF TextTyped, Shown
<1>2. RunTyped' /\ ProviderTyped'
  BY TypedParts DEF StreamText, FinishText, RunTyped, ProviderTyped
<1>3. CallsTyped' /\ GatherTyped' /\ UNCHANGED <<records, results>>
  BY TypedParts DEF StreamText, FinishText, CallsTyped, GatherTyped, tools
<1>4. ASSUME NEW r \in Seq(Shown), NEW n \in Nat, NEW m \in Nat, n <= Len(r)
      PROVE  SubSeq(r, m + 1, n) \in Seq(Shown)
  <2>1. \A i \in (m + 1)..n : i \in 1..Len(r)
    BY <1>4
  <2>2. \A i \in (m + 1)..n : r[i] \in Shown
    BY <2>1
  <2> QED
    BY <2>2, SubSeqProperties
<1>5. CASE StreamText
  <2>1. PICK d \in Deltas : text' = text \o d
    BY <1>5 DEF StreamText
  <2>2. Len(text') <= MaxText /\ d \in Seq(Char)
    BY <1>5, Bounds DEF StreamText
  <2>3. text' \in Seq(Char) /\ Len(text') <= MaxText /\ Len(text') \in Nat
    BY <1>1, <2>1, <2>2
  <2> DEFINE r == Redact(text')
  <2>4. emitted' = SafeLen(r) /\ sent' = sent \o SubSeq(r, emitted + 1, SafeLen(r))
    BY <1>5 DEF StreamText
  <2>5. r \in Seq(Shown) /\ Len(r) <= MaxText /\ Len(r) \in Nat
    <3>1. r \in Seq(Shown) /\ Len(r) <= Len(text')
      BY <2>3, RedactType, RedactShortens
    <3>2. Len(r) \in Nat
      BY <3>1
    <3> HIDE DEF r
    <3> QED
      BY <2>3, <3>1, <3>2, Bounds
  <2> HIDE DEF r
  <2>6. SafeLen(r) \in Nat /\ SafeLen(r) <= MaxText
    BY <1>1, <2>5, Bounds DEF SafeLen
  <2>7. sent' \in Seq(Shown)
    <3>1. CASE Len(r) > emitted + Holdback
      <4>1. SafeLen(r) <= Len(r)
        BY <1>1, <2>5, <3>1, Bounds DEF SafeLen
      <4>2. SubSeq(r, emitted + 1, SafeLen(r)) \in Seq(Shown)
        BY <1>1, <1>4, <2>5, <2>6, <4>1
      <4> QED
        BY <1>1, <2>4, <4>2
    <3>2. CASE ~(Len(r) > emitted + Holdback)
      <4>1. SafeLen(r) = emitted /\ emitted \in Nat
        BY <1>1, <3>2 DEF SafeLen
      <4>2. SubSeq(r, emitted + 1, emitted) = <<>>
        BY <4>1, SubSeqEmpty
      <4> QED
        BY <1>1, <2>4, <4>1, <4>2
    <3> QED
      BY <3>1, <3>2
  <2>8. TextTyped'
    BY <2>3, <2>4, <2>6, <2>7, Bounds DEF TextTyped, Shown
  <2> QED
    BY <1>2, <1>3, <2>8, TypedParts, TypedPartsNext
<1>6. CASE FinishText
  <2> DEFINE r == Redact(text)
  <2>1. /\ text' = text
        /\ IF Len(r) > emitted
             THEN sent' = sent \o SubSeq(r, emitted + 1, Len(r)) /\ emitted' = Len(r)
             ELSE UNCHANGED <<sent, emitted>>
    BY <1>6 DEF FinishText
  <2>2. r \in Seq(Shown) /\ Len(r) <= MaxText /\ Len(r) \in Nat
    <3>1. r \in Seq(Shown) /\ Len(r) <= Len(text)
      BY <1>1, RedactType, RedactShortens
    <3>2. Len(r) \in Nat /\ Len(text) \in Nat
      BY <1>1, <3>1
    <3> HIDE DEF r
    <3> QED
      BY <1>1, <3>1, <3>2, Bounds
  <2> HIDE DEF r
  <2>3. SubSeq(r, emitted + 1, Len(r)) \in Seq(Shown)
    BY <1>1, <1>4, <2>2
  <2>4. sent' \in Seq(Shown)
    <3> DEFINE rest == SubSeq(r, emitted + 1, Len(r))
    <3>1. sent \o rest \in Seq(Shown)
      <4> HIDE DEF rest
      <4> QED
        BY <1>1, <2>3, ConcatProperties DEF rest
    <3>2. sent' = sent \o rest \/ sent' = sent
      BY <2>1
    <3> QED
      BY <1>1, <3>1, <3>2
  <2>5. emitted' \in 0..MaxText
    BY <1>1, <2>1, <2>2, Bounds
  <2>6. TextTyped'
    BY <1>1, <2>1, <2>4, <2>5 DEF TextTyped, Shown
  <2> QED
    BY <1>2, <1>3, <2>6, TypedParts, TypedPartsNext
<1> QED
  BY <1>5, <1>6

LEMMA LastThreeType ==
  ASSUME NEW S, NEW s \in Seq(S)
  PROVE  LastThree(s) \in Seq(S) /\ Len(LastThree(s)) <= 3
<1>1. Len(s) \in Nat /\ \A i \in 1..Len(s) : s[i] \in S
  OBVIOUS
<1>2. CASE Len(s) > 3
  <2>1. LastThree(s) = SubSeq(s, Len(s) - 2, Len(s))
    BY <1>2 DEF LastThree
  <2>2. \A i \in (Len(s) - 2)..Len(s) : s[i] \in S
    BY <1>1, <1>2
  <2>3. Len(s) - 2 \in Int /\ Len(s) \in Int /\ Len(s) - 2 <= Len(s)
        /\ Len(s) - (Len(s) - 2) + 1 = 3
    BY <1>1
  <2> DEFINE m == Len(s) - 2
             n == Len(s)
  <2> HIDE DEF m, n
  <2>4. SubSeq(s, m, n) \in Seq(S) /\ Len(SubSeq(s, m, n)) = n - m + 1
    <3>1. m \in Int /\ n \in Int /\ m <= n /\ \A i \in m..n : s[i] \in S
      BY <2>2, <2>3 DEF m, n
    <3> QED
      BY <3>1, SubSeqProperties
  <2> QED
    BY <2>1, <2>3, <2>4 DEF m, n
<1>3. CASE ~(Len(s) > 3)
  <2>1. LastThree(s) = s
    BY <1>3, SubSeqFull DEF LastThree
  <2> QED
    BY <1>1, <1>3, <2>1
<1> QED
  BY <1>2, <1>3

LEMMA CallsStepTyped ==
  ASSUME Typed, StreamToolUse \/ EndTurn
  PROVE  Typed'
<1>1. proposals \in Seq(Tools) /\ Len(proposals) <= MaxProposals /\ recent \in Seq(Tools)
  BY TypedParts DEF CallsTyped
<1>2. RunTyped' /\ ProviderTyped' /\ GatherTyped' /\ UNCHANGED <<records, results>>
  BY TypedParts DEF StreamToolUse, EndTurn, Finalize, RunTyped, ProviderTyped, GatherTyped, tools,
     Status
<1>3. CASE StreamToolUse
  <2>1. CallsTyped'
    <3>1. PICK t \in Tools : proposals' = Append(proposals, t)
      BY <1>3 DEF StreamToolUse
    <3>2. Len(proposals) < MaxProposals /\ recent' = recent
      BY <1>3 DEF StreamToolUse
    <3>3. proposals' \in Seq(Tools) /\ Len(proposals') <= MaxProposals
      BY <1>1, <3>1, <3>2, Bounds
    <3> QED
      BY <3>2, <3>3, TypedParts DEF CallsTyped
  <2>2. TextTyped'
    BY <1>3, TypedParts DEF StreamToolUse, TextTyped
  <2> QED
    BY <1>2, <2>1, <2>2, TypedParts, TypedPartsNext
<1>4. CASE EndTurn
  <2>1. recent' = LastThree(recent \o proposals) /\ proposals' = proposals
    BY <1>4 DEF EndTurn
  <2>2. recent \o proposals \in Seq(Tools)
    BY <1>1
  <2>3. CallsTyped'
    BY <1>1, <2>1, <2>2, LastThreeType DEF CallsTyped
  <2>4. TextTyped'
    <3>1. text' = <<>> /\ emitted' = 0 /\ sent' = <<>>
      BY <1>4 DEF EndTurn
    <3>2. <<>> \in Seq(Char) /\ <<>> \in Seq(Shown) /\ Len(<<>>) = 0
      OBVIOUS
    <3> QED
      BY <3>1, <3>2, Bounds DEF TextTyped
  <2> QED
    BY <1>2, <2>3, <2>4, TypedParts, TypedPartsNext
<1> QED
  BY <1>3, <1>4

LEMMA DrainTyped == ASSUME Typed, Drain PROVE Typed'
<1>1. RunTyped'
  BY TypedParts DEF Drain, Finalize, RunTyped, Status
<1>2. ProviderTyped'
  BY TypedParts, Bounds DEF Drain, Finalize, ProviderTyped
<1>3. TextTyped' /\ CallsTyped' /\ GatherTyped' /\ UNCHANGED <<records, results>>
  BY TypedParts DEF Drain, TextTyped, CallsTyped, GatherTyped, tools
<1> QED
  BY <1>1, <1>2, <1>3, TypedParts, TypedPartsNext

\* A step of the dispatch: the records' type is part of Dispatched.
LEMMA DispatchTyped ==
  ASSUME Typed, Safe, Safe', UNCHANGED <<recent, unhealthy, turn>>, RunTyped',
         at' = "stream" => at = "stream", GatherTyped', results' \in Seq(Nat)
  PROVE  Typed'
<1>1. records' \in Seq(Outcome)
  BY DEF Safe, Dispatched, Outcome
<1>2. ProviderTyped' /\ TextTyped' /\ CallsTyped'
  BY TypedParts DEF ProviderTyped, TextTyped, CallsTyped, turn
<1> QED
  BY <1>1, <1>2, TypedPartsNext

LEMMA OrderType ==
  ASSUME Safe, NEW order \in InOrder(Readers)
  PROVE  /\ order \in Seq(Nat) /\ order \in [1..Cardinality(Readers) -> Readers]
         /\ Cardinality(Readers) \in Nat
         /\ \A i, j \in DOMAIN order : i < j => order[i] < order[j]
<1>1. Readers \subseteq 1..Len(records) /\ Len(records) \in Nat
  BY DEF Safe, Dispatched, Readers
<1>2. Cardinality(Readers) \in Nat
  <2>1. IsFiniteSet(1..Len(records))
    BY <1>1, FS_Interval
  <2> QED
    BY <1>1, <2>1, FS_Subset, FS_CardinalityType
<1>3. order \in [1..Cardinality(Readers) -> Readers]
  BY DEF InOrder
<1>4. order \in [1..Cardinality(Readers) -> Nat]
  <2>1. Readers \subseteq Nat
    BY <1>1
  <2> QED
    BY <1>3, <2>1
<1>5. order \in Seq(Nat)
  BY <1>2, <1>4, SeqDef
<1> QED
  BY <1>2, <1>3, <1>5 DEF InOrder

LEMMA ResultsTyped ==
  ASSUME Typed, Safe, Safe', Refuse \/ StartReads \/ EndReads \/ StartWrite \/ EndWrite
  PROVE  Typed'
<1>1. UNCHANGED <<recent, unhealthy, turn>> /\ RunTyped' /\ at' # "stream"
  BY TypedParts DEF Refuse, StartReads, EndReads, StartWrite, EndWrite, Die, RunTyped
<1>2. results \in Seq(Nat) /\ records \in Seq(Outcome)
  BY TypedParts
<1>3. GatherTyped'
  <2>1. CASE StartReads
    BY <2>1 DEF StartReads, GatherTyped, Place
  <2>2. CASE ~StartReads
    BY <2>2, TypedParts DEF Refuse, EndReads, StartWrite, EndWrite, GatherTyped
  <2> QED
    BY <2>1, <2>2
<1>4. results' \in Seq(Nat)
  <2>1. CASE Refuse
    BY <1>2, <2>1 DEF Refuse, Next1
  <2>2. CASE EndReads
    BY <1>2, <2>2, OrderType DEF EndReads, ReadResults
  <2>3. CASE EndWrite
    BY <1>2, <2>3 DEF EndWrite, Executing, Writers
  <2>4. CASE StartReads \/ StartWrite
    BY <1>2, <2>4 DEF StartReads, StartWrite
  <2> QED
    BY <2>1, <2>2, <2>3, <2>4
<1> QED
  BY <1>1, <1>3, <1>4, DispatchTyped

LEMMA ReadTyped ==
  ASSUME Typed, Safe, Safe', NEW i \in 1..MaxProposals, Read(i)
  PROVE  Typed'
<1>1. UNCHANGED <<recent, unhealthy, turn, results>> /\ RunTyped' /\ at' # "stream"
  BY TypedParts DEF Read, Acquire, ReadSeq, BeginFlush, EndFlush, ExecuteRead, Move, Die, RunTyped,
     tools
<1>2. DOMAIN gather = {"place", "seen", "inserted", "flushing"}
  BY DEF Safe, Dispatched, NoReads
<1>3. GatherTyped
  BY TypedParts
<1>4. GatherTyped'
  <2>1. CASE Acquire(i)
    BY <1>2, <1>3, <2>1 DEF Acquire, Move, GatherTyped, Place
  <2>2. CASE ExecuteRead(i)
    BY <1>2, <1>3, <2>2 DEF ExecuteRead, Move, GatherTyped, Place, tools
  <2>3. ASSUME NEW from \in Place, NEW to \in Place,
               ReadSeq(i, from, to) \/ BeginFlush(i, from, to) \/ EndFlush(i, from, to)
        PROVE  GatherTyped'
    <3>1. CASE ReadSeq(i, from, to)
      BY <1>2, <1>3, <3>1 DEF ReadSeq, GatherTyped
    <3>2. CASE BeginFlush(i, from, to)
      BY <1>2, <1>3, <3>2 DEF BeginFlush, GatherTyped
    <3>3. CASE EndFlush(i, from, to)
      BY <1>2, <1>3, <3>3 DEF EndFlush, GatherTyped
    <3> QED
      BY <2>3, <3>1, <3>2, <3>3
  <2> QED
    BY <2>1, <2>2, <2>3 DEF Read, Place
<1>5. results' \in Seq(Nat)
  BY <1>1, TypedParts
<1> QED
  BY <1>1, <1>4, <1>5, DispatchTyped

LEMMA NextTyped ==
  ASSUME Typed, Safe, Safe', [Next]_vars
  PROVE  Typed'
<1>1. CASE UNCHANGED vars
  BY <1>1, MovesOn, TypedParts DEF vars, RunTyped
<1>2. CASE LoopBegin \/ LoopError \/ LoopPropose \/ LoopWizard \/ LoopAnswer \/ LoopDies
  BY <1>2, MovesOn, TypedParts DEF LoopBegin, LoopError, LoopPropose, LoopWizard, LoopAnswer,
     LoopDies, Finalize, Die, RunTyped, Status
<1>3. CASE GuidedError \/ GuidedPropose \/ GuidedInputs \/ StartLoop \/ Cancel \/ FeedResults
  BY <1>3, MovesOn, TypedParts DEF GuidedError, GuidedPropose, GuidedInputs, StartLoop, Cancel,
     FeedResults, Finalize, Die, RunTyped, Status
<1>4. CASE OutOfSteps \/ StreamRaises \/ OutOfCalls \/ NoClient
  BY <1>4, MovesOn, TypedParts DEF OutOfSteps, StreamRaises, OutOfCalls, NoClient, Finalize, Die, RunTyped,
     Status
<1>5. CASE BeginTurn \/ FailOver
  BY <1>5, TurnTyped
<1>6. CASE StreamText \/ FinishText
  BY <1>6, TextStepTyped
<1>7. CASE StreamToolUse \/ EndTurn
  BY <1>7, CallsStepTyped
<1>8. CASE Drain
  BY <1>8, DrainTyped
<1>9. CASE Pause \/ Accept
  BY <1>9, DispatchTyped, TypedParts DEF Pause, Accept, Finalize, RunTyped, Status, GatherTyped
<1>10. CASE Refuse \/ StartReads \/ EndReads \/ StartWrite \/ EndWrite
  BY <1>10, ResultsTyped
<1>11. ASSUME NEW i \in 1..MaxProposals, Read(i) PROVE Typed'
  BY <1>11, ReadTyped
<1> QED
  BY <1>1, <1>2, <1>3, <1>4, <1>5, <1>6, <1>7, <1>8, <1>9, <1>10, <1>11
     DEF Next, Job, Stream, Dispatch

\* Every value has its type whatever providers and tools do: the positions of what
\* is shown stay within the text, and of who streams within the router's list.
THEOREM TypeCorrect == Spec => []TypeOK
<1>1. Typed => TypeOK
  BY DEF Typed
<1>2. Safe /\ Typed /\ [Next]_vars => Safe' /\ Typed'
  BY NextSafe, NextTyped
<1> QED
  BY <1>1, <1>2, InitSafe, InitTyped, PTL DEF Spec

-----------------------------------------------------------------------------
\* Sequences without repetition.

LEMMA AppendDistinct ==
  ASSUME NEW r \in Seq(Nat), IsInjective(r), NEW n \in Nat, n \notin Range(r)
  PROVE  IsInjective(Append(r, n)) /\ Range(Append(r, n)) = Range(r) \cup {n}
<1> DEFINE a == Append(r, n)
<1>1. /\ DOMAIN r = 1..Len(r) /\ Len(r) \in Nat /\ DOMAIN a = 1..(Len(r) + 1)
      /\ \A i \in 1..Len(r) : a[i] = r[i]
      /\ a[Len(r) + 1] = n
  OBVIOUS
<1> HIDE DEF a
<1>2. DOMAIN a = DOMAIN r \cup {Len(r) + 1} /\ Len(r) + 1 \notin DOMAIN r
  BY <1>1
<1>3. IsInjective(a)
  BY <1>1, <1>2 DEF IsInjective, Range
<1>4. Range(a) = Range(r) \cup {n}
  BY <1>1, <1>2 DEF Range
<1> QED
  BY <1>3, <1>4 DEF a

LEMMA ConcatDistinct ==
  ASSUME NEW r \in Seq(Nat), NEW s \in Seq(Nat), IsInjective(r), IsInjective(s),
         Range(r) \cap Range(s) = {}
  PROVE  IsInjective(r \o s) /\ Range(r \o s) = Range(r) \cup Range(s)
<1> DEFINE c == r \o s
<1>1. /\ DOMAIN r = 1..Len(r) /\ Len(r) \in Nat /\ DOMAIN s = 1..Len(s) /\ Len(s) \in Nat
  OBVIOUS
<1>2. /\ DOMAIN c = 1..(Len(r) + Len(s))
      /\ \A i \in 1..(Len(r) + Len(s)) : c[i] = IF i <= Len(r) THEN r[i] ELSE s[i - Len(r)]
  BY ConcatProperties
<1> HIDE DEF c
<1>3. \A i \in DOMAIN c : \/ i \in DOMAIN r /\ c[i] = r[i]
                          \/ i > Len(r) /\ i - Len(r) \in DOMAIN s /\ c[i] = s[i - Len(r)]
  BY <1>1, <1>2
<1>4. \A i \in DOMAIN r : i \in DOMAIN c /\ c[i] = r[i]
  BY <1>1, <1>2
<1>5. \A i \in DOMAIN s : i + Len(r) \in DOMAIN c /\ c[i + Len(r)] = s[i]
  <2> SUFFICES ASSUME NEW i \in DOMAIN s
               PROVE  i + Len(r) \in DOMAIN c /\ c[i + Len(r)] = s[i]
    OBVIOUS
  <2>1. i + Len(r) \in 1..(Len(r) + Len(s)) /\ ~(i + Len(r) <= Len(r)) /\ (i + Len(r)) - Len(r) = i
    BY <1>1
  <2> QED
    BY <1>2, <2>1
<1>6. Range(c) = Range(r) \cup Range(s)
  <2>1. Range(c) \subseteq Range(r) \cup Range(s)
    BY <1>3 DEF Range
  <2>2. Range(r) \subseteq Range(c)
    BY <1>4 DEF Range
  <2>3. Range(s) \subseteq Range(c)
    BY <1>5 DEF Range
  <2> QED
    BY <2>1, <2>2, <2>3
<1>7. IsInjective(c)
  <2> SUFFICES ASSUME NEW i \in DOMAIN c, NEW j \in DOMAIN c, c[i] = c[j] PROVE i = j
    BY DEF IsInjective
  <2>0. i \in Nat /\ j \in Nat
    BY <1>1, <1>2
  <2>1. CASE i \in DOMAIN r /\ c[i] = r[i] /\ j \in DOMAIN r /\ c[j] = r[j]
    BY <2>1 DEF IsInjective
  <2>2. CASE /\ i - Len(r) \in DOMAIN s /\ c[i] = s[i - Len(r)]
             /\ j - Len(r) \in DOMAIN s /\ c[j] = s[j - Len(r)]
    <3>1. i - Len(r) = j - Len(r)
      BY <2>2 DEF IsInjective
    <3> QED
      BY <1>1, <2>0, <3>1
  <2>3. CASE i \in DOMAIN r /\ c[i] = r[i] /\ j - Len(r) \in DOMAIN s /\ c[j] = s[j - Len(r)]
    <3>1. c[i] \in Range(r) /\ c[i] \in Range(s)
      BY <2>3 DEF Range
    <3> QED
      BY <3>1
  <2>4. CASE j \in DOMAIN r /\ c[j] = r[j] /\ i - Len(r) \in DOMAIN s /\ c[i] = s[i - Len(r)]
    <3>1. c[j] \in Range(r) /\ c[j] \in Range(s)
      BY <2>4 DEF Range
    <3> QED
      BY <3>1
  <2> QED
    BY <1>3, <2>1, <2>2, <2>3, <2>4
<1> QED
  BY <1>6, <1>7 DEF c

LEMMA DistinctLength ==
  ASSUME NEW r \in Seq(Nat), IsInjective(r), NEW n \in Nat, Range(r) = 1..n
  PROVE  Len(r) = n
<1>1. Len(r) \in Nat /\ DOMAIN r = 1..Len(r) /\ r = [i \in 1..Len(r) |-> r[i]]
  OBVIOUS
<1>2. r \in [1..Len(r) -> 1..n] /\ \A m \in 1..n : \E i \in 1..Len(r) : r[i] = m
  BY <1>1 DEF Range
<1>3. r \in Injection(1..Len(r), 1..n) /\ r \in Surjection(1..Len(r), 1..n)
  BY <1>2 DEF Injection, Surjection
<1>4. IsFiniteSet(1..n) /\ Cardinality(1..n) = n /\ Cardinality(1..Len(r)) = Len(r)
  <2>1. \A k \in Nat : IsFiniteSet(1..k) /\ Cardinality(1..k) = k
    BY FS_Interval
  <2> QED
    BY <1>1, <2>1
<1>5. Cardinality(1..Len(r)) = Cardinality(1..n)
  BY <1>3, <1>4, FS_Injection
<1> QED
  BY <1>4, <1>5

\* The readers in order are each of them, once.
LEMMA OrderIsAll ==
  ASSUME Safe, NEW order \in InOrder(Readers)
  PROVE  order \in Seq(Nat) /\ IsInjective(order) /\ Range(order) = Readers
<1> DEFINE n == Cardinality(Readers)
<1>1. /\ order \in Seq(Nat) /\ order \in [1..n -> Readers] /\ n \in Nat
      /\ \A i, j \in DOMAIN order : i < j => order[i] < order[j]
  BY OrderType
<1>2. IsFiniteSet(Readers)
  <2>1. Readers \subseteq 1..Len(records) /\ Len(records) \in Nat
    BY DEF Safe, Dispatched, Readers
  <2>2. IsFiniteSet(1..Len(records))
    BY <2>1, FS_Interval
  <2> QED
    BY <2>1, <2>2, FS_Subset
<1>3. IsFiniteSet(1..n) /\ Cardinality(1..n) = n
  BY <1>1, FS_Interval
<1> HIDE DEF n
<1>4. IsInjective(order)
  <2> SUFFICES ASSUME NEW i \in DOMAIN order, NEW j \in DOMAIN order, order[i] = order[j], i # j
               PROVE  FALSE
    BY DEF IsInjective
  <2>1. i \in Nat /\ j \in Nat /\ order[i] \in Nat /\ order[j] \in Nat
    BY <1>1
  <2>2. i < j \/ j < i
    BY <2>1
  <2> QED
    BY <1>1, <2>1, <2>2
<1>5. order \in Injection(1..n, Readers)
  BY <1>1, <1>4 DEF Injection
<1>6. order \in Surjection(1..n, Readers)
  BY <1>2, <1>3, <1>5, FS_Injection DEF n
<1> QED
  BY <1>1, <1>4, <1>6 DEF Surjection, Range

-----------------------------------------------------------------------------
\* The answers.

Know == Budgeted /\ Safe /\ Typed

LEMMA InitAnswered == Init => Answered
BY DEF Init, Answered, EveryCallAnswered

\* Where no answer is due yet, or none any more.
LEMMA NothingDue ==
  ASSUME at' \in {"queued", "loop", "stream", "finish", "drained", "stopped"}, results' = <<>>
  PROVE  Answered'
BY DEF Answered, EveryCallAnswered

LEMMA Stops ==
  ASSUME at' \in {"queued", "loop", "stopped"}
  PROVE  Answered'
BY DEF Answered, EveryCallAnswered

LEMMA SameAnswered ==
  ASSUME Answered, UNCHANGED <<at, budget, proposals, records, results, gather>>
  PROVE  Answered'
<1>1. Due' = Due /\ Readers' = Readers /\ Writers' = Writers
  BY DEF Due, Readers, Writers
<1> QED
  BY <1>1 DEF Answered, EveryCallAnswered

LEMMA TurnAnswered ==
  ASSUME Know, Answered, BeginTurn \/ StartLoop \/ Stream \/ FinishText
  PROVE  Answered'
<1>1. CASE BeginTurn
  BY <1>1, NothingDue DEF BeginTurn, Finalize
<1>2. CASE StartLoop
  <2>1. budget'.steps = 0 /\ at' = "begin"
    BY <1>2 DEF StartLoop, Know, Budgeted, EmptyBudget
  <2> QED
    BY <2>1 DEF Answered, EveryCallAnswered
<1>3. CASE Stream \/ FinishText
  <2>1. /\ at \in {"stream", "finish"} /\ at' \in {"stream", "finish", "drained", "stopped"}
        /\ results' = results
    BY <1>3 DEF Stream, StreamText, StreamToolUse, FailOver, StreamRaises, Drain, FinishText,
       Finalize, Die, tools
  <2> QED
    BY <2>1, NothingDue DEF Answered
<1> QED
  BY <1>1, <1>2, <1>3

LEMMA EndTurnAnswered ==
  ASSUME Know, Answered, EndTurn
  PROVE  Answered'
<1>1. at = "drained" /\ at' \in {"stopped", "dispatch"} /\ UNCHANGED <<records, results>>
  BY DEF EndTurn, Finalize, tools
<1>2. records' = <<>> /\ results' = <<>> /\ DOMAIN records' = {} /\ DOMAIN results' = {}
  BY <1>1 DEF Know, Safe, Dispatched, Answered
<1>3. CASE at' = "dispatch"
  <2>1. Due' = {} /\ Range(results') = {} /\ IsInjective(results')
    BY <1>2, <1>3 DEF Due, Range, IsInjective
  <2> QED
    BY <1>2, <1>3, <2>1 DEF Answered, EveryCallAnswered
<1> QED
  BY <1>1, <1>3, Stops

\* A call is refused, which is its answer, or accepted, and answered later.
LEMMA RecordAnswered ==
  ASSUME Know, Answered, Refuse \/ Accept
  PROVE  Answered'
<1>1. /\ at = "dispatch" /\ at' = at /\ Next1 <= Len(proposals)
      /\ UNCHANGED <<proposals, gather>>
  BY DEF Refuse, Accept, turn
<1>2. /\ records \in Seq(Outcome) /\ Next1 = Len(records) + 1 /\ Len(records) \in Nat
      /\ results \in Seq(Nat) /\ IsInjective(results) /\ Range(results) = Due
      /\ \A i \in DOMAIN records : records[i] # "proposed"
  BY <1>1, TypedParts DEF Know, Answered, Next1
<1>3. PICK o \in {"refused", "pending"} :
        /\ records' = Append(records, o)
        /\ results' = IF o = "refused" THEN Append(results, Next1) ELSE results
  BY DEF Refuse, Accept
<1>4. /\ DOMAIN records' = DOMAIN records \cup {Next1} /\ Next1 \notin DOMAIN records
      /\ records'[Next1] = o /\ \A i \in DOMAIN records : records'[i] = records[i]
  BY <1>2, <1>3 DEF Outcome
<1>5. Due = {i \in DOMAIN records : records[i] = "refused"} /\ Due \subseteq DOMAIN records
  BY <1>1 DEF Due
<1>6. Due' = {i \in DOMAIN records' : records'[i] = "refused"}
  BY <1>1 DEF Due
<1>7. Due' = IF o = "refused" THEN Due \cup {Next1} ELSE Due
  BY <1>4, <1>5, <1>6
<1>8. IsInjective(results') /\ Range(results') = Due'
  <2>1. CASE o = "refused"
    BY <1>2, <1>3, <1>4, <1>5, <1>7, <2>1, AppendDistinct
  <2>2. CASE o # "refused"
    BY <1>2, <1>3, <1>7, <2>2
  <2> QED
    BY <2>1, <2>2
<1>9. \A i \in DOMAIN records' : records'[i] # "proposed"
  BY <1>2, <1>3, <1>4
<1> QED
  BY <1>1, <1>8, <1>9 DEF Answered, EveryCallAnswered

LEMMA StartReadsAnswered ==
  ASSUME Know, Answered, StartReads
  PROVE  Answered'
<1>1. /\ at = "dispatch" /\ at' = "reads" /\ Next1 > Len(proposals)
      /\ UNCHANGED <<proposals, records, results>>
      /\ gather'.place = [i \in Readers |-> "waiting"]
  BY DEF StartReads, turn
<1>2. Len(records) = Len(proposals)
  <2>1. Len(records) \in Nat /\ Len(proposals) \in Nat /\ Len(records) <= Len(proposals)
    BY DEF Know, Safe, Dispatched
  <2> QED
    BY <1>1, <2>1 DEF Next1
<1>3. Due' = Due /\ Readers' = Readers
  BY <1>1 DEF Due, Readers
<1> QED
  BY <1>1, <1>2, <1>3 DEF Answered, EveryCallAnswered

Ended == {"select_ended", "insert_ended", "flush_ended", "done"}

LEMMA ReadAnswered ==
  ASSUME Know, Answered, NEW i \in 1..MaxProposals, Read(i)
  PROVE  Answered'
<1>1. at = "reads" /\ at' \in {"reads", "stopped"} /\ UNCHANGED <<proposals, results>>
  BY DEF Read, Acquire, ReadSeq, BeginFlush, EndFlush, ExecuteRead, Move, Die, turn, tools
<1> SUFFICES ASSUME at' = "reads" PROVE Answered'
  BY <1>1, Stops
<1>2. /\ records \in Seq(Outcome) /\ DOMAIN gather.place = Readers
      /\ DOMAIN gather = {"place", "seen", "inserted", "flushing"}
      /\ i \in Readers /\ i \in DOMAIN records
  BY <1>1 DEF Know, Safe, Dispatched, Outcome, NoReads, Read, Acquire, ReadSeq, BeginFlush,
     EndFlush, ExecuteRead, Move, Readers
<1>3. \/ /\ gather.place[i] = "execute"
         /\ \E o \in Settled : records' = [records EXCEPT ![i] = o]
         /\ gather' = [gather EXCEPT !.place[i] = "select_ended"]
      \/ /\ records' = records
         /\ \A j \in Readers : j # i => gather'.place[j] = gather.place[j]
         /\ gather'.place[i] \in Ended => gather.place[i] \in Ended
  <2>1. CASE Acquire(i)
    BY <1>2, <2>1 DEF Acquire, Move, Ended
  <2>2. CASE ExecuteRead(i)
    BY <1>2, <2>2 DEF ExecuteRead, Move, Die, Settled
  <2>3. ASSUME NEW from \in Place, NEW to \in Place, to \in Ended => from \in Ended,
               ReadSeq(i, from, to) \/ BeginFlush(i, from, to) \/ EndFlush(i, from, to)
        PROVE  /\ records' = records
               /\ \A j \in Readers : j # i => gather'.place[j] = gather.place[j]
               /\ gather'.place[i] \in Ended => gather.place[i] \in Ended
    <3>1. CASE ReadSeq(i, from, to)
      BY <1>2, <2>3, <3>1 DEF ReadSeq
    <3>2. CASE BeginFlush(i, from, to)
      BY <1>2, <2>3, <3>2 DEF BeginFlush
    <3>3. CASE EndFlush(i, from, to)
      BY <1>2, <2>3, <3>3 DEF EndFlush
    <3> QED
      BY <2>3, <3>1, <3>2, <3>3
  <2> QED
    BY <2>1, <2>2, <2>3 DEF Read, Place, Ended
<1>4. /\ DOMAIN records' = DOMAIN records /\ Len(records') = Len(records)
      /\ \A j \in DOMAIN records : j # i => records'[j] = records[j]
      /\ records'[i] = records[i] \/ records'[i] \in Settled
  BY <1>2, <1>3 DEF Outcome, Settled
<1>5. \A j \in DOMAIN records : records'[j] = "refused" <=> records[j] = "refused"
  BY <1>2, <1>4 DEF Readers, Settled
<1>6. Readers' = Readers
  BY <1>1, <1>4, <1>5 DEF Readers
<1>7. Due' = Due
  BY <1>1, <1>4, <1>5 DEF Due
<1>8. \A j \in Readers : gather'.place[j] \in Ended => records'[j] \in Settled
  <2>1. \A j \in Readers : gather.place[j] \in Ended => records[j] \in Settled
    BY <1>1 DEF Answered, Ended
  <2> SUFFICES ASSUME NEW j \in Readers, gather'.place[j] \in Ended PROVE records'[j] \in Settled
    OBVIOUS
  <2>2. CASE /\ records' = records
             /\ \A k \in Readers : k # i => gather'.place[k] = gather.place[k]
             /\ gather'.place[i] \in Ended => gather.place[i] \in Ended
    BY <2>1, <2>2
  <2>3. CASE gather' = [gather EXCEPT !.place[i] = "select_ended"]
    <3>1. j # i => gather'.place[j] = gather.place[j]
      BY <1>2, <2>3
    <3>2. \A k \in DOMAIN records : k # i => records'[k] = records[k]
      BY <1>4
    <3>3. j \in DOMAIN records
      BY DEF Readers
    <3>4. CASE j = i
      BY <1>2, <1>3, <1>4, <2>1, <3>4 DEF Settled, Ended
    <3>5. CASE j # i
      BY <2>1, <3>1, <3>2, <3>3, <3>5
    <3> QED
      BY <3>4, <3>5
  <2> QED
    BY <1>3, <2>2, <2>3
<1>9. \A j \in DOMAIN records' : records'[j] # "proposed"
  BY <1>1, <1>4 DEF Answered, Settled
<1> QED
  BY <1>1, <1>4, <1>6, <1>7, <1>8, <1>9 DEF Answered, EveryCallAnswered, Ended

LEMMA EndReadsAnswered ==
  ASSUME Know, Answered, EndReads
  PROVE  Answered'
<1>1. /\ at = "reads" /\ at' = "writes" /\ UNCHANGED <<proposals, records, gather>>
      /\ \A i \in DOMAIN gather.place : gather.place[i] = "done"
  BY DEF EndReads, ReadsDone, turn
<1>2. PICK order \in InOrder(Readers) : results' = results \o order
  BY DEF EndReads, ReadResults
<1>3. order \in Seq(Nat) /\ IsInjective(order) /\ Range(order) = Readers
  BY OrderIsAll DEF Know
<1>4. /\ results \in Seq(Nat) /\ IsInjective(results)
      /\ Range(results) = {i \in DOMAIN records : records[i] = "refused"}
  BY <1>1, TypedParts DEF Know, Answered, Due
<1>5. IsInjective(results') /\ Range(results') = Range(results) \cup Readers
  <2>1. Range(results) \cap Readers = {}
    BY <1>4 DEF Readers
  <2> QED
    BY <1>2, <1>3, <1>4, <2>1, ConcatDistinct
<1>6. Readers' = Readers /\ Writers' = Writers
  BY <1>1 DEF Readers, Writers
<1>7. Due' = Range(results) \cup Readers
  <2>1. {i \in Writers : records[i] \in Settled} = {}
    BY <1>1 DEF Know, Safe, Dispatched, Settled
  <2> QED
    BY <1>1, <1>4, <1>6, <2>1 DEF Due
<1>8. \A i \in Readers : records[i] \in Settled
  <2>1. DOMAIN gather.place = Readers
    BY <1>1 DEF Know, Safe, Dispatched
  <2> QED
    BY <1>1, <2>1 DEF Answered
<1> QED
  BY <1>1, <1>5, <1>6, <1>7, <1>8 DEF Answered, EveryCallAnswered

LEMMA WriteAnswered ==
  ASSUME Know, Answered, StartWrite \/ EndWrite
  PROVE  Answered'
<1>1. at = "writes" /\ at' \in {"writes", "stopped"} /\ UNCHANGED <<proposals, gather, budget>>
  BY DEF StartWrite, EndWrite, Die, turn
<1> SUFFICES ASSUME at' = "writes" PROVE Answered'
  BY <1>1, Stops
<1>2. PICK i \in Writers, o \in {"executing"} \cup Settled :
        /\ records' = [records EXCEPT ![i] = o]
        /\ records[i] = IF o = "executing" THEN "pending" ELSE "executing"
        /\ results' = IF o = "executing" THEN results ELSE Append(results, i)
  <2>1. CASE StartWrite
    BY <2>1 DEF StartWrite, PendingWrites
  <2>2. CASE EndWrite
    BY <1>1, <2>2 DEF EndWrite, Executing, Settled, Die
  <2> QED
    BY <2>1, <2>2
<1>3. /\ records \in Seq(Outcome) /\ results \in Seq(Nat) /\ IsInjective(results)
      /\ Range(results) = Due /\ i \in DOMAIN records /\ i \in Nat
  BY <1>1, TypedParts DEF Know, Answered, Writers
<1>4. /\ DOMAIN records' = DOMAIN records /\ Len(records') = Len(records) /\ records'[i] = o
      /\ \A j \in DOMAIN records : j # i => records'[j] = records[j]
  BY <1>2, <1>3 DEF Outcome, Settled
<1>5. \A j \in DOMAIN records : records'[j] = "refused" <=> records[j] = "refused"
  BY <1>2, <1>4 DEF Writers, Settled
<1>6. Readers' = Readers /\ Writers' = Writers
  BY <1>1, <1>4, <1>5 DEF Readers, Writers
<1>7. i \notin Readers
  BY DEF Readers, Writers
<1>8. Due' = IF o = "executing" THEN Due ELSE Due \cup {i}
  <2>1. \A j \in Writers : j # i => (records'[j] \in Settled <=> records[j] \in Settled)
    BY <1>4 DEF Writers
  <2>2. records[i] \notin Settled /\ (records'[i] \in Settled <=> o # "executing")
    BY <1>2, <1>4 DEF Settled
  <2>3. {j \in Writers : records'[j] \in Settled}
          = {j \in Writers : records[j] \in Settled} \cup (IF o = "executing" THEN {} ELSE {i})
    BY <2>1, <2>2
  <2>4. {j \in DOMAIN records' : records'[j] = "refused"}
          = {j \in DOMAIN records : records[j] = "refused"}
    BY <1>4, <1>5
  <2> QED
    BY <1>1, <1>6, <2>3, <2>4 DEF Due
<1>9. i \notin Due
  BY <1>2, <1>7 DEF Due, Writers, Settled
<1>10. IsInjective(results') /\ Range(results') = Due'
  <2>1. CASE o = "executing"
    BY <1>2, <1>3, <1>8, <2>1
  <2>2. CASE o # "executing"
    BY <1>2, <1>3, <1>8, <1>9, <2>2, AppendDistinct
  <2> QED
    BY <2>1, <2>2
<1>11. \A j \in Readers : records'[j] \in Settled
  <2>1. \A j \in Readers : j # i /\ j \in DOMAIN records /\ records[j] \in Settled
    BY <1>1, <1>7 DEF Answered, Readers
  <2> QED
    BY <1>4, <2>1
<1>12. \A j \in DOMAIN records' : records'[j] # "proposed"
  BY <1>1, <1>4 DEF Answered, Settled
<1> QED
  BY <1>1, <1>4, <1>6, <1>10, <1>11, <1>12 DEF Answered, EveryCallAnswered

\* Nothing is left to execute: every call is refused or settled, so all of them are due.
LEMMA FeedResultsAnswered ==
  ASSUME Know, Answered, FeedResults
  PROVE  Answered'
<1>1. /\ at = "writes" /\ at' = "begin" /\ UNCHANGED <<proposals, records, results>>
      /\ PendingWrites = {} /\ Executing = {}
  BY DEF FeedResults, turn, tools
<1>2. /\ records \in Seq(Outcome) /\ DOMAIN records = 1..Len(records) /\ Len(records) \in Nat
      /\ proposals \in Seq(Tools) /\ DOMAIN proposals = 1..Len(proposals)
      /\ Len(records) = Len(proposals)
      /\ results \in Seq(Nat) /\ IsInjective(results) /\ Range(results) = Due
  BY <1>1, TypedParts DEF Know, Answered, CallsTyped
<1>3. \A i \in DOMAIN records : records[i] \in {"refused"} \cup Settled
  <2> SUFFICES ASSUME NEW i \in DOMAIN records, records[i] # "refused" PROVE records[i] \in Settled
    OBVIOUS
  <2>1. i \in Readers \/ i \in Writers
    BY DEF Readers, Writers
  <2>2. CASE i \in Readers
    BY <1>1, <2>2 DEF Answered
  <2>3. CASE i \in Writers
    <3>1. records[i] \notin {"refused", "pending", "executing", "proposed"}
      BY <1>1, <2>3 DEF PendingWrites, Executing, Answered
    <3>2. records[i] \in Outcome
      BY <1>2
    <3> QED
      BY <3>1, <3>2 DEF Outcome, Settled
  <2> QED
    BY <2>1, <2>2, <2>3
<1>4. Due = DOMAIN records
  <2>1. Due = {i \in DOMAIN records : records[i] = "refused"}
                \cup Readers \cup {i \in Writers : records[i] \in Settled}
    BY <1>1 DEF Due
  <2> QED
    BY <1>3, <2>1 DEF Readers, Writers
<1>5. Len(results) = Len(proposals)
  BY <1>2, <1>4, DistinctLength
<1> QED
  BY <1>1, <1>2, <1>3, <1>4, <1>5 DEF Answered, EveryCallAnswered, Settled

LEMMA NextAnswered ==
  ASSUME Know, Answered, [Next]_vars
  PROVE  Answered'
<1>1. CASE UNCHANGED vars
  BY <1>1, SameAnswered DEF vars, turn, tools
<1>2. CASE LoopBegin \/ LoopError \/ LoopPropose \/ LoopWizard \/ LoopAnswer \/ LoopDies
  BY <1>2, Stops DEF LoopBegin, LoopError, LoopPropose, LoopWizard, LoopAnswer, LoopDies,
     Finalize, Die
<1>3. CASE \/ GuidedError \/ GuidedPropose \/ GuidedInputs \/ OutOfSteps \/ OutOfCalls \/ Pause
           \/ NoClient \/ Cancel
  BY <1>3, Stops DEF GuidedError, GuidedPropose, GuidedInputs, OutOfSteps, OutOfCalls, Pause,
     NoClient, Cancel, Finalize, Die
<1>4. CASE BeginTurn \/ StartLoop \/ Stream \/ FinishText
  BY <1>4, TurnAnswered
<1>5. CASE EndTurn
  BY <1>5, EndTurnAnswered
<1>6. CASE Refuse \/ Accept
  BY <1>6, RecordAnswered
<1>7. CASE StartReads
  BY <1>7, StartReadsAnswered
<1>8. ASSUME NEW i \in 1..MaxProposals, Read(i) PROVE Answered'
  BY <1>8, ReadAnswered
<1>9. CASE EndReads
  BY <1>9, EndReadsAnswered
<1>10. CASE StartWrite \/ EndWrite
  BY <1>10, WriteAnswered
<1>11. CASE FeedResults
  BY <1>11, FeedResultsAnswered
<1> QED
  BY <1>1, <1>2, <1>3, <1>4, <1>5, <1>6, <1>7, <1>8, <1>9, <1>10, <1>11 DEF Next, Job, Dispatch

\* When a model is asked again, each call it has proposed has settled and has one
\* result (_dispatch_proposals, _build_error_result): for any number of calls, in
\* whatever order the reads end.
THEOREM CallsAreAnswered == Spec => []EveryCallAnswered
<1>1. Answered => EveryCallAnswered
  BY DEF Answered
<1>2. Budgeted /\ Safe /\ Typed /\ Answered /\ [Next]_vars => Budgeted' /\ Safe' /\ Typed' /\ Answered'
  BY NextBudgeted, NextSafe, NextTyped, NextAnswered DEF Know
<1> QED
  BY <1>1, <1>2, InitBudgeted, InitSafe, InitTyped, InitAnswered, PTL DEF Spec

-----------------------------------------------------------------------------
\* The end of a job.

LEMMA FewerTurns ==
  ASSUME Budgeted, budget'.steps = budget.steps + 1, budget'.steps <= MaxSteps
  PROVE  Fewer(Left', Left)
<1>1. budget.steps \in Nat /\ MaxSteps \in Nat
  BY Limits DEF Budgeted
<1>2. MaxSteps - budget'.steps < MaxSteps - budget.steps
  BY <1>1
<1> QED
  BY <1>2 DEF Fewer, Left

LEMMA FewerPlaces ==
  ASSUME budget'.steps = budget.steps, PlaceLeft[at'] < PlaceLeft[at]
  PROVE  Fewer(Left', Left)
BY DEF Fewer, Left

LEMMA FewerSteps ==
  ASSUME budget'.steps = budget.steps, at' = at, StepsLeft' < StepsLeft
  PROVE  Fewer(Left', Left)
BY DEF Fewer, Left

\* The places of a turn.
LEMMA PlacesInOrder ==
  /\ PlaceLeft["queued"] = 9 /\ PlaceLeft["stream"] = 8 /\ PlaceLeft["finish"] = 7
  /\ PlaceLeft["drained"] = 6 /\ PlaceLeft["dispatch"] = 5 /\ PlaceLeft["reads"] = 4
  /\ PlaceLeft["writes"] = 3 /\ PlaceLeft["begin"] = 2 /\ PlaceLeft["loop"] = 1
  /\ PlaceLeft["stopped"] = 0
BY DEF PlaceLeft

\* The steps at a place.
LEMMA StepsAtPlace ==
  /\ at = "stream" =>
       StepsLeft = (Len(Providers) - provider) + (MaxText - Len(text))
                     + (MaxProposals - Len(proposals))
  /\ at = "dispatch" => StepsLeft = Len(proposals) - Len(records)
  /\ at = "reads" => StepsLeft = Cardinality(ReadsLeft)
  /\ at = "writes" => StepsLeft = 2 * Cardinality(PendingWrites) + Cardinality(Executing)
  /\ at \notin {"stream", "dispatch", "reads", "writes"} => StepsLeft = 0
BY DEF StepsLeft

LEMMA StepsAtPlaceNext ==
  /\ at' = "stream" =>
       StepsLeft' = (Len(Providers) - provider') + (MaxText - Len(text'))
                      + (MaxProposals - Len(proposals'))
  /\ at' = "dispatch" => StepsLeft' = Len(proposals') - Len(records')
  /\ at' = "reads" => StepsLeft' = Cardinality(ReadsLeft')
  /\ at' = "writes" => StepsLeft' = 2 * Cardinality(PendingWrites') + Cardinality(Executing')
BY DEF StepsLeft

LEMMA LeftFinite ==
  ASSUME Safe
  PROVE  /\ IsFiniteSet(ReadsLeft) /\ Cardinality(ReadsLeft) \in Nat
         /\ IsFiniteSet(PendingWrites) /\ Cardinality(PendingWrites) \in Nat
         /\ IsFiniteSet(Executing) /\ Cardinality(Executing) \in Nat
<1>1. Len(records) \in Nat /\ DOMAIN records = 1..Len(records)
  BY DEF Safe, Dispatched
<1>2. IsFiniteSet(DOMAIN records) /\ IsFiniteSet(1..8)
  <2>1. IsFiniteSet(1..Len(records))
    BY <1>1, FS_Interval
  <2>2. IsFiniteSet(1..8)
    <3>1. 1 \in Int /\ 8 \in Int
      OBVIOUS
    <3> QED
      BY <3>1, FS_Interval
  <2> QED
    BY <1>1, <2>1, <2>2
<1>3. DOMAIN gather.place \subseteq DOMAIN records
  BY DEF Safe, Dispatched
<1>4. IsFiniteSet((DOMAIN gather.place) \X (1..8))
  BY <1>2, <1>3, FS_Subset, FS_Product
<1>5. IsFiniteSet(ReadsLeft)
  BY <1>4, FS_Subset DEF ReadsLeft
<1>6. IsFiniteSet(PendingWrites) /\ IsFiniteSet(Executing)
  BY <1>2, FS_Subset DEF PendingWrites, Executing, Writers
<1> QED
  BY <1>5, <1>6, FS_CardinalityType

LEMMA LeftType ==
  ASSUME Budgeted, Safe, Typed
  PROVE  Left \in [1..3 -> Nat]
<1>1. MaxSteps - budget.steps \in Nat
  BY Limits DEF Budgeted
<1>2. PlaceLeft[at] \in Nat
  BY TypedParts, PlacesInOrder DEF RunTyped
<1>3. StepsLeft \in Nat
  <2>1. CASE at = "stream"
    <3>1. /\ Len(Providers) - provider \in Nat /\ MaxText - Len(text) \in Nat
          /\ MaxProposals - Len(proposals) \in Nat
      BY TypedParts, Bounds DEF ProviderTyped, TextTyped, CallsTyped
    <3> QED
      BY <2>1, <3>1, StepsAtPlace
  <2>2. CASE at = "dispatch"
    BY <2>2, StepsAtPlace DEF Safe, Dispatched
  <2>3. CASE at = "reads"
    BY <2>3, StepsAtPlace, LeftFinite
  <2>4. CASE at = "writes"
    <3>1. \A a, b \in Nat : 2 * a + b \in Nat
      OBVIOUS
    <3> QED
      BY <2>4, <3>1, StepsAtPlace, LeftFinite
  <2> QED
    BY <2>1, <2>2, <2>3, <2>4, StepsAtPlace
<1> QED
  BY <1>1, <1>2, <1>3 DEF Left

\* What is yielded, and who is asked, is bounded.
LEMMA StreamCounts ==
  ASSUME Budgeted, Safe, Typed, Stream
  PROVE  Fewer(Left', Left)
<1>0. /\ provider \in 0..Len(Providers) /\ Len(Providers) \in Nat
      /\ Len(text) \in Nat /\ Len(proposals) \in Nat /\ text \in Seq(Char) /\ proposals \in Seq(Tools)
      /\ MaxText \in Nat /\ MaxProposals \in Nat
  BY TypedParts, Bounds DEF ProviderTyped, TextTyped, CallsTyped
<1>1. CASE StreamText
  <2>0. PICK d \in Deltas : text' = text \o d
    BY <1>1 DEF StreamText
  <2>1. /\ Len(text') = Len(text) + Len(d) /\ Len(d) \in Nat /\ Len(d) > 0 /\ Len(text') <= MaxText
        /\ at = "stream" /\ UNCHANGED <<at, budget, provider, proposals>>
    <3>1. d \in Seq(Char) /\ d # <<>>
      BY Bounds
    <3> QED
      BY <1>0, <1>1, <2>0, <3>1 DEF StreamText
  <2>2. StepsLeft' < StepsLeft
    BY <1>0, <2>1, StepsAtPlace, StepsAtPlaceNext
  <2> QED
    BY <2>1, <2>2, FewerSteps
<1>2. CASE StreamToolUse
  <2>1. Len(proposals') = Len(proposals) + 1 /\ at = "stream" /\ UNCHANGED <<at, budget, provider, text>>
    BY <1>0, <1>2 DEF StreamToolUse
  <2>2. StepsLeft' < StepsLeft
    BY <1>0, <2>1, StepsAtPlace, StepsAtPlaceNext
  <2> QED
    BY <2>1, <2>2, FewerSteps
<1>3. CASE FailOver
  <2>1. at = "stream" /\ UNCHANGED <<budget, text, proposals>>
    BY <1>3 DEF FailOver
  <2>2. provider' = NextHealthy(unhealthy', provider)
    BY <1>3 DEF FailOver
  <2>3. CASE provider' = 0
    BY <1>3, <2>1, <2>3, FewerPlaces, PlacesInOrder DEF FailOver, Finalize
  <2>4. CASE provider' # 0
    <3>1. provider' \in Nat /\ provider' > provider /\ at' = at
      BY <1>0, <1>3, <2>2, <2>4, NextHealthyType DEF FailOver
    <3>2. StepsLeft' < StepsLeft
      BY <1>0, <2>1, <3>1, StepsAtPlace, StepsAtPlaceNext
    <3> QED
      BY <2>1, <3>1, <3>2, FewerSteps
  <2> QED
    BY <2>3, <2>4
<1>4. CASE StreamRaises
  BY <1>4, FewerPlaces, PlacesInOrder DEF StreamRaises, Die
<1>5. CASE Drain
  <2>1. budget'.steps = budget.steps
    <3>1. PICK n \in 0..MaxUsage : budget' = [budget EXCEPT !.tokens = @ + n]
      BY <1>5 DEF Drain
    <3> QED
      BY <3>1 DEF Budgeted
  <2>2. at = "stream" /\ at' \in {"stopped", "finish"}
    BY <1>5 DEF Drain, Finalize
  <2> QED
    BY <2>1, <2>2, FewerPlaces, PlacesInOrder
<1> QED
  BY <1>1, <1>2, <1>3, <1>4, <1>5 DEF Stream

\* Each proposal is dispatched once.
LEMMA DispatchCounts ==
  ASSUME Budgeted, Safe, Typed, Dispatch
  PROVE  Fewer(Left', Left)
<1>0. /\ records \in Seq(Outcome) /\ Len(records) \in Nat /\ Len(proposals) \in Nat
      /\ budget \in [steps : 0..MaxSteps, calls : 0..MaxCalls, tokens : 0..(MaxTokens + MaxUsage)]
  BY DEF Safe, Dispatched, Budgeted, Outcome
<1>1. CASE Refuse \/ Accept
  <2>1. \E o \in Outcome : records' = Append(records, o)
    BY <1>1 DEF Refuse, Accept, Outcome
  <2>2. Len(records') = Len(records) + 1
    BY <1>0, <2>1
  <2>3. /\ at = "dispatch" /\ at' = at /\ UNCHANGED proposals /\ budget'.steps = budget.steps
    BY <1>0, <1>1 DEF Refuse, Accept, turn
  <2>4. StepsLeft' < StepsLeft
    BY <1>0, <2>2, <2>3, StepsAtPlace, StepsAtPlaceNext
  <2> QED
    BY <2>3, <2>4, FewerSteps
<1>2. CASE OutOfCalls \/ Pause \/ StartReads
  <2>1. at = "dispatch" /\ at' \in {"stopped", "reads"} /\ budget'.steps = budget.steps
    BY <1>0, <1>2 DEF OutOfCalls, Pause, StartReads, Finalize
  <2> QED
    BY <2>1, FewerPlaces, PlacesInOrder
<1> QED
  BY <1>1, <1>2 DEF Dispatch

\* A read comes to each of its places once.
LEMMA ReadComesOn ==
  ASSUME Safe, NEW i \in DOMAIN gather.place, NEW to \in Place,
         gather'.place = [gather.place EXCEPT ![i] = to],
         GatherTyped, ReadPlace[to] = ReadPlace[gather.place[i]] + 1
  PROVE  Cardinality(ReadsLeft') < Cardinality(ReadsLeft)
<1> DEFINE r == <<i, ReadPlace[to]>>
<1>1. \A p \in Place : ReadPlace[p] \in 0..8
  BY DEF Place, ReadPlace
<1>2. gather.place[i] \in Place
  BY DEF GatherTyped
<1>3. r \in ReadsLeft
  BY <1>1, <1>2 DEF ReadsLeft
<1>4. ReadsLeft' = ReadsLeft \ {r}
  <2>1. /\ DOMAIN gather'.place = DOMAIN gather.place /\ gather'.place[i] = to
        /\ \A j \in DOMAIN gather.place : j # i => gather'.place[j] = gather.place[j]
    OBVIOUS
  <2>2. \A j \in DOMAIN gather.place, k \in 1..8 :
          (k > ReadPlace[gather'.place[j]]) <=> (k > ReadPlace[gather.place[j]] /\ <<j, k>> # r)
    <3> SUFFICES ASSUME NEW j \in DOMAIN gather.place, NEW k \in 1..8
                 PROVE  (k > ReadPlace[gather'.place[j]])
                          <=> (k > ReadPlace[gather.place[j]] /\ <<j, k>> # r)
      OBVIOUS
    <3>1. CASE j # i
      BY <2>1, <3>1
    <3>2. CASE j = i
      <4>1. ReadPlace[to] \in 0..8 /\ ReadPlace[gather.place[i]] \in 0..8
        BY <1>1, <1>2
      <4> QED
        BY <2>1, <3>2, <4>1
    <3> QED
      BY <3>1, <3>2
  <2> HIDE DEF r
  <2> QED
    BY <2>1, <2>2 DEF ReadsLeft
<1>5. IsFiniteSet(ReadsLeft) /\ Cardinality(ReadsLeft) \in Nat
  BY LeftFinite
<1>6. Cardinality(ReadsLeft') = Cardinality(ReadsLeft) - 1
  <2> HIDE DEF r
  <2> QED
    BY <1>3, <1>4, <1>5, FS_RemoveElement
<1> QED
  BY <1>5, <1>6

LEMMA ReadCounts ==
  ASSUME Budgeted, Safe, Typed, NEW i \in 1..MaxProposals, Read(i)
  PROVE  Fewer(Left', Left)
<1>0. DOMAIN gather = {"place", "seen", "inserted", "flushing"} /\ GatherTyped
  BY TypedParts DEF Safe, Dispatched, NoReads
<1>1. at = "reads" /\ at' \in {"reads", "stopped"} /\ UNCHANGED budget
  BY DEF Read, Acquire, ReadSeq, BeginFlush, EndFlush, ExecuteRead, Move, Die
<1>2. CASE at' = "stopped"
  BY <1>1, <1>2, FewerPlaces, PlacesInOrder
<1>3. CASE at' = "reads"
  <2> DEFINE ComesOn(from, to) ==
               /\ i \in DOMAIN gather.place /\ gather.place[i] = from
               /\ gather'.place = [gather.place EXCEPT ![i] = to]
  <2>1. ASSUME NEW from \in Place, NEW to \in Place,
               ReadSeq(i, from, to) \/ BeginFlush(i, from, to) \/ EndFlush(i, from, to)
        PROVE  ComesOn(from, to)
    <3>1. CASE ReadSeq(i, from, to)
      BY <1>0, <3>1 DEF ReadSeq
    <3>2. CASE BeginFlush(i, from, to)
      BY <1>0, <1>3, <3>2 DEF BeginFlush, Die
    <3>3. CASE EndFlush(i, from, to)
      BY <1>0, <3>3 DEF EndFlush
    <3> QED
      BY <2>1, <3>1, <3>2, <3>3
  <2>2. Acquire(i) => ComesOn("waiting", "select_started")
    BY <1>0 DEF Acquire, Move
  <2>3. ExecuteRead(i) => ComesOn("execute", "select_ended")
    BY <1>0, <1>3 DEF ExecuteRead, Move, Die
  <2> HIDE DEF ComesOn
  <2>4. \E from, to \in Place : ComesOn(from, to) /\ ReadPlace[to] = ReadPlace[from] + 1
    <3>1. /\ ReadPlace["select_started"] = ReadPlace["waiting"] + 1
          /\ ReadPlace["insert_started"] = ReadPlace["select_started"] + 1
          /\ ReadPlace["flush_started"] = ReadPlace["insert_started"] + 1
          /\ ReadPlace["execute"] = ReadPlace["flush_started"] + 1
          /\ ReadPlace["select_ended"] = ReadPlace["execute"] + 1
          /\ ReadPlace["insert_ended"] = ReadPlace["select_ended"] + 1
          /\ ReadPlace["flush_ended"] = ReadPlace["insert_ended"] + 1
          /\ ReadPlace["done"] = ReadPlace["flush_ended"] + 1
      BY DEF ReadPlace
    <3>2. {"waiting", "select_started", "insert_started", "flush_started", "execute",
           "select_ended", "insert_ended", "flush_ended", "done"} \subseteq Place
      BY DEF Place
    <3>3. \/ ComesOn("waiting", "select_started") \/ ComesOn("select_started", "insert_started")
          \/ ComesOn("insert_started", "flush_started") \/ ComesOn("flush_started", "execute")
          \/ ComesOn("execute", "select_ended") \/ ComesOn("select_ended", "insert_ended")
          \/ ComesOn("insert_ended", "flush_ended") \/ ComesOn("flush_ended", "done")
      BY <2>1, <2>2, <2>3, <3>2 DEF Read
    <3> QED
      BY <3>1, <3>2, <3>3
  <2>5. Cardinality(ReadsLeft') < Cardinality(ReadsLeft)
    BY <1>0, <2>4, ReadComesOn DEF ComesOn
  <2>6. StepsLeft' < StepsLeft
    BY <1>1, <1>3, <2>5, StepsAtPlace, StepsAtPlaceNext
  <2> QED
    BY <1>1, <1>3, <2>6, FewerSteps
<1> QED
  BY <1>1, <1>2, <1>3

LEMMA WriteCounts ==
  ASSUME Budgeted, Safe, Typed, StartWrite \/ EndWrite
  PROVE  Fewer(Left', Left)
<1>0. /\ IsFiniteSet(PendingWrites) /\ Cardinality(PendingWrites) \in Nat
      /\ IsFiniteSet(Executing) /\ Cardinality(Executing) \in Nat
  BY LeftFinite
<1>1. CASE at' = "stopped"
  BY <1>1, FewerPlaces, PlacesInOrder DEF StartWrite, EndWrite
<1>2. CASE at' # "stopped"
  <2>1. /\ at = "writes" /\ at' = at /\ UNCHANGED <<budget, proposals>>
        /\ records \in Seq(Outcome)
    BY <1>2, TypedParts DEF StartWrite, EndWrite, Die, turn
  <2>2. 2 * Cardinality(PendingWrites') + Cardinality(Executing')
          < 2 * Cardinality(PendingWrites) + Cardinality(Executing)
    <3>1. CASE StartWrite
      <4>1. PICK i \in PendingWrites : records' = [records EXCEPT ![i] = "executing"]
        BY <3>1 DEF StartWrite
      <4>2. /\ DOMAIN records' = DOMAIN records /\ records'[i] = "executing"
            /\ \A j \in DOMAIN records : j # i => records'[j] = records[j]
            /\ i \in DOMAIN records /\ records[i] = "pending"
        BY <2>1, <4>1 DEF PendingWrites, Writers
      <4>3. Writers' = Writers
        BY <2>1, <4>2 DEF Writers
      <4>4. PendingWrites' = PendingWrites \ {i} /\ Executing' = Executing \cup {i}
        BY <4>1, <4>2, <4>3 DEF PendingWrites, Executing
      <4>5. Cardinality(PendingWrites') = Cardinality(PendingWrites) - 1
        BY <1>0, <4>1, <4>4, FS_RemoveElement
      <4>6. Cardinality(Executing') = Cardinality(Executing) + 1
        <5>1. i \notin Executing
          BY <4>2 DEF Executing
        <5> QED
          BY <1>0, <4>4, <5>1, FS_AddElement
      <4> QED
        BY <1>0, <4>5, <4>6
    <3>2. CASE EndWrite
      <4>1. PICK i \in Executing, o \in {"succeeded", "failed"} : records' = [records EXCEPT ![i] = o]
        BY <1>2, <3>2 DEF EndWrite, Die
      <4>2. /\ DOMAIN records' = DOMAIN records /\ records'[i] \in {"succeeded", "failed"}
            /\ \A j \in DOMAIN records : j # i => records'[j] = records[j]
            /\ i \in DOMAIN records /\ records[i] = "executing"
        BY <2>1, <4>1 DEF Executing, Writers
      <4>3. Writers' = Writers
        BY <2>1, <4>2 DEF Writers
      <4>4. PendingWrites' = PendingWrites /\ Executing' = Executing \ {i}
        BY <4>1, <4>2, <4>3 DEF PendingWrites, Executing
      <4>5. Cardinality(Executing') = Cardinality(Executing) - 1
        BY <1>0, <4>1, <4>4, FS_RemoveElement
      <4> QED
        BY <1>0, <4>4, <4>5
    <3> QED
      BY <3>1, <3>2
  <2>3. StepsLeft' < StepsLeft
    BY <2>1, <2>2, StepsAtPlace, StepsAtPlaceNext
  <2> QED
    BY <2>1, <2>3, FewerSteps
<1> QED
  BY <1>1, <1>2

LEMMA JobCounts ==
  ASSUME Budgeted, Budgeted', Safe, Typed, Typed', Job
  PROVE  Fewer(Left', Left)
<1>0. budget \in [steps : 0..MaxSteps, calls : 0..MaxCalls, tokens : 0..(MaxTokens + MaxUsage)]
  BY DEF Budgeted
<1>1. CASE LoopBegin \/ BeginTurn
  <2>1. CASE UNCHANGED budget
    <3>1. at = "queued" /\ at' = "stopped"
      <4>1. budget.steps \in Nat /\ budget.steps + 1 # budget.steps
        BY <1>0, Limits
      <4>2. ([budget EXCEPT !.steps = @ + 1]).steps = budget.steps + 1
        BY <1>0
      <4> QED
        BY <1>1, <2>1, <4>1, <4>2 DEF LoopBegin, BeginTurn
    <3> QED
      BY <2>1, <3>1, FewerPlaces, PlacesInOrder
  <2>2. CASE ~UNCHANGED budget
    <3>1. budget' = [budget EXCEPT !.steps = @ + 1]
      BY <1>1, <2>2 DEF LoopBegin, BeginTurn
    <3>2. budget'.steps = budget.steps + 1
      BY <1>0, <3>1
    <3>3. budget'.steps <= MaxSteps
      BY Limits DEF Budgeted
    <3> QED
      BY <3>2, <3>3, FewerTurns
  <2> QED
    BY <2>1, <2>2
<1>2. CASE LoopError \/ LoopPropose \/ LoopWizard \/ LoopAnswer \/ LoopDies
  <2>1. at = "loop" /\ at' = "stopped"
    BY <1>2 DEF LoopError, LoopPropose, LoopWizard, LoopAnswer, LoopDies, Finalize, Die
  <2>2. budget'.steps = budget.steps
    BY <1>0, <1>2 DEF LoopError, LoopPropose, LoopWizard, LoopAnswer, LoopDies
  <2> QED
    BY <2>1, <2>2, FewerPlaces, PlacesInOrder
<1>3. CASE GuidedError \/ GuidedPropose \/ GuidedInputs \/ StartLoop
  <2>1. at = "queued" /\ at' \in {"begin", "stopped"} /\ UNCHANGED budget
    BY <1>3 DEF GuidedError, GuidedPropose, GuidedInputs, StartLoop, Finalize, Die
  <2> QED
    BY <2>1, FewerPlaces, PlacesInOrder
<1>4. CASE OutOfSteps \/ FinishText \/ EndTurn
  <2>1. /\ UNCHANGED budget
        /\ \/ at = "begin" /\ at' = "stopped"
           \/ at = "finish" /\ at' = "drained"
           \/ at = "drained" /\ at' \in {"stopped", "dispatch"}
    BY <1>4 DEF OutOfSteps, FinishText, EndTurn, Finalize
  <2> QED
    BY <2>1, FewerPlaces, PlacesInOrder
<1>5. CASE EndReads \/ NoClient \/ FeedResults
  <2>1. /\ UNCHANGED budget
        /\ \/ at \in {"reads", "writes"} /\ at' = "stopped"
           \/ at = "reads" /\ at' = "writes"
           \/ at = "writes" /\ at' = "begin"
    BY <1>5 DEF EndReads, NoClient, FeedResults, Finalize
  <2> QED
    BY <2>1, FewerPlaces, PlacesInOrder
<1>6. CASE Stream \/ Dispatch \/ StartWrite \/ EndWrite
  BY <1>6, StreamCounts, DispatchCounts, WriteCounts
<1>7. ASSUME NEW i \in 1..MaxProposals, Read(i) PROVE Fewer(Left', Left)
  BY <1>7, ReadCounts
<1> QED
  BY <1>1, <1>2, <1>3, <1>4, <1>5, <1>6, <1>7 DEF Job

\* A cancel changes the status alone.
LEMMA CancelLeaves == Cancel => Left' = Left
<1> SUFFICES ASSUME Cancel PROVE Left' = Left
  OBVIOUS
<1>1. UNCHANGED <<at, budget, provider, text, proposals, records, gather>>
  BY DEF Cancel, turn, tools
<1>2. Writers' = Writers /\ ReadsLeft' = ReadsLeft
  BY <1>1 DEF Writers, ReadsLeft
<1>3. PendingWrites' = PendingWrites /\ Executing' = Executing
  BY <1>1, <1>2 DEF PendingWrites, Executing
<1>4. StepsLeft' = StepsLeft
  BY <1>1, <1>2, <1>3 DEF StepsLeft
<1> QED
  BY <1>1, <1>4 DEF Left

\* Fewer goes down for ever from nowhere: there is no infinite sequence of it.
THEOREM FewerIsWellFounded ==
  IsWellFoundedOn({p \in [1..3 -> Nat] \X [1..3 -> Nat] : Fewer(p[1], p[2])}, [1..3 -> Nat])
<1>1. IsWellFoundedOn(Less, Nat)
  BY NatLessThanWellFounded DEF OpToRel, Less
<1>2. IsWellFoundedOn(LexProductOrdering(Less, Nat, 3), [1..3 -> Nat])
  BY <1>1, WFLexProductOrdering
<1>3. {p \in [1..3 -> Nat] \X [1..3 -> Nat] : Fewer(p[1], p[2])}
        \subseteq LexProductOrdering(Less, Nat, 3)
  <2> SUFFICES ASSUME NEW m \in [1..3 -> Nat], NEW n \in [1..3 -> Nat], Fewer(m, n)
               PROVE  \E j \in 1..3 : (\A i \in 1..(j - 1) : m[i] = n[i]) /\ <<m[j], n[j]>> \in Less
    BY DEF LexProductOrdering
  <2>1. 1..3 = {1, 2, 3} /\ 1..(1 - 1) = {} /\ 1..(2 - 1) = {1} /\ 1..(3 - 1) = {1, 2}
    OBVIOUS
  <2>2. \A j \in 1..3 : m[j] < n[j] => <<m[j], n[j]>> \in Less
    BY DEF Less
  <2> QED
    BY <2>1, <2>2 DEF Fewer
<1> QED
  BY <1>2, <1>3, IsWellFoundedOnSubrelation

\* A job takes finitely many steps, for any providers, tools and limits: each of them
\* leaves fewer turns, places or steps (runner.py:275-417), and a cancel as many.
THEOREM JobRunsDown == Spec => [](Left \in [1..3 -> Nat]) /\ EachStepCounts
<1> DEFINE Inv == Budgeted /\ Safe /\ Typed
<1>1. Init => Inv
  BY InitBudgeted, InitSafe, InitTyped
<1>2. Inv /\ [Next]_vars => Inv'
  BY NextBudgeted, NextSafe, NextTyped
<1>3. Inv => Left \in [1..3 -> Nat]
  BY LeftType
<1>4. Inv /\ Inv' /\ [Next]_vars => [(Job => Fewer(Left', Left)) /\ (Cancel => Left' = Left)]_vars
  BY JobCounts, CancelLeaves
<1> QED
  BY <1>1, <1>2, <1>3, <1>4, PTL DEF Spec, EachStepCounts
=============================================================================
