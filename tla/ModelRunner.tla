------------------------------ MODULE ModelRunner ------------------------------
(***************************************************************************)
(* One job of the worker: a run executed by ModelRunner (agent/runner.py),  *)
(* the model-driven loop over a failover router of providers, or, when no   *)
(* provider is configured, by the deterministic AgentLoop (agent/loop.py).  *)
(*                                                                          *)
(* A turn calls a provider, streams its text as redacted deltas, collects   *)
(* the tool calls it proposes and dispatches them: reads in parallel on the *)
(* run's one database session, writes in series, a call that needs approval *)
(* pauses the run.  Their results go into the next turn.  A budget ends the *)
(* run, and a user may cancel it at any time, which the job never looks at. *)
(*                                                                          *)
(* A text is a sequence of characters of four kinds.  What redact removes   *)
(* is the e-mail address, a local part, an "at", a label, a dot and more of *)
(* the domain: nothing bounds its parts.  The other patterns (card, phone,  *)
(* code) are bounded and shorter than the held-back tail.                   *)
(***************************************************************************)
EXTENDS Naturals, Sequences, FiniteSets, Functions

CONSTANTS
  Providers,     \* the configured providers, in priority order
  Tools,         \* names a model may propose
  Kind,          \* Kind[t]: "read", "write" (needs approval), "refused" (unknown tool,
                 \*   or arguments that do not parse), or "auto", a write without
                 \*   approval: the runner has its code, the registry no such tool
  MaxSteps, MaxCalls, MaxTokens,   \* settings.py:49-53
  MaxParallel,   \* max_parallel_tool_calls
  Holdback,      \* _REDACTION_TAIL_HOLDBACK
  Deltas,        \* what a provider's text_delta may carry
  LongestOpen,   \* of what may yet become part of an address, in those texts
  MaxText,       \* bound: characters of a turn's text
  MaxProposals,  \* bound: tool calls of a turn
  MaxUsage       \* bound: tokens of a turn

Char == {"word", "dot", "at", "space"}

ASSUME RunnerAssumption ==
  /\ Providers \in Seq(STRING)
  /\ Kind \in [Tools -> {"read", "auto", "write", "refused"}]
  /\ Deltas \subseteq Seq(Char) \ {<<>>}
  /\ {MaxSteps, MaxCalls, MaxTokens, MaxParallel, Holdback, LongestOpen,
      MaxText, MaxProposals, MaxUsage} \subseteq Nat
  /\ MaxSteps > 0 /\ MaxCalls > 0 /\ MaxParallel > 0

VARIABLES
  runner,     \* which of the two executes the run
  at,         \* where it is
  status,     \* agent_runs.status, as committed
  provider,   \* position in Providers of the one that streams, 0 for none
  unhealthy,  \* the router's quarantine: 300 s, longer than a run may last
  text,       \* assistant_text of the turn, raw
  emitted,    \* _IncrementalDeltaStreamer._emitted
  sent,       \* the deltas of the turn's message, joined, as committed
  proposals,  \* tool calls the turn's stream has proposed
  budget,     \* LoopBudget
  recent,     \* the last three proposals, across turns
  records,    \* records[i]: agent_tool_calls.status of proposal i, once dispatched
  gather,     \* the parallel reads: place, the seq each has read, seqs in use, who flushes
  results     \* proposals whose results the next turn is given, in order

turn == <<provider, text, emitted, sent, proposals>>
tools == <<records, gather, results>>
vars == <<runner, at, status, unhealthy, budget, recent, turn, tools>>

Status == {"queued", "completed", "error", "awaiting_decision", "cancelled"}

Place == {"waiting", "select_started", "insert_started", "flush_started", "execute",
          "select_ended", "insert_ended", "flush_ended", "done"}

\* redact, a character at a time: what is settled, what may still begin an address
\* and its "at" (head), the word, or label, that goes on (word), and whether an
\* address has just been replaced, which goes on over dots with a word behind them.
Shown == Char \cup {"pii"}
ScanState == [out : Seq(Shown), head : Seq(Char), word : Seq(Char), address : BOOLEAN]

Blank == [out |-> <<>>, head |-> <<>>, word |-> <<>>, address |-> FALSE]

Open(acc) == acc.head \o acc.word

Settle(acc, c) ==
  [out |-> Append(acc.out \o Open(acc), c), head |-> <<>>, word |-> <<>>, address |-> FALSE]

\* A word character behind "local@label." makes it an address.
Completes(acc) == acc.head # <<>> /\ acc.word # <<>> /\ acc.word[Len(acc.word)] = "dot"

ScanAt(acc) ==
  IF acc.word = <<>> THEN Settle(acc, "at")
  ELSE [out |-> acc.out \o acc.head, head |-> Append(acc.word, "at"), word |-> <<>>,
        address |-> FALSE]

ScanDot(acc) ==
  IF acc.word = <<>> /\ ~acc.address THEN Settle(acc, "dot")
  ELSE [acc EXCEPT !.word = Append(@, "dot")]

ScanWord(acc) ==
  CASE acc.address -> [acc EXCEPT !.word = <<>>]
    [] ~acc.address /\ Completes(acc) ->
         [out |-> Append(acc.out, "pii"), head |-> <<>>, word |-> <<>>, address |-> TRUE]
    [] ~acc.address /\ ~Completes(acc) -> [acc EXCEPT !.word = Append(@, "word")]

Scan[c \in Char] ==
  [acc \in ScanState |->
     CASE c = "space" -> Settle(acc, c)
       [] c = "at" -> ScanAt(acc)
       [] c = "dot" -> ScanDot(acc)
       [] c = "word" -> ScanWord(acc)]

Scanned(t) ==
  LET scan[n \in 0..Len(t)] == IF n = 0 THEN Blank ELSE Scan[t[n]][scan[n - 1]]
  IN  scan[Len(t)]

Redact(t) == Scanned(t).out \o Open(Scanned(t))

NoReads == [place |-> <<>>, seen |-> <<>>, inserted |-> 0, flushing |-> 0]
EmptyBudget == [steps |-> 0, calls |-> 0, tokens |-> 0]

-----------------------------------------------------------------------------
Init ==
  /\ runner \in {"model", "loop"}
  /\ at = "queued"
  /\ status = "queued"
  /\ provider = 0 /\ unhealthy = {}
  /\ text = <<>> /\ emitted = 0 /\ sent = <<>>
  /\ proposals = <<>>
  /\ budget = EmptyBudget /\ recent = <<>>
  /\ records = <<>> /\ gather = NoReads /\ results = <<>>

\* cancel_run, in a request of its own.  Between its first step and its last the
\* model runner does not look at the row, so when a cancel comes is all the same.
Cancel ==
  /\ at \in {"queued", "loop", "stopped"}
  /\ status \in {"queued", "awaiting_decision"}
  /\ status' = "cancelled"
  /\ UNCHANGED <<runner, at, unhealthy, budget, recent, turn, tools>>

\* The job's last commit writes the status it has come to over the row's.
Finalize(s) ==
  /\ at' = "stopped"
  /\ status' = s

\* An exception that the runner does not catch: the session is rolled back, the
\* job fails and is not retried, and the row keeps its status.
Die ==
  /\ at' = "stopped"
  /\ UNCHANGED status

\* AgentLoop.run: its only look at the status, and its one step.
LoopBegin ==
  /\ runner = "loop" /\ at = "queued"
  /\ IF status = "cancelled" THEN at' = "stopped" /\ UNCHANGED budget
     ELSE at' = "loop" /\ budget' = [budget EXCEPT !.steps = @ + 1]
  /\ UNCHANGED <<runner, status, unhealthy, recent, turn, tools>>

\* The rest of it is one transaction.  A submission that does not parse, in a
\* guided conversation, or a tool that the user may not have:
LoopError ==
  /\ at = "loop"
  /\ Finalize("error")
  /\ UNCHANGED <<runner, unhealthy, budget, recent, turn, tools>>

\* _propose_tool_call, for a submission or a directive in the message: the run
\* awaits a decision, also on a call that needs none, which nobody executes.
LoopPropose ==
  /\ at = "loop"
  /\ Finalize("awaiting_decision")
  /\ budget' = [budget EXCEPT !.calls = @ + 1]
  /\ UNCHANGED <<runner, unhealthy, recent, turn, tools>>

\* The questionnaire's first prompt (module Questionnaire), whose failure is
\* swallowed.
LoopWizard ==
  /\ at = "loop"
  /\ Finalize("completed")
  /\ UNCHANGED <<runner, unhealthy, budget, recent, turn, tools>>

\* An answer, and what the user asked to be remembered.
LoopAnswer ==
  /\ at = "loop"
  /\ Finalize("completed")
  /\ UNCHANGED <<runner, unhealthy, budget, recent, turn, tools>>

LoopDies ==
  /\ at = "loop"
  /\ Die
  /\ UNCHANGED <<runner, unhealthy, budget, recent, turn, tools>>

\* A guided conversation needs no turn: a submission that does not parse,
GuidedError ==
  /\ runner = "model" /\ at = "queued"
  /\ Finalize("error")
  /\ UNCHANGED <<runner, unhealthy, budget, recent, turn, tools>>

\* one that becomes a proposal of create_quotation, outside the budget, unless
\* its arguments are invalid, which nobody catches,
GuidedPropose ==
  /\ runner = "model" /\ at = "queued"
  /\ Finalize("awaiting_decision") \/ Die
  /\ UNCHANGED <<runner, unhealthy, budget, recent, turn, tools>>

\* or the questionnaire's first prompt.
GuidedInputs ==
  /\ runner = "model" /\ at = "queued"
  /\ Finalize("completed")
  /\ UNCHANGED <<runner, unhealthy, budget, recent, turn, tools>>

StartLoop ==
  /\ runner = "model" /\ at = "queued"
  /\ at' = "begin"
  /\ UNCHANGED <<runner, status, unhealthy, budget, recent, turn, tools>>

-----------------------------------------------------------------------------
\* Mutant: the quarantine is not kept, and the providers are asked in turn.
NextHealthyInTurn(out, skip) == (skip % Len(Providers)) + 1

\* _healthy_providers, from the one that has just failed on.
NextHealthy(out, skip) ==
  LET open == {p \in DOMAIN Providers : Providers[p] \notin out /\ p > skip}
  IN  IF open = {} THEN 0 ELSE CHOOSE p \in open : \A q \in open : p <= q

\* A turn: the step, the empty assistant message, the first healthy provider.
BeginTurn ==
  /\ at = "begin"
  /\ budget.steps < MaxSteps
  /\ budget' = [budget EXCEPT !.steps = @ + 1]
  /\ provider' = NextHealthy(unhealthy, 0)
  /\ proposals' = <<>>
  /\ records' = <<>> /\ gather' = NoReads /\ results' = <<>>
  /\ IF provider' = 0 THEN Finalize("error") ELSE at' = "stream" /\ UNCHANGED status
  /\ UNCHANGED <<runner, recent, unhealthy, text, emitted, sent>>

\* begin_step raises: the steps are used up, or the time is.
OutOfSteps ==
  /\ at = "begin"
  /\ Finalize("error")
  /\ UNCHANGED <<runner, unhealthy, budget, recent, turn, tools>>

\* Mutant: nothing is held back.
SafeLenEager(redacted) == Len(redacted)

\* How much of the redacted text so far may be shown.
SafeLen(redacted) ==
  IF Len(redacted) > emitted + Holdback THEN Len(redacted) - Holdback ELSE emitted

\* A text_delta, and on_text with the whole text so far.
StreamText ==
  /\ at = "stream"
  /\ \E d \in Deltas : text' = text \o d
  /\ Len(text') <= MaxText
  /\ Len(Open(Scanned(text'))) <= LongestOpen
  /\ LET redacted == Redact(text')
         safe == SafeLen(redacted)
     IN  /\ emitted' = safe
         /\ sent' = sent \o SubSeq(redacted, emitted + 1, safe)
  /\ UNCHANGED <<runner, at, status, unhealthy, budget, recent, provider, proposals, tools>>

StreamToolUse ==
  /\ at = "stream"
  /\ Len(proposals) < MaxProposals
  /\ \E t \in Tools : proposals' = Append(proposals, t)
  /\ UNCHANGED <<runner, at, status, unhealthy, budget, recent, provider, text,
                 emitted, sent, tools>>

\* The provider fails or times out: it is quarantined and the next one is
\* asked.  What the failed one has streamed stays in the turn.
FailOver ==
  /\ at = "stream"
  /\ unhealthy' = unhealthy \cup {Providers[provider]}
  /\ provider' = NextHealthy(unhealthy', provider)
  /\ IF provider' = 0 THEN Finalize("error") ELSE UNCHANGED <<at, status>>
  /\ UNCHANGED <<runner, budget, recent, text, emitted, sent, proposals, tools>>

\* The SDK raises while a Vertex stream is read: not a ProviderError.
StreamRaises ==
  /\ at = "stream"
  /\ Die
  /\ UNCHANGED <<runner, unhealthy, budget, recent, turn, tools>>

\* Mutant: the ceiling is looked at before what the turn cost is added.
OverspentBefore == budget.tokens > MaxTokens

Overspent == budget'.tokens > MaxTokens

\* The stream ends, after the usage it reports; record_usage counts that, and
\* then may end the run.
Drain ==
  /\ at = "stream"
  /\ \E n \in 0..MaxUsage : budget' = [budget EXCEPT !.tokens = @ + n]
  /\ IF Overspent THEN Finalize("error")
     ELSE at' = "finish" /\ UNCHANGED status
  /\ provider' = 0
  /\ UNCHANGED <<runner, unhealthy, recent, text, emitted, sent, proposals, tools>>

\* finish sends the tail; the message keeps the redacted text, or is dropped.
FinishText ==
  /\ at = "finish"
  /\ LET final == Redact(text)
     IN  IF Len(final) > emitted
           THEN /\ sent' = sent \o SubSeq(final, emitted + 1, Len(final))
                /\ emitted' = Len(final)
           ELSE UNCHANGED <<sent, emitted>>
  /\ at' = "drained"
  /\ UNCHANGED <<runner, status, unhealthy, budget, recent, provider, text, proposals, tools>>

LastThree(s) == SubSeq(s, IF Len(s) > 3 THEN Len(s) - 2 ELSE 1, Len(s))

\* Whether some three calls in a row, the latest of them of this turn, are one.
Looping ==
  LET all == recent \o proposals
  IN  \E i \in (Len(recent) + 1)..Len(all) :
        i >= 3 /\ all[i] = all[i - 1] /\ all[i] = all[i - 2]

\* The turn has proposed nothing, repeats itself, or is dispatched.
EndTurn ==
  /\ at = "drained"
  /\ recent' = LastThree(recent \o proposals)
  /\ \/ proposals = <<>> /\ Finalize("completed")
     \/ Looping /\ Finalize("error")
     \/ proposals # <<>> /\ ~Looping /\ at' = "dispatch" /\ UNCHANGED status
  /\ text' = <<>> /\ emitted' = 0 /\ sent' = <<>>
  /\ UNCHANGED <<runner, unhealthy, budget, provider, proposals, tools>>

-----------------------------------------------------------------------------
Next1 == Len(records) + 1
Proposed == proposals[Next1]

\* Unknown tool or invalid arguments: an error result for the model.
Refuse ==
  /\ at = "dispatch" /\ Next1 <= Len(proposals)
  /\ Kind[Proposed] = "refused"
  /\ records' = Append(records, "refused")
  /\ results' = Append(results, Next1)
  /\ UNCHANGED <<runner, at, status, unhealthy, budget, recent, turn, gather>>

\* record_tool_call raises.
OutOfCalls ==
  /\ at = "dispatch" /\ Next1 <= Len(proposals)
  /\ Kind[Proposed] # "refused"
  /\ budget.calls >= MaxCalls
  /\ Finalize("error")
  /\ UNCHANGED <<runner, unhealthy, budget, recent, turn, tools>>

NeedsApproval(t) == Kind[t] = "write"

\* A call that needs approval pauses the run at once: the calls before it stay
\* pending and the ones behind it are dropped.
Pause ==
  /\ at = "dispatch" /\ Next1 <= Len(proposals)
  /\ Kind[Proposed] # "refused" /\ NeedsApproval(Proposed)
  /\ budget.calls < MaxCalls
  /\ budget' = [budget EXCEPT !.calls = @ + 1]
  /\ records' = Append(records, "proposed")
  /\ Finalize("awaiting_decision")
  /\ UNCHANGED <<runner, unhealthy, recent, turn, gather, results>>

Accept ==
  /\ at = "dispatch" /\ Next1 <= Len(proposals)
  /\ Kind[Proposed] # "refused" /\ ~NeedsApproval(Proposed)
  /\ budget.calls < MaxCalls
  /\ budget' = [budget EXCEPT !.calls = @ + 1]
  /\ records' = Append(records, "pending")
  /\ UNCHANGED <<runner, at, status, unhealthy, recent, turn, gather, results>>

Readers == {i \in DOMAIN records : records[i] # "refused" /\ Kind[proposals[i]] = "read"}
Writers == {i \in DOMAIN records : records[i] # "refused" /\ Kind[proposals[i]] # "read"}

StartReads ==
  /\ at = "dispatch" /\ Next1 > Len(proposals)
  /\ at' = "reads"
  /\ gather' = [place |-> [i \in Readers |-> "waiting"], seen |-> [i \in Readers |-> 0],
                inserted |-> 0, flushing |-> 0]
  /\ UNCHANGED <<runner, status, unhealthy, budget, recent, turn, records, results>>

Active == {i \in DOMAIN gather.place : gather.place[i] \notin {"waiting", "done"}}

Move(i, from, to) ==
  /\ at = "reads"
  /\ i \in DOMAIN gather.place
  /\ gather.place[i] = from
  /\ gather' = [gather EXCEPT !.place[i] = to]

\* A read takes a place of the semaphore.
Acquire(i) ==
  /\ Cardinality(Active) < MaxParallel
  /\ Move(i, "waiting", "select_started")
  /\ UNCHANGED <<runner, at, status, unhealthy, budget, recent, turn, records, results>>

\* append_run_event, for tool.started and for the outcome: the next seq is read,
\* then the event is flushed.
ReadSeq(i, from, to) ==
  /\ at = "reads"
  /\ i \in DOMAIN gather.place
  /\ gather.place[i] = from
  /\ gather' = [gather EXCEPT !.place[i] = to, !.seen[i] = gather.inserted]
  /\ UNCHANGED <<runner, at, status, unhealthy, budget, recent, turn, records, results>>

\* The session refuses a flush inside another's, and the index a seq in use:
\* the gather raises, and nobody catches it.
BeginFlush(i, from, to) ==
  /\ at = "reads"
  /\ i \in DOMAIN gather.place
  /\ gather.place[i] = from
  /\ IF gather.flushing # 0 \/ gather.seen[i] # gather.inserted
       THEN Die /\ UNCHANGED gather
       ELSE /\ gather' = [gather EXCEPT !.place[i] = to, !.flushing = i]
            /\ UNCHANGED <<at, status>>
  /\ UNCHANGED <<runner, unhealthy, budget, recent, turn, records, results>>

EndFlush(i, from, to) ==
  /\ at = "reads"
  /\ i \in DOMAIN gather.place
  /\ gather.place[i] = from
  /\ gather' = [gather EXCEPT !.place[i] = to, !.flushing = 0, !.inserted = @ + 1]
  /\ UNCHANGED <<runner, at, status, unhealthy, budget, recent, turn, records, results>>

\* tool.execute answers or fails; an error of another kind is caught nowhere.
ExecuteRead(i) ==
  \/ /\ Move(i, "execute", "select_ended")
     /\ \E outcome \in {"succeeded", "failed"} : records' = [records EXCEPT ![i] = outcome]
     /\ UNCHANGED <<runner, at, status, unhealthy, budget, recent, turn, results>>
  \/ /\ at = "reads" /\ i \in DOMAIN gather.place /\ gather.place[i] = "execute"
     /\ Die
     /\ UNCHANGED <<runner, unhealthy, budget, recent, turn, tools>>

Read(i) ==
  \/ Acquire(i)
  \/ ReadSeq(i, "select_started", "insert_started")
  \/ BeginFlush(i, "insert_started", "flush_started")
  \/ EndFlush(i, "flush_started", "execute")
  \/ ExecuteRead(i)
  \/ ReadSeq(i, "select_ended", "insert_ended")
  \/ BeginFlush(i, "insert_ended", "flush_ended")
  \/ EndFlush(i, "flush_ended", "done")

\* The readers, in the order of their proposals: what gather returns.
InOrder(S) ==
  {s \in [1..Cardinality(S) -> S] : \A i, j \in DOMAIN s : i < j => s[i] < s[j]}

\* Mutant: only the reads' results are kept, the refusals are forgotten.
ReadResultsOnly(order) == order

ReadResults(order) == results \o order

\* Mutant: the reads are started, but nobody waits for them.
ReadsDoneAtOnce == TRUE

ReadsDone == \A i \in DOMAIN gather.place : gather.place[i] = "done"

EndReads ==
  /\ at = "reads"
  /\ ReadsDone
  /\ \E order \in InOrder(Readers) : results' = ReadResults(order)
  /\ at' = "writes"
  /\ UNCHANGED <<runner, status, unhealthy, budget, recent, turn, records, gather>>

\* The first write that has not been executed.
PendingWrites == {i \in Writers : records[i] = "pending"}
Executing == {i \in Writers : records[i] = "executing"}

StartWrite ==
  /\ at = "writes" /\ Executing = {}
  /\ \E i \in PendingWrites :
       /\ \A j \in PendingWrites : i <= j
       /\ records' = [records EXCEPT ![i] = "executing"]
  /\ UNCHANGED <<runner, at, status, unhealthy, budget, recent, turn, gather, results>>

EndWrite ==
  /\ at = "writes"
  /\ \E i \in Executing :
       \/ /\ \E outcome \in {"succeeded", "failed"} :
                records' = [records EXCEPT ![i] = outcome]
          /\ results' = Append(results, i)
          /\ UNCHANGED <<at, status>>
       \/ Die /\ UNCHANGED <<records, results>>
  /\ UNCHANGED <<runner, unhealthy, budget, recent, turn, gather>>

\* Without a PriceFRAME client the first call that the job is to execute raises a
\* ProviderError, before anything is written.
NoClient ==
  /\ \/ at = "reads" /\ Readers # {} /\ \A i \in Readers : gather.place[i] = "waiting"
     \/ at = "writes" /\ Readers = {} /\ Writers # {} /\ PendingWrites = Writers
  /\ budget.calls = Cardinality(Readers \cup Writers)
  /\ Finalize("error")
  /\ UNCHANGED <<runner, unhealthy, budget, recent, turn, tools>>

\* The results are appended to the messages, and the next turn begins.
FeedResults ==
  /\ at = "writes"
  /\ PendingWrites = {} /\ Executing = {}
  /\ at' = "begin"
  /\ UNCHANGED <<runner, status, unhealthy, budget, recent, turn, tools>>

-----------------------------------------------------------------------------
Stream == StreamToolUse \/ FailOver \/ StreamRaises \/ Drain \/ StreamText

Dispatch == Refuse \/ OutOfCalls \/ Pause \/ Accept \/ StartReads

Job ==
  \/ LoopBegin \/ LoopError \/ LoopPropose \/ LoopWizard \/ LoopAnswer \/ LoopDies
  \/ GuidedError \/ GuidedPropose \/ GuidedInputs \/ StartLoop
  \/ BeginTurn \/ OutOfSteps \/ Stream \/ FinishText \/ EndTurn
  \/ Dispatch \/ (\E i \in 1..MaxProposals : Read(i)) \/ EndReads
  \/ StartWrite \/ EndWrite \/ NoClient \/ FeedResults

Next == Job \/ Cancel

\* A provider that hangs is timed out, a tool's request as well, and what a
\* stream yields is bounded: the job's coroutine goes on.
Fairness == WF_vars(Job) /\ WF_vars(at = "stream" /\ (Drain \/ FailOver))

Spec == Init /\ [][Next]_vars /\ Fairness

-----------------------------------------------------------------------------
\* Types, and the limits of the budget: steps and calls are checked before they
\* are counted (budget.py:50, 63), tokens after they are spent, so one turn's
\* usage may exceed theirs, and then the run is over.
TypeOK ==
  /\ runner \in {"model", "loop"}
  /\ at \in {"queued", "loop", "begin", "stream", "finish", "drained", "dispatch",
             "reads", "writes", "stopped"}
  /\ status \in Status
  /\ provider \in 0..Len(Providers)
  /\ unhealthy \subseteq Range(Providers)
  /\ text \in Seq(Char) /\ emitted \in 0..MaxText
  /\ sent \in Seq(Shown)
  /\ proposals \in Seq(Tools)
  /\ recent \in Seq(Tools) /\ Len(recent) <= 3
  /\ records \in Seq({"refused", "pending", "proposed", "executing", "succeeded", "failed"})
  /\ \A i \in DOMAIN gather.place : gather.place[i] \in Place
  /\ results \in Seq(Nat)

\* Spending stays within the budget (budget.py:48-88): a turn begins and a call
\* is accepted only while nothing is used up, so a run overspends its tokens by
\* one turn at most, and never goes on after that.
WithinBudget ==
  /\ budget.steps <= MaxSteps /\ budget.calls <= MaxCalls
  /\ at # "stopped" => budget.tokens <= MaxTokens
  /\ budget.tokens <= MaxTokens + MaxUsage

\* The deltas of a message, joined, are its redacted text, once
\* (_IncrementalDeltaStreamer, "Invariant"): what was shown early is never
\* changed by a redaction that completes later.
DeltasAreTheMessage == at = "drained" => sent = Redact(text)

\* When the model is asked again, each call it proposed has settled and has one
\* result among the messages, the refused ones too (_dispatch_proposals,
\* _build_error_result): no call is proposed again for want of an answer.
EveryCallAnswered ==
  (at = "begin" /\ budget.steps > 0) =>
    /\ Len(results) = Len(proposals)
    /\ Range(results) = DOMAIN proposals
    /\ \A i \in DOMAIN records : records[i] \in {"refused", "succeeded", "failed"}

\* A write is executed alone (runner.py:10-12): no read and no other write is
\* under way, and none that needs approval is executed by the job.  Reads stay
\* within the semaphore.
WritesAlone ==
  /\ Cardinality(Active) <= MaxParallel
  /\ \A i \in Writers : records[i] \in {"executing", "succeeded", "failed"} =>
       /\ Kind[proposals[i]] = "auto"
       /\ Active = {}
       /\ \A j \in Writers \ {i} : records[j] = "executing" => records[i] # "executing"

\* Whatever providers and tools do, the job ends: turns are bounded by the
\* budget, and a turn by the stream's time limit.
JobEnds == <>(at = "stopped")

\* What a job has left to do: the turns, the places of a turn, and the steps at its
\* place.  Of a stream that is what may still be yielded and who may still be asked;
\* of the reads, the places each has still to come to; of the writes, two steps each.
PlaceLeft ==
  [queued |-> 9, stream |-> 8, finish |-> 7, drained |-> 6, dispatch |-> 5, reads |-> 4,
   writes |-> 3, begin |-> 2, loop |-> 1, stopped |-> 0]

ReadPlace ==
  [waiting |-> 0, select_started |-> 1, insert_started |-> 2, flush_started |-> 3,
   execute |-> 4, select_ended |-> 5, insert_ended |-> 6, flush_ended |-> 7, done |-> 8]

ReadsLeft == {r \in (DOMAIN gather.place) \X (1..8) : r[2] > ReadPlace[gather.place[r[1]]]}

StepsLeft ==
  CASE at = "stream" -> (Len(Providers) - provider) + (MaxText - Len(text))
                          + (MaxProposals - Len(proposals))
    [] at = "dispatch" -> Len(proposals) - Len(records)
    [] at = "reads" -> Cardinality(ReadsLeft)
    [] at = "writes" -> 2 * Cardinality(PendingWrites) + Cardinality(Executing)
    [] OTHER -> 0

Left == <<MaxSteps - budget.steps, PlaceLeft[at], StepsLeft>>

Fewer(m, n) ==
  \/ m[1] < n[1]
  \/ m[1] = n[1] /\ m[2] < n[2]
  \/ m[1] = n[1] /\ m[2] = n[2] /\ m[3] < n[3]

\* Each step of a job leaves less to do (runner.py:275-417), whatever its providers
\* and tools do, and a cancel changes nothing about that.
EachStepCounts == [][(Job => Fewer(Left', Left)) /\ (Cancel => Left' = Left)]_vars

\* The inductive invariants.  Of the budget: nothing is spent in the queue, and
\* AgentLoop has at most its one step behind it.
Budgeted ==
  /\ budget \in [steps : 0..MaxSteps, calls : 0..MaxCalls, tokens : 0..(MaxTokens + MaxUsage)]
  /\ at = "queued" => budget = EmptyBudget
  /\ at = "loop" => budget.calls = 0
  /\ at # "stopped" => budget.tokens <= MaxTokens

\* Of the dispatch: a turn's records begin empty, reads are under way at "reads"
\* only (or were when the job died there), and until then no write is started.
Dispatched ==
  /\ proposals \in Seq(Tools)
  /\ records \in Seq({"refused", "pending", "proposed", "executing", "succeeded", "failed"})
  /\ Len(records) <= Len(proposals)
  /\ at \in {"stream", "finish", "drained"} => records = <<>>
  /\ DOMAIN gather = DOMAIN NoReads
  /\ DOMAIN gather.place \subseteq DOMAIN records
  /\ at = "reads" => DOMAIN gather.place = Readers
  /\ at \notin {"reads", "stopped"} => Active = {}
  /\ at \in {"dispatch", "reads"} => \A i \in Writers : records[i] = "pending"
  /\ \A i \in Writers : records[i] # "proposed" => Kind[proposals[i]] = "auto"

\* Of the types: a turn does not outgrow its bounds, and a stream has a provider.
Typed ==
  /\ TypeOK
  /\ Len(text) <= MaxText /\ Len(proposals) <= MaxProposals
  /\ at = "stream" => provider # 0

\* Of the turn's text: what is withheld is at least what may yet become part of an
\* address, so what is sent lies within the part that no redaction changes any more.
Streamed ==
  /\ text \in Seq(Char) /\ Len(text) <= MaxText
  /\ Len(Open(Scanned(text))) <= LongestOpen
  /\ at \notin {"drained", "stopped"} =>
       /\ emitted \in 0..Len(Scanned(text).out)
       /\ sent = SubSeq(Redact(text), 1, emitted)
  /\ at = "drained" => sent = Redact(text)

Settled == {"succeeded", "failed"}

\* The proposals whose results the messages hold by now.
Due ==
  {i \in DOMAIN records : records[i] = "refused"}
    \cup (IF at = "writes" THEN Readers \cup {i \in Writers : records[i] \in Settled} ELSE {})

\* Of the answers: each proposal due has one result, and a read is settled once
\* its tool has answered.
Answered ==
  /\ at \in {"stream", "finish", "drained"} => results = <<>>
  /\ at \in {"dispatch", "reads", "writes"} =>
       /\ IsInjective(results) /\ Range(results) = Due
       /\ \A i \in DOMAIN records : records[i] # "proposed"
  /\ at \in {"reads", "writes"} => Len(records) = Len(proposals)
  /\ at = "reads" => \A i \in Readers :
       gather.place[i] \in {"select_ended", "insert_ended", "flush_ended", "done"} =>
         records[i] \in Settled
  /\ at = "writes" => \A i \in Readers : records[i] \in Settled
  /\ EveryCallAnswered

=============================================================================
