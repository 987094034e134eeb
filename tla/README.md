# Formal models of the xFRAME agent service

TLA+ modules for the agent service under `src/src/xframe_agent/`: a FastAPI
application over PostgreSQL (SQLAlchemy async sessions), an arq worker fed
through Redis, the PriceFRAME REST backend and language-model providers. The
modules are checked by TLC on small instances; the theorems of the `_proofs`
modules are proved by TLAPS for all values of the constants.

Paths below are relative to `src/src/xframe_agent/` unless they start with `docs`
or `tests`. `PROJECT.json` maps every definition to its lines.

## 1. The system

A client opens a *conversation* and starts *runs* in it. A run is executed by a
runner, in the request or by the worker; it publishes *events* in a journal,
which the client follows over server-sent events; it pauses (`awaiting_decision`)
with *tool calls* that the user approves, edits or rejects; approved calls are
executed at PriceFRAME. Wizard steps propose bundles of calls; a conversational
questionnaire fills a draft field by field.

Everything that is shared is in the database. Requests and jobs are coroutines
that run concurrently, in several processes, each with its own session. No code
takes a row lock, transactions are READ COMMITTED, and sessions keep what they
have loaded after a commit (`expire_on_commit=False`, `db/session.py`). Hence
the two habits that the models follow everywhere: *a handler decides on what it
loaded earlier*, and *only the columns whose value differs from the loaded one
are written*.

| Component | State | Operations | What makes it correct |
|---|---|---|---|
| Run event journal (`agent/events.py`) | `agent_run_events`: rows with a seq unique per run | `append_run_event`, `list_run_events` | no gap, no event behind a cursor, every event delivered |
| Event stream (`stream_run`) | per connection: cursor, terminal flag | list, read status, yield, end, heartbeat, resume | in order and once; ends when the run rests, and does end |
| Tool-call decisions and cancel | status and args of a call, status of the run, audit log | approve, edit, reject, execute, audit, cancel | nothing executed unapproved; succeeded means audited; no call abandoned silently |
| Idempotency-Key endpoints (`agent/idempotency.py`, `conversations.py`, `worker.py`) | `agent_idempotency_keys`, the queue | create a conversation, start a run, send a message; enqueue, execute, redeliver | one resource per key, answers that agree, answered runs executed |
| Wizard step advance (`agent/workflow_advance.py`) | bundles tagged by step, the quote they refer to | propose, block, approve a bundle, reject it | a step advances only over executed calls; one quote per wizard |
| Questionnaire (`agent/conversation/`) | draft payload with a cursor | start, answer, re-ask, recap, commit | the cursor is never ahead of the answers, answers to what was asked skip no question, the recap comes after as many answers as questions |
| Drafts and proposals | `agent_workflow_drafts` | save, read, delete, expire, purge, accept a proposal | no answer before the cursor is lost |
| Model runner and agent loop | run, steps, calls, budget, the text streamed so far | turns, tool reads in parallel, writes, pause, deltas, finish | budgets hold; each call is answered; deltas concatenate to the message; jobs end |
| Suggestions and research | bands of each field, shared budget, events | fan-out over fields, research, blend, reconcile, propose | an event per field unless the fan-out raises, and then none; no usable band lost; overspending by the fan-out alone |
| Providers | the quarantine of a run | stream, fail over, quarantine | a turn ends, whatever they do |
| PriceFRAME client, tools | none | request with retries, audit callback | one effect per key |
| Auth and profile cache | contexts by token and by session | introspect, expire | a context that fits its token |
| Rate limiting | window of hits | allow | never more than the limit |
| Attachments | status, object | upload, scan inline or queued | every upload scanned before it is ready |
| Memory, voice, health, tools listing, observability, settings | – | single reads and writes | nothing over several steps |

Interactions: every component that works on a run appends to its journal inside
its own transaction; the stream reads the journal and the run's status from a
session of its own; `start_run` hands a run to the worker through Redis only
after its commit; decisions, step advances and cancels write the status of a run
that the worker may still be executing.

What is hard here: max(seq) + 1 without a lock; a cursor over rows that commit
late; two reads at two times that together decide the end of a response; check
then act on a status; the process dying between two commits, or between a commit
and an enqueue; an external effect followed by an audit that fails; a worker's
job delivered again; statuses written on stale knowledge; a cursor moved by
requests that have all loaded the same draft; a budget that a fan-out checks
before anyone has spent from it; and text that is shown before its redaction is
complete. `PROJECT.json` lists 40 such hazards at their lines, with the
properties that cover them or the reason why none does.

## 2. The modules

| Module | Models | Companion modules |
|---|---|---|
| `EventLog` | what a journal promises: a log that grows at its end, and readers that hold prefixes of it. It is a specification, not code | |
| `RunJournal` | `append_run_event` and `list_run_events` under concurrent transactions | `MCRunJournal`, `RunJournal_proofs` |
| `RunStream` | `stream_run` and its client, and everything that changes the run's journal and status meanwhile | `MCRunStream`, `RunStream_proofs` |
| `ToolDecisions` | `decide_run_tool_call`, `_execute_approved_tool_call`, `cancel_run` | `MCToolDecisions`, `ToolDecisions_proofs` |
| `StepAdvance` | `request_step_advance`, `evaluate_step_advance`, `latest_created_quote_id`, `decide_step_advance` | `MCStepAdvance`, `StepAdvance_proofs` |
| `KeyedRequests` | `create_conversation`, `start_run`, `send_message`, the key's table, dispatch and redelivery | `MCKeyedRequests`, `KeyedRequests_proofs` |
| `ModelRunner` | `ModelRunner.run` and `AgentLoop.run`: turns, streaming, budget, dispatch, failover | `MCModelRunner`, `ModelRunner_proofs` |
| `Questionnaire` | the conversational endpoints, sequencer and cursor, drafts and their purge | `MCQuestionnaire`, `Questionnaire_proofs` |
| `Suggestions` | what entering a wizard step emits: the fan-out, the blend, the proposal, the shared budget | `MCSuggestions`, `Suggestions_proofs` |

How they fit: `RunJournal` implements `EventLog` at the grain of SQL statements
(proved). `RunStream` therefore takes commits to the journal as atomic and the
journal as a sequence whose index is the seq; what its clients hold implements
`EventLog` again, now over broken connections. `ToolDecisions` keeps the journal
as a sequence for the same reason, and `RunStream` has the decisions only by
what they do to status and journal. `ModelRunner` is what `RunStream` and
`KeyedRequests` call the job, seen from inside: they have its commits, it has the
steps between them. Its `LoopWizard` and `GuidedInputs` are the first prompt of
`Questionnaire`. A `Pass` of `StepAdvance` (or an approved bundle) enters the next
step, which is where `Suggestions` begins.

### RunJournal

A writer is a transaction. `SelectMax` is the SELECT of `max(seq) + 1`, which
sees committed rows and the transaction's own; `Insert` is the flush of the new
row, enabled when no other open transaction holds the seq and none has committed
it; `InsertConflict` is the IntegrityError of the unique constraint;
`Commit` and `Rollback` end the transaction. A transaction may append several
rows before it ends, as approvals do. `Poll` is one call of
`list_run_events` with `after_seq` and `limit`. PostgreSQL's part (statement
snapshots, the wait on an uncommitted index entry) is marked external.

### RunStream

`StartJob`, `EmitDelta`, `FinishJob`, `CrashJob` are the runner's commits, with
the run loaded at the start and redelivery after a crash. `OpenRequest` loads the
run for a cancel, a decision, a step advance or a decision on a bundle; the
request's commits (`ApproveToolCall` before an execution, then `CommitRequest`)
write events and a status decided on what was loaded. The generator is
`Connect`, `ListEvents`, `ReadStatus` (a later statement), `Yield` per event,
`EndResponse` or `Heartbeat`. The client `Receive`s from a FIFO connection,
which may `Drop` with what is on it. Of the event types only the three that end
a response are told apart.

### ToolDecisions

A handler goes through `LoadRun`, `LoadCall`, a decision (`Cancel`, `Reject`,
`Edit`, `ApproveAnswered`, `Approve`), and for an approval `Execute`, `Audit`,
`Finish`. `Approve` and `Finish` are the two commits. `Fail` may happen at
every place (an error or a dead process), `FailAfterReceipt` when PriceFRAME has
got the request or the audit and its answer is lost. `Column` is the rule that an
unchanged column is not written. `approve` with and without `edited_args` are
told apart, and calls that write from calls that read. Retries inside
`PriceFrameClient._request` carry one key and the same args and count as one
execution.

### StepAdvance

A contract's steps are of four kinds: their call creates the quote
(`CreateSteps`), needs `draft.created_quote_id` (`QuoteSteps`, the `ReadSteps`
among them with a tool of risk READ), or there is none (`PlainSteps`: no
`on_complete`, or `batch_at_submit`). Next is `Begin`, `Evaluate` (the quote is
read) and one of `Pass`, `Block` and `Propose`, each a commit. A decision is
`Begin`, `List`, and `Reject`, or for every call of the bundle `StartCall`,
`Execute`, `Audit` (writes only) and `Result`, and at the end `Finish`. What
matters is what is committed when: `StartCall` commits the result of the *previous*
call with the new call's `executing`, `Finish` the last result with the step's
event (`WithResult`). `Fail` and `FailAfterReceipt` lose what is not committed, at
any place. Whether a draft has the fields a call needs is a choice (`Block`); a
quote is named by the call that created it. `started` records which commit started
a call, and how many starts there had been when its handler listed the bundle.

### KeyedRequests

An attempt is one HTTP request. `Replay`/`NoReplay` are `get_replay`;
`CreateConversation` and `StartRun` commit the resource with the key's row;
`Enqueue` or `ExecuteInline` follow by the execution mode; `send_message` is
`CommitDelta` and `ExecuteMessage` before `SendMessage` stores the key.
`KeyConflict` is the IntegrityError on `(user_id, key)`; `Expire` makes a row
invisible to `get_replay` and leaves it in the table; `Fail`, `JobRaises` and
`WorkerDies` are the failures, and a dead worker's job is delivered again. arq is
external. A key is used with one endpoint, by one user.

### ModelRunner

The state is the job's: `at` is the place of its coroutine, `budget` is
`LoopBudget`, `text`, `emitted` and `sent` are the delta streamer's text, its
index and what it has published, `proposals` and `records` the turn's tool calls
and their rows, `gather` the parallel reads, `results` what the next turn is
given. A turn is `BeginTurn` (the step is counted, a healthy provider chosen),
`StreamText` and `StreamToolUse` as long as the provider yields, `FailOver`
(quarantine, next provider, from the start, while what the failed one has
streamed stays), `Drain` (usage, then the ceilings), `FinishText`, `EndTurn`
(nothing proposed: completed; three equal calls: error). The dispatch takes the
proposals in order (`Refuse`, `OutOfCalls`, `Pause`, `Accept`), then reads in
parallel, then writes in series, and `FeedResults` begins the next turn.

The reads share one session. Each appends two events: `ReadSeq` is the SELECT of
the next seq, `BeginFlush` and `EndFlush` the INSERT. A flush that begins inside
another, or with a seq already taken, raises; nothing catches it, so the job dies
and the run keeps the status of its last commit. `AgentLoop` is `LoopBegin` and one
of five outcomes; what it proposes awaits a decision even when the tool needs
none. `Cancel` is the request; the job reads the status only in `LoopBegin`, so a
cancelled run may end `completed`.

A text is a sequence of characters of four kinds (word characters, dots, "at", spaces),
enough for the one pattern of `redact` whose parts nothing bounds, the e-mail address
`\b[\w.+-]+@[\w-]+\.[\w.-]+\b` (`agent/redaction.py:14`). `Scan` reads a text from the
left, a character at a time. `Open` is what may yet become part of an address: a local
part with its "at" and the label so far, or a word. An address is replaced only when a
character of the domain has come behind its dot, so local part, "at" and label together
are held back, whatever the length of each. `MCModelRunner` states the pattern as the
regular expression has it, with word boundaries and the longest leftmost match, and TLC
evaluates on each run that the scan agrees with it for all texts of up to six characters
(`ScanIsThePattern`). `+` and `-` are not told apart from dots and word characters, and
the placeholder counts as one character; the other patterns of `redact` are shorter than
the tail held back.

The results are handed to the model in the order the reads were proposed in (`InOrder`),
whatever order they ended in. Without a PriceFRAME client the first call of a dispatch
ends the run as an error (`NoClient`, `agent/runner.py:739`). A write without approval
(`auto`) is code of the runner that no tool of the registry reaches: each one whose risk
is not READ needs approval (`tools/base.py:37`). `Left` is what a job has still to do, in
three numbers: turns, places of the turn, and steps at the place.

### Questionnaire

`draft` is the one row of a conversation, `req` the requests under way, each with
the row it loaded and the whole payload it will write. A request is an action
that loads and computes (`StartConversation`, `SubmitFieldAnswer`, `ReAskField`,
`AcceptProposal`, `CommitConversation`, `SaveDraft`, `DeleteDraft`), the flush
that takes the row's lock (`Insert`, `Update`), and its commit (`Commit`,
`CommitAnswer`, `CommitSave`, `CommitDelete`, `CommitQuote`). `Written` is SQLAlchemy's
rule that a payload equal to the loaded one is not written. `Doomed` names the
writes that cannot succeed: an insert of a row that exists, an update of one that
is gone. `NextStep` and `AdvanceCursor` are the sequencer; a cursor is a phase and
a place in it. The history variable `prompted` says that each answer so far was
to the question at the cursor it loaded. Without that, answers move the cursor past a
question nobody answered, which the code permits: the answer to a field that was
asked again passes the pending question, a stale form likewise. For the same reason a
prompt may show a question other than the one at the cursor of the row that is
committed: an answer that changes nothing in the payload it loaded writes nothing, and
still prompts for what that payload is at. What holds without the condition is
`RecapIsEarned`, about the last prompt: `accepted` counts the answers and skips
committed in the conversation, of a draft that was lost as well.

### Suggestions

One entry of a step, or one request for a field's suggestion. `FanOut` asks for
all bands at once, since every task runs up to its first await before any is
answered; `AnswerHistory`, `AnswerMarket` and `MissMarket` are the answers in any
order. The market's are charged when they come. `Blend` is the ladder of `blend`,
with confidences in tenths and blended values in hundredths; `Reconcile` is
Flash, asked before the ladder, and its answer that is no number raises outside the
`try`, so the fields' events are lost with it (at `raised`). The events are appended
after the last blend; `entered` tells a step's entry, which emits them, from a request
for one field, which does not. `ProposeDraft`, `ProposeHistory` and `ProposeDefault` fill the
step's essential fields.

Two promises about a field's event are not kept, and no run is expected to violate
them: `OneEventPerField` says what does hold beside them. "Per-field isolation is
mandatory" (`agent/suggestions.py:9`), and lines 137-140 have an event for every field;
but a reconciled value that is no number raises in `blend_async`
(`agent/suggestions_blend.py:346`), outside the `try` of any field, and then no field is
told, the fields blended before it included. The property states both ends: a fan-out
that comes to `suggested` has told every field that is due an event, once and in order,
and one that `raised` has told none and had a field that Flash was asked about. The request
for a single field's suggestion (`api/v1/runs.py:1074`) speaks of a reactive field, and
the fan-out it calls takes proactive fields only (`agent/suggestions.py:525`): such a
request is answered with no event, and `Due` is empty for it. The contracts of the
repository declare no reactive field at present.

What reading the code for these modules turned up, beside the violations below:
`_fanout_initial_step_suggestions` in `agent/runner.py` and in `agent/loop.py`
has no caller; a pause leaves the reads accepted before it `pending`; a job that
dies leaves its run `queued` or as last committed; Flash is asked before the "both
weak" rule; `RunBudget` and `ResearchCache` are made anew for each step entry, so the
cache has never an entry; a historical look-up costs nothing and counts as a call;
a repeated commit of a conversation creates another quote. No text of the
repository says otherwise, so these are remarks and not findings.

## 3. The runs

| Run | Instance | States | Shows |
|---|---|---|---|
| `journal` | 3 transactions of up to 2 rows, 1 reader, 3 events, pages of 2 | 10,690 | `WritersTakeTurns`, `EveryEventDelivered`, `NoStarvation`, refinement of `EventLog` |
| `stream` | 1 client (header), pages of 2, 4 events, 2 deliveries of the job, 1 request, 1 broken connection | 311,668 | `DeliveredInOrder` (refinement of `EventLog`), `EveryEventReceived`, `EndsOnlyWhenResting`, `ResponseEnds` |
| `decisions` | a write and a read, 2 handlers, 3 requests | 215,168 | `ApprovedBeforeExecuted`, `SucceededIsAudited`, `ReapprovedOnlyAfterEdit`, `ExecutingHasOwner`, `ExecutionSettles` |
| `decisions_final` | the same | violation | a cancelled run completed by a stale handler |
| `steps` | 4 steps, one of each kind, 2 runs, 2 handlers, 3 calls, 4 requests | 297,817 | `ApprovedStepWasExecuted`, `QuoteWasCreated`, `RetryNeverReexecutes`, `BundleSettles` |
| `requests` | a key per endpoint, 3 attempts, 2 deaths, both modes | 87,720 | `OneResourcePerKey`, `AnswersAgree`, `QueuedIsOnItsWay`, `AnsweredIsExecuted` |
| `requests_send` | the same endpoints, 2 attempts, no deaths | violation | two runs with one `send_message` key |
| `runner` | 2 providers, 4 tools (one of each kind), 2 turns of up to 2 calls, 3 calls in all, texts of up to 6 characters in deltas of 1 or 2, 3 held back, 3 open at most | 248,759 | `WithinBudget`, `DeltasAreTheMessage`, `EveryCallAnswered`, `WritesAlone`, `EachStepCounts`, `JobEnds` |
| `runner_deltas` | the same, with 4 open characters: one more than is held back | violation | deltas that are not the message |
| `questionnaire` | 2 phases of 2 and 1 questions, 2 requests at a time, 2 other requests or failures | 229,181 | `CursorCounted`, `PromptedSkipsNothing`, `RecapIsEarned`, `RecapReached` |
| `suggestions` | a step of 5 fields, 3 of them with a market and 1 without, 1 reactive, every draft, 4 historical and 7 market bands, 2 calls | 848,804 | `OneEventPerField`, `NoSignalIffBothWeak`, `OnlyFanOutOverspends` |
| `suggestions_cap` | the same | violation | more calls than the cap |

Why the bounds are enough to be interesting. *journal*: three transactions let
one wait for a second while the third commits what makes the waiter fail; two
rows per transaction and three events let a committed run of rows be followed by
an uncommitted one; a page of 2 is smaller than the journal. *stream*: four
events are two pages, and hold a job that ends, is delivered again and ends
again; one request can overlap the job at every point, and one broken connection
is enough for a resume at any position (resumes after an ended response are not
bounded). *decisions*: two handlers at a time with a third request after them are
what an approve, an edit and a second approve take. *steps*: three calls are a quote
and a bundle of two, or three proposals for one step; four requests propose, approve,
fail and retry; two runs let a quote be found in the other one. *requests*: three attempts
give two concurrent ones and a late one; two deaths hit a handler and a worker,
or one job twice. *runner*: two turns carry the results, the quarantine and the
recent calls from one to the next; two calls a turn are two reads, two writes, a
refusal beside either, or a pause with a call before or behind it; three calls in all
are fewer than two turns may propose, so each limit is met; six characters are an
address (word, at, label, dot, domain) with one more before or behind it, or two words
that never become one; as much held back as may be open is what makes
`DeltasAreTheMessage` hold, and `runner_deltas`, with a local part of two characters, is
the other case. *questionnaire*: two requests at a time lose
every kind of write to each other; a first phase of two questions and a second of one
have an ordinary advance, one over the phase's end and the last one; two others
are a save and a failure, an expiry before a late save, a re-ask and its answer.
*suggestions*: the bands lie on both sides of each of the ladder's thresholds; two
calls are what three market fields overspend, and leave one for a reconciliation when
two of their bands were missed.

`MaxEvents`, `MaxJobs`, `MaxRequests`, `MaxDrops`, `MaxAttempts`, `MaxCrashes`,
`MaxBatch`, `MaxOthers`, `MaxText`, `MaxProposals`, `MaxUsage`, and `MaxCalls` of
`StepAdvance`, exist for the models only. `PageLimit` is
`settings.sse_replay_event_limit` (2000 in production); `MaxSteps`, `MaxCalls` and
`MaxTokens` of `ModelRunner` are settings, as are `MaxCalls`, `MinSample` and
`Threshold` of `Suggestions`.

`CHECK_DEADLOCK FALSE` everywhere: a run that rests, a bounded number of
requests, a queue that is empty are proper ends.

Every property of a passing run has a mutant, an operator beside the definition
it changes (marked `Mutant:` in its comment) that breaks it the way a plausible bug would.

### Disagreements with the documentation

Four runs are expected to find a violation. Each checks a sentence of the docs or
of a docstring against the code.

1. `decisions_final`: "No transitions out" of a terminal status
   (`docs/book/part-04-agent-architecture.md:553`). A stale handler completes a
   cancelled run (`api/v1/runs.py:267`); step advance reopens completed runs by
   intent.
2. `requests_send`: "concurrent same-key writes will fail one and replay the
   other" (`docs/handbook/12-security-safety.md:239`). `send_message` has executed
   its run by then (`api/v1/conversations.py:243`).
3. `runner_deltas`: "the concatenation of every emitted `delta` equals the final
   redacted message exactly once" (`agent/runner.py:873`). An address whose local part,
   "at" and first label exceed the 64 characters held back is redacted after its
   beginning was sent (`agent/runner.py:896`).
4. `suggestions_cap`: the caps "apply across every market field consulted during
   one step entry" (`agent/suggestions_budget.py:8`). All fields pass
   `can_spend` before one is charged (`tools/web_research.py:435`).
   `OnlyFanOutOverspends`, which holds and is proved, says that no other step goes
   over the cap, and how far the fan-out does.

Two remarks on `stream_run` that no run checks: `last_event_id` in the query wins
over the header (`api/v1/runs.py:1201`), so a reconnect to the same URL repeats
events; and a response may end without a terminal event, on `run.status` alone
(line 1230).

## 4. Fairness

Safety is checked without any. Liveness uses:

- *journal*: weak fairness of `Commit` and `Poll` (a coroutine that is started is
  run on; a stream polls while its client listens), strong fairness of
  `Insert \/ InsertConflict` (PostgreSQL grants an index entry to its waiters in
  turn, so a waiter is not passed over for ever though its INSERT is disabled
  again and again). `SelectMax` and `Rollback` have none: nobody must write, and
  nothing must fail.
- *stream*: weak fairness of the generator, of delivery and of reconnecting. The
  worker and the requests have none, so the properties are about what is
  committed, whether or not more comes.
- *decisions*: weak fairness of each handler's own steps; failures and arrivals
  have none.
- *steps*: weak fairness of each handler's own steps (a coroutine that has begun is
  run on, and PriceFRAME answers or times out). `Fail` and `Begin` have none, so
  `BundleSettles` is about executions that did not fail.
- *requests*: weak fairness of handlers and of the worker, which polls its queue.
- *runner*: weak fairness of the job's coroutine, which nothing else disables, and of
  the end of a stream: providers and tools have timeouts, so a stream does not yield
  for ever. `Cancel` has none. `JobEnds` includes a death of the job.
- *questionnaire*: weak fairness of the user who answers what is asked, or opens the
  conversation (`Engaged`), and of each request's progress; a `Doomed` write does fail.
  Other requests, failures, expiry and purge have none. `RecapReached` is a property of
  a user who goes on, which is what the code is for; a user who leaves ends nothing.
- *suggestions*: none; its properties are about what is emitted.

## 5. The proofs

Each `_proofs` module extends its component, states `Init => IInv` and
`IInv /\ [Next]_vars => IInv'` as lemmas with a step per action, and derives the
theorems with one temporal step. Assumptions on the constants are the named
`ASSUME`s of the components; TLC evaluates them in the runs.

**RunJournal.** `WritersTakeTurns` is not inductive: it does not say why a second
transaction cannot insert. `IInv` adds `StagedFollows` (what a transaction has
staged is the run of seqs that follows the committed ones) and `SelectedSeq` (a
selected seq is the first free one or taken by now). Two transactions with staged
rows would then both hold the first free seq, which `Blocked` excludes. `NoGaps`
follows because a commit appends a run of seqs, and `ResumeIsLossless` because
nothing is committed at or below a cursor. `Refinement` maps rows to the sequence
of their writers and a reader's rows to its prefix; a commit is `Publish`, a poll
`Deliver`, everything else stutters.

**RunStream.** `InFlight` relates the three places an event may be in: a client
holds the ids 1..n, its wire the ids that follow, and while it is connected its
cursor is the last of both. A connection that breaks leaves the cursor ahead, which
does no harm because the next one starts from what the client holds
(`LastIdIsCount`). `Refinement` follows: a commit is `Publish` (what is held lies in
the old journal, so its image does not change), `Receive` is `Deliver`, everything
else stutters. `EndsOnlyWhenResting` needs `QueuedIsAllThereIs`: while a run is queued
neither a worker, nor a request, nor a response can have seen another status, and
nothing that ends a response is in the journal.

**ToolDecisions.** `ReapprovedOnlyAfterEdit` needs what handlers know: `SawDecided`
(a handler that loaded the call after an approval saw it decided unless an edit
came between), `DecidedUntilEdited` (the same of the row itself) and
`LoadedBefore` (what a handler loaded is older than what it records).
`SucceededIsAudited` and `ExecutingHasOwner` need `HandlerInOrder` (what a handler
has done by its place). `ApprovedFirst` is a count: of the approvals of a call, one is
left for each execution that is to reach PriceFRAME (`ApprovalsLeft`); an approval
adds one to both, a receipt takes from what is to be executed, and a failure before it
leaves an approval unused. `FinalOneByOne` is the counterpart of the run
`decisions_final`: with a single handler what was loaded is what is committed
(`Fresh`), and a terminal status is final.

**StepAdvance.** `ApprovedStepWasExecuted` needs `BundleInOrder`: of a handler's
bundle everything but the calls to do and the current one is carried out and audited,
and so is the current one once its result is in hand. `QuoteWasCreated` needs
`SucceededIsEffective` (a row reads succeeded only of a call that was carried out,
though the row is written later and by another statement) and `QuoteInHand` for the
time between the reading of the quote and the proposal. `RetryNeverReexecutes` needs
`StartedIsDecided` (a started call never reads as undecided again) and
`ListedUndecided` (what a handler has still to do was started, if at all, after it
listed it). `ExecutingIsOwned` and `OwnersGoOn` are what `BundleSettles` rests on, for
any number of requests: an executing call is always some handler's, or was given up,
and that handler goes on through at most three places and never comes back, since a
call under way is no longer one to do (`OwnerInv`). That fairness then settles the
call is what the run checks.

**KeyedRequests.** `OneResourcePerKey` and `AnswersAgree` follow from `InRow` and
`RowsPoint`: what an attempt has created or been answered is what its key's row
points to, and a row that exists is never replaced, expired or not. `InPlace`
ties an attempt's place to what it has done. `OneEffectWithoutSend` is the counterpart
of the run `requests_send`: where no key belongs to `send_message`, a key has one
effect.

**ModelRunner.** `BudgetIsKept` rests on `Budgeted`, which adds that nothing is
spent before the job begins and that tokens are within the ceiling while it goes on.
`WritesAreAlone` rests on `Dispatched`: a turn's records begin empty, whoever reads
is one of the turn's reads and does so at "reads" only, no write is started before
that is over, and a write that is not awaiting a decision needs none.

`DeltasJoinToTheMessage` needs two facts about redaction, for every text: what the scan
of a text has put out is a beginning of the redaction of every longer text
(`SettledTextStays`), and redacting never lengthens a text (`RedactShortens`). Both are
inductions over the text. The library's induction theorems take an operator, which the
provers cannot instantiate, so `Induction` is stated here for a set of naturals and
proved from its least element. Then `Streamed` is inductive: what was sent is a
beginning of the redaction and lies within what the scan has put out. The theorem
assumes `LongestOpen <= Holdback`, where `LongestOpen` bounds local part, "at" and label
together; `runner_deltas` shows what happens otherwise.

`CallsAreAnswered` rests on `Answered`: at every place of the dispatch `results` names
each proposal that is `Due` one by then (refused, a read when the reads are over, a
write that has settled) exactly once. That putting the reads in order loses and
doubles none is a lemma on `InOrder` (`OrderIsAll`).

`JobRunsDown` is the safety half of `JobEnds`: each step of the job makes `Left` fewer in
the lexicographic order (`EachStepCounts`), a cancel leaves it, and the order has no
infinite descent (`FewerIsWellFounded`). So a job takes finitely many steps, for any
limits and providers; that it does take them is fairness, which the run assumes.

**Questionnaire.** The invariant is `InPlace` for each request under way: the payload
it is about to write stands no further than the answers accepted, plus its own if it is
an answer, and skips nothing (`Complete`). It is what a stale request keeps while
others commit: it writes answers and cursor together, so what it loses it takes back
from the cursor too. `Position`, the number of questions before a cursor, grows by at
most one with `AdvanceCursor`; that is proved from the cardinality of finite sets, for
any phases. `NothingIsSkipped` holds as long as each answer was to the question at the
cursor it had loaded (`prompted`). `RecapAfterTheAnswers` has no such condition: a request
that is to show the recap holds a cursor past the last question (`InPlace`), which
`CursorIsCounted` lets it hold only after as many answers.

**Suggestions.** `LadderIsComplete` and `BlendedInBetween` are about `Blend` alone, for
any thresholds and bands: it has a value exactly if a band is usable, and the value lies
between those it is made of. They say nothing of Flash, nor that each value is made of
usable bands only: beside a usable band one below its floor may count for half.
`Budgeted` is the invariant of spending: either the cap holds and nothing is being
charged, or what is spent and what may still be charged is at most one call per market
field. `FanOutOverspends` is about steps: one that adds a call beyond the cap is an
answer to the fan-out, since a reconciliation and a look-up ask `CanSpend` in the step
that charges. `CapIsKept` is the counterpart of the run `suggestions_cap`: with no more
market fields than calls the cap holds. `EachFieldIsToldOnce` rests on `Ordered`: while
fields are blended, those blended so far are in the step's order, before every field
still to do, and with them are the fields that are due an event; the events are appended
after the last. Of the end that `raised` it says that nothing was appended and that a
contested band was there.

Proved but not checked in a run: `TypeOK`, `Contiguous` and `NothingSkipped` of
`RunJournal` (`EventLog`, which the run refines, implies the last two); `TypeOK` of
`ModelRunner`; `ExecutingHasOwner` and `OwnerGoesOn` of `StepAdvance`, which
`BundleSettles` relies on; the lemmas on redaction and on the blend.

Only model-checked: the liveness properties, `EveryEventDelivered`, `NoStarvation`,
`EveryEventReceived`, `ResponseEnds`, `ExecutionSettles`, `BundleSettles`,
`AnsweredIsExecuted`, `RecapReached` and `JobEnds`, since fairness and ENABLED are beyond
TLAPS here; and the violations. Every other property of a run has a theorem.

## 6. What is left out of the modelled parts

Text of messages, args beyond original or edited, timestamps, metrics. In
`RunStream`: events of field answers, proposals and suggestions, which are further
`progress` events without a status; clients that give up. In `ToolDecisions`: the
tool's argument validation and permission checks, which are ways to `Fail`; calls
added while decisions are made (step advance). In `StepAdvance`:
`decide_run_tool_call` on a call of a bundle (its own module has it), cancels and the
runner's writes to the status, so runs are `completed` or `awaiting_decision`; the
suggestions of the next step; template resolution. In `KeyedRequests`: requests
without a key; one key used at two endpoints (`get_replay` does not look at the
kind of the resource); arq's limit of tries and job timeout, which bound
`AnsweredIsExecuted` as `MaxCrashes` does. In `ModelRunner`: what the messages say, the
cost ceiling (it is checked with the tokens', in the same way), the time limit beyond
its effect, redaction patterns of bounded length. In `Questionnaire`: the values of fields and their
validation (an invalid answer is refused before anything is written), the
options and defaults offered with a prompt, the quote's payload. In `Suggestions`: the
texts, the ceiling on cost, which is reached with that on calls.

Components that are not modelled at all: the profile cache, the rate limiter and
attachments, each small and independent of the rest, whose hazards are listed in
`PROJECT.json`; the shapes of tools' requests and answers and of providers' streams;
memory, voice, health and tool listing, which are single reads and writes; and
observability, wiring and settings, which no decision reads.

## 7. The plan

Every component module has its runs and its proofs, and every safety property a run
checks has a theorem. Left, in this order:

1. The safety halves of the other liveness properties, as for `JobEnds` and
   `BundleSettles`: what each handler and each response has left to do, and that only
   bounded many steps of others set it back.
2. An abstract register of keys that `KeyedRequests` implements, as `RunJournal` and
   `RunStream` implement `EventLog`.
3. Composition: the decisions, the step advance and the runner over one run's
   status, to state which status a run rests in, with `decide_run_tool_call` on the
   calls of a bundle.
4. `ProfileCache`, the rate limiter, attachments: small modules for check-then-act and
   for stale entries.
