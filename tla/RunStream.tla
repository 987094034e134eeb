------------------------------ MODULE RunStream ------------------------------
(***************************************************************************)
(* The event stream of one run: GET /runs/{run_id}/stream polls the journal *)
(* and the run's status from a database session of its own and sends each   *)
(* event to its client, while a worker and the request handlers commit new  *)
(* events and statuses.  Connections break; the client comes back with the  *)
(* id of the last event it received.                                        *)
(*                                                                          *)
(* Commits to the journal are atomic here: RunJournal shows that they take  *)
(* turns and leave no gap, so the journal is a sequence and an event's seq  *)
(* is its index.  Of an event only its type matters to the stream.          *)
(***************************************************************************)
EXTENDS Naturals, Sequences, FiniteSets

CONSTANTS
  Clients,       \* stream clients
  PageLimit,     \* settings.sse_replay_event_limit
  MaxEvents,     \* bound: events of the journal
  MaxJobs,       \* bound: executions of the run's job, redeliveries included
  MaxRequests,   \* bound: requests that change the run
  MaxDrops       \* bound: connections that break

ASSUME StreamAssumption ==
  /\ PageLimit \in Nat \ {0}
  /\ {MaxEvents, MaxJobs, MaxRequests, MaxDrops} \subseteq Nat

VARIABLES
  status,    \* agent_runs.status, as committed
  log,       \* the event types of the journal, by seq
  job,       \* the worker: the status it loaded, or "none"
  request,   \* the open request: what it is to commit next, the status it loaded
  spent,     \* how much of each bound is used
  pc,        \* pc[c]: where the generator of c's connection stands
  cursor,    \* cursor[c]: its resume cursor, the last seq it yielded
  upto,      \* upto[c]: the last seq of the page it has listed
  seen,      \* seen[c]: the run.status it has read
  final,     \* final[c]: its emitted_terminal
  wire,      \* wire[c]: ids it yielded that c has not received
  held       \* held[c]: ids c has received, in order of arrival

runVars == <<status, log, job, request>>
streamVars == <<pc, cursor, upto, seen, final, wire, held>>
vars == <<runVars, spent, streamVars>>

\* The statuses at which stream_run ends the response.
Ending == {"awaiting_decision", "completed", "error", "cancelled"}
Status == {"queued"} \cup Ending

\* The event types at which it does; every other type is "progress".
Terminal == {"awaiting_decision", "completed", "error"}

NoRequest == [kind |-> "none", saw |-> "queued"]
Least(m, n) == IF m <= n THEN m ELSE n

-----------------------------------------------------------------------------
Init ==
  /\ status = "queued"
  /\ log = <<>>
  /\ job = "none"
  /\ request = NoRequest
  /\ spent = [jobs |-> 0, requests |-> 0, drops |-> 0]
  /\ pc = [c \in Clients |-> "off"]
  /\ cursor = [c \in Clients |-> 0]
  /\ upto = [c \in Clients |-> 0]
  /\ seen = [c \in Clients |-> "queued"]
  /\ final = [c \in Clients |-> FALSE]
  /\ wire = [c \in Clients |-> <<>>]
  /\ held = [c \in Clients |-> <<>>]

-----------------------------------------------------------------------------
\* The run: a transaction reads run.status when its handler loads the row, and
\* writes what it decided on that value when it commits.

Publish(events) ==
  /\ Len(log) + Len(events) <= MaxEvents
  /\ log' = log \o events

\* arq delivers the run's job, the first time or again after a worker died.
StartJob ==
  /\ job = "none"
  /\ spent.jobs < MaxJobs
  /\ job' = status
  /\ spent' = [spent EXCEPT !.jobs = @ + 1]
  /\ UNCHANGED <<status, log, request, streamVars>>

\* One delta event, committed by itself so that streams see it at once.
EmitDelta ==
  /\ job # "none"
  /\ Publish(<<"progress">>)
  /\ UNCHANGED <<status, job, request, spent, streamVars>>

\* Mutant: the runner commits its last event before the status that goes with
\* it.
FinishJobEventFirst(outcome) ==
  /\ job # "none"
  /\ Publish(<<outcome>>)
  /\ UNCHANGED <<status, job, request, spent, streamVars>>

\* The runner's last commit: the outcome as status and as event.  The session
\* writes the status only if it differs from the one it has loaded; AgentLoop
\* has set it to "running" in between, ModelRunner has not.
FinishJob(outcome) ==
  /\ job # "none"
  /\ Publish(<<outcome>>)
  /\ \/ status' = outcome
     \/ job = outcome /\ status' = status
  /\ job' = "none"
  /\ UNCHANGED <<request, spent, streamVars>>

\* The worker dies; what it had not committed is gone.
CrashJob ==
  /\ job # "none"
  /\ job' = "none"
  /\ UNCHANGED <<status, log, request, spent, streamVars>>

\* A handler loads the run.  cancel_run does nothing to a run it finds ended;
\* calls to decide on exist once the run has paused.
OpenRequest(kind) ==
  /\ request = NoRequest
  /\ spent.requests < MaxRequests
  /\ kind = "cancel" => status \notin {"completed", "error", "cancelled"}
  /\ kind \in {"decide", "approve", "decide_step"} => status # "queued"
  /\ request' = [kind |-> kind, saw |-> status]
  /\ spent' = [spent EXCEPT !.requests = @ + 1]
  /\ UNCHANGED <<status, log, job, streamVars>>

CancelRun ==
  /\ request.kind = "cancel"
  /\ Publish(<<"error">>)
  /\ status' = "cancelled"

\* A rejected or edited call: an event, and no change of the run's status.
DecideToolCall ==
  /\ request.kind = "decide"
  /\ Publish(<<"progress">>)
  /\ UNCHANGED status

\* The commit before an approved call is executed; its handler goes on with the
\* run it has loaded, and a bundle's with its next call.
ApproveToolCall ==
  /\ request.kind \in {"approve", "decide_step"}
  /\ Publish(<<"progress">>)
  /\ request' = IF request.kind = "approve"
                THEN [request EXCEPT !.kind = "execute"] ELSE request
  /\ UNCHANGED <<status, job, spent, streamVars>>

\* The approved call has executed.  The run is completed without an event of
\* its own.
ToolCallExecuted ==
  /\ request.kind = "execute"
  /\ Publish(<<"progress">>)
  /\ status' = IF request.saw = "awaiting_decision" THEN "completed" ELSE status

\* Next on a wizard step: a bundle is proposed, or the run is completed (again).
\* As everywhere, a status equal to the one loaded is not written.
AdvanceStep ==
  /\ request.kind = "advance"
  /\ \/ /\ Publish(<<"progress">>)
        /\ status' = IF request.saw = "awaiting_decision"
                     THEN status ELSE "awaiting_decision"
     \/ Publish(<<"progress", "completed">>) /\ status' = "completed"

\* The last commit of a decision on a step's bundle.
DecideStep ==
  /\ request.kind = "decide_step"
  /\ Publish(<<"progress", "completed">>)
  /\ status' = IF request.saw = "awaiting_decision" THEN "completed" ELSE status

CommitRequest ==
  /\ CancelRun \/ DecideToolCall \/ ToolCallExecuted \/ AdvanceStep \/ DecideStep
  /\ request' = NoRequest
  /\ UNCHANGED <<job, spent, streamVars>>

\* The handler raises, or its process dies, before the commit.
AbortRequest ==
  /\ request # NoRequest
  /\ request' = NoRequest
  /\ UNCHANGED <<status, log, job, spent, streamVars>>

-----------------------------------------------------------------------------
\* The stream.

\* The id of the last event c received, 0 before the first.
LastId(c) == IF held[c] = <<>> THEN 0 ELSE held[c][Len(held[c])]

\* Mutant: a new connection continues after what the last one yielded.
ResumeAfterYielded(c) == cursor[c]

\* Mutant: a new connection shows live events only.
ResumeLive(c) == Len(log)

\* _parse_cursor: the client sends the id of the last event it received, in the
\* header, or in the query when it opens the stream with a URL made for it.
Resume(c) == LastId(c)

Connect(c) ==
  /\ pc[c] = "off"
  /\ pc' = [pc EXCEPT ![c] = "list"]
  /\ cursor' = [cursor EXCEPT ![c] = Resume(c)]
  /\ upto' = [upto EXCEPT ![c] = Resume(c)]
  /\ UNCHANGED <<runVars, spent, seen, final, wire, held>>

\* Mutant: the page is full even if the journal is not that long.
PageEndUnbounded(c) == cursor[c] + PageLimit

PageEnd(c) == Least(Len(log), cursor[c] + PageLimit)

\* First statement of an iteration: list_run_events.
ListEvents(c) ==
  /\ pc[c] = "list"
  /\ pc' = [pc EXCEPT ![c] = "status"]
  /\ upto' = [upto EXCEPT ![c] = PageEnd(c)]
  /\ UNCHANGED <<runVars, spent, cursor, seen, final, wire, held>>

\* Second statement: the run, as it is committed by then.
ReadStatus(c) ==
  /\ pc[c] = "status"
  /\ pc' = [pc EXCEPT ![c] = "emit"]
  /\ seen' = [seen EXCEPT ![c] = status]
  /\ UNCHANGED <<runVars, spent, cursor, upto, final, wire, held>>

Yield(c) ==
  /\ pc[c] = "emit"
  /\ cursor[c] < upto[c]
  /\ cursor' = [cursor EXCEPT ![c] = @ + 1]
  /\ final' = [final EXCEPT ![c] = @ \/ log[cursor[c] + 1] \in Terminal]
  /\ wire' = [wire EXCEPT ![c] = Append(@, cursor[c] + 1)]
  /\ UNCHANGED <<runVars, spent, pc, upto, seen, held>>

\* Mutant: only an event ends the response.
AtEndOnEvent(c) == final[c]

AtEnd(c) == final[c] \/ seen[c] \in Ending

EndResponse(c) ==
  /\ pc[c] = "emit"
  /\ cursor[c] = upto[c]
  /\ AtEnd(c)
  /\ pc' = [pc EXCEPT ![c] = "ended"]
  /\ UNCHANGED <<runVars, spent, cursor, upto, seen, final, wire, held>>

\* A heartbeat carries no id; after the sleep the next iteration begins.
Heartbeat(c) ==
  /\ pc[c] = "emit"
  /\ cursor[c] = upto[c]
  /\ ~AtEnd(c)
  /\ pc' = [pc EXCEPT ![c] = "list"]
  /\ UNCHANGED <<runVars, spent, cursor, upto, seen, final, wire, held>>

Receive(c) ==
  /\ wire[c] # <<>>
  /\ held' = [held EXCEPT ![c] = Append(@, Head(wire[c]))]
  /\ wire' = [wire EXCEPT ![c] = Tail(@)]
  /\ UNCHANGED <<runVars, spent, pc, cursor, upto, seen, final>>

\* The generator of c is gone, and its local state with it.
Discard(c) ==
  /\ pc' = [pc EXCEPT ![c] = "off"]
  /\ upto' = [upto EXCEPT ![c] = cursor[c]]
  /\ seen' = [seen EXCEPT ![c] = "queued"]
  /\ final' = [final EXCEPT ![c] = FALSE]
  /\ wire' = [wire EXCEPT ![c] = <<>>]
  /\ UNCHANGED <<runVars, cursor, held>>

\* The client sees the end of the response.
Closed(c) ==
  /\ pc[c] = "ended"
  /\ wire[c] = <<>>
  /\ Discard(c)
  /\ UNCHANGED spent

\* The connection breaks; what is on the wire is lost.
Drop(c) ==
  /\ pc[c] # "off"
  /\ spent.drops < MaxDrops
  /\ spent' = [spent EXCEPT !.drops = @ + 1]
  /\ Discard(c)

-----------------------------------------------------------------------------
Stream(c) ==
  \/ ListEvents(c) \/ ReadStatus(c) \/ Yield(c)
  \/ EndResponse(c) \/ Heartbeat(c)

Next ==
  \/ StartJob \/ EmitDelta \/ CrashJob
  \/ \E outcome \in Terminal : FinishJob(outcome)
  \/ \E kind \in {"cancel", "decide", "approve", "advance", "decide_step"} :
       OpenRequest(kind)
  \/ ApproveToolCall \/ CommitRequest \/ AbortRequest
  \/ \E c \in Clients :
       Connect(c) \/ Stream(c) \/ Receive(c) \/ Closed(c) \/ Drop(c)

\* The event loop resumes every generator, sent bytes arrive or the connection
\* breaks, and a client that has lost its connection opens another.  Nothing is
\* asked of the worker and the handlers.
Fairness ==
  \A c \in Clients :
    WF_vars(Stream(c)) /\ WF_vars(Receive(c)) /\ WF_vars(Closed(c) \/ Connect(c))

Spec == Init /\ [][Next]_vars /\ Fairness

-----------------------------------------------------------------------------
TypeOK ==
  /\ status \in Status
  /\ log \in Seq({"progress"} \cup Terminal)
  /\ job \in {"none"} \cup Status
  /\ request \in [kind : {"none", "cancel", "decide", "approve", "execute", "advance",
                          "decide_step"}, saw : Status]
  /\ pc \in [Clients -> {"off", "list", "status", "emit", "ended"}]
  /\ cursor \in [Clients -> Nat] /\ upto \in [Clients -> Nat]
  /\ \A c \in Clients : cursor[c] <= upto[c] /\ upto[c] <= Len(log)
  /\ seen \in [Clients -> Status]
  /\ final \in [Clients -> BOOLEAN]
  /\ wire \in [Clients -> Seq(1..MaxEvents)]
  /\ held \in [Clients -> Seq(1..MaxEvents)]

(* Refinement: over any number of broken connections, a client that sends the
   id of its last event holds a prefix of the journal: no event twice, none
   skipped, none out of order.                                                *)
Log == INSTANCE EventLog WITH
  Readers <- Clients,
  Entries <- {"progress"} \cup Terminal,
  log <- log,
  got <- [c \in Clients |-> [i \in 1..Len(held[c]) |-> log[held[c][i]]]]

DeliveredInOrder == Log!Spec

(* The server ends a response only when the run rests: never while the run is
   still queued for a worker, though it decides on two reads made at different
   times and on events replayed from the past.                                *)
EndsOnlyWhenResting ==
  \A c \in Clients : pc[c] = "ended" => status # "queued"

(* Every committed event reaches every client that keeps reconnecting with the
   id of its last event, although each page is limited and each response may
   end before the journal's end.                                              *)
EveryEventReceived ==
  \A c \in Clients, n \in 1..MaxEvents :
    Len(log) >= n ~> LastId(c) >= n

(* A response does not outlive the run: once the run rests, every open one is
   ended or breaks.                                                           *)
ResponseEnds ==
  \A c \in Clients :
    pc[c] \in {"list", "status", "emit"} /\ status \in Ending
      ~> pc[c] \in {"ended", "off"}

-----------------------------------------------------------------------------
(* The inductive invariant.                                                  *)

\* While a run is queued nobody has seen anything else: neither a worker, nor a
\* request, nor a response, in the journal or in the status.
QueuedIsAllThereIs ==
  status = "queued" =>
    /\ \A i \in 1..Len(log) : log[i] = "progress"
    /\ job \in {"none", "queued"}
    /\ request.saw = "queued" /\ request.kind \in {"none", "cancel", "advance"}
    /\ \A c \in Clients : seen[c] = "queued" /\ ~final[c] /\ pc[c] # "ended"

\* What a client holds and what is on its wire are the events 1..cursor; without a
\* connection the cursor is what the last one yielded, and may be ahead.
InFlight(c) ==
  /\ \A i \in 1..Len(held[c]) : held[c][i] = i
  /\ \A i \in 1..Len(wire[c]) : wire[c][i] = Len(held[c]) + i
  /\ IF pc[c] = "off" THEN wire[c] = <<>> /\ Len(held[c]) <= cursor[c]
     ELSE cursor[c] = Len(held[c]) + Len(wire[c])

IInv ==
  /\ TypeOK /\ QueuedIsAllThereIs
  /\ Len(log) <= MaxEvents
  /\ \A c \in Clients : InFlight(c)
=============================================================================
