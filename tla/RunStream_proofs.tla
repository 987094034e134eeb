-------------------------- MODULE RunStream_proofs --------------------------
(***************************************************************************)
(* Proofs about RunStream, for any clients, page limit and bounds: types,   *)
(* a response ends only when the run rests, and over any number of broken   *)
(* connections each client holds a prefix of the journal.                   *)
(***************************************************************************)
EXTENDS RunStream, TLAPS

Entry == {"progress"} \cup Terminal
Kind == {"none", "cancel", "decide", "approve", "execute", "advance", "decide_step"}

\* What a commit does to the journal.
LEMMA Appended ==
  ASSUME NEW l \in Seq(Entry), NEW e \in Seq(Entry), e # <<>>
  PROVE  /\ l \o e \in Seq(Entry)
         /\ Len(l \o e) \in Nat /\ Len(l) \in Nat /\ Len(l) < Len(l \o e)
         /\ \A i \in 1..Len(l) : (l \o e)[i] = l[i]
         /\ (\A i \in 1..Len(e) : e[i] = "progress") =>
              \A i \in 1..Len(l \o e) : i > Len(l) => (l \o e)[i] = "progress"
OBVIOUS

LEMMA InitIInv == Init => IInv
<1> SUFFICES ASSUME Init PROVE IInv
  OBVIOUS
<1>1. log = <<>> /\ Len(log) = 0
  BY DEF Init
<1>2. \A c \in Clients : held[c] = <<>> /\ wire[c] = <<>> /\ Len(held[c]) = 0 /\ Len(wire[c]) = 0
  BY DEF Init
<1>3. TypeOK
  BY <1>1 DEF Init, TypeOK, Status, NoRequest
<1>4. QueuedIsAllThereIs
  BY <1>1 DEF Init, QueuedIsAllThereIs, NoRequest
<1>5. \A c \in Clients : InFlight(c)
  BY <1>2 DEF Init, InFlight
<1> QED
  BY <1>1, <1>3, <1>4, <1>5, StreamAssumption DEF IInv

-----------------------------------------------------------------------------
\* The run.

RunStep ==
  \/ StartJob \/ EmitDelta \/ CrashJob
  \/ \E outcome \in Terminal : FinishJob(outcome)
  \/ \E kind \in {"cancel", "decide", "approve", "advance", "decide_step"} : OpenRequest(kind)
  \/ ApproveToolCall \/ CommitRequest \/ AbortRequest

\* What is published is not empty, and what is not progress comes with a status.
Published ==
  \E e \in Seq(Entry) :
    /\ e # <<>> /\ Len(log) + Len(e) <= MaxEvents /\ log' = log \o e
    /\ status' = "queued" => \A i \in 1..Len(e) : e[i] = "progress"

LEMMA OneEvent ==
  ASSUME NEW event \in Entry, Publish(<<event>>), status' = "queued" => event = "progress"
  PROVE  Published
<1>1. <<event>> \in Seq(Entry) /\ <<event>> # <<>> /\ \A i \in 1..Len(<<event>>) : <<event>>[i] = event
  OBVIOUS
<1> QED
  BY <1>1 DEF Publish, Published

LEMMA TwoEvents ==
  ASSUME Publish(<<"progress", "completed">>), status' # "queued"
  PROVE  Published
<1>1. <<"progress", "completed">> \in Seq(Entry) /\ <<"progress", "completed">> # <<>>
  BY DEF Entry, Terminal
<1> QED
  BY <1>1 DEF Publish, Published

LEMMA JobStep ==
  ASSUME IInv, StartJob \/ EmitDelta \/ CrashJob \/ \E outcome \in Terminal : FinishJob(outcome)
  PROVE  /\ status' \in Status /\ job' \in {"none"} \cup Status /\ UNCHANGED request
         /\ status' = "queued" => status = "queued" /\ job' \in {"none", "queued"}
         /\ log' = log \/ Published
<1>1. status \in Status /\ job \in {"none"} \cup Status
  BY DEF IInv, TypeOK
<1>2. CASE StartJob \/ CrashJob
  BY <1>1, <1>2 DEF StartJob, CrashJob, IInv, QueuedIsAllThereIs
<1>3. CASE EmitDelta
  <2>1. Published
    BY <1>3, OneEvent DEF EmitDelta, Entry
  <2> QED
    BY <1>1, <1>3, <2>1 DEF EmitDelta, IInv, QueuedIsAllThereIs
<1>4. ASSUME NEW outcome \in Terminal, FinishJob(outcome)
      PROVE  /\ status' \in Status /\ status' # "queued" /\ job' = "none" /\ UNCHANGED request
             /\ Published
  <2>1. outcome \in Status /\ outcome \in Entry /\ outcome # "queued"
    BY DEF Terminal, Status, Ending, Entry
  <2>2. status' \in Status /\ status' # "queued"
    BY <1>1, <1>4, <2>1 DEF FinishJob, IInv, QueuedIsAllThereIs, Terminal
  <2> QED
    BY <1>4, <2>1, <2>2, OneEvent DEF FinishJob
<1> QED
  BY <1>2, <1>3, <1>4

LEMMA RequestStep ==
  ASSUME IInv,
         \/ \E kind \in {"cancel", "decide", "approve", "advance", "decide_step"} : OpenRequest(kind)
         \/ ApproveToolCall \/ CommitRequest \/ AbortRequest
  PROVE  /\ status' \in Status /\ UNCHANGED job
         /\ request' \in [kind : Kind, saw : Status]
         /\ status' = "queued" =>
              /\ status = "queued" /\ request'.saw = "queued"
              /\ request'.kind \in {"none", "cancel", "advance"}
         /\ log' = log \/ Published
<1>1. status \in Status /\ request \in [kind : Kind, saw : Status]
  BY DEF IInv, TypeOK, Kind
<1>2. status = "queued" => request.saw = "queued" /\ request.kind \in {"none", "cancel", "advance"}
  BY DEF IInv, QueuedIsAllThereIs
<1>3. NoRequest \in [kind : Kind, saw : Status] /\ NoRequest.kind = "none" /\ NoRequest.saw = "queued"
  BY DEF NoRequest, Kind, Status
<1>4. ASSUME NEW kind \in {"cancel", "decide", "approve", "advance", "decide_step"},
             OpenRequest(kind)
      PROVE  /\ UNCHANGED <<status, job, log>> /\ request' \in [kind : Kind, saw : Status]
             /\ status = "queued" => request'.saw = "queued" /\ request'.kind \in {"cancel", "advance"}
  BY <1>1, <1>4 DEF OpenRequest, Kind
<1>5. CASE ApproveToolCall
  <2>1. UNCHANGED <<status, job>> /\ request' \in [kind : Kind, saw : Status] /\ status # "queued"
    BY <1>1, <1>2, <1>5 DEF ApproveToolCall, Kind
  <2>2. Published
    BY <1>5, <2>1, OneEvent DEF ApproveToolCall, Entry
  <2> QED
    BY <1>1, <2>1, <2>2
<1>6. CASE AbortRequest
  BY <1>1, <1>3, <1>6 DEF AbortRequest
<1>7. CASE CommitRequest
  <2>1. request' = NoRequest /\ UNCHANGED job
    BY <1>7 DEF CommitRequest
  <2>2. status' \in Status /\ (status' = "queued" => status = "queued")
    BY <1>1, <1>2, <1>7 DEF CommitRequest, CancelRun, DecideToolCall, ToolCallExecuted, AdvanceStep,
       DecideStep, Status, Ending
  <2>3. Published
    <3>1. CASE CancelRun
      BY <3>1, OneEvent DEF CancelRun, Entry, Terminal
    <3>2. CASE DecideToolCall \/ ToolCallExecuted \/ (AdvanceStep /\ Publish(<<"progress">>))
      BY <3>2, OneEvent DEF DecideToolCall, ToolCallExecuted, Entry
    <3>3. CASE AdvanceStep /\ ~Publish(<<"progress">>)
      BY <3>3, TwoEvents DEF AdvanceStep
    <3>4. CASE DecideStep
      <4>1. status # "queued"
        BY <1>2, <3>4 DEF DecideStep
      <4> QED
        BY <2>2, <3>4, <4>1, TwoEvents DEF DecideStep
    <3> QED
      BY <1>7, <3>1, <3>2, <3>3, <3>4 DEF CommitRequest
  <2> QED
    BY <1>3, <2>1, <2>2, <2>3
<1> QED
  BY <1>1, <1>4, <1>5, <1>6, <1>7

LEMMA RunIInv ==
  ASSUME IInv, RunStep
  PROVE  /\ IInv' /\ UNCHANGED streamVars
         /\ \/ log' = log
            \/ /\ Len(log) \in Nat /\ Len(log') \in Nat /\ Len(log) < Len(log')
               /\ \A i \in 1..Len(log) : log'[i] = log[i]
<1>1. UNCHANGED streamVars
  BY DEF RunStep, StartJob, EmitDelta, CrashJob, FinishJob, OpenRequest, ApproveToolCall,
     CommitRequest, AbortRequest
<1>2. /\ status' \in Status /\ job' \in {"none"} \cup Status
      /\ request' \in [kind : Kind, saw : Status]
      /\ status' = "queued" =>
           /\ status = "queued" /\ job' \in {"none", "queued"} /\ request'.saw = "queued"
           /\ request'.kind \in {"none", "cancel", "advance"}
      /\ log' = log \/ Published
  <2>1. CASE StartJob \/ EmitDelta \/ CrashJob \/ \E outcome \in Terminal : FinishJob(outcome)
    BY <2>1, JobStep DEF IInv, TypeOK, QueuedIsAllThereIs, Kind
  <2>2. CASE \/ \E kind \in {"cancel", "decide", "approve", "advance", "decide_step"} :
                  OpenRequest(kind)
             \/ ApproveToolCall \/ CommitRequest \/ AbortRequest
    BY <2>2, RequestStep DEF IInv, TypeOK, QueuedIsAllThereIs
  <2> QED
    BY <2>1, <2>2 DEF RunStep
<1>3. /\ log' \in Seq(Entry) /\ Len(log') \in Nat /\ Len(log') <= MaxEvents /\ Len(log) <= Len(log')
      /\ log' = log \/ Len(log) < Len(log')
      /\ \A i \in 1..Len(log) : log'[i] = log[i]
      /\ status' = "queued" => \A i \in 1..Len(log') : log'[i] = "progress"
  <2>1. log \in Seq(Entry) /\ Len(log) \in Nat /\ Len(log) <= MaxEvents
        /\ (status = "queued" => \A i \in 1..Len(log) : log[i] = "progress")
    BY DEF IInv, TypeOK, Entry, QueuedIsAllThereIs
  <2>2. CASE log' = log
    BY <1>2, <2>1, <2>2
  <2>3. CASE Published
    <3>1. PICK e \in Seq(Entry) :
            /\ e # <<>> /\ Len(log) + Len(e) <= MaxEvents /\ log' = log \o e
            /\ status' = "queued" => \A i \in 1..Len(e) : e[i] = "progress"
      BY <2>3 DEF Published
    <3>2. /\ log' \in Seq(Entry) /\ Len(log') \in Nat /\ Len(log) < Len(log')
          /\ \A i \in 1..Len(log) : log'[i] = log[i]
          /\ (\A i \in 1..Len(e) : e[i] = "progress") =>
               \A i \in 1..Len(log') : i > Len(log) => log'[i] = "progress"
      BY <2>1, <3>1, Appended
    <3>3. Len(log') <= MaxEvents
      BY <2>1, <3>1
    <3> QED
      BY <1>2, <2>1, <3>1, <3>2, <3>3
  <2> QED
    BY <1>2, <2>2, <2>3
<1>4. TypeOK'
  BY <1>1, <1>2, <1>3 DEF IInv, TypeOK, streamVars, Entry, Kind
<1>5. QueuedIsAllThereIs'
  BY <1>1, <1>2, <1>3 DEF IInv, QueuedIsAllThereIs, streamVars
<1>6. \A c \in Clients : InFlight(c)'
  BY <1>1 DEF IInv, InFlight, streamVars
<1> QED
  BY <1>1, <1>3, <1>4, <1>5, <1>6 DEF IInv, TypeOK

-----------------------------------------------------------------------------
\* The streams.

LEMMA ClientTypes ==
  ASSUME TypeOK, NEW c \in Clients
  PROVE  /\ cursor[c] \in Nat /\ upto[c] \in Nat /\ cursor[c] <= upto[c] /\ upto[c] <= Len(log)
         /\ Len(log) \in Nat /\ PageLimit \in Nat /\ MaxEvents \in Nat
         /\ wire[c] \in Seq(1..MaxEvents) /\ held[c] \in Seq(1..MaxEvents)
         /\ Len(wire[c]) \in Nat /\ Len(held[c]) \in Nat
BY StreamAssumption DEF TypeOK

\* The last id a client received is the number of events it has.
LEMMA LastIdIsCount ==
  ASSUME TypeOK, NEW c \in Clients, InFlight(c)
  PROVE  LastId(c) = Len(held[c])
<1>1. held[c] \in Seq(1..MaxEvents) /\ Len(held[c]) \in Nat
  BY ClientTypes
<1>2. CASE held[c] = <<>>
  BY <1>2 DEF LastId
<1>3. CASE held[c] # <<>>
  <2>1. Len(held[c]) \in 1..Len(held[c])
    BY <1>1, <1>3
  <2> QED
    BY <1>3, <2>1 DEF LastId, InFlight
<1> QED
  BY <1>2, <1>3

\* A client has no more than was yielded to it, which is no more than there is.
LEMMA HeldIsYielded ==
  ASSUME TypeOK, NEW c \in Clients, InFlight(c)
  PROVE  /\ Len(held[c]) \in Nat /\ cursor[c] \in Nat /\ Len(log) \in Nat
         /\ Len(held[c]) <= cursor[c] /\ cursor[c] <= Len(log) /\ Len(held[c]) <= Len(log)
<1>1. /\ cursor[c] \in Nat /\ upto[c] \in Nat /\ Len(log) \in Nat /\ cursor[c] <= upto[c]
      /\ upto[c] <= Len(log) /\ Len(held[c]) \in Nat /\ Len(wire[c]) \in Nat
  BY ClientTypes
<1>2. \A a, b \in Nat : a <= a + b
  OBVIOUS
<1>3. Len(held[c]) <= Len(held[c]) + Len(wire[c])
  BY <1>1, <1>2
<1>4. Len(held[c]) <= cursor[c]
  BY <1>3 DEF InFlight
<1> QED
  BY <1>1, <1>4

LEMMA HeadTail ==
  ASSUME NEW S, NEW s \in Seq(S), s # <<>>
  PROVE  /\ Len(s) \in Nat /\ 0 < Len(s) /\ Head(s) = s[1] /\ s[1] \in S
         /\ Tail(s) \in Seq(S) /\ Len(Tail(s)) = Len(s) - 1
         /\ \A i \in 1..(Len(s) - 1) : Tail(s)[i] = s[i + 1]
OBVIOUS

\* A step of one connection.
LEMMA OneClient ==
  ASSUME IInv, NEW c \in Clients, UNCHANGED runVars, TypeOK', InFlight(c)',
         \A g \in Clients \ {c} :
           /\ pc'[g] = pc[g] /\ cursor'[g] = cursor[g] /\ seen'[g] = seen[g]
           /\ final'[g] = final[g] /\ wire'[g] = wire[g] /\ held'[g] = held[g],
         status = "queued" => seen'[c] = "queued" /\ ~final'[c] /\ pc'[c] # "ended"
  PROVE  IInv'
<1>1. QueuedIsAllThereIs'
  BY DEF IInv, QueuedIsAllThereIs, runVars
<1>2. ASSUME NEW g \in Clients PROVE InFlight(g)'
  <2>1. CASE g = c
    BY <2>1
  <2>2. CASE g # c
    <3>1. InFlight(g)
      BY DEF IInv
    <3> QED
      BY <2>2, <3>1 DEF InFlight
  <2> QED
    BY <2>1, <2>2
<1>3. Len(log') <= MaxEvents
  BY DEF IInv, runVars
<1> QED
  BY <1>1, <1>2, <1>3 DEF IInv

Others(c) ==
  \A g \in Clients \ {c} :
    /\ pc'[g] = pc[g] /\ cursor'[g] = cursor[g] /\ seen'[g] = seen[g]
    /\ final'[g] = final[g] /\ wire'[g] = wire[g] /\ held'[g] = held[g]

LEMMA ConnectIInv == ASSUME IInv, NEW c \in Clients, Connect(c) PROVE IInv'
<1>1. TypeOK /\ InFlight(c) /\ UNCHANGED runVars
  BY DEF IInv, Connect
<1>2. Resume(c) = Len(held[c]) /\ Len(held[c]) \in Nat /\ Len(held[c]) <= Len(log)
  BY <1>1, LastIdIsCount, HeldIsYielded DEF Resume
<1>3. TypeOK' /\ Others(c)
  BY <1>1, <1>2 DEF Connect, TypeOK, runVars, Others
<1>4. InFlight(c)'
  <2>1. /\ wire' = wire /\ held' = held /\ wire[c] = <<>> /\ pc'[c] = "list"
        /\ cursor'[c] = Len(held[c])
    BY <1>1, <1>2 DEF Connect, InFlight, TypeOK
  <2>2. Len(<<>>) = 0
    OBVIOUS
  <2> QED
    BY <1>1, <1>2, <2>1, <2>2 DEF InFlight
<1>5. status = "queued" => seen'[c] = "queued" /\ ~final'[c] /\ pc'[c] # "ended"
  BY <1>1 DEF IInv, QueuedIsAllThereIs, Connect, TypeOK
<1> QED
  BY <1>1, <1>3, <1>4, <1>5, OneClient DEF Others

\* The page that is listed, the status that is read, the end and the heartbeat.
LEMMA ReadsIInv ==
  ASSUME IInv, NEW c \in Clients, ListEvents(c) \/ ReadStatus(c) \/ EndResponse(c) \/ Heartbeat(c)
  PROVE  IInv'
<1>1. TypeOK /\ InFlight(c) /\ UNCHANGED <<runVars, cursor, wire, held>>
  BY DEF IInv, ListEvents, ReadStatus, EndResponse, Heartbeat
<1>2. PageEnd(c) \in Nat /\ cursor[c] <= PageEnd(c) /\ PageEnd(c) <= Len(log)
  <2>1. /\ cursor[c] \in Nat /\ upto[c] \in Nat /\ Len(log) \in Nat /\ PageLimit \in Nat
        /\ cursor[c] <= upto[c] /\ upto[c] <= Len(log)
    BY <1>1, ClientTypes
  <2> QED
    BY <2>1 DEF PageEnd, Least
<1>3. TypeOK' /\ Others(c)
  <2>1. CASE ListEvents(c)
    BY <1>1, <1>2, <2>1 DEF ListEvents, TypeOK, runVars, Others
  <2>2. CASE ReadStatus(c) \/ EndResponse(c) \/ Heartbeat(c)
    BY <1>1, <2>2 DEF ReadStatus, EndResponse, Heartbeat, TypeOK, runVars, Others
  <2> QED
    BY <2>1, <2>2
<1>4. InFlight(c)'
  <2>1. pc[c] # "off" /\ pc'[c] # "off"
    BY <1>1 DEF ListEvents, ReadStatus, EndResponse, Heartbeat, TypeOK
  <2> QED
    BY <1>1, <2>1 DEF InFlight
<1>5. status = "queued" => seen'[c] = "queued" /\ ~final'[c] /\ pc'[c] # "ended"
  BY <1>1 DEF IInv, QueuedIsAllThereIs, ListEvents, ReadStatus, EndResponse, Heartbeat, AtEnd,
     Ending, TypeOK
<1> QED
  BY <1>1, <1>3, <1>4, <1>5, OneClient DEF Others

LEMMA YieldIInv == ASSUME IInv, NEW c \in Clients, Yield(c) PROVE IInv'
<1>1. TypeOK /\ InFlight(c) /\ UNCHANGED runVars /\ Len(log) <= MaxEvents
  BY DEF IInv, Yield
<1> DEFINE n == cursor[c] + 1
<1>2. n \in 1..MaxEvents /\ n \in 1..Len(log) /\ n <= upto[c] /\ n \in Nat
  BY <1>1, ClientTypes DEF Yield
<1>3. /\ cursor' = [cursor EXCEPT ![c] = n] /\ wire' = [wire EXCEPT ![c] = Append(@, n)]
      /\ UNCHANGED <<pc, held, upto, seen>> /\ pc[c] = "emit"
      /\ final' = [final EXCEPT ![c] = @ \/ log[n] \in Terminal]
  BY DEF Yield
<1> HIDE DEF n
<1>4. /\ wire'[c] \in Seq(1..MaxEvents) /\ Len(wire'[c]) = Len(wire[c]) + 1
      /\ \A i \in 1..Len(wire[c]) : wire'[c][i] = wire[c][i]
      /\ wire'[c][Len(wire[c]) + 1] = n
  <2>1. wire[c] \in Seq(1..MaxEvents) /\ wire'[c] = Append(wire[c], n)
    BY <1>1, <1>3 DEF TypeOK
  <2> QED
    BY <1>2, <2>1
<1>5. final'[c] \in BOOLEAN /\ final' \in [Clients -> BOOLEAN]
  BY <1>1, <1>3 DEF TypeOK
<1>6. TypeOK' /\ Others(c)
  BY <1>1, <1>2, <1>3, <1>4, <1>5 DEF TypeOK, runVars, Others
<1>7. InFlight(c)'
  <2>1. Len(held[c]) \in Nat /\ Len(wire[c]) \in Nat
    BY <1>1, ClientTypes
  <2>2. cursor'[c] = n /\ n = Len(held[c]) + (Len(wire[c]) + 1)
    <3>1. cursor[c] = Len(held[c]) + Len(wire[c]) /\ n = cursor[c] + 1
      BY <1>1, <1>3 DEF InFlight, n
    <3>2. cursor'[c] = n
      BY <1>1, <1>3 DEF TypeOK
    <3>3. \A a, b \in Nat : (a + b) + 1 = a + (b + 1)
      OBVIOUS
    <3> QED
      BY <2>1, <3>1, <3>2, <3>3, Zenon
  <2>3. \A i \in 1..Len(wire'[c]) : wire'[c][i] = Len(held[c]) + i
    <3>1. TAKE i \in 1..Len(wire'[c])
    <3>2. i \in 1..Len(wire[c]) \/ i = Len(wire[c]) + 1
      BY <1>4, <2>1
    <3>3. CASE i \in 1..Len(wire[c])
      BY <1>1, <1>4, <3>3 DEF InFlight
    <3>4. CASE i = Len(wire[c]) + 1
      BY <1>4, <2>2, <3>4
    <3> QED
      BY <3>2, <3>3, <3>4
  <2>4. cursor'[c] = Len(held[c]) + Len(wire'[c])
    BY <1>4, <2>2
  <2>5. pc'[c] = "emit" /\ held'[c] = held[c] /\ \A i \in 1..Len(held[c]) : held[c][i] = i
    BY <1>1, <1>3 DEF InFlight
  <2> QED
    BY <2>3, <2>4, <2>5 DEF InFlight
<1>8. status = "queued" => seen'[c] = "queued" /\ ~final'[c] /\ pc'[c] # "ended"
  <2>1. "progress" \notin Terminal
    BY DEF Terminal
  <2> QED
    BY <1>1, <1>2, <1>3, <2>1 DEF IInv, QueuedIsAllThereIs, TypeOK
<1> QED
  BY <1>1, <1>6, <1>7, <1>8, OneClient DEF Others


\* The oldest event on the wire is the next one its client expects.
LEMMA ReceiveIInv ==
  ASSUME IInv, NEW c \in Clients, Receive(c)
  PROVE  /\ IInv'
         /\ Len(held[c]) + 1 \in 1..Len(log)
         /\ \A i \in 1..Len(held[c]) : held[c][i] = i
         /\ Len(held'[c]) = Len(held[c]) + 1
         /\ \A i \in 1..Len(held'[c]) : held'[c][i] = i
<1>1. TypeOK /\ InFlight(c) /\ UNCHANGED <<runVars, pc, cursor, upto, seen, final>>
  BY DEF IInv, Receive
<1> DEFINE h == Len(held[c])  w == Len(wire[c])
<1>2. /\ wire[c] \in Seq(1..MaxEvents) /\ held[c] \in Seq(1..MaxEvents) /\ wire[c] # <<>>
      /\ cursor[c] \in Nat /\ Len(log) \in Nat /\ cursor[c] <= Len(log)
      /\ h \in Nat /\ w \in Nat
  BY <1>1, ClientTypes, HeldIsYielded DEF Receive
<1>3. 0 < w /\ Head(wire[c]) = wire[c][1] /\ wire[c][1] \in 1..MaxEvents
      /\ Tail(wire[c]) \in Seq(1..MaxEvents) /\ Len(Tail(wire[c])) = w - 1
      /\ \A i \in 1..(w - 1) : Tail(wire[c])[i] = wire[c][i + 1]
  BY <1>2, HeadTail
<1>4. held'[c] = Append(held[c], wire[c][1]) /\ wire'[c] = Tail(wire[c])
  BY <1>1, <1>3 DEF Receive, TypeOK
<1>5. wire[c][1] = h + 1 /\ cursor[c] = h + w /\ \A i \in 1..w : wire[c][i] = h + i
  <2>1. cursor[c] = h + w /\ \A i \in 1..w : wire[c][i] = h + i
    BY <1>1, <1>2 DEF InFlight
  <2>2. 1 \in 1..w
    BY <1>2, <1>3
  <2> QED
    BY <2>1, <2>2
<1>6. held'[c] \in Seq(1..MaxEvents) /\ Len(held'[c]) = h + 1
      /\ (\A i \in 1..h : held'[c][i] = held[c][i]) /\ held'[c][h + 1] = h + 1
  BY <1>2, <1>3, <1>4, <1>5
<1>7. h + 1 \in 1..Len(log)
  <2>1. \A a, b, l \in Nat : 0 < b /\ a + b <= l => a + 1 \in 1..l
    OBVIOUS
  <2>2. h + w <= Len(log)
    BY <1>2, <1>5
  <2> QED
    BY <1>2, <1>3, <2>1, <2>2
<1>8. \A i \in 1..h : held[c][i] = i
  BY <1>1 DEF InFlight
<1> HIDE DEF h, w
<1>9. \A i \in 1..(h + 1) : held'[c][i] = i
  <2>1. TAKE i \in 1..(h + 1)
  <2>2. i \in 1..h \/ i = h + 1
    BY <1>2
  <2> QED
    BY <1>6, <1>8, <2>2
<1>10. TypeOK' /\ Others(c)
  BY <1>1, <1>3, <1>4, <1>6 DEF Receive, TypeOK, runVars, Others
<1>11. InFlight(c)'
  <2>1. Len(wire'[c]) = w - 1 /\ \A i \in 1..(w - 1) : wire'[c][i] = h + (i + 1)
    BY <1>2, <1>3, <1>4, <1>5
  <2>2. \A i \in 1..Len(wire'[c]) : wire'[c][i] = Len(held'[c]) + i
    BY <1>2, <1>3, <1>6, <2>1
  <2>3. cursor'[c] = Len(held'[c]) + Len(wire'[c])
    BY <1>1, <1>2, <1>3, <1>5, <1>6, <2>1
  <2>4. pc'[c] # "off"
    BY <1>1, <1>2 DEF InFlight
  <2> QED
    BY <1>6, <1>9, <2>2, <2>3, <2>4 DEF InFlight
<1>12. status = "queued" => seen'[c] = "queued" /\ ~final'[c] /\ pc'[c] # "ended"
  BY <1>1 DEF IInv, QueuedIsAllThereIs
<1>13. IInv'
  BY <1>1, <1>10, <1>11, <1>12, OneClient DEF Others
<1> QED
  BY <1>6, <1>7, <1>8, <1>9, <1>13 DEF h

LEMMA DiscardIInv == ASSUME IInv, NEW c \in Clients, Closed(c) \/ Drop(c) PROVE IInv'
<1>1. TypeOK /\ InFlight(c) /\ Discard(c) /\ UNCHANGED <<runVars, cursor, held>> /\ pc[c] # "off"
  BY DEF IInv, Closed, Drop, Discard
<1>2. cursor[c] \in Nat /\ upto[c] \in Nat /\ Len(log) \in Nat /\ cursor[c] <= upto[c]
      /\ upto[c] <= Len(log) /\ Len(held[c]) \in Nat /\ Len(wire[c]) \in Nat
  BY <1>1, ClientTypes
<1>3. cursor[c] <= Len(log)
  BY <1>2
<1>4. TypeOK' /\ Others(c)
  BY <1>1, <1>2, <1>3 DEF Discard, TypeOK, runVars, Others, Status
<1>5. InFlight(c)'
  <2>1. Len(held[c]) <= cursor[c]
    BY <1>1, HeldIsYielded
  <2>2. pc'[c] = "off" /\ wire'[c] = <<>> /\ Len(<<>>) = 0 /\ cursor'[c] = cursor[c] /\ held'[c] = held[c]
    BY <1>1 DEF Discard, TypeOK
  <2> QED
    BY <1>1, <2>1, <2>2 DEF InFlight
<1>6. status = "queued" => seen'[c] = "queued" /\ ~final'[c] /\ pc'[c] # "ended"
  BY <1>1 DEF Discard, TypeOK
<1> QED
  BY <1>1, <1>4, <1>5, <1>6, OneClient DEF Others

LEMMA NextIInv == IInv /\ [Next]_vars => IInv'
<1> SUFFICES ASSUME IInv, [Next]_vars PROVE IInv'
  OBVIOUS
<1>1. CASE RunStep
  BY <1>1, RunIInv
<1>2. ASSUME NEW c \in Clients, Connect(c) \/ Stream(c) \/ Receive(c) \/ Closed(c) \/ Drop(c)
      PROVE  IInv'
  BY <1>2, ConnectIInv, ReadsIInv, YieldIInv, ReceiveIInv, DiscardIInv DEF Stream
<1>3. CASE UNCHANGED vars
  BY <1>3 DEF vars, runVars, streamVars, IInv, TypeOK, QueuedIsAllThereIs, InFlight
<1> QED
  BY <1>1, <1>2, <1>3 DEF Next, RunStep

THEOREM Invariance == Spec => []IInv
BY InitIInv, NextIInv, PTL DEF Spec

(* Statuses, journal, cursors and pages keep their types, and a cursor never
   passes the page it reads nor the page the journal.                        *)
THEOREM TypeCorrect == Spec => []TypeOK
<1>1. IInv => TypeOK
  BY DEF IInv
<1> QED
  BY <1>1, Invariance, PTL

(* A response ends only when the run rests: a status read between two commits
   and an event replayed from the past never end it while the run is queued.  *)
THEOREM RestsAtEnd == Spec => []EndsOnlyWhenResting
<1>1. IInv => EndsOnlyWhenResting
  BY DEF IInv, QueuedIsAllThereIs, EndsOnlyWhenResting
<1> QED
  BY <1>1, Invariance, PTL

-----------------------------------------------------------------------------
\* The refinement of EventLog.

\* The copy that client c holds.
Got == [c \in Clients |-> [i \in 1..Len(held[c]) |-> log[held[c][i]]]]

LEMMA RunPublishes == ASSUME IInv, RunStep PROVE  [Log!Next]_(Log!vars)
<1>1. held' = held
  BY RunIInv DEF streamVars
<1>2. /\ log \in Seq(Entry) /\ log' \in Seq(Entry)
      /\ \A c \in Clients : /\ Len(held[c]) \in Nat /\ Len(log) \in Nat /\ Len(held[c]) <= Len(log)
                           /\ \A i \in 1..Len(held[c]) : held[c][i] = i
  <2>1. TypeOK /\ TypeOK'
    BY RunIInv DEF IInv
  <2>2. ASSUME NEW c \in Clients
        PROVE  /\ Len(held[c]) \in Nat /\ Len(log) \in Nat /\ Len(held[c]) <= Len(log)
               /\ \A i \in 1..Len(held[c]) : held[c][i] = i
    <3>1. InFlight(c)
      BY DEF IInv
    <3> QED
      BY <2>1, <3>1, HeldIsYielded DEF InFlight
  <2> QED
    BY <2>1, <2>2 DEF TypeOK, Entry
<1>3. CASE log' = log
  BY <1>1, <1>3 DEF Log!vars
<1>4. CASE log' # log
  <2>1. /\ Len(log) \in Nat /\ Len(log') \in Nat /\ Len(log) < Len(log')
        /\ \A i \in 1..Len(log) : log'[i] = log[i]
    BY <1>4, RunIInv
  <2>2. Log!Extends(log', log)
    BY <1>2, <2>1 DEF Log!Extends
  <2>3. \A c \in Clients : \A i \in 1..Len(held[c]) : log'[held[c][i]] = log[held[c][i]]
    BY <1>2, <2>1
  <2>4. Got' = Got
    BY <1>1, <2>3 DEF Got
  <2> QED
    BY <2>2, <2>4 DEF Log!Next, Log!Publish, Got
<1> QED
  BY <1>3, <1>4

LEMMA ReceiveDelivers == ASSUME IInv, NEW c \in Clients, Receive(c) PROVE Log!Next
<1> DEFINE h == Len(held[c])
           more == [i \in 1..(h + 1) |-> log[i]]
<1>1. /\ h + 1 \in 1..Len(log) /\ Len(held'[c]) = h + 1
      /\ \A i \in 1..h : held[c][i] = i
      /\ \A i \in 1..(h + 1) : held'[c][i] = i
  BY ReceiveIInv
<1>2. log' = log /\ \A g \in Clients \ {c} : held'[g] = held[g]
  BY DEF Receive, runVars, IInv, TypeOK
<1>3. h \in Nat /\ DOMAIN log = 1..Len(log)
  BY ClientTypes DEF IInv, TypeOK
<1> HIDE DEF h
<1>4. Got[c] = [i \in 1..h |-> log[i]]
  BY <1>1 DEF Got, h
<1>5. Log!Extends(more, Got[c])
  <2>1. DOMAIN more = 1..(h + 1) /\ DOMAIN Got[c] = 1..h
    BY <1>4
  <2>2. 1..h \subseteq 1..(h + 1) /\ h + 1 \in 1..(h + 1) /\ h + 1 \notin 1..h
    BY <1>3
  <2> QED
    BY <1>4, <2>1, <2>2 DEF Log!Extends
<1>6. Got' = [Got EXCEPT ![c] = more]
  <2>1. Got'[c] = more
    BY <1>1, <1>2 DEF Got, h
  <2>2. \A g \in Clients \ {c} : Got'[g] = Got[g]
    BY <1>2 DEF Got
  <2> QED
    BY <2>1, <2>2 DEF Got
<1>7. more \in {[i \in 1..n |-> log[i]] : n \in DOMAIN log}
  BY <1>1, <1>3
<1> HIDE DEF more
<1> QED
  BY <1>2, <1>5, <1>6, <1>7 DEF Log!Next, Log!Deliver, Got

(* Over any number of broken connections, a client that sends the id of its
   last event holds a prefix of the journal.                                 *)
THEOREM Refinement == Spec => DeliveredInOrder
<1>1. Init => Log!Init
  <2> SUFFICES ASSUME Init PROVE Log!Init
    OBVIOUS
  <2>1. log = <<>> /\ 1..0 = {} /\ \A c \in Clients : held[c] = <<>>
    BY DEF Init
  <2>2. Len(<<>>) = 0 /\ <<>> = [i \in 1..0 |-> CHOOSE e \in Entry : TRUE]
    OBVIOUS
  <2>3. \A c \in Clients : [i \in 1..Len(held[c]) |-> log[held[c][i]]] = log
    BY <2>1, <2>2
  <2> QED
    BY <2>1, <2>2, <2>3 DEF Log!Init, Entry
<1>2. IInv /\ [Next]_vars => [Log!Next]_(Log!vars)
  <2> SUFFICES ASSUME IInv, [Next]_vars PROVE  [Log!Next]_(Log!vars)
    OBVIOUS
  <2>1. CASE RunStep
    BY <2>1, RunPublishes
  <2>2. ASSUME NEW c \in Clients, Receive(c) PROVE Log!Next
    BY <2>2, ReceiveDelivers
  <2>3. ASSUME NEW c \in Clients, Connect(c) \/ Stream(c) \/ Closed(c) \/ Drop(c)
        PROVE  UNCHANGED <<log, held>>
    BY <2>3 DEF Connect, Stream, Closed, Drop, Discard, ListEvents, ReadStatus, Yield, EndResponse,
       Heartbeat, runVars
  <2>4. UNCHANGED <<log, held>> => UNCHANGED Log!vars
    BY DEF Log!vars
  <2>5. UNCHANGED vars => UNCHANGED <<log, held>>
    BY DEF vars, runVars, streamVars
  <2> QED
    BY <2>1, <2>2, <2>3, <2>4, <2>5 DEF Next, RunStep
<1> QED
  BY <1>1, <1>2, Invariance, PTL DEF Spec, DeliveredInOrder, Log!Spec
=============================================================================
