------------------------------ MODULE Suggestions ------------------------------
(***************************************************************************)
(* What a wizard is told when it enters a step: the step.entered event, one *)
(* suggestion event for each proactive field, and a proposal of the step's  *)
(* essential fields (agent/workflow_advance.py, suggestions.py,             *)
(* suggestions_blend.py, suggestions_budget.py, step_proposals.py and       *)
(* tools/web_research.py); and the request of a suggestion for one field.   *)
(*                                                                          *)
(* The historical and the market band of all fields are asked for at once;  *)
(* the blends, with their reconciliations, and the proposal's look-ups      *)
(* follow one after the other.  They share one RunBudget.  A band is a      *)
(* record, or None when it could not be had; confidences are in tenths and  *)
(* blended values in hundredths, so that they stay integers.                *)
(***************************************************************************)
EXTENDS Integers, Sequences, FiniteSets

CONSTANTS
  Fields,        \* the step's fields, in order
  Proactive,     \* those with mode proactive; the others are reactive
  Historical,    \* those with "historical" among their sources
  Market,        \* those with "market" among their sources
  Essential,     \* the step's essential_field_ids
  Defaulted,     \* fields with a safe default
  MinSample, Threshold,     \* min_sample_size and confidence_threshold of every field
  MaxCalls,      \* RunBudget.max_calls; the cap on the cost is reached with it
  Histories,     \* historical bands PriceFRAME may answer with: [size, value]
  Markets,       \* market bands the research may answer with: [confidence, value]
  None

Field == {Fields[i] : i \in DOMAIN Fields}

ASSUME SuggestionsAssumption ==
  /\ Fields \in Seq(STRING)
  /\ \A i, j \in DOMAIN Fields : Fields[i] = Fields[j] => i = j
  /\ Proactive \subseteq Field /\ Historical \subseteq Field /\ Market \subseteq Field
  /\ Essential \subseteq Field /\ Defaulted \subseteq Field
  /\ MinSample \in Nat /\ Threshold \in 0..10 /\ MaxCalls \in Nat
  /\ \A h \in Histories : h.size \in Nat /\ (h.value = None \/ h.value \in Int)
  /\ \A m \in Markets : m.confidence \in 0..10 /\ (m.value = None \/ m.value \in Int)
  /\ None \notin Int /\ None \notin Histories \cup Markets

VARIABLES
  step,       \* the fields of the step, or the one a request is for
  entered,    \* whether it is a step that is entered
  filled,     \* essential fields that the draft has a value for
  allowed,    \* agent.suggestions.read, and a PriceFRAME client
  configured, \* there is a key for the research and the reconciliation
  at,         \* where the request is
  asking,     \* bands asked for and not answered yet
  history,    \* the historical band of a field
  market,     \* its market band
  todo,       \* the fields still to be blended, or to be proposed
  calls,      \* RunBudget.calls
  blended,    \* the suggestion events, not appended yet
  proposal,   \* source of each value proposed
  events      \* events appended to the run's journal

given == <<step, entered, filled, allowed, configured>>
bands == <<asking, history, market>>
vars == <<given, at, bands, todo, calls, blended, proposal, events>>

-----------------------------------------------------------------------------
\* The bands, as blend sees them.
Size(h) == IF h = None THEN 0 ELSE h.size
Value(band) == IF band = None THEN None ELSE band.value
Confidence(m) == IF m = None THEN 0 ELSE m.confidence

Abs(n) == IF n < 0 THEN -n ELSE n

\* _disagreement > 0.25
Disagree(h, m) ==
  /\ Value(h) # None /\ Value(m) # None
  /\ IF Value(h) = 0 THEN Value(m) # 0
     ELSE 4 * Abs(Value(h) - Value(m)) > Abs(Value(h))

Strong(h) == Value(h) # None /\ Size(h) >= 10
Moderate(h) == Value(h) # None /\ Size(h) \in 3..9

NoSignal == [signal |-> FALSE, value |-> None, sources |-> {}]
Signal(value, sources) == [signal |-> TRUE, value |-> value, sources |-> sources]

\* Mutant: the ladder ends before its last rule.
MarketOnlyNever(m) == NoSignal

\* A market band whose historical band is missing.
MarketOnly(m) ==
  IF Value(m) # None /\ Confidence(m) >= Threshold
    THEN Signal(100 * Value(m), {"market"})
    ELSE NoSignal

\* blend: the ladder, from the first rule that applies on.
Blend(h, m) ==
  LET weak == Size(h) < MinSample \/ Value(h) = None
      both == {"historical", "market"}
  IN  IF weak /\ Confidence(m) < Threshold THEN NoSignal
      ELSE IF Strong(h) /\ Value(m) # None /\ Confidence(m) >= 7
        THEN Signal(70 * Value(h) + 30 * Value(m), both)
      ELSE IF Moderate(h) /\ Value(m) # None /\ Confidence(m) > 0
        THEN Signal(50 * Value(h) + 50 * Value(m), both)
      ELSE IF Size(h) < 3 /\ Value(m) # None /\ Confidence(m) >= 5
        THEN Signal(100 * Value(m), {"market"})
      ELSE IF ~weak THEN Signal(100 * Value(h), {"historical"})
      ELSE MarketOnly(m)

\* blend_async: whether Gemini Flash is asked before the ladder is.
NeedsReconcile(h, m) ==
  /\ Disagree(h, m)
  /\ \/ Size(h) >= 10 /\ Confidence(m) >= 7
     \/ Size(h) \in 3..9 /\ Confidence(m) > 0

\* Mutant: the call after the last one is allowed.
CanSpendOneMore == calls <= MaxCalls

\* can_spend: an estimated cost fits as long as a call does.
CanSpend == calls < MaxCalls

-----------------------------------------------------------------------------
\* A step is entered with all its fields, or one field's suggestion is asked for.
Init ==
  /\ \/ entered = TRUE /\ step = Fields /\ at = "enter"
     \/ entered = FALSE /\ at = "request" /\ \E f \in Field : step = <<f>>
  /\ filled \in SUBSET Essential
  /\ allowed \in BOOLEAN /\ configured \in BOOLEAN
  /\ asking = {}
  /\ history = [f \in Field |-> None] /\ market = [f \in Field |-> None]
  /\ todo = {}
  /\ calls = 0
  /\ blended = <<>>
  /\ proposal = [f \in Field |-> None]
  /\ events = <<>>

Event(kind, f, sources) == [kind |-> kind, field |-> f, sources |-> sources]
InStep(S) == {f \in S : \E i \in DOMAIN step : step[i] = f}

\* The first field of the step that is still to be done.
First(f) ==
  \E i \in DOMAIN step :
    step[i] = f /\ f \in todo /\ \A j \in DOMAIN step : j < i => step[j] \notin todo

\* emit_step_entered_with_suggestions, its first event.
EnterStep ==
  /\ at = "enter"
  /\ at' = "request"
  /\ events' = Append(events, Event("entered", None, {}))
  /\ UNCHANGED <<given, bands, todo, calls, blended, proposal>>

\* Both fan-outs: every field's task runs up to its first await before any is
\* answered, so they all look at the budget before one has spent from it.
FanOut ==
  /\ at = "request" /\ allowed
  /\ at' = "fetch"
  /\ asking' = {<<"historical", f>> : f \in InStep(Proactive \cap Historical)}
               \cup {<<"market", f>> : f \in InStep(IF configured /\ CanSpend
                                                    THEN Proactive \cap Market ELSE {})}
  /\ UNCHANGED <<given, history, market, todo, calls, blended, proposal, events>>

NotAllowed ==
  /\ at = "request" /\ ~allowed
  /\ at' = "skipped"
  /\ UNCHANGED <<given, bands, todo, calls, blended, proposal, events>>

\* PriceFRAME answers with a band, with no signal, or not at all.
AnswerHistory ==
  /\ at = "fetch"
  /\ \E f \in Field :
       /\ <<"historical", f>> \in asking
       /\ asking' = asking \ {<<"historical", f>>}
       /\ \E h \in Histories \cup {None} : history' = [history EXCEPT ![f] = h]
  /\ UNCHANGED <<given, at, market, todo, calls, blended, proposal, events>>

\* The research answers, with a band or an empty one, and is charged.
AnswerMarket ==
  /\ at = "fetch"
  /\ \E f \in Field :
       /\ <<"market", f>> \in asking
       /\ asking' = asking \ {<<"market", f>>}
       /\ \E m \in Markets \cup {None} : market' = [market EXCEPT ![f] = m]
  /\ calls' = calls + 1
  /\ UNCHANGED <<given, at, history, todo, blended, proposal, events>>

\* It fails or is timed out, and is not charged.
MissMarket ==
  /\ at = "fetch"
  /\ \E f \in Field :
       /\ <<"market", f>> \in asking
       /\ asking' = asking \ {<<"market", f>>}
  /\ UNCHANGED <<given, at, history, market, todo, calls, blended, proposal, events>>

\* Mutant: a field whose bands could not be had is left out.
EligibleAnswered(f) ==
  f \in Proactive \cap (Historical \cup Market) /\ (history[f] # None \/ market[f] # None)

Eligible(f) == f \in Proactive \cap (Historical \cup Market)

\* Mutant: the research is not waited for.
FetchedHistory == \A f \in Field : <<"historical", f>> \notin asking

Fetched == asking = {}

EndFetch ==
  /\ at = "fetch" /\ Fetched
  /\ at' = "blend"
  /\ todo' = {f \in InStep(Field) : Eligible(f)}
  /\ UNCHANGED <<given, bands, calls, blended, proposal, events>>

Blended(f, result) ==
  /\ blended' = Append(blended, Event(IF result.signal THEN "ready" ELSE "no_signal",
                                      f, result.sources))
  /\ todo' = todo \ {f}

\* A field without a market source: the historical event as it is.
PassHistory(f) ==
  /\ at = "blend" /\ First(f)
  /\ f \notin Market
  /\ Blended(f, IF history[f] = None THEN NoSignal ELSE Signal(Value(history[f]), {"historical"}))
  /\ UNCHANGED <<given, at, bands, calls, proposal, events>>

MayReconcile(f) == configured /\ CanSpend /\ NeedsReconcile(history[f], market[f])

\* FlashReconciler answers and is charged: with a value, which is taken whatever
\* the ladder says, or with something that is no number, which ends the fan-out
\* with the events of all fields.
Reconcile(f) ==
  /\ at = "blend" /\ First(f)
  /\ f \in Market
  /\ MayReconcile(f)
  /\ calls' = calls + 1
  /\ \/ Blended(f, Signal(None, {"historical", "market", "flash"})) /\ UNCHANGED at
     \/ at' = "raised" /\ UNCHANGED <<blended, todo>>
  /\ UNCHANGED <<given, bands, proposal, events>>

\* Nobody reconciles, or Flash fails, or its answer has no value and is charged.
BlendBands(f) ==
  /\ at = "blend" /\ First(f)
  /\ f \in Market
  /\ Blended(f, Blend(history[f], market[f]))
  /\ \/ UNCHANGED calls
     \/ MayReconcile(f) /\ calls' = calls + 1
  /\ UNCHANGED <<given, at, bands, proposal, events>>

\* emit_suggestions appends what the fan-out returns.
EndBlend ==
  /\ at = "blend" /\ todo = {}
  /\ at' = "suggested"
  /\ events' = events \o blended
  /\ UNCHANGED <<given, bands, todo, calls, blended, proposal>>

\* The request for one field is committed, or fails; entering a step swallows
\* what was raised and goes on to the proposal.
EndSuggestions ==
  /\ at \in {"suggested", "skipped", "raised"}
  /\ IF entered THEN at' = "propose" /\ todo' = Essential
     ELSE at' = "done" /\ todo' = {}
  /\ UNCHANGED <<given, bands, calls, blended, proposal, events>>

-----------------------------------------------------------------------------
Propose(f, source) ==
  /\ proposal' = [proposal EXCEPT ![f] = source]
  /\ todo' = todo \ {f}

\* propose_step_payload, for the next essential field: the draft's value wins.
ProposeDraft(f) ==
  /\ at = "propose" /\ First(f)
  /\ f \in filled
  /\ Propose(f, "draft")
  /\ UNCHANGED <<given, at, bands, calls, blended, events>>

MayLookUp(f) == allowed /\ f \in Historical /\ CanSpend

Default(f) == IF f \in Defaulted THEN "default" ELSE None

\* A look-up costs nothing, and is counted whatever it finds.
ProposeHistory(f) ==
  /\ at = "propose" /\ First(f)
  /\ f \notin filled
  /\ MayLookUp(f)
  /\ calls' = calls + 1
  /\ Propose(f, "historical") \/ Propose(f, Default(f))
  /\ UNCHANGED <<given, at, bands, blended, events>>

ProposeDefault(f) ==
  /\ at = "propose" /\ First(f)
  /\ f \notin filled
  /\ ~MayLookUp(f)
  /\ Propose(f, Default(f))
  /\ UNCHANGED <<given, at, bands, calls, blended, events>>

\* An empty proposal is not announced.
EndProposal ==
  /\ at = "propose" /\ todo = {}
  /\ at' = "done"
  /\ LET sources == {proposal[f] : f \in Field} \ {None}
     IN  events' = IF sources = {} THEN events
                   ELSE Append(events, Event("proposed", None, sources))
  /\ UNCHANGED <<given, bands, todo, calls, blended, proposal>>

-----------------------------------------------------------------------------
FetchBands == FanOut \/ NotAllowed \/ AnswerHistory \/ AnswerMarket \/ MissMarket \/ EndFetch
BlendField(f) == PassHistory(f) \/ Reconcile(f) \/ BlendBands(f)
ProposeField(f) == ProposeDraft(f) \/ ProposeHistory(f) \/ ProposeDefault(f)

Next ==
  \/ EnterStep \/ FetchBands \/ EndBlend \/ EndSuggestions \/ EndProposal
  \/ \E f \in Field : BlendField(f) \/ ProposeField(f)

Spec == Init /\ [][Next]_vars

-----------------------------------------------------------------------------
Band(S) == S \cup {None}
Sources == SUBSET {"historical", "market", "flash", "draft", "default"}
Events == Seq([kind : {"entered", "ready", "no_signal", "proposed"}, field : Field \cup {None},
               sources : Sources])

\* Types; and nothing is still asked for once the bands are blended.
TypeOK ==
  /\ step \in Seq(Field) /\ entered \in BOOLEAN
  /\ filled \subseteq Field /\ allowed \in BOOLEAN /\ configured \in BOOLEAN
  /\ at \in {"enter", "request", "fetch", "blend", "suggested", "skipped", "raised",
             "propose", "done"}
  /\ asking \subseteq {"historical", "market"} \X Field
  /\ at # "fetch" => asking = {}
  /\ history \in [Field -> Band(Histories)] /\ market \in [Field -> Band(Markets)]
  /\ todo \subseteq Field
  /\ calls \in Nat
  /\ proposal \in [Field -> {"draft", "historical", "default", None}]
  /\ blended \in Events /\ events \in Events

\* The fields whose suggestion is due, and their order.
Due == InStep(Proactive \cap (Historical \cup Market))
Before(f, g) == \E i, j \in DOMAIN step : i < j /\ step[i] = f /\ step[j] = g

InStepOrder(told) ==
  \A i, j \in DOMAIN told : i < j => Before(told[i].field, told[j].field)

\* The fields for which Flash may be asked: both bands came, and disagree.
Contested == {f \in Due \cap Market : configured /\ NeedsReconcile(history[f], market[f])}

\* How far "per-field isolation" goes (suggestions.py:9, 137-140;
\* workflow_advance.py:522-525).  However bands fail or are missing, the entered
\* event is followed by one event for each proactive field with a source, in the
\* step's order.  A fan-out that raises has told of no field, of none of those it
\* had blended before either, and only a field whose bands disagree can raise.
\* The request for a field that is not proactive is owed nothing: Due is empty.
OneEventPerField ==
  LET told == IF entered THEN Tail(events) ELSE events
  IN  /\ at \in {"suggested", "raised"} => (entered => Head(events).kind = "entered")
      /\ at = "suggested" => {told[i].field : i \in DOMAIN told} = Due /\ InStepOrder(told)
      /\ at = "raised" => told = <<>> /\ Contested # {}

UsableHistory(h) == Value(h) # None /\ Size(h) >= MinSample
UsableMarket(m) == Value(m) # None /\ Confidence(m) >= Threshold

\* no_signal is said of a field exactly when both of its bands are below their
\* floor (suggestions.py:451-453): no rule of the ladder loses a usable band, and
\* none makes a value of two unusable ones; beside a usable band an unusable one may
\* count for half.  Flash, which is asked before the ladder, is left out.
NoSignalIffBothWeak ==
  \A i \in DOMAIN blended :
    LET e == blended[i]
        usable == UsableHistory(history[e.field]) \/ UsableMarket(market[e.field])
    IN  (e.field \in Market /\ "flash" \notin e.sources) => (e.kind = "ready") = usable

MarketFields == Proactive \cap Market

\* A call over the cap is one of the fan-out's, and is no more than the number of
\* its fields: whatever has been spent before, neither a reconciliation nor a
\* proposal's look-up goes over it (suggestions_blend.py:427, step_proposals.py:343).
OnlyFanOutOverspends ==
  [][(calls' > calls /\ calls' > MaxCalls) =>
       (at = "fetch" /\ calls' <= Cardinality(MarketFields))]_vars

\* The inductive invariant: what has been spent and what the research may still be
\* charged for; and the events blended so far are those of bands that are settled.
Charging == {f \in MarketFields : <<"market", f>> \in asking}

Budgeted ==
  \/ calls <= MaxCalls /\ Charging = {}
  \/ calls + Cardinality(Charging) <= Cardinality(MarketFields)

Settled ==
  /\ at \in {"enter", "request", "fetch"} => blended = <<>>
  /\ at \in {"enter", "request"} => calls = 0

\* Of the order: what is blended is due and comes before all that is to be blended.
Entry == IF entered THEN <<Event("entered", None, {})>> ELSE <<>>

Ordered ==
  /\ \A i, j \in DOMAIN step : step[i] = step[j] => i = j
  /\ at = "enter" => entered /\ events = <<>>
  /\ at \in {"request", "fetch", "blend"} => events = Entry
  /\ at = "blend" =>
       /\ todo \subseteq Due
       /\ {blended[i].field : i \in DOMAIN blended} = Due \ todo
       /\ InStepOrder(blended)
       /\ \A i \in DOMAIN blended : \A f \in todo : Before(blended[i].field, f)
  /\ OneEventPerField

IInv ==
  /\ TypeOK /\ Budgeted /\ Settled /\ NoSignalIffBothWeak
  /\ \A f \in Field : <<"market", f>> \in asking => f \in MarketFields

\* The cap holds for "every market field consulted during one step entry"
\* (suggestions_budget.py:8-11).
CapKept == calls <= MaxCalls

=============================================================================
