------------------------- MODULE Suggestions_proofs -------------------------
(***************************************************************************)
(* Proofs about Suggestions, for any fields, thresholds and bands: the      *)
(* ladder of blend has a value exactly when a band is usable, its values    *)
(* lie between those of the bands, a fan-out that ends has told of each     *)
(* field due once and in order, one that raises of none, and only the       *)
(* calls of the fan-out go over the cap.                                    *)
(***************************************************************************)
EXTENDS Suggestions, FiniteSetTheorems, SequenceTheorems, TLAPS

IsHistory(h) == h = None \/ (h.size \in Nat /\ (h.value = None \/ h.value \in Int))
IsMarket(m) == m = None \/ (m.confidence \in 0..10 /\ (m.value = None \/ m.value \in Int))

LEMMA BandTypes ==
  /\ \A h \in Band(Histories) : IsHistory(h)
  /\ \A m \in Band(Markets) : IsMarket(m)
BY SuggestionsAssumption DEF Band, IsHistory, IsMarket

LEMMA BandFacts ==
  ASSUME NEW h, NEW m, IsHistory(h), IsMarket(m)
  PROVE  /\ Size(h) \in Nat /\ Confidence(m) \in 0..10
         /\ Value(h) \in Int \cup {None} /\ Value(m) \in Int \cup {None}
BY DEF IsHistory, IsMarket, Size, Confidence, Value

\* Whatever the thresholds, the rules of blend give a value exactly when the
\* historical or the market band reaches its floor (suggestions_blend.py:114-216).
THEOREM LadderIsComplete ==
  ASSUME NEW h \in Band(Histories), NEW m \in Band(Markets)
  PROVE  Blend(h, m).signal <=> (UsableHistory(h) \/ UsableMarket(m))
<1>1. IsHistory(h) /\ IsMarket(m)
  BY BandTypes
<1>2. /\ Size(h) \in Nat /\ Confidence(m) \in Nat
      /\ MinSample \in Nat /\ Threshold \in Nat
  BY <1>1, BandFacts, SuggestionsAssumption
<1>3. NoSignal.signal = FALSE /\ \A v, S : Signal(v, S).signal = TRUE
  BY DEF NoSignal, Signal
<1>4. MarketOnly(m).signal <=> UsableMarket(m)
  BY <1>3 DEF MarketOnly, UsableMarket
<1>5. CASE Size(h) < MinSample \/ Value(h) = None
  <2>1. ~UsableHistory(h)
    BY <1>2, <1>5 DEF UsableHistory
  <2>2. CASE Confidence(m) < Threshold
    <3>1. ~UsableMarket(m)
      BY <1>2, <2>2 DEF UsableMarket
    <3>2. Blend(h, m) = NoSignal
      BY <1>5, <2>2 DEF Blend
    <3> QED
      BY <1>3, <2>1, <3>1, <3>2
  <2>3. CASE ~(Confidence(m) < Threshold) /\ Value(m) = None
    <3>1. Blend(h, m) = MarketOnly(m)
      BY <1>5, <2>3 DEF Blend
    <3> QED
      BY <1>4, <2>1, <2>3, <3>1 DEF UsableMarket
  <2>4. CASE ~(Confidence(m) < Threshold) /\ Value(m) # None
    <3>1. UsableMarket(m)
      BY <1>2, <2>4 DEF UsableMarket
    <3>2. Blend(h, m) = MarketOnly(m) \/ \E v, S : Blend(h, m) = Signal(v, S)
      BY <1>5, <2>4 DEF Blend
    <3> QED
      BY <1>3, <1>4, <2>4, <3>1, <3>2
  <2> QED
    BY <2>2, <2>3, <2>4
<1>6. CASE ~(Size(h) < MinSample \/ Value(h) = None)
  <2>1. UsableHistory(h)
    BY <1>2, <1>6 DEF UsableHistory
  <2>2. \E v, S : Blend(h, m) = Signal(v, S)
    BY <1>6 DEF Blend
  <2> QED
    BY <1>3, <2>1, <2>2
<1> QED
  BY <1>5, <1>6

\* A blended value lies between the values of the two bands, and is that of the
\* one band when the other has none (suggestions_blend.py:165-215).
THEOREM BlendedInBetween ==
  ASSUME NEW h \in Band(Histories), NEW m \in Band(Markets), Blend(h, m).signal
  PROVE  \E v, w \in {Value(h), Value(m)} \ {None} :
           /\ v \in Int /\ w \in Int /\ Blend(h, m).value \in Int
           /\ 100 * v <= Blend(h, m).value /\ Blend(h, m).value <= 100 * w
<1>1. /\ Value(h) \in Int \cup {None} /\ Value(m) \in Int \cup {None} /\ None \notin Int
      /\ Size(h) \in Nat /\ Confidence(m) \in Nat
  BY BandTypes, BandFacts, SuggestionsAssumption
<1>2. NoSignal.signal = FALSE
  BY DEF NoSignal
<1>3. \A v, S : Signal(v, S).value = v
  BY DEF Signal
<1>4. \/ Value(h) # None /\ Value(m) # None /\ Blend(h, m).value = 70 * Value(h) + 30 * Value(m)
      \/ Value(h) # None /\ Value(m) # None /\ Blend(h, m).value = 50 * Value(h) + 50 * Value(m)
      \/ Value(m) # None /\ Blend(h, m).value = 100 * Value(m)
      \/ Value(h) # None /\ Blend(h, m).value = 100 * Value(h)
  BY <1>2, <1>3 DEF Blend, MarketOnly, Strong, Moderate
<1>5. CASE Value(m) # None /\ Blend(h, m).value = 100 * Value(m)
  BY <1>1, <1>5
<1>6. CASE Value(h) # None /\ Blend(h, m).value = 100 * Value(h)
  BY <1>1, <1>6
<1>7. CASE /\ Value(h) # None /\ Value(m) # None
           /\ \/ Blend(h, m).value = 70 * Value(h) + 30 * Value(m)
              \/ Blend(h, m).value = 50 * Value(h) + 50 * Value(m)
  <2>1. Value(h) \in Int /\ Value(m) \in Int
    BY <1>1, <1>7
  <2>2. CASE Value(h) <= Value(m)
    BY <1>1, <1>7, <2>1, <2>2
  <2>3. CASE Value(m) <= Value(h)
    BY <1>1, <1>7, <2>1, <2>3
  <2> QED
    BY <2>1, <2>2, <2>3
<1> QED
  BY <1>4, <1>5, <1>6, <1>7

-----------------------------------------------------------------------------
\* The inductive invariant.

LEMMA FieldFinite ==
  /\ IsFiniteSet(Field)
  /\ \A S \in SUBSET Field : IsFiniteSet(S) /\ Cardinality(S) \in Nat
<1>1. Fields \in Surjection(DOMAIN Fields, Field)
  BY SuggestionsAssumption DEF Surjection, Field
<1>2. IsFiniteSet(DOMAIN Fields)
  <2>1. DOMAIN Fields = 1..Len(Fields) /\ Len(Fields) \in Nat
    BY SuggestionsAssumption
  <2> QED
    BY <2>1, FS_Interval
<1>3. IsFiniteSet(Field)
  BY <1>1, <1>2, FS_Surjection
<1> QED
  BY <1>3, FS_Subset, FS_CardinalityType

LEMMA Charges ==
  /\ Charging \in SUBSET Field /\ IsFiniteSet(Charging) /\ Cardinality(Charging) \in Nat
  /\ Cardinality(MarketFields) \in Nat /\ Cardinality(Charging) <= Cardinality(MarketFields)
<1>1. MarketFields \in SUBSET Field
  BY SuggestionsAssumption DEF MarketFields
<1>2. Charging \in SUBSET MarketFields
  BY DEF Charging
<1> QED
  BY <1>1, <1>2, FieldFinite, FS_Subset

LEMMA PrimedCharges == Cardinality(Charging') \in Nat
<1>1. Charging' \in SUBSET Field
  BY SuggestionsAssumption DEF Charging, MarketFields
<1> QED
  BY <1>1, FieldFinite

LEMMA EventType ==
  \A kind \in {"entered", "ready", "no_signal", "proposed"} :
    \A f \in Field \cup {None} : \A S \in Sources :
      Event(kind, f, S) \in [kind : {"entered", "ready", "no_signal", "proposed"},
                             field : Field \cup {None}, sources : Sources]
BY DEF Event

LEMMA InitIInv == Init => IInv
<1> SUFFICES ASSUME Init PROVE IInv
  OBVIOUS
<1>1. step \in Seq(Field)
  <2>1. CASE step = Fields
    BY <2>1, SuggestionsAssumption DEF Field
  <2>2. ASSUME NEW f \in Field, step = <<f>> PROVE step \in Seq(Field)
    BY <2>2
  <2> QED
    BY <2>1, <2>2 DEF Init
<1>2. TypeOK
  <2>1. /\ entered \in BOOLEAN
        /\ filled \subseteq Field /\ allowed \in BOOLEAN /\ configured \in BOOLEAN
    BY SuggestionsAssumption DEF Init
  <2>2. at \in {"enter", "request"}
    BY DEF Init
  <2>3. /\ asking = {} /\ history \in [Field -> Band(Histories)] /\ market \in [Field -> Band(Markets)]
        /\ todo \subseteq Field /\ calls \in Nat
        /\ proposal \in [Field -> {"draft", "historical", "default", None}]
    BY DEF Init, Band
  <2>4. blended \in Events /\ events \in Events
    BY DEF Init, Events
  <2> QED
    BY <1>1, <2>1, <2>2, <2>3, <2>4 DEF TypeOK
<1>3. Budgeted
  <2>1. Charging = {} /\ calls = 0
    BY DEF Init, Charging
  <2> QED
    BY <2>1, SuggestionsAssumption DEF Budgeted
<1>4. Settled /\ NoSignalIffBothWeak
  BY DEF Init, Settled, NoSignalIffBothWeak
<1> QED
  BY <1>2, <1>3, <1>4 DEF IInv, Init

\* Steps that leave the bands, the budget and the blended events alone.
LEMMA QuietIInv ==
  ASSUME IInv, TypeOK', UNCHANGED <<bands, calls, blended>>,
         at' \in {"enter", "request", "fetch"} => at \in {"enter", "request"} /\ at' # "enter"
  PROVE  IInv'
<1> USE DEF IInv, bands
<1>1. Charging' = Charging
  BY DEF Charging
<1>2. Budgeted'
  BY <1>1 DEF Budgeted
<1>3. Settled' /\ NoSignalIffBothWeak'
  BY DEF Settled, NoSignalIffBothWeak
<1> QED
  BY <1>2, <1>3

LEMMA EnterIInv ==
  ASSUME IInv, EnterStep \/ NotAllowed \/ EndBlend \/ EndSuggestions \/ EndFetch
  PROVE  IInv'
<1> USE DEF given, bands
<1>1. TypeOK'
  <2>1. CASE EnterStep
    <3>1. Event("entered", None, {}) \in [kind : {"entered", "ready", "no_signal", "proposed"},
                                         field : Field \cup {None}, sources : Sources]
      BY EventType DEF Sources
    <3>2. events' \in Events
      BY <2>1, <3>1 DEF EnterStep, Events, IInv, TypeOK
    <3> QED
      BY <2>1, <3>2 DEF EnterStep, IInv, TypeOK
  <2>2. CASE NotAllowed
    BY <2>2 DEF NotAllowed, IInv, TypeOK
  <2>3. CASE EndBlend
    <3>1. events' \in Events
      BY <2>3 DEF EndBlend, Events, IInv, TypeOK
    <3> QED
      BY <2>3, <3>1 DEF EndBlend, IInv, TypeOK
  <2>4. CASE EndSuggestions
    BY <2>4, SuggestionsAssumption DEF EndSuggestions, IInv, TypeOK
  <2>5. CASE EndFetch
    BY <2>5 DEF EndFetch, Fetched, InStep, IInv, TypeOK
  <2> QED
    BY <2>1, <2>2, <2>3, <2>4, <2>5
<1> QED
  BY <1>1, QuietIInv DEF EnterStep, NotAllowed, EndBlend, EndSuggestions, EndFetch

LEMMA FanOutIInv == ASSUME IInv, FanOut PROVE IInv'
<1> USE DEF given
<1>1. /\ at = "request" /\ at' = "fetch" /\ blended = <<>> /\ blended' = <<>>
      /\ asking = {} /\ calls' = 0
  BY DEF FanOut, IInv, TypeOK, Settled
<1>2. TypeOK'
  BY SuggestionsAssumption DEF FanOut, InStep, IInv, TypeOK
<1>3. \A f \in Field : <<"market", f>> \in asking' => f \in MarketFields
  BY SuggestionsAssumption DEF FanOut, InStep, MarketFields
<1>4. Charging' \in SUBSET MarketFields /\ MarketFields \in SUBSET Field
  BY SuggestionsAssumption DEF Charging, MarketFields
<1>5. Cardinality(Charging') \in Nat /\ Cardinality(Charging') <= Cardinality(MarketFields)
  BY <1>4, FieldFinite, FS_Subset
<1>6. Budgeted'
  BY <1>1, <1>5 DEF Budgeted
<1> QED
  BY <1>1, <1>2, <1>3, <1>6 DEF IInv, Settled, NoSignalIffBothWeak

\* An answer to what was asked: the charges under way are one fewer.
LEMMA AnswerIInv ==
  ASSUME IInv, AnswerHistory \/ AnswerMarket \/ MissMarket
  PROVE  IInv'
<1> USE DEF given
<1>1. PICK f \in Field, kind \in {"historical", "market"} :
        /\ at = "fetch" /\ at' = "fetch" /\ blended' = blended
        /\ <<kind, f>> \in asking /\ asking' = asking \ {<<kind, f>>}
        /\ history' = history \/ \E h \in Histories \cup {None} : history' = [history EXCEPT ![f] = h]
        /\ market' = market \/ \E m \in Markets \cup {None} : market' = [market EXCEPT ![f] = m]
        /\ calls' = calls \/ (kind = "market" /\ calls' = calls + 1)
        /\ UNCHANGED <<step, entered, filled, allowed, configured, todo, proposal, events>>
  BY DEF AnswerHistory, AnswerMarket, MissMarket
<1>2. TypeOK'
  <2>1. history' \in [Field -> Band(Histories)] /\ market' \in [Field -> Band(Markets)]
    <3>1. history \in [Field -> Band(Histories)] /\ market \in [Field -> Band(Markets)]
      BY DEF IInv, TypeOK
    <3>2. /\ Histories \cup {None} \subseteq Band(Histories)
          /\ Markets \cup {None} \subseteq Band(Markets)
      BY DEF Band
    <3>3. history' = history \/ \E h \in Band(Histories) : history' = [history EXCEPT ![f] = h]
      BY <1>1, <3>2
    <3>4. market' = market \/ \E m \in Band(Markets) : market' = [market EXCEPT ![f] = m]
      BY <1>1, <3>2
    <3>5. history' \in [Field -> Band(Histories)]
      BY <3>1, <3>3
    <3>6. market' \in [Field -> Band(Markets)]
      BY <3>1, <3>4
    <3> QED
      BY <3>5, <3>6
  <2>2. calls' \in Nat /\ asking' \subseteq {"historical", "market"} \X Field
    BY <1>1 DEF IInv, TypeOK
  <2> QED
    BY <1>1, <2>1, <2>2 DEF IInv, TypeOK
<1>3. \A g \in Field : <<"market", g>> \in asking' => g \in MarketFields
  BY <1>1 DEF IInv
<1>4. Settled' /\ NoSignalIffBothWeak'
  <2>1. blended' = <<>>
    BY <1>1 DEF IInv, Settled
  <2> QED
    BY <1>1, <2>1 DEF Settled, NoSignalIffBothWeak
<1>5. Budgeted'
  <2>1. /\ calls \in Nat /\ MaxCalls \in Nat /\ IsFiniteSet(Charging)
        /\ Cardinality(Charging) \in Nat /\ Cardinality(MarketFields) \in Nat
    BY Charges, SuggestionsAssumption DEF IInv, TypeOK
  <2>2. CASE kind = "historical"
    <3>1. Charging' = Charging
      BY <1>1, <2>2 DEF Charging
    <3> QED
      BY <1>1, <2>2, <3>1 DEF IInv, Budgeted
  <2>3. CASE kind = "market"
    <3>1. f \in Charging /\ Charging' = Charging \ {f}
      BY <1>1, <2>3 DEF Charging, IInv
    <3>2. Cardinality(Charging') = Cardinality(Charging) - 1
      BY <2>1, <3>1, FS_RemoveElement
    <3>3. calls + Cardinality(Charging) <= Cardinality(MarketFields)
      BY <3>1 DEF IInv, Budgeted
    <3> QED
      BY <1>1, <2>1, <3>2, <3>3 DEF Budgeted
  <2> QED
    BY <2>2, <2>3
<1> QED
  BY <1>2, <1>3, <1>4, <1>5 DEF IInv

\* A call that was allowed by can_spend, with nothing asked for any more.
LEMMA SpentInBudget ==
  ASSUME IInv, at # "fetch", UNCHANGED <<asking, at>> \/ (asking' = asking /\ at' = "raised"),
         calls' = calls \/ (CanSpend /\ calls' = calls + 1)
  PROVE  Budgeted' /\ calls' \in Nat
<1>1. asking = {} /\ asking' = {} /\ calls \in Nat /\ MaxCalls \in Nat
  BY SuggestionsAssumption DEF IInv, TypeOK
<1>2. Charging = {} /\ Charging' = {}
  BY <1>1 DEF Charging
<1>3. Cardinality({}) = 0
  BY FS_EmptySet
<1> QED
  BY <1>1, <1>2, <1>3 DEF IInv, Budgeted, CanSpend

LEMMA SignalSources ==
  /\ \A v, S : Signal(v, S).sources = S /\ Signal(v, S).signal = TRUE
  /\ NoSignal.sources = {}
  /\ \A h, m : Blend(h, m).sources \in Sources
<1>1. \A v, S : Signal(v, S).sources = S /\ Signal(v, S).signal = TRUE
  BY DEF Signal
<1>2. NoSignal.sources = {}
  BY DEF NoSignal
<1>3. ASSUME NEW h, NEW m PROVE Blend(h, m).sources \in Sources
  <2>1. \/ Blend(h, m) = NoSignal
        \/ \E v : \E S \in {{"historical", "market"}, {"market"}, {"historical"}} :
             Blend(h, m) = Signal(v, S)
    BY DEF Blend, MarketOnly
  <2> QED
    BY <1>1, <1>2, <2>1 DEF Sources
<1> QED
  BY <1>1, <1>2, <1>3

\* One more blended event, of a field whose bands are settled.
LEMMA BlendedOne ==
  ASSUME IInv, NEW f \in Field, at = "blend", UNCHANGED <<given, at, bands, proposal, events>>,
         calls' = calls \/ (CanSpend /\ calls' = calls + 1),
         NEW ready \in {"ready", "no_signal"}, NEW S \in Sources,
         blended' = Append(blended, Event(ready, f, S)), todo' = todo \ {f},
         (f \in Market /\ "flash" \notin S) =>
           ((ready = "ready") <=> (UsableHistory(history[f]) \/ UsableMarket(market[f])))
  PROVE  IInv'
<1> USE DEF given, bands
<1>0. calls' \in Nat /\ Budgeted'
  BY SpentInBudget
<1>1. Event(ready, f, S) \in [kind : {"entered", "ready", "no_signal", "proposed"},
                             field : Field \cup {None}, sources : Sources]
  BY EventType
<1>2. blended \in Events /\ blended' \in Events
  BY <1>1 DEF IInv, TypeOK, Events
<1>3. TypeOK'
  BY <1>0, <1>2 DEF IInv, TypeOK
<1>4. NoSignalIffBothWeak'
  <2>1. /\ Event(ready, f, S).kind = ready /\ Event(ready, f, S).field = f
        /\ Event(ready, f, S).sources = S
    BY DEF Event
  <2>2. SUFFICES ASSUME NEW i \in DOMAIN blended', blended'[i].field \in Market,
                        "flash" \notin blended'[i].sources
                 PROVE  (blended'[i].kind = "ready") <=>
                          (UsableHistory(history[blended'[i].field])
                             \/ UsableMarket(market[blended'[i].field]))
    BY DEF NoSignalIffBothWeak
  <2>3. CASE i \in DOMAIN blended
    <3>1. blended'[i] = blended[i]
      BY <1>2, <2>3 DEF Events
    <3> QED
      BY <2>2, <2>3, <3>1 DEF IInv, NoSignalIffBothWeak
  <2>4. CASE i \notin DOMAIN blended
    <3>1. blended'[i] = Event(ready, f, S)
      BY <1>2, <2>2, <2>4 DEF Events
    <3> QED
      BY <2>1, <2>2, <3>1
  <2> QED
    BY <2>3, <2>4
<1>5. Settled'
  BY DEF Settled
<1> QED
  BY <1>0, <1>3, <1>4, <1>5 DEF IInv

LEMMA BlendFieldIInv ==
  ASSUME IInv, NEW f \in Field, BlendField(f)
  PROVE  IInv'
<1>1. CASE PassHistory(f)
  <2> DEFINE result == IF history[f] = None THEN NoSignal ELSE Signal(Value(history[f]), {"historical"})
             ready == IF result.signal THEN "ready" ELSE "no_signal"
  <2>1. /\ at = "blend" /\ f \notin Market /\ UNCHANGED <<given, at, bands, calls, proposal, events>>
        /\ blended' = Append(blended, Event(ready, f, result.sources)) /\ todo' = todo \ {f}
    BY <1>1 DEF PassHistory, Blended
  <2>2. result.sources \in Sources
    BY SignalSources DEF Sources
  <2>3. ready \in {"ready", "no_signal"}
    OBVIOUS
  <2> HIDE DEF result, ready
  <2> QED
    BY <2>1, <2>2, <2>3, BlendedOne
<1>2. CASE Reconcile(f)
  <2>1. /\ at = "blend" /\ f \in Market /\ CanSpend /\ calls' = calls + 1
        /\ UNCHANGED <<given, bands, proposal, events>>
    BY <1>2 DEF Reconcile, MayReconcile
  <2>2. CASE at' = "raised" /\ UNCHANGED <<blended, todo>>
    <3>1. Budgeted' /\ calls' \in Nat
      BY <2>1, <2>2, SpentInBudget DEF bands
    <3>2. TypeOK' /\ Settled' /\ NoSignalIffBothWeak'
      BY <2>1, <2>2, <3>1 DEF IInv, TypeOK, Settled, NoSignalIffBothWeak, bands, given
    <3> QED
      BY <2>1, <3>1, <3>2 DEF IInv, bands
  <2>3. CASE Blended(f, Signal(None, {"historical", "market", "flash"})) /\ UNCHANGED at
    <3> DEFINE S == {"historical", "market", "flash"}
    <3>1. blended' = Append(blended, Event("ready", f, S)) /\ todo' = todo \ {f}
      BY <2>3, SignalSources DEF Blended
    <3>2. S \in Sources /\ "flash" \in S
      BY DEF Sources
    <3> HIDE DEF S
    <3> QED
      BY <2>1, <2>3, <3>1, <3>2, BlendedOne
  <2> QED
    BY <1>2, <2>2, <2>3 DEF Reconcile
<1>3. CASE BlendBands(f)
  <2> DEFINE result == Blend(history[f], market[f])
             ready == IF result.signal THEN "ready" ELSE "no_signal"
  <2>1. /\ at = "blend" /\ f \in Market /\ UNCHANGED <<given, at, bands, proposal, events>>
        /\ calls' = calls \/ (CanSpend /\ calls' = calls + 1)
        /\ blended' = Append(blended, Event(ready, f, result.sources)) /\ todo' = todo \ {f}
    BY <1>3 DEF BlendBands, Blended, MayReconcile
  <2>2. result.sources \in Sources
    BY SignalSources
  <2>3. history[f] \in Band(Histories) /\ market[f] \in Band(Markets)
    BY DEF IInv, TypeOK
  <2>4. result.signal <=> (UsableHistory(history[f]) \/ UsableMarket(market[f]))
    BY <2>3, LadderIsComplete
  <2>5. /\ ready \in {"ready", "no_signal"}
        /\ (ready = "ready") <=> (UsableHistory(history[f]) \/ UsableMarket(market[f]))
    BY <2>4
  <2> HIDE DEF result, ready
  <2> QED
    BY <2>1, <2>2, <2>5, BlendedOne
<1> QED
  BY <1>1, <1>2, <1>3 DEF BlendField

\* The proposal: it spends, but asks the budget.
LEMMA ProposeIInv ==
  ASSUME IInv, EndProposal \/ \E f \in Field : ProposeField(f)
  PROVE  IInv'
<1> USE DEF given, bands
<1>1. /\ at = "propose" /\ at' \in {"propose", "done"}
      /\ UNCHANGED <<given, bands, blended>>
      /\ calls' = calls \/ (CanSpend /\ calls' = calls + 1)
  BY DEF EndProposal, ProposeField, ProposeDraft, ProposeHistory, ProposeDefault, MayLookUp
<1>2. calls \in Nat /\ calls' \in Nat /\ asking = {} /\ Budgeted'
  <2>1. asking = {} /\ asking' = {} /\ calls \in Nat /\ MaxCalls \in Nat
    BY <1>1, SuggestionsAssumption DEF IInv, TypeOK
  <2>2. Charging = {} /\ Charging' = {} /\ Cardinality({}) = 0
    BY <2>1, FS_EmptySet DEF Charging
  <2> QED
    BY <1>1, <2>1, <2>2 DEF IInv, Budgeted, CanSpend
<1>3. proposal' \in [Field -> {"draft", "historical", "default", None}] /\ todo' \subseteq Field
  BY DEF EndProposal, ProposeField, ProposeDraft, ProposeHistory, ProposeDefault, Propose, Default,
     IInv, TypeOK
<1>4. events' \in Events
  <2>1. CASE UNCHANGED events
    BY <2>1 DEF IInv, TypeOK, Events
  <2>2. ASSUME EndProposal, ~UNCHANGED events PROVE events' \in Events
    <3> DEFINE S == {proposal[f] : f \in Field} \ {None}
    <3>1. S \in Sources
      BY DEF IInv, TypeOK, Sources
    <3>2. events' = Append(events, Event("proposed", None, S))
      BY <2>2 DEF EndProposal
    <3>3. Event("proposed", None, S) \in [kind : {"entered", "ready", "no_signal", "proposed"},
                                         field : Field \cup {None}, sources : Sources]
      BY <3>1, EventType
    <3> HIDE DEF S
    <3> QED
      BY <3>2, <3>3 DEF IInv, TypeOK, Events
  <2> QED
    BY <2>1, <2>2 DEF ProposeField, ProposeDraft, ProposeHistory, ProposeDefault
<1>5. TypeOK'
  BY <1>1, <1>2, <1>3, <1>4 DEF IInv, TypeOK
<1>6. Settled' /\ NoSignalIffBothWeak'
  BY <1>1 DEF IInv, Settled, NoSignalIffBothWeak
<1> QED
  BY <1>1, <1>2, <1>5, <1>6 DEF IInv

LEMMA NextIInv == IInv /\ [Next]_vars => IInv'
<1> SUFFICES ASSUME IInv, [Next]_vars PROVE IInv'
  OBVIOUS
<1>1. CASE UNCHANGED vars
  BY <1>1 DEF vars, given, bands, IInv, TypeOK, Budgeted, Charging, Settled, NoSignalIffBothWeak
<1> QED
  BY <1>1, EnterIInv, FanOutIInv, AnswerIInv, BlendFieldIInv, ProposeIInv DEF Next, FetchBands

-----------------------------------------------------------------------------
\* What the state of a step entry or a request is made of, for any fields and bands
\* (suggestions.py:436-628).
THEOREM TypeCorrect == Spec => []TypeOK
<1>1. IInv => TypeOK
  BY DEF IInv
<1> QED
  BY <1>1, InitIInv, NextIInv, PTL DEF Spec

\* no_signal is said of a field exactly when both of its bands are below their
\* floor, whatever the floors (suggestions.py:451-453).
THEOREM NoSignalMeansWeak == Spec => []NoSignalIffBothWeak
<1>1. IInv => NoSignalIffBothWeak
  BY DEF IInv
<1> QED
  BY <1>1, InitIInv, NextIInv, PTL DEF Spec

\* A call that goes over the cap is one of the fan-out's, and is no more than the
\* number of its fields: no reconciliation and no look-up goes over it, whatever the
\* fan-out has spent or missed (suggestions_blend.py:427, step_proposals.py:343).
THEOREM FanOutOverspends == Spec => OnlyFanOutOverspends
<1> DEFINE Over == calls' > calls /\ calls' > MaxCalls
           OfFanOut == at = "fetch" /\ calls' <= Cardinality(MarketFields)
<1>1. ASSUME IInv, IInv', [Next]_vars PROVE [Over => OfFanOut]_vars
  <2> USE DEF given, bands
  <2> SUFFICES ASSUME Next, Over PROVE OfFanOut
    BY <1>1
  <2>1. calls \in Nat /\ MaxCalls \in Nat
    BY <1>1, SuggestionsAssumption DEF IInv, TypeOK
  <2>2. ~CanSpend \/ calls' # calls + 1
    BY <2>1 DEF CanSpend
  <2>3. calls' # calls
    BY <2>1
  <2>4. ASSUME NEW f \in Field, BlendField(f) \/ ProposeField(f) PROVE FALSE
    BY <2>2, <2>3, <2>4 DEF BlendField, PassHistory, Reconcile, BlendBands, MayReconcile,
       ProposeField, ProposeDraft, ProposeHistory, ProposeDefault, MayLookUp
  <2>5. AnswerMarket
    BY <2>3, <2>4 DEF Next, EnterStep, EndBlend, EndSuggestions, EndProposal, FetchBands,
       FanOut, NotAllowed, AnswerHistory, MissMarket, EndFetch
  <2>6. calls' <= Cardinality(MarketFields)
    <3>1. /\ calls' \in Nat /\ Cardinality(MarketFields) \in Nat
          /\ Cardinality(Charging') \in Nat
      BY <1>1, <2>1, <2>5, Charges, PrimedCharges DEF AnswerMarket
    <3>2. calls' + Cardinality(Charging') <= Cardinality(MarketFields)
      BY <1>1, <2>1, <3>1 DEF IInv, Budgeted
    <3> QED
      BY <3>1, <3>2
  <2> QED
    BY <2>5, <2>6 DEF AnswerMarket
<1> QED
  BY <1>1, InitIInv, NextIInv, PTL DEF Spec, OnlyFanOutOverspends

\* What suggestions_budget.py:8-11 says of the cap is so where a step has no more
\* proactive market fields than the cap has calls.
THEOREM CapIsKept ==
  ASSUME Cardinality(MarketFields) <= MaxCalls
  PROVE  Spec => []CapKept
<1>1. IInv => CapKept
  <2> SUFFICES ASSUME IInv PROVE CapKept
    OBVIOUS
  <2>1. /\ calls \in Nat /\ Cardinality(Charging) \in Nat /\ Cardinality(MarketFields) \in Nat
        /\ MaxCalls \in Nat
    BY Charges, SuggestionsAssumption DEF IInv, TypeOK
  <2> QED
    BY <2>1 DEF IInv, Budgeted, CapKept
<1> QED
  BY <1>1, InitIInv, NextIInv, PTL DEF Spec

-----------------------------------------------------------------------------
\* The order of the events.

Told == [kind : {"entered", "ready", "no_signal", "proposed"}, field : Field \cup {None},
         sources : Sources]

LEMMA InitOrdered == Init => Ordered
<1> SUFFICES ASSUME Init PROVE Ordered
  OBVIOUS
<1>1. \A i, j \in DOMAIN step : step[i] = step[j] => i = j
  <2>1. CASE step = Fields
    BY <2>1, SuggestionsAssumption
  <2>2. ASSUME NEW f \in Field, step = <<f>>
        PROVE  \A i, j \in DOMAIN step : step[i] = step[j] => i = j
    BY <2>2
  <2> QED
    BY <2>1, <2>2 DEF Init
<1>2. at = "enter" => entered /\ events = <<>>
  BY DEF Init
<1>3. at \in {"request", "fetch", "blend"} => events = Entry
  BY DEF Init, Entry
<1> QED
  BY <1>1, <1>2, <1>3 DEF Init, Ordered, OneEventPerField, Entry

LEMMA SameOrder ==
  ASSUME UNCHANGED step
  PROVE  /\ Due' = Due /\ \A f, g : Before(f, g)' <=> Before(f, g)
         /\ \A i, j \in DOMAIN step' : step'[i] = step'[j] <=> step[i] = step[j]
BY DEF Due, InStep, Before

\* Before anything is blended, and once the events are appended.
LEMMA QuietOrdered ==
  ASSUME Ordered, UNCHANGED <<step, entered>>,
         \/ at' = "enter" /\ at = "enter" /\ events' = events
         \/ at' \in {"request", "fetch"} /\ events' = Entry
         \/ at' \in {"skipped", "propose", "done"}
  PROVE  Ordered'
<1>1. Entry' = Entry
  BY DEF Entry
<1> QED
  BY <1>1 DEF Ordered, OneEventPerField

LEMMA EnterOrdered ==
  ASSUME Ordered, EnterStep \/ FanOut \/ NotAllowed \/ AnswerHistory \/ AnswerMarket
                  \/ MissMarket \/ EndSuggestions \/ EndProposal
  PROVE  Ordered'
<1> USE DEF given
<1>1. CASE EnterStep
  <2>1. entered /\ events = <<>> /\ at' = "request" /\ UNCHANGED <<step, entered>>
    BY <1>1 DEF EnterStep, Ordered
  <2>2. events' = Entry
    BY <1>1, <2>1 DEF EnterStep, Entry
  <2> QED
    BY <2>1, <2>2, QuietOrdered
<1>2. CASE FanOut \/ NotAllowed
  BY <1>2, QuietOrdered DEF FanOut, NotAllowed, Ordered
<1>3. CASE AnswerHistory \/ AnswerMarket \/ MissMarket
  BY <1>3, QuietOrdered DEF AnswerHistory, AnswerMarket, MissMarket, Ordered
<1>4. CASE EndSuggestions \/ EndProposal
  BY <1>4, QuietOrdered DEF EndSuggestions, EndProposal
<1> QED
  BY <1>1, <1>2, <1>3, <1>4

\* Nothing is blended yet, and all that is due is to be.
LEMMA EndFetchOrdered ==
  ASSUME IInv, Ordered, EndFetch
  PROVE  Ordered'
<1>1. /\ at = "fetch" /\ at' = "blend" /\ UNCHANGED <<step, entered, events>>
      /\ todo' = {f \in InStep(Field) : Eligible(f)} /\ blended' = <<>>
  BY DEF EndFetch, given, IInv, Settled
<1>2. todo' = Due
  BY <1>1, SuggestionsAssumption DEF Due, InStep, Eligible
<1>3. Due' = Due /\ Entry' = Entry
  BY <1>1, SameOrder DEF Entry
<1>4. InStepOrder(blended')
  BY <1>1 DEF InStepOrder
<1>5. {blended'[i].field : i \in DOMAIN blended'} = {}
  BY <1>1
<1> QED
  BY <1>1, <1>2, <1>3, <1>4, <1>5, SameOrder DEF Ordered, OneEventPerField, InStepOrder

\* The first field of those to be blended comes before the others.
LEMMA FirstComesBefore ==
  ASSUME Ordered, IInv, NEW f \in Field, First(f)
  PROVE  f \in todo /\ \A g \in todo \ {f} : (\E j \in DOMAIN step : step[j] = g) => Before(f, g)
<1>1. PICK i \in DOMAIN step : /\ step[i] = f /\ f \in todo
                               /\ \A j \in DOMAIN step : j < i => step[j] \notin todo
  BY DEF First
<1>2. DOMAIN step = 1..Len(step) /\ Len(step) \in Nat
  BY DEF IInv, TypeOK
<1> SUFFICES ASSUME NEW g \in todo \ {f}, NEW j \in DOMAIN step, step[j] = g PROVE Before(f, g)
  BY <1>1
<1>3. ~(j < i) /\ j # i
  BY <1>1
<1>4. i < j
  BY <1>2, <1>3
<1> QED
  BY <1>1, <1>4 DEF Before

LEMMA BlendOrdered ==
  ASSUME IInv, Ordered, NEW f \in Field, BlendField(f)
  PROVE  Ordered'
<1> USE DEF given
<1>1. /\ at = "blend" /\ First(f) /\ UNCHANGED <<step, entered, events>>
      /\ \/ at' = "raised"
         \/ /\ at' = "blend" /\ todo' = todo \ {f}
            /\ \E kind \in {"ready", "no_signal"} : \E S \in Sources :
                 blended' = Append(blended, Event(kind, f, S))
  <2>1. CASE PassHistory(f)
    <3>1. (IF history[f] = None THEN NoSignal ELSE Signal(Value(history[f]), {"historical"})).sources
            \in Sources
      BY SignalSources DEF Sources
    <3> QED
      BY <2>1, <3>1 DEF PassHistory, Blended
  <2>2. CASE Reconcile(f)
    <3>1. Signal(None, {"historical", "market", "flash"}).sources \in Sources
      BY SignalSources DEF Sources
    <3> QED
      BY <2>2, <3>1 DEF Reconcile, Blended
  <2>3. CASE BlendBands(f)
    <3>1. Blend(history[f], market[f]).sources \in Sources
      BY SignalSources
    <3> QED
      BY <2>3, <3>1 DEF BlendBands, Blended
  <2> QED
    BY <2>1, <2>2, <2>3 DEF BlendField
<1>2. CASE at' = "raised"
  <2>1. events = Entry /\ todo \subseteq Due
    BY <1>1 DEF Ordered
  <2>2. events' = Entry /\ entered' = entered
    BY <1>1, <2>1
  <2>3. /\ entered => Head(events').kind = "entered" /\ Tail(events') = <<>>
        /\ ~entered => events' = <<>>
    BY <2>2 DEF Entry, Event
  <2>4. /\ f \in Market /\ configured /\ NeedsReconcile(history[f], market[f])
        /\ UNCHANGED <<configured, history, market>>
    BY <1>2, <1>1 DEF BlendField, PassHistory, Reconcile, BlendBands, MayReconcile, bands
  <2>5. f \in Due
    BY <1>1, <2>1, FirstComesBefore
  <2>6. Due' = Due
    BY <1>1, SameOrder
  <2>7. f \in Contested'
    <3>1. NeedsReconcile(history'[f], market'[f])
      BY <2>4
    <3> QED
      BY <2>4, <2>5, <2>6, <3>1 DEF Contested
  <2>8. OneEventPerField'
    BY <1>2, <2>2, <2>3, <2>7 DEF OneEventPerField
  <2>9. \A i, j \in DOMAIN step' : step'[i] = step'[j] => i = j
    BY <1>1 DEF Ordered
  <2> QED
    BY <1>2, <2>8, <2>9 DEF Ordered
<1>3. CASE at' = "blend"
  <2>1. PICK kind \in {"ready", "no_signal"}, S \in Sources :
          blended' = Append(blended, Event(kind, f, S))
    BY <1>1, <1>3
  <2>2. /\ DOMAIN blended' = DOMAIN blended \cup {Len(blended) + 1} /\ Len(blended) \in Nat
        /\ DOMAIN blended = 1..Len(blended)
        /\ \A i \in DOMAIN blended : blended'[i] = blended[i]
        /\ blended'[Len(blended) + 1].field = f
    BY <2>1 DEF IInv, TypeOK, Events, Event
  <2>3. todo' = todo \ {f} /\ f \in todo
    BY <1>1, <1>3, FirstComesBefore
  <2>4. /\ todo \subseteq Due /\ {blended[i].field : i \in DOMAIN blended} = Due \ todo
        /\ InStepOrder(blended) /\ events = Entry
        /\ \A i \in DOMAIN blended : \A g \in todo : Before(blended[i].field, g)
    BY <1>1 DEF Ordered
  <2>5. {blended'[i].field : i \in DOMAIN blended'} = Due \ todo'
    <3>1. {blended'[i].field : i \in DOMAIN blended'}
            = {blended[i].field : i \in DOMAIN blended} \cup {f}
      BY <2>2
    <3> QED
      BY <2>3, <2>4, <3>1
  <2>6. \A i \in DOMAIN blended' : \A g \in todo' : Before(blended'[i].field, g)
    <3>1. \A g \in todo' : Before(f, g)
      BY <1>1, <2>3, <2>4, FirstComesBefore DEF Due, InStep
    <3> QED
      BY <2>2, <2>3, <2>4, <3>1
  <2>7. \A i, j \in DOMAIN blended' : i < j => Before(blended'[i].field, blended'[j].field)
    <3> SUFFICES ASSUME NEW i \in DOMAIN blended', NEW j \in DOMAIN blended', i < j
                 PROVE  Before(blended'[i].field, blended'[j].field)
      OBVIOUS
    <3>1. i \in DOMAIN blended
      BY <2>2
    <3>2. CASE j \in DOMAIN blended
      BY <2>2, <2>4, <3>1, <3>2 DEF InStepOrder
    <3>3. CASE j = Len(blended) + 1
      BY <2>2, <2>3, <2>4, <3>1, <3>3
    <3> QED
      BY <2>2, <3>2, <3>3
  <2>8. Due' = Due /\ Entry' = Entry /\ \A g, h : Before(g, h)' <=> Before(g, h)
    BY <1>1, SameOrder DEF Entry
  <2>9. InStepOrder(blended)'
    BY <2>7, <2>8 DEF InStepOrder
  <2> QED
    BY <1>1, <1>3, <2>3, <2>4, <2>5, <2>6, <2>8, <2>9 DEF Ordered, OneEventPerField
<1> QED
  BY <1>1, <1>2, <1>3

LEMMA EntryFirst ==
  ASSUME NEW e \in Told, NEW b \in Seq(Told)
  PROVE  Head(<<e>> \o b) = e /\ Tail(<<e>> \o b) = b
<1> DEFINE s == <<e>> \o b
<1>1. <<e>> \in Seq(Told) /\ Len(<<e>>) = 1 /\ Len(b) \in Nat /\ <<e>>[1] = e
  OBVIOUS
<1>2. /\ s \in Seq(Told) /\ Len(s) = 1 + Len(b)
      /\ \A i \in 1..(1 + Len(b)) : s[i] = IF i <= 1 THEN <<e>>[i] ELSE b[i - 1]
  BY <1>1, ConcatProperties
<1> HIDE DEF s
<1>3. s # <<>> /\ s[1] = e /\ \A i \in 1..Len(b) : s[i + 1] = b[i]
  BY <1>1, <1>2
<1>4. Head(s) = e
  BY <1>2, <1>3
<1>5. Tail(s) \in Seq(Told) /\ Len(Tail(s)) = Len(b) /\ \A i \in 1..Len(b) : Tail(s)[i] = b[i]
  BY <1>1, <1>2, <1>3, HeadTailProperties
<1>6. Tail(s) = b
  BY <1>5, SeqEqual
<1> QED
  BY <1>4, <1>6 DEF s

LEMMA EndBlendOrdered ==
  ASSUME IInv, Ordered, EndBlend
  PROVE  Ordered'
<1>1. /\ at = "blend" /\ todo = {} /\ at' = "suggested" /\ UNCHANGED <<step, entered, blended>>
      /\ events' = events \o blended /\ events = Entry
  BY DEF EndBlend, given, Ordered
<1>2. {blended[i].field : i \in DOMAIN blended} = Due /\ InStepOrder(blended)
  BY <1>1 DEF Ordered
<1>3. blended \in Seq(Told) /\ Event("entered", None, {}) \in Told
  BY EventType DEF IInv, TypeOK, Events, Told, Sources
<1>4. /\ entered => Head(events').kind = "entered" /\ Tail(events') = blended
      /\ ~entered => events' = blended
  <2>1. CASE entered
    <3>1. events' = <<Event("entered", None, {})>> \o blended
      BY <1>1, <2>1 DEF Entry
    <3>2. Event("entered", None, {}).kind = "entered"
      BY DEF Event
    <3> QED
      BY <1>3, <2>1, <3>1, <3>2, EntryFirst
  <2>2. CASE ~entered
    BY <1>1, <1>3, <2>2 DEF Entry
  <2> QED
    BY <2>1, <2>2
<1>5. Due' = Due /\ InStepOrder(blended)'
  BY <1>1, <1>2, SameOrder DEF InStepOrder
<1>6. OneEventPerField'
  BY <1>1, <1>2, <1>4, <1>5 DEF OneEventPerField, InStepOrder
<1> QED
  BY <1>1, <1>6 DEF Ordered

LEMMA NextOrdered == IInv /\ Ordered /\ [Next]_vars => Ordered'
<1> SUFFICES ASSUME IInv, Ordered, [Next]_vars PROVE Ordered'
  OBVIOUS
<1>1. CASE UNCHANGED vars
  <2>1. UNCHANGED <<step, entered, at, todo, blended, events>>
    BY <1>1 DEF vars, given
  <2>2. Due' = Due /\ Entry' = Entry /\ \A f, g : Before(f, g)' <=> Before(f, g)
    BY <2>1, SameOrder DEF Entry
  <2>3. InStepOrder(blended)' = InStepOrder(blended)
    BY <2>1, <2>2 DEF InStepOrder
  <2>4. OneEventPerField'
    <3>1. UNCHANGED <<configured, history, market>>
      BY <1>1 DEF vars, given, bands
    <3>2. Contested' = Contested
      BY <2>2, <3>1 DEF Contested
    <3>3. OneEventPerField
      BY DEF Ordered
    <3> QED
      BY <2>1, <2>2, <3>2, <3>3 DEF OneEventPerField, InStepOrder
  <2> QED
    BY <2>1, <2>2, <2>3, <2>4 DEF Ordered
<1>2. CASE EnterStep \/ FetchBands \/ EndSuggestions \/ EndProposal
  BY <1>2, EnterOrdered, EndFetchOrdered DEF FetchBands
<1>3. CASE EndBlend
  BY <1>3, EndBlendOrdered
<1>4. ASSUME NEW f \in Field, BlendField(f) PROVE Ordered'
  BY <1>4, BlendOrdered
<1>5. ASSUME NEW f \in Field, ProposeField(f) PROVE Ordered'
  <2>1. at' = "propose" /\ UNCHANGED <<step, entered>>
    BY <1>5 DEF ProposeField, ProposeDraft, ProposeHistory, ProposeDefault, given
  <2> QED
    BY <2>1, QuietOrdered
<1> QED
  BY <1>1, <1>2, <1>3, <1>4, <1>5 DEF Next

\* For any step and any bands: a fan-out that comes to its end has told of each
\* proactive field with a source once and in the step's order, however its bands
\* failed; one that raises has told of none, and has a field whose bands disagree
\* (workflow_advance.py:522-525, suggestions.py:135-137, suggestions_blend.py:346).
THEOREM EachFieldIsToldOnce == Spec => []OneEventPerField
<1>1. Ordered => OneEventPerField
  BY DEF Ordered
<1> QED
  BY <1>1, InitIInv, NextIInv, InitOrdered, NextOrdered, PTL DEF Spec

=============================================================================
