------------------------ MODULE Questionnaire_proofs ------------------------
(***************************************************************************)
(* Proofs about Questionnaire, for any phases of a conversation and any     *)
(* number of requests: the cursor is that of a question and has been moved  *)
(* by no more than the answers accepted, as long as each answer is for the  *)
(* question at the cursor none is left behind, and the recap is shown only  *)
(* after as many answers as there are questions.                            *)
(***************************************************************************)
EXTENDS Questionnaire, FiniteSetTheorems, TLAPS

-----------------------------------------------------------------------------
\* Cursors.

LEMMA LastPhase == Len(Phases) \in Nat /\ DOMAIN Phases = 1..Len(Phases)
BY QuestionnaireAssumption

LEMMA PhaseType ==
  ASSUME NEW p \in DOMAIN Phases
  PROVE  /\ Phases[p] \in Seq(Fields)
         /\ Len(Phases[p]) \in Nat \ {0}
         /\ DOMAIN Phases[p] = 1..Len(Phases[p])
<1>1. Phases[p] \in Seq(Fields) /\ Phases[p] # <<>>
  BY QuestionnaireAssumption
<1> QED
  BY <1>1

\* The slots, without the union of sets they are defined as.
LEMMA SlotType ==
  /\ \A s \in Slots : /\ s = <<s[1], s[2]>>
                      /\ s[1] \in DOMAIN Phases /\ s[2] \in DOMAIN Phases[s[1]]
                      /\ s[1] \in Nat /\ s[2] \in Nat
                      /\ FieldAt(s) \in Fields
  /\ \A p \in DOMAIN Phases : \A i \in DOMAIN Phases[p] : <<p, i>> \in Slots
<1>1. ASSUME NEW s \in Slots
      PROVE  /\ s = <<s[1], s[2]>>
             /\ s[1] \in DOMAIN Phases /\ s[2] \in DOMAIN Phases[s[1]]
             /\ s[1] \in Nat /\ s[2] \in Nat
             /\ FieldAt(s) \in Fields
  <2>1. PICK p \in DOMAIN Phases : \E i \in DOMAIN Phases[p] : s = <<p, i>>
    BY <1>1 DEF Slots
  <2>2. PICK i \in DOMAIN Phases[p] : s = <<p, i>>
    BY <2>1
  <2>3. p \in Nat /\ i \in Nat
    BY <2>1, <2>2, LastPhase, PhaseType
  <2>4. Phases[p][i] \in Fields
    BY <2>1, <2>2, PhaseType
  <2> QED
    BY <2>1, <2>2, <2>3, <2>4 DEF FieldAt
<1>2. ASSUME NEW p \in DOMAIN Phases, NEW i \in DOMAIN Phases[p] PROVE <<p, i>> \in Slots
  BY <1>2 DEF Slots
<1> QED
  BY <1>1, <1>2

LEMMA SlotsFinite == IsFiniteSet(Slots) /\ Cardinality(Slots) \in Nat
<1> DEFINE InPhase(p) == {<<p, i>> : i \in DOMAIN Phases[p]}
           Parts == {InPhase(p) : p \in DOMAIN Phases}
<1>1. ASSUME NEW p \in DOMAIN Phases PROVE IsFiniteSet(InPhase(p))
  <2> DEFINE at == [i \in DOMAIN Phases[p] |-> <<p, i>>]
  <2>1. at \in Surjection(DOMAIN Phases[p], InPhase(p))
    BY DEF Surjection
  <2>2. IsFiniteSet(DOMAIN Phases[p])
    BY <1>1, PhaseType, FS_Interval
  <2> QED
    BY <2>1, <2>2, FS_Surjection
<1>2. IsFiniteSet(Parts)
  <2> DEFINE part == [p \in DOMAIN Phases |-> InPhase(p)]
  <2>1. part \in Surjection(DOMAIN Phases, Parts)
    BY DEF Surjection
  <2>2. IsFiniteSet(DOMAIN Phases)
    BY LastPhase, FS_Interval
  <2> QED
    BY <2>1, <2>2, FS_Surjection
<1>3. Slots = UNION Parts
  BY DEF Slots
<1>4. \A T \in Parts : IsFiniteSet(T)
  BY <1>1
<1>5. IsFiniteSet(Slots)
  <2> HIDE DEF Parts
  <2> QED
    BY <1>2, <1>3, <1>4, FS_UNION
<1> QED
  BY <1>5, FS_CardinalityType

LEMMA CursorType ==
  ASSUME NEW c \in Cursor
  PROVE  /\ c = <<c[1], c[2]>> /\ c[1] \in Nat /\ c[2] \in Nat
         /\ c \in Slots <=> c[1] <= Len(Phases)
         /\ c \notin Slots => c = <<Len(Phases) + 1, 1>>
<1>1. CASE c \in Slots
  BY <1>1, SlotType, LastPhase
<1>2. CASE c = <<Len(Phases) + 1, 1>>
  <2>1. c[1] = Len(Phases) + 1 /\ c[2] = 1
    BY <1>2
  <2>2. c \notin Slots
    BY <2>1, SlotType, LastPhase
  <2> QED
    BY <1>2, <2>1, <2>2, LastPhase
<1> QED
  BY <1>1, <1>2 DEF Cursor

LEMMA FirstCursorType == FirstCursor \in Cursor /\ Before(FirstCursor) = {}
<1>1. FirstCursor \in Cursor
  <2>1. CASE Len(Phases) = 0
    BY <2>1 DEF Cursor, FirstCursor
  <2>2. CASE Len(Phases) # 0
    <3>1. 1 \in DOMAIN Phases
      BY <2>2, LastPhase
    <3>2. 1 \in DOMAIN Phases[1]
      BY <3>1, PhaseType
    <3> QED
      BY <3>1, <3>2, SlotType DEF Cursor, FirstCursor
  <2> QED
    BY <2>1, <2>2
<1>2. ASSUME NEW s \in Before(FirstCursor) PROVE FALSE
  <2>1. s \in Slots /\ (s[1] < 1 \/ (s[1] = 1 /\ s[2] < 1))
    BY <1>2 DEF Before, FirstCursor
  <2>2. s[1] \in 1..Len(Phases) /\ s[2] \in DOMAIN Phases[s[1]]
    BY <2>1, SlotType, LastPhase
  <2>3. s[2] \in 1..Len(Phases[s[1]]) /\ Len(Phases[s[1]]) \in Nat
    BY <2>2, LastPhase, PhaseType
  <2> QED
    BY <2>1, <2>2, <2>3, LastPhase
<1> QED
  BY <1>1, <1>2

\* Moving on from a question passes that question, and no other.
LEMMA AdvanceCursorType ==
  ASSUME NEW c \in Cursor
  PROVE  /\ AdvanceCursor(c) \in Cursor
         /\ \A s \in Before(AdvanceCursor(c)) : s \in Before(c) \/ (c \in Slots /\ s = c)
<1>0. c = <<c[1], c[2]>> /\ c[1] \in Nat /\ c[2] \in Nat
  BY CursorType
<1>1. CASE c \notin Slots
  <2>1. AdvanceCursor(c) = c
    BY <1>1, CursorType, LastPhase DEF AdvanceCursor
  <2> QED
    BY <2>1
<1>2. CASE c \in Slots /\ c[2] + 1 <= Len(Phases[c[1]])
  <2>1. c[1] \in DOMAIN Phases /\ c[1] <= Len(Phases)
    BY <1>2, SlotType, LastPhase
  <2>2. AdvanceCursor(c) = <<c[1], c[2] + 1>>
    BY <1>0, <1>2, <2>1, LastPhase DEF AdvanceCursor
  <2>3. c[2] + 1 \in DOMAIN Phases[c[1]]
    BY <1>0, <1>2, <2>1, PhaseType
  <2>4. AdvanceCursor(c) \in Cursor
    BY <2>1, <2>2, <2>3, SlotType DEF Cursor
  <2>5. ASSUME NEW s \in Before(AdvanceCursor(c)) PROVE s \in Before(c) \/ s = c
    <3>1. s \in Slots /\ s = <<s[1], s[2]>> /\ s[1] \in Nat /\ s[2] \in Nat
      BY <2>5, SlotType DEF Before
    <3>2. s[1] < c[1] \/ (s[1] = c[1] /\ s[2] < c[2] + 1)
      BY <2>2, <2>5 DEF Before
    <3> QED
      BY <1>0, <3>1, <3>2 DEF Before
  <2> QED
    BY <1>2, <2>4, <2>5
<1>3. CASE c \in Slots /\ ~(c[2] + 1 <= Len(Phases[c[1]]))
  <2>1. c[1] \in DOMAIN Phases /\ c[1] <= Len(Phases)
    BY <1>3, SlotType, LastPhase
  <2>2. AdvanceCursor(c) = <<c[1] + 1, 1>>
    BY <1>0, <1>3, <2>1, LastPhase DEF AdvanceCursor
  <2>3. AdvanceCursor(c) \in Cursor
    <3>1. CASE c[1] = Len(Phases)
      BY <2>2, <3>1 DEF Cursor
    <3>2. CASE c[1] # Len(Phases)
      <4>1. c[1] + 1 \in DOMAIN Phases
        BY <1>0, <2>1, <3>2, LastPhase
      <4>2. 1 \in DOMAIN Phases[c[1] + 1]
        BY <4>1, PhaseType
      <4> QED
        BY <2>2, <4>1, <4>2, SlotType DEF Cursor
    <3> QED
      BY <3>1, <3>2
  <2>4. ASSUME NEW s \in Before(AdvanceCursor(c)) PROVE s \in Before(c) \/ s = c
    <3>1. s \in Slots /\ s = <<s[1], s[2]>> /\ s[1] \in Nat /\ s[2] \in DOMAIN Phases[s[1]]
      BY <2>4, SlotType DEF Before
    <3>2. s[1] \in DOMAIN Phases /\ s[2] \in 1..Len(Phases[s[1]])
      BY <3>1, SlotType, PhaseType
    <3>3. s[1] < c[1] + 1 \/ (s[1] = c[1] + 1 /\ s[2] < 1)
      BY <2>2, <2>4 DEF Before
    <3>4. Len(Phases[c[1]]) \in Nat
      BY <2>1, PhaseType
    <3> QED
      BY <1>0, <1>3, <3>1, <3>2, <3>3, <3>4 DEF Before
  <2> QED
    BY <1>3, <2>3, <2>4
<1> QED
  BY <1>1, <1>2, <1>3

LEMMA PositionType ==
  ASSUME NEW c \in Cursor
  PROVE  /\ IsFiniteSet(Before(c)) /\ Position(c) \in Nat
         /\ Position(c) <= Cardinality(Slots)
<1>1. Before(c) \in SUBSET Slots
  BY DEF Before
<1> QED
  BY <1>1, SlotsFinite, FS_Subset, FS_CardinalityType DEF Position

LEMMA PositionFirst == Position(FirstCursor) = 0
BY FirstCursorType, FS_EmptySet DEF Position

LEMMA PositionLast ==
  ASSUME NEW c \in Cursor, c \notin Slots
  PROVE  Position(c) = Cardinality(Slots)
<1>1. c[1] = Len(Phases) + 1
  BY CursorType
<1>2. \A s \in Slots : s[1] < c[1]
  BY <1>1, SlotType, LastPhase
<1>3. Before(c) = Slots
  BY <1>2 DEF Before
<1> QED
  BY <1>3 DEF Position

LEMMA PositionAdvance ==
  ASSUME NEW c \in Cursor
  PROVE  Position(AdvanceCursor(c)) <= Position(c) + 1
<1> DEFINE S == Before(c) \cup {c}
<1>0. IsFiniteSet(Before(c)) /\ Cardinality(Before(c)) \in Nat
  BY PositionType DEF Position
<1>1. IsFiniteSet(S) /\ Cardinality(S) <= Cardinality(Before(c)) + 1
  <2>1. /\ IsFiniteSet(S)
        /\ Cardinality(S) = IF c \in Before(c) THEN Cardinality(Before(c))
                                               ELSE Cardinality(Before(c)) + 1
    BY <1>0, FS_AddElement
  <2> QED
    BY <1>0, <2>1
<1>2. Before(AdvanceCursor(c)) \in SUBSET S
  BY AdvanceCursorType
<1>3. Cardinality(Before(AdvanceCursor(c))) <= Cardinality(S)
  BY <1>1, <1>2, FS_Subset
<1>4. Cardinality(Before(AdvanceCursor(c))) \in Nat /\ Cardinality(S) \in Nat
  BY <1>1, AdvanceCursorType, PositionType, FS_CardinalityType DEF Position
<1> QED
  BY <1>0, <1>1, <1>3, <1>4 DEF Position

-----------------------------------------------------------------------------
\* Payloads.

LEMMA EmptyPayloadType ==
  EmptyPayload \in Payload /\ Complete(EmptyPayload) /\ Position(EmptyPayload.cursor) = 0
BY FirstCursorType, PositionFirst DEF EmptyPayload, Payload, Complete

\* An answer to the question at the cursor keeps what is before it complete.
LEMMA CompleteAnswered ==
  ASSUME NEW p \in Payload, NEW f \in Fields, f = NextStep(p.cursor), Complete(p)
  PROVE  Complete([answers |-> p.answers \cup {f}, cursor |-> AdvanceCursor(p.cursor)])
<1>1. p.cursor \in Cursor
  BY DEF Payload
<1>2. ASSUME NEW s \in Before(AdvanceCursor(p.cursor))
      PROVE  FieldAt(s) \in p.answers \cup {f}
  <2>1. CASE s \in Before(p.cursor)
    BY <2>1 DEF Complete
  <2>2. CASE p.cursor \in Slots /\ s = p.cursor
    BY <2>2 DEF NextStep
  <2> QED
    BY <1>1, <2>1, <2>2, AdvanceCursorType
<1> QED
  BY <1>2 DEF Complete

LEMMA CompleteMore ==
  ASSUME NEW p \in Payload, NEW F \in SUBSET Fields, Complete(p)
  PROVE  Complete([p EXCEPT !.answers = @ \cup F])
<1>1. /\ [p EXCEPT !.answers = @ \cup F].cursor = p.cursor
      /\ [p EXCEPT !.answers = @ \cup F].answers = p.answers \cup F
  BY DEF Payload
<1> QED
  BY <1>1 DEF Complete

LEMMA MoreType ==
  ASSUME NEW p \in Payload, NEW F \in SUBSET Fields
  PROVE  /\ [p EXCEPT !.answers = @ \cup F] \in Payload
         /\ [p EXCEPT !.answers = @ \cup F].cursor = p.cursor
BY DEF Payload

LEMMA NextStepType ==
  ASSUME NEW c \in Cursor
  PROVE  /\ NextStep(c) \in Fields \cup {"recap"} /\ NextStep(c) # None
         /\ NextStep(c) = "recap" => c \notin Slots
BY SlotType, QuestionnaireAssumption DEF NextStep

-----------------------------------------------------------------------------
\* The inductive invariant.

LEMMA InitIInv == Init => IInv
<1> SUFFICES ASSUME Init PROVE IInv
  OBVIOUS
<1>1. Cardinality(Slots) \in Nat /\ EmptyPayload \in Payload
  BY SlotsFinite, EmptyPayloadType
<1>2. TypeOK
  BY <1>1, QuestionnaireAssumption DEF Init, TypeOK, Idle, Request
<1>3. \A r \in Requests : InPlace(r)
  BY QuestionnaireAssumption DEF Init, InPlace, Idle, Writing, Answering
<1>4. RecapIsEarned
  BY QuestionnaireAssumption DEF Init, RecapIsEarned
<1> QED
  BY <1>2, <1>3, <1>4 DEF IInv, Init, CursorCounted, PromptedSkipsNothing

LEMMA OthersType ==
  ASSUME TypeOK, Other \/ UNCHANGED others
  PROVE  others' \in 0..MaxOthers
BY QuestionnaireAssumption DEF TypeOK, Other

\* A request that begins, with what it has computed from the draft.
LEMMA BeginIInv ==
  ASSUME IInv, others' \in 0..MaxOthers,
         NEW r \in Requests,
         NEW at \in {"insert", "update", "save", "delete", "post", "commit"},
         NEW mine \in Payload, NEW ask \in Fields \cup {None, "recap"},
         NEW asPrompted \in BOOLEAN,
         Begin(r, at, mine, ask, asPrompted),
         (at = "update" /\ ask # None) => Position(mine.cursor) <= accepted + 1,
         ask = "recap" => mine.cursor \notin Slots /\ at \in {"insert", "update", "commit"},
         (at \in {"insert", "save", "commit"} \/ (at = "update" /\ ask = None)) =>
           Position(mine.cursor) <= accepted,
         (prompted /\ asPrompted /\ at \in {"insert", "update", "save", "commit"}) =>
           Complete(mine)
  PROVE  IInv'
<1> USE DEF IInv
<1>1. accepted \in Nat
  BY SlotsFinite DEF TypeOK
<1>2. /\ req' = [req EXCEPT ![r] = [at |-> at, loaded |-> draft, mine |-> mine, ask |-> ask]]
      /\ prompted' = (prompted /\ asPrompted)
      /\ UNCHANGED <<draft, lock, shown, accepted, quotes>>
  BY DEF Begin
<1>3. TypeOK'
  BY <1>2 DEF TypeOK, Request
<1>4. CursorCounted' /\ PromptedSkipsNothing' /\ RecapIsEarned'
  BY <1>2 DEF CursorCounted, PromptedSkipsNothing, RecapIsEarned, TypeOK
<1>5. ASSUME NEW q \in Requests PROVE InPlace(q)'
  <2>1. CASE q = r
    <3>1. req'[q] = [at |-> at, loaded |-> draft, mine |-> mine, ask |-> ask]
      BY <1>2, <2>1 DEF TypeOK
    <3>2. req'[q].at = at /\ req'[q].mine = mine /\ req'[q].ask = ask
      BY <3>1
    <3>3. Answering(q)' => at = "update" /\ ask # None
      BY <3>2 DEF Answering
    <3>4. Writing(q)' => at \in {"insert", "update", "save", "commit"}
      BY <3>2 DEF Writing
    <3>5. (Writing(q)' /\ ~Answering(q)') =>
            at \in {"insert", "save", "commit"} \/ (at = "update" /\ ask = None)
      BY <3>2 DEF Answering, Writing
    <3>6. at # "answered" /\ (ask = "recap" => Writing(q)' /\ mine.cursor \notin Slots)
      BY <3>2 DEF Writing
    <3>7. Position(mine.cursor) \in Nat
      BY PositionType DEF Payload
    <3>8. CASE Answering(q)'
      BY <1>1, <1>2, <3>2, <3>3, <3>4, <3>6, <3>8 DEF InPlace
    <3>9. CASE ~Answering(q)'
      <4>1. Writing(q)' => Position(mine.cursor) <= accepted
        BY <3>5, <3>9
      <4>2. (Writing(q)' /\ prompted') => Complete(mine)
        BY <1>2, <3>4
      <4>3. Writing(q)' => Position(mine.cursor) <= accepted' + 0
        BY <1>1, <1>2, <3>7, <4>1
      <4> QED
        BY <3>2, <3>6, <3>9, <4>2, <4>3 DEF InPlace
    <3> QED
      BY <3>8, <3>9
  <2>2. CASE q # r
    <3>1. req'[q] = req[q]
      BY <1>2, <2>2 DEF TypeOK
    <3> QED
      BY <1>2, <1>5, <3>1 DEF InPlace, Answering, Writing, TypeOK
  <2> QED
    BY <2>1, <2>2
<1> QED
  BY <1>3, <1>4, <1>5

LEMMA DraftInPlace ==
  ASSUME IInv, draft # None
  PROVE  /\ draft \in Row /\ draft.payload \in Payload /\ draft.payload.cursor \in Cursor
         /\ accepted \in Nat
         /\ Position(draft.payload.cursor) <= accepted
         /\ prompted => Complete(draft.payload)
<1>1. draft \in Row /\ draft.payload \in Payload /\ draft.payload.cursor \in Cursor
  BY DEF IInv, TypeOK, Row, Payload
<1>2. accepted \in Nat
  BY SlotsFinite DEF IInv, TypeOK
<1> QED
  BY <1>1, <1>2 DEF IInv, CursorCounted, PromptedSkipsNothing

LEMMA ArriveIInv ==
  ASSUME IInv, NEW r \in Requests, Arrive(r)
  PROVE  IInv'
<1>0. TypeOK /\ prompted \in BOOLEAN /\ accepted \in Nat
  BY SlotsFinite DEF IInv, TypeOK
<1>1. CASE StartConversation(r)
  <2>0. others' \in 0..MaxOthers
    BY <1>0, <1>1, OthersType DEF StartConversation
  <2>1. CASE draft = None
    <3>1. Begin(r, "insert", EmptyPayload, NextStep(FirstCursor), TRUE)
      BY <1>1, <2>1 DEF StartConversation
    <3>2. /\ NextStep(FirstCursor) \in Fields \cup {None, "recap"}
          /\ NextStep(FirstCursor) = "recap" => EmptyPayload.cursor \notin Slots
      BY FirstCursorType, NextStepType DEF EmptyPayload
    <3>3. EmptyPayload \in Payload /\ Complete(EmptyPayload)
          /\ Position(EmptyPayload.cursor) <= accepted
      BY <1>0, EmptyPayloadType
    <3> HIDE DEF EmptyPayload, NextStep
    <3> QED
      BY <2>0, <3>1, <3>2, <3>3, BeginIInv
  <2>2. CASE draft # None
    <3>1. Begin(r, "commit", draft.payload, NextStep(draft.payload.cursor), TRUE)
      BY <1>1, <2>2 DEF StartConversation
    <3>2. /\ NextStep(draft.payload.cursor) \in Fields \cup {None, "recap"}
          /\ NextStep(draft.payload.cursor) = "recap" => draft.payload.cursor \notin Slots
      BY <2>2, DraftInPlace, NextStepType
    <3> QED
      BY <2>0, <2>2, <3>1, <3>2, DraftInPlace, BeginIInv
  <2> QED
    BY <2>1, <2>2
<1>2. ASSUME NEW f \in Fields, SubmitFieldAnswer(r, f) PROVE IInv'
  <2> DEFINE mine == [answers |-> draft.payload.answers \cup {f},
                      cursor |-> AdvanceCursor(draft.payload.cursor)]
             ask == NextStep(mine.cursor)
             asPrompted == (f = NextStep(draft.payload.cursor))
  <2>0. draft # None /\ others' \in 0..MaxOthers
    BY <1>0, <1>2, OthersType DEF SubmitFieldAnswer
  <2>1. Begin(r, "update", mine, ask, asPrompted)
    BY <1>2 DEF SubmitFieldAnswer
  <2>2. mine \in Payload /\ mine.cursor \in Cursor /\ asPrompted \in BOOLEAN
    BY <2>0, DraftInPlace, AdvanceCursorType DEF Payload
  <2>3. ask \in Fields \cup {None, "recap"} /\ ask # None
    BY <2>2, NextStepType
  <2>4. Position(mine.cursor) <= accepted + 1
    <3>1. Position(mine.cursor) <= Position(draft.payload.cursor) + 1
      BY <2>0, DraftInPlace, PositionAdvance
    <3>2. Position(mine.cursor) \in Nat /\ Position(draft.payload.cursor) \in Nat
      BY <2>0, <2>2, DraftInPlace, PositionType
    <3> QED
      BY <1>0, <2>0, <3>1, <3>2, DraftInPlace
  <2>5. (prompted /\ asPrompted) => Complete(mine)
    BY <2>0, DraftInPlace, CompleteAnswered
  <2>6. ask = "recap" => mine.cursor \notin Slots
    BY <2>2, NextStepType
  <2> HIDE DEF mine, ask, asPrompted
  <2> QED
    BY <2>0, <2>1, <2>2, <2>3, <2>4, <2>5, <2>6, BeginIInv
<1>3. ASSUME NEW f \in Fields, ReAskField(r, f) PROVE IInv'
  <2>1. /\ draft # None /\ others' \in 0..MaxOthers /\ f # "recap"
        /\ Begin(r, "commit", draft.payload, f, TRUE)
    BY <1>0, <1>3, OthersType, QuestionnaireAssumption DEF ReAskField
  <2> QED
    BY <2>1, DraftInPlace, BeginIInv, QuestionnaireAssumption
<1>4. ASSUME NEW s \in {StepOf[f] : f \in Fields}, NEW F \in SUBSET Fields, AcceptProposal(r, s, F)
      PROVE  IInv'
  <2> DEFINE mine == [draft.payload EXCEPT !.answers = @ \cup F]
  <2>1. /\ draft # None /\ others' \in 0..MaxOthers
        /\ Begin(r, "update", mine, None, TRUE)
    BY <1>0, <1>4, OthersType DEF AcceptProposal, Merged
  <2>2. mine \in Payload /\ mine.cursor = draft.payload.cursor
    BY <2>1, DraftInPlace, MoreType
  <2>3. prompted => Complete(mine)
    BY <2>1, DraftInPlace, CompleteMore
  <2>4. Position(mine.cursor) <= accepted
    BY <2>1, <2>2, DraftInPlace
  <2> HIDE DEF mine
  <2> QED
    BY <2>1, <2>2, <2>3, <2>4, BeginIInv, QuestionnaireAssumption
<1>5. CASE CommitConversation(r)
  <2>1. /\ draft # None /\ others' \in 0..MaxOthers
        /\ Begin(r, "post", draft.payload, None, TRUE)
    BY <1>0, <1>5, OthersType DEF CommitConversation
  <2> QED
    BY <2>1, DraftInPlace, BeginIInv, QuestionnaireAssumption
<1>6. CASE SaveDraft(r)
  <2>0. others' \in 0..MaxOthers
    BY <1>0, <1>6, OthersType DEF SaveDraft
  <2>1. ASSUME NEW p \in [answers : SUBSET Fields, cursor : {FirstCursor}],
               Begin(r, "save", p, None, TRUE)
        PROVE  IInv'
    <3>1. p \in Payload /\ p.cursor = FirstCursor
      BY <2>1, FirstCursorType DEF Payload
    <3>2. Complete(p) /\ Position(p.cursor) <= accepted
      BY <1>0, <3>1, FirstCursorType, PositionFirst DEF Complete
    <3> QED
      BY <2>0, <2>1, <3>1, <3>2, BeginIInv, QuestionnaireAssumption
  <2>2. ASSUME draft # None, NEW f \in Fields,
               Begin(r, "save", [draft.payload EXCEPT !.answers = @ \cup {f}], None, TRUE)
        PROVE  IInv'
    <3> DEFINE p == [draft.payload EXCEPT !.answers = @ \cup {f}]
    <3>1. p \in Payload /\ p.cursor = draft.payload.cursor
      BY <2>2, DraftInPlace, MoreType
    <3>2. prompted => Complete(p)
      BY <2>2, DraftInPlace, CompleteMore
    <3>3. Position(p.cursor) <= accepted /\ Begin(r, "save", p, None, TRUE)
      BY <2>2, <3>1, DraftInPlace
    <3> HIDE DEF p
    <3> QED
      BY <2>0, <3>1, <3>2, <3>3, BeginIInv, QuestionnaireAssumption
  <2> QED
    BY <1>6, <2>1, <2>2 DEF SaveDraft
<1>7. CASE DeleteDraft(r)
  <2>1. /\ draft # None /\ others' \in 0..MaxOthers
        /\ Begin(r, "delete", draft.payload, None, TRUE)
    BY <1>0, <1>7, OthersType DEF DeleteDraft
  <2> QED
    BY <2>1, DraftInPlace, BeginIInv, QuestionnaireAssumption
<1> QED
  BY <1>1, <1>2, <1>3, <1>4, <1>5, <1>6, <1>7 DEF Arrive

\* What a step of the others leaves in place.
LEMMA Undisturbed ==
  ASSUME IInv, TypeOK', NEW q \in Requests, req'[q] = req[q],
         accepted <= accepted', prompted' = prompted,
         lock = q => lock' = q /\ (draft # None => draft' # None)
  PROVE  InPlace(q)'
<1>1. InPlace(q) /\ accepted \in Nat /\ accepted' \in Nat /\ req[q].mine.cursor \in Cursor
  BY SlotsFinite DEF IInv, TypeOK, Request, Payload
<1>2. Position(req[q].mine.cursor) \in Nat
  BY <1>1, PositionType
<1> QED
  BY <1>1, <1>2 DEF InPlace, Answering, Writing

LEMMA RequestInPlace ==
  ASSUME IInv, NEW r \in Requests
  PROVE  /\ req[r] \in Request /\ req[r].mine \in Payload /\ req[r].mine.cursor \in Cursor
         /\ Position(req[r].mine.cursor) \in Nat
         /\ Position(req[r].mine.cursor) <= Cardinality(Slots)
         /\ accepted \in Nat /\ Cardinality(Slots) \in Nat
         /\ InPlace(r)
         /\ r # None
<1>1. req[r] \in Request /\ req[r].mine \in Payload /\ req[r].mine.cursor \in Cursor
  BY DEF IInv, TypeOK, Request, Payload
<1> QED
  BY <1>1, PositionType, SlotsFinite, QuestionnaireAssumption DEF IInv, TypeOK

\* A request that will show the recap has passed all the questions.
LEMMA RecapIsLast ==
  ASSUME IInv, NEW r \in Requests, req[r].ask = "recap"
  PROVE  Writing(r) /\ Position(req[r].mine.cursor) = Cardinality(Slots)
BY RequestInPlace, PositionLast DEF InPlace

\* A request that is over: only the row it leaves has to be looked at.
LEMMA OverIInv ==
  ASSUME IInv, NEW r \in Requests,
         req' = [req EXCEPT ![r] = Idle],
         draft' \in Row \cup {None}, lock' \in Requests \cup {None},
         shown' \in Fields \cup {None, "recap"},
         accepted' \in 0..Cardinality(Slots), accepted <= accepted',
         quotes' \in [created : Nat, reported : Nat], others' \in 0..MaxOthers,
         UNCHANGED prompted,
         CursorCounted', PromptedSkipsNothing', RecapIsEarned',
         \A q \in Requests \ {r} : lock = q => lock' = q /\ (draft # None => draft' # None)
  PROVE  IInv'
<1>1. Idle \in Request
  BY EmptyPayloadType DEF Idle, Request
<1>2. TypeOK'
  BY <1>1 DEF IInv, TypeOK
<1>3. ASSUME NEW q \in Requests PROVE InPlace(q)'
  <2>1. CASE q = r
    <3>1. req'[q].at = "idle"
      BY <2>1 DEF IInv, TypeOK, Idle
    <3>2. req'[q].ask # "recap"
      BY <2>1, QuestionnaireAssumption DEF IInv, TypeOK, Idle
    <3> QED
      BY <3>1, <3>2 DEF InPlace, Answering, Writing
  <2>2. CASE q # r
    <3>1. req'[q] = req[q]
      BY <2>2 DEF IInv, TypeOK
    <3> QED
      BY <1>2, <2>2, <3>1, Undisturbed
  <2> QED
    BY <2>1, <2>2
<1> QED
  BY <1>2, <1>3 DEF IInv

\* The row that a payload's commit leaves.
LEMMA WrittenType ==
  ASSUME IInv, NEW r \in Requests, NEW e \in BOOLEAN, draft # None, Written(r, e)
  PROVE  /\ draft' \in Row /\ draft' # None
         /\ \/ draft'.payload = req[r].mine
            \/ draft'.payload = draft.payload /\ draft' = [draft EXCEPT !.expired = e]
<1>1. draft \in Row /\ req[r].mine \in Payload
  BY DraftInPlace, RequestInPlace
<1>2. draft' \in Row
  BY <1>1 DEF Written, Row
<1>3. draft' # None
  BY <1>2, NoRowAssumption
<1> QED
  BY <1>1, <1>2, <1>3 DEF Written, Row

LEMMA FlushIInv ==
  ASSUME IInv, NEW r \in Requests, Insert(r) \/ Update(r)
  PROVE  IInv'
<1> DEFINE at == IF req[r].at = "update" /\ req[r].ask # None THEN "answered" ELSE "commit"
<1>1. /\ lock = None /\ lock' = r /\ req' = [req EXCEPT ![r].at = at]
      /\ UNCHANGED <<draft, shown, accepted, quotes, prompted, others>>
      /\ req[r].at \in {"insert", "update"}
      /\ req[r].at = "update" => draft # None
  BY DEF Insert, Update
<1>2. /\ req[r] \in Request /\ InPlace(r) /\ r # None /\ accepted \in Nat
      /\ Position(req[r].mine.cursor) \in Nat
  BY RequestInPlace
<1>3. req'[r] = [req[r] EXCEPT !.at = at] /\ at \in {"answered", "commit"}
  BY <1>1 DEF IInv, TypeOK
<1>4. req'[r] \in Request
  BY <1>2, <1>3 DEF Request
<1>5. TypeOK'
  <2>1. req' = [req EXCEPT ![r] = req'[r]]
    BY <1>1 DEF IInv, TypeOK
  <2>2. req' \in [Requests -> Request]
    BY <1>4, <2>1 DEF IInv, TypeOK
  <2> QED
    BY <1>1, <2>2 DEF IInv, TypeOK
<1>6. CursorCounted' /\ PromptedSkipsNothing' /\ RecapIsEarned'
  BY <1>1 DEF IInv, CursorCounted, PromptedSkipsNothing, RecapIsEarned
<1>7. InPlace(r)'
  <2>1. /\ req'[r].at = at /\ req'[r].ask = req[r].ask /\ req'[r].mine = req[r].mine
    BY <1>2, <1>3 DEF Request
  <2>2. Writing(r) /\ Writing(r)'
    BY <1>1, <2>1 DEF Writing
  <2>3. Answering(r)' = Answering(r)
    BY <1>1, <2>1 DEF Answering
  <2>4. at = "answered" => req[r].at = "update" /\ req[r].ask # None
    OBVIOUS
  <2> HIDE DEF at
  <2> QED
    BY <1>1, <1>2, <2>1, <2>2, <2>3, <2>4 DEF InPlace
<1>8. ASSUME NEW q \in Requests, q # r PROVE InPlace(q)'
  <2>1. req'[q] = req[q] /\ q # None
    BY <1>1, <1>8, RequestInPlace DEF IInv, TypeOK
  <2>2. accepted <= accepted' /\ prompted' = prompted
    BY <1>1, <1>2
  <2> QED
    BY <1>1, <1>5, <2>1, <2>2, Undisturbed
<1> QED
  BY <1>5, <1>6, <1>7, <1>8 DEF IInv

LEMMA CommitIInv ==
  ASSUME IInv, NEW r \in Requests, Commit(r)
  PROVE  IInv'
<1>1. /\ req[r].at = "commit" /\ req' = [req EXCEPT ![r] = Idle]
      /\ shown' = IF req[r].ask = None THEN shown ELSE req[r].ask
      /\ lock' = IF lock = r THEN None ELSE lock
      /\ UNCHANGED <<accepted, quotes, prompted, others>>
  BY DEF Commit, Finish
<1>2. /\ req[r] \in Request /\ req[r].mine \in Payload /\ accepted \in Nat
      /\ Position(req[r].mine.cursor) \in Nat
      /\ Position(req[r].mine.cursor) <= accepted
      /\ prompted => Complete(req[r].mine)
  BY <1>1, RequestInPlace DEF InPlace, Writing, Answering
<1>3. /\ draft' = draft \/ (draft' \in Row /\ draft'.payload \in {req[r].mine, draft.payload})
      /\ draft' \in Row => draft' # None
      /\ lock # r => draft' = draft
      /\ (draft = None /\ draft' # None) => draft'.payload = req[r].mine
  <2>1. CASE lock # r
    <3>1. draft' = draft
      BY <2>1 DEF Commit
    <3> QED
      BY <2>1, <3>1, NoRowAssumption
  <2>2. CASE lock = r /\ draft = None
    <3>1. draft' = [payload |-> req[r].mine, expired |-> FALSE]
      BY <2>2 DEF Commit
    <3>2. draft' \in Row /\ draft'.payload = req[r].mine
      BY <1>2, <3>1 DEF Row
    <3> QED
      BY <2>2, <3>2, NoRowAssumption
  <2>3. CASE lock = r /\ draft # None
    <3>1. draft.expired \in BOOLEAN /\ Written(r, draft.expired)
      BY <2>3, DraftInPlace DEF Commit, Row
    <3> QED
      BY <2>3, <3>1, WrittenType, NoRowAssumption
  <2> QED
    BY <2>1, <2>2, <2>3
<1>4. draft' \in Row \cup {None}
  BY <1>3 DEF IInv, TypeOK
<1>5. CursorCounted' /\ PromptedSkipsNothing' /\ RecapIsEarned'
  <2>1. RecapIsEarned'
    BY <1>1, <1>2, RecapIsLast DEF IInv, TypeOK, RecapIsEarned
  <2> QED
    BY <1>1, <1>2, <1>3, <2>1 DEF IInv, CursorCounted, PromptedSkipsNothing
<1>6. ASSUME NEW q \in Requests \ {r}, lock = q
      PROVE  lock' = q /\ (draft # None => draft' # None)
  BY <1>1, <1>3, <1>6
<1>7. /\ lock' \in Requests \cup {None} /\ shown' \in Fields \cup {None, "recap"}
      /\ accepted' \in 0..Cardinality(Slots) /\ accepted <= accepted'
      /\ quotes' \in [created : Nat, reported : Nat] /\ others' \in 0..MaxOthers
  <2>1. shown' \in Fields \cup {None, "recap"}
    BY <1>1, <1>2 DEF IInv, TypeOK, Request
  <2> QED
    BY <1>1, <1>2, <2>1 DEF IInv, TypeOK
<1> QED
  BY <1>1, <1>4, <1>5, <1>6, <1>7, OverIInv

\* An answer's commit: the row it leaves.
LEMMA CommitAnswerRow ==
  ASSUME IInv, NEW r \in Requests, CommitAnswer(r)
  PROVE  /\ draft' \in Row /\ draft' # None
         /\ draft'.payload \in {req[r].mine, draft.payload}
         /\ lock = r /\ draft # None
         /\ shown' = req[r].ask
         /\ Position(req[r].mine.cursor) <= accepted + 1
         /\ prompted => Complete(req[r].mine)
<1>1. /\ req[r].at = "answered" /\ Written(r, draft.expired)
      /\ shown' = IF req[r].ask = None THEN shown ELSE req[r].ask
  BY DEF CommitAnswer, Finish
<1>2. /\ lock = r /\ draft # None /\ req[r].ask # None
      /\ Position(req[r].mine.cursor) <= accepted + 1
      /\ prompted => Complete(req[r].mine)
  BY <1>1, RequestInPlace DEF InPlace, Writing, Answering
<1>3. draft \in Row /\ draft.expired \in BOOLEAN
  BY <1>2, DraftInPlace DEF Row
<1>4. [draft EXCEPT !.expired = draft.expired] = draft
  BY <1>3 DEF Row
<1>5. /\ draft' \in Row /\ draft' # None
      /\ \/ draft'.payload = req[r].mine
         \/ draft'.payload = draft.payload /\ draft' = [draft EXCEPT !.expired = draft.expired]
  BY <1>1, <1>2, <1>3, WrittenType
<1> QED
  BY <1>1, <1>2, <1>4, <1>5

LEMMA CommitAnswerIInv ==
  ASSUME IInv, NEW r \in Requests, CommitAnswer(r)
  PROVE  IInv'
<1>1. /\ req' = [req EXCEPT ![r] = Idle] /\ lock' = None
      /\ accepted' = IF accepted < Cardinality(Slots) THEN accepted + 1 ELSE accepted
      /\ UNCHANGED <<quotes, prompted, others>>
  BY DEF CommitAnswer, Finish
<1>2. /\ accepted \in Nat /\ Cardinality(Slots) \in Nat
      /\ Position(req[r].mine.cursor) \in Nat
      /\ Position(req[r].mine.cursor) <= Cardinality(Slots)
      /\ Position(req[r].mine.cursor) <= accepted + 1
      /\ Position(draft.payload.cursor) <= accepted
      /\ draft.payload.cursor \in Cursor /\ req[r].mine.cursor \in Cursor
      /\ prompted => Complete(draft.payload)
  BY CommitAnswerRow, RequestInPlace, DraftInPlace
<1>3. accepted' \in 0..Cardinality(Slots) /\ accepted <= accepted'
  BY <1>1, <1>2 DEF IInv, TypeOK
<1>4. CursorCounted'
  <2>1. Position(draft.payload.cursor) \in Nat
    BY <1>2, PositionType
  <2>2. Position(req[r].mine.cursor) <= accepted' /\ Position(draft.payload.cursor) <= accepted'
    BY <1>1, <1>2, <2>1 DEF IInv, TypeOK
  <2> QED
    BY <2>2, CommitAnswerRow DEF CursorCounted
<1>5. PromptedSkipsNothing'
  BY <1>1, <1>2, CommitAnswerRow DEF PromptedSkipsNothing
<1>6. shown' \in Fields \cup {None, "recap"} /\ RecapIsEarned'
  <2>1. shown' \in Fields \cup {None, "recap"}
    BY CommitAnswerRow, RequestInPlace DEF Request
  <2>2. RecapIsEarned'
    BY <1>1, <1>2, CommitAnswerRow, RecapIsLast DEF IInv, TypeOK, RecapIsEarned
  <2> QED
    BY <2>1, <2>2
<1>7. \A q \in Requests \ {r} : lock # q
  BY CommitAnswerRow
<1>8. /\ draft' \in Row \cup {None} /\ lock' \in Requests \cup {None}
      /\ quotes' \in [created : Nat, reported : Nat] /\ others' \in 0..MaxOthers
  BY <1>1, CommitAnswerRow DEF IInv, TypeOK
<1> QED
  BY <1>1, <1>3, <1>4, <1>5, <1>6, <1>7, <1>8, OverIInv

LEMMA CommitSaveIInv ==
  ASSUME IInv, NEW r \in Requests, CommitSave(r)
  PROVE  IInv'
<1>1. /\ req[r].at = "save" /\ lock = None /\ req' = [req EXCEPT ![r] = Idle]
      /\ shown' = IF req[r].ask = None THEN shown ELSE req[r].ask
      /\ UNCHANGED <<lock, accepted, quotes, prompted, others>>
  BY DEF CommitSave, Finish
<1>2. /\ req[r] \in Request /\ req[r].mine \in Payload /\ accepted \in Nat
      /\ Position(req[r].mine.cursor) \in Nat
      /\ Position(req[r].mine.cursor) <= accepted
      /\ prompted => Complete(req[r].mine)
  BY <1>1, RequestInPlace DEF InPlace, Writing, Answering
<1>3. /\ draft' \in Row /\ draft' # None /\ draft'.payload \in {req[r].mine, draft.payload}
      /\ draft = None => draft'.payload = req[r].mine
  <2>1. CASE draft = None
    <3>1. draft' = [payload |-> req[r].mine, expired |-> FALSE]
      BY <2>1 DEF CommitSave
    <3>2. draft' \in Row /\ draft'.payload = req[r].mine
      BY <1>2, <3>1 DEF Row
    <3> QED
      BY <2>1, <3>2, NoRowAssumption
  <2>2. CASE draft # None
    <3>1. Written(r, FALSE)
      BY <2>2 DEF CommitSave
    <3> QED
      BY <2>2, <3>1, WrittenType
  <2> QED
    BY <2>1, <2>2
<1>4. CursorCounted' /\ PromptedSkipsNothing'
  <2>1. /\ Position(draft'.payload.cursor) <= accepted
        /\ prompted => Complete(draft'.payload)
    BY <1>2, <1>3 DEF IInv, CursorCounted, PromptedSkipsNothing
  <2>2. accepted' = accepted /\ prompted' = prompted
    BY <1>1
  <2> QED
    BY <2>1, <2>2 DEF CursorCounted, PromptedSkipsNothing
<1>5. \A q \in Requests \ {r} : lock # q
  BY <1>1, RequestInPlace
<1>6. shown' \in Fields \cup {None, "recap"} /\ RecapIsEarned'
  <2>1. shown' \in Fields \cup {None, "recap"}
    BY <1>1, <1>2 DEF IInv, TypeOK, Request
  <2>2. RecapIsEarned'
    BY <1>1, <1>2, RecapIsLast DEF IInv, TypeOK, RecapIsEarned
  <2> QED
    BY <2>1, <2>2
<1>7. /\ draft' \in Row \cup {None} /\ lock' \in Requests \cup {None}
      /\ accepted' \in 0..Cardinality(Slots) /\ accepted <= accepted'
      /\ quotes' \in [created : Nat, reported : Nat] /\ others' \in 0..MaxOthers
  <2>1. UNCHANGED <<lock, accepted, quotes, others>>
    BY <1>1
  <2> QED
    BY <1>2, <1>3, <2>1 DEF IInv, TypeOK
<1> QED
  BY <1>1, <1>4, <1>5, <1>6, <1>7, OverIInv

\* A delete, a quote's event, a failure: no payload is written.
LEMMA OtherOversIInv ==
  ASSUME IInv, NEW r \in Requests, CommitDelete(r) \/ CommitQuote(r) \/ Fail(r)
  PROVE  IInv'
<1>1. /\ req' = [req EXCEPT ![r] = Idle]
      /\ shown' \in {shown, req[r].ask}
      /\ draft' = draft \/ (draft' = None /\ lock = None)
      /\ lock' = lock \/ (lock = r /\ lock' = None)
      /\ quotes' = quotes \/ quotes' = [quotes EXCEPT !.reported = @ + 1]
      /\ UNCHANGED <<accepted, prompted>>
  BY DEF CommitDelete, CommitQuote, Fail, Finish
<1>2. others' \in 0..MaxOthers
  BY OthersType DEF CommitDelete, CommitQuote, Fail, IInv, TypeOK
<1>3. CursorCounted' /\ PromptedSkipsNothing' /\ RecapIsEarned'
  <2>1. RecapIsEarned /\ accepted' = accepted
    BY <1>1 DEF IInv
  <2>2. shown' = shown \/ shown' # "recap"
    <3>1. CASE Fail(r)
      BY <3>1 DEF Fail
    <3>2. CASE CommitDelete(r) \/ CommitQuote(r)
      <4>1. ~Writing(r)
        BY <3>2 DEF CommitDelete, CommitQuote, Writing
      <4>2. req[r].ask # "recap"
        BY <4>1, RecapIsLast
      <4> QED
        BY <1>1, <4>2
    <3> QED
      BY <3>1, <3>2
  <2>3. CursorCounted' /\ PromptedSkipsNothing'
    BY <1>1 DEF IInv, CursorCounted, PromptedSkipsNothing
  <2> QED
    BY <2>1, <2>2, <2>3 DEF RecapIsEarned
<1>4. ASSUME NEW q \in Requests \ {r}, lock = q
      PROVE  lock' = q /\ (draft # None => draft' # None)
  BY <1>1, <1>4, RequestInPlace
<1>5. req[r] \in Request /\ accepted \in Nat
  BY RequestInPlace
<1>6. /\ shown' \in Fields \cup {None, "recap"} /\ draft' \in Row \cup {None}
      /\ lock' \in Requests \cup {None} /\ accepted' \in 0..Cardinality(Slots)
      /\ accepted <= accepted'
  BY <1>1, <1>5 DEF IInv, TypeOK, Request
<1>7. quotes' \in [created : Nat, reported : Nat]
  BY <1>1 DEF IInv, TypeOK
<1> QED
  BY <1>1, <1>2, <1>3, <1>4, <1>6, <1>7, OverIInv

LEMMA PostQuoteIInv ==
  ASSUME IInv, NEW r \in Requests, PostQuote(r)
  PROVE  IInv'
<1>1. /\ req[r].at = "post" /\ req' = [req EXCEPT ![r].at = "posted"]
      /\ quotes' = [quotes EXCEPT !.created = @ + 1]
      /\ UNCHANGED <<draft, lock, shown, accepted, prompted, others>>
  BY DEF PostQuote
<1>2. TypeOK'
  BY <1>1 DEF IInv, TypeOK, Request
<1>3. CursorCounted' /\ PromptedSkipsNothing' /\ RecapIsEarned'
  BY <1>1 DEF IInv, CursorCounted, PromptedSkipsNothing, RecapIsEarned
<1>4. accepted \in Nat
  BY RequestInPlace
<1>5. ASSUME NEW q \in Requests PROVE InPlace(q)'
  <2>1. CASE q = r
    <3>0. req[r] \in Request /\ req' = [req EXCEPT ![r] = [req[r] EXCEPT !.at = "posted"]]
      BY <1>1 DEF IInv, TypeOK
    <3>1. req'[q].at = "posted" /\ req'[q].ask = req[r].ask /\ ~Writing(r)
      BY <1>1, <2>1, <3>0 DEF IInv, TypeOK, Request, Writing
    <3>2. req'[q].ask # "recap"
      BY <3>1, RecapIsLast
    <3> QED
      BY <3>1, <3>2 DEF InPlace, Answering, Writing
  <2>2. CASE q # r
    <3>1. req'[q] = req[q] /\ accepted <= accepted'
      BY <1>1, <1>4, <2>2 DEF IInv, TypeOK
    <3> QED
      BY <1>1, <1>2, <3>1, Undisturbed
  <2> QED
    BY <2>1, <2>2
<1> QED
  BY <1>2, <1>3, <1>5 DEF IInv

LEMMA TimePassesIInv ==
  ASSUME IInv, Expire \/ Purge
  PROVE  IInv'
<1>1. /\ draft # None /\ (draft' = [draft EXCEPT !.expired = TRUE] \/ (draft' = None /\ lock = None))
      /\ UNCHANGED <<lock, req, shown, accepted, quotes, prompted>>
  BY DEF Expire, Purge
<1>2. draft \in Row
  BY <1>1, DraftInPlace
<1>3. /\ draft' \in Row \cup {None}
      /\ draft' # None => draft'.payload = draft.payload
      /\ lock # None => draft' # None
  BY <1>1, <1>2, NoRowAssumption DEF Row
<1>4. others' \in 0..MaxOthers
  BY OthersType DEF Expire, Purge, IInv, TypeOK
<1>5. TypeOK'
  BY <1>1, <1>3, <1>4 DEF IInv, TypeOK
<1>6. CursorCounted' /\ PromptedSkipsNothing' /\ RecapIsEarned'
  BY <1>1, <1>3 DEF IInv, CursorCounted, PromptedSkipsNothing, RecapIsEarned
<1>7. ASSUME NEW q \in Requests PROVE InPlace(q)'
  <2>1. accepted <= accepted' /\ req'[q] = req[q]
    BY <1>1, RequestInPlace
  <2>2. lock = q => lock' = q /\ (draft # None => draft' # None)
    BY <1>1, <1>3, RequestInPlace
  <2> QED
    BY <1>1, <1>5, <2>1, <2>2, Undisturbed
<1> QED
  BY <1>5, <1>6, <1>7 DEF IInv

LEMMA NextIInv == IInv /\ [Next]_vars => IInv'
<1> SUFFICES ASSUME IInv, [Next]_vars PROVE IInv'
  OBVIOUS
<1>1. CASE UNCHANGED vars
  BY <1>1 DEF vars, IInv, TypeOK, CursorCounted, PromptedSkipsNothing, RecapIsEarned,
     InPlace, Writing, Answering
<1>2. ASSUME NEW r \in Requests, Respond(r) PROVE IInv'
  BY <1>2, FlushIInv, CommitIInv, CommitAnswerIInv, CommitSaveIInv, OtherOversIInv, PostQuoteIInv
     DEF Respond
<1> QED
  BY <1>1, <1>2, ArriveIInv, OtherOversIInv, TimePassesIInv DEF Next

-----------------------------------------------------------------------------
\* The cursor of the draft, and of every request that works on it, is that of a
\* question of the contract or is past the last one (sequencer.py:91-102).
THEOREM TypeCorrect == Spec => []TypeOK
<1>1. Init => IInv
  BY InitIInv
<1>2. IInv /\ [Next]_vars => IInv'
  BY NextIInv
<1>3. IInv => TypeOK
  BY DEF IInv
<1> QED
  BY <1>1, <1>2, <1>3, PTL DEF Spec

\* The draft is no further than answers have been accepted, for any number of
\* requests that load and write it at once (runs.py:786-800).
THEOREM CursorIsCounted == Spec => []CursorCounted
<1>1. IInv => CursorCounted
  BY DEF IInv
<1> QED
  BY <1>1, InitIInv, NextIInv, PTL DEF Spec

\* As long as each answer so far was for the question at the cursor it was loaded
\* with (prompted), no question before the cursor is unanswered, whatever is saved,
\* accepted, lost or purged in between (runs.py:786-800).  An answer to a question
\* that was asked again, or to a prompt gone stale, ends that: it moves the cursor
\* past a question that has no answer.
THEOREM NothingIsSkipped == Spec => []PromptedSkipsNothing
<1>1. IInv => PromptedSkipsNothing
  BY DEF IInv
<1> QED
  BY <1>1, InitIInv, NextIInv, PTL DEF Spec

\* The recap is not shown before as many answers have been accepted as there are
\* questions, for any number of requests and whatever they load, lose or overwrite
\* (runs.py:786-820).
THEOREM RecapAfterTheAnswers == Spec => []RecapIsEarned
<1>1. IInv => RecapIsEarned
  BY DEF IInv
<1> QED
  BY <1>1, InitIInv, NextIInv, PTL DEF Spec

=============================================================================
