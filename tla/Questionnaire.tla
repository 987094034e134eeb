---------------------------- MODULE Questionnaire ----------------------------
(***************************************************************************)
(* The guided conversation of a pricing request and the draft it fills:     *)
(* agent/conversation/, the conversation-* and *-field endpoints of         *)
(* api/v1/runs.py, the draft endpoints of api/v1/conversations.py and the   *)
(* worker's purge.                                                          *)
(*                                                                          *)
(* A request loads the conversation's one draft, computes a whole payload   *)
(* from what it has loaded, writes it, and commits it with its events.  A   *)
(* write locks the row until the commit, but nothing is locked, and nothing *)
(* compared, between the load and the write.  The answers are the fields    *)
(* that have one; their values make no difference here.                     *)
(***************************************************************************)
EXTENDS Naturals, Sequences, FiniteSets

CONSTANTS
  Phases,      \* contract.conversation.phases: a sequence of sequences of fields
  StepOf,      \* the step whose section of the payload holds a field
  Requests,    \* places for requests under way
  None,
  MaxOthers    \* bound: requests but the answers to a prompt, failures, weeks

Fields == DOMAIN StepOf
Slots == UNION {{<<p, i>> : i \in DOMAIN Phases[p]} : p \in DOMAIN Phases}
FieldAt(s) == Phases[s[1]][s[2]]

ASSUME QuestionnaireAssumption ==
  /\ Phases \in Seq(Seq(Fields))
  /\ \A p \in DOMAIN Phases : Phases[p] # <<>>
  /\ None \notin Fields \cup Requests \cup {"recap"} /\ "recap" \notin Fields
  /\ MaxOthers \in Nat

VARIABLES
  draft,     \* the row of agent_workflow_drafts, or None
  lock,      \* the request whose write to the row is not committed, or None
  req,       \* req[r]: a request under way
  shown,     \* what the last prompt or recap event asks for
  accepted,  \* number of v1.field.accepted events, up to the number of questions
  quotes,    \* quotes created at PriceFRAME, and committed events that name one
  prompted,  \* history: each answer was for the question at the cursor it loaded
  others

vars == <<draft, lock, req, shown, accepted, quotes, prompted, others>>

Cursor == Slots \cup {<<Len(Phases) + 1, 1>>}
FirstCursor == <<1, 1>>
Payload == [answers : SUBSET Fields, cursor : Cursor]
EmptyPayload == [answers |-> {}, cursor |-> FirstCursor]

Row == [payload : Payload, expired : BOOLEAN]
ASSUME NoRowAssumption == None \notin Row
Idle == [at |-> "idle", loaded |-> None, mine |-> EmptyPayload, ask |-> None]
Request ==
  [at : {"idle", "insert", "update", "save", "delete", "post", "answered", "commit", "posted"},
   loaded : Row \cup {None}, mine : Payload, ask : Fields \cup {None, "recap"}]

-----------------------------------------------------------------------------
\* Mutant: the recap comes with the last question instead of after it.
NextStepEarly(c) ==
  IF c \in Slots /\ \E d \in Slots : d[1] > c[1] \/ (d[1] = c[1] /\ d[2] > c[2])
    THEN FieldAt(c) ELSE "recap"

\* next_step
NextStep(c) == IF c \in Slots THEN FieldAt(c) ELSE "recap"

\* Mutant: the last question of a phase is not recognised as the last.
AdvanceCursorLate(c) ==
  IF c[1] > Len(Phases) THEN c
  ELSE IF c[2] <= Len(Phases[c[1]]) THEN <<c[1], c[2] + 1>> ELSE <<c[1] + 1, 1>>

\* Mutant: a phase is left at its first question.
AdvancePhase(c) == IF c[1] > Len(Phases) THEN c ELSE <<c[1] + 1, 1>>

\* Mutant: the last question of a phase is asked again and again.
AdvanceCursorStuck(c) ==
  IF c \in Slots /\ c[2] + 1 <= Len(Phases[c[1]]) THEN <<c[1], c[2] + 1>> ELSE c

\* advance_cursor
AdvanceCursor(c) ==
  IF c[1] > Len(Phases) THEN c
  ELSE IF c[2] + 1 <= Len(Phases[c[1]]) THEN <<c[1], c[2] + 1>> ELSE <<c[1] + 1, 1>>

Init ==
  /\ draft = None /\ lock = None
  /\ req = [r \in Requests |-> Idle]
  /\ shown = None
  /\ accepted = 0
  /\ quotes = [created |-> 0, reported |-> 0]
  /\ prompted = TRUE
  /\ others = 0

Other == others < MaxOthers /\ others' = others + 1

\* A request reads the row, as committed, and goes on to its write, or to its
\* commit when it only has an event to record.
Begin(r, at, mine, ask, asPrompted) ==
  /\ req[r].at = "idle"
  /\ req' = [req EXCEPT ![r] = [at |-> at, loaded |-> draft, mine |-> mine, ask |-> ask]]
  /\ prompted' = (prompted /\ asPrompted)
  /\ UNCHANGED <<draft, lock, shown, accepted, quotes>>

\* start_conversation, and a run of the guided workflow: seeds a draft if there
\* is none, and prompts for the question at its cursor.
StartConversation(r) ==
  /\ (shown = None /\ UNCHANGED others) \/ Other
  /\ IF draft = None
       THEN Begin(r, "insert", EmptyPayload, NextStep(FirstCursor), TRUE)
       ELSE Begin(r, "commit", draft.payload, NextStep(draft.payload.cursor), TRUE)

\* submit_field_answer: whatever field is answered, the cursor moves on by one.
SubmitFieldAnswer(r, f) ==
  /\ draft # None
  /\ (f = shown /\ UNCHANGED others) \/ Other
  /\ LET mine == [answers |-> draft.payload.answers \cup {f},
                  cursor |-> AdvanceCursor(draft.payload.cursor)]
     IN  Begin(r, "update", mine, NextStep(mine.cursor), f = NextStep(draft.payload.cursor))

\* re_ask_field: a prompt, and nothing else.
ReAskField(r, f) ==
  /\ draft # None
  /\ Other
  /\ Begin(r, "commit", draft.payload, f, TRUE)

\* Mutant: the step's section is replaced, not merged into.
MergedReplaced(p, s, fields) ==
  [p EXCEPT !.answers = {f \in @ : StepOf[f] # s} \cup fields]

Merged(p, s, fields) == [p EXCEPT !.answers = @ \cup fields]

\* decide_step_proposal, accepted: some of a step's fields, edited or not.
AcceptProposal(r, s, fields) ==
  /\ draft # None
  /\ Other
  /\ Begin(r, "update", Merged(draft.payload, s, fields), None, TRUE)

\* commit_conversation, up to the quote's creation.
CommitConversation(r) ==
  /\ draft # None
  /\ Other
  /\ Begin(r, "post", draft.payload, None, TRUE)

\* save_workflow_draft: a form's answers without a cursor, or a payload that
\* was read before with one more answer.
SaveDraft(r) ==
  /\ Other
  /\ \E p \in [answers : SUBSET Fields, cursor : {FirstCursor}]
              \cup {[draft.payload EXCEPT !.answers = @ \cup {f}] :
                      f \in IF draft = None THEN {} ELSE Fields} :
       Begin(r, "save", p, None, TRUE)

\* delete_workflow_draft, and get_workflow_draft when what it loads has expired.
DeleteDraft(r) ==
  /\ draft # None
  /\ Other
  /\ Begin(r, "delete", draft.payload, None, TRUE)

-----------------------------------------------------------------------------
\* The flush of a draft's first row: a second one violates the primary key.
Insert(r) ==
  /\ req[r].at = "insert"
  /\ lock = None /\ draft = None
  /\ lock' = r
  /\ req' = [req EXCEPT ![r].at = "commit"]
  /\ UNCHANGED <<draft, shown, accepted, quotes, prompted, others>>

\* The flush of a payload: it waits for the row's lock; without a row it fails.
Update(r) ==
  /\ req[r].at = "update"
  /\ lock = None /\ draft # None
  /\ lock' = r
  /\ req' = [req EXCEPT ![r].at = IF req[r].ask = None THEN "commit" ELSE "answered"]
  /\ UNCHANGED <<draft, shown, accepted, quotes, prompted, others>>

\* The row a commit leaves: a payload equal to the one loaded is not written.
Written(r, expired) ==
  \/ draft' = [payload |-> req[r].mine, expired |-> expired]
  \/ /\ req[r].loaded # None /\ req[r].mine = req[r].loaded.payload
     /\ draft' = [draft EXCEPT !.expired = expired]

Finish(r) ==
  /\ req' = [req EXCEPT ![r] = Idle]
  /\ shown' = IF req[r].ask = None THEN shown ELSE req[r].ask

\* The commit of a request that wrote a payload, or only has an event.
Commit(r) ==
  /\ req[r].at = "commit"
  /\ IF lock # r THEN UNCHANGED draft
     ELSE IF draft = None THEN draft' = [payload |-> req[r].mine, expired |-> FALSE]
     ELSE Written(r, draft.expired)
  /\ lock' = IF lock = r THEN None ELSE lock
  /\ Finish(r)
  /\ UNCHANGED <<accepted, quotes, prompted, others>>

\* The commit of an answer: the accepted event and the next prompt's.
CommitAnswer(r) ==
  /\ req[r].at = "answered"
  /\ Written(r, draft.expired)
  /\ lock' = None
  /\ accepted' = IF accepted < Cardinality(Slots) THEN accepted + 1 ELSE accepted
  /\ Finish(r)
  /\ UNCHANGED <<quotes, prompted, others>>

\* The commit of a saved draft, which inserts the row or updates it.
CommitSave(r) ==
  /\ req[r].at = "save"
  /\ lock = None
  /\ (draft = None) = (req[r].loaded = None)
  /\ IF draft = None THEN draft' = [payload |-> req[r].mine, expired |-> FALSE]
     ELSE Written(r, FALSE)
  /\ Finish(r)
  /\ UNCHANGED <<lock, accepted, quotes, prompted, others>>

\* The delete is by primary key: it takes whatever row there is by now.
CommitDelete(r) ==
  /\ req[r].at = "delete"
  /\ lock = None
  /\ draft' = None
  /\ Finish(r)
  /\ UNCHANGED <<lock, accepted, quotes, prompted, others>>

\* commit_draft: the quote is created without a key; corridors that cannot be
\* resolved or added are only reported.  Then the event is committed.
PostQuote(r) ==
  /\ req[r].at = "post"
  /\ req' = [req EXCEPT ![r].at = "posted"]
  /\ quotes' = [quotes EXCEPT !.created = @ + 1]
  /\ UNCHANGED <<draft, lock, shown, accepted, prompted, others>>

CommitQuote(r) ==
  /\ req[r].at = "posted"
  /\ quotes' = [quotes EXCEPT !.reported = @ + 1]
  /\ Finish(r)
  /\ UNCHANGED <<draft, lock, accepted, prompted, others>>

\* A request fails and is rolled back: a conflict, an outage, a lost connection.
Doomed(r) ==
  \/ req[r].at = "insert" /\ draft # None
  \/ req[r].at = "update" /\ draft = None
  \/ req[r].at = "save" /\ (draft = None) # (req[r].loaded = None)

Fail(r) ==
  /\ req[r].at # "idle"
  /\ (Doomed(r) /\ UNCHANGED others) \/ Other
  /\ req' = [req EXCEPT ![r] = Idle]
  /\ lock' = IF lock = r THEN None ELSE lock
  /\ UNCHANGED <<draft, shown, accepted, quotes, prompted>>

\* A week passes without a save.
Expire ==
  /\ draft # None /\ ~draft.expired
  /\ Other
  /\ draft' = [draft EXCEPT !.expired = TRUE]
  /\ UNCHANGED <<lock, req, shown, accepted, quotes, prompted>>

\* purge_expired_workflow_drafts: one statement, which waits for the row's lock.
Purge ==
  /\ draft # None /\ draft.expired
  /\ lock = None
  /\ draft' = None
  /\ UNCHANGED <<lock, req, shown, accepted, quotes, prompted, others>>

-----------------------------------------------------------------------------
Respond(r) ==
  Insert(r) \/ Update(r) \/ Commit(r) \/ CommitAnswer(r) \/ CommitSave(r)
  \/ CommitDelete(r) \/ PostQuote(r) \/ CommitQuote(r)

Arrive(r) ==
  \/ StartConversation(r)
  \/ \E f \in Fields : SubmitFieldAnswer(r, f) \/ ReAskField(r, f)
  \/ \E s \in {StepOf[f] : f \in Fields} :
       \E fields \in (SUBSET {f \in Fields : StepOf[f] = s}) \ {{}} : AcceptProposal(r, s, fields)
  \/ CommitConversation(r) \/ SaveDraft(r) \/ DeleteDraft(r)

Next ==
  \/ \E r \in Requests : Arrive(r) \/ Respond(r) \/ Fail(r)
  \/ Expire \/ Purge

\* A user who is asked answers, and one who is asked nothing opens the
\* conversation; a request under way is responded to.
Engaged ==
  \E r \in Requests :
    \/ shown = None /\ StartConversation(r)
    \/ shown \in Fields /\ SubmitFieldAnswer(r, shown)

Fairness ==
  /\ WF_vars(Engaged)
  /\ \A r \in Requests : WF_vars(Respond(r) \/ (Doomed(r) /\ Fail(r)))

Spec == Init /\ [][Next]_vars /\ Fairness

-----------------------------------------------------------------------------
\* Types: the cursor, in the row and in the requests, is that of a question or
\* is past the last of them (sequencer.py:91-102).
TypeOK ==
  /\ draft \in Row \cup {None}
  /\ lock \in Requests \cup {None}
  /\ req \in [Requests -> Request]
  /\ shown \in Fields \cup {None, "recap"}
  /\ accepted \in 0..Cardinality(Slots)
  /\ quotes \in [created : Nat, reported : Nat]
  /\ prompted \in BOOLEAN
  /\ others \in 0..MaxOthers

Before(c) == {s \in Slots : s[1] < c[1] \/ (s[1] = c[1] /\ s[2] < c[2])}
Position(c) == Cardinality(Before(c))

\* However requests overlap, the draft is no further than answers have been
\* accepted (submit_field_answer, runs.py:786-800): no interleaving of loads and
\* writes moves the cursor twice for one answer.
CursorCounted == draft # None => Position(draft.payload.cursor) <= accepted

Complete(p) == \A s \in Before(p.cursor) : FieldAt(s) \in p.answers

\* As long as each answer is for the question at the cursor it was loaded with,
\* nothing before the cursor is unanswered (runs.py:786-800): requests overlap and
\* lose answers to each other, but each loses them with the cursor that counted
\* them, and proposals, saves, failures and purges in between lose none.
PromptedSkipsNothing == (prompted /\ draft # None) => Complete(draft.payload)

\* The recap is not shown before as many answers have been accepted as there are
\* questions (runs.py:786-820): nobody reads that number, and a request may prompt
\* from a row that others have overwritten, deleted or saved since it was loaded.
\* Accepted events are counted over the conversation, with the drafts it has lost.
RecapIsEarned == shown = "recap" => accepted = Cardinality(Slots)

\* A user who answers what is asked comes to the recap, unless the draft is
\* deleted or expires: answers that overlap or are overwritten do not hold the
\* conversation at one question forever.
RecapReached == (draft # None) ~> (shown = "recap" \/ draft = None)

\* The inductive invariant: what a request is about to write is no further than
\* the answers accepted, but for its own, and skips nothing either; an answer
\* that is flushed has the row's lock, and a request that will show the recap has a
\* cursor past the last question.
Writing(r) == req[r].at \in {"insert", "update", "save", "answered", "commit"}
Answering(r) == req[r].at = "answered" \/ (req[r].at = "update" /\ req[r].ask # None)

InPlace(r) ==
  /\ req[r].at = "answered" => lock = r /\ draft # None /\ req[r].ask # None
  /\ req[r].ask = "recap" => Writing(r) /\ req[r].mine.cursor \notin Slots
  /\ Writing(r) => Position(req[r].mine.cursor) <= accepted + (IF Answering(r) THEN 1 ELSE 0)
  /\ (Writing(r) /\ prompted) => Complete(req[r].mine)

IInv ==
  /\ TypeOK /\ CursorCounted /\ PromptedSkipsNothing /\ RecapIsEarned
  /\ \A r \in Requests : InPlace(r)

=============================================================================
