----------------------------- MODULE RunJournal -----------------------------
(***************************************************************************)
(* The journal of one run: the rows of agent_run_events with its run_id,   *)
(* written by append_run_event inside the transactions of the handlers and *)
(* runners that work on the run, and read by list_run_events with a resume *)
(* cursor.                                                                 *)
(*                                                                         *)
(* append_run_event takes two statements of its caller's transaction: a    *)
(* SELECT of max(seq) + 1 and an INSERT.  Nothing locks the run between    *)
(* them.  What the database gives is READ COMMITTED and the constraint     *)
(* UNIQUE(run_id, seq): an INSERT of a seq another open transaction has    *)
(* inserted waits for that transaction to end, and an INSERT of a          *)
(* committed seq fails and the transaction rolls back.                     *)
(***************************************************************************)
EXTENDS Naturals, FiniteSets

CONSTANTS
  Writers,     \* transactions that may work on the run at the same time
  Readers,     \* resume cursors
  MaxBatch,    \* rows one transaction appends at most
  MaxEvents,   \* rows of the journal at most (a bound of the model)
  PageLimit    \* the limit of list_run_events

ASSUME ConstantsAssumption ==
  /\ Writers # {}
  /\ MaxBatch \in Nat \ {0}
  /\ MaxEvents \in Nat \ {0}
  /\ PageLimit \in Nat \ {0}

VARIABLES
  rows,      \* committed rows
  staged,    \* staged[w]: rows w has inserted and not committed
  pc,        \* pc[w]: where w stands in its transaction
  next_seq,  \* next_seq[w]: the seq w's last SELECT returned
  cursor,    \* cursor[r]: after_seq of r's next call
  got        \* got[r]: rows r has received

vars == <<rows, staged, pc, next_seq, cursor, got>>

Row == [seq : Nat, by : Writers]

Seqs(R) == {row.seq : row \in R}

\* coalesce(max(seq), 0) over the rows of R.
MaxSeq(R) ==
  IF R = {} THEN 0 ELSE CHOOSE m \in Seqs(R) : \A k \in Seqs(R) : k <= m

-----------------------------------------------------------------------------
Init ==
  /\ rows = {}
  /\ staged = [w \in Writers |-> {}]
  /\ pc = [w \in Writers |-> "idle"]
  /\ next_seq = [w \in Writers |-> 0]
  /\ cursor = [r \in Readers |-> 0]
  /\ got = [r \in Readers |-> {}]

\* What a statement of w sees: what is committed, and its own rows.
Visible(w) == rows \cup staged[w]

\* The SELECT of append_run_event.
SelectMax(w) ==
  /\ pc[w] \in {"idle", "open"}
  /\ Cardinality(staged[w]) < MaxBatch
  /\ MaxSeq(Visible(w)) < MaxEvents
  /\ next_seq' = [next_seq EXCEPT ![w] = MaxSeq(Visible(w)) + 1]
  /\ pc' = [pc EXCEPT ![w] = "insert"]
  /\ UNCHANGED <<rows, staged, cursor, got>>

\* Mutant: rows that are not committed do not make an INSERT wait.
BlockedNever(w) == FALSE

\* Another open transaction holds the seq that w wants to insert.
Blocked(w) == \E v \in Writers \ {w} : next_seq[w] \in Seqs(staged[v])

\* Mutant: the table has no unique constraint on (run_id, seq).
InsertUnchecked(w) ==
  /\ pc[w] = "insert"
  /\ staged' = [staged EXCEPT
       ![w] = @ \cup {[seq |-> next_seq[w], by |-> w]}]
  /\ pc' = [pc EXCEPT ![w] = "open"]
  /\ UNCHANGED <<rows, next_seq, cursor, got>>

\* session.flush() of the new row: the INSERT goes through.
Insert(w) ==
  /\ pc[w] = "insert"
  /\ ~Blocked(w)
  /\ next_seq[w] \notin Seqs(rows)
  /\ staged' = [staged EXCEPT
       ![w] = @ \cup {[seq |-> next_seq[w], by |-> w]}]
  /\ pc' = [pc EXCEPT ![w] = "open"]
  /\ UNCHANGED <<rows, next_seq, cursor, got>>

\* Mutant: the transaction ends for the handler and stays open in the database.
EndTxnLeaked(w) ==
  /\ pc' = [pc EXCEPT ![w] = "idle"]
  /\ UNCHANGED staged

\* The session of w's request is closed: what it staged is gone or published.
EndTxn(w) ==
  /\ staged' = [staged EXCEPT ![w] = {}]
  /\ pc' = [pc EXCEPT ![w] = "idle"]

\* session.flush() raises IntegrityError: the seq has been committed since the
\* SELECT.  Nobody retries; the request fails and its session rolls back.
InsertConflict(w) ==
  /\ pc[w] = "insert"
  /\ next_seq[w] \in Seqs(rows)
  /\ EndTxn(w)
  /\ UNCHANGED <<rows, next_seq, cursor, got>>

\* The caller commits: its rows become visible together.
Commit(w) ==
  /\ pc[w] = "open"
  /\ rows' = rows \cup staged[w]
  /\ EndTxn(w)
  /\ UNCHANGED <<next_seq, cursor, got>>

\* An exception, a lost connection or a crash ends the transaction.
Rollback(w) ==
  /\ pc[w] # "idle"
  /\ EndTxn(w)
  /\ UNCHANGED <<rows, next_seq, cursor, got>>

\* Mutant: the limit is applied before the cursor.
PageOfFirst(r) ==
  {row \in rows :
     /\ row.seq > cursor[r]
     /\ Cardinality({q \in rows : q.seq <= row.seq}) <= PageLimit}

\* The rows list_run_events returns: the first PageLimit ones after the cursor.
Page(r) ==
  {row \in rows :
     /\ row.seq > cursor[r]
     /\ Cardinality({q \in rows : cursor[r] < q.seq /\ q.seq <= row.seq})
          <= PageLimit}

\* One call of list_run_events by a reader that then moves its cursor to the
\* last row of the page.
Poll(r) ==
  /\ Page(r) # {}
  /\ got' = [got EXCEPT ![r] = @ \cup Page(r)]
  /\ cursor' = [cursor EXCEPT ![r] = MaxSeq(Page(r))]
  /\ UNCHANGED <<rows, staged, pc, next_seq>>

Next ==
  \/ \E w \in Writers :
       SelectMax(w) \/ Insert(w) \/ InsertConflict(w) \/ Commit(w) \/ Rollback(w)
  \/ \E r \in Readers : Poll(r)

Spec == Init /\ [][Next]_vars

\* The event loop runs every started handler on, the database grants a row to
\* its waiters in turn, and a stream polls for as long as its client listens.
Fairness ==
  /\ \A w \in Writers :
       /\ WF_vars(Commit(w))
       /\ SF_vars(Insert(w) \/ InsertConflict(w))
  /\ \A r \in Readers : WF_vars(Poll(r))

FairSpec == Spec /\ Fairness

-----------------------------------------------------------------------------
TypeOK ==
  /\ rows \subseteq Row
  /\ staged \in [Writers -> SUBSET Row]
  /\ pc \in [Writers -> {"idle", "insert", "open"}]
  /\ next_seq \in [Writers -> Nat]
  /\ cursor \in [Readers -> Nat]
  /\ got \in [Readers -> SUBSET Row]

(* Two transactions never hold uncommitted events of the run at once: though
   append_run_event takes no lock, max(seq) + 1 together with the unique
   constraint makes the transactions that write events take turns.            *)
WritersTakeTurns ==
  \A v, w \in Writers : staged[v] # {} /\ staged[w] # {} => v = w

(* Committed seqs are 1, 2, ..., n: no gap, although transactions roll back
   after they were given a seq.                                               *)
Contiguous == Seqs(rows) = 1..MaxSeq(rows)

(* A reader that resumes after its cursor has every event up to it: no event
   is ever committed behind a cursor.                                         *)
NothingSkipped ==
  \A r \in Readers : got[r] = {row \in rows : row.seq <= cursor[r]}

(* Every committed event reaches every reader that keeps polling.             *)
EveryEventDelivered ==
  \A r \in Readers, n \in 1..MaxEvents :
    n \in Seqs(rows) ~> cursor[r] >= n

(* A request that has started to append gets its answer: it is not left
   waiting for the others for ever.                                           *)
NoStarvation ==
  \A w \in Writers : pc[w] = "insert" ~> pc[w] # "insert"

-----------------------------------------------------------------------------
(* The inductive invariant: why the writers take turns.  What a transaction  *)
(* has staged follows the committed rows without a gap, so any two that have *)
(* staged something would both hold the first free seq.                      *)

\* R holds exactly one row for each seq of lo..hi.
Run(R, lo, hi) ==
  /\ hi \in Nat
  /\ Seqs(R) = lo..hi
  /\ \A p, q \in R : p.seq = q.seq => p = q

StagedFollows ==
  \A w \in Writers : staged[w] # {} =>
    Run(staged[w], MaxSeq(rows) + 1, MaxSeq(staged[w]))

\* A seq that has been selected is the first free one, or is taken by now.
SelectedSeq ==
  \A w \in Writers :
    /\ pc[w] = "idle" => staged[w] = {}
    /\ pc[w] = "insert" =>
         /\ next_seq[w] >= 1
         /\ staged[w] # {} => next_seq[w] = MaxSeq(staged[w]) + 1
         /\ staged[w] = {} => next_seq[w] <= MaxSeq(rows) + 1

CursorsBehind == \A r \in Readers : cursor[r] <= MaxSeq(rows)

IInv ==
  /\ TypeOK
  /\ IsFiniteSet(rows)
  /\ \A w \in Writers : IsFiniteSet(staged[w])
  /\ Run(rows, 1, MaxSeq(rows))
  /\ StagedFollows
  /\ WritersTakeTurns
  /\ SelectedSeq
  /\ CursorsBehind
  /\ NothingSkipped

-----------------------------------------------------------------------------
\* Refinement: the journal, read by seq, is the abstract log.
EntryAt(R, i) == (CHOOSE row \in R : row.seq = i).by

Log == INSTANCE EventLog WITH
  Entries <- Writers,
  log <- [i \in 1..MaxSeq(rows) |-> EntryAt(rows, i)],
  got <- [r \in Readers |-> [i \in 1..cursor[r] |-> EntryAt(got[r], i)]]

(* The concurrent journal implements the abstract log with prefix readers.    *)
ImplementsEventLog == Log!Spec
=============================================================================
