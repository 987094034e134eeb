-------------------------- MODULE RunJournal_proofs --------------------------
(***************************************************************************)
(* Proofs about RunJournal, for any number of transactions and readers,    *)
(* any page limit and a journal of any length.                             *)
(***************************************************************************)
EXTENDS RunJournal, FiniteSetTheorems, WellFoundedInduction, TLAPS

-----------------------------------------------------------------------------
(* A non-empty set of numbers up to n has a largest one: its mirror image
   n - k has a smallest one, the numbers being well-ordered.                 *)
LEMMA LargestOfBounded ==
  ASSUME NEW n \in Nat, NEW S, S \subseteq 0..n, S # {}
  PROVE  \E k \in S : \A j \in S : j <= k
<1> DEFINE Mirror == {i \in 0..n : n - i \in S}
<1>1. Mirror \subseteq Nat /\ Mirror # {}
  <2>1. PICK j \in S : TRUE
    OBVIOUS
  <2>2. n - j \in 0..n /\ n - (n - j) = j
    OBVIOUS
  <2>3. n - j \in Mirror
    BY <2>2
  <2>4. Mirror \subseteq Nat
    OBVIOUS
  <2> HIDE DEF Mirror
  <2>5. QED
    BY <2>3, <2>4
<1>2. \E x \in Mirror : \A y \in Mirror : ~ (<<y, x>> \in OpToRel(<, Nat))
  <2> HIDE DEF Mirror
  <2> QED
    BY <1>1, NatLessThanWellFounded, WFMin
<1>3. PICK x \in Mirror : \A y \in Mirror : ~(y < x)
  BY <1>1, <1>2 DEF OpToRel
<1>4. n - x \in S
  OBVIOUS
<1>5. ASSUME NEW j \in S PROVE j <= n - x
  <2>1. n - j \in Mirror
    <3>1. n - j \in 0..n /\ n - (n - j) = j
      OBVIOUS
    <3>2. QED
      BY <3>1
  <2>2. ~(n - j < x)
    BY <1>3, <2>1
  <2>3. QED
    BY <2>2
<1>6. QED
  BY <1>4, <1>5

-----------------------------------------------------------------------------
(* The largest seq of a set of rows, when there is one.                      *)
LEMMA MaxSeqIs ==
  ASSUME NEW R, NEW hi \in Seqs(R), Seqs(R) \subseteq Nat,
         \A k \in Seqs(R) : k <= hi
  PROVE  MaxSeq(R) = hi /\ R # {}
<1>1. R # {}
  BY DEF Seqs
<1> DEFINE Top(m) == \A k \in Seqs(R) : k <= m
           c == CHOOSE m \in Seqs(R) : Top(m)
<1>2. c \in Seqs(R) /\ Top(c)
  <2>1. \E m \in Seqs(R) : Top(m)
    OBVIOUS
  <2>2. QED
    BY <2>1
<1>3. c = hi
  BY <1>2
<1>4. QED
  BY <1>1, <1>3, Zenon DEF MaxSeq

(* coalesce(max(seq), 0) over no row.                                        *)
LEMMA MaxSeqOfNone == MaxSeq({}) = 0
  BY DEF MaxSeq

(* Over rows that occupy lo..hi the maximum is hi.                           *)
LEMMA MaxSeqOfRun ==
  ASSUME NEW R, NEW lo \in Nat, NEW hi \in Nat, lo <= hi, Seqs(R) = lo..hi
  PROVE  MaxSeq(R) = hi /\ R # {}
<1>1. hi \in Seqs(R) /\ Seqs(R) \subseteq Nat /\ \A k \in Seqs(R) : k <= hi
  OBVIOUS
<1>2. QED
  BY <1>1, MaxSeqIs

(* The seqs of two sets of rows together.                                    *)
LEMMA SeqsOfUnion ==
  ASSUME NEW R, NEW S
  PROVE  Seqs(R \cup S) = Seqs(R) \cup Seqs(S)
  BY DEF Seqs

(* What a transaction sees ends where its own rows end, or else where the
   committed rows end.                                                       *)
LEMMA MaxSeqVisible ==
  ASSUME IInv, NEW w \in Writers
  PROVE  /\ MaxSeq(Visible(w)) \in Nat
         /\ staged[w] # {} => MaxSeq(Visible(w)) = MaxSeq(staged[w])
         /\ staged[w] = {} => MaxSeq(Visible(w)) = MaxSeq(rows)
<1>1. MaxSeq(rows) \in Nat /\ Seqs(rows) = 1..MaxSeq(rows)
  BY DEF IInv, Run
<1>2. CASE staged[w] = {}
  <2>1. Visible(w) = rows
    BY <1>2 DEF Visible
  <2>2. QED
    BY <1>1, <1>2, <2>1
<1>3. CASE staged[w] # {}
  <2> DEFINE lo == MaxSeq(rows)  hi == MaxSeq(staged[w])
  <2>1. hi \in Nat /\ Seqs(staged[w]) = (lo + 1)..hi
    BY <1>3 DEF IInv, StagedFollows, Run
  <2>2. lo \in Nat /\ Seqs(rows) = 1..lo
    BY <1>1
  <2> HIDE DEF lo, hi
  <2>3. lo < hi
    <3>1. Seqs(staged[w]) # {}
      BY <1>3 DEF Seqs
    <3>2. QED
      BY <2>1, <2>2, <3>1
  <2>4. Seqs(Visible(w)) = 1..hi
    <3>1. Seqs(Visible(w)) = Seqs(rows) \cup Seqs(staged[w])
      BY SeqsOfUnion DEF Visible
    <3>2. (1..lo) \cup ((lo + 1)..hi) = 1..hi
      BY <2>1, <2>2, <2>3
    <3>3. QED
      BY <2>1, <2>2, <3>1, <3>2
  <2>5. MaxSeq(Visible(w)) = hi
    BY <2>1, <2>2, <2>3, <2>4, MaxSeqOfRun
  <2>6. QED
    BY <1>3, <2>1, <2>5 DEF hi
<1>4. QED
  BY <1>2, <1>3
(* Facts of the invariant in the form the steps below use them.              *)
LEMMA CommittedRun ==
  ASSUME IInv
  PROVE  MaxSeq(rows) \in Nat /\ Seqs(rows) = 1..MaxSeq(rows)
  BY DEF IInv, Run

-----------------------------------------------------------------------------
LEMMA InitIInv == Init => IInv
<1> SUFFICES ASSUME Init PROVE IInv
  OBVIOUS
<1>1. rows = {} /\ MaxSeq(rows) = 0
  BY MaxSeqOfNone DEF Init
<1>2. Run(rows, 1, MaxSeq(rows))
  BY <1>1 DEF Run, Seqs
<1>3. IsFiniteSet(rows) /\ \A w \in Writers : IsFiniteSet(staged[w])
  BY FS_EmptySet DEF Init
<1>4. TypeOK
  BY DEF Init, TypeOK
<1>5. StagedFollows /\ WritersTakeTurns /\ SelectedSeq
  BY DEF Init, StagedFollows, WritersTakeTurns, SelectedSeq
<1>6. CursorsBehind /\ NothingSkipped
  BY <1>1 DEF Init, CursorsBehind, NothingSkipped
<1>7. QED
  BY <1>2, <1>3, <1>4, <1>5, <1>6 DEF IInv

(* The SELECT changes only what w will insert.                               *)
LEMMA SelectMaxIInv ==
  ASSUME IInv, NEW w \in Writers, SelectMax(w)
  PROVE  IInv'
<1>1. UNCHANGED <<rows, staged, cursor, got>>
  BY DEF SelectMax
<1>2. MaxSeq(Visible(w)) \in Nat
  BY MaxSeqVisible
<1>3. TypeOK'
  BY <1>1, <1>2 DEF IInv, TypeOK, SelectMax
<1>4. SelectedSeq'
  <2> SUFFICES ASSUME NEW v \in Writers
               PROVE  /\ pc'[v] = "idle" => staged[v] = {}
                      /\ pc'[v] = "insert" =>
                           /\ next_seq'[v] >= 1
                           /\ staged[v] # {} => next_seq'[v] = MaxSeq(staged[v]) + 1
                           /\ staged[v] = {} => next_seq'[v] <= MaxSeq(rows) + 1
    BY <1>1 DEF SelectedSeq
  <2>1. CASE v = w
    <3>1. pc'[v] = "insert" /\ next_seq'[v] = MaxSeq(Visible(w)) + 1
      BY <2>1 DEF SelectMax, IInv, TypeOK
    <3>2. QED
      BY <2>1, <3>1, <1>2, MaxSeqVisible
  <2>2. CASE v # w
    <3>1. pc'[v] = pc[v] /\ next_seq'[v] = next_seq[v]
      BY <2>2 DEF SelectMax, IInv, TypeOK
    <3>2. QED
      BY <3>1 DEF IInv, SelectedSeq
  <2>3. QED
    BY <2>1, <2>2
<1>5. QED
  BY <1>1, <1>3, <1>4
     DEF IInv, Run, StagedFollows, WritersTakeTurns, CursorsBehind, NothingSkipped

(* An INSERT that goes through takes the first free seq, or follows w's own
   rows; nobody else then has rows staged.                                   *)
LEMMA InsertIInv ==
  ASSUME IInv, NEW w \in Writers, Insert(w)
  PROVE  IInv'
<1> DEFINE n == next_seq[w]
           row == [seq |-> n, by |-> w]
           top == MaxSeq(rows)
<1>1. /\ pc[w] = "insert" /\ n \notin Seqs(rows) /\ ~Blocked(w)
      /\ staged' = [staged EXCEPT ![w] = @ \cup {row}]
      /\ pc' = [pc EXCEPT ![w] = "open"]
      /\ UNCHANGED <<rows, next_seq, cursor, got>>
  BY DEF Insert
<1>2. n \in Nat /\ n >= 1 /\ top \in Nat /\ Seqs(rows) = 1..top
  BY <1>1, CommittedRun DEF IInv, TypeOK, SelectedSeq
<1>3. n > top
  BY <1>1, <1>2
<1>4. staged'[w] = staged[w] \cup {row}
      /\ \A v \in Writers : v # w => staged'[v] = staged[v]
  BY <1>1 DEF IInv, TypeOK
<1>5. \A v \in Writers : v # w => staged[v] = {}
  <2> SUFFICES ASSUME NEW v \in Writers, v # w, staged[v] # {}
               PROVE  FALSE
    OBVIOUS
  <2>1. staged[w] = {}
    BY DEF IInv, WritersTakeTurns
  <2>2. n = top + 1
    BY <1>1, <1>2, <1>3, <2>1 DEF IInv, SelectedSeq
  <2>3. top + 1 \in Seqs(staged[v])
    <3>1. Seqs(staged[v]) = (top + 1)..MaxSeq(staged[v]) /\ MaxSeq(staged[v]) \in Nat
      BY DEF IInv, StagedFollows, Run
    <3>2. Seqs(staged[v]) # {}
      BY DEF Seqs
    <3>3. QED
      BY <1>2, <3>1, <3>2
  <2>4. QED
    BY <1>1, <2>2, <2>3 DEF Blocked
<1>6. Run(staged'[w], top + 1, n) /\ MaxSeq(staged'[w]) = n
  <2>1. Seqs({row}) = {n}
    BY DEF Seqs
  <2>2. staged[w] = {} => n = top + 1
    BY <1>1, <1>2, <1>3 DEF IInv, SelectedSeq
  <2>3. staged[w] # {} =>
          /\ n = MaxSeq(staged[w]) + 1
          /\ Run(staged[w], top + 1, MaxSeq(staged[w]))
    BY <1>1 DEF IInv, SelectedSeq, StagedFollows
  <2>4. Seqs(staged'[w]) = Seqs(staged[w]) \cup {n}
    BY <1>4, <2>1, SeqsOfUnion
  <2> HIDE DEF n, top
  <2>5. Seqs(staged'[w]) = (top + 1)..n
    <3>1. CASE staged[w] = {}
      <4>1. Seqs(staged[w]) = {}
        BY <3>1 DEF Seqs
      <4>2. {n} = (top + 1)..n
        BY <1>2, <2>2, <3>1
      <4>3. QED
        BY <2>4, <4>1, <4>2
    <3>2. CASE staged[w] # {}
      <4> DEFINE hi == MaxSeq(staged[w])
      <4>1. hi \in Nat /\ n = hi + 1 /\ Seqs(staged[w]) = (top + 1)..hi
        BY <2>3, <3>2 DEF Run
      <4> HIDE DEF hi
      <4>2. ((top + 1)..hi) \cup {n} = (top + 1)..n
        BY <1>2, <1>3, <4>1
      <4>3. QED
        BY <2>4, <4>1, <4>2
    <3>3. QED
      BY <3>1, <3>2
  <2>6. \A p, q \in staged'[w] : p.seq = q.seq => p = q
    <3>1. CASE staged[w] = {}
      BY <1>4, <3>1
    <3>2. CASE staged[w] # {}
      <4> DEFINE hi == MaxSeq(staged[w])
      <4>1. /\ hi \in Nat /\ n = hi + 1 /\ Seqs(staged[w]) = (top + 1)..hi
            /\ \A p, q \in staged[w] : p.seq = q.seq => p = q
        BY <2>3, <3>2 DEF Run
      <4> HIDE DEF hi
      <4>2. n \notin Seqs(staged[w])
        BY <1>2, <4>1
      <4>3. \A p \in staged[w] : p.seq # n
        BY <4>2 DEF Seqs
      <4>4. QED
        BY <1>4, <4>1, <4>3
    <3>3. QED
      BY <3>1, <3>2
  <2>7. MaxSeq(staged'[w]) = n
    <3>1. top + 1 \in Nat /\ top + 1 <= n
      BY <1>2, <1>3
    <3>2. QED
      BY <1>2, <2>5, <3>1, MaxSeqOfRun
  <2>8. QED
    BY <1>2, <2>5, <2>6, <2>7 DEF Run
<1>7. TypeOK'
  <2>1. row \in Row
    BY <1>2 DEF Row
  <2>2. QED
    BY <1>1, <2>1 DEF IInv, TypeOK
<1>8. (\A v \in Writers : IsFiniteSet(staged[v]))'
  BY <1>4, FS_AddElement DEF IInv
<1>9. StagedFollows'
  BY <1>1, <1>4, <1>5, <1>6 DEF StagedFollows
<1>10. WritersTakeTurns'
  BY <1>4, <1>5 DEF WritersTakeTurns
<1>11. SelectedSeq'
  BY <1>1, <1>4, <1>5 DEF IInv, TypeOK, SelectedSeq
<1>12. QED
  BY <1>1, <1>7, <1>8, <1>9, <1>10, <1>11
     DEF IInv, Run, CursorsBehind, NothingSkipped

(* A transaction that ends without committing.                               *)
LEMMA EndTxnIInv ==
  ASSUME IInv, NEW w \in Writers, EndTxn(w),
         UNCHANGED <<rows, next_seq, cursor, got>>
  PROVE  IInv'
<1>1. /\ staged'[w] = {} /\ pc'[w] = "idle"
      /\ \A v \in Writers : v # w => staged'[v] = staged[v] /\ pc'[v] = pc[v]
  BY DEF EndTxn, IInv, TypeOK
<1>2. TypeOK'
  BY DEF IInv, TypeOK, EndTxn
<1>3. (\A v \in Writers : IsFiniteSet(staged[v]))'
  BY <1>1, FS_EmptySet DEF IInv
<1>4. StagedFollows' /\ WritersTakeTurns'
  BY <1>1 DEF IInv, StagedFollows, WritersTakeTurns
<1>5. SelectedSeq'
  BY <1>1 DEF IInv, SelectedSeq
<1>6. QED
  BY <1>2, <1>3, <1>4, <1>5 DEF IInv, Run, CursorsBehind, NothingSkipped

(* A commit moves w's rows, which follow the committed ones, into the
   journal.  A seq some other transaction has selected is taken from then on. *)
LEMMA CommitIInv ==
  ASSUME IInv, NEW w \in Writers, Commit(w)
  PROVE  /\ IInv'
         /\ MaxSeq(rows) <= MaxSeq(rows')
<1> DEFINE top == MaxSeq(rows)  hi == MaxSeq(staged[w])
<1>1. /\ rows' = rows \cup staged[w]
      /\ UNCHANGED <<next_seq, cursor, got>>
      /\ staged'[w] = {} /\ pc'[w] = "idle"
      /\ \A v \in Writers : v # w => staged'[v] = staged[v] /\ pc'[v] = pc[v]
  BY DEF Commit, EndTxn, IInv, TypeOK
<1>2. TypeOK' /\ IsFiniteSet(rows') /\ (\A v \in Writers : IsFiniteSet(staged[v]))'
  <2>1. TypeOK'
    BY DEF Commit, EndTxn, IInv, TypeOK
  <2>2. IsFiniteSet(rows')
    BY <1>1, FS_Union DEF IInv
  <2>3. QED
    BY <1>1, <2>1, <2>2, FS_EmptySet DEF IInv
<1>3. top \in Nat /\ Seqs(rows) = 1..top
  BY CommittedRun
<1>4. CASE staged[w] = {}
  <2>1. rows' = rows
    BY <1>1, <1>4
  <2>2. StagedFollows' /\ WritersTakeTurns'
    BY <1>1, <2>1 DEF IInv, StagedFollows, WritersTakeTurns
  <2>3. SelectedSeq'
    BY <1>1, <2>1 DEF IInv, SelectedSeq
  <2>4. Run(rows, 1, MaxSeq(rows))' /\ CursorsBehind' /\ NothingSkipped'
    BY <1>1, <2>1 DEF IInv, Run, CursorsBehind, NothingSkipped
  <2>5. MaxSeq(rows) <= MaxSeq(rows')
    <3>1. MaxSeq(rows') = MaxSeq(rows)
      BY <2>1
    <3>2. QED
      BY <1>3, <3>1
  <2>6. QED
    BY <1>2, <2>2, <2>3, <2>4, <2>5 DEF IInv
<1>5. CASE staged[w] # {}
  <2>1. /\ hi \in Nat /\ Seqs(staged[w]) = (top + 1)..hi
        /\ \A p, q \in staged[w] : p.seq = q.seq => p = q
    BY <1>5 DEF IInv, StagedFollows, Run
  <2>2. \A v \in Writers : staged'[v] = {}
    BY <1>1, <1>5 DEF IInv, WritersTakeTurns
  <2>3. \A p, q \in rows : p.seq = q.seq => p = q
    BY DEF IInv, Run
  <2>4. \A v \in Writers : pc'[v] = "insert" =>
          next_seq[v] >= 1 /\ next_seq[v] <= top + 1
    BY <1>1, <2>2 DEF IInv, SelectedSeq
  <2>5. rows \subseteq Row /\ staged[w] \subseteq Row
    BY DEF IInv, TypeOK
  <2>6. /\ \A r \in Readers : cursor[r] \in Nat /\ cursor[r] <= top
        /\ \A r \in Readers : got[r] = {row \in rows : row.seq <= cursor[r]}
    BY DEF IInv, TypeOK, CursorsBehind, NothingSkipped
  <2>7. next_seq \in [Writers -> Nat]
    BY DEF IInv, TypeOK
  <2> HIDE DEF top, hi
  <2>8. top < hi
    <3>1. Seqs(staged[w]) # {}
      BY <1>5 DEF Seqs
    <3>2. QED
      BY <1>3, <2>1, <3>1
  <2>9. Seqs(rows') = 1..hi
    <3>1. Seqs(rows') = Seqs(rows) \cup Seqs(staged[w])
      BY <1>1, SeqsOfUnion
    <3>2. (1..top) \cup ((top + 1)..hi) = 1..hi
      BY <1>3, <2>1, <2>8
    <3>3. QED
      BY <1>3, <2>1, <3>1, <3>2
  <2>10. MaxSeq(rows') = hi
    BY <1>3, <2>1, <2>8, <2>9, MaxSeqOfRun
  <2>11. Run(rows', 1, MaxSeq(rows'))
    <3>1. \A p \in rows, q \in staged[w] : p.seq # q.seq
      <4>1. \A p \in rows : p.seq \in 1..top
        BY <1>3 DEF Seqs
      <4>2. \A q \in staged[w] : q.seq \in (top + 1)..hi
        BY <2>1 DEF Seqs
      <4>3. QED
        BY <1>3, <2>1, <4>1, <4>2
    <3>2. \A p, q \in rows' : p.seq = q.seq => p = q
      BY <1>1, <2>1, <2>3, <3>1
    <3>3. QED
      BY <2>1, <2>9, <2>10, <3>2 DEF Run
  <2>12. StagedFollows' /\ WritersTakeTurns'
    BY <2>2 DEF StagedFollows, WritersTakeTurns
  <2>13. SelectedSeq'
    <3>1. \A v \in Writers : pc'[v] = "insert" =>
            next_seq'[v] >= 1 /\ next_seq'[v] <= MaxSeq(rows') + 1
      BY <1>1, <1>3, <2>1, <2>4, <2>7, <2>8, <2>10
    <3>2. QED
      BY <2>2, <3>1 DEF SelectedSeq
  <2>14. CursorsBehind'
    BY <1>1, <1>3, <2>1, <2>6, <2>8, <2>10 DEF CursorsBehind
  <2>15. NothingSkipped'
    <3> SUFFICES ASSUME NEW r \in Readers
                 PROVE  got[r] = {row \in rows' : row.seq <= cursor[r]}
      BY <1>1 DEF NothingSkipped
    <3>1. \A q \in staged[w] : ~(q.seq <= cursor[r])
      <4>1. \A q \in staged[w] : q.seq \in (top + 1)..hi
        BY <2>1 DEF Seqs
      <4>2. QED
        BY <1>3, <2>1, <2>6, <4>1
    <3>2. QED
      BY <1>1, <2>6, <3>1
  <2>16. QED
    BY <1>2, <1>3, <2>1, <2>8, <2>10, <2>11, <2>12, <2>13, <2>14, <2>15
       DEF IInv, top
<1>6. QED
  BY <1>4, <1>5

(* A page holds every event between the cursor and its last one.             *)
LEMMA PageIsNext ==
  ASSUME IInv, NEW r \in Readers, Page(r) # {}
  PROVE  /\ MaxSeq(Page(r)) \in Nat
         /\ cursor[r] < MaxSeq(Page(r))
         /\ MaxSeq(Page(r)) <= MaxSeq(rows)
         /\ Page(r) = {row \in rows : /\ cursor[r] < row.seq
                                      /\ row.seq <= MaxSeq(Page(r))}
<1> DEFINE After(n) == {q \in rows : cursor[r] < q.seq /\ q.seq <= n}
           m == MaxSeq(Page(r))
<1>1. Page(r) \subseteq rows /\ rows \subseteq Row /\ cursor[r] \in Nat
  BY DEF Page, IInv, TypeOK
<1>2. m \in Seqs(Page(r)) /\ \A k \in Seqs(Page(r)) : k <= m
  <2>1. Seqs(Page(r)) \subseteq 1..MaxSeq(rows) /\ MaxSeq(rows) \in Nat
    BY <1>1, CommittedRun DEF Seqs
  <2>2. \E k \in Seqs(Page(r)) : \A j \in Seqs(Page(r)) : j <= k
    <3>1. Seqs(Page(r)) # {}
      BY DEF Seqs
    <3>2. QED
      BY <2>1, <3>1, LargestOfBounded
  <2>3. PICK k \in Seqs(Page(r)) : \A j \in Seqs(Page(r)) : j <= k
    BY <2>2
  <2>4. m = k
    BY <2>1, <2>3, MaxSeqIs
  <2>5. QED
    BY <2>3, <2>4
<1>3. PICK last \in Page(r) : last.seq = m
  BY <1>2 DEF Seqs
<1>4. m \in Nat /\ cursor[r] < m /\ m <= MaxSeq(rows)
  <2>1. m \in Seqs(rows)
    BY <1>1, <1>3 DEF Seqs
  <2>2. QED
    BY <1>3, <2>1, CommittedRun DEF Page
<1>5. ASSUME NEW row \in rows, cursor[r] < row.seq, row.seq <= m
      PROVE  row \in Page(r)
  <2> HIDE DEF m
  <2>1. row.seq \in Nat
    BY <1>1 DEF Row
  <2>2. After(row.seq) \subseteq After(m)
    <3>1. \A q \in rows : q.seq \in Nat
      BY <1>1 DEF Row
    <3>2. QED
      BY <1>4, <1>5, <2>1, <3>1
  <2>3. IsFiniteSet(After(m))
    BY FS_Subset DEF IInv
  <2>4. Cardinality(After(m)) <= PageLimit
    BY <1>3 DEF Page
  <2>5. /\ Cardinality(After(row.seq)) \in Nat /\ Cardinality(After(m)) \in Nat
        /\ Cardinality(After(row.seq)) <= Cardinality(After(m))
    <3> HIDE DEF After
    <3> QED
      BY <2>2, <2>3, FS_Subset, FS_CardinalityType
  <2>6. Cardinality(After(row.seq)) <= PageLimit
    <3> HIDE DEF After
    <3> QED
      BY <2>4, <2>5, ConstantsAssumption
  <2>7. QED
    BY <1>1, <1>5, <2>1, <2>6 DEF Page
<1>6. Page(r) = {row \in rows : cursor[r] < row.seq /\ row.seq <= m}
  <2>1. \A row \in Page(r) : row \in rows /\ cursor[r] < row.seq /\ row.seq <= m
    BY <1>1, <1>2 DEF Page, Seqs, Row
  <2>2. QED
    BY <1>5, <2>1
<1>7. QED
  BY <1>4, <1>6

LEMMA PollIInv ==
  ASSUME IInv, NEW r \in Readers, Poll(r)
  PROVE  IInv'
<1> DEFINE m == MaxSeq(Page(r))
<1>1. /\ m \in Nat /\ cursor[r] < m /\ m <= MaxSeq(rows)
      /\ Page(r) = {row \in rows : cursor[r] < row.seq /\ row.seq <= m}
  BY PageIsNext DEF Poll
<1> HIDE DEF m
<1>2. /\ cursor' = [cursor EXCEPT ![r] = m]
      /\ got' = [got EXCEPT ![r] = @ \cup Page(r)]
      /\ UNCHANGED <<rows, staged, pc, next_seq>>
  BY DEF Poll, m
<1>3. rows \subseteq Row /\ Page(r) \subseteq rows /\ cursor \in [Readers -> Nat]
      /\ got \in [Readers -> SUBSET Row]
  BY <1>1 DEF IInv, TypeOK
<1>4. TypeOK'
  BY <1>1, <1>2, <1>3 DEF IInv, TypeOK
<1>5. CursorsBehind'
  BY <1>1, <1>2, <1>3 DEF IInv, CursorsBehind
<1>6. NothingSkipped'
  <2>1. got[r] = {row \in rows : row.seq <= cursor[r]}
    BY DEF IInv, NothingSkipped
  <2>2. \A row \in rows : row.seq \in Nat
    BY <1>3 DEF Row
  <2>3. got'[r] = {row \in rows : row.seq <= m}
    BY <1>1, <1>2, <1>3, <2>1, <2>2
  <2>4. cursor'[r] = m /\ rows' = rows
    BY <1>2, <1>3
  <2>5. QED
    BY <1>2, <1>3, <2>3, <2>4 DEF IInv, NothingSkipped
<1>7. QED
  BY <1>2, <1>4, <1>5, <1>6 DEF IInv, Run, StagedFollows, WritersTakeTurns, SelectedSeq

-----------------------------------------------------------------------------
LEMMA NextIInv == IInv /\ [Next]_vars => IInv'
<1> SUFFICES ASSUME IInv, [Next]_vars PROVE IInv'
  OBVIOUS
<1>1. ASSUME NEW w \in Writers, SelectMax(w) PROVE IInv'
  BY <1>1, SelectMaxIInv
<1>2. ASSUME NEW w \in Writers, Insert(w) PROVE IInv'
  BY <1>2, InsertIInv
<1>3. ASSUME NEW w \in Writers, InsertConflict(w) PROVE IInv'
  BY <1>3, EndTxnIInv DEF InsertConflict
<1>4. ASSUME NEW w \in Writers, Commit(w) PROVE IInv'
  BY <1>4, CommitIInv
<1>5. ASSUME NEW w \in Writers, Rollback(w) PROVE IInv'
  BY <1>5, EndTxnIInv DEF Rollback
<1>6. ASSUME NEW r \in Readers, Poll(r) PROVE IInv'
  BY <1>6, PollIInv
<1>7. CASE UNCHANGED vars
  BY <1>7 DEF vars, IInv, TypeOK, Run, StagedFollows, WritersTakeTurns,
              SelectedSeq, CursorsBehind, NothingSkipped
<1>8. QED
  BY <1>1, <1>2, <1>3, <1>4, <1>5, <1>6, <1>7 DEF Next

(* The inductive invariant holds in every state of every journal.            *)
THEOREM Invariance == Spec => []IInv
<1>1. Init => IInv
  BY InitIInv
<1>2. IInv /\ [Next]_vars => IInv'
  BY NextIInv
<1>3. QED
  BY <1>1, <1>2, PTL DEF Spec

(* The variables keep their types: in particular max(seq) + 1 is always a
   seq, whatever was rolled back.                                            *)
THEOREM TypeCorrect == Spec => []TypeOK
<1>1. IInv => TypeOK
  BY DEF IInv
<1>2. QED
  BY <1>1, Invariance, PTL

(* No two transactions have uncommitted events of the run at once.           *)
THEOREM TurnsTaken == Spec => []WritersTakeTurns
<1>1. IInv => WritersTakeTurns
  BY DEF IInv
<1>2. QED
  BY <1>1, Invariance, PTL

(* Committed seqs have no gap.                                               *)
THEOREM NoGaps == Spec => []Contiguous
<1>1. IInv => Contiguous
  BY DEF IInv, Run, Contiguous
<1>2. QED
  BY <1>1, Invariance, PTL

(* A resume cursor loses no event.                                           *)
THEOREM ResumeIsLossless == Spec => []NothingSkipped
<1>1. IInv => NothingSkipped
  BY DEF IInv
<1>2. QED
  BY <1>1, Invariance, PTL

-----------------------------------------------------------------------------
(* A seq that is unique in S names the same event in every part of S that
   has it.                                                                   *)
LEMMA EntryAtPart ==
  ASSUME NEW S, NEW R, R \subseteq S, NEW i \in Seqs(R),
         \A p, q \in S : p.seq = q.seq => p = q
  PROVE  EntryAt(R, i) = EntryAt(S, i)
<1>1. PICK row \in R : row.seq = i
  BY DEF Seqs
<1>2. (CHOOSE p \in R : p.seq = i) = row
  BY <1>1
<1>3. (CHOOSE p \in S : p.seq = i) = row
  BY <1>1
<1>4. QED
  BY <1>2, <1>3 DEF EntryAt

(* A commit publishes a batch at the end of the abstract log.                *)
LEMMA CommitPublishes ==
  ASSUME IInv, NEW w \in Writers, Commit(w)
  PROVE  [Log!Next]_(Log!vars)
<1> DEFINE m == MaxSeq(rows)  n == MaxSeq(rows')
<1>1. IInv' /\ m <= n
  BY CommitIInv
<1>2. rows \subseteq rows' /\ UNCHANGED <<cursor, got>>
  BY DEF Commit
<1>3. m \in Nat /\ Seqs(rows) = 1..m
  BY CommittedRun
<1>4. /\ n \in Nat /\ Seqs(rows') = 1..n
      /\ \A p, q \in rows' : p.seq = q.seq => p = q
  BY <1>1 DEF IInv, Run
<1> HIDE DEF m, n
<1>5. \A i \in 1..m : EntryAt(rows', i) = EntryAt(rows, i)
  BY <1>2, <1>3, <1>4, EntryAtPart
<1>6. CASE m = n
  <2>1. [i \in 1..n |-> EntryAt(rows', i)] = [i \in 1..m |-> EntryAt(rows, i)]
    BY <1>5, <1>6
  <2>2. QED
    BY <1>2, <2>1 DEF Log!vars, m, n
<1>7. CASE m < n
  <2> DEFINE old == [i \in 1..m |-> EntryAt(rows, i)]
             new == [i \in 1..n |-> EntryAt(rows', i)]
  <2>1. Log!Extends(new, old)
    <3>1. DOMAIN old = 1..m /\ DOMAIN new = 1..n
      OBVIOUS
    <3>2. 1..m \subseteq 1..n
      BY <1>3, <1>4, <1>7
    <3>3. n \in 1..n /\ n \notin 1..m
      BY <1>3, <1>4, <1>7
    <3>4. \A i \in 1..m : new[i] = old[i]
      BY <1>5, <3>2
    <3>5. QED
      BY <3>1, <3>2, <3>3, <3>4 DEF Log!Extends
  <2>2. Log!Publish
    BY <1>2, <2>1 DEF Log!Publish, m, n
  <2>3. QED
    BY <2>2 DEF Log!Next
<1>8. QED
  BY <1>1, <1>3, <1>4, <1>6, <1>7

(* A page delivers the abstract entries that follow the ones received.       *)
LEMMA PollDelivers ==
  ASSUME IInv, NEW r \in Readers, Poll(r)
  PROVE  Log!Next
<1> DEFINE m == MaxSeq(Page(r))
           c == cursor[r]
           top == MaxSeq(rows)
           old == [i \in 1..c |-> EntryAt(got[r], i)]
           more == [i \in 1..m |-> EntryAt(got'[r], i)]
           gotBar == [q \in Readers |-> [i \in 1..cursor[q] |-> EntryAt(got[q], i)]]
           logBar == [i \in 1..top |-> EntryAt(rows, i)]
<1>1. m \in Nat /\ c < m /\ m <= top
  BY PageIsNext DEF Poll
<1>2. /\ cursor' = [cursor EXCEPT ![r] = m] /\ rows' = rows
      /\ got' = [got EXCEPT ![r] = @ \cup Page(r)]
  BY DEF Poll
<1>3. /\ cursor \in [Readers -> Nat] /\ got \in [Readers -> SUBSET Row]
      /\ rows \subseteq Row
  BY DEF IInv, TypeOK
<1>4. top \in Nat /\ Seqs(rows) = 1..top /\ \A p, q \in rows : p.seq = q.seq => p = q
  BY DEF IInv, Run
<1>5. got[r] = {row \in rows : row.seq <= c}
  BY DEF IInv, NothingSkipped
<1>6. IInv'
  BY PollIInv
<1>7. got'[r] = {row \in rows : row.seq <= m}
  BY <1>2, <1>3, <1>6 DEF IInv, NothingSkipped
<1> HIDE DEF m, c, top
<1>8. c \in Nat
  BY <1>3 DEF c
<1>9. \A k \in Nat : k <= top => Seqs({row \in rows : row.seq <= k}) = 1..k
  <2> SUFFICES ASSUME NEW k \in Nat, k <= top
               PROVE  Seqs({row \in rows : row.seq <= k}) = 1..k
    OBVIOUS
  <2>1. ASSUME NEW i \in 1..k PROVE i \in Seqs({row \in rows : row.seq <= k})
    <3>1. i \in Seqs(rows)
      BY <1>4
    <3>2. PICK row \in rows : row.seq = i
      BY <3>1 DEF Seqs
    <3>3. QED
      BY <3>2 DEF Seqs
  <2>2. ASSUME NEW i \in Seqs({row \in rows : row.seq <= k}) PROVE i \in 1..k
    <3>1. i \in Seqs(rows) /\ i <= k
      BY DEF Seqs
    <3>2. QED
      BY <1>4, <3>1
  <2>3. QED
    BY <2>1, <2>2
<1>10. \A i \in 1..m : EntryAt(got'[r], i) = EntryAt(rows, i)
  BY <1>1, <1>4, <1>7, <1>9, EntryAtPart
<1>11. \A i \in 1..c : EntryAt(got[r], i) = EntryAt(rows, i)
  BY <1>1, <1>4, <1>5, <1>8, <1>9, EntryAtPart
<1>12. more = [i \in 1..m |-> logBar[i]] /\ m \in 1..top
  BY <1>1, <1>4, <1>8, <1>10
<1>13. Log!Extends(more, old)
  <2>1. DOMAIN old = 1..c /\ DOMAIN more = 1..m
    OBVIOUS
  <2>2. 1..c \subseteq 1..m /\ m \in 1..m /\ m \notin 1..c
    BY <1>1, <1>8
  <2>3. \A i \in 1..c : more[i] = old[i]
    BY <1>10, <1>11, <2>2
  <2>4. QED
    BY <2>1, <2>2, <2>3 DEF Log!Extends
<1>14. gotBar' = [gotBar EXCEPT ![r] = more]
  <2>1. \A q \in Readers : q # r => cursor'[q] = cursor[q] /\ got'[q] = got[q]
    BY <1>2, <1>3
  <2>2. cursor'[r] = m
    BY <1>2, <1>3
  <2>3. QED
    BY <2>1, <2>2
<1>15. gotBar[r] = old
  BY DEF c
<1>16. Log!Deliver(r)
  <2>1. more \in {[i \in 1..k |-> logBar[i]] : k \in DOMAIN logBar}
    BY <1>12
  <2>2. logBar' = logBar
    BY <1>2 DEF top
  <2> HIDE DEF more, old
  <2>3. QED
    BY <1>13, <1>14, <1>15, <2>1, <2>2 DEF Log!Deliver, top
<1>17. QED
  BY <1>16 DEF Log!Next

(* The journal implements the abstract log: concurrent transactions that
   select, wait, fail and roll back look like whole batches appended one
   after the other, and every reader holds a prefix.                         *)
THEOREM Refinement == Spec => ImplementsEventLog
<1>1. Init => Log!Init
  <2> SUFFICES ASSUME Init PROVE Log!Init
    OBVIOUS
  <2>1. rows = {} /\ MaxSeq(rows) = 0 /\ \A r \in Readers : cursor[r] = 0
    BY MaxSeqOfNone DEF Init
  <2>2. 1..0 = {}
    OBVIOUS
  <2>3. [i \in 1..MaxSeq(rows) |-> EntryAt(rows, i)]
          = [i \in 1..0 |-> CHOOSE e \in Writers : TRUE]
    BY <2>1, <2>2
  <2>4. \A r \in Readers : [i \in 1..cursor[r] |-> EntryAt(got[r], i)]
          = [i \in 1..MaxSeq(rows) |-> EntryAt(rows, i)]
    BY <2>1, <2>2
  <2>5. QED
    BY <2>3, <2>4 DEF Log!Init
<1>2. IInv /\ [Next]_vars => [Log!Next]_(Log!vars)
  <2> SUFFICES ASSUME IInv, [Next]_vars PROVE [Log!Next]_(Log!vars)
    OBVIOUS
  <2>1. ASSUME NEW w \in Writers, Commit(w) PROVE [Log!Next]_(Log!vars)
    BY <2>1, CommitPublishes
  <2>2. ASSUME NEW r \in Readers, Poll(r) PROVE Log!Next
    BY <2>2, PollDelivers
  <2>3. ASSUME NEW w \in Writers,
               SelectMax(w) \/ Insert(w) \/ InsertConflict(w) \/ Rollback(w)
        PROVE  UNCHANGED <<rows, cursor, got>>
    BY <2>3 DEF SelectMax, Insert, InsertConflict, Rollback
  <2>4. UNCHANGED <<rows, cursor, got>> => UNCHANGED Log!vars
    BY DEF Log!vars
  <2>5. CASE UNCHANGED vars
    BY <2>4, <2>5 DEF vars
  <2>6. QED
    BY <2>1, <2>2, <2>3, <2>4, <2>5 DEF Next
<1>3. QED
  BY <1>1, <1>2, Invariance, PTL DEF Spec, ImplementsEventLog, Log!Spec
=============================================================================
