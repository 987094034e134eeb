------------------------------ MODULE EventLog ------------------------------
(***************************************************************************)
(* What the journal of one run promises its readers, whatever the database *)
(* does underneath: a log that only grows at its end, and readers that     *)
(* each hold a prefix of it, without a gap, a repetition or a reordering.  *)
(* The log and a reader's copy are functions over 1..n, that is sequences. *)
(***************************************************************************)
EXTENDS Naturals

CONSTANTS
  Readers,   \* cursors held by stream clients
  Entries    \* what one entry of the log can be

VARIABLES
  log,       \* the entries published so far, in order
  got        \* got[r]: what reader r has received, in order

vars == <<log, got>>

\* new is old followed by at least one more entry.
Extends(new, old) ==
  /\ DOMAIN old \subseteq DOMAIN new
  /\ DOMAIN old # DOMAIN new
  /\ \A i \in DOMAIN old : new[i] = old[i]

Init ==
  /\ log = [i \in 1..0 |-> CHOOSE e \in Entries : TRUE]
  /\ got = [r \in Readers |-> log]

\* A transaction publishes all of its entries at once, at the end of the log.
Publish ==
  /\ Extends(log', log)
  /\ UNCHANGED got

\* A reader receives the entries that follow the ones it has.
Deliver(r) ==
  /\ \E more \in {[i \in 1..n |-> log[i]] : n \in DOMAIN log} :
       /\ Extends(more, got[r])
       /\ got' = [got EXCEPT ![r] = more]
  /\ UNCHANGED log

Next == Publish \/ \E r \in Readers : Deliver(r)

Spec == Init /\ [][Next]_vars
=============================================================================
