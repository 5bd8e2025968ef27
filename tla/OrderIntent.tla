---------------------------- MODULE OrderIntent ----------------------------
(***************************************************************************)
(* What the execution core promises about each single order, whatever run, *)
(* command, crash or retry it belongs to: it goes on the canary's record   *)
(* before it goes to the venue, it goes to the venue once, what is matched *)
(* of it never shrinks and never changes after the order has closed, and   *)
(* the ledger never claims more of it than is matched.                     *)
(***************************************************************************)
EXTENDS Integers

CONSTANTS
  Orders,     \* every order a run can ever have
  Book,       \* what a venue can hold of an order: records with held, resting
  Untouched   \* the venue never heard of it

VARIABLES
  attempts,   \* the orders on the canary's record
  sent,       \* how often the venue was asked for each order
  book,       \* what its venue holds of it
  claimed     \* how much of it the ledger says is matched

orders == <<attempts, sent, book, claimed>>

Init ==
  /\ attempts = {}
  /\ sent = [k \in Orders |-> 0]
  /\ book = [k \in Orders |-> Untouched]
  /\ claimed = [k \in Orders |-> 0]

Authorise(k) ==
  /\ k \notin attempts
  /\ attempts' = attempts \cup {k}
  /\ UNCHANGED <<sent, book, claimed>>

\* The venue may match any part of the order, and may keep the rest.
Submit(k) ==
  /\ k \in attempts
  /\ sent[k] = 0
  /\ book[k] = Untouched
  /\ sent' = [sent EXCEPT ![k] = 1]
  /\ \E b \in Book : book' = [book EXCEPT ![k] = b]
  /\ UNCHANGED <<attempts, claimed>>

\* A manual leg is a bet that no program submits: it lies in no book.
BetByHand(k) ==
  /\ k \notin attempts
  /\ book[k] = Untouched
  /\ \E b \in Book : ~b.resting /\ book' = [book EXCEPT ![k] = b]
  /\ UNCHANGED <<attempts, sent, claimed>>

\* The remainder is matched further, cancelled, or lapses.
Match(k) ==
  /\ book[k].resting
  /\ \E b \in Book : b.held >= book[k].held /\ book' = [book EXCEPT ![k] = b]
  /\ UNCHANGED <<attempts, sent, claimed>>

Claim(k) ==
  /\ UNCHANGED <<attempts, sent, book>>
  /\ claimed'[k] \in 0..book[k].held
  /\ claimed' = [claimed EXCEPT ![k] = claimed'[k]]

Next ==
  \E k \in Orders :
    Claim(k) \/ Authorise(k) \/ Submit(k) \/ Match(k) \/ BetByHand(k)

Spec == Init /\ [][Next]_orders
=============================================================================
