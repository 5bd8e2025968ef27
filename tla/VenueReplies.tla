--------------------------- MODULE VenueReplies ---------------------------
(***************************************************************************)
(* What one automatic venue can do with an order and what its connector    *)
(* reports of it: the contract between the execution coordinator and the   *)
(* two official connectors, connectors/betfair.py and connectors/betflag.py.*)
(*                                                                         *)
(* A stake is abstracted to three amounts: nothing, a part, and all of it. *)
(* What the venue really holds of an order (its "book" entry) is kept      *)
(* apart from the result the connector returns, since the two differ.      *)
(***************************************************************************)
EXTENDS Integers

CONSTANTS
  Venues,       \* the automatic venues
  RefVenues,    \* those that look an order up by customer reference (Betfair);
                \* the others (BetFlag) need a market id or the order itself
  FillOrKill,   \* ExecutionPolicy.require_full_fill_exchange
  PromptCancel, \* TRUE: a cancel request always takes the whole remainder
  LateReports   \* TRUE: a report that is no success, a TIMEOUT say, may be of an
                \* order that Betfair has in its book all the same

ASSUME VenueAssumption ==
  /\ RefVenues \subseteq Venues
  /\ FillOrKill \in BOOLEAN
  /\ PromptCancel \in BOOLEAN
  /\ LateReports \in BOOLEAN

Full   == 2
Stakes == 0..Full

ResultStatus == {"accepted", "partially_matched", "pending", "rejected",
                 "cancelled", "unknown"}
Result == [status : ResultStatus, matched : Stakes]

\* fully_matched needs no field: every result with status "accepted" has
\* matched_stake >= requested_stake, and no other result has it with a stake.
Reported(status, matched) == [status |-> status, matched |-> matched]
Rejected == Reported("rejected", 0)
Unknown  == Reported("unknown", 0)

Book == [received : BOOLEAN, held : Stakes, resting : BOOLEAN]
Untouched  == [received |-> FALSE, held |-> 0, resting |-> FALSE]
Lying(h)   == [received |-> TRUE, held |-> h, resting |-> TRUE]
Closed(h)  == [received |-> TRUE, held |-> h, resting |-> FALSE]

\* The venue matched h of the order on arrival: the rest stays in its book.
Arrived(h) == IF h = Full THEN Closed(Full) ELSE Lying(h)

Reply(status, matched, entry) ==
  [result |-> Reported(status, matched), book |-> entry]

\* What Betfair's book may hold of an order that arrived.
BetfairBooks ==
  IF FillOrKill THEN { Closed(0), Closed(Full) } ELSE { Arrived(h) : h \in Stakes }

\* (mutant) The size asked for is kept instead of the matched one.
LateReplies_Requested == { Reply("rejected", Full, b) : b \in BetfairBooks }

\* placeOrders, and the status table under its response. A report that is no
\* success is a rejection, whatever it is about; its matched size is kept.
LateReplies ==
  UNION { { Reply("rejected", m, b) : m \in 0..b.held } : b \in BetfairBooks }

BetfairPlace ==
  { Reply("rejected", 0, Untouched), Reply("accepted", Full, Closed(Full)) }
    \cup (IF LateReports THEN LateReplies ELSE {})
    \cup (IF FillOrKill
          THEN { Reply("cancelled", 0, Closed(0)) }
          ELSE { Reply("partially_matched", 1, Lying(1)),
                 Reply("pending", 0, Lying(0)) })

\* POST /offers, then a DELETE of the unmatched remainder whose exception is
\* swallowed; the result carries the amount matched before the DELETE.
BetFlagPlace ==
  { Reply("accepted", Full, Closed(Full)),
    Reply("partially_matched", 1, Closed(1)),
    Reply("cancelled", 0, Closed(0)),
    Reply("unknown", 0, Untouched) }
    \cup { Reply("unknown", 0, Arrived(h)) : h \in Stakes }
    \cup (IF PromptCancel THEN {}
          ELSE { Reply("partially_matched", 1, Lying(1)),
                 Reply("partially_matched", 1, Closed(Full)),
                 Reply("cancelled", 0, Lying(0)) }
               \cup { Reply("cancelled", 0, Closed(h)) : h \in 1..Full })

PlaceReplies(v) == IF v \in RefVenues THEN BetfairPlace ELSE BetFlagPlace

\* place_order raised: the request was lost, or it arrived and the answer was.
LostBooks(v) ==
  { Untouched }
    \cup (IF v \in RefVenues THEN BetfairBooks ELSE { Arrived(h) : h \in Stakes })

\* (mutant) The requested size is reported as matched.
RowResult_Requested(b) ==
  IF b.held > 0 \/ b.resting THEN Reported("accepted", Full)
                             ELSE Reported("cancelled", 0)

\* Betfair's listCurrentOrders row read as a result: "requested" is computed
\* as matched + remaining, so an order whose remainder was cancelled counts
\* as accepted whatever part of it was matched.
RowResult(b) ==
  IF b.held > 0 /\ ~b.resting THEN Reported("accepted", b.held)
  ELSE IF b.held > 0          THEN Reported("partially_matched", b.held)
  ELSE IF b.resting           THEN Reported("pending", 0)
                              ELSE Reported("cancelled", 0)

\* An order the venue does not list is UNKNOWN. BetFlag's reconcile gets
\* neither market id nor order from the coordinator: always UNKNOWN.
ReconcileResults(v, b) ==
  {Unknown} \cup (IF v \in RefVenues /\ b.received THEN {RowResult(b)} ELSE {})

\* A cancel request takes the remainder, or fails with a result that the
\* coordinator does not look at.
CancelBooks(b) ==
  { [b EXCEPT !.resting = FALSE] } \cup (IF PromptCancel THEN {} ELSE {b})
=============================================================================
