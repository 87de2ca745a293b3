------------------------------ MODULE Receiver ------------------------------
(***************************************************************************)
(* The PHP service the collector uploads to.  It is not part of the        *)
(* repository; this is the contract that uploader.py and protocol.py code  *)
(* against: one transaction per batch, a receipt per accepted event, and a *)
(* verdict per event of the batch.                                         *)
(***************************************************************************)
CONSTANTS
    Stations, Events, StationOf,
    Refused          \* events it never accepts: event_conflict, too_old, future_timestamp

VARIABLES
    receipts,        \* the events accepted, each once and for ever
    admission        \* what its administrator decided about a station

Verdicts == {"missing", "stored", "duplicate", "pending", "refused", "blocked"}
Confirmed == {"stored", "duplicate"}

ReceiverTypeOK ==
    /\ receipts \in SUBSET Events
    /\ admission \in [Stations -> {"pending", "adopted", "blocked"}]

ReceiverInit ==
    /\ receipts = {}
    /\ admission \in [Stations -> {"pending", "adopted"}]

\* The verdict on one event of a batch, at the moment of the transaction.
Verdict(e) ==
    CASE e \in receipts -> "duplicate"
      [] e \notin receipts /\ admission[StationOf[e]] = "pending" -> "pending"
      [] e \notin receipts /\ admission[StationOf[e]] = "blocked" -> "blocked"
      [] e \notin receipts /\ admission[StationOf[e]] = "adopted" /\ e \in Refused -> "refused"
      [] e \notin receipts /\ admission[StationOf[e]] = "adopted" /\ e \notin Refused -> "stored"

\* The transaction: every event of the batch it can accept gets its receipt.
Commit(packets) ==
    /\ receipts' = receipts \cup {e \in packets : Verdict(e) = "stored"}
    /\ UNCHANGED admission

Adopt(s) ==
    /\ admission[s] # "adopted"
    /\ admission' = [admission EXCEPT ![s] = "adopted"]
    /\ UNCHANGED receipts

Block(s) ==
    /\ admission[s] # "blocked"
    /\ admission' = [admission EXCEPT ![s] = "blocked"]
    /\ UNCHANGED receipts
=============================================================================
