-------------------------------- MODULE FanOut --------------------------------
(***************************************************************************)
(* What a call that runs several queries at once promises its caller,      *)
(* without goroutines, counters or locks.  Module QueryData implements it. *)
(*                                                                         *)
(* The call settles on a set of queries.  Each of them finishes at a time  *)
(* of its own and leaves its outcome under its name; queries of one name   *)
(* overwrite each other.  The call returns when none is left, with an      *)
(* error if it is to report errors and some name was left with one.        *)
(***************************************************************************)
CONSTANTS
    Query,     \* the queries there can be
    RefID,     \* their names
    RefOf,     \* the name of each
    Outcome,   \* how a query may finish
    Bad,       \* the outcomes that are errors
    Choices,   \* the sets of queries a call may settle on
    Errors     \* whether errors are reported

VARIABLES
    stage,     \* "choosing", "running" or "returned"
    pending,   \* queries that have not finished
    outcome,   \* by name
    returned   \* the error of the call

vars == <<stage, pending, outcome, returned>>

Init ==
    /\ stage = "choosing"
    /\ pending = {}
    /\ outcome = [id \in RefID |-> "none"]
    /\ returned = "none"

Settle ==
    /\ stage = "choosing"
    /\ stage' = "running"
    /\ pending' \in Choices
    /\ UNCHANGED <<outcome, returned>>

Finish(q) ==
    /\ stage = "running" /\ q \in pending
    /\ pending' = pending \ {q}
    /\ \E o \in Outcome : outcome' = [outcome EXCEPT ![RefOf[q]] = o]
    /\ UNCHANGED <<stage, returned>>

Return ==
    /\ stage = "running" /\ pending = {}
    /\ stage' = "returned"
    /\ returned' = IF Errors /\ \E id \in RefID : outcome[id] \in Bad
                   THEN "errors" ELSE "nil"
    /\ UNCHANGED <<pending, outcome>>

Next == Settle \/ (\E q \in Query : Finish(q)) \/ Return

Spec == Init /\ [][Next]_vars

=============================================================================
