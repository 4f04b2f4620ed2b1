------------------------------ MODULE Channel ------------------------------
(***************************************************************************)
(* What the outgoing queue promises to the people at its two ends, without *)
(* workers, claims, timeouts or crashes.                                   *)
(*                                                                         *)
(* Rows go out one at a time and in order.  The chat takes a row at most   *)
(* once per try; a row that is out comes back only if the chat did not     *)
(* take it; the verdict on a row is what happened to it.  A row that may   *)
(* have been taken is offered again only if an operator says so, and only  *)
(* rows an operator has touched may break the order.                       *)
(***************************************************************************)
EXTENDS Naturals

CONSTANT Deliveries    \* positions in the queue

VARIABLES
    row,        \* where a row is
    try,        \* how often it was offered
    taken,      \* the tries the chat took
    repeated,   \* the tries an operator repeats although their fate is open
    touched     \* the rows an operator has touched

vars == <<row, try, taken, repeated, touched>>

Over == {"delivered", "dropped"}

Init ==
    /\ row = [d \in Deliveries |-> "absent"]
    /\ try = [d \in Deliveries |-> 0]
    /\ taken = [d \in Deliveries |-> {}]
    /\ repeated = [d \in Deliveries |-> {}]
    /\ touched = {}

Offer(d) ==
    /\ row[d] = "waiting"
    /\ \A e \in Deliveries : e < d => row[e] \in Over \/ e \in touched
    /\ row' = [row EXCEPT ![d] = "out"]
    /\ try' = [try EXCEPT ![d] = @ + 1]
    /\ UNCHANGED <<taken, repeated, touched>>

\* The chat takes the offer at hand, or one whose fate an operator left open.
Take(d) ==
    /\ \E g \in 1..try[d] :
        /\ g \notin taken[d]
        /\ g < try[d] => g \in repeated[d]
        /\ taken' = [taken EXCEPT ![d] = @ \cup {g}]
    /\ \/ /\ row[d] = "out"
          /\ \A e \in Deliveries : d <= e => taken[e] = {}
       \/ d \in touched
    /\ UNCHANGED <<row, try, repeated, touched>>

\* The row was not taken, and is to be offered once more.
Return(d) ==
    /\ row[d] = "out"
    /\ try[d] \notin taken[d]
    /\ row' = [row EXCEPT ![d] = "waiting"]
    /\ UNCHANGED <<try, taken, repeated, touched>>

Settle(d) ==
    /\ row[d] = "out"
    /\ row' = [row EXCEPT ![d] = IF try[d] \in taken[d] THEN "delivered" ELSE "dropped"]
    /\ UNCHANGED <<try, taken, repeated, touched>>

Follows(d) ==
    /\ row[d] = "absent"
    /\ \A e \in Deliveries : row[e] # "absent" <=> e < d

\* Rows that wait are withdrawn, one or all of them, and the next is appended.
Edit ==
    /\ \E D \in SUBSET {d \in Deliveries : row[d] = "waiting"},
          N \in SUBSET {d \in Deliveries : Follows(d)} :
        row' = [d \in Deliveries |-> IF d \in D THEN "dropped"
                                     ELSE IF d \in N THEN "waiting" ELSE row[d]]
    /\ UNCHANGED <<try, taken, repeated, touched>>

Repeat(d) ==
    /\ row[d] \in {"out", "dropped"}
    /\ row' = [row EXCEPT ![d] = "waiting"]
    /\ repeated' = IF row[d] = "out" THEN [repeated EXCEPT ![d] = @ \cup {try[d]}] ELSE repeated
    /\ touched' = touched \cup {d}
    /\ UNCHANGED <<try, taken>>

GiveUp(d) ==
    /\ row[d] \in {"waiting", "out", "dropped"}
    /\ row' = [row EXCEPT ![d] = "dropped"]
    /\ touched' = touched \cup {d}
    /\ UNCHANGED <<try, taken, repeated>>

Next ==
    \/ Edit
    \/ \E d \in Deliveries :
        Offer(d) \/ Take(d) \/ Return(d) \/ Settle(d) \/ Repeat(d) \/ GiveUp(d)

Spec == Init /\ [][Next]_vars
=============================================================================
