-------------------------- MODULE RequestContract --------------------------
(***************************************************************************)
(* What an event loop promises the server about the requests it is given,  *)
(* whatever handlers, clients and shutdown do: a request is refused or     *)
(* accepted, an accepted one is answered exactly once, and when stop()     *)
(* returns nothing accepted is left unanswered and nothing is accepted any *)
(* more.                                                                   *)
(***************************************************************************)
CONSTANT Ids            \* the requests

VARIABLES
    answer,     \* "none", "pending", or how the request was answered
    stopped     \* stop() has returned

Answers == {"handler", "error", "dropped"}

Init ==
    /\ answer = [r \in Ids |-> "none"]
    /\ stopped = FALSE

Accept(r) ==
    /\ ~stopped
    /\ answer[r] = "none"
    /\ answer' = [answer EXCEPT ![r] = "pending"]
    /\ UNCHANGED stopped

\* The outcome, or the dropped sender, is in the channel from the start.
Refuse(r) ==
    /\ answer[r] = "none"
    /\ \E a \in {"error", "dropped"} : answer' = [answer EXCEPT ![r] = a]
    /\ UNCHANGED stopped

\* A dropped sender is no answer for a request that was accepted.
Answer(r) ==
    /\ answer[r] = "pending"
    /\ \E a \in {"handler", "error"} : answer' = [answer EXCEPT ![r] = a]
    /\ UNCHANGED stopped

Stop ==
    /\ ~stopped
    /\ \A r \in Ids : answer[r] # "pending"
    /\ stopped' = TRUE
    /\ UNCHANGED answer

Next == Stop \/ \E r \in Ids : Accept(r) \/ Refuse(r) \/ Answer(r)

Spec == Init /\ [][Next]_<<answer, stopped>>
=============================================================================
