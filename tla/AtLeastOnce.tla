---------------------------- MODULE AtLeastOnce -----------------------------
(***************************************************************************)
(* What the send path promises for each message, with no queue, claim,     *)
(* worker or sweep in sight.  A message is pending from the moment it is   *)
(* written until a verdict is recorded.  The provider takes a message at   *)
(* most once, while it is pending, and the verdict tells whether it did -  *)
(* unless the message slips: an answer is lost, or the attempt holding it  *)
(* is given up for dead.  Only then may the provider take it again, or     *)
(* after a verdict, and only then may the verdict be corrected to `sent`.  *)
(***************************************************************************)
EXTENDS Naturals

CONSTANT Messages

VARIABLES
    outcome,    \* what the customer is told
    taken,      \* how often the provider took the message; 2 stands for more
    slipped     \* the messages the guarantee is weakened for

vars == <<outcome, taken, slipped>>

Outcomes == {"absent", "pending", "sent", "failed", "canceled"}

Init ==
    /\ outcome = [m \in Messages |-> "absent"]
    /\ taken = [m \in Messages |-> 0]
    /\ slipped = {}

Accept(S) ==
    /\ \A m \in S : outcome[m] = "absent"
    /\ outcome' = [m \in Messages |-> IF m \in S THEN "pending" ELSE outcome[m]]
    /\ UNCHANGED <<taken, slipped>>

Take(m) ==
    /\ outcome[m] # "absent"
    /\ m \in slipped \/ (outcome[m] = "pending" /\ taken[m] = 0)
    /\ taken' = [taken EXCEPT ![m] = IF @ = 2 THEN 2 ELSE @ + 1]
    /\ slipped' \in {slipped, slipped \cup {m}}
    /\ UNCHANGED outcome

Slip(m) ==
    /\ outcome[m] = "pending"
    /\ slipped' = slipped \cup {m}
    /\ UNCHANGED <<outcome, taken>>

Sent(m) ==
    /\ outcome[m] = "pending" \/ m \in slipped
    /\ taken[m] > 0
    /\ outcome' = [outcome EXCEPT ![m] = "sent"]
    /\ UNCHANGED <<taken, slipped>>

\* A hold cancels many messages at a time.
NotSent(S, verdict) ==
    /\ verdict \in {"failed", "canceled"}
    /\ \A m \in S : outcome[m] = "pending" /\ (taken[m] = 0 \/ m \in slipped)
    /\ outcome' = [m \in Messages |-> IF m \in S THEN verdict ELSE outcome[m]]
    /\ UNCHANGED <<taken, slipped>>

Next ==
    \/ \E S \in SUBSET Messages :
          Accept(S) \/ NotSent(S, "failed") \/ NotSent(S, "canceled")
    \/ \E m \in Messages : Take(m) \/ Slip(m) \/ Sent(m)

Spec == Init /\ [][Next]_vars
=============================================================================
