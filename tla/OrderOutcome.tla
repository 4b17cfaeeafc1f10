---------------------------- MODULE OrderOutcome ----------------------------
(***************************************************************************)
(* What reconciliation promises about one submitted order, whatever the    *)
(* provider answers on the way: the exchange decides the order once, and   *)
(* the verdict recorded on the execution claim is given once, after that   *)
(* decision, and agrees with it.                                           *)
(***************************************************************************)

VARIABLES
  outcome,  \* what became of the order at the exchange
  verdict   \* what its execution claim was released with

Outcomes == {"executed", "unexecuted", "partly_executed"}

Init == outcome = "undecided" /\ verdict = "none"

Decide ==
  /\ outcome = "undecided"
  /\ outcome' \in Outcomes
  /\ UNCHANGED verdict

Pronounce ==
  /\ outcome \in Outcomes
  /\ verdict = "none"
  /\ verdict' = outcome
  /\ UNCHANGED outcome

Next == Decide \/ Pronounce

Spec == Init /\ [][Next]_<<outcome, verdict>>

=============================================================================
