---------------------------- MODULE CampaignLedger ----------------------------
(***************************************************************************)
(* What fuzz-progress.json promises about one campaign, whatever stops and *)
(* however often a result is applied: the time on the books only grows,    *)
(* each session is charged at most once, and the sum stays below the       *)
(* budget and the grace that rounding gives.  FuzzCampaign implements it.  *)
(***************************************************************************)
EXTENDS Integers

CONSTANTS
  Sessions,   \* the sessions a campaign may have
  Ceiling     \* the time the books stay below

VARIABLES
  charged,    \* the time on the books
  booked      \* the sessions charged

Empty == charged = 0 /\ booked = {}

Charge(id, time) ==
  /\ id \notin booked
  /\ charged + time < Ceiling
  /\ charged' = charged + time
  /\ booked' = booked \cup {id}

Book == \E id \in Sessions, time \in 0..Ceiling : Charge(id, time)

Spec == Empty /\ [][Book]_<<charged, booked>>

=============================================================================
