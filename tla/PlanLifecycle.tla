--------------------------- MODULE PlanLifecycle ---------------------------
(***************************************************************************)
(* What the metadata tools promise about a prepared plan, without saying   *)
(* how: a plan is prepared once, then it may be installed into the         *)
(* infobase any time until it is settled or dropped, and what is settled   *)
(* or dropped stays so and is never installed again.                       *)
(***************************************************************************)
CONSTANTS Plans, NoPlan

VARIABLES
  status,  \* status[id]: where plan id is in its life
  holder   \* the plan whose content was written to the infobase last, if any

vars == <<status, holder>>

Outcomes == {"applied", "rolled_back", "rollback_failed"}

Init == status = [id \in Plans |-> "none"] /\ holder = NoPlan

Prepare(id) ==
  /\ status[id] = "none"
  /\ status' = [status EXCEPT ![id] = "prepared"]
  /\ UNCHANGED holder

Install(id) ==
  /\ status[id] = "prepared"
  /\ holder' = id
  /\ UNCHANGED status

\* A plan is not called rolled back while its content is in the infobase.
Settle(id, outcome) ==
  /\ status[id] = "prepared"
  /\ outcome = "rolled_back" => holder # id
  /\ status' = [status EXCEPT ![id] = outcome]
  /\ UNCHANGED holder

Drop(id) ==
  /\ status[id] \in {"none", "prepared"}
  /\ status' = [status EXCEPT ![id] = "gone"]
  /\ UNCHANGED holder

\* An edit or a restore replaces what a plan wrote.
Overwrite == holder' = NoPlan /\ UNCHANGED status

Next ==
  \/ \E id \in Plans : Prepare(id) \/ Install(id) \/ Drop(id)
  \/ \E id \in Plans, outcome \in Outcomes : Settle(id, outcome)
  \/ Overwrite

Spec == Init /\ [][Next]_vars
=============================================================================
