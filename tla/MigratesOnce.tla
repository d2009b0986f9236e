---------------------------- MODULE MigratesOnce ----------------------------
(***************************************************************************)
(* What the migrations promise, however often the service is started, by   *)
(* however many processes, and whatever dies: the schema is made once.     *)
(* When that is done it is whole, and nothing touches it again; when it is *)
(* cut off nothing repairs it either.                                      *)
(***************************************************************************)
VARIABLES
  stage,  \* "none", "making", "made" or "broken"
  whole   \* whether everything the migration makes is there

Init == stage = "none" /\ whole = FALSE

Begin == stage = "none" /\ stage' = "making" /\ UNCHANGED whole

Make == stage = "making" /\ whole' \in BOOLEAN /\ UNCHANGED stage

Finish == stage = "making" /\ whole /\ stage' = "made" /\ UNCHANGED whole

Break == stage = "making" /\ stage' = "broken" /\ UNCHANGED whole

Next == Begin \/ Make \/ Finish \/ Break

Spec == Init /\ [][Next]_<<stage, whole>>
=============================================================================
