---------------------------- MODULE UssdDialogue ----------------------------
(***************************************************************************)
(* What the dialogues promise about money: a payment is asked about, then  *)
(* confirmed, then made, each in a step of its own, and what is made is    *)
(* what was asked.  That it was asked about is known from the sessions in  *)
(* Redis, and so may be forgotten at any time.                             *)
(***************************************************************************)
CONSTANT Acceptable  \* the payments a subscriber may be asked about

VARIABLES
  asked,      \* payments that a subscriber is being asked to confirm
  confirmed,  \* those among them that he has confirmed
  paid        \* payments made

Init == asked = {} /\ confirmed = {} /\ paid = {}

Ask == /\ asked' \ asked \subseteq Acceptable
       /\ confirmed' \subseteq confirmed
       /\ UNCHANGED paid

Confirm == /\ confirmed' \subseteq confirmed \cup asked
           /\ asked' \subseteq asked
           /\ UNCHANGED paid

Pay == \E p \in confirmed :
         /\ paid' = paid \cup {p}
         /\ asked' \subseteq asked
         /\ confirmed' \subseteq confirmed

Next == Ask \/ Confirm \/ Pay

Spec == Init /\ [][Next]_<<asked, confirmed, paid>>
=============================================================================
