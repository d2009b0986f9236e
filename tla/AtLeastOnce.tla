----------------------------- MODULE AtLeastOnce -----------------------------
(***************************************************************************)
(* What the queue manager promises of the messages in its queues: it hands *)
(* each of them to a handler, perhaps more than once, and removes it only  *)
(* after a handler has succeeded with it.                                  *)
(***************************************************************************)
EXTENDS Naturals

CONSTANT Messages

VARIABLES
  pending,   \* the messages not yet removed
  handled,   \* how often each was given to its handler
  succeeded  \* those of which the handler has returned no error

Init ==
  /\ pending = Messages
  /\ handled = [m \in Messages |-> 0]
  /\ succeeded = {}

\* The handler is given m; ok is whether it succeeds.
Handle(m, ok) ==
  /\ m \in pending
  /\ handled' = [handled EXCEPT ![m] = @ + 1]
  /\ succeeded' = IF ok THEN succeeded \cup {m} ELSE succeeded
  /\ UNCHANGED pending

Remove(m) ==
  /\ m \in pending \cap succeeded
  /\ pending' = pending \ {m}
  /\ UNCHANGED <<handled, succeeded>>

Next == \E m \in Messages : Remove(m) \/ \E ok \in BOOLEAN : Handle(m, ok)

Spec == Init /\ [][Next]_<<pending, handled, succeeded>>
=============================================================================
