--------------------------- MODULE MCQueueManager ---------------------------
(***************************************************************************)
(* QueueManager for TLC: the queues of two configurations, and messages    *)
(* that are numbered queue by queue.                                       *)
(***************************************************************************)
EXTENDS QueueManager

\* queue_prefix, channels and queues set so that the prefix is what is stripped.
Settlement == <<"app", "bet_settlement">>
Rollback   == <<"app", "rollback_bet_settlement">>
TwoQueues  == {Settlement, Rollback}

\* What .env sets: queues=ussd_wrapper, one of its four channels, no prefix.
ShippedQueue == {<<"bet_settlement_rollback", "ussd_wrapper">>}

\* One of them is a name that no other branch of RouteMessage mentions.
WithThePrefix == {"bet_settlement", "bet_settlement_rollback",
                  "bet_settlement_retry"}

\* A message is its queue and a number.
OneEach == {<<q, 1>> : q \in Callers}

\* Only the settlement queue has a message.
OneOnly == {<<Settlement, 1>>}

FirstOf == [m \in Messages |-> m[1]]
=============================================================================
