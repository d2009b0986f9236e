-------------------------- MODULE MCRabbitClient --------------------------
(***************************************************************************)
(* RabbitClient for TLC.  The callers are interchangeable.  So are the     *)
(* connections, but Connect takes the first one that is free: which of     *)
(* them is which is left out by a view, and not by symmetry.               *)
(***************************************************************************)
EXTENDS RabbitClient, TLC

Symmetry == Permutations(Callers)

\* The connections that are there in some way, without their names, and how many
\* there are of each kind.
Used == open \cup {current} \cup {c \in Conns : watchers[c] > 0} \cup {chan[p] : p \in Callers}

Nameless(c) == IF c = None THEN c
               ELSE <<c \in open, watchers[c], c = current, {p \in Callers : chan[p] = c}>>

UpToNames ==
  LET kinds == {Nameless(c) : c \in Used} IN
  <<[k \in kinds |-> Cardinality({c \in Used : Nameless(c) = k})],
    connected, reconnects, starting, reporting, sending, pc, after, seen, faults>>
=============================================================================
