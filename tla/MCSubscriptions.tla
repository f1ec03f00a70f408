---------------------------- MODULE MCSubscriptions ----------------------------
(* Subscriptions for TLC. *)
EXTENDS Subscriptions, TLC
CONSTANTS e1, e2
MCPlans  == 0..2
MCStarts == {[opened |-> {e1}, served |-> NoSub], [opened |-> {}, served |-> e1],
             [opened |-> {e2}, served |-> e1]}
Sym == Permutations(Actors)
===============================================================================
