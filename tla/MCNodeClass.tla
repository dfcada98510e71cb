---------------------------- MODULE MCNodeClass ----------------------------
(* Finite instances of NodeClass for TLC. *)
EXTENDS NodeClass

CONSTANTS tp1

\* Every subscription is made through the same topic.
OneTopic == [s \in Subs |-> tp1]
=============================================================================
