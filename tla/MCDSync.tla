------------------------------ MODULE MCDSync ------------------------------
(* Instances of DSync for TLC: clients run on different nodes and try twice. *)
EXTENDS DSync

Homes == [c \in Clients |-> IF c \in Writers THEN 1 ELSE 2]
Tries == [c \in Clients |-> 2]
=============================================================================
