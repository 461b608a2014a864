----------------------------- MODULE MCChannel -----------------------------
(* Instances of Channel. *)
EXTENDS Channel

MCSends == [e \in Ends |-> IF e = "A" THEN 2 ELSE 1]
=============================================================================
