------------------------------- MODULE MCCast -------------------------------
(***************************************************************************)
(* Instances of Cast for TLC.                                              *)
(***************************************************************************)
EXTENDS Cast

\* Every policy, and a policy next to another one.
MCPolicies == {[s \in Subs |-> IF s = "a" THEN x[1] ELSE x[2]] :
                 x \in {<<"drop_oldest", "disconnect">>,
                        <<"drop_newest", "drop_oldest">>}}

=============================================================================
