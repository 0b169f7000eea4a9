--------------------------- MODULE MCPolicyEngine ---------------------------
(***************************************************************************)
(* PolicyEngine on small instances.  The engine never reads the control    *)
(* channels, so what they hold does not decide what it can do next: the    *)
(* runs tell states apart by everything else, and need no bound on them.   *)
(***************************************************************************)
EXTENDS PolicyEngine, TLC

AllFirstOwner  == [r \in Resource |-> "FirstOwner"]
AllLatestOwner == [r \in Resource |-> "LatestOwner"]
AllFairQueue   == [r \in Resource |-> "FairQueue"]

\* The daemon pushes its whole list; one value is enough to fill a channel.
OneList == {Resource}

ClientSymmetry == Permutations(ClientId)

WithoutChannels == <<conn, control_reg, slotVars>>
=============================================================================
