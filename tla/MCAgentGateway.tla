---------------------------- MODULE MCAgentGateway ----------------------------
(***************************************************************************)
(* Instances of AgentGateway for TLC.                                      *)
(***************************************************************************)
EXTENDS AgentGateway, TLC

CONSTANTS c1, c2, r1, m1, m2, k1, k2, k3

\* In one channel a general task and an implementation of the commit that is not HEAD of
\* the clone, in the other a review.
MCTask ==
    k1 :> [channel |-> c1, policy |-> "general", repo |-> r1, commit |-> None]
 @@ k2 :> [channel |-> c1, policy |-> "implementation", repo |-> r1, commit |-> m2]
 @@ k3 :> [channel |-> c2, policy |-> "review", repo |-> r1, commit |-> m1]

\* The gateway starts for the first time, or after the restricted tasks ran, or after the
\* general one did.
MCEarlier == {{}, {k2, k3}, {k1}}
=============================================================================
