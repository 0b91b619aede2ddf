------------------------------ MODULE MCReplay ------------------------------
(***************************************************************************)
(* The three components that remember what was used: the two replay caches *)
(* and the nonces of the agent's authenticator.  They do not interact; a   *)
(* behaviour is a behaviour of one of them.                                *)
(***************************************************************************)
EXTENDS MemoryReplayCache, SetNXReplayCache, AgentAuth

CONSTANTS k1, k2, none

VARIABLE component

MCKeys == {k1, k2}

\* Two statements that share a key but not their expiry, one with another
\* key, one with a zero expiry and one with a blank key.
MCClaims == {[key |-> k1, exp |-> 1], [key |-> k1, exp |-> 2],
             [key |-> k2, exp |-> 3],
             [key |-> k2, exp |-> ZeroTime], [key |-> none, exp |-> 2]}

MCCalls == {"c1", "c2", "c3"}

\* One key is enough in the store: calls with different keys do not meet there.
MCStoreClaims == {[key |-> k1, exp |-> 3], [key |-> k1, exp |-> 4],
                  [key |-> none, exp |-> 4]}

MCNodeOf == [p \in MCCalls |-> IF p = "c3" THEN "n2" ELSE "n1"]

\* Signatures with one nonce for two methods and at two times, by a consumer,
\* by the dataset's owner and by a stranger.
Signed(role, method, at, signer) ==
    [role |-> role, method |-> method, nonce |-> "n", issuedAt |-> at, signer |-> signer]

MCSignatures ==
    {Signed("consumer", "Result", at, "anna") : at \in {1, 3}} \cup
    {Signed("consumer", "Attestation", 1, "anna"),
     Signed("consumer", "Result", 1, "owen"),
     Signed("data-provider", "Data", 2, "owen"),
     Signed("algorithm-provider", "Algo", 2, "owen"),
     Signed("algorithm-provider", "Algo", 1, "alan")}

MCMethods == {"Algo", "Data", "Result", "Attestation"}
MCConsumers == <<"bert", "anna", "anna">>
MCProviders == <<"owen", "pete">>

allVars == <<component, vars, storeVars, authVars>>

ReplayInit ==
    /\ component \in {"memory", "setnx", "auth"}
    /\ Init
    /\ StoreInit
    /\ component # "setnx" => \A n \in Nodes : skew[n] = 0
    /\ AuthInit

ReplayNext ==
    \/ component = "memory" /\ Next /\ UNCHANGED <<component, storeVars, authVars>>
    \/ component = "setnx" /\ StoreNext /\ UNCHANGED <<component, vars, authVars>>
    \/ component = "auth" /\ AuthNext /\ UNCHANGED <<component, vars, storeVars>>

ReplaySpec == ReplayInit /\ [][ReplayNext]_allVars
=============================================================================
