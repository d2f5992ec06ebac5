------------------------------- MODULE Launch -------------------------------
(***************************************************************************)
(* main() (src/main.rs) and the builders it configures: the node is put    *)
(* together step by step around five shared states.  Every state is a      *)
(* handle on something behind an Arc: default(), new() and shared() make a *)
(* new one, clone() another handle on the same one.                        *)
(*                                                                         *)
(* The order inside launch_with_debug_capabilities() is reth's: the EVM    *)
(* configuration, the pool, the eth API, the hook that adds RPC modules,   *)
(* the RPC server, and the local miner when the node runs.  The two mining *)
(* tasks are spawned after that, while requests are already served.        *)
(***************************************************************************)
EXTENDS Naturals

CONSTANT MaxCalls       \* bound: RPC calls

ASSUME LaunchAssumption == MaxCalls \in Nat

Kinds == {"impersonation", "mining", "time", "block_env", "anvil_state"}

\* The parts of the node and the states they are given a handle on.
Wiring ==
    [main     |-> Kinds,
     executor |-> {"impersonation", "block_env"},
     pool     |-> {"impersonation"},
     eth_api  |-> {"anvil_state"},
     signer   |-> {"impersonation"},
     rpc      |-> Kinds,
     hook     |-> {"time", "block_env"},
     miner    |-> {"mining"},
     tasks    |-> {"mining"}]
Holders == DOMAIN Wiring

VARIABLES
    launch,     \* what main does next
    holds,      \* per holder: the states behind its handles, if it is built
    settings,   \* per kind and state: how many settings were made in it
    calls

launchVars == <<launch, holds>>

Steps == {"create", "evm", "pool", "eth_api", "extend_rpc", "serve", "miner",
          "spawn", "running", "ended"}

\* Requests are answered.
Serving == launch \in {"miner", "spawn", "running"}

NoHandles == [h \in Holders |-> <<>>]
NoSettings == [k \in Kinds |-> [n \in 1..2 |-> 0]]

LaunchInit ==
    /\ launch = "create"
    /\ holds = NoHandles /\ settings = NoSettings
    /\ calls = 0

Step(from, to) == launch = from /\ launch' = to

\* h has a handle on state n[k] of each kind k in Wiring[h].
Given(h, n) == [k \in Wiring[h] |-> n[k]]

\* The holders in H are given clones of main's handles.
Clone(H) ==
    holds' = [h \in Holders |-> IF h \in H THEN Given(h, holds["main"]) ELSE holds[h]]

\* The five states, before the node is built.
CreateStates ==
    /\ Step("create", "evm")
    /\ holds' = [holds EXCEPT !["main"] = [k \in Kinds |-> 1]]
    /\ UNCHANGED <<settings, calls>>

\* AnvilExecutorBuilder::build_evm
BuildEvm == Step("evm", "pool") /\ Clone({"executor"}) /\ UNCHANGED <<settings, calls>>

\* AnvilPoolBuilder::build_pool: the validator takes the builder's handle.
BuildPool == Step("pool", "eth_api") /\ Clone({"pool"}) /\ UNCHANGED <<settings, calls>>

\* Mutant: AnvilEthApiBuilder::default(), with a state of its own.
BuildEthApiDefault ==
    /\ Step("eth_api", "extend_rpc")
    /\ holds' = [holds EXCEPT !["eth_api"] = Given("eth_api", [k \in Kinds |-> 2])]
    /\ UNCHANGED <<settings, calls>>

\* anvil_add_ons and AnvilEthApiBuilder::build_eth_api: every state provider
\* the eth API opens is wrapped by the interceptor.
BuildEthApi ==
    /\ Step("eth_api", "extend_rpc") /\ Clone({"eth_api"})
    /\ UNCHANGED <<settings, calls>>

\* extend_rpc_modules: the impersonated signer, and AnvilRpc.
ExtendRpcModules ==
    /\ Step("extend_rpc", "serve") /\ Clone({"signer", "rpc"})
    /\ UNCHANGED <<settings, calls>>

\* External: the RPC server starts.
Serve == Step("serve", "miner") /\ UNCHANGED <<holds, settings, calls>>

\* The local miner starts with payload_attributes_hook and the trigger stream.
StartMiner ==
    /\ Step("miner", "spawn") /\ Clone({"hook", "miner"})
    /\ UNCHANGED <<settings, calls>>

\* run_automine_task and run_interval_mining_task
SpawnTasks == Step("spawn", "running") /\ Clone({"tasks"}) /\ UNCHANGED <<settings, calls>>

\* A `?` of main, of a builder or of the launch, or the node exits.  All of its
\* state is in memory, the database too.
End ==
    /\ launch # "ended" /\ launch' = "ended"
    /\ holds' = NoHandles /\ settings' = NoSettings
    /\ UNCHANGED calls

Main ==
    \/ CreateStates \/ BuildEvm \/ BuildPool \/ BuildEthApi \/ ExtendRpcModules
    \/ Serve \/ StartMiner \/ SpawnTasks

\* The start of a handler.
NewCall == Serving /\ calls < MaxCalls /\ calls' = calls + 1

\* A handler of AnvilRpc makes a setting in a state of kind k.
Set(k) ==
    /\ NewCall
    /\ settings' = [settings EXCEPT ![k][holds["rpc"][k]] = @ + 1]
    /\ UNCHANGED launchVars

LaunchTypeOK ==
    /\ launch \in Steps
    /\ DOMAIN holds = Holders
    /\ \A h \in Holders : holds[h] = <<>> \/ holds[h] \in [Wiring[h] -> 1..2]
    /\ settings \in [Kinds -> [1..2 -> Nat]]
    /\ calls \in 0..MaxCalls

\* The parts a request may go through as soon as it is served, and those that
\* act on settings once the node runs.
Ready ==
    IF launch = "running" THEN Holders
    ELSE IF launch = "spawn" THEN Holders \ {"tasks"}
    ELSE IF launch = "miner" THEN Holders \ {"tasks", "hook", "miner"} ELSE {}

(* What an anvil_* call sets is what every part of the node goes by that   *)
(* is there when the call is answered: pool, EVM, eth API and signer from  *)
(* the first request on, miner, attributes hook and tasks once they run.   *)
(* No part was built around a state of its own.                            *)
SettingsReachParts ==
    \A h \in Ready : \A k \in Wiring[h] :
        /\ holds[h] # <<>>
        /\ settings[k][holds[h][k]] = settings[k][holds["rpc"][k]]
=============================================================================
