----------------------------- MODULE MCBenchmark -----------------------------
(* Two fixtures with every policy and one that only zopa supports, as in   *)
(* bench/fixtures, on machines with different things installed.            *)
EXTENDS Benchmark

MCFixtures ==
  <<[rego |-> TRUE, cedar |-> TRUE], [rego |-> TRUE, cedar |-> TRUE],
    [rego |-> FALSE, cedar |-> FALSE]>>

MCPolicies == 1 .. 3

MCServers == 1 .. 3

MCPorts == {18000, 18001}

MCSelections == {Engines \ {"opa-http"}, {"zopa", "opa-http"}}

MCVersions == {1, 2}

Crate(cargo, lock, manifest, binary) ==
  [cargo |-> cargo, lock |-> lock, manifest |-> manifest, binary |-> binary]

NoCrate == Crate(FALSE, NoVersion, 1, NoBinary)

(* The crates: fresh; bumped, with the binary of the version before; bumped *)
(* in Cargo.toml only; built, on a machine without cargo.                   *)
MCMachines ==
  { [tools |-> {"opa"}, crate |-> Crate(TRUE, 1, 1, NoBinary)],
    [tools |-> {"wasm", "opa"}, crate |-> NoCrate],
    [tools |-> {"wasm", "policy_compile", "opa", "cedar-wasm"}, crate |-> NoCrate],
    [tools |-> {"wasm", "opt-in"}, crate |-> Crate(TRUE, 1, 1, NoBinary)],
    [tools |-> {"wasm", "opt-in"}, crate |-> Crate(TRUE, 2, 2, 1)],
    [tools |-> {"wasm", "opt-in"}, crate |-> Crate(TRUE, 1, 2, 1)],
    [tools |-> {"wasm", "policy_compile", "opt-in"}, crate |-> Crate(FALSE, 2, 2, 1)] }
=============================================================================
