------------------------------ MODULE Sidecars ------------------------------
(***************************************************************************)
(* The OPA servers that bench/engines/opa-http.mjs starts, as operating    *)
(* system processes: they bind a port, answer on it and exit on their own  *)
(* time, whatever the harness that spawned them is doing.                  *)
(***************************************************************************)
EXTENDS Naturals

CONSTANTS
  Servers,    \* process identities: a bound of the model
  Ports,      \* the ports setup may pick
  Policies    \* what a server may be started with

VARIABLE servers

Absent == [status |-> "absent"]

Process(port, policy) ==
  [status |-> "starting", port |-> port, policy |-> policy, signalled |-> FALSE]

ProcessType ==
  [status : {"starting", "listening", "exited", "killed"},
   port : Ports, policy : Policies, signalled : BOOLEAN]

ServersTypeOK == servers \in [Servers -> {Absent} \cup ProcessType]

NoServers == servers = [s \in Servers |-> Absent]

Running(s) == servers[s].status \in {"starting", "listening"}

(* The process that answers on a port, if one does.                        *)
AnsweringOn(port) ==
  {s \in Servers : servers[s].status = "listening" /\ servers[s].port = port}

(* servers after a process is started, and after one is sent a signal: one *)
(* that is gone already is forgotten.                                      *)
Spawned(s, port, policy) == [servers EXCEPT ![s] = Process(port, policy)]

Signalled(ss) ==
  [s \in Servers |->
     IF s \notin ss THEN servers[s]
     ELSE IF Running(s) THEN [servers[s] EXCEPT !.signalled = TRUE]
     ELSE Absent]

-----------------------------------------------------------------------------
(* A port has one listener: a second bind fails, and that server exits.    *)
Listen(s) ==
  /\ servers[s].status = "starting"
  /\ AnsweringOn(servers[s].port) = {}
  /\ servers' = [servers EXCEPT ![s].status = "listening"]

(* On its own: with an exit code, or by a signal of somebody else, which   *)
(* leaves child.exitCode null.                                             *)
Exit(s) ==
  /\ Running(s)
  /\ ~servers[s].signalled
  /\ \E how \in {"exited", "killed"} :
       servers' = [servers EXCEPT ![s].status = how]

(* Of the harness's signal; until then it goes on answering.               *)
Die(s) ==
  /\ Running(s)
  /\ servers[s].signalled
  /\ servers' = [servers EXCEPT ![s] = Absent]

ServersNext == \E s \in Servers : Listen(s) \/ Exit(s) \/ Die(s)
=============================================================================
