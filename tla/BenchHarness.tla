----------------------------- MODULE BenchHarness -----------------------------
(***************************************************************************)
(* KV_Cache/benchpress.experiment.yaml: four runs, one server each, on one *)
(* port and with one configuration file that every run writes anew. A run  *)
(* tells the servers that are there to stop, writes the file, starts its   *)
(* own server in the background, polls /healthz until somebody answers,    *)
(* warms up and is measured.                                               *)
(*                                                                         *)
(* External: benchpress itself, which may or may not go on when a setup    *)
(* command fails.                                                          *)
(***************************************************************************)
EXTENDS Startup, Integers, Sequences

CONSTANTS
  Yaml,  \* .benchpress.runtime.yaml
  Url    \* the target's port

\* Run i starts process i.
Runs ==
  << [script |-> "hf_server", kvCache |-> FALSE], [script |-> "hf_server", kvCache |-> TRUE],
     [script |-> "server", kvCache |-> FALSE], [script |-> "server", kvCache |-> TRUE] >>

ASSUME HarnessAssumption == Process = 1 .. Len(Runs) /\ Yaml \in Path /\ Url \in Port

VARIABLES
  run,   \* the run that is set up or measured, 0 where servers are started by hand
  step,  \* its step
  heard  \* the process that answered the poll of each run

harness == <<run, step, heard>>

HarnessInit ==
  /\ job = [p \in Process |->
       [script |-> Runs[p].script, env |-> NoPath, config |-> Yaml, reload |-> FALSE, port |-> Url]]
  /\ file = [q \in Path |-> Missing]
  /\ Init
  /\ run = 1
  /\ step = <<"stop", "hf_server">>
  /\ heard = [p \in Process |-> Nobody]

-----------------------------------------------------------------------------
\* Mutated form of Stop: a run only stops the servers of its own kind.
StopOwnKind(script, then) ==
  /\ step = <<"stop", script>>
  /\ Terminate({p \in Running : job[p].script = script /\ script = Runs[run].script})
  /\ step' = then
  /\ UNCHANGED <<run, heard>>

\* pkill -f "python <script> --port 8000" || true
Stop(script, then) ==
  /\ step = <<"stop", script>>
  /\ Terminate({p \in Running : job[p].script = script})
  /\ step' = then
  /\ UNCHANGED <<run, heard>>

\* printf 'kv_cache: ...\ntarget_device: cpu\n' > .benchpress.runtime.yaml
Write ==
  /\ step = <<"write">>
  /\ file' = [file EXCEPT ![Yaml] =
       <<"map", [kv_cache |-> <<"bool", Runs[run].kvCache>>,
                 target_device |-> <<"text", "cpu", "plain">>]>>]
  /\ step' = <<"start">>
  /\ UNCHANGED <<phase, job, env, told, served, listener, run, heard>>

\* uv run python <script> --port 8000 --config .benchpress.runtime.yaml &
Start ==
  /\ step = <<"start">>
  /\ Launch(run)
  /\ step' = <<"poll">>
  /\ UNCHANGED <<run, heard>>

\* A server that stops still answers until the main loop notices.
Answering(p) == p \in Process /\ phase[p] \in {"serving", "stopping"}

\* Mutated form of Poll: it waits for a completion.
PollCompletions ==
  /\ step = <<"poll">>
  /\ Answering(listener[Url]) /\ Generates(listener[Url])
  /\ heard' = [heard EXCEPT ![run] = listener[Url]]
  /\ step' = <<"warm up">>
  /\ UNCHANGED <<vars, run>>

\* until curl -sf .../healthz: the round that ends the loop.
Poll ==
  /\ step = <<"poll">>
  /\ Answering(listener[Url])
  /\ heard' = [heard EXCEPT ![run] = listener[Url]]
  /\ step' = <<"warm up">>
  /\ UNCHANGED <<vars, run>>

\* curl -sf .../v1/completions fails when nobody listens and on a 502.
WarmUp ==
  /\ step = <<"warm up">>
  /\ step' \in IF Answering(listener[Url]) /\ Generates(listener[Url])
                 THEN {<<"measure">>} ELSE {<<"measure">>, <<"aborted">>}
  /\ UNCHANGED <<vars, run, heard>>

\* The measurement, and on to the next run.
Measure ==
  /\ step = <<"measure">>
  /\ run' = run + 1
  /\ step' = IF run < Len(Runs) THEN <<"stop", "hf_server">> ELSE <<"done">>
  /\ UNCHANGED <<vars, heard>>

HarnessStep ==
  \/ Stop("hf_server", <<"stop", "server">>)  \/ Stop("server", <<"write">>)
  \/ Write  \/ Start  \/ Poll  \/ WarmUp  \/ Measure

HarnessNext ==
  \/ HarnessStep
  \/ \E p \in Process : Advance(p) /\ UNCHANGED harness

\* The shell goes on and the operating system lets every process run.
HarnessSpec ==
  /\ HarnessInit /\ [][HarnessNext]_<<vars, harness>>
  /\ WF_<<vars, harness>>(HarnessStep)
  /\ \A p \in Process : WF_<<vars, harness>>(Advance(p) /\ UNCHANGED harness)

-----------------------------------------------------------------------------
\* One file configures four servers, and a server reads it up to four times while it
\* comes up; still a server that serves has the setting of its own run, since every
\* run tells all the others to stop before it writes.
OwnSetting ==
  \A p \in Process :
    run # 0 /\ phase[p] = "serving" => served[p] = Config(Runs[p].kvCache, "cpu")

\* The poll has no timeout: it ends unless the server it waits for has exited, on a
\* machine where the models cannot be constructed too.
PollEnds ==
  \A p \in Process :
    step = <<"poll">> /\ run = p ~> step # <<"poll">> \/ phase[p] = "exited"

\* What the poll is for (benchpress.experiment.yaml, "until curl -sf .../healthz"):
\* when it ends, the server of this run is up.
PollMeansOwnServer ==
  step = <<"warm up">> => heard[run] = run
===============================================================================
