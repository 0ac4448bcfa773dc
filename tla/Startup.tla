------------------------------- MODULE Startup -------------------------------
(***************************************************************************)
(* How server.py and hf_server.py come up and go: the configuration is     *)
(* read at every import of the script, before the command line is looked   *)
(* at, and once more by the factory that makes the application served.     *)
(*                                                                         *)
(* External: uvicorn, which imports the script again under its own name,   *)
(* calls the factory, binds the port (before it spawns a child, with       *)
(* --reload), and ends on SIGTERM.                                         *)
(***************************************************************************)
EXTENDS RuntimeConfig, FiniteSets

CONSTANTS
  Process,      \* processes, each started once
  Path,         \* configuration files
  NoPath,       \* the variable is unset, or --config is not given
  Port,
  Nobody,       \* no process listens
  Accelerators  \* what torch finds on the machine besides "cpu"

ASSUME StartupAssumption ==
  /\ NoPath \notin Path
  /\ Nobody \notin Process
  /\ Accelerators \subseteq {"cuda", "mps"}

VARIABLES
  file,      \* what each configuration file holds
  phase,     \* where each process is
  job,       \* how it was started: script, env, config, reload, port
  env,       \* KV_CACHE_CONFIG of the process, or NoPath
  told,      \* SIGTERM was sent to it
  served,    \* the configuration its application was created with
  listener   \* the process that listens on a port

vars == <<file, phase, job, env, told, served, listener>>

Job == [script : {"server", "hf_server"}, env : Path \union {NoPath},
        config : Path \union {NoPath}, reload : BOOLEAN, port : Port]

Configured(path) ==
  CASE path = NoPath -> DefaultConfig
    [] path # NoPath /\ file[path] = Missing -> Refused
    [] OTHER -> LoadRuntimeConfig(file[path])

\* Mutated form of Read: a configuration file is required.
ReadRequired(p) == IF env[p] = NoPath THEN Refused ELSE Configured(env[p])

\* build_runtime_config(os.environ.get(CONFIG_PATH_ENV_VAR))
Read(p) == Configured(env[p])

\* A process that raises, or is killed, gives up the port it holds.
Gone(p) ==
  /\ phase' = [phase EXCEPT ![p] = "exited"]
  /\ listener' = [q \in Port |-> IF listener[q] = p THEN Nobody ELSE listener[q]]

\* One more evaluation of create_app, after which phase `then` follows. A child
\* of the reloader that raises leaves its parent waiting for the next change.
CreateApp(p, then) ==
  CASE Read(p).ok ->
         phase' = [phase EXCEPT ![p] = then] /\ UNCHANGED listener
    [] ~Read(p).ok /\ listener[job[p].port] = p ->
         phase' = [phase EXCEPT ![p] = "crashed"] /\ UNCHANGED listener
    [] OTHER -> Gone(p)

-----------------------------------------------------------------------------
Init ==
  /\ DOMAIN file = Path
  /\ phase = [p \in Process |-> "off"]
  /\ job \in [Process -> Job]
  /\ env = [p \in Process |-> job[p].env]
  /\ told = [p \in Process |-> FALSE]
  /\ served = [p \in Process |-> Refused]
  /\ listener = [q \in Port |-> Nobody]

\* `python <script> ...`; hf_server.py imports server.py before anything else.
Launch(p) ==
  /\ phase[p] = "off"
  /\ phase' = [phase EXCEPT ![p] = IF job[p].script = "hf_server"
                                     THEN "importing server" ELSE "importing"]
  /\ UNCHANGED <<file, job, env, told, served, listener>>

\* from server import ..., which evaluates server.py's `app = create_app()`
ImportServer(p) ==
  /\ phase[p] = "importing server"
  /\ CreateApp(p, "importing")
  /\ UNCHANGED <<file, job, env, told, served>>

\* Mutated form of ImportScript: the configuration is read by the factory alone.
ImportScriptLazily(p) ==
  /\ phase[p] = "importing"
  /\ phase' = [phase EXCEPT ![p] = "parsing"]
  /\ UNCHANGED <<file, job, env, told, served, listener>>

\* app = create_app(), of the script itself
ImportScript(p) ==
  /\ phase[p] = "importing"
  /\ CreateApp(p, "parsing")
  /\ UNCHANGED <<file, job, env, told, served>>

\* Mutated form of EnvAfterArgs: --config is not exported.
EnvAfterArgsUnset(j) == j.env

\* Mutated form of EnvAfterArgs: str(args.config) is exported in any case.
EnvAfterArgsAlways(j) == IF j.config = NoPath THEN "None" ELSE j.config

\* if args.config is not None: os.environ[CONFIG_PATH_ENV_VAR] = ...
EnvAfterArgs(j) == IF j.config = NoPath THEN j.env ELSE j.config

\* With reload, uvicorn.run binds the port first.
ParseArgs(p) ==
  LET port == job[p].port
  IN  /\ phase[p] = "parsing"
      /\ env' = [env EXCEPT ![p] = EnvAfterArgs(job[p])]
      /\ CASE ~job[p].reload ->
                phase' = [phase EXCEPT ![p] = "loading"] /\ UNCHANGED listener
           [] job[p].reload /\ listener[port] = Nobody ->
                /\ phase' = [phase EXCEPT ![p] = "spawning"]
                /\ listener' = [listener EXCEPT ![port] = p]
           [] OTHER -> Gone(p)
      /\ UNCHANGED <<file, job, told, served>>

\* The child of the reloader imports the script as its main module.
Spawn(p) ==
  /\ phase[p] = "spawning"
  /\ CreateApp(p, "loading")
  /\ UNCHANGED <<file, job, env, told, served>>

\* Mutated form of LoadApp: main() is called at import too.
LoadAppUnguarded(p) ==
  /\ phase[p] = "loading"
  /\ CreateApp(p, "parsing")
  /\ UNCHANGED <<file, job, env, told, served>>

\* Config.load: import "server" (or "hf_server") by name.
LoadApp(p) ==
  /\ phase[p] = "loading"
  /\ CreateApp(p, "creating")
  /\ UNCHANGED <<file, job, env, told, served>>

\* The factory.
CallFactory(p) ==
  /\ phase[p] = "creating"
  /\ CreateApp(p, "binding")
  /\ served' = [served EXCEPT ![p] = Read(p)]
  /\ UNCHANGED <<file, job, env, told>>

\* Startup: a port in use, or a signal that came meanwhile, ends the process. The
\* socket of a reloader's child is there already.
Bind(p) ==
  LET port == job[p].port
  IN  /\ phase[p] = "binding"
      /\ IF listener[port] \in {Nobody, p} /\ ~told[p]
           THEN /\ phase' = [phase EXCEPT ![p] = "serving"]
                /\ listener' = [listener EXCEPT ![port] = p]
           ELSE Gone(p)
      /\ UNCHANGED <<file, job, env, told, served>>

\* A source file changed, and the reloader starts a new child. (A change during
\* the start only starts it over.)
Reload(p) ==
  /\ job[p].reload
  /\ ~told[p]
  /\ phase[p] \in {"serving", "crashed"}
  /\ phase' = [phase EXCEPT ![p] = "spawning"]
  /\ UNCHANGED <<file, job, env, told, served, listener>>

Killable == {"importing server", "importing", "parsing", "spawning", "crashed"}

\* SIGTERM to all of these. Until uvicorn.run it kills, and while the application
\* is loaded it is only noted; a server that is up stops in the end.
Terminate(targets) ==
  /\ told' = [p \in Process |-> told[p] \/ p \in targets]
  /\ phase' = [p \in Process |->
       CASE p \in targets /\ phase[p] \in Killable -> "exited"
         [] p \in targets /\ phase[p] = "serving" -> "stopping"
         [] OTHER -> phase[p]]
  /\ listener' = [q \in Port |->
       IF \E p \in targets : listener[q] = p /\ phase[p] \in Killable
         THEN Nobody ELSE listener[q]]
  /\ UNCHANGED <<file, job, env, served>>

Running == { p \in Process : phase[p] \notin {"off", "exited"} }

\* The main loop notices, between two ticks, and closes the listening socket,
\* which a reloader keeps; then the answers under way are finished.
StopListening(p) ==
  /\ phase[p] = "stopping"
  /\ phase' = [phase EXCEPT ![p] = "draining"]
  /\ IF job[p].reload
       THEN UNCHANGED listener
       ELSE listener' = [listener EXCEPT ![job[p].port] = Nobody]
  /\ UNCHANGED <<file, job, env, told, served>>

Drain(p) ==
  /\ phase[p] = "draining"
  /\ Gone(p)
  /\ UNCHANGED <<file, job, env, told, served>>

\* What a process does by itself once it has been started.
Advance(p) ==
  \/ ImportServer(p)  \/ ImportScript(p)  \/ ParseArgs(p)  \/ Spawn(p)
  \/ LoadApp(p)  \/ CallFactory(p)  \/ Bind(p)  \/ StopListening(p)  \/ Drain(p)

Next ==
  \/ \E p \in Process : Launch(p) \/ Advance(p) \/ Reload(p)
  \/ \E p \in Running : Terminate({p})

Spec == Init /\ [][Next]_vars

-----------------------------------------------------------------------------
(* Which models a server can construct: its get_model runs at the first    *)
(* request, long after the configuration was accepted.                     *)

\* pretrained_model.to(device=...)
Usable(device) == device \in {"cpu"} \union Accelerators

\* get_accelerator_device: without CUDA it looks for torch.backend, which there
\* is not, whatever else the machine has.
AcceleratorFound == "cuda" \in Accelerators

\* Every Transformer block asks for an accelerator, on whatever device the model is.
GPT2Constructs(config) ==
  AcceleratorFound /\ (config.targetDevice = "auto" \/ Usable(config.targetDevice))

\* "auto" goes to torch as it is.
HFTransformerConstructs(config) == Usable(config.targetDevice)

\* The model construction behind /v1/responses and /v1/completions succeeds.
Generates(p) ==
  IF job[p].script = "server"
    THEN GPT2Constructs(served[p]) ELSE HFTransformerConstructs(served[p])

-----------------------------------------------------------------------------
Up == {"serving", "stopping", "draining"}

TypeOK ==
  /\ DOMAIN file = Path
  /\ phase \in [Process ->
       {"off", "importing server", "importing", "parsing", "spawning", "loading",
        "creating", "binding", "crashed", "exited"} \union Up]
  /\ job \in [Process -> Job]
  /\ env \in [Process -> Path \union {NoPath}]
  /\ told \in [Process -> BOOLEAN]
  /\ DOMAIN served = Process
  /\ listener \in [Port -> Process \union {Nobody}]

\* The configuration a server runs with is that of --config where it is given,
\* and of KV_CACHE_CONFIG otherwise, though the application is created by other
\* imports of the script than the one that parsed the command line.
ConfigInForce ==
  \A p \in Process :
    phase[p] = "serving" =>
      served[p] = Configured(IF job[p].config # NoPath THEN job[p].config ELSE job[p].env)

\* `app = create_app()` stands before the command line is parsed: whatever --config
\* says, no server comes up in an environment whose KV_CACHE_CONFIG is refused.
EnvironmentMustBeSound ==
  \A p \in Process : phase[p] \in Up => Configured(job[p].env).ok /\ served[p].ok

\* What a document gives for a key: at the top level, or else under `model`.
Given(raw, key) ==
  IF key \in DOMAIN raw THEN {raw[key]}
  ELSE { m[2][key] : m \in
         { m \in {raw[k] : k \in {"model"} \intersect DOMAIN raw} :
             Kind(m) = "map" /\ key \in DOMAIN m[2] } }

Off == { <<"bool", FALSE>>, <<"text", "false", "plain">> }

\* README.md, "Runtime config supports these keys": a setting means the same at
\* the top level and under `model`, `kv_cache` the same as a mapping, the top
\* level wins where both are there, and what is not said keeps its default.
ConfigMeaning ==
  \A p \in Process :
    phase[p] = "serving" /\ env[p] # NoPath /\ file[env[p]] # <<"null">> =>
      LET raw == file[env[p]][2]
          Switches(v) ==
            IF Kind(v) = "map" THEN {v[2][k] : k \in {"enabled"} \intersect DOMAIN v[2]} ELSE {v}
      IN  /\ served[p].kvCache =
               (\A v \in Given(raw, "kv_cache") : Switches(v) \intersect Off = {})
          /\ \/ \E v \in Given(raw, "target_device") :
                  Kind(v) = "text" /\ served[p].targetDevice = v[2]
             \/ Given(raw, "target_device") = {} /\ served[p].targetDevice = "auto"

\* A key that is misspelt stops the server, on whichever level it stands; only the
\* names of a model are passed over.
NoStrayKeys ==
  \A p \in Process :
    phase[p] = "serving" /\ env[p] # NoPath /\ Kind(file[env[p]]) # "null" =>
      LET raw == file[env[p]][2]
      IN  /\ DOMAIN raw \subseteq {"kv_cache", "target_device", "model", "model_name"}
          /\ DOMAIN Nested(raw) \subseteq {"kv_cache", "target_device"}

Sound(p) == Configured(job[p].env).ok /\ (job[p].config # NoPath => Configured(job[p].config).ok)

\* A process that ends was told to, or was given a configuration it refuses, or
\* found its port taken.
ExitExplained ==
  [][\A p \in Process :
       phase[p] # "exited" /\ phase'[p] = "exited" =>
         told'[p] \/ ~Sound(p) \/ listener[job[p].port] \notin {Nobody, p}]_vars

\* A process that is started comes up, unless it ends or its configuration is
\* refused: the imports, the factory and the reloader never wait for each other.
StartConcludes ==
  \A p \in Process :
    phase[p] = "importing" ~> phase[p] \in {"serving", "exited"} \/ ~Sound(p)

\* README.md:12 and 99-104: a server that is up generates, without any configuration
\* and with one that names a device of the machine.
ServesAsDocumented ==
  \A p \in Process :
    /\ phase[p] = "serving"
    /\ \/ job[p].env = NoPath /\ job[p].config = NoPath
       \/ Usable(served[p].targetDevice)
    => Generates(p)
=============================================================================
