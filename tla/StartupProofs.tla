---------------------------- MODULE StartupProofs ----------------------------
(***************************************************************************)
(* For any number of servers, ports, configuration files and whatever they *)
(* hold, started in any way and stopped at any time, Startup.tla has the   *)
(* properties of its configuration that Startup.cfg checks with a few.     *)
(* The files stay as they are: only the benchmark rewrites one, and every   *)
(* server of BenchHarness.tla has the setting of its run all the same.     *)
(***************************************************************************)
EXTENDS BenchHarness, TLAPS

\* Before and after the command line is looked at.
Early == {"off", "importing server", "importing", "parsing"}
Late == {"spawning", "loading", "creating", "binding", "crashed"} \union Up

\* The environment is the one of the job until --config is exported.
EnvInv ==
  \A p \in Process :
    /\ phase[p] \in Early => env[p] = job[p].env
    /\ phase[p] \in Late => env[p] = EnvAfterArgs(job[p])

\* Nobody holds a port before uvicorn.run.
PortInv ==
  \A p \in Process : \A q \in Port : listener[q] = p => phase[p] \in Late

\* Whoever gets to the command line has read the configuration of its environment.
AcceptedInv ==
  \A p \in Process : phase[p] \in {"parsing"} \union Late => Configured(job[p].env).ok

\* What the factory made stays what the environment says.
ServedInv ==
  \A p \in Process :
    phase[p] \in {"binding"} \union Up => served[p] = Read(p) /\ Read(p).ok

\* A server stops when it is told to.
StopInv == \A p \in Process : phase[p] \in {"stopping", "draining"} => told[p]

IInv == TypeOK /\ EnvInv /\ PortInv /\ AcceptedInv /\ ServedInv /\ StopInv

-----------------------------------------------------------------------------
\* While the files and the environment stay, so does what a process reads.
LEMMA ReadStays ==
  ASSUME UNCHANGED <<file, env>>, NEW p
  PROVE  Read(p)' = Read(p)
BY DEF Read, Configured

LEMMA ConfiguredStays ==
  ASSUME UNCHANGED <<file, job>>, NEW p
  PROVE  Configured(job[p].env)' = Configured(job[p].env)
BY DEF Configured

\* Whatever was given, --config comes first (server.py:404-407).
LEMMA EnvRange ==
  ASSUME NEW j \in Job
  PROVE  EnvAfterArgs(j) \in Path \union {NoPath}
BY DEF Job, EnvAfterArgs

\* The phase of one process changes: what it must bring along.
LEMMA Moves ==
  ASSUME IInv,
         NEW p \in Process, NEW next \in Early \union Late \union {"exited"},
         phase' = [phase EXCEPT ![p] = next],
         UNCHANGED <<file, job, told>>,
         env' \in [Process -> Path \union {NoPath}],
         listener' \in [Port -> Process \union {Nobody}],
         DOMAIN served' = Process,
         \A r \in Process \ {p} : env'[r] = env[r] /\ served'[r] = served[r],
         next \in Early => env'[p] = job[p].env,
         next \in Late => env'[p] = EnvAfterArgs(job[p]),
         \A q \in Port : listener'[q] \in {listener[q], p, Nobody},
         next \in Late \/ \A q \in Port : listener'[q] # p,
         next \in {"parsing"} \union Late => Configured(job[p].env).ok,
         next \in {"binding"} \union Up =>
           served'[p] = Configured(env'[p]) /\ Configured(env'[p]).ok,
         next \in {"stopping", "draining"} => told[p]
  PROVE  IInv'
<1>1. phase'[p] = next /\ \A r \in Process \ {p} : phase'[r] = phase[r]
  BY DEF IInv, TypeOK
<1>2. TypeOK'
  BY DEF IInv, TypeOK, Early, Late, Up
<1>3. EnvInv'
  BY <1>1 DEF IInv, EnvInv
<1>4. PortInv'
  BY <1>1, StartupAssumption DEF IInv, PortInv
<1>5. AcceptedInv'
  BY <1>1, ConfiguredStays DEF IInv, AcceptedInv
<1>6. ServedInv'
  <2> SUFFICES ASSUME NEW r \in Process, phase'[r] \in {"binding"} \union Up
               PROVE  served'[r] = Read(r)' /\ Read(r).ok'
    BY DEF ServedInv
  <2>1. Read(r)' = Configured(env'[r])
    BY DEF Read, Configured
  <2>2. CASE r = p
    BY <1>1, <2>1, <2>2
  <2>3. CASE r # p
    <3>1. served[r] = Read(r) /\ Read(r).ok
      BY <1>1, <2>3 DEF IInv, ServedInv
    <3>2. env'[r] = env[r] /\ served'[r] = served[r]
      BY <2>3
    <3> QED
      BY <2>1, <3>1, <3>2 DEF Read
  <2> QED
    BY <2>2, <2>3
<1>7. StopInv'
  BY <1>1 DEF IInv, StopInv
<1> QED
  BY <1>2, <1>3, <1>4, <1>5, <1>6, <1>7 DEF IInv

\* A process that ends takes its port along.
LEMMA GonePreserves ==
  ASSUME IInv, NEW p \in Process, Gone(p), UNCHANGED <<file, job, told>>,
         \A r \in Process \ {p} : env'[r] = env[r] /\ served'[r] = served[r],
         env' \in [Process -> Path \union {NoPath}], DOMAIN served' = Process
  PROVE  IInv'
<1>1. phase' = [phase EXCEPT ![p] = "exited"]
  BY DEF Gone
<1>2. /\ listener' \in [Port -> Process \union {Nobody}]
      /\ \A q \in Port : listener'[q] \in {listener[q], Nobody} /\ listener'[q] # p
  BY StartupAssumption DEF Gone, IInv, TypeOK
<1>3. "exited" \notin Early \union Late \union {"binding", "parsing", "stopping", "draining"} \union Up
  BY DEF Early, Late, Up
<1> QED
  BY <1>1, <1>2, <1>3, Moves

\* The three ends of an import or of the factory (server.py:411, config.py:66-74).
LEMMA CreateAppEnds ==
  ASSUME NEW p \in Process, NEW next, CreateApp(p, next)
  PROVE  \/ Read(p).ok /\ phase' = [phase EXCEPT ![p] = next] /\ UNCHANGED listener
         \/ /\ ~Read(p).ok /\ listener[job[p].port] = p
            /\ phase' = [phase EXCEPT ![p] = "crashed"] /\ UNCHANGED listener
         \/ ~Read(p).ok /\ Gone(p)
BY DEF CreateApp

\* An import of the script, or its factory, keeps the invariant.
LEMMA CreateAppPreserves ==
  ASSUME IInv, NEW p \in Process, NEW next \in {"importing", "parsing", "loading", "creating", "binding"},
         CreateApp(p, next), UNCHANGED <<file, job, env, told>>,
         phase[p] \in Early => next \in Early,
         phase[p] \in Late => next \in Late,
         phase[p] \in Early \union Late,
         DOMAIN served' = Process,
         \A r \in Process \ {p} : served'[r] = served[r],
         next = "binding" => served'[p] = Read(p)
  PROVE  IInv'
<1>1. /\ phase[p] \in Early => env[p] = job[p].env
      /\ phase[p] \in Late => env[p] = EnvAfterArgs(job[p])
      /\ job[p].port \in Port
  BY DEF IInv, EnvInv, TypeOK, Job
<1>2. /\ env' \in [Process -> Path \union {NoPath}]
      /\ listener \in [Port -> Process \union {Nobody}]
      /\ \A q \in Port : listener[q] = p => phase[p] \in Late
  BY DEF IInv, PortInv, TypeOK
<1>3. Read(p) = Configured(env'[p])
  BY DEF Read
<1>4. Early \intersect Late = {}
  BY DEF Early, Late, Up
<1>5. CASE Read(p).ok /\ phase' = [phase EXCEPT ![p] = next] /\ UNCHANGED listener
  <2>1. next \in Early \union Late \union {"exited"}
    BY DEF Early, Late
  <2>2. Configured(job[p].env).ok
    <3>1. CASE phase[p] \in Early
      BY <1>1, <1>3, <1>5, <3>1
    <3>2. CASE phase[p] \in Late
      BY <3>2 DEF IInv, AcceptedInv
    <3> QED
      BY <3>1, <3>2
  <2>3. next \notin {"stopping", "draining"} /\ (next \in {"binding"} \union Up => next = "binding")
    BY DEF Up
  <2>4. next \in Late \/ \A q \in Port : listener'[q] # p
    BY <1>2, <1>5
  <2> QED
    BY <1>1, <1>2, <1>3, <1>4, <1>5, <2>1, <2>2, <2>3, <2>4, Moves
<1>6. CASE /\ ~Read(p).ok /\ listener[job[p].port] = p
           /\ phase' = [phase EXCEPT ![p] = "crashed"] /\ UNCHANGED listener
  <2>1. "crashed" \in Late /\ "crashed" \notin Early \union {"binding", "stopping", "draining"} \union Up
    BY DEF Early, Late, Up
  <2>2. phase[p] \in Late
    BY <1>1, <1>2, <1>6
  <2>3. Configured(job[p].env).ok
    BY <2>2 DEF IInv, AcceptedInv
  <2> QED
    BY <1>1, <1>2, <1>6, <2>1, <2>2, <2>3, Moves
<1>7. CASE ~Read(p).ok /\ Gone(p)
  BY <1>2, <1>7, GonePreserves
<1> QED
  BY <1>5, <1>6, <1>7, CreateAppEnds

-----------------------------------------------------------------------------
\* Init => IInv
LEMMA InitInv == Init => IInv
BY StartupAssumption
   DEF Init, IInv, TypeOK, EnvInv, PortInv, AcceptedInv, ServedInv, StopInv, Early, Late, Up, Job

\* SIGTERM ends a process, makes a server stop, or is noted for later.
LEMMA TerminatePreserves ==
  ASSUME IInv, NEW targets \in SUBSET Process, Terminate(targets)
  PROVE  IInv'
<1>1. /\ UNCHANGED <<file, job, env, served>>
      /\ \A p \in Process : told'[p] = (told[p] \/ p \in targets)
      /\ \A p \in Process :
           \/ phase'[p] = phase[p] /\ ~(p \in targets /\ phase[p] \in Killable)
           \/ phase'[p] = "exited" /\ p \in targets /\ phase[p] \in Killable
           \/ phase'[p] = "stopping" /\ phase[p] = "serving" /\ p \in targets
  BY DEF Terminate, Killable
<1>2. \A q \in Port :
        \/ listener'[q] = listener[q] /\ ~\E p \in targets : listener[q] = p /\ phase[p] \in Killable
        \/ listener'[q] = Nobody
  BY DEF Terminate
<1>3. TypeOK'
  <2>1. phase' \in [Process -> {"off", "importing server", "importing", "parsing", "spawning",
          "loading", "creating", "binding", "crashed", "exited"} \union Up]
    BY DEF Terminate, IInv, TypeOK, Up
  <2>2. told' \in [Process -> BOOLEAN] /\ listener' \in [Port -> Process \union {Nobody}]
    BY DEF Terminate, IInv, TypeOK
  <2> QED
    BY <1>1, <2>1, <2>2 DEF IInv, TypeOK
<1>4. EnvInv'
  BY <1>1 DEF IInv, EnvInv, Early, Late, Up
<1>5. PortInv'
  <2> SUFFICES ASSUME NEW p \in Process, NEW q \in Port, listener'[q] = p
               PROVE  phase'[p] \in Late
    BY DEF PortInv
  <2>1. listener[q] = p /\ ~(p \in targets /\ phase[p] \in Killable)
    BY <1>2, StartupAssumption
  <2>2. phase[p] \in Late
    BY <2>1 DEF IInv, PortInv
  <2> QED
    BY <1>1, <2>1, <2>2 DEF Late, Up
<1>6. AcceptedInv'
  BY <1>1, ConfiguredStays DEF IInv, AcceptedInv, Late, Up
<1>7. ServedInv'
  BY <1>1, ReadStays DEF IInv, ServedInv, Up
<1>8. StopInv'
  BY <1>1 DEF IInv, StopInv
<1> QED
  BY <1>3, <1>4, <1>5, <1>6, <1>7, <1>8 DEF IInv

\* main(): the environment is set, and a reloader binds (server.py:404-411).
LEMMA ParseArgsPreserves ==
  ASSUME IInv, NEW p \in Process, ParseArgs(p)
  PROVE  IInv'
<1>1. /\ phase[p] = "parsing" /\ job[p] \in Job /\ job[p].port \in Port
      /\ env' = [env EXCEPT ![p] = EnvAfterArgs(job[p])]
      /\ UNCHANGED <<file, job, told, served>>
      /\ DOMAIN served' = Process
  BY DEF ParseArgs, IInv, TypeOK, Job
<1>2. /\ env' \in [Process -> Path \union {NoPath}]
      /\ env'[p] = EnvAfterArgs(job[p])
      /\ \A r \in Process \ {p} : env'[r] = env[r] /\ served'[r] = served[r]
  BY <1>1, EnvRange DEF IInv, TypeOK
<1>3. Configured(job[p].env).ok
  BY <1>1 DEF IInv, AcceptedInv
<1>4. "loading" \in Late /\ "spawning" \in Late
  BY DEF Late
<1>5. {"loading", "spawning"} \intersect (Early \union {"binding", "stopping", "draining"} \union Up) = {}
  BY DEF Early, Up
<1>6. CASE phase' = [phase EXCEPT ![p] = "loading"] /\ UNCHANGED listener
  <2>1. listener' \in [Port -> Process \union {Nobody}]
    BY <1>6 DEF IInv, TypeOK
  <2> QED
    BY <1>1, <1>2, <1>3, <1>4, <1>5, <1>6, <2>1, Moves
<1>7. CASE /\ phase' = [phase EXCEPT ![p] = "spawning"]
           /\ listener' = [listener EXCEPT ![job[p].port] = p]
  <2>1. /\ listener' \in [Port -> Process \union {Nobody}]
        /\ \A q \in Port : listener'[q] \in {listener[q], p, Nobody}
    BY <1>1, <1>7 DEF IInv, TypeOK
  <2> QED
    BY <1>1, <1>2, <1>3, <1>4, <1>5, <1>7, <2>1, Moves
<1>8. CASE Gone(p)
  BY <1>1, <1>2, <1>8, GonePreserves
<1> QED
  BY <1>6, <1>7, <1>8 DEF ParseArgs

\* The factory made the application; the port decides (uvicorn, startup).
LEMMA BindPreserves ==
  ASSUME IInv, NEW p \in Process, Bind(p)
  PROVE  IInv'
<1>1. /\ phase[p] = "binding" /\ job[p].port \in Port
      /\ UNCHANGED <<file, job, env, told, served>>
      /\ DOMAIN served' = Process /\ env' \in [Process -> Path \union {NoPath}]
  BY DEF Bind, IInv, TypeOK, Job
<1>2. /\ env[p] = EnvAfterArgs(job[p]) /\ Configured(job[p].env).ok
      /\ served'[p] = Configured(env'[p]) /\ Configured(env'[p]).ok
  <2>1. "binding" \in Late /\ "binding" \in {"binding"} \union Up
    BY DEF Late
  <2>2. served[p] = Read(p) /\ Read(p).ok
    BY <1>1, <2>1 DEF IInv, ServedInv
  <2> QED
    BY <1>1, <2>1, <2>2 DEF IInv, EnvInv, AcceptedInv, Read
<1>3. "serving" \in Late /\ "serving" \notin Early \union {"stopping", "draining"}
  BY DEF Early, Late, Up
<1>4. CASE /\ phase' = [phase EXCEPT ![p] = "serving"]
           /\ listener' = [listener EXCEPT ![job[p].port] = p]
  <2>1. /\ listener' \in [Port -> Process \union {Nobody}]
        /\ \A q \in Port : listener'[q] \in {listener[q], p, Nobody}
    BY <1>1, <1>4 DEF IInv, TypeOK
  <2> QED
    BY <1>1, <1>2, <1>3, <1>4, <2>1, Moves
<1>5. CASE Gone(p)
  BY <1>1, <1>5, GonePreserves
<1> QED
  BY <1>4, <1>5 DEF Bind

\* The first step and the last ones, which read no configuration.
LEMMA OtherStepsPreserve ==
  ASSUME IInv, NEW p \in Process, Launch(p) \/ Reload(p) \/ StopListening(p) \/ Drain(p)
  PROVE  IInv'
<1>1. /\ UNCHANGED <<file, job, env, told, served>>
      /\ DOMAIN served' = Process /\ env' \in [Process -> Path \union {NoPath}]
      /\ job[p].port \in Port
  BY DEF Launch, Reload, StopListening, Drain, IInv, TypeOK, Job
<1>2. listener \in [Port -> Process \union {Nobody}]
  BY DEF IInv, TypeOK
<1>3. CASE Launch(p)
  <2>1. PICK next \in {"importing server", "importing"} :
          phase' = [phase EXCEPT ![p] = next] /\ UNCHANGED listener
    BY <1>3 DEF Launch
  <2>2. phase[p] \in Early /\ phase[p] \notin Late
    BY <1>3 DEF Launch, Early, Late, Up
  <2>3. env[p] = job[p].env /\ \A q \in Port : listener[q] # p
    BY <2>2 DEF IInv, EnvInv, PortInv
  <2>4. /\ next \in Early
        /\ next \notin Late \union {"parsing", "binding", "stopping", "draining"} \union Up
    BY DEF Early, Late, Up
  <2> QED
    BY <1>1, <1>2, <2>1, <2>3, <2>4, Moves
<1>4. CASE Reload(p)
  <2>1. phase' = [phase EXCEPT ![p] = "spawning"] /\ UNCHANGED listener /\ phase[p] \in Late
    BY <1>4 DEF Reload, Late, Up
  <2>2. env[p] = EnvAfterArgs(job[p]) /\ Configured(job[p].env).ok
    BY <2>1 DEF IInv, EnvInv, AcceptedInv
  <2>3. /\ "spawning" \in Late
        /\ "spawning" \notin Early \union {"binding", "stopping", "draining"} \union Up
    BY DEF Early, Late, Up
  <2> QED
    BY <1>1, <1>2, <2>1, <2>2, <2>3, Moves
<1>5. CASE StopListening(p)
  <2>1. phase' = [phase EXCEPT ![p] = "draining"] /\ phase[p] = "stopping"
    BY <1>5 DEF StopListening
  <2>2. /\ phase[p] \in Late \intersect Up
        /\ "draining" \in Late /\ "draining" \notin Early
    BY <2>1 DEF Early, Late, Up
  <2>3. /\ env[p] = EnvAfterArgs(job[p]) /\ Configured(job[p].env).ok
        /\ served[p] = Read(p) /\ Read(p).ok /\ told[p]
    BY <2>1, <2>2 DEF IInv, EnvInv, AcceptedInv, ServedInv, StopInv
  <2>4. /\ listener' \in [Port -> Process \union {Nobody}]
        /\ \A q \in Port : listener'[q] \in {listener[q], p, Nobody}
    BY <1>5, <1>1, <1>2 DEF StopListening
  <2> QED
    BY <1>1, <2>1, <2>2, <2>3, <2>4, Moves DEF Read
<1>6. CASE Drain(p)
  BY <1>1, <1>6, GonePreserves DEF Drain
<1> QED
  BY <1>3, <1>4, <1>5, <1>6

\* IInv /\ [Next]_vars => IInv'
LEMMA StepInv ==
  ASSUME IInv, [Next]_vars
  PROVE  IInv'
<1>1. ASSUME NEW p \in Process, ImportServer(p) PROVE IInv'
  BY <1>1, CreateAppPreserves DEF ImportServer, IInv, TypeOK, Early, Late, Up
<1>2. ASSUME NEW p \in Process, ImportScript(p) PROVE IInv'
  BY <1>2, CreateAppPreserves DEF ImportScript, IInv, TypeOK, Early, Late, Up
<1>3. ASSUME NEW p \in Process, Spawn(p) PROVE IInv'
  BY <1>3, CreateAppPreserves DEF Spawn, IInv, TypeOK, Early, Late, Up
<1>4. ASSUME NEW p \in Process, LoadApp(p) PROVE IInv'
  BY <1>4, CreateAppPreserves DEF LoadApp, IInv, TypeOK, Early, Late, Up
<1>5. ASSUME NEW p \in Process, CallFactory(p) PROVE IInv'
  <2>1. /\ DOMAIN served' = Process /\ served'[p] = Read(p)
        /\ \A r \in Process \ {p} : served'[r] = served[r]
    BY <1>5 DEF CallFactory, IInv, TypeOK
  <2> QED
    BY <1>5, <2>1, CreateAppPreserves DEF CallFactory, Early, Late, Up
<1>6. ASSUME NEW p \in Running, Terminate({p}) PROVE IInv'
  BY <1>6, TerminatePreserves DEF Running
<1>7. CASE UNCHANGED vars
  <2>1. /\ \A p \in Process : Read(p)' = Read(p)
        /\ \A p \in Process : Configured(job[p].env)' = Configured(job[p].env)
    BY <1>7, ReadStays, ConfiguredStays DEF vars
  <2>2. TypeOK' /\ EnvInv' /\ PortInv' /\ StopInv'
    BY <1>7 DEF vars, IInv, TypeOK, EnvInv, PortInv, StopInv
  <2>3. AcceptedInv' /\ ServedInv'
    BY <1>7, <2>1 DEF vars, IInv, AcceptedInv, ServedInv
  <2> QED
    BY <2>2, <2>3 DEF IInv
<1> QED
  BY <1>1, <1>2, <1>3, <1>4, <1>5, <1>6, <1>7, ParseArgsPreserves, BindPreserves,
     OtherStepsPreserve DEF Next, Advance

\* What a process reads, holds and was told is known at every phase.
THEOREM InductiveInvariant == Spec => []IInv
BY InitInv, StepInv, PTL DEF Spec

\* The variables keep their types.
THEOREM TypeCorrect == Spec => []TypeOK
<1>1. IInv => TypeOK
  BY DEF IInv
<1> QED
  BY <1>1, InductiveInvariant, PTL

\* The application created by an import that never saw the command line runs with the
\* file that --config names, else with that of the environment.
THEOREM ServedIsGiven == Spec => []ConfigInForce
<1>1. IInv => ConfigInForce
  <2> SUFFICES ASSUME IInv, NEW p \in Process, phase[p] = "serving"
               PROVE  served[p] = Configured(IF job[p].config # NoPath THEN job[p].config ELSE job[p].env)
    BY DEF ConfigInForce
  <2>1. phase[p] \in Late /\ phase[p] \in {"binding"} \union Up
    BY DEF Late, Up
  <2>2. env[p] = EnvAfterArgs(job[p]) /\ served[p] = Configured(env[p])
    BY <2>1 DEF IInv, EnvInv, ServedInv, Read
  <2> QED
    BY <2>2 DEF EnvAfterArgs
<1> QED
  BY <1>1, InductiveInvariant, PTL

\* A refused KV_CACHE_CONFIG keeps a server down whatever --config says.
THEOREM EnvironmentHasASay == Spec => []EnvironmentMustBeSound
<1>1. IInv => EnvironmentMustBeSound
  <2> SUFFICES ASSUME IInv, NEW p \in Process, phase[p] \in Up
               PROVE  Configured(job[p].env).ok /\ served[p].ok
    BY DEF EnvironmentMustBeSound
  <2>1. phase[p] \in {"parsing"} \union Late /\ phase[p] \in {"binding"} \union Up
    BY DEF Late, Up
  <2> QED
    BY <2>1 DEF IInv, AcceptedInv, ServedInv
<1> QED
  BY <1>1, InductiveInvariant, PTL

-----------------------------------------------------------------------------
\* A configuration that is refused was given by the environment or by --config.
LEMMA RefusedUnsound ==
  ASSUME IInv, NEW p \in Process, phase[p] \in Early \union Late, ~Read(p).ok
  PROVE  ~Sound(p)
<1>1. env[p] = job[p].env \/ env[p] = EnvAfterArgs(job[p])
  BY DEF IInv, EnvInv
<1>2. env[p] = job[p].env \/ (job[p].config # NoPath /\ env[p] = job[p].config)
  BY <1>1 DEF EnvAfterArgs
<1> QED
  BY <1>2 DEF Sound, Read

\* An import that ends a process has found a configuration it refuses.
LEMMA CreateAppExplained ==
  ASSUME IInv, NEW p \in Process, NEW next, next # "exited", CreateApp(p, next),
         phase[p] \in Early \union Late
  PROVE  \A r \in Process : phase[r] # "exited" /\ phase'[r] = "exited" => ~Sound(r)
<1> SUFFICES ASSUME NEW r \in Process, phase[r] # "exited", phase'[r] = "exited"
             PROVE  ~Sound(r)
  OBVIOUS
<1>1. r = p /\ ~Read(p).ok
  BY CreateAppEnds DEF Gone, IInv, TypeOK
<1> QED
  BY <1>1, RefusedUnsound

\* A process that ends by itself was given a configuration it refuses or finds its
\* port with another process.
THEOREM EndsAreExplained == Spec => ExitExplained
<1> DEFINE Explained(r) ==
      told'[r] \/ ~Sound(r) \/ listener[job[r].port] \notin {Nobody, r}
<1>1. ASSUME IInv, [Next]_vars, NEW r \in Process, phase[r] # "exited", phase'[r] = "exited"
      PROVE  Explained(r)
  <2>1. \A p \in Process :
          /\ phase[p] \in {"importing server", "importing", "spawning", "loading", "creating"} =>
               phase[p] \in Early \union Late
          /\ phase[p] = "binding" => phase[p] \in Late
    BY DEF Early, Late
  <2>2. ASSUME NEW p \in Process,
               ImportServer(p) \/ ImportScript(p) \/ Spawn(p) \/ LoadApp(p) \/ CallFactory(p)
        PROVE  ~Sound(r)
    <3>1. PICK next \in {"importing", "parsing", "loading", "creating", "binding"} :
            CreateApp(p, next) /\ phase[p] \in Early \union Late
      BY <2>1, <2>2 DEF ImportServer, ImportScript, Spawn, LoadApp, CallFactory
    <3>2. next # "exited"
      OBVIOUS
    <3> QED
      BY <1>1, <3>1, <3>2, CreateAppExplained
  <2>3. ASSUME NEW p \in Process, ParseArgs(p) PROVE Explained(r)
    <3>1. phase[p] = "parsing" /\ phase[p] \notin Late /\ job[p].port \in Port
      BY <1>1, <2>3 DEF ParseArgs, Late, Up, IInv, TypeOK, Job
    <3>2. r = p /\ listener[job[p].port] # Nobody
      BY <1>1, <2>3 DEF ParseArgs, Gone, IInv, TypeOK
    <3>3. listener[job[p].port] # p
      BY <1>1, <3>1 DEF IInv, PortInv
    <3> QED
      BY <3>2, <3>3
  <2>4. ASSUME NEW p \in Process, Bind(p) PROVE Explained(r)
    <3>1. r = p /\ ~(listener[job[p].port] \in {Nobody, p} /\ ~told[p]) /\ told' = told
      BY <1>1, <2>4 DEF Bind, Gone, IInv, TypeOK
    <3> QED
      BY <3>1
  <2>5. ASSUME NEW p \in Process, Drain(p) PROVE Explained(r)
    <3>1. r = p /\ phase[p] = "draining" /\ told' = told
      BY <1>1, <2>5 DEF Drain, Gone, IInv, TypeOK
    <3> QED
      BY <1>1, <3>1 DEF IInv, StopInv
  <2>6. ASSUME NEW p \in Process, Launch(p) \/ Reload(p) \/ StopListening(p) PROVE FALSE
    BY <1>1, <2>6 DEF Launch, Reload, StopListening, IInv, TypeOK
  <2>7. ASSUME NEW p \in Running, Terminate({p}) PROVE Explained(r)
    BY <1>1, <2>7 DEF Terminate
  <2>8. CASE UNCHANGED vars
    BY <1>1, <2>8 DEF vars
  <2> QED
    BY <1>1, <2>2, <2>3, <2>4, <2>5, <2>6, <2>7, <2>8 DEF Next, Advance
<1>2. IInv /\ [Next]_vars =>
        [\A p \in Process :
           phase[p] # "exited" /\ phase'[p] = "exited" =>
             told'[p] \/ ~Sound(p) \/ listener[job[p].port] \notin {Nobody, p}]_vars
  BY <1>1
<1> QED
  BY <1>2, InductiveInvariant, PTL DEF Spec, ExitExplained

-----------------------------------------------------------------------------
\* Nothing of a document but the names of a model is passed over (config.py:27-58).
LEMMA LoadChecksKeys ==
  ASSUME NEW document, Kind(document) # "null", LoadRuntimeConfig(document).ok
  PROVE  /\ DOMAIN document[2] \subseteq {"kv_cache", "target_device", "model", "model_name"}
         /\ DOMAIN Nested(document[2]) \subseteq {"kv_cache", "target_device"}
<1> DEFINE raw == document[2]
<1>1. ~Refused.ok
  BY DEF Refused
<1>2. Kind(document) \in {"null", "map"} /\ Validate(Flattened(Merged(raw))).ok
  BY <1>1 DEF LoadRuntimeConfig
<1>3. DOMAIN Flattened(Merged(raw)) \subseteq {"kv_cache", "target_device"}
  BY <1>1, <1>2 DEF Validate
<1>4. \A m : DOMAIN Flattened(m) = DOMAIN m
  BY DEF Flattened
<1>5. DOMAIN Merged(raw) = (DOMAIN raw \ {"model", "model_name"}) \union DOMAIN Nested(raw)
  BY DEF Merged, Without, Restrict, Overlay
<1> QED
  BY <1>2, <1>3, <1>4, <1>5

\* Neither a misspelt key of the document nor one of its model reaches a server.
THEOREM KeysAreChecked == Spec => []NoStrayKeys
<1>1. IInv => NoStrayKeys
  <2> SUFFICES ASSUME IInv, NEW p \in Process, phase[p] = "serving",
                      env[p] # NoPath, Kind(file[env[p]]) # "null"
               PROVE  /\ DOMAIN file[env[p]][2] \subseteq
                           {"kv_cache", "target_device", "model", "model_name"}
                      /\ DOMAIN Nested(file[env[p]][2]) \subseteq {"kv_cache", "target_device"}
    BY DEF NoStrayKeys
  <2>1. Configured(env[p]).ok
    BY DEF IInv, ServedInv, Up, Read
  <2>2. LoadRuntimeConfig(file[env[p]]).ok
    BY <2>1 DEF Configured, Refused
  <2> QED
    BY <2>2, LoadChecksKeys
<1> QED
  BY <1>1, InductiveInvariant, PTL

-----------------------------------------------------------------------------
(* What a document means.                                                  *)

\* A value that yaml.safe_load makes, whatever a mapping holds.
IsYaml(v) ==
  \/ Kind(v) \in {"null", "list"} /\ v = <<Kind(v)>>
  \/ Kind(v) = "bool" /\ v = <<"bool", v[2]>> /\ v[2] \in BOOLEAN
  \/ Kind(v) = "text" /\ v = <<"text", v[2], v[3]>> /\ v[2] \in STRING /\ v[3] \in {"plain", "loose"}
  \/ Kind(v) = "map" /\ v = <<"map", v[2]>>

\* Whatever a value's mapping holds is a value.
HoldsYaml(v) == Kind(v) = "map" => \A k \in DOMAIN v[2] : IsYaml(v[2][k])

\* No file, or a document that yaml.safe_load reads: as deep as load_runtime_config
\* looks, which is the switch of kv_cache within a model.
IsDocument(d) ==
  \/ d = Missing
  \/ /\ IsYaml(d) /\ HoldsYaml(d)
     /\ Kind(d) = "map" =>
          \A k \in DOMAIN d[2] :
            /\ HoldsYaml(d[2][k])
            /\ Kind(d[2][k]) = "map" => \A j \in DOMAIN d[2][k][2] : HoldsYaml(d[2][k][2][j])

FilesAreYaml == \A q \in Path : IsDocument(file[q])

\* A key has at most one value, that of the merged mapping (config.py:27-35).
LEMMA GivenIsMerged ==
  ASSUME NEW raw, ~ModelMalformed(raw), NEW key \in {"kv_cache", "target_device"}
  PROVE  Given(raw, key) = IF key \in DOMAIN Merged(raw) THEN {Merged(raw)[key]} ELSE {}
<1> DEFINE top == Without(raw, {"model", "model_name"})
           below == Nested(raw)
<1>1. Merged(raw) = [k \in DOMAIN top \union DOMAIN below |-> IF k \in DOMAIN top THEN top[k] ELSE below[k]]
  BY DEF Merged, Overlay
<1>2. /\ key \in DOMAIN top <=> key \in DOMAIN raw
      /\ key \in DOMAIN raw => top[key] = raw[key]
  BY DEF Without, Restrict
<1> HIDE DEF top, below
<1>3. CASE key \in DOMAIN raw
  <2>1. key \in DOMAIN Merged(raw) /\ Merged(raw)[key] = raw[key]
    BY <1>1, <1>2, <1>3
  <2> QED
    BY <1>3, <2>1 DEF Given
<1>4. CASE key \notin DOMAIN raw
  <2>1. /\ key \in DOMAIN Merged(raw) <=> key \in DOMAIN below
        /\ key \in DOMAIN below => Merged(raw)[key] = below[key]
    BY <1>1, <1>2, <1>4
  <2>2. Given(raw, key) =
          { m[2][key] : m \in
            { m \in {raw[k] : k \in {"model"} \intersect DOMAIN raw} :
                Kind(m) = "map" /\ key \in DOMAIN m[2] } }
    BY <1>4 DEF Given
  <2>3. CASE "model" \in DOMAIN raw /\ Kind(raw["model"]) = "map"
    <3> DEFINE m == raw["model"]
    <3>1. below = [k \in DOMAIN m[2] \ {"name", "model_name"} |-> m[2][k]]
      BY <2>3 DEF below, Nested, Without, Restrict
    <3>2. /\ key \in DOMAIN below <=> key \in DOMAIN m[2]
          /\ key \in DOMAIN m[2] => below[key] = m[2][key]
      BY <3>1
    <3>3. {raw[k] : k \in {"model"} \intersect DOMAIN raw} = {m}
      BY <2>3
    <3>4. Given(raw, key) = IF key \in DOMAIN m[2] THEN {m[2][key]} ELSE {}
      BY <2>2, <2>3, <3>3
    <3> QED
      BY <2>1, <3>2, <3>4
  <2>4. CASE ~("model" \in DOMAIN raw /\ Kind(raw["model"]) = "map")
    <3>1. below = << >>
      BY <2>4 DEF below, Nested
    <3>2. key \notin DOMAIN below
      BY <3>1
    <3>3. Given(raw, key) = {}
      BY <2>2, <2>4
    <3> QED
      BY <2>1, <3>2, <3>3
  <2> QED
    BY <2>3, <2>4
<1> QED
  BY <1>3, <1>4

\* A value pydantic takes for a bool is false only when it is spelt so.
LEMMA OffIsFalse ==
  ASSUME NEW v, IsYaml(v), IsBool(v)
  PROVE  Kind(v) # "map" /\ AsBool(v) \in BOOLEAN /\ (AsBool(v) <=> v \notin Off)
<1>1. CASE v[1] = "bool"
  <2>1. PICK b \in BOOLEAN : v = <<"bool", b>>
    BY <1>1 DEF IsYaml, Kind
  <2>2. AsBool(v) = b
    BY <2>1 DEF AsBool, Kind
  <2>3. v \in Off <=> b = FALSE
    BY <2>1 DEF Off
  <2> QED
    BY <1>1, <2>2, <2>3 DEF Kind
<1>2. CASE v[1] = "text" /\ v[2] \in {"true", "false"} /\ v[3] = "plain"
  <2>1. v = <<"text", v[2], v[3]>>
    BY <1>2 DEF IsYaml, Kind
  <2>2. AsBool(v) <=> v[2] = "true"
    BY <1>2 DEF AsBool, Kind
  <2>3. v \in Off => v[2] = "false"
    <3>1. <<"bool", FALSE>>[1] = "bool"
      OBVIOUS
    <3>2. v # <<"bool", FALSE>>
      BY <1>2, <3>1
    <3>3. v \in Off => v = <<"text", "false", "plain">>
      BY <3>2, Zenon DEF Off
    <3> QED
      BY <3>3
  <2>4. v[2] = "false" => v = <<"text", "false", "plain">>
    BY <1>2, <2>1
  <2>5. v \in Off <=> v[2] = "false"
    BY <2>3, <2>4 DEF Off
  <2> QED
    BY <1>2, <2>2, <2>5 DEF Kind, AsBool
<1> QED
  BY <1>1, <1>2 DEF IsBool, Kind

\* What the merged mapping holds, the document held.
LEMMA MergedYaml ==
  ASSUME NEW d, IsDocument(d), Kind(d) = "map", NEW key \in DOMAIN Merged(d[2])
  PROVE  IsYaml(Merged(d[2])[key]) /\ HoldsYaml(Merged(d[2])[key])
<1> DEFINE raw == d[2]
           top == Without(raw, {"model", "model_name"})
           below == Nested(raw)
<1>1. /\ \A k \in DOMAIN raw : IsYaml(raw[k]) /\ HoldsYaml(raw[k])
      /\ \A k \in DOMAIN raw : Kind(raw[k]) = "map" =>
           \A j \in DOMAIN raw[k][2] : IsYaml(raw[k][2][j]) /\ HoldsYaml(raw[k][2][j])
  BY DEF IsDocument, HoldsYaml, Kind, Missing
<1>2. Merged(raw) = [k \in DOMAIN top \union DOMAIN below |-> IF k \in DOMAIN top THEN top[k] ELSE below[k]]
  BY DEF Merged, Overlay
<1>3. \A k \in DOMAIN top : k \in DOMAIN raw /\ top[k] = raw[k]
  BY DEF Without, Restrict
<1>4. \A k \in DOMAIN below :
        /\ "model" \in DOMAIN raw /\ Kind(raw["model"]) = "map"
        /\ k \in DOMAIN raw["model"][2] /\ below[k] = raw["model"][2][k]
  BY DEF Nested, Without, Restrict
<1> HIDE DEF raw, top, below
<1>5. key \in DOMAIN Merged(raw)
  BY DEF raw
<1>6. CASE key \in DOMAIN top
  BY <1>1, <1>2, <1>3, <1>5, <1>6 DEF raw
<1>7. CASE key \notin DOMAIN top
  <2>1. key \in DOMAIN below /\ Merged(raw)[key] = below[key]
    BY <1>2, <1>5, <1>7
  <2> QED
    BY <1>1, <1>4, <2>1 DEF raw
<1> QED
  BY <1>6, <1>7

\* What a mapping switches on or off.
Switch(v) == IF Kind(v) = "map" THEN {v[2][k] : k \in {"enabled"} \intersect DOMAIN v[2]} ELSE {v}

\* An accepted document means what it says, however it says it (config.py:19-71).
LEMMA LoadMeans ==
  ASSUME NEW d, IsDocument(d), d # <<"null">>, LoadRuntimeConfig(d).ok
  PROVE  LET config == LoadRuntimeConfig(d)
         IN  /\ config.kvCache = (\A v \in Given(d[2], "kv_cache") : Switch(v) \intersect Off = {})
             /\ \/ \E v \in Given(d[2], "target_device") : Kind(v) = "text" /\ config.targetDevice = v[2]
                \/ Given(d[2], "target_device") = {} /\ config.targetDevice = "auto"
<1> DEFINE m == Merged(d[2])
           f == Flattened(m)
<1>1. ~Refused.ok
  BY DEF Refused
<1>2. Kind(d) = "map"
  <2>1. Kind(d) \in {"null", "map"}
    BY <1>1 DEF LoadRuntimeConfig
  <2>2. d # Missing
    BY <2>1 DEF Missing, Kind
  <2>3. Kind(d) # "null"
    BY <2>2 DEF IsDocument, IsYaml, Kind
  <2> QED
    BY <2>1, <2>3
<1>3. /\ ~ModelMalformed(d[2]) /\ ~KvCacheMalformed(m)
      /\ LoadRuntimeConfig(d) = Validate(f) /\ Validate(f).ok
  BY <1>1, <1>2 DEF LoadRuntimeConfig
<1>4. /\ "kv_cache" \in DOMAIN f => IsBool(f["kv_cache"])
      /\ "target_device" \in DOMAIN f => IsDevice(f["target_device"])
      /\ Validate(f) =
           Config(IF "kv_cache" \in DOMAIN f THEN AsBool(f["kv_cache"]) ELSE DefaultConfig.kvCache,
                  IF "target_device" \in DOMAIN f THEN f["target_device"][2] ELSE DefaultConfig.targetDevice)
  BY <1>1, <1>3 DEF Validate
<1>5. /\ DOMAIN f = DOMAIN m
      /\ "target_device" \in DOMAIN m => f["target_device"] = m["target_device"]
      /\ "kv_cache" \in DOMAIN m =>
           f["kv_cache"] = IF Kind(m["kv_cache"]) = "map" THEN m["kv_cache"][2]["enabled"] ELSE m["kv_cache"]
  BY DEF Flattened
<1>6. /\ Given(d[2], "kv_cache") = IF "kv_cache" \in DOMAIN m THEN {m["kv_cache"]} ELSE {}
      /\ Given(d[2], "target_device") = IF "target_device" \in DOMAIN m THEN {m["target_device"]} ELSE {}
  BY <1>3, GivenIsMerged
<1>7. /\ LoadRuntimeConfig(d).kvCache = IF "kv_cache" \in DOMAIN f THEN AsBool(f["kv_cache"]) ELSE TRUE
      /\ LoadRuntimeConfig(d).targetDevice =
           IF "target_device" \in DOMAIN f THEN f["target_device"][2] ELSE "auto"
  BY <1>3, <1>4 DEF Config, DefaultConfig
<1>8. LoadRuntimeConfig(d).kvCache = (\A v \in Given(d[2], "kv_cache") : Switch(v) \intersect Off = {})
  <2>1. CASE "kv_cache" \notin DOMAIN m
    BY <1>5, <1>6, <1>7, <2>1
  <2>2. CASE "kv_cache" \in DOMAIN m
    <3> DEFINE v == m["kv_cache"]
               x == f["kv_cache"]
    <3>1. IsYaml(v) /\ HoldsYaml(v)
      BY <1>2, <2>2, MergedYaml
    <3>2. Switch(v) = {x} /\ IsYaml(x)
      <4>1. CASE Kind(v) = "map"
        <5>1. "enabled" \in DOMAIN v[2] /\ x = v[2]["enabled"]
          BY <1>3, <1>5, <2>2, <4>1 DEF KvCacheMalformed
        <5> QED
          BY <3>1, <4>1, <5>1 DEF Switch, HoldsYaml
      <4>2. CASE Kind(v) # "map"
        BY <1>5, <2>2, <3>1, <4>2 DEF Switch
      <4> QED
        BY <4>1, <4>2
    <3>3. AsBool(x) \in BOOLEAN /\ (AsBool(x) <=> x \notin Off)
      BY <1>4, <1>5, <2>2, <3>2, OffIsFalse
    <3>4. LoadRuntimeConfig(d).kvCache = AsBool(x)
      BY <1>5, <1>7, <2>2
    <3>5. Given(d[2], "kv_cache") = {v}
      BY <1>6, <2>2
    <3> HIDE DEF v, x
    <3>6. (\A w \in Given(d[2], "kv_cache") : Switch(w) \intersect Off = {}) <=> x \notin Off
      BY <3>2, <3>5
    <3> QED
      BY <3>3, <3>4, <3>6
  <2> QED
    BY <2>1, <2>2
<1>9. \/ \E v \in Given(d[2], "target_device") : Kind(v) = "text" /\ LoadRuntimeConfig(d).targetDevice = v[2]
      \/ Given(d[2], "target_device") = {} /\ LoadRuntimeConfig(d).targetDevice = "auto"
  BY <1>4, <1>5, <1>6, <1>7 DEF IsDevice
<1> QED
  BY <1>8, <1>9

\* Of files that hold YAML, a server takes every setting as it is given, on either
\* level and in either form, and keeps the default of what is not said
\* (config.py:10-71).
THEOREM SettingsAreMeant == FilesAreYaml /\ Spec => []ConfigMeaning
<1>1. FilesAreYaml /\ [Next]_vars => FilesAreYaml'
  <2>1. [Next]_vars => file' = file
    BY DEF Next, Launch, Advance, ImportServer, ImportScript, ParseArgs, Spawn, LoadApp, CallFactory,
           Bind, StopListening, Drain, Reload, Terminate, vars
  <2> QED
    BY <2>1 DEF FilesAreYaml
<1>2. IInv /\ FilesAreYaml => ConfigMeaning
  <2> SUFFICES ASSUME IInv, FilesAreYaml, NEW p \in Process, phase[p] = "serving",
                      env[p] # NoPath, file[env[p]] # <<"null">>
               PROVE  LET d == file[env[p]]
                      IN  /\ served[p].kvCache = (\A v \in Given(d[2], "kv_cache") : Switch(v) \intersect Off = {})
                          /\ \/ \E v \in Given(d[2], "target_device") :
                                  Kind(v) = "text" /\ served[p].targetDevice = v[2]
                             \/ Given(d[2], "target_device") = {} /\ served[p].targetDevice = "auto"
    BY DEF ConfigMeaning, Switch
  <2>1. env[p] \in Path /\ IsDocument(file[env[p]])
    BY DEF IInv, TypeOK, FilesAreYaml
  <2>2. served[p] = Configured(env[p]) /\ Configured(env[p]).ok
    BY DEF IInv, ServedInv, Up, Read
  <2>3. served[p] = LoadRuntimeConfig(file[env[p]]) /\ served[p].ok
    BY <2>2 DEF Configured, Refused
  <2> QED
    BY <2>1, <2>3, LoadMeans
<1> QED
  BY <1>1, <1>2, InductiveInvariant, PTL DEF Spec

-----------------------------------------------------------------------------
(* BenchHarness: every run of benchpress.experiment.yaml serves with its   *)
(* own setting, though one file that is written anew configures all four   *)
(* servers.                                                                *)

\* What run p writes, and what its server makes of it.
Setting(p) ==
  <<"map", [kv_cache |-> <<"bool", Runs[p].kvCache>>,
            target_device |-> <<"text", "cpu", "plain">>]>>
Own(p) == Config(Runs[p].kvCache, "cpu")

\* Who runs and was not told to stop.
Wanted == { p \in Running : ~told[p] }

FunctionsInv ==
  /\ DOMAIN phase = Process /\ DOMAIN env = Process /\ DOMAIN served = Process
  /\ told \in [Process -> BOOLEAN]
  /\ DOMAIN file = Path
  /\ \A p \in Process : job[p].script = Runs[p].script /\ job[p].config = Yaml

\* Past the command line a server reads the harness's file.
ShellEnvInv ==
  \A p \in Process : phase[p] \in {"spawning", "loading", "creating"} => env[p] = Yaml

\* The file is the one of every server that is still wanted.
FileInv == \A p \in Wanted : file[Yaml] = Setting(p)

\* The servers of one kind are told to stop, then those of the other, and the file is
\* written when nobody is wanted.
ShellInv ==
  /\ step = <<"stop", "server">> => \A p \in Wanted : Runs[p].script = "server"
  /\ step = <<"write">> => Wanted = {}
  /\ step = <<"start">> => file[Yaml] = Setting(run)

\* Whoever will serve has its own setting; whoever is told to stop never will.
SettingInv ==
  \A p \in Process :
    /\ phase[p] = "binding" /\ ~told[p] => served[p] = Own(p)
    /\ phase[p] = "serving" => served[p] = Own(p)

HarnessIInv == FunctionsInv /\ ShellEnvInv /\ FileInv /\ ShellInv /\ SettingInv

-----------------------------------------------------------------------------
\* What load_runtime_config makes of the file (config.py:25-68).
LEMMA SettingIsOwn ==
  ASSUME NEW p
  PROVE  LoadRuntimeConfig(Setting(p)) = Own(p)
<1> DEFINE raw == [kv_cache |-> <<"bool", Runs[p].kvCache>>,
                   target_device |-> <<"text", "cpu", "plain">>]
<1>1. Kind(Setting(p)) = "map" /\ Setting(p)[2] = raw
  BY DEF Setting, Kind
<1>2. DOMAIN raw = {"kv_cache", "target_device"}
  OBVIOUS
<1>3. Nested(raw) = << >> /\ ~ModelMalformed(raw)
  BY <1>2 DEF Nested, ModelMalformed
<1>4. Without(raw, {"model", "model_name"}) = raw
  BY <1>2 DEF Without, Restrict
<1>5. Merged(raw) = raw
  <2>1. DOMAIN << >> = {}
    OBVIOUS
  <2> QED
    BY <1>2, <1>3, <1>4, <2>1 DEF Merged, Overlay
<1>6. /\ Kind(raw["kv_cache"]) = "bool" /\ raw["kv_cache"][2] = Runs[p].kvCache
      /\ Kind(raw["target_device"]) = "text" /\ raw["target_device"][2] = "cpu"
  BY DEF Kind
<1> HIDE DEF raw
<1>7. ~KvCacheMalformed(raw) /\ Flattened(raw) = raw
  BY <1>6 DEF KvCacheMalformed, Flattened
<1>8. IsBool(raw["kv_cache"]) /\ IsDevice(raw["target_device"])
  BY <1>6 DEF IsBool, IsDevice
<1>9. AsBool(raw["kv_cache"]) = Runs[p].kvCache
  BY <1>6 DEF AsBool
<1>10. Validate(raw) = Own(p)
  BY <1>2, <1>6, <1>8, <1>9 DEF Validate, Own
<1> QED
  BY <1>1, <1>3, <1>5, <1>7, <1>10 DEF LoadRuntimeConfig

\* Nothing changes but the state of p.
Apart(p) ==
  /\ UNCHANGED <<file, job, told, run>>
  /\ DOMAIN env' = Process /\ DOMAIN served' = Process
  /\ \A r \in Process \ {p} : env'[r] = env[r] /\ served'[r] = served[r]

\* What p has when it comes to a phase is what the invariant asks for.
Fitting(p, next) ==
  /\ next \in {"spawning", "loading", "creating"} => env'[p] = Yaml
  /\ next = "binding" /\ ~told[p] => served'[p] = Own(p)
  /\ next = "serving" => served'[p] = Own(p)

\* A process that goes on by itself, or is launched, keeps the invariant if only its
\* own state changes, and into what it may.
LEMMA ProcessMoves ==
  ASSUME HarnessIInv,
         NEW p \in Process, NEW next,
         phase' = [phase EXCEPT ![p] = next],
         Apart(p), Fitting(p, next),
         p \in Wanted \/ next = "exited" \/ told[p] \/ (file[Yaml] = Setting(p) /\ step' = <<"poll">>),
         UNCHANGED step \/ step' = <<"poll">>
  PROVE  HarnessIInv'
<1>1. phase'[p] = next /\ \A r \in Process \ {p} : phase'[r] = phase[r]
  BY DEF HarnessIInv, FunctionsInv
<1>2. FunctionsInv'
  BY DEF HarnessIInv, FunctionsInv, Apart
<1>3. ShellEnvInv'
  BY <1>1 DEF HarnessIInv, ShellEnvInv, Apart, Fitting
<1>4. \A r \in Wanted' : r \in Wanted \/ (r = p /\ file[Yaml] = Setting(p) /\ step' = <<"poll">>)
  BY <1>1 DEF Wanted, Running, Apart
<1>5. FileInv'
  BY <1>4 DEF HarnessIInv, FileInv, Setting, Apart
<1>6. ShellInv'
  BY <1>4 DEF HarnessIInv, ShellInv, Setting, Apart
<1>7. SettingInv'
  BY <1>1 DEF HarnessIInv, SettingInv, Own, Apart, Fitting
<1> QED
  BY <1>2, <1>3, <1>5, <1>6, <1>7 DEF HarnessIInv

\* What an import leaves behind; the file has not changed.
LEMMA ImportEnds ==
  ASSUME NEW p \in Process, NEW then, CreateApp(p, then)
  PROVE  \E next \in {then, "crashed", "exited"} : phase' = [phase EXCEPT ![p] = next]
BY DEF CreateApp, Gone

\* Imports, command line, factory, port, and the end of a server (server.py:404-411).
LEMMA HarnessAdvancePreserves ==
  ASSUME HarnessIInv, NEW p \in Process, Advance(p), UNCHANGED harness
  PROVE  HarnessIInv'
<1>1. UNCHANGED <<file, job, told, run, step>>
  BY DEF harness, Advance, ImportServer, ImportScript, ParseArgs, Spawn, LoadApp, CallFactory, Bind,
         StopListening, Drain
<1>2. phase[p] \notin {"off", "exited"} /\ (p \in Wanted \/ told[p])
  BY DEF HarnessIInv, FunctionsInv, Wanted, Running, Advance, ImportServer, ImportScript, ParseArgs, Spawn, LoadApp,
         CallFactory, Bind, StopListening, Drain
<1>3. DOMAIN env = Process /\ DOMAIN served = Process /\ job[p].config = Yaml
  BY DEF HarnessIInv, FunctionsInv
<1>4. ASSUME NEW next, phase' = [phase EXCEPT ![p] = next], Apart(p), Fitting(p, next)
      PROVE  HarnessIInv'
  <2>1. UNCHANGED step \/ step' = <<"poll">>
    BY <1>1
  <2>2. p \in Wanted \/ next = "exited" \/ told[p] \/ (file[Yaml] = Setting(p) /\ step' = <<"poll">>)
    BY <1>2
  <2> QED
    BY <1>4, <2>1, <2>2, ProcessMoves, Zenon
<1>5. CASE ImportServer(p) \/ ImportScript(p)
  <2>1. CreateApp(p, "importing") \/ CreateApp(p, "parsing")
    BY <1>5 DEF ImportServer, ImportScript
  <2>2. \E next \in {"importing", "parsing", "crashed", "exited"} : phase' = [phase EXCEPT ![p] = next]
    BY <2>1, ImportEnds
  <2>3. Apart(p)
    BY <1>1, <1>3, <1>5 DEF ImportServer, ImportScript, Apart
  <2>4. \A next \in {"importing", "parsing", "crashed", "exited"} : Fitting(p, next)
    BY DEF Fitting
  <2> QED
    BY <1>4, <2>2, <2>3, <2>4
<1>6. CASE ParseArgs(p)
  <2>1. \E next \in {"loading", "spawning", "exited"} : phase' = [phase EXCEPT ![p] = next]
    BY <1>6 DEF ParseArgs, Gone
  <2>2. env' = [env EXCEPT ![p] = EnvAfterArgs(job[p])] /\ served' = served
    BY <1>6 DEF ParseArgs
  <2>3. EnvAfterArgs(job[p]) = Yaml
    BY <1>3, HarnessAssumption, StartupAssumption DEF EnvAfterArgs
  <2>4. Apart(p)
    BY <1>1, <1>3, <2>2 DEF Apart
  <2>5. \A next \in {"loading", "spawning", "exited"} : Fitting(p, next)
    BY <1>3, <2>2, <2>3 DEF Fitting
  <2> QED
    BY <1>4, <2>1, <2>4, <2>5
<1>7. CASE Spawn(p) \/ LoadApp(p)
  <2>1. CreateApp(p, "loading") \/ CreateApp(p, "creating")
    BY <1>7 DEF Spawn, LoadApp
  <2>2. \E next \in {"loading", "creating", "crashed", "exited"} : phase' = [phase EXCEPT ![p] = next]
    BY <2>1, ImportEnds
  <2>3. UNCHANGED <<env, served>> /\ phase[p] \in {"spawning", "loading"}
    BY <1>7 DEF Spawn, LoadApp
  <2>4. env'[p] = Yaml
    BY <2>3 DEF HarnessIInv, ShellEnvInv
  <2>5. Apart(p)
    BY <1>1, <1>3, <2>3 DEF Apart
  <2>6. \A next \in {"loading", "creating", "crashed", "exited"} : Fitting(p, next)
    BY <2>4 DEF Fitting
  <2> QED
    BY <1>4, <2>2, <2>5, <2>6
<1>8. CASE CallFactory(p)
  <2>1. \E next \in {"binding", "crashed", "exited"} : phase' = [phase EXCEPT ![p] = next]
    BY <1>8, ImportEnds DEF CallFactory
  <2>2. phase[p] = "creating" /\ env' = env /\ served' = [served EXCEPT ![p] = Read(p)]
    BY <1>8 DEF CallFactory
  <2>3. ASSUME ~told[p] PROVE Read(p) = Own(p)
    <3>1. env[p] = Yaml /\ file[Yaml] = Setting(p)
      BY <1>2, <2>2, <2>3 DEF HarnessIInv, ShellEnvInv, FileInv
    <3>2. Yaml # NoPath /\ Setting(p) # Missing
      BY HarnessAssumption, StartupAssumption DEF Setting, Missing
    <3> QED
      BY <3>1, <3>2, SettingIsOwn DEF Read, Configured
  <2>4. Apart(p)
    BY <1>1, <1>3, <2>2 DEF Apart
  <2>5. \A next \in {"binding", "crashed", "exited"} : Fitting(p, next)
    BY <1>3, <2>2, <2>3 DEF Fitting
  <2> QED
    BY <1>4, <2>1, <2>4, <2>5
<1>9. CASE Bind(p)
  <2>1. \/ phase' = [phase EXCEPT ![p] = "exited"]
        \/ ~told[p] /\ phase' = [phase EXCEPT ![p] = "serving"]
    BY <1>9 DEF Bind, Gone
  <2>2. phase[p] = "binding" /\ UNCHANGED <<env, served>>
    BY <1>9 DEF Bind
  <2>3. Fitting(p, "exited") /\ (~told[p] => Fitting(p, "serving"))
    BY <2>2 DEF HarnessIInv, SettingInv, Fitting
  <2>4. Apart(p)
    BY <1>1, <1>3, <2>2 DEF Apart
  <2> QED
    BY <1>4, <2>1, <2>3, <2>4
<1>10. CASE StopListening(p) \/ Drain(p)
  <2>1. \E next \in {"draining", "exited"} : phase' = [phase EXCEPT ![p] = next]
    BY <1>10 DEF StopListening, Drain, Gone
  <2>2. Apart(p)
    BY <1>1, <1>3, <1>10 DEF StopListening, Drain, Apart
  <2>3. Fitting(p, "draining") /\ Fitting(p, "exited")
    BY DEF Fitting
  <2> QED
    BY <1>4, <2>1, <2>2, <2>3
<1> QED
  BY <1>5, <1>6, <1>7, <1>8, <1>9, <1>10 DEF Advance

\* pkill -f: nobody of the kind is wanted any more (benchpress.experiment.yaml:30-34).
LEMMA StopPreserves ==
  ASSUME HarnessIInv, NEW script, NEW then, Stop(script, then),
         <<script, then>> \in { <<"hf_server", <<"stop", "server">>>>, <<"server", <<"write">>>> }
  PROVE  HarnessIInv'
<1>1. /\ step = <<"stop", script>> /\ step' = then /\ run' = run
      /\ UNCHANGED <<file, job, env, served>>
  BY DEF Stop, Terminate
<1>2. told' = [p \in Process |-> told[p] \/ p \in {q \in Running : job[q].script = script}]
  BY DEF Stop, Terminate
<1>3. /\ DOMAIN phase' = Process
      /\ \A p \in Process : phase'[p] \in {phase[p], "exited", "stopping"}
      /\ \A p \in Process : phase'[p] = "stopping" => phase[p] \in {"serving", "stopping"}
  BY DEF Stop, Terminate
<1>4. \A p \in Wanted' : p \in Wanted /\ Runs[p].script # script
  BY <1>2, <1>3 DEF Wanted, Running, HarnessIInv, FunctionsInv
<1>5. FunctionsInv'
  BY <1>1, <1>2, <1>3 DEF HarnessIInv, FunctionsInv
<1>6. ShellEnvInv'
  BY <1>1, <1>3 DEF HarnessIInv, ShellEnvInv
<1>7. FileInv'
  BY <1>1, <1>4 DEF HarnessIInv, FileInv, Setting
<1>8. ShellInv'
  <2>1. \A p \in Process : Runs[p].script \in {"server", "hf_server"}
    BY HarnessAssumption DEF Runs
  <2>2. CASE script = "hf_server" /\ then = <<"stop", "server">>
    BY <1>1, <1>4, <2>1, <2>2 DEF ShellInv, Wanted, Running
  <2>3. CASE script = "server" /\ then = <<"write">>
    <3>1. \A p \in Wanted : Runs[p].script = "server"
      BY <1>1, <2>3 DEF HarnessIInv, ShellInv
    <3> QED
      BY <1>1, <1>4, <2>3, <3>1 DEF ShellInv
  <2> QED
    BY <2>2, <2>3
<1>9. SettingInv'
  BY <1>1, <1>2, <1>3 DEF HarnessIInv, SettingInv, Own, FunctionsInv
<1> QED
  BY <1>5, <1>6, <1>7, <1>8, <1>9 DEF HarnessIInv

\* Init => HarnessIInv
LEMMA HarnessInitInv == HarnessInit => HarnessIInv
BY HarnessAssumption
   DEF HarnessInit, Init, HarnessIInv, FunctionsInv, ShellEnvInv, FileInv, ShellInv, SettingInv, Wanted, Running

\* HarnessIInv /\ [HarnessNext]_<<vars, harness>> => HarnessIInv'
LEMMA HarnessNextInv ==
  ASSUME HarnessIInv, [HarnessNext]_<<vars, harness>>
  PROVE  HarnessIInv'
<1>1. CASE Stop("hf_server", <<"stop", "server">>)
  BY <1>1, StopPreserves
<1>2. CASE Stop("server", <<"write">>)
  BY <1>2, StopPreserves
<1>3. CASE Write
  <2>1. /\ step = <<"write">> /\ step' = <<"start">>
        /\ file' = [file EXCEPT ![Yaml] = Setting(run)]
        /\ UNCHANGED <<phase, job, env, told, served, run>>
    BY <1>3 DEF Write, Setting
  <2>2. Wanted = {} /\ Wanted' = {}
    BY <2>1 DEF HarnessIInv, ShellInv, Wanted, Running
  <2>3. file'[Yaml] = Setting(run)'
    BY <2>1, HarnessAssumption DEF HarnessIInv, FunctionsInv, Setting
  <2>4. FunctionsInv' /\ ShellEnvInv' /\ SettingInv'
    BY <2>1 DEF HarnessIInv, FunctionsInv, ShellEnvInv, SettingInv, Own
  <2> QED
    BY <2>1, <2>2, <2>3, <2>4 DEF HarnessIInv, FileInv, ShellInv
<1>4. CASE Start
  <2>1. /\ step = <<"start">> /\ step' = <<"poll">>
        /\ UNCHANGED <<file, job, env, told, served, run>>
    BY <1>4 DEF Start, Launch
  <2>2. \E next \in {"importing server", "importing"} : phase' = [phase EXCEPT ![run] = next]
    BY <1>4 DEF Start, Launch
  <2>3. file[Yaml] = Setting(run)
    BY <2>1 DEF HarnessIInv, ShellInv
  <2>4. CASE run \in Process
    <3>1. Apart(run)
      BY <2>1 DEF Apart, HarnessIInv, FunctionsInv
    <3>2. \A next \in {"importing server", "importing"} : Fitting(run, next)
      BY DEF Fitting
    <3> QED
      BY <2>1, <2>2, <2>3, <2>4, <3>1, <3>2, ProcessMoves
  <2>5. CASE run \notin Process
    <3>1. DOMAIN phase' = Process /\ \A p \in Process : phase'[p] = phase[p]
      BY <2>2, <2>5 DEF HarnessIInv, FunctionsInv
    <3> QED
      BY <2>1, <3>1 DEF HarnessIInv, FunctionsInv, ShellEnvInv, FileInv, ShellInv, SettingInv, Wanted, Running,
           Setting, Own
  <2> QED
    BY <2>4, <2>5
<1>5. CASE Poll \/ WarmUp \/ Measure
  <2>1. step' \in {<<"warm up">>, <<"measure">>, <<"aborted">>, <<"stop", "hf_server">>, <<"done">>}
    BY <1>5 DEF Poll, WarmUp, Measure
  <2>2. UNCHANGED vars
    BY <1>5 DEF Poll, WarmUp, Measure
  <2>3. step' \notin {<<"stop", "server">>, <<"write">>, <<"start">>}
    <3>1. \A word \in {"warm up", "measure", "aborted", "done"} :
            <<word>> \notin {<<"stop", "server">>, <<"write">>, <<"start">>}
      OBVIOUS
    <3>2. <<"stop", "hf_server">> \notin {<<"stop", "server">>, <<"write">>, <<"start">>}
      OBVIOUS
    <3>3. step' = <<"stop", "hf_server">>
             \/ \E word \in {"warm up", "measure", "aborted", "done"} : step' = <<word>>
      BY <2>1
    <3> QED
      BY <3>1, <3>2, <3>3
  <2> QED
    BY <2>2, <2>3 DEF vars, HarnessIInv, FunctionsInv, ShellEnvInv, FileInv, ShellInv, SettingInv, Wanted, Running,
         Setting, Own
<1>6. CASE \E p \in Process : Advance(p) /\ UNCHANGED harness
  BY <1>6, HarnessAdvancePreserves
<1>7. CASE UNCHANGED <<vars, harness>>
  BY <1>7 DEF vars, harness, HarnessIInv, FunctionsInv, ShellEnvInv, FileInv, ShellInv, SettingInv, Wanted, Running,
       Setting, Own
<1> QED
  BY <1>1, <1>2, <1>3, <1>4, <1>5, <1>6, <1>7 DEF HarnessNext, HarnessStep

\* In the four runs of the benchmark, however the processes of the runs overlap, a
\* server that serves has the setting of its own run.
THEOREM EachItsOwnSetting == HarnessSpec => []OwnSetting
<1>1. HarnessIInv => OwnSetting
  BY DEF HarnessIInv, SettingInv, OwnSetting, Own
<1>2. HarnessSpec => []HarnessIInv
  BY HarnessInitInv, HarnessNextInv, PTL DEF HarnessSpec
<1> QED
  BY <1>1, <1>2, PTL

=============================================================================
