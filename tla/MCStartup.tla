------------------------------ MODULE MCStartup ------------------------------
(* The four runs of the benchmark, and servers that are started and stopped *)
(* by hand: one started in every way beside another that wants its port,    *)
(* and one alone with every small document.                                 *)
EXTENDS BenchHarness, TLC

CONSTANTS good, bad

CpuOff == <<"map", [kv_cache |-> <<"bool", FALSE>>, target_device |-> <<"text", "cpu", "plain">>]>>
MpsOn == <<"map", [kv_cache |-> <<"bool", TRUE>>, target_device |-> <<"text", "mps", "plain">>]>>
Misspelt == <<"map", [device |-> <<"text", "cpu", "plain">>]>>

Mps == {"mps"}

ByHandInit == Init /\ run = 0 /\ step = <<"done">> /\ heard = [p \in Process |-> Nobody]

Started(script, config) ==
  [script |-> script, env |-> NoPath, config |-> config, reload |-> FALSE, port |-> Url]

\* The file that is refused has a key nobody knows, or is not there.
PortInit ==
  /\ \E one \in Job, reload \in BOOLEAN :
       job = [p \in Process |->
         IF p = 1 THEN one ELSE [Started("server", NoPath) EXCEPT !.reload = reload]]
  /\ \E d \in {Misspelt, Missing} : file = [q \in Path |-> IF q = good THEN CpuOff ELSE d]
  /\ ByHandInit

-----------------------------------------------------------------------------
KvValues ==
  { <<"bool", TRUE>>, <<"bool", FALSE>>, <<"text", "false", "plain">>,
    <<"text", "false", "loose">>, <<"null">>, <<"map", << >>>>,
    <<"map", [enabled |-> <<"bool", FALSE>>]>> }

DeviceValues == { <<"text", "cpu", "plain">>, <<"text", "mps", "loose">>, <<"text", "", "loose">> }

\* The mapping may lack a key.
Partial(key, values) == { << >> } \union { key :> v : v \in values }

Maps(kvs, devices, more) ==
  { a @@ b @@ c : a \in Partial("kv_cache", kvs), b \in Partial("target_device", devices), c \in more }

Models ==
  {<<"null">>, <<"list">>} \union
  { <<"map", m>> :
      m \in Maps({<<"bool", FALSE>>, <<"map", [enabled |-> <<"bool", FALSE>>]>>, <<"null">>},
                 {<<"text", "mps", "loose">>, <<"null">>},
                 { << >>, "name" :> <<"list">>, "dtype" :> <<"null">> }) }

Documents ==
  {<<"null">>, <<"list">>, Missing}
  \union { <<"map", m>> : m \in Maps(KvValues, DeviceValues,
             { << >>, "model_name" :> <<"null">>, "name" :> <<"null">> }) }
  \union { <<"map", m>> : m \in Maps({<<"bool", TRUE>>, <<"map", << >>>>},
             {<<"text", "cpu", "plain">>}, Partial("model", Models)) }

DocumentInit ==
  /\ job = [p \in Process |-> Started("server", good)]
  /\ \E d \in Documents : file = [q \in Path |-> d]
  /\ ByHandInit

\* README.md:12, the baseline without a configuration; README.md:22 and 101-104, a
\* server with the settings shown.
DocumentedInit ==
  /\ job \in { [p \in Process |-> Started("hf_server", NoPath)],
               [p \in Process |-> Started("server", good)] }
  /\ file = [q \in Path |-> MpsOn]
  /\ ByHandInit

-----------------------------------------------------------------------------
\* The second server is there to want the port.
Hands == {1} \union { p \in {2} : job[p].config = NoPath }

ByHand ==
  /\ run = 0
  /\ \/ \E p \in Hands : Launch(p) \/ Reload(p)
     \/ \E p \in Running : Terminate({p})
  /\ UNCHANGED harness

MCNext == HarnessNext \/ ByHand

MCSpec ==
  /\ HarnessInit \/ PortInit \/ DocumentInit
  /\ [][MCNext]_<<vars, harness>>
  /\ WF_<<vars, harness>>(HarnessStep)
  /\ \A p \in Process : WF_<<vars, harness>>(Advance(p) /\ UNCHANGED harness)

DocumentedSpec == DocumentedInit /\ [][MCNext]_<<vars, harness>>

=============================================================================
