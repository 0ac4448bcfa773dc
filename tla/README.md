# Verification of build-my-own-x in TLA+

The repository holds three independent programs: **KV_Cache** (GPT-2 inference with a key/value cache, a
command line, an HTTP server, a baseline server and a benchmark configuration), **CPU** (a 16-bit processor in
Verilog) and **Graph_Neural_Network** (two notebooks). This directory models the parts whose correctness does not
show in a test: the cache against recomputation, the server under concurrent requests, how the servers come up, stop
and are benchmarked, the two backends against each other, the processor cycle by cycle against its instruction set, and
the graph networks against the symmetries of the graph. `PROJECT.json` maps every definition to the lines it translates.

Paths below are relative to the repository root.

## Inventory

| Part | State | Operations | Interacts with | Hard behaviour | What makes it correct |
| --- | --- | --- | --- | --- | --- |
| Text generation, `KV_Cache/model.py`, `metrics.py` | weights (constant); per call: tokens, `kv_cache`, activations, timings | `generate_with_metadata`, `prefill`, `decode` of model and block, `poll_token_from_logits` | called by the command line and, from several threads, by the server | uninitialised cache rows, position arithmetic, the choice of prefill or decode, the window limit | a cached row is the row recomputation would give; each token is drawn from the logits of the whole text; the loop ends where it must |
| Command line, `KV_Cache/main.py` | torch's random generator | `resolve_prompt`, `seed_generation`, `run_generation`, compare mode | text generation | two runs must use the same draws; the second model may fail to be constructed | compare mode never warns, and reports unless it raises |
| HTTP server, `KV_Cache/server.py` | LRU cache of models, worker pool, event loop, open streams | `/healthz`, `/v1/responses`, `/generate`, `/v1/completions` with and without `stream` | text generation, FastAPI, anyio, functools | concurrent misses and eviction, a blocked event loop, a full pool, a generation that fails halfway | every request is answered, with a status that says what happened; streams are whole; the cache stays sound |
| Baseline server, `KV_Cache/hf_server.py` | as above | as above, with transformers' `generate` | imports `server.py`, and so runs its module level | no window of its own; the device `auto` is handed to torch | the same verdicts as `server.py` |
| Configuration and device, `config.py`, `device.py` | environment variable, YAML file | `load_runtime_config`, `get_accelerator_device` | both servers, at every import and in the factory | the variable is read before `--config` is parsed, in several imports and processes | the configuration given is the one in force |
| Benchmark, `benchpress.experiment.yaml` | processes, port 8000, a shared YAML file | stop, rewrite, start, poll, warm up | both servers | an old server may answer the poll, and the poll has no timeout | each run has its own server, with its own setting |
| Datapath, `gates.v`, `adder.v`, `alu.v`, `register.v`, `register_file.v`, `datapath.v` | eight registers, the ALU's latch | one clock cycle | control unit | carries, wrap-around, read and write of one register in a cycle, an unintended latch | arithmetic modulo 2^16; one register written, from the operands before the edge |
| Control unit and CPU, `decoder.v`, `program_counter.v`, `control_fsm.v`, `control_unit.v`, `cpu.v` | state machine, instruction register, counter | one clock edge, with reset and a word from memory | datapath, memory | state and instruction register out of step by one instruction, undriven nets, partial reset | instructions take effect once and in order |
| Memory and chip, `ram.v`, `chip.v` | 512 words | one clock edge | CPU | implicit and one-bit nets | the CPU executes what the memory holds |
| GNN notebooks | weights; the rows of the layer under way | `message_pass`, `forward` | torch_geometric | nodes visited one by one over rows that must not change meanwhile | equal predictions for nodes that look alike |
| `KV_Cache/typings` | none | none | none | generated stubs | none |

## Modules

| Module | What it models |
| --- | --- |
| `CausalNetwork` | the transformer as uninterpreted functions, and the reference forward pass as an assumption about them |
| `TextGeneration` | abstract: what `generate_with_metadata` promises |
| `KVGeneration` | the call, block by block, with and without the cache; implements `TextGeneration` |
| `KVGenerationProofs` | proofs about `KVGeneration` and `CompareKVCache` |
| `CompareKVCache` | extends `KVGeneration` by compare mode and the seeded generator |
| `TermNetwork` | a network of terms, for TLC only |
| `ModelServer` | event loop, worker pool, model cache, handlers and streams of `server.py` |
| `ModelServerProofs` | proofs about `ModelServer` |
| `Datapath` | one cycle of `datapath.v`, down to gates |
| `DatapathProofs` | proofs about `Datapath` |
| `InstructionWord` | `isa.vh` and `decoder.v` |
| `InstructionSet` | abstract: the instructions without the cycles |
| `Cpu` | one clock edge of `cpu.v`; implements `InstructionSet` |
| `CpuProofs` | proofs about `Cpu` |
| `Testbenches` | the edges that `cpu_tb.v` gives the CPU and what they mean to prove, ADD and JZ in cases of the same kind, and the shifts of `alu_tb.v` |
| `Chip` | `ram.v` and `chip.v` around `Cpu` |
| `RuntimeConfig` | `config.py`: from a YAML value to a configuration or a refusal |
| `Startup` | both servers from launch to exit; extends `RuntimeConfig` |
| `StartupProofs` | proofs about `Startup` and `BenchHarness` |
| `BenchHarness` | extends `Startup` by the benchmark's four runs |
| `Backends` | one request body put to both servers |
| `InputText` | how a response's prompt is put together, by recursion, for TLC only |
| `BackendsProofs` | proofs about `Backends` |
| `NumberLemmas` | induction over `0 .. n`, recursive functions and division, for the proofs |
| `MessagePassing` | the forward passes of the two notebooks |
| `MessagePassingProofs` | proofs about `MessagePassing` |
| `MC*` | constants and initial states for TLC |

### Text generation

A call is `Generate`, then passes, then `Return`. A pass is `BeginPrefill` or `BeginDecode` (embedding), one
`PrefillBlock` or `DecodeBlock` per transformer block, which stores its key/value rows exactly where the code
does, and `SampleToken`, which counts the pass, draws any token of the vocabulary and appends it. `kvCache[l][r]`
is the row of layer `l` and position `r - 1`; `Uninit` is whatever `torch.empty` left. Objects with and without
the cache are both initial states, and calls follow one another on one object.

Layer norm, projections, attention and MLP are three uninterpreted functions: `KeyValue` (the row a block
projects), `Block` (its output from an activation and the rows it attends to) and `LMHead`. The attention mask
and the slices are modelled by which rows reach `Block`. Two values are equal only when they are computed alike,
so agreement of cached and uncached passes is about the algorithm. **It is not about rounding**: prefill and decode
multiply matrices of different shapes, and floating point may differ in the last bits and, rarely, in a token.

In `CompareKVCache` torch's generator is a function of the seed, found out as it is used: the k-th draw
from a distribution turns out as it did before under the same seed. `constructible` says with which settings `GPT2(...)` of
`main.py:54` can be constructed: with none on a machine without CUDA (finding 2), and after the first perhaps not a second
time. `ConstructionRaises` and `Fail` are the two ways in which the program ends without a report.

### HTTP server

A request goes `unsent`, `sent`, then through a worker or, if it is a streamed completion, on the event loop
itself (`loop = r`), as `server.py:393-397` has it. `Submit` and `Release` are the pool (external: anyio's limiter, waiters in
order, tokens returned by the event loop). `Hit`, `Miss` and `Load` are `functools.lru_cache`
(external): no lock is held between `Miss` and `Load`, and a late result does not replace an entry. `Conclude` is
the outcome of a handler, `AskChunk`, `YieldChunk` and `SendChunk` the stream, a pool job for each chunk.
A generation is one step that succeeds or raises.

### CPU

A step is a rising clock edge; between two edges the combinational logic has settled. `X` is what nothing drives.
Two nets of the CPU are undriven: `data_out` of the counter and `alu_op`. What follows from that
is in the model: addresses are unknown in FETCH, and all that passes the ALU is unknown. The
datapath's own arithmetic is modelled in `Datapath`, driven as `datapath_tb.v` drives it.

`InstructionSet` describes what the CPU does, instruction by instruction, and not what `CPU/README.md` wants it to do: there a
LOAD writes no register, a STORE overwrites its source, a JZ always jumps, and what goes through the ALU is unknown. That `Cpu`
implements it says that the cycles add nothing to the instructions and lose none; it does not say that the
instructions are right. Where they differ from what the repository says of them is the matter of
`Testbenches`, and findings 5 to 8. An instruction acts on the registers when it is issued and on memory and the
control flow when the next word is. The refinement maps the registers to what they will be after the cycle's
pending write (`RegsAfter(ir, regs)`). `written` is a history variable of both: the writes that memory has taken, counted modulo 2,
and the address of the last. A STORE that wrote twice, or not, or a reset or another instruction later, would
not be a step of the abstract machine. The word that a store puts on the bus is no part of `written`: unless the store
follows an unknown word, it has overwritten its register by then, and the word is unknown.

`Testbenches` gives the CPU the edges of `cpu_tb.v`'s task and judges each test at its end, one after another from power-on.

### Chip

`Chip` clocks the CPU of `Cpu` with the word that `chip.v` gives it. `chip.v` declares its nets without a range, so no address
or word gets across whole (`OneBit`), and connects the CPU's input to a name of its own (`CpuInMemData`). Even with
the nets mended the instruction register is loaded in EXECUTE, when the address bus carries the previous instruction's operand
and no longer the counter.

### Start-up and benchmark

A process goes through `phase`: `importing` evaluates `app = create_app()` of the script, `parsing` looks at the command line,
`loading` is uvicorn's import of the same file under its own name, `creating` the factory, `binding` the port. `CreateApp` stands
for every evaluation of `create_app`: it reads the file that the environment of the process names **at that moment** (`Read`), and
raises if that is refused. With `--reload` the parent binds the port and a child goes through the
same once more; parent and child are one process of the model, whose phase is that of the child. SIGTERM kills outright until
uvicorn handles it, and is then noted (`told`) and obeyed after the start. uvicorn and the operating system are external and
modelled as the code uses them.

`RuntimeConfig` is the pure part. YAML values are tagged tuples, as all kinds of values can stand anywhere.

`BenchHarness` adds a shell that goes through the setup commands of a run: two `Stop`s, `Write`, `Start`, `Poll`, `WarmUp`, and
`Measure`. Failed setup commands may or may not end the benchmark (`WarmUp`).

### Backends

One client puts one body to `server.py` and then to `hf_server.py`. `Respond` and `Complete` are the handlers up to the model,
`GPT2Token` and `GPT2Return` one generation of `GPT2`, token by token, `HFGenerate` one of transformers', and
`Choose` adds a choice and its tokens to the totals. Words stand for tokens. A prompt of token ids is decoded to a text, which the model
tokenizes anew: how many tokens it then has is the constant `Retokenized`, of which the runs use one that joins two halves and
splits another id in two, and the proofs none in particular. Ids that the tokenizer cannot decode are left out. How `build_prompt` finds words in an input of any shape
is the constant `BuildPrompt` of `Backends`; the runs give it the value `PromptWords` of `InputText`, translated from the code, which is
a recursion the proofs must not reach. Sampling parameters are left out; `server.py`
echoes `temperature` and `top_p` without using them.

### Graph networks

Each round of the loop over the nodes is a `Pool`; `Stack` is the layer on the pooled rows. Layers are terms and sums are bags,
so two predictions are equal only if they are computed alike up to the order of summands. Softmax and the width of the layers
do not show here: `MessagePassingGNN` never uses its 50-to-7 layer and predicts 50 columns for 7 classes.

## Runs

Each property has a mutant in `PROJECT.json`, a plausible bug of the code under which TLC finds the property violated.

| Run | Shows | Bounds |
| --- | --- | --- |
| `KVGeneration` | types, coherence of the cache, reference activations, call accounting, stopping, finality of rows, termination, refinement of `TextGeneration` | 3 tokens, 2 blocks, `n_positions` 5; prompts empty, short, exactly and beyond the window; budgets -2, 0, 1, 4 |
| `CompareKVCache` | the uncached run retraces the cached one; compare mode reports, without its warning, exactly when both models can be constructed and the budget is not refused | 3 tokens, 2 blocks, `n_positions` 4; both, either or none of the models constructible |
| `ModelServer` | pool, cache, answers, streams, every request answered; `healthz` independent of loads and generations while one worker and the loop are left for it | 3 requests, 2 workers, cache of 2, 15 mixes of requests with every refusal and failure |
| `Datapath` | arithmetic, register writes, what the ALU's latch keeps | words of 3 bits, 2 registers |
| `Cpu` | progress; refinement of `InstructionSet`, a store being one write, at its address and in its turn | 12 words, one for each way the control treats an opcode and a second store, resets anywhere, counter modulo 4 |
| `Testbenches` | violation of `InstructionsAsDocumented`: all five tests fail | the tests' scripts, words of 16 bits |
| `Chip` | violation of `ExecutesItsProgram` | 4 cells |
| `Startup` | the configuration in force, its meaning, stray keys, the environment's say, why a process ends, that a start and a poll conclude, the setting of each benchmark run | three families of initial states: the four runs; a server started in every way (2 scripts, no, good or bad file in environment and on the command line, reload) beside one that wants its port; a server with each of 327 documents |
| `StartupDevice` | violation of `ServesAsDocumented` | two documented ways to start, on a machine with `mps` |
| `BenchPoll` | violation of `PollMeansOwnServer` | the four runs |
| `Backends` | equal verdicts, budgets, usage | window of 4, default budget 3, prompts of 0 to 5 tokens, ids that retokenize to fewer and to more, up to 2 prompts and 2 choices, 17 shapes of input items |
| `MessagePassing` | symmetry, receptive field | 3 nodes, 2 features, every sequence of up to 3 edges |

Why these bounds are enough: two blocks are the fewest in which a row of one can be taken for a row of another, and a window of
five gives several decodes after prompts of one and two tokens. Two workers and three requests are the fewest in which
one request waits while two race for a model; a cache of two has room for the duplicate entry of a race, and evicts in the mix
with three models.
Three bits are the fewest with a carry that passes through, and shifts beyond the width. In `Cpu` the words differ wherever the
control or the register file distinguishes them; the counter's limit only affects wrap-around. Servers meet only at the
port and at the file, two at a time by hand and four in the benchmark. The documents give each key on both levels, well and badly formed. A window
of four lets a prompt lie below, at and beyond it with each budget. Three nodes are the fewest on which a message passed
twice reaches beyond the neighbours.

`CHECK_DEADLOCK FALSE` is set where the system stops: a finite set of requests has been answered, the comparison has ended, the
testbench's script or the benchmark is over, a server has been stopped, a prediction has been made.

### Fairness

- `KVGeneration`: weak fairness of the call under way, which a running thread executes. Nothing is assumed of the next call.
- `CompareKVCache`: weak fairness of the one process.
- `ModelServer`, `FairSpec`: weak fairness of each request's steps on the event loop, of probes and of the production of chunks: the
  loop serves what is ready, threads are scheduled. That a load and a generation end is no part of it. `RequestsAnswered` needs
  that and states it as its premise, `ModelsEnd`, which `CallReturns` shows of the generation. `HealthzIndependent` does without, and
  instead names the two ways in which a load or a generation that never ends can keep a probe waiting: a streamed completion
  holds the event loop from some time on for ever, or requests other than the probe hold every worker for ever. One that holds a
  worker while another is left does not.
- `Startup`: weak fairness of what each process does by itself, and of the harness's shell. Nobody has to launch, stop or reload
  anything.
- `Cpu`: the clock runs. It is required in every state in which a tick is visible: not in HALT, where the CPU may stay until a reset
  that need not come, and not in EXECUTE of an unknown word, where it may stay as long as memory supplies no other.

### Findings

1. The benchmark's poll can be answered by the server of the run before (`BenchPoll`). `OwnSetting` shows that no server then
   serves with another run's setting, and `PollEnds` that the poll hangs only after the new server has exited, as it does when
   it finds the port taken.
2. `get_accelerator_device` raises without CUDA, since `torch.backend` does not exist, and every block calls it whatever
   device is configured (`StartupDevice`).
3. `hf_server.py` passes its default device, `auto`, to torch (`StartupDevice`). Both servers come up and say `ok`.
4. `chip.v` feeds the CPU from a net that nothing drives (`Chip`). The counter's `data_out` is assigned by nothing either;
   `program_counter_tb.v` does not notice, as its `!=` comparison with an unknown value takes no branch.
5. A store overwrites its source register before it writes, so `cpu_tb.v`'s second case cannot see what `LDI` wrote
   (`Testbenches`). Its `$stop` on line 91 hides this, and the next, in an interactive run.
6. `LOAD` writes no register, which `cpu_tb.v:103` means to prove that it does (`Testbenches`).
7. `ADD` and the other operations of the ALU leave their destination unknown, since the control unit never drives
   `alu_op` (`Testbenches`).
8. `JZ` jumps whatever has been compared, as `JMP` does; `CMP` leaves nothing behind (`Testbenches`).
9. `alu_tb.v:73-78` expects of four shifts by 0 that they shift by one; `alu.v` shifts by what it is given. The testbench never
   puts its operands on the ALU and so does not see it (`Testbenches`). `AluComputes` is stated, and proved, for what the code does: a shift by 0
   leaves the word.

Seen while modelling, and part of the models without a run of their own: two requests that miss the cache together construct the
model twice (`Miss`, `Load` in `ModelServer`), though `KV_Cache/README.md:55` says that models are cached by id for reuse; `MUL` has no
arm in the ALU's case and yields what the operation before it left (`Alu` in `Datapath`, and `RegisterWrites`, which says that this is
what a `MUL` writes).

## Proofs

Checked by TLAPS for every value of the constants.

**`KVGenerationProofs`**, from `NetworkAssumption` (the reference forward pass is defined by the network's functions, up to
`n_positions`) and `GenerationAssumption` (prompts are token sequences, budgets integers), for every vocabulary, number of
blocks, window, prompt and budget:
`TypeCorrect`, `InductiveInvariant`, `CacheCoherent`, `ActivationsCorrect`, `RowsFinal`, `CallsAccounted`,
`OutputStopsInTime` and `Refinement`.
`KVCoherent` alone is not inductive: a decode stores a right row only if its activation is right, which is so only if the rows it
read were, and a pass fits the cache only because the loop saw room when it began it. The invariant is therefore
`IInv == TypeOK /\ PassInv /\ ActivationsAgree /\ KVCoherent`, with `PassInv` for what the loop knows of the pass it
started. The refinement and the finality of rows follow from it step by step. `CallAccounting` and `StopsInTime` have small
invariants of their own.

**`CpuProofs`**, from `CpuAssumption` (what memory drives is a word or unknown) and `UnknownAssumption` (`X` is no number and no
opcode), for every memory behaviour and counter width: `TypeCorrect` and `Refinement`. The argument is that
writing what an instruction writes once more changes nothing (`WriteTwice`), so that all cycles but the
one that loads the instruction register are stuttering steps of `InstructionSet`; and that the write enable is up in EXECUTE of a
STORE alone, which is the cycle in which the next word is issued (`WritePulse`).

**`StartupProofs`**, from `StartupAssumption` (a path and a process are told from "none"), for any number of servers, ports and
configuration files that do not change: `InductiveInvariant`, `TypeCorrect`, `ServedIsGiven`, `EnvironmentHasASay`,
`EndsAreExplained` and `KeysAreChecked`. `ConfigInForce` says what a server that is up was made from, at a time when only the
environment is left of the command line; the invariant keeps what that environment is before and after it is parsed
(`EnvInv`), that nobody holds a port before (`PortInv`, or an import that fails could leave a process that was never parsed
for the reloader), that an import has accepted the first environment (`AcceptedInv`) and that the factory's result is
what the environment still says (`ServedInv`).

`SettingsAreMeant` adds the hypothesis `FilesAreYaml`, that the files hold what `yaml.safe_load` can return: mappings from keys to
scalars, lists and mappings. TLC finds it true in every state of the `Startup` run. The proof is about the pure functions of
`RuntimeConfig`: what the merging of the two levels keeps (`GivenIsMerged`) and what normalisation then makes of each key.

**`BenchHarness`** (in `StartupProofs`), from `HarnessAssumption` as well (the runs number the processes): `EachItsOwnSetting`, where the file does
change. A server that was told to stop may still read the file of the next run, so the file agrees only with servers that
are *wanted* (`FileInv`): running and not told to stop. Nobody is wanted when it is written (`ShellInv`), and whoever is
told never serves again (`SettingInv`).

**`CompareKVCache`** (in `KVGenerationProofs`), from `NetworkAssumption` and `GenerationAssumption`, whichever models can be constructed: `CompareInvariant`, `CompareTypeCorrect`, `CacheMakesNoDifference`
and `NeverWarned`. That the uncached text is a beginning of the cached one until both are complete is no invariant by itself. Its
strengthening says that `generator` is a function, that each token of the text under way is on record with its number and
logits (`GeneratorInv`, `CallInv`), and that the cached text, once taken, is complete and on record (`CachedInv`). The uncached
run then meets a record at each of its draws, because cached and uncached passes give the same logits, which is the
invariant of `KVGeneration`.

**`ModelServerProofs`**, from `WorkloadAssumption` and `ServerAssumption` (payloads are those of the schemas; there is a worker, and room
for a model), for any number of requests, workers and models: `InductiveInvariant`, `TypeCorrect`, `PoolAccounts`, `CacheStaysSound`,
`InstancesStay`, `AnswersAreExplained` and `StreamsAreWhole`. `AnswersExplained`, `StreamsWhole` and `PoolSound` are not inductive alone:
`IInv == TypeInv /\ PoolInv /\ LoopInv /\ CacheInv /\ RequestInv` adds that a request that waits for a worker has not begun, or waits for its
next chunk (`PoolInv`); that only streamed completions are handled on the event loop, one at a time (`LoopInv`); that
the outcome of a request is explained from its conclusion on, though it is answered much later, after a wait for the loop (`StateInv`);
and that what was sent is a beginning of the stream that the generations made, as far as its phase says (`SentInv`). The cache is sound at every
interleaving of misses and loads, because a late load looks for its model again (`CacheInv`).

**`DatapathProofs`**, for every width of a word and number of registers: `TypeCorrect`, `GatesComputeArithmetic` and `WritesOneRegister`, which also says
what `MUL` and `CMP` write. The adder is
a chain of full adders, so this needs induction over bits, which the installed provers do not have over formulas: `NumberLemmas` proves it
over sets (`Induction`, from the well-foundedness of `<` on `Nat`), and from it that recursive functions on `0 .. n` exist
(`Recursion`). Powers of two are counted as subsets of `1 .. n` (`PowerCounts`). The induction hypothesis is that the sum of the low `i` bits and
`2^i` times the carry into bit `i` is the sum of the operands' low `i` bits.

**`BackendsProofs`**, from `BackendsAssumption` (window and default budget are positive) and `RequestsAssumption` (what the schemas let through), for
every set of bodies, every `BuildPrompt` and every `Retokenized`: `InductiveInvariant`, `BudgetRespected`, `UsageIsTheSum` and `VerdictsAgree`. The invariant holds of each server by
itself (`BackendInv`), so that a step of one cannot disturb the other. `VerdictInv` says what has been decided as a function of
the body (`Refusal`, `Wanted`), which is what makes the servers comparable; `OutInv` bounds the generation under way, from
which a choice is bounded when it is made (`Sound`); `UsageInv` gives the totals after any number of choices, `n` times the lengths of the prompts that are
done and the choices of the next one, which is only at the end `n` times the sum. That `server.py` fails whenever `hf_server.py` fails
for an empty prompt follows since an answer 200 has a choice, and so a token, for every prompt (`EveryPromptHasTokens`).

**`MessagePassingProofs`**, from `GraphAssumption` (edges join nodes), for every graph, set of features and number of nodes: `InductiveInvariant`,
`SymmetryIsKept` and `ReachIsTwoEdges`. The invariant gives each layer in closed form (`Layer`), in which a sum is a count of rows over the positions
of the node's edges and the node itself (`Pooled`). The order of `edge_index` leaves the proof where the mask is shown to be a numbering of these
positions (`TargetsNumbered`, by induction over the edges). An automorphism matches the positions at a node with those at its image,
target by target, and what is matched is counted alike (`SameCounts`, `PooledSymmetric`).

With these, every safety invariant and action property that a passing run checks is a theorem. Model-checked only: all liveness
(`CallReturns`, `ComparisonReported`, `RequestsAnswered`, `HealthzIndependent`, `WedgedOnlyByUnknown`, `StartConcludes`, `PollEnds`),
which is out of this prover's reach; and `InputText`, which is recursive.

## Not modelled

- Rounding, sampling quality, the tokenizer, timings in milliseconds, wording and schemas of responses.
- uvicorn, torch, transformers, pydantic and benchpress but for what the code uses of them. Of pydantic's truth values, `true` and `false`
  stand for all spellings.
- `pkill -f` in `benchpress.experiment.yaml` also matches the `uv run` around a server, and may match the shell that runs it; the model
  kills the server alone.
- The training loops of the notebooks: one step after another, with no state but torch's.
- In `Backends`: the sampling parameters, streams (the same in both servers, see `ModelServer`), memory running out.
- Generated stubs in `KV_Cache/typings`, and compiled simulations in `CPU`.
- Concurrent generations share only the weights and torch's generator; each is a behaviour of `KVGeneration` of its own.

## Plan

Done: the modules above. Left, in order:

1. A chip as the port names intend, once it is decided in which state the instruction is to be fetched.
