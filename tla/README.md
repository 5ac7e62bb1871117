# A TLA+ model of jess

jess is a Go library for building agents on top of agentcore: it adds a gate in
front of tools, a provenance ledger, memory, subagents, skills and MCP tools.
This directory holds TLA+ modules for its stateful parts, TLC configurations
that check them on small instances, and TLAPS proofs of the properties that
matter most. `PROJECT.json` maps every definition to the lines it models.

Run things from this directory:

    tlc -workers 2 -config Pool_live.cfg MCPool
    tlapm PoolProofs.tla

## The system

| Part | State it keeps | Operations | What makes it correct |
|---|---|---|---|
| Agent run (`internal/core/stream.go`, `runstate.go`, `build.go`) | the registry of agents, the run state (run id, request id), one goroutine, one event channel and one subscription per `Stream` call | `Stream`, cancel, `ReleaseAgent` | one run at a time owns the run state; every accepted run has one boundary in the ledger; cancelling ends the run |
| Gate (`gate/`) | none of its own; reads the run state and writes the ledger | a decision per tool call | fails closed without an approver; a denial is recorded |
| Audit middleware (`internal/core/audit_mw.go`) | none of its own | wraps each tool call | no durable record, no action; the record names the right run and request |
| Ledger (`ledger/`) | the stored events | `Record`, `CommitAction`, `Chain` | a committed action stays; only a durable sink can authorise |
| Event stream (`subagent/event.go`) | channel, done flag, RWMutex | `Send`, `Close` | never sends on a closed channel, never deadlocks |
| Pool (`subagent/pool.go`, `spec.go`, `tool.go`) | task queue, workers, closing flags, merged stream | `Submit`, `SubmitTo`, `Close`, `Cancel`, delegation by tool | an accepted job runs; the merged stream closes after all of them |
| Memory stores (`memory/store_*.go`) | entries, key index; a file of JSON lines; a vector collection and a seen set | `Append`, `Forget`, `Recall`, `Compact` | one entry per (AgentID, Key); what was acknowledged is stored; what was forgotten stays away |
| Context manager (`internal/core/context_manager.go`, `memory/kind.go`, `memory/recall.go`) | none of its own; reads a shared store | `Project` per LLM call | no duplicate, foreign or stale memory in a prompt; budget; a cacheable prefix |
| Chain reader (`ledger/chain.go`) | none; reads the rows of one run | `Chain`, `AssembleChain` | an action is shown with its own result; what ran is shown; order |
| Recall (`memory/recall_vector.go`, `recall_tool.go`, `store_chromem.go`) | none of its own; reads a shared collection | the recall tool, vector search, keyword ranking, fusion | degrades when a contributor fails; never inverts what all contributors agree on; finds the agent's own entries |
| Embedder (`memory/embed/gomlx/`) | the model's shape, the vocabulary | option resolution, tokenizing, embedding | the network gets well-formed input of the length it was built for |
| MCP adapter (`mcp/`) | the started clients, the names taken | `Tools`, the closer, calls | no subprocess outlives the closer; working servers are served; names are valid and unique |
| Skills (`skill/`, `internal/core/skills.go`) | a Set under a lock | the loader, `Add`, `Remove`, `SkillBlocks`, `SkillTools` | a file is loaded as it says; an untouched skill is offered whole |

How they interact: `Stream` claims the run state and prompts agentcore, whose
loop calls the listener (a callback into `Stream`), the context manager, the
gate, and through the middleware the tools. Gate and middleware read the run
state that `Stream` writes, and write the ledger. A pool worker drives a
`Stream` per job and forwards its events to an event stream; the subagent tool
submits to the pool from inside a run and waits. All agents may share a store.
Before any of this the host loads skills, connects MCP servers and builds the
agent, which fixes by name which tools run without a record; afterwards an
operator reads the ledger back as a chain.

The hard parts are the orders nobody wrote a test for: an abort while a tool is
between the gate and its record, a run that starts while the previous one is
unwinding, `Close` against blocked senders, a job accepted while the pool
closes, a crash inside a file write, a write that comes between two reads of
one projection, a document deleted between counting the collection and querying
it, two records within one reading of the clock. They are listed under "hazards"
in `PROJECT.json`, each with the properties that cover it or with the reason why
none does.

## Modules

| Module | Models | Extends / instantiates |
|---|---|---|
| `ActionAudit` | abstract: an unsafe call executes once and after its record | |
| `AgentRun` | agent run, gate, middleware, sinks, around agentcore | instantiates `ActionAudit` |
| `EventStream` | `subagent.Stream` with its lock | |
| `Pool` | `subagent.Pool`, workers, delegation | |
| `MemoryEntries` | `memory.Entry`, content IDs, keys | |
| `KeyedMemory` | abstract: what `memory.Store` promises | `MemoryEntries` |
| `InMemoryStore` | the map store and its key index | instantiates `KeyedMemory` |
| `JSONLStore` | the file store: lines, replay, torn writes, `Compact` | instantiates `KeyedMemory` |
| `ChromemStore` | the vector store: collection and seen set | `MemoryEntries` |
| `ContextProjection` | `Project`, the kind registry, `SimpleRecaller`, over a store | `MemoryEntries` |
| `Ordering` | a finite set in the order of a sort, and what a sequence has at some of its positions | |
| `LedgerChain` | the rows of one run and `Chain` over them | `Ordering` |
| `Embedder` | option resolution and the WordPiece tokenizer, as operators | |
| `VectorMemory` | the recall tool, vector, keyword and hybrid recall over the vector store | `ChromemStore`, `Embedder`, `Ordering` |
| `McpTools` | `mcp.Tools`, names, the closer | `Ordering` |
| `SkillSet` | `skill.Set`, the loader and its parser, as operators | `Ordering` |
| `AgentTools` | building an agent from skills, MCP and host tools, then calling them | `McpTools`, `SkillSet` |
| `MC*` | constants for TLC | |
| `OrderingProofs` | theorems on sorting, least and greatest numbers, and loops written as recursive functions | `Ordering` |
| `HostProofs` | theorems on what a host has around a run: tools, skills, the event stream, the chain | `LedgerChain`, `AgentTools`, `EventStream`, `OrderingProofs` |
| `VectorMemoryProofs` | theorems on the vector store, recall and the embedder | `VectorMemory`, `OrderingProofs` |
| `AgentRunProofs`, `PoolProofs`, `InMemoryStoreProofs`, `JSONLStoreProofs`, `ContextProjectionProofs` | theorems on the module each is named after | that module |

### AgentRun

A `Stream` call s is also the run id and the request id it mints. `pc[s]` is the
control point of its goroutine: begin (`Start`), refused (`Refuse`,
`RefuseClose`), request record, subscription, prompt, the select (`Abort`,
`Idle`), the boundary record and the deferred calls in the order Go runs them
(`End`, `Unsubscribe`, `Close`). `cpc[c]` is the control point of a tool call:
`GateDecision`, `GateAllow`/`GateDeny`, the denied record in two steps
(`ReadDeniedRun`, `RecordDenied`), then the middleware's `CheckAction`,
`CommitAction`, `ReadRun`, `Execute`, `RecordResult`. Reads of the run state and
ledger writes are steps of their own, because the mutex covers no more, with
three exceptions in which nothing the properties tell apart comes in between:
the three registry loads at the top of `Stream` are one step (`Start`), the
gate's read of the run id goes with its decision record (`GateDecision`), and
`Subscribe` with the prompt record.

agentcore is external and modelled from how jess uses it: one run at a time,
events delivered to the listeners subscribed when the event was emitted, one
listener after another, a last event carrying the summary, idle after it.
`AwaitTools` chooses whether an aborted run waits for its tools; the
properties about attribution need it, the audit properties do not.
Tools are told apart by name and by instance, since the middleware's safe set is
keyed by name. `Record` may fail up to `MaxFails` times; a discarding sink keeps
nothing; a durable sink rejects an event without an id.

### EventStream and Pool

Both model Go's RWMutex with its writer preference: a waiting `Close` keeps new
readers out, a reader inside the select keeps `Close` out. Channel operations in
a select are disjuncts, so a `Submit` may still enqueue after `closing` is
closed. In `Pool` a run is reduced to its events and its end (`AgentRun` has the
rest), a `Send` to a stream is one step (`EventStream` has the rest), and a job
with a `Parent` is delegated by the tool: the parent's run cannot end while it
waits. `Register` is the constant `Known`. The jobs in `Finishing` have runs that
end by themselves; any other run blocks, and `EndRun` ends it only once its
context is cancelled (`RunCancelled`: the pool's context or the submit call's,
as `runJob` derives it).

### Memory

The ID of an entry is its content, i.e. the hash and the index string are taken
to be injective. Callers leave `ID` and `CreatedAt` empty as the documentation
of `Entry` asks. `Source` is not modelled.

`JSONLStore` keeps the file as a sequence of lines, each a put, a tombstone or
garbage, and whether the last line lacks its newline; `Replay` is
`readAllLocked`. `Append` stamps the time and writes in two critical sections,
as the code does. `Compact` writes the live entries without their `Key`, so the
promise of `KeyedMemory` is stated for the steps at which no live entry has lost
its key (`KeysKept`). `ChromemStore` has an `Append` in three steps because the
mutex covers only the seen set.

### ContextProjection

`Project` is one step per store read (one for each AlwaysInclude kind, one for
the recaller), so writers interleave. Go's map iteration and unstable sort are
nondeterminism: `NewestFirst` and `BestFirst` are sets of orders a sort can
produce. A text is the
set of tokens it contains; a message is the sequence of its tokens. The inner
manager returns the conversation or an error; compaction is not modelled, nor
is the RunID of the retrieval event (run ids are `AgentRun`'s subject).
`during` and `proj.views` are history variables.

### LedgerChain

The rows of one run. A writer (the run, or a tool call) mints an event
(`NewEventID`), stamps it and inserts it in three steps, as the code reads the
clock again after minting and the database serialises only the insert; so rows
reach the table in any order and the reader sorts them by time and ID. Every
reading of the wall clock (`Now`) may be any later one, the same, or, up to
`MaxSetBack` times, an earlier one; `Milli` says in which millisecond a reading
falls. An ID is a ULID: the millisecond, then entropy that counts up within one
millisecond and is drawn anew (from `Rands`) in any other, so IDs are ordered
only while the clock is not set back. `ChainInOrder` therefore speaks of runs in
which it is not (`setBack = 0`); the other properties do not depend on the
clock. Each row also
carries its true writer, which the code does not store: the properties compare
the pairing by CallID with it. `InsertFails` drops a best-effort row or denies
an action; `Crash` ends every writer. Denied calls, calls without a CallID and
safe calls are among the inputs. That a model gives the calls of one run
different IDs is the constant `Distinct`; `LedgerChain_reused` drops it.

### VectorMemory and Embedder

A recall is one step per call it makes: embed the hint, count the collection,
query it, list it for the keyword ranking, fuse. The writers of `ChromemStore`
move in between. A behaviour follows one recall to its answer, because a recall
changes nothing. The network is external: it gives every text a similarity,
equal for texts with equal encodings, highest for the hint's own encoding; so a
truncated text really is confused with another. `QueryEmbedding` errs when it
is asked for more than there is, as the code's comment says. Sorting with ties
is a set of orders, and the sum of 1/(K+rank) an exact fraction. A word is a
sequence of runes and a piece a run of them; `basicTokenize` has split the text.

### McpTools, SkillSet and AgentTools

`McpTools` walks the list of servers: each may fail to dial or to list, or exit
at any time; `Close` may be called again and any client may err in it (and is
taken as closed then). The tools of a server are those on the first page of its
`tools/list`: the client asks once and ignores the cursor. Names are character
sequences, so that sanitizing, cutting and numbering are done and not assumed,
except that the numeral in a suffix counts as one character. `SkillSet` tells a line of a `SKILL.md` apart by what the parser
tests (delimiter, blank, name, other key, text, overlong). `AgentTools`
composes them as a host does: load, connect, build, run. `SkillBlocks` and
`SkillTools` take names and then one `Get` per step, and another goroutine edits
the Set between them.

## Runs that pass

| Run | Shows |
|---|---|
| `AgentRun_config` | one stream and a direct `Prompt`, all gate modes and sinks, a failing write, tools that outlive an abort, `ReleaseAgent`: `NoRecordNoAction`, `SelfExplaining`; implements `ActionAudit` |
| `AgentRun_trace` | two streams, a safe and an unsafe call, fair scheduling, drained channels: `OneActiveRun`, `Attribution`, `RunBoundary`, `SummaryReady`, `NothingAfterBoundary`, `KillSwitch` |
| `EventStream` | three senders, one slot, a reader that may stop: `NoSendOnClosed`, `CloseCompletes`, `SenderOrder` |
| `Pool_live` | two workers, drained streams, a run that blocks until it is aborted: `NoSendOnClosed`, `ClosedAfterAll`, `NothingHeldBack`, and under fairness `AcceptedDone` of the jobs that end by themselves and `CancelDrains`, which needs the context to reach the blocked run |
| `Pool_stuck` | one worker, nobody drains: `CloseCompletes` |
| `InMemoryStore` | `IndexExact`; implements `KeyedMemory` |
| `JSONLStore` | two callers, tag merges, torn writes, crashes, `Compact`: each undisturbed step is one of `KeyedMemory` while no live entry has lost its key (`MemoryStep`), `NoResurrection` |
| `VectorMemory` | one writer with failures and restarts, a recall in steps: `OnePerKey`, `EmbedOnce`, `Degrades`, `FusionMonotone`, `HeadroomSuffices`, `EncodingFaithful` |
| `ContextProjection` | concurrent writers, failing reads, two turns: `NoDuplicate`, `FreshMemories`, `WithinBudget`, `TopRanked`, `StablePrefix` |
| `LedgerChain` | two calls, safe or unsafe, a crash, failing writes, a clock that may be set back: `ChainFaithful`, `ExecutedInChain`, and `ChainInOrder` while the clock is not set back |
| `AgentTools` | every file of up to four lines, three server lists, two edits: `NoLeak`, `WorkingToolsServed`, `LoadFaithful`, `OfferedWhole` |

Each property has a mutant: a variant of one definition, kept next to it, that
breaks the property the way a plausible bug in the code would.

## Where code and documentation disagree

One of the disagreements is a run of the project (`ChromemStore_rewrite`),
quoted under "findings" in `PROJECT.json`. The other configurations of this table
ask one question each in the same way: TLC reports the property violated, and
the property's comment quotes the documentation. Where the table says "constants
of" a configuration, put the property in place of that file's properties, with
the change the row names.

| Configuration | Property | What happens |
|---|---|---|
| `AgentRun_undrained` | `KillSwitch` | a caller that stops reading blocks the loop; cancelling never ends the run |
| `AgentRun_stale_listener` | `OwnEvents` | the run state is released before the listener is removed; the next run's events reach the old stream, or hit its closed channel |
| `AgentRun_refused` | `EveryRunBounded` | the `run_end` of a refused call has no id and is rejected |
| `AgentRun_direct` | `ActionsTraced` | a direct `Prompt`'s action is recorded under the active stream's run |
| `Pool_undrained` | `CancelAborts` | a worker blocked on the merged stream ignores cancellation |
| `Pool_nested` | `AcceptedDone` | parents hold every worker and wait for their children |
| `Pool_depth` | `DepthCapped` | the tool passes no path, so depth is not limited |
| `JSONLStore_compact` | `OnePerKey` | `Compact` drops keys |
| `JSONLStore_torn` | `AlwaysReadable` | a torn record makes the file unreadable |
| `ChromemStore_rewrite` | `AckedIsStored` | v1, v2, v1 under one key loses the last write |
| `ChromemStore_retry` | `AckedIsStored` | a retried append is acknowledged, not stored |
| constants of `ChromemStore_rewrite`, with two callers | `OnePerKey` | two concurrent appends under one key both stay |
| constants of `ContextProjection_coreorder`, with `MaxItems = 1` | `MaxItemsCaps` | CORE alone exceeds MaxItems |
| constants of `ContextProjection_coreorder`, with `Writes <- Projects` | `KindCapped` | MaxEntries of recalled kinds is ignored |
| `ContextProjection_coreorder` | `CoreSame` | CORE changes order between turns |
| constants of `ContextProjection_coreorder`, with `Writes <- Mixed` | `FillsBudget` | dropped entries use up the recall budget |
| constants of `ContextProjection_coreorder`, with `AgentID = global` and `Writes <- Others` | `GlobalScope` | an empty AgentID sees every agent's memories |
| `LedgerChain_reused` | `ChainFaithful` | two calls of a run under one CallID: both actions show the later result |
| constants of `LedgerChain` | `ChainInOrderAnyClock` | the wall clock is set back between two calls: the later one has the smaller time and ID, and comes first in the chain |
| `VectorMemory_stale` | `OneVersion` | the hybrid's contributors read the collection before and after a write; the answer has the old and the new version of a fact |
| constants of `VectorMemory` | `OwnAlwaysFound` | nearer documents of other agents fill the overfetch; the agent's own are not seen |
| constants of `AgentTools` | `UnsafeAudited` | a bare server's tool has the name of a safe tool and runs unrecorded |
| constants of `AgentTools` | `IndexMatchesTools` | a skill added between the two reads has tools and no index line |
| constants of `AgentTools` | `NoLeadingNoFront` | a `---` further down a file without front matter opens one |

One more was seen while reading and needs no run: `MaxItems = 0` becomes 8
(`context_manager.go:103`), where the option's comment says "as many as Recaller
returns".

## Bounds

Two streams are enough for a run that overlaps the unwinding of another; one
safe and one unsafe call cover the two classifications. `OutCap`, `StreamCap`,
`MaxQueued` are 1 so that full buffers happen at once (64 and larger in the
code). `AgentRun_config` has an event more than the channel holds; in
`AgentRun_trace` a channel fills because the next run's event reaches a
listener that is still subscribed. In `Pool_live` two jobs run on two workers,
one of them blocking, and the third is refused for its depth; `Pool_stuck` has one worker and three
jobs (one running, one queued, one blocked in its submit) and runs with an event
more than the merged stream holds. The stores use one or two agents, one key and
none, two bodies: supersession needs two contents under one key, and v1-v2-v1
three calls. Files have up to three records: put, supersede, tombstone, each of
which may be torn. In `VectorMemory` three calls over two agents put up to three
documents in the collection, more than a plain vector recall with `MaxCap = 1`
fetches, so that the overfetch and its limit both happen; `seqLen` is 4 or 1,
with texts that fit, are cut, and are cut to `[SEP]` alone. `LedgerChain` has two
unsafe calls and a safe one to choose two from, so that two results can be
confused; two clock readings in different milliseconds, so that rows share a
millisecond or not; one set-back and two values of entropy, so that a later ID
can be the smaller one; and two CallIDs and none. `AgentTools` has names of five characters (64 in the code),
so that cut and numbered names collide again, and files of up to four lines,
enough for text before and between two delimiters and after them.
`MaxWrites = 3` lets a fact be stored, re-keyed and forgotten around one
projection, and `MaxTurns = 2` compares consecutive prompts. Deadlock checking
is off where the system may stop: all calls made, or all bounds used up.

## Fairness

`AgentRun!FairSpec`, `EventStream!FairSpec` and `Pool!FairSpec` assume weak
fairness of each goroutine's own steps: Go's scheduler is preemptive and its
mutexes and channels do not starve a waiter. A reader is fair only if it is in
`Readers`/`Drained`. agentcore is assumed to end an aborted run and to become
idle. A run in the pool that waits for no delegated job ends if it finishes by
itself (`Finishing`) or if its context is cancelled; a blocked run is not assumed
to end otherwise, so that `CancelDrains` rests on the wiring from the contexts to
the run. Nobody is assumed to submit, close, cancel or send.

## What is proved

For all values of the constants (any number of streams, calls, senders, jobs,
workers, entries, files of any length, conversations of any length), from the
named assumptions in the modules. Where a theorem has a hypothesis of its own it
is an `ASSUME` in the theorem and is explained here.

`AgentRunProofs`

- `TypeCorrect`, `OneActiveRunAlways`, `SelfExplainingAlways`,
  `FailClosedAlways`; and, if no injected tool has the name of a safe one
  (`NoShadowing`), `NoRecordNoActionAlways` and `ImplementsActionAudit`. The
  inductive invariant `AuditInv` adds to the types that the run state is never
  torn and belongs to the one stream between begin and end (`RunStateInv`), and
  what a call has earned at each control point (`CallInv`): past the commit it
  is recorded or safe, past the gate it was allowed. Without `CallInv` the
  property says nothing about a call that is cleared and about to run.
- `SummaryReadyAlways`, without hypotheses. `SummaryReady` is about the last
  step of a `Stream` call, so `LoopInv` follows the summary on its way there: a
  subscribed call stays a listener until it unsubscribes, the run's last event
  is still to be delivered to it or has been, and the run goes idle only then.
- `RunBoundaryAlways`, without hypotheses, from `BoundaryInv`: a run has no
  boundary before its `Stream` call writes one, and with a working sink exactly
  one afterwards, because nothing else writes that kind of event.
- `NothingAfterBoundaryAlways`, if an aborted run waits for its tools
  (`AwaitTools`, what jess relies on in agentcore). `InFlightInv` says that a
  call in flight belongs to the run that is active; by `LoopInv` the `Stream`
  call of that run still waits, and by `BoundaryInv` it has no boundary then.
- `AttributionAlways`, under `OnlyStreams`: tools are awaited, no agent is
  released and nobody prompts agentcore directly. `TraceInv` adds to the
  property that the run a call has read from the run state is the run that
  issued it. The hypotheses are needed: a direct `Prompt` is recorded under the
  active stream's run (`AgentRun_direct`), and a released agent has no run state
  to read.

`PoolProofs`

- `TypeCorrect`, `NoSendOnClosedAlways`, `ClosedAfterAllAlways`,
  `NothingHeldBackAlways`, `NoAcceptAfterCloseAlways`. `PoolInv` says who may
  hold the lock (`LockInv`), that an accepted job is queued, on a worker or done
  (`PlaceInv`), that workers leave only when the queue is closed and empty
  (`ExitInv`), that the merged stream closes after the last worker left
  (`MergedInv`), and that a finished job holds no event back (`HeldInv`).

`InMemoryStoreProofs`

- `TypeCorrect`, `IndexExactAlways`, and `ImplementsKeyedMemory`, where the
  exact index is what makes the prior entry the one with the same key.

`JSONLStoreProofs`

- `NoResurrectionAlways` and `MemoryStepAlways`, for any callers, failures, torn
  writes, crashes and compactions; `MemoryStep` is about steps at which no live
  entry has lost its key (`JSONLStore_compact` shows why). `FileInv` is small;
  the work is in the lemmas on `Replay`: what one appended put or tombstone does
  to the entries a file stands for, that a line which supersedes nothing leaves
  the others alone, that a compacted file replays to what the old one did.

`VectorMemoryProofs`

- `OnePerKeyAlways` and `EmbedOnceAlways`, for one caller at a time
  (`OneCaller`; two concurrent appends under one key both stay, see the table
  above), through failing calls, restarts and any interleaving with recalls.
  `StoreInv` says that an Append about to add has cleared its key (`Cleared`),
  that documents are filed under the key of their ID (`Filed`), and that the
  seen set knows every document but one being forgotten (`Remembered`).
- `RecallImplementsStore`: recalls are stuttering steps of the store, so that
  what is proved of `ChromemStore` holds of the composition.
- `DegradesAlways` and `FusionMonotoneAlways`, without hypotheses: any number of
  callers write while the recall is under way. `RecallInv` says of each control
  point which contributors have answered and which have failed (`Progress`), that
  a ranking has an entry once (`RecallTypeOK`) and the collection one document
  per ID (`Collection`). Without the last, a ranking could have an entry at two
  ranks and fusion would not be monotone. The scores of reciprocal rank fusion
  are kept as fractions, so that what is proved is arithmetic: a term 1/(60+r) is
  larger for a smaller rank, and sums of larger terms are larger (`ScoreAbove`).
  That the fusion of one ranking is that ranking (`FusedAlone`) is needed for
  `Degrades`.
- `HeadroomSufficesAlways`, without hypotheses, by counting positions: of the
  2*max nearest documents at most max are of other agents, so max of the agent's
  own are left, or else the whole collection was returned. The relevant ones come
  first, because the nearest come first.
- `EncodingFaithfulAlways`, for any vocabulary and any text, from
  `EmbedderAssumption` (the special tokens exist and differ from each other and from
  the pieces of words, as in any BERT vocabulary; `newTokenizer` does not check it) and `ShapeInv` (`ShapeAlways`: whatever Options were passed, an
  embedder that exists has room for a token). `SaidInFull` is the invariant of the
  tokenizer's loop, from the end of the word to its beginning: what is tokenized
  is spelt out in full or is `[UNK]` alone.

`ContextProjectionProofs`

- `NoDuplicateAlways`, `WithinBudgetAlways`, `FreshMemoriesAlways`,
  `StablePrefixAlways`, `TopRankedAlways`: every property of that run, without
  hypotheses, for any registry of kinds, any caps and scores, and any
  interleaving with the writers. `GatherInv` says what CORE and RELEVANT hold in
  the middle of a projection: CORE only kinds already read, RELEVANT only the
  other kinds. The kinds are disjoint and the store has one entry per ID at each
  read, so nothing appears twice although the reads see different stores.
  `PromptInv` says that the last prompt was built around a prefix of the
  conversation and where its breakpoint sits. That the loop which drops CORE's
  kinds (`NotCore`, a recursive function) keeps the others, in order, is proved
  by looking at the least length at which it would not.

`HostProofs`

- The chain: `ChainInOrderAlways`, for any clock readings, entropy and failures as
  long as the clock is not set back (the property says so itself), and
  `ExecutedInChainAlways` and `ChainFaithfulAlways`, whatever the clock does, if
  the model gives the calls of a run different IDs (`Distinct`;
  `LedgerChain_reused` shows that they need it, and `OwnIDsKept` is the lemma that
  carries it along). `LedgerInv` says that every event has its own ID
  (`EventInv`), that without a set-back no event has a stamp or an ID beyond the
  last ones given out (`ClockInv`), that a call has at most one intent and one
  result and ran only after its intent was stored (`IntentInv`), and that what a
  call wrote before another was issued is older than all that the other writes
  (`OrderInv`). The properties speak only of rows, and a row is written in three
  steps: the invariant is about the events under way too.
- Tools: `NoLeakAlways`, for any list of servers and any failures (`NoLeak` is
  inductive as it stands: a client outside the closer is the one being listed,
  and each way out of listing closes it or hands it over), and
  `WorkingToolsServedAlways`, under `Numerals`: decimal numerals are made of valid
  characters and different numbers have different ones. A numeral counts as one
  character. `ToolsInv` adds that the tools of each server listed so far are in
  the list once, in order, under valid names that differ; that the numbering
  always finds a free name is a counting argument (of n + 1 different candidates
  one is not among n names).
- Skills: `LoadFaithfulAlways`, for files of any length and walks of any number of
  files; the property itself is about walks in which no file has text before its
  first delimiter (`NoLeadingNoFront` in the table is the other case). The parser's loop has the invariant `ReadTo`: what
  the flags, the name and the body are after n lines, by where the first two
  delimiters are; the loader's has `LoadedTo`: the first good file of each name.
  `OfferedWholeAlways`, under `Numerals` and `ToolsApart` (the tools a host puts in
  its skills are different values from each other and from the tools it passes
  directly, so that "each once" can be said): `OfferInv` says of a skill nobody edited that
  its index line, its block and its tools are each offered once as soon as
  the loop over the names has passed it, whatever is done to other skills.
- The event stream: `StreamTypeCorrect`, `NoSendOnClosedAlways`, from `LockInv` (a
  closed channel excludes senders past the lock), and `SenderOrderAlways`. `FlowInv`
  is about what was received followed by what is buffered, since an event keeps
  its place in that sequence when it is received: the events of one sender carry
  increasing numbers, none beyond the calls it has made.

`OrderingProofs` has what several of these rest on. A loop is a recursive
function on an interval; that such a function exists, and what it computes, is
proved with `CountsUp` and `Iterates`, which are induction over the set of indices
at which a fact holds instead of over a predicate.

TLC checks the inductive invariants on the instances of the runs too: name them as
INVARIANT in the run's configuration.

Every safety property of the passing runs is stated by a theorem. Only
model-checked:

- liveness, which needs fairness and ENABLED: `CloseCompletes` of the event stream
  and of the pool, `AcceptedDone`, `CancelDrains`, `KillSwitch`;
- the violations of the table above: there is nothing to prove.

## Plan

Done: the runtime core (`AgentRun`), concurrency of subagents (`EventStream`,
`Pool`), the stores and their promise, the context manager, the ledger's reader,
recall over the vector store, MCP servers, skills and how an agent is built from
them. Proved: every safety property of the passing runs, and the refinements of
`ActionAudit` and `KeyedMemory`.

Next:

1. `PoolStream`: `Pool` with `EventStream` instantiated instead of one-step
   sends.
2. `basicTokenize`, over classes of characters.

## Not modelled

Numeric inference and model download (external: the properties use only that
equal inputs give equal vectors); SQL text, since the tables are used as sets of
rows with a primary key; the JSON of arguments and answers, the metadata strings
of the vector store and prompt wording, on which no property depends;
`basicTokenize`, which splits text by Unicode classes; the facade and the
resolvers (`jess.go`, `adapters.go`, `internal/core/once.go`, `resolver.go`), which
keep no state; the examples.

Inside the modelled parts three details are left out. A record longer than the
scanner's 1 MiB limit makes a JSONL file unreadable (`store_jsonl.go:195`, `:245`);
`JSONLStore` has torn records as the only reason for that, and its properties are
about readable files. A registered AlwaysInclude kind with the empty name would
query every kind (`context_manager.go:203`); `ContextProjection` has no such kind.
A vocabulary without the special tokens gives all of them the ID 0
(`tokenizer.go:41`); `EmbedderAssumption` excludes it.
