-------------------------- MODULE ContextProjection --------------------------
(***************************************************************************)
(* core.ContextManager over a shared memory.Store.  Project reads the      *)
(* store once per AlwaysInclude Kind and once more through the             *)
(* SimpleRecaller; every read is a step of its own, and other agents and   *)
(* sessions append and forget between them.  The projection is the prompt  *)
(* of one LLM call: the CORE message, the conversation, the RELEVANT       *)
(* message, and the cache breakpoint.                                      *)
(*                                                                         *)
(* A Text is the set of tokens it contains as substrings; a message's text *)
(* is the sequence of its tokens.  The inner manager is PassthroughInner   *)
(* or a host's own that returns the conversation or an error.  The RunID   *)
(* of the retrieval event is AgentRun's subject and left out here.         *)
(***************************************************************************)
EXTENDS MemoryEntries, Integers, SequencesExt

CONSTANTS
  Global,         \* the empty AgentID
  AgentID,        \* ContextManagerOptions.AgentID
  MaxItems,       \* ContextManagerOptions.MaxItems
  DefaultMax,     \* what MaxItems = 0 becomes (8 in the code)
  Kinds,          \* kinds of entries
  KindOf,         \* body -> its Kind
  TextOf,         \* body -> the tokens its Text contains
  AlwaysInclude,  \* kinds whose policy has AlwaysInclude
  MaxEntries,     \* kind -> MaxEntries of PolicyFor(kind), 0 for the global cap
  Stopwords,      \* tokens the recaller drops from the hint
  RequireMatch,   \* drop entries that score 0
  IncludeKinds,   \* the recaller's kind filter, {} for none
  Writes,         \* contents the hosts append and forget
  TurnMessages,   \* messages a turn may add: [text, stampable]
  MaxTurns,       \* bound on the conversation
  MaxWrites,      \* bound on the operations on the store
  Faulty          \* the store's reads, the sink and the inner manager may fail

ASSUME ProjectionAssumption ==
  /\ Global \in Agents /\ AgentID \in Agents
  /\ MaxItems \in Nat /\ DefaultMax \in Nat \ {0} /\ MaxTurns \in Nat
  /\ MaxWrites \in Nat
  /\ KindOf \in [Bodies -> Kinds]
  /\ AlwaysInclude \subseteq Kinds
  /\ MaxEntries \in [Kinds -> Nat]
  /\ Writes \subseteq Content
  /\ \A m \in TurnMessages : m.stampable \in BOOLEAN
  /\ Faulty \in BOOLEAN

VARIABLES
  live,       \* the store's entries
  conv,       \* the conversation so far
  pc,         \* "idle", "core", "recall" or "finish"
  pending,    \* AlwaysInclude kinds not read yet
  core,       \* entries read for CORE
  relevant,   \* entries recalled for RELEVANT
  proj,       \* the last projection returned
  refs,       \* Refs of the last retrieval event in the ledger
  failed,     \* the last Project returned the inner manager's error
  writes,     \* operations on the store so far
  during      \* history: the states of the store since Project began

vars == <<live, conv, pc, pending, core, relevant, proj, refs, failed, writes, during>>

projectVars == <<pc, pending, core, relevant, proj, refs, failed>>

Init ==
  /\ live = {}
  /\ conv = <<>>
  /\ pc = "idle"
  /\ pending = {}
  /\ core = <<>> /\ relevant = <<>>
  /\ proj = [core |-> <<>>, relevant |-> <<>>, msgs |-> <<>>, mark |-> 0,
             views |-> {}]
  /\ refs = <<>>
  /\ failed = FALSE
  /\ writes = 0
  /\ during = {}

------------------------------------------------------------------------------
(* The store: what KeyedMemory promises, and Recall. *)

\* Every operation on the store, also while Project is between two reads.
Write ==
  /\ writes < MaxWrites
  /\ writes' = writes + 1
  /\ during' = IF pc = "idle" THEN {} ELSE during \cup {live'}
  /\ UNCHANGED <<conv, projectVars>>

AppendNew(c, tags, t) ==
  /\ \A e \in live : e.id # c
  /\ live' = {e \in live : ~SameFact(e, c)} \cup {NewEntry(c, tags, t)}
  /\ Write

AppendKnown(c, tags) ==
  /\ \E e \in live : e.id = c /\ live' = (live \ {e}) \cup {Merge(e, tags)}
  /\ Write

Forget(c) ==
  /\ live' = {e \in live : e.id # c}
  /\ Write

Kind(e) == KindOf[e.id.body]

\* kinds is the query's Kind as a set, all of Kinds when it is empty.
matches(e, agent, kinds) ==
  /\ e.id.agent \in {Global, agent} \/ agent = Global
  /\ Kind(e) \in kinds

Cut(s, max) == IF max > 0 /\ Len(s) > max THEN SubSeq(s, 1, max) ELSE s

Newer(d, e) == d.created > e.created

\* The orders the sort can produce: ties fall as the map iteration fell.
NewestFirst(S) ==
  {s \in SetToSeqs(S) : \A i, j \in DOMAIN s : i < j => ~Newer(s[j], s[i])}

Recall(agent, kinds, max) ==
  {Cut(s, max) : s \in NewestFirst({e \in live : matches(e, agent, kinds)})}

------------------------------------------------------------------------------
(* The SimpleRecaller. *)

\* lastTextContent: the last message with text in it.
Hint ==
  LET said == {i \in DOMAIN conv : conv[i].text # <<>>}
  IN  IF said = {} THEN <<>> ELSE conv[CHOOSE i \in said : \A j \in said : j <= i].text

tokenize(text) == SelectSeq(text, LAMBDA tok : tok \notin Stopwords)

score(e, tokens) ==
    5 * Cardinality({i \in DOMAIN tokens : tokens[i] \in TextOf[e.id.body]})
  + Cardinality({i \in DOMAIN tokens : tokens[i] \in e.tags})

Ranked(d, e) ==
  LET s(f) == score(f, tokenize(Hint))
  IN  s(d) > s(e) \/ (s(d) = s(e) /\ Newer(d, e))

BestFirst(S) ==
  {s \in SetToSeqs(S) : \A i, j \in DOMAIN s : i < j => ~Ranked(s[j], s[i])}

Wanted(e) ==
  /\ matches(e, AgentID, Kinds)
  /\ IncludeKinds = {} \/ Kind(e) \in IncludeKinds
  /\ RequireMatch => score(e, tokenize(Hint)) > 0

\* Mutant of SimpleRecall: the store cuts to max before anything is scored.
SimpleRecallCutFirst(max) ==
  UNION {BestFirst(ToSet(s)) : s \in Recall(AgentID, Kinds, max)}

SimpleRecall(max) ==
  {Cut(s, max) : s \in BestFirst({e \in live : Wanted(e)})}

------------------------------------------------------------------------------
(* Project. *)

maxItems == IF MaxItems = 0 THEN DefaultMax ELSE MaxItems

AddTurn(m) ==
  /\ pc = "idle"
  /\ Len(conv) < MaxTurns
  /\ conv' = Append(conv, m)
  /\ UNCHANGED <<live, writes, during, projectVars>>

ProjectBegin ==
  /\ pc = "idle"
  /\ pc' = IF AlwaysInclude = {} THEN "recall" ELSE "core"
  /\ pending' = AlwaysInclude
  /\ failed' = FALSE
  /\ during' = {live}
  /\ UNCHANGED <<live, conv, core, relevant, proj, refs, writes>>

InnerFails ==
  /\ Faulty
  /\ pc = "idle"
  /\ failed' = TRUE
  /\ UNCHANGED <<live, conv, pc, pending, core, relevant, proj, refs, writes, during>>

\* Errors are swallowed: a failed read yields no entries.
OnError == IF Faulty THEN {<<>>} ELSE {}

Cap(kind) == IF MaxEntries[kind] = 0 THEN maxItems ELSE MaxEntries[kind]

\* Mutant of ReadKind: the entries of the last call are kept while there are any.
ReadKindCached(kind) ==
  /\ pc = "core"
  /\ kind \in pending
  /\ \E es \in Recall(AgentID, {kind}, Cap(kind)) \cup OnError :
       core' = IF proj.core # <<>> THEN proj.core ELSE core \o es
  /\ pending' = pending \ {kind}
  /\ pc' = IF pending' = {} THEN "recall" ELSE "core"
  /\ UNCHANGED <<live, conv, relevant, proj, refs, failed, writes, during>>

\* alwaysIncludeEntries, one kind: the registry is a map, so the kinds come in
\* any order.
ReadKind(kind) ==
  /\ pc = "core"
  /\ kind \in pending
  /\ \E es \in Recall(AgentID, {kind}, Cap(kind)) \cup OnError : core' = core \o es
  /\ pending' = pending \ {kind}
  /\ pc' = IF pending' = {} THEN "recall" ELSE "core"
  /\ UNCHANGED <<live, conv, relevant, proj, refs, failed, writes, during>>

\* The loop that copies the entries of the other kinds, after n entries.
NotCore(es) ==
  LET kept[n \in 0..Len(es)] ==
        IF n = 0 THEN <<>>
        ELSE IF Kind(es[n]) \in AlwaysInclude THEN kept[n - 1]
        ELSE Append(kept[n - 1], es[n])
  IN  kept[Len(es)]

\* Mutants of RecallForBudget: the recaller's AlwaysInclude entries are kept;
\* the budget is the whole of maxItems.
RecallForBudgetUnfiltered ==
  /\ pc = "recall"
  /\ relevant' \in IF maxItems - Len(core) <= 0 THEN {<<>>}
                   ELSE SimpleRecall(maxItems - Len(core)) \cup OnError
  /\ pc' = "finish"
  /\ UNCHANGED <<live, conv, pending, core, proj, refs, failed, writes, during>>

RecallForBudgetWhole ==
  /\ pc = "recall"
  /\ relevant' \in {NotCore(es) : es \in SimpleRecall(maxItems) \cup OnError}
  /\ pc' = "finish"
  /\ UNCHANGED <<live, conv, pending, core, proj, refs, failed, writes, during>>

\* recallForBudget: the AlwaysInclude kinds are dropped after the recaller has
\* cut to the budget.
RecallForBudget ==
  /\ pc = "recall"
  /\ relevant' \in LET budget == maxItems - Len(core) IN
                   IF budget <= 0 THEN {<<>>}
                   ELSE {NotCore(es) : es \in SimpleRecall(budget) \cup OnError}
  /\ pc' = "finish"
  /\ UNCHANGED <<live, conv, pending, core, proj, refs, failed, writes, during>>

\* A message as the provider sees it: whose it is and what it says.
Message(from, body) == [from |-> from, body |-> body]
Block(from, es) == IF es = <<>> THEN <<>> ELSE <<Message(from, es)>>

Baseline == [i \in DOMAIN conv |-> Message("conversation", conv[i])]

\* The last message of the stable part is an ac.Message and can be stamped.
Stampable == IF conv = <<>> THEN core # <<>> ELSE conv[Len(conv)].stampable

\* Mutant of Prompt: RELEVANT leads.
PromptRelevantFirst ==
  Block("relevant", relevant) \o Block("core", core) \o Baseline

Prompt == Block("core", core) \o Baseline \o Block("relevant", relevant)

\* markCacheBreakpoint, called only when RELEVANT is appended.
Breakpoint == IF relevant # <<>> /\ Stampable THEN Len(Prompt) - 1 ELSE 0

IDs(es) == [i \in DOMAIN es |-> es[i].id]

SinkFails == IF Faulty THEN {refs} ELSE {}

\* One best-effort event per call that injected anything: the sink may fail.
RecordRetrieved ==
  refs' \in IF core \o relevant = <<>> THEN {refs}
            ELSE {IDs(core \o relevant)} \cup SinkFails

Finish ==
  /\ pc = "finish"
  /\ RecordRetrieved
  /\ proj' = [core |-> core, relevant |-> relevant, msgs |-> Prompt,
              mark |-> Breakpoint, views |-> during]
  /\ pc' = "idle"
  /\ core' = <<>> /\ relevant' = <<>> /\ during' = {}
  /\ UNCHANGED <<live, conv, pending, failed, writes>>

Next ==
  \/ \E c \in Writes, tags \in SUBSET Tags :
       AppendKnown(c, tags) \/ \E t \in Times : AppendNew(c, tags, t)
  \/ \E c \in Writes : Forget(c)
  \/ \E m \in TurnMessages : AddTurn(m)
  \/ ProjectBegin
  \/ InnerFails
  \/ \E kind \in AlwaysInclude : ReadKind(kind)
  \/ RecallForBudget
  \/ Finish

Spec == Init /\ [][Next]_vars

------------------------------------------------------------------------------
Injected == proj.core \o proj.relevant

\* No memory appears twice in one prompt, whatever is appended, re-appended or
\* forgotten between the reads of one Project.
NoDuplicate ==
  \A i, j \in DOMAIN Injected : i # j => Injected[i].id # Injected[j].id

\* RELEVANT only fills what CORE left of the item budget.
WithinBudget ==
  proj.relevant # <<>> => Len(Injected) <= maxItems

\* When a projection is handed over, every memory in it was in the store at some
\* time during that very call: nothing survives from an earlier turn, so a memory
\* forgotten before the call began is not in the prompt.
FreshMemories ==
  [][\A i \in DOMAIN Injected' : Injected'[i] \in UNION during]_proj

\* While CORE stays the same, the prompt up to the cache breakpoint (all of the
\* prompt but RELEVANT when nothing could be stamped) is a prefix of the next
\* turn's prompt: what the provider cached is read again.
StablePrefix ==
  [][proj'.core = proj.core =>
       IsPrefix(SubSeq(proj.msgs, 1, IF proj.mark > 0 THEN proj.mark
                                     ELSE Len(proj.msgs) - Len(Block("relevant", proj.relevant))),
                proj'.msgs)]_proj

\* The recaller keeps the best of the store as it is at that moment: an entry it
\* could have returned and left out outranks none of the entries it returned.
TopRanked ==
  [][pc = "recall" =>
       \A i \in DOMAIN relevant', e \in live \ ToSet(relevant') :
         Wanted(e) /\ Kind(e) \notin AlwaysInclude => ~Ranked(e, relevant'[i])]_pc

------------------------------------------------------------------------------
(* What the comments in the code say, and the code does not do. *)

\* ContextManagerOptions: MaxItems caps how many entries get injected per call.
MaxItemsCaps == MaxItems > 0 => Len(Injected) <= MaxItems

\* KindPolicy: MaxEntries caps how many entries of the kind reach the prompt.
KindCapped ==
  \A kind \in Kinds : MaxEntries[kind] > 0 =>
    Len(SelectSeq(Injected, LAMBDA e : Kind(e) = kind)) <= MaxEntries[kind]

\* Project: CORE is the same every turn until a memory is added.  Here: two calls
\* in a row during which the store was in one and the same state.
CoreSame ==
  [][proj'.views = proj.views /\ Cardinality(proj.views) = 1
       => proj'.core = proj.core]_proj

\* Project: recall fills the remaining budget with entries of the other kinds.
FillsBudget ==
  [][pc = "recall" /\ Len(core) < maxItems =>
       LET wanted == {e \in live : Wanted(e) /\ Kind(e) \notin AlwaysInclude}
       IN  Len(relevant') = Cardinality(wanted) \/ Len(relevant') = maxItems - Len(core)]_pc

\* ContextManagerOptions: an empty AgentID means the global scope.
GlobalScope ==
  AgentID = Global => \A i \in DOMAIN Injected : Injected[i].id.agent = Global

------------------------------------------------------------------------------
(* The inductive invariants behind the properties of the prompt *)

Prompts ==
  [core : Seq(Entry), relevant : Seq(Entry), mark : Nat, views : SUBSET SUBSET Entry,
   msgs : Seq([from : {"core", "conversation", "relevant"}, body : Seq(Entry) \cup TurnMessages])]

\* The types of the variables the prompt is made of.
TypeOK ==
  /\ live \in SUBSET Entry
  /\ conv \in Seq(TurnMessages)
  /\ pc \in {"idle", "core", "recall", "finish"}
  /\ pending \in SUBSET AlwaysInclude
  /\ core \in Seq(Entry) /\ relevant \in Seq(Entry)
  /\ proj \in Prompts
  /\ during \in SUBSET SUBSET Entry

\* The store holds finitely many entries, one per ID.
StoreInv ==
  /\ IsFiniteSet(live)
  /\ \A e, x \in live : e.id = x.id => e = x

DistinctIDs(es) == \A i, j \in DOMAIN es : i # j => es[i].id # es[j].id

\* What Project has gathered so far: CORE from the kinds it has read, RELEVANT
\* from the others and only into the room CORE left, and all of it seen in the
\* store since the call began.
GatherInv ==
  /\ pc = "idle" => core = <<>>
  /\ pc # "finish" => relevant = <<>>
  /\ pc # "idle" => live \in during
  /\ \A i \in DOMAIN core :
       Kind(core[i]) \in AlwaysInclude \ pending /\ core[i] \in UNION during
  /\ \A i \in DOMAIN relevant :
       Kind(relevant[i]) \notin AlwaysInclude /\ relevant[i] \in UNION during
  /\ DistinctIDs(core) /\ DistinctIDs(relevant)
  /\ relevant # <<>> => Len(core) + Len(relevant) <= maxItems

\* The first k messages of the conversation, as the prompt holds them.
Said(k) == [i \in 1..k |-> Message("conversation", conv[i])]

\* The last prompt was built around a conversation that has only grown since,
\* and its breakpoint sits in front of RELEVANT.
PromptInv ==
  /\ \E k \in 0..Len(conv) :
       proj.msgs = Block("core", proj.core) \o Said(k) \o Block("relevant", proj.relevant)
  /\ proj.mark > 0 => proj.relevant # <<>> /\ proj.mark = Len(proj.msgs) - 1
==============================================================================
