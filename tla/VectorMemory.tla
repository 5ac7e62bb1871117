----------------------------- MODULE VectorMemory ----------------------------
(***************************************************************************)
(* Recall over a ChromemStore: RecallTool, VectorRecaller, SimpleRecaller  *)
(* and HybridRecaller, which fuses the two by reciprocal rank.  A recall   *)
(* takes no lock across its calls: it embeds the hint, counts the          *)
(* collection, queries it, and lists it for the keyword ranking, each as a *)
(* step of its own between which Append and Forget change the collection.  *)
(* One recall is followed from its call to its answer, where the behaviour *)
(* ends: a recall changes nothing.                                         *)
(***************************************************************************)
EXTENDS ChromemStore, Embedder, Ordering

CONSTANTS
  Global,      \* the empty AgentID
  AgentID,     \* the agent whose recall it is
  TextOf,      \* body -> its text
  KindOf,      \* body -> its Kind
  Hints,       \* conversation hints
  Options,     \* embedder options the host may pass
  ModelDim,    \* the dimension the network really has
  Sims,        \* similarity values, a set of naturals
  MinScore,    \* WithMinScore; 0 disables it
  MaxCap       \* RecallOptions.MaxCap

ASSUME VectorAssumption ==
  /\ AgentID \in Agents
  /\ TextOf \in [Bodies -> Seq(Seq(STRING))]
  /\ Hints \subseteq Seq(Seq(STRING))
  /\ Options \subseteq [model : Shape \cup {Unset}, modelID : Shape \cup {Unset},
                       dim : Int, seqLen : Int]
  /\ Sims \subseteq Nat /\ MinScore \in Nat
  /\ MaxCap \in Nat \ {0}
  /\ Failure \notin Seq(Entry)

VARIABLES
  shape,       \* the embedder: [dim, seqLen], or Unset before NewEmbedder
  rpc,         \* where the recall is
  req,         \* its arguments, and the similarity of every body to its hint
  counted,     \* the collection when it was counted
  rankings,    \* what the recallers returned so far, in order
  failed,      \* the recallers that returned an error
  answer       \* what the recall returned

rvars == <<rpc, req, counted, rankings, failed, answer>>
allvars == <<vars, shape, rvars>>

NoRequest == [hint |-> <<>>, max |-> 0, sim |-> [b \in Bodies |-> 0], hybrid |-> FALSE]

RecallInit ==
  /\ Init
  /\ shape = Unset
  /\ rpc = "idle"
  /\ req = NoRequest
  /\ counted = {}
  /\ rankings = <<>>
  /\ failed = {}
  /\ answer = NoEntry

\* NewEmbedder: the shape is resolved, then the files are downloaded and the
\* graph is built; when a step fails there is no embedder.
NewEmbedder(o) ==
  /\ shape = Unset
  /\ resolveModelOptions(o) # Failed
  /\ shape' = resolveModelOptions(o)
  /\ UNCHANGED <<vars, rvars>>

------------------------------------------------------------------------------
(* Reading the store *)

Kind(e) == KindOf[e.id.body]

\* textMatchesAndAgentScopeOK and the Kind filter; kinds is the query's Kind as
\* a set.
InScope(e, kinds) ==
  /\ AgentID = Global \/ e.id.agent \in {Global, AgentID}
  /\ Kind(e) \in kinds

AllKinds == {KindOf[b] : b \in Bodies}

Cut(s, n) == IF Len(s) > n THEN SubSeq(s, 1, n) ELSE s

\* The orders a sort by Better can produce: ties fall as the map iteration fell.
Sorted(S, Better(_, _)) ==
  {s \in SetToSeqs(S) : \A i, j \in DOMAIN s : i < j => ~Better(s[j], s[i])}

Newer(d, e) == d.created > e.created

\* ChromemStore.Recall
Recall(kinds) == Sorted({d \in docs : InScope(d, kinds)}, Newer)

\* SimpleRecaller.score for untagged entries, without stopwords (module
\* ContextProjection has them).
Overlap(e) == 5 * Cardinality({i \in DOMAIN req.hint : req.hint[i] \in ToSet(TextOf[e.id.body])})

\* SimpleRecaller.Recall
SimpleRecall(max) ==
  LET Better(d, e) == Overlap(d) > Overlap(e) \/ (Overlap(d) = Overlap(e) /\ Newer(d, e))
  IN  {Cut(s, max) : s \in Sorted({d \in docs : InScope(d, AllKinds)}, Better)}

Sim(e) == req.sim[e.id.body]

\* collection.QueryEmbedding (external): the n documents nearest to the vector.
QueryEmbedding(n) == {Cut(s, n) : s \in Sorted(docs, LAMBDA d, e : Sim(d) > Sim(e))}

\* Mutant of nResults: no headroom for the agent filter.
nResultsExact(max, count) == IF count < max THEN count ELSE max

\* SearchVector asks for twice as many as it needs, and never for more than
\* there are.
nResults(max, count) == IF count < max * 2 THEN count ELSE max * 2

\* SearchVector's agent filter and cut, then VectorRecaller's floor.
Admitted(results, max) ==
  LET own == Cut(Picked(results, {i \in DOMAIN results : InScope(results[i], AllKinds)}), max)
  IN  Picked(own, {i \in DOMAIN own : Sim(own[i]) >= MinScore})

------------------------------------------------------------------------------
(* HybridRecaller *)

K == 60

RankOf(r, e) == CHOOSE i \in DOMAIN r : r[i].id = e.id

In(r, e) == \E i \in DOMAIN r : r[i].id = e.id

\* Mutant of Counted: every entry of a ranking counts the same.
CountedFlat(s, r, e) == IF In(r, e) THEN <<s[1] * K + s[2], s[2] * K>> ELSE s

\* rrf, one ranking: the score s, a fraction <<numerator, denominator>>, grows by
\* 1/(K+rank) when the ranking has e; rank counts from 0.
Counted(s, r, e) ==
  LET d == K + RankOf(r, e) - 1
  IN  IF In(r, e) THEN <<s[1] * d + s[2], s[2] * d>> ELSE s

\* rrf: the score of e over all rankings.
Score(rs, e) ==
  LET upTo[n \in 0..Len(rs)] == IF n = 0 THEN <<0, 1>> ELSE Counted(upTo[n - 1], rs[n], e)
  IN  upTo[Len(rs)]

\* rrf: the entry is the one of the first ranking that has it.
Candidates(rs) ==
  {r \in UNION {ToSet(rs[k]) : k \in DOMAIN rs} :
     \E k \in DOMAIN rs :
       /\ r \in ToSet(rs[k])
       /\ \A j \in 1..k-1 : ~In(rs[j], r)}

\* rrf: by score, ties newest first.  Equal sums of different terms may differ in
\* float64, so that they go either way.
Outranks(rs, d, e) ==
  LET a == Score(rs, d)
      b == Score(rs, e)
  IN  a[1] * b[2] > b[1] * a[2] \/ (a = b /\ Newer(d, e))

rrf(rs, max) ==
  {Cut(s, max) : s \in Sorted(Candidates(rs), LAMBDA d, e : Outranks(rs, d, e))}

------------------------------------------------------------------------------
(* A recall *)

\* What a contributing recaller is asked for.
Fetch == IF req.hybrid THEN req.max * 3 ELSE req.max

\* RecallTool.Execute: the model's max is clamped to the cap.
Clamped(max) == IF max <= 0 \/ max > MaxCap THEN MaxCap ELSE max

\* RecallTool.Execute with a Kind: a newest-first read of the store.
ExecuteKind(max, kind) ==
  /\ shape # Unset
  /\ rpc = "idle"
  /\ \/ \E s \in Recall({kind}) : answer' = Cut(s, Clamped(max))
     \/ Failing /\ answer' = Failure
  /\ rpc' = "done"
  /\ UNCHANGED <<vars, shape, req, counted, rankings, failed>>

\* RecallTool.Execute without one: the recaller, a VectorRecaller or a
\* HybridRecaller over both.
Execute(hint, max, hybrid) ==
  /\ shape # Unset
  /\ rpc = "idle"
  /\ rpc' = "embed"
  /\ req' = [req EXCEPT !.hint = hint, !.max = Clamped(max), !.hybrid = hybrid]
  /\ UNCHANGED <<vars, shape, counted, rankings, failed, answer>>

\* A contributor has answered with ranking r.
Contribute(r) ==
  /\ rankings' = Append(rankings, r)
  /\ rpc' = IF req.hybrid THEN "keyword" ELSE "fuse"

\* Mutant of VectorFails: the first error ends the recall.
VectorFailsHard ==
  /\ rpc \in {"embed", "query"}
  /\ \/ Failing
     \/ rpc = "embed" /\ shape.dim # ModelDim
     \/ rpc = "query" /\ nResults(Fetch, Cardinality(counted)) > Cardinality(docs)
  /\ rpc' = "done"
  /\ failed' = failed \cup {"vector"}
  /\ answer' = Failure
  /\ UNCHANGED <<vars, shape, req, counted, rankings>>

\* The embedder fails (always, when the configured dimension is not the
\* network's), or QueryEmbedding does (always, when documents were deleted since
\* they were counted): the hybrid goes on with its other contributor.
VectorFails ==
  /\ rpc \in {"embed", "query"}
  /\ \/ Failing
     \/ rpc = "embed" /\ shape.dim # ModelDim
     \/ rpc = "query" /\ nResults(Fetch, Cardinality(counted)) > Cardinality(docs)
  /\ failed' = failed \cup {"vector"}
  /\ rpc' = IF req.hybrid THEN "keyword" ELSE "fuse"
  /\ UNCHANGED <<vars, shape, req, counted, rankings, answer>>

\* Embed: the network gives every text some similarity to the hint, the same
\* one to texts it cannot tell apart, and the highest to the hint's own
\* encoding.
Embed ==
  LET code(text) == encodeBatch(text, shape.seqLen)
  IN  /\ rpc = "embed"
      /\ shape.dim = ModelDim
      /\ \E sim \in [Bodies -> Sims] :
           /\ \A b, c \in Bodies : code(TextOf[b]) = code(TextOf[c]) => sim[b] = sim[c]
           /\ \A b \in Bodies :
                code(TextOf[b]) = code(req.hint) => \A s \in Sims : s <= sim[b]
           /\ req' = [req EXCEPT !.sim = sim]
      /\ rpc' = "count"
      /\ UNCHANGED <<vars, shape, counted, rankings, failed, answer>>

\* SearchVector reads the collection's size; nothing is asked of an empty one.
Count ==
  /\ rpc = "count"
  /\ counted' = docs
  /\ IF docs = {} THEN Contribute(<<>>) ELSE rpc' = "query" /\ UNCHANGED rankings
  /\ UNCHANGED <<vars, shape, req, failed, answer>>

Query ==
  LET n == nResults(Fetch, Cardinality(counted))
  IN  /\ rpc = "query"
      /\ n <= Cardinality(docs)
      /\ \E s \in QueryEmbedding(n) : Contribute(Admitted(s, Fetch))
      /\ UNCHANGED <<vars, shape, req, counted, failed, answer>>

Keyword ==
  /\ rpc = "keyword"
  /\ \/ \E s \in SimpleRecall(Fetch) : rankings' = Append(rankings, s) /\ UNCHANGED failed
     \/ Failing /\ failed' = failed \cup {"keyword"} /\ UNCHANGED rankings
  /\ rpc' = "fuse"
  /\ UNCHANGED <<vars, shape, req, counted, answer>>

\* The recaller returns: an error when no contributor answered, the fusion of
\* those that did, or the one ranking of a VectorRecaller as it is.
Fuse ==
  /\ rpc = "fuse"
  /\ \/ rankings = <<>> /\ answer' = Failure
     \/ rankings # <<>> /\ req.hybrid /\ \E s \in rrf(rankings, req.max) : answer' = s
     \/ rankings # <<>> /\ ~req.hybrid /\ answer' = rankings[1]
  /\ rpc' = "done"
  /\ UNCHANGED <<vars, shape, req, counted, rankings, failed>>

\* A step of the store.  AddDocument embeds the text and fails when the embedder
\* does.  A restart ends a recall, so it comes before the one that is followed.
StoreStep ==
  /\ shape # Unset
  /\ rpc # "done"
  /\ Next
  /\ shape.dim = ModelDim \/ docs' \subseteq docs
  /\ Restart => rpc = "idle"
  /\ UNCHANGED <<shape, rvars>>

RecallNext ==
  \/ \E o \in Options : NewEmbedder(o)
  \/ StoreStep
  \/ \E max \in 0..MaxCap + 1 :
       \/ \E k \in AllKinds : ExecuteKind(max, k)
       \/ \E h \in Hints, hybrid \in BOOLEAN : Execute(h, max, hybrid)
  \/ VectorFails
  \/ Embed
  \/ Count
  \/ Query
  \/ Keyword
  \/ Fuse

RecallSpec == RecallInit /\ [][RecallNext]_allvars

------------------------------------------------------------------------------
(* Properties *)

\* HybridRecaller: "partial failures degrade gracefully so a missing embedder
\* doesn't kill the whole recall".  Whatever failed, and whatever was deleted
\* between counting and querying, the recall errs only if no contributor
\* answered, and with one ranking left it returns that ranking, cut to max.
Degrades ==
  rpc = "done" /\ req.max > 0 =>
    /\ (answer = Failure) = (failed = {"vector"} \cup IF req.hybrid THEN {"keyword"} ELSE {})
    /\ Len(rankings) = 1 => answer = Cut(rankings[1], req.max)

\* HybridRecaller: an entry that every contributor which returned f ranks above
\* f is in the answer, and before f, whenever f is.
FusionMonotone ==
  rpc = "done" /\ rankings # <<>> /\ answer # Failure =>
    \A i \in DOMAIN answer :
      \A e \in Candidates(rankings) :
        (\A k \in DOMAIN rankings :
           In(rankings[k], answer[i]) =>
             In(rankings[k], e) /\ RankOf(rankings[k], e) < RankOf(rankings[k], answer[i]))
        => \E j \in 1..i-1 : answer[j].id = e.id

\* SearchVector: "Overfetch to give the agent-scope post-filter headroom".  When
\* the collection it queries is the one it counted and holds no more documents of
\* other agents than it was asked for, SearchVector finds as many of the agent's
\* own relevant entries as there are, up to max.
HeadroomSuffices ==
  [][rpc = "query" /\ rankings # rankings' /\ docs = counted =>
       LET own      == {d \in docs : InScope(d, AllKinds)}
           relevant == Cardinality({d \in own : Sim(d) >= MinScore})
       IN  Cardinality(docs \ own) <= Fetch =>
             Len(rankings'[1]) = IF relevant < Fetch THEN relevant ELSE Fetch]_allvars

\* SearchVector without the condition on other agents' documents.
OwnAlwaysFound ==
  [][/\ rpc = "query" /\ rankings # rankings' /\ docs = counted
     /\ \E d \in docs : InScope(d, AllKinds) /\ Sim(d) >= MinScore
     => rankings'[1] # <<>>]_allvars

\* Append "REPLACES any prior Entry": an answer never shows two versions of one
\* fact.
OneVersion ==
  rpc = "done" /\ answer # Failure =>
    \A i, j \in DOMAIN answer : SameFact(answer[i], answer[j].id) => i = j

\* encodeBatch: "Sentences longer than seqLen are truncated and [SEP] is moved
\* to the last position; shorter sentences are padded".  Whatever Options the
\* embedder was built from, the network gets seqLen >= 1 tokens: one run of real
\* ones that ends in the only [SEP], then padding; and every word it gets in
\* full is either the word that was said or a single [UNK].
EncodingFaithful ==
  rpc = "embed" =>
    \A text \in {req.hint} \cup {TextOf[b] : b \in Bodies} :
      LET n     == shape.seqLen
          code  == encodeBatch(text, n)
          real  == {i \in 1..n : code.mask[i] = 1}
          whole == encode(text)
          spelt(ps) == FlattenSeq([i \in DOMAIN ps |-> ps[i].runes])
      IN  /\ n >= 1
          /\ real = 1..Cardinality(real)
          /\ {i \in 1..n : code.ids[i] = SEP} = {Cardinality(real)}
          /\ \A i \in 1..n : (code.ids[i] = PAD) = (i \notin real)
          /\ Len(whole) <= n => SubSeq(code.ids, 1, Len(whole)) = whole
          /\ \A i \in DOMAIN text :
               LET ps == wordPieceTokenize(text[i])
               IN  ps = <<UNK>> \/ (~Contains(ps, UNK) /\ spelt(ps) = text[i])

------------------------------------------------------------------------------
(* The inductive invariant behind Degrades and FusionMonotone *)

\* The collection is finite and has one document per ID.
Collection ==
  /\ IsFiniteSet(docs)
  /\ \A d, x \in docs : d.id = x.id => d = x

Request == [hint : Hints \cup {<<>>}, max : Nat, sim : [Bodies -> Nat], hybrid : BOOLEAN]

\* A ranking has an entry once.
Ranking(r) ==
  /\ r \in Seq(Entry)
  /\ \A i, j \in DOMAIN r : r[i].id = r[j].id => i = j

RecallTypeOK ==
  /\ rpc \in {"idle", "embed", "count", "query", "keyword", "fuse", "done"}
  /\ req \in Request
  /\ IsFiniteSet(counted)
  /\ rankings \in Seq(Seq(Entry))
  /\ \A k \in DOMAIN rankings : Ranking(rankings[k])

\* A recall embeds with the shape NewEmbedder resolved, which is not empty.
ShapeInv ==
  /\ shape # Unset => shape \in Shape /\ shape.seqLen > 0
  /\ rpc = "embed" => shape # Unset

Contributors == {"vector"} \cup IF req.hybrid THEN {"keyword"} ELSE {}

\* What a recall has from its contributors at each step, and what it makes of it.
Progress ==
  /\ rpc = "idle" => req.max = 0
  /\ rpc \in {"embed", "count", "query", "keyword", "fuse"} => req.max > 0
  /\ rpc \in {"idle", "embed", "count", "query"} => rankings = <<>> /\ failed = {}
  /\ rpc = "keyword" => req.hybrid /\ failed = IF rankings = <<>> THEN {"vector"} ELSE {}
  /\ rpc = "fuse" => (rankings = <<>> <=> failed = Contributors)
  /\ rankings # <<>> /\ ~req.hybrid => Len(rankings) = 1 /\ Len(rankings[1]) <= req.max
  /\ rpc = "done" /\ req.max = 0 => rankings = <<>>
  /\ rpc = "done" /\ req.max > 0 =>
       /\ rankings = <<>> <=> failed = Contributors
       /\ rankings = <<>> => answer = Failure
       /\ rankings # <<>> => IF req.hybrid THEN answer \in rrf(rankings, req.max)
                             ELSE answer = rankings[1]
==============================================================================
