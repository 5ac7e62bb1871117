-------------------------- MODULE VectorMemoryProofs --------------------------
(***************************************************************************)
(* Proofs about ChromemStore and the recalls that run against it, for all  *)
(* agents, keys, contents and bounds: types; one document per key and one  *)
(* embedding per content when calls do not overlap, across failed calls,   *)
(* repeated calls and restarts; for any number of callers, how a recall    *)
(* degrades, what its fusion and its headroom give, and what the embedder  *)
(* hands to the network.                                                   *)
(***************************************************************************)
EXTENDS VectorMemory, OrderingProofs

-------------------------------------------------------------------------------
(* Entries *)

\* An entry made from a content is filed under that content's key.
LEMMA NewEntryType ==
  ASSUME NEW c \in Content, NEW tags \in SUBSET Tags, NEW t \in Times
  PROVE  /\ NewEntry(c, tags, t) \in Entry
         /\ NewEntry(c, tags, t).id = c
         /\ NewEntry(c, tags, t).key = c.key
BY DEF NewEntry, Entry, Content

\* The steps a call p of the store can take.
CallerStep(p) ==
  \/ \E c \in Content, tags \in SUBSET Tags, t \in Times :
       AppendSeen(p, NewEntry(c, tags, t)) \/ AppendFirst(p, NewEntry(c, tags, t))
  \/ \E c \in Content : ForgetSeen(p, c)
  \/ DeletePrior(p) \/ Add(p) \/ AppendFails(p) \/ ForgetDoc(p) \/ ForgetFails(p)

\* A step of the store is a step of a caller or a restart.
LEMMA NextSplit == Next <=> (\E p \in Callers : CallerStep(p)) \/ Restart
BY DEF Next, CallerStep

\* Every step keeps the types.
LEMMA StoreType ==
  ASSUME TypeOK, Filed, [Next]_vars
  PROVE  TypeOK'
<1> USE DEF TypeOK, Goto, Return, Call, Pass, Returned
<1>1. ASSUME NEW p \in Callers, CallerStep(p)
      PROVE  TypeOK'
  <2>1. ASSUME NEW c \in Content, NEW tags \in SUBSET Tags, NEW t \in Times,
               NEW e \in Entry, e = NewEntry(c, tags, t),
               AppendSeen(p, e) \/ AppendFirst(p, e)
        PROVE  TypeOK'
    <3>1. e.id \in Content
      BY DEF Entry
    <3>2. CASE AppendSeen(p, e)
      BY <3>2 DEF AppendSeen
    <3>3. CASE AppendFirst(p, e)
      BY <3>1, <3>3 DEF AppendFirst
    <3>4. QED
      BY <2>1, <3>2, <3>3
  <2>2. ASSUME NEW c \in Content, ForgetSeen(p, c)
        PROVE  TypeOK'
    <3>1. PICK t \in Times : Pass(p, NewEntry(c, {}, t))
      BY <2>2 DEF ForgetSeen
    <3>2. NewEntry(c, {}, t) \in Entry
      BY NewEntryType
    <3>3. QED
      BY <2>2, <3>1, <3>2 DEF ForgetSeen
  <2>3. CASE DeletePrior(p)
    BY <2>3 DEF DeletePrior, Superseding
  <2>4. CASE Add(p) \/ AppendFails(p)
    <3>1. arg[p] \in Entry
      BY <2>4 DEF Add, AppendFails, Filed
    <3>2. Superseding(p) \subseteq Entry /\ Added(p) \subseteq Entry
      BY <3>1 DEF Superseding, Added
    <3>3. QED
      BY <2>4, <3>1, <3>2 DEF Add, AppendFails
  <2>5. CASE ForgetDoc(p) \/ ForgetFails(p)
    BY <2>5 DEF ForgetDoc, ForgetFails
  <2>6. QED
    BY <1>1, <2>1, <2>2, <2>3, <2>4, <2>5, NewEntryType DEF CallerStep
<1>2. CASE Restart
  BY <1>2 DEF Restart
<1>3. CASE UNCHANGED vars
  BY <1>3 DEF vars
<1>4. QED
  BY <1>1, <1>2, <1>3, NextSplit

-------------------------------------------------------------------------------
(* Calls that do not overlap *)

\* With one caller, a step that starts a call finds no other under way, and the
\* documents of the call that runs are its own business.
LEMMA StoreCaller ==
  ASSUME OneCaller, TypeOK, StoreInv, NEW p \in Callers, CallerStep(p)
  PROVE  StoreInv'
<1>0. \A q \in Callers : q = p
  BY DEF OneCaller
<1> USE <1>0 DEF TypeOK, StoreInv, Filed, Cleared, Remembered, OnePerKey, Goto, Return,
                 Call, Pass
<1>1. ASSUME NEW c \in Content, NEW tags \in SUBSET Tags, NEW t \in Times,
             AppendSeen(p, NewEntry(c, tags, t)) \/ AppendFirst(p, NewEntry(c, tags, t))
      PROVE  StoreInv'
  <2> DEFINE e == NewEntry(c, tags, t)
  <2>0. e \in Entry /\ e.id = c /\ e.key = c.key
    BY NewEntryType
  <2> HIDE DEF e
  <2>1. CASE AppendSeen(p, e)
    BY <2>1 DEF AppendSeen
  <2>2. CASE AppendFirst(p, e)
    <3>1. /\ pc[p] = "idle" /\ e.id \notin seen /\ docs' = docs /\ behind' = behind
          /\ pc'[p] = IF e.key # NoKey THEN "delete" ELSE "add"
          /\ arg'[p] = e /\ seen' = seen \cup {e.id}
      BY <2>2 DEF AppendFirst
    <3>2. Filed'
      BY <2>0, <3>1
    <3>3. Cleared'
      BY <2>0, <3>1 DEF SameFact
    <3>4. Remembered'
      BY <3>1
    <3>5. QED
      BY <3>1, <3>2, <3>3, <3>4
  <2>3. QED
    BY <1>1, <2>1, <2>2 DEF e
<1>2. ASSUME NEW c \in Content, ForgetSeen(p, c)
      PROVE  StoreInv'
  <2>1. PICK t \in Times : Pass(p, NewEntry(c, {}, t))
    BY <1>2 DEF ForgetSeen
  <2>2. /\ pc[p] = "idle" /\ pc'[p] = "forget" /\ docs' = docs /\ behind' = behind
        /\ arg'[p] = NewEntry(c, {}, t) /\ seen' = seen \ {c}
    BY <1>2, <2>1 DEF ForgetSeen
  <2>3. arg'[p] \in Entry /\ arg'[p].id = c /\ arg'[p].key = c.key
    BY <2>2, NewEntryType
  <2>4. QED
    BY <2>2, <2>3
<1>3. CASE DeletePrior(p)
  <2>1. /\ pc[p] = "delete" /\ pc'[p] = "add"
        /\ docs' = {d \in docs : ~SameFact(d, arg[p].id)}
        /\ UNCHANGED <<seen, arg, behind>>
    BY <1>3 DEF DeletePrior, Superseding
  <2>2. QED
    BY <2>1
<1>4. ASSUME pc[p] = "add", docs' = Added(p), pc'[p] = "idle", UNCHANGED <<seen, behind>>
      PROVE  StoreInv'
  <2>1. \A d \in docs' : (d \in docs /\ d.id # arg[p].id) \/ d = arg[p]
    BY <1>4 DEF Added
  <2>2. \A d \in docs : ~SameFact(d, arg[p].id)
    BY <1>4
  <2>3. arg[p].key = arg[p].id.key /\ arg[p].id \in seen
    BY <1>4
  <2>4. OnePerKey'
    BY <2>1, <2>2, <2>3 DEF SameFact
  <2>5. Filed' /\ Cleared' /\ Remembered'
    BY <1>4, <2>1, <2>3
  <2>6. QED
    BY <2>4, <2>5
<1>5. ASSUME docs' \subseteq docs, pc'[p] = "idle", seen' = seen, behind' = behind,
             pc[p] # "forget" \/ \A d \in docs' : d.id # arg[p].id
      PROVE  StoreInv'
  BY <1>5
<1>6. CASE Add(p)
  BY <1>4, <1>6 DEF Add
<1>7. CASE AppendFails(p)
  <2>1. Superseding(p) \subseteq docs
    BY DEF Superseding
  <2>2. QED
    BY <1>4, <1>5, <1>7, <2>1 DEF AppendFails
<1>8. CASE ForgetDoc(p)
  BY <1>5, <1>8 DEF ForgetDoc
<1>9. CASE ForgetFails(p)
  <2>1. docs' \subseteq docs /\ pc'[p] = "idle" /\ behind'
    BY <1>9 DEF ForgetFails
  <2>2. QED
    BY <2>1
<1> HIDE DEF TypeOK, StoreInv, Filed, Cleared, Remembered, OnePerKey, Goto, Return, Call, Pass
<1>10. QED
  BY <1>1, <1>2, <1>3, <1>6, <1>7, <1>8, <1>9 DEF CallerStep

\* The invariant of the store and its types, for calls that do not overlap.
THEOREM StoreInvariant ==
  ASSUME OneCaller
  PROVE  Spec => [](TypeOK /\ StoreInv)
<1>1. Init => TypeOK /\ StoreInv
  <2> SUFFICES ASSUME Init PROVE TypeOK /\ StoreInv
    OBVIOUS
  <2>1. TypeOK
    BY DEF Init, TypeOK, Returned
  <2>2. StoreInv
    BY DEF Init, StoreInv, Filed, Cleared, Remembered, OnePerKey
  <2>3. QED
    BY <2>1, <2>2
<1>2. TypeOK /\ StoreInv /\ [Next]_vars => TypeOK' /\ StoreInv'
  <2> SUFFICES ASSUME TypeOK, StoreInv, [Next]_vars PROVE TypeOK' /\ StoreInv'
    OBVIOUS
  <2>1. TypeOK'
    BY StoreType DEF StoreInv
  <2>2. CASE \E p \in Callers : CallerStep(p)
    BY <2>1, <2>2, OneCaller, StoreCaller
  <2>3. CASE Restart
    BY <2>1, <2>3
    DEF Restart, StoreInv, Filed, Cleared, Remembered, OnePerKey, TypeOK
  <2>4. CASE UNCHANGED vars
    BY <2>1, <2>4 DEF vars, StoreInv, Filed, Cleared, Remembered, OnePerKey
  <2>5. QED
    BY <2>2, <2>3, <2>4, NextSplit
<1>3. QED
  BY <1>1, <1>2, PTL DEF Spec

\* Every recall interleaved with the store leaves it a ChromemStore.
THEOREM RecallImplementsStore == RecallSpec => Spec
<1>1. RecallInit => Init
  BY DEF RecallInit
<1>2. [RecallNext]_allvars => [Next]_vars
  BY DEF RecallNext, allvars, NewEmbedder, StoreStep, ExecuteKind, Execute, VectorFails,
         Embed, Count, Query, Keyword, Fuse
<1>3. QED
  BY <1>1, <1>2, PTL DEF RecallSpec, Spec

\* Append "REPLACES any prior Entry with the same (AgentID, Key) pair": as long
\* as calls do not overlap, no failed or repeated call, restart or recall leaves
\* two documents under one key.
THEOREM OnePerKeyAlways ==
  ASSUME OneCaller
  PROVE  RecallSpec => []OnePerKey
<1>1. StoreInv => OnePerKey
  BY DEF StoreInv
<1>2. QED
  BY <1>1, OneCaller, StoreInvariant, RecallImplementsStore, PTL

\* Re-Appending a content does not embed it again: as long as calls do not
\* overlap and every Forget worked, a text is embedded only when the collection
\* has no document for it.
THEOREM EmbedOnceAlways ==
  ASSUME OneCaller
  PROVE  RecallSpec => EmbedOnce
<1>1. TypeOK /\ StoreInv /\ [Next]_vars
        => [\A p \in Callers : Add(p) /\ ~behind => \A d \in docs : d.id # arg[p].id]_vars
  BY DEF StoreInv, Remembered, Add
<1>2. QED
  BY <1>1, OneCaller, StoreInvariant, RecallImplementsStore, PTL DEF Spec, EmbedOnce

-------------------------------------------------------------------------------
(* Rankings *)

\* The orders of a finite set.
LEMMA OrdersAre ==
  ASSUME NEW S, IsFiniteSet(S), NEW s \in SetToSeqs(S)
  PROVE  /\ s \in Seq(S) /\ Len(s) = Cardinality(S) /\ DOMAIN s = 1..Len(s) /\ Len(s) \in Nat
         /\ \A i, j \in DOMAIN s : s[i] = s[j] => i = j
         /\ \A x \in S : \E i \in DOMAIN s : s[i] = x
<1> DEFINE n == Cardinality(S)
<1>1. n \in Nat /\ IsFiniteSet(1..n) /\ Cardinality(1..n) = n
  <2>1. n \in Nat
    BY FS_CardinalityType
  <2>2. QED
    BY <2>1, FS_Interval
<1>2. s \in [1..n -> S] /\ \A i, j \in 1..n : i # j => s[i] # s[j]
  BY DEF SetToSeqs
<1> HIDE DEF n
<1>3. s \in Seq(S) /\ Len(s) = n /\ DOMAIN s = 1..n
  BY <1>1, <1>2
<1>4. s \in Surjection(1..n, S)
  <2>1. s \in Injection(1..n, S)
    BY <1>2, Fun_IsInj
  <2>2. QED
    BY <1>1, <2>1, FS_Injection DEF n
<1>5. \A x \in S : \E i \in 1..n : s[i] = x
  BY <1>4 DEF Surjection
<1>6. QED
  BY <1>1, <1>2, <1>3, <1>5 DEF n

\* A cut keeps the first n elements.
LEMMA CutIs ==
  ASSUME NEW S, NEW s \in Seq(S), NEW n \in Nat
  PROVE  /\ Cut(s, n) \in Seq(S)
         /\ Len(Cut(s, n)) = IF Len(s) > n THEN n ELSE Len(s)
         /\ DOMAIN Cut(s, n) = 1..Len(Cut(s, n))
         /\ \A i \in 1..Len(Cut(s, n)) : i \in DOMAIN s /\ Cut(s, n)[i] = s[i]
         /\ Len(s) <= n => Cut(s, n) = s
<1>1. CASE Len(s) > n
  <2>1. Cut(s, n) = SubSeq(s, 1, n)
    BY <1>1 DEF Cut
  <2>2. \A i \in 1..n : s[i] \in S
    BY <1>1
  <2>3. /\ SubSeq(s, 1, n) \in Seq(S) /\ Len(SubSeq(s, 1, n)) = n
        /\ \A i \in 1..n : SubSeq(s, 1, n)[i] = s[i]
    BY <2>2, SubSeqProperties
  <2>4. QED
    BY <1>1, <2>1, <2>3
<1>2. CASE ~(Len(s) > n)
  BY <1>2 DEF Cut
<1>3. QED
  BY <1>1, <1>2

\* What is picked from a sequence.
LEMMA PickedIs ==
  ASSUME NEW S, NEW s \in Seq(S), NEW P \in SUBSET (DOMAIN s)
  PROVE  /\ Picked(s, P) \in Seq(S)
         /\ Len(Picked(s, P)) = Cardinality(P) /\ Cardinality(P) <= Len(s)
         /\ DOMAIN Picked(s, P) = 1..Cardinality(P) /\ Cardinality(P) \in Nat
         /\ Ascending(P) \in [1..Cardinality(P) -> P]
         /\ \A x \in P : \E k \in 1..Cardinality(P) : Ascending(P)[k] = x
         /\ \A j, k \in 1..Cardinality(P) : j < k <=> Ascending(P)[j] < Ascending(P)[k]
         /\ \A k \in 1..Cardinality(P) : Picked(s, P)[k] = s[Ascending(P)[k]]
<1>1. Len(s) \in Nat /\ DOMAIN s = 1..Len(s) /\ P \in SUBSET Nat /\ P \in SUBSET (1..Len(s))
  OBVIOUS
<1>2. IsFiniteSet(1..Len(s)) /\ Cardinality(1..Len(s)) = Len(s)
  BY <1>1, FS_Interval
<1>3. IsFiniteSet(P) /\ Cardinality(P) <= Len(s)
  BY <1>1, <1>2, FS_Subset
<1>4. /\ Cardinality(P) \in Nat
      /\ Ascending(P) \in [1..Cardinality(P) -> P]
      /\ \A x \in P : \E k \in 1..Cardinality(P) : Ascending(P)[k] = x
      /\ \A j, k \in 1..Cardinality(P) : j < k <=> Ascending(P)[j] < Ascending(P)[k]
  BY <1>1, <1>3, AscendingEnumerates
<1>5. \A k \in 1..Cardinality(P) : s[Ascending(P)[k]] \in S
  BY <1>1, <1>4
<1>6. Picked(s, P) \in [1..Cardinality(P) -> S]
  BY <1>5 DEF Picked
<1>7. Picked(s, P) \in Seq(S) /\ Len(Picked(s, P)) = Cardinality(P)
  BY <1>4, <1>6
<1>8. \A k \in 1..Cardinality(P) : Picked(s, P)[k] = s[Ascending(P)[k]]
  BY DEF Picked
<1>9. DOMAIN Picked(s, P) = 1..Cardinality(P)
  BY DEF Picked
<1>10. QED
  BY <1>3, <1>4, <1>7, <1>8, <1>9

\* Parts of a ranking are rankings.
LEMMA RankingPart ==
  ASSUME NEW r, Ranking(r)
  PROVE  /\ \A n \in Nat : Ranking(Cut(r, n))
         /\ \A P \in SUBSET (DOMAIN r) : Ranking(Picked(r, P))
<1>1. ASSUME NEW n \in Nat
      PROVE  Ranking(Cut(r, n))
  BY CutIs DEF Ranking
<1>2. ASSUME NEW P \in SUBSET (DOMAIN r)
      PROVE  Ranking(Picked(r, P))
  <2> DEFINE at == Ascending(P)
             c == Cardinality(P)
             q == Picked(r, P)
  <2>1. /\ q \in Seq(Entry) /\ DOMAIN q = 1..c /\ c \in Nat /\ at \in [1..c -> P]
        /\ \A j, k \in 1..c : j < k <=> at[j] < at[k]
        /\ \A k \in 1..c : q[k] = r[at[k]]
    BY PickedIs DEF Ranking
  <2> HIDE DEF at, c, q
  <2>2. ASSUME NEW j \in 1..c, NEW k \in 1..c, q[j].id = q[k].id
        PROVE  j = k
    <3>1. at[j] = at[k]
      BY <2>1, <2>2 DEF Ranking
    <3>2. at[j] \in Nat /\ at[k] \in Nat
      BY <2>1 DEF Ranking
    <3>3. ~(j < k) /\ ~(k < j)
      BY <2>1, <3>1, <3>2
    <3>4. QED
      BY <2>1, <3>3
  <2>3. Ranking(q)
    BY <2>1, <2>2 DEF Ranking
  <2>4. QED
    BY <2>3 DEF q
<1>3. QED
  BY <1>1, <1>2

\* An order of documents is a ranking.
LEMMA OrderRanks ==
  ASSUME TypeOK, Collection, NEW D \in SUBSET docs, NEW s \in SetToSeqs(D)
  PROVE  Ranking(s)
<1>1. IsFiniteSet(D) /\ D \subseteq Entry
  BY FS_Subset DEF TypeOK, Collection
<1>2. s \in Seq(D) /\ \A i, j \in DOMAIN s : s[i] = s[j] => i = j
  BY <1>1, OrdersAre
<1>3. \A i \in DOMAIN s : s[i] \in D
  BY <1>2
<1>4. s \in Seq(Entry)
  BY <1>1, <1>2
<1>5. QED
  BY <1>2, <1>3, <1>4 DEF Ranking, Collection

-------------------------------------------------------------------------------
(* Reciprocal rank fusion *)

\* A score is a fraction.
Fraction == Nat \X (Nat \ {0})

\* Where a ranking has an entry.
LEMMA RankIs ==
  ASSUME NEW r \in Seq(Entry), NEW e
  PROVE  /\ In(r, e) => RankOf(r, e) \in DOMAIN r /\ r[RankOf(r, e)].id = e.id
         /\ In(r, e) => K + RankOf(r, e) - 1 \in Nat \ {0} /\ RankOf(r, e) \in Nat
<1>1. ASSUME In(r, e)
      PROVE  RankOf(r, e) \in DOMAIN r /\ r[RankOf(r, e)].id = e.id
  BY <1>1 DEF In, RankOf
<1>2. QED
  BY <1>1 DEF K

\* A product of numbers that are not zero.
LEMMA Products ==
  ASSUME NEW a \in Nat, NEW b \in Nat
  PROVE  a * b \in Nat /\ (a # 0 /\ b # 0 => a * b # 0)
OBVIOUS

\* A score stays a fraction, and grows with every ranking that has the entry.
LEMMA CountedIs ==
  ASSUME NEW x \in Fraction, NEW r \in Seq(Entry), NEW e
  PROVE  /\ Counted(x, r, e) \in Fraction
         /\ ~In(r, e) => Counted(x, r, e) = x
         /\ In(r, e) => LET d == K + RankOf(r, e) - 1
                        IN  /\ Counted(x, r, e)[1] = x[1] * d + x[2]
                            /\ Counted(x, r, e)[2] = x[2] * d
<1> DEFINE d == K + RankOf(r, e) - 1
<1>1. x[1] \in Nat /\ x[2] \in Nat /\ x[2] # 0
  BY DEF Fraction
<1>2. Counted(x, r, e) = IF In(r, e) THEN <<x[1] * d + x[2], x[2] * d>> ELSE x
  BY DEF Counted
<1>3. CASE ~In(r, e)
  BY <1>2, <1>3
<1>4. CASE In(r, e)
  <2>1. d \in Nat /\ d # 0
    BY <1>4, RankIs
  <2>2. Counted(x, r, e) = <<x[1] * d + x[2], x[2] * d>>
    BY <1>2, <1>4
  <2> HIDE DEF d
  <2>3. x[1] * d \in Nat /\ x[2] * d \in Nat /\ x[2] * d # 0
    BY <1>1, <2>1, Products
  <2>4. x[1] * d + x[2] \in Nat
    BY <1>1, <2>3
  <2>5. Counted(x, r, e) \in Fraction
    BY <2>2, <2>3, <2>4 DEF Fraction
  <2>6. QED
    BY <1>4, <2>2, <2>5 DEF d
<1>5. QED
  BY <1>3, <1>4

\* rrf goes over every ranking.
LEMMA ScoreRuns ==
  ASSUME NEW rs \in Seq(Seq(Entry)), NEW e
  PROVE  \E g \in [0..Len(rs) -> Fraction] :
           /\ g[0] = <<0, 1>>
           /\ \A n \in 1..Len(rs) : g[n] = Counted(g[n - 1], rs[n], e)
           /\ Score(rs, e) = g[Len(rs)]
<1> DEFINE m == Len(rs)
           step == [n \in 1..m |-> [x \in Fraction |-> Counted(x, rs[n], e)]]
           Runs(f) == f = [n \in 0..m |-> IF n = 0 THEN <<0, 1>> ELSE Counted(f[n - 1], rs[n], e)]
<1>1. m \in Nat /\ \A n \in 1..m : rs[n] \in Seq(Entry)
  OBVIOUS
<1>2. <<0, 1>> \in Fraction
  BY DEF Fraction
<1>3. step \in [1..m -> [Fraction -> Fraction]]
  BY <1>1, CountedIs
<1>4. PICK f \in [0..m -> Fraction] : Iteration(<<0, 1>>, step, m, f)
  <2> HIDE DEF step, m
  <2>1. QED
    BY <1>1, <1>2, <1>3, Iterates
<1> HIDE DEF m
<1>5. \A n \in 0..m : n # 0 => n \in 1..m /\ n - 1 \in 0..m
  BY <1>1
<1>6. \A n \in 0..m : n # 0 => step[n][f[n - 1]] = Counted(f[n - 1], rs[n], e)
  <2>1. \A n \in 0..m : n # 0 => f[n - 1] \in Fraction
    BY <1>5
  <2>2. QED
    BY <1>5, <2>1
<1> HIDE DEF step
<1>7. Runs(f)
  <2>1. f = [n \in 0..m |-> f[n]]
    OBVIOUS
  <2>2. \A n \in 0..m : f[n] = IF n = 0 THEN <<0, 1>> ELSE step[n][f[n - 1]]
    BY <1>4 DEF Iteration
  <2>3. \A n \in 0..m : f[n] = IF n = 0 THEN <<0, 1>> ELSE Counted(f[n - 1], rs[n], e)
    BY <1>6, <2>2
  <2>4. QED
    BY <2>1, <2>3
<1> DEFINE g == CHOOSE h : Runs(h)
<1>8. Runs(g)
  BY <1>7
<1>9. Score(rs, e) = g[m]
  BY DEF Score, m
<1> HIDE DEF g
<1>10. g[0] = <<0, 1>> /\ \A n \in 1..m : g[n] = Counted(g[n - 1], rs[n], e)
  <2>1. \A n \in 0..m : g[n] = IF n = 0 THEN <<0, 1>> ELSE Counted(g[n - 1], rs[n], e)
    BY <1>8
  <2>2. 0 \in 0..m /\ \A n \in 1..m : n \in 0..m /\ n # 0
    BY <1>1
  <2>3. QED
    BY <2>1, <2>2
<1>11. g \in [0..m -> Fraction]
  <2> DEFINE T == {n \in 0..m : g[n] \in Fraction}
  <2>1. 0 \in T
    <3>1. g[0] \in Fraction
      BY <1>2, <1>10, Zenon
    <3>2. QED
      BY <1>1, <3>1
  <2>2. ASSUME NEW n \in 1..m, n - 1 \in T
        PROVE  n \in T
    <3>1. n \in 0..m /\ g[n] = Counted(g[n - 1], rs[n], e) /\ g[n - 1] \in Fraction
      BY <1>1, <1>10, <2>2
    <3>2. QED
      BY <1>1, <3>1, CountedIs
  <2> HIDE DEF T
  <2>3. \A n \in 0..m : n \in T
    BY <1>1, <2>1, <2>2, CountsUp
  <2>4. \A n \in 0..m : g[n] \in Fraction
    BY <2>3 DEF T
  <2>5. g = [n \in 0..m |-> g[n]]
    BY <1>8
  <2>6. QED
    BY <2>4, <2>5
<1>12. QED
  BY <1>9, <1>10, <1>11 DEF m

\* Adding 1/c to the first of two fractions and 1/d, or nothing, to the second,
\* which is not greater.
LEMMA FractionsGrow ==
  ASSUME NEW a \in Nat, NEW a2 \in Nat \ {0}, NEW b \in Nat, NEW b2 \in Nat \ {0},
         a * b2 >= b * a2, NEW c \in Nat \ {0}
  PROVE  /\ (a * c + a2) * b2 > b * (a2 * c)
         /\ \A d \in Nat : c < d => (a * c + a2) * (b2 * d) > (b * d + b2) * (a2 * c)
<1> DEFINE p == a * b2
           q == b * a2
           r == a2 * b2
<1>1. p \in Nat /\ q \in Nat /\ r \in Nat /\ r > 0 /\ p >= q
  OBVIOUS
<1>2. (a * c + a2) * b2 = p * c + r /\ b * (a2 * c) = q * c
  OBVIOUS
<1>3. \A d \in Nat : /\ (a * c + a2) * (b2 * d) = p * (c * d) + r * d
                     /\ (b * d + b2) * (a2 * c) = q * (c * d) + r * c
  OBVIOUS
<1> HIDE DEF p, q, r
<1>4. \A k \in Nat : p * k >= q * k /\ p * k \in Nat /\ q * k \in Nat
  BY <1>1
<1>5. p * c + r > q * c
  BY <1>1, <1>4
<1>6. ASSUME NEW d \in Nat, c < d
      PROVE  p * (c * d) + r * d > q * (c * d) + r * c
  <2>1. c * d \in Nat
    OBVIOUS
  <2>2. p * (c * d) >= q * (c * d) /\ p * (c * d) \in Nat /\ q * (c * d) \in Nat
    BY <1>4, <2>1
  <2>3. r * d > r * c /\ r * d \in Nat /\ r * c \in Nat
    BY <1>1, <1>6
  <2>4. QED
    BY <2>2, <2>3
<1>7. QED
  BY <1>2, <1>3, <1>5, <1>6

\* An entry that every ranking with f has above f, and some ranking has f: its
\* score is higher.
LEMMA ScoreAbove ==
  ASSUME NEW rs \in Seq(Seq(Entry)), NEW e, NEW f,
         \A k \in DOMAIN rs : In(rs[k], f) => In(rs[k], e) /\ RankOf(rs[k], e) < RankOf(rs[k], f),
         \E k \in DOMAIN rs : In(rs[k], f)
  PROVE  Score(rs, e)[1] * Score(rs, f)[2] > Score(rs, f)[1] * Score(rs, e)[2]
<1> DEFINE m == Len(rs)
<1>1. m \in Nat /\ DOMAIN rs = 1..m /\ \A n \in 1..m : rs[n] \in Seq(Entry)
  OBVIOUS
<1>2. PICK g \in [0..m -> Fraction] :
        /\ g[0] = <<0, 1>>
        /\ \A n \in 1..m : g[n] = Counted(g[n - 1], rs[n], e)
        /\ Score(rs, e) = g[m]
  BY ScoreRuns
<1>3. PICK h \in [0..m -> Fraction] :
        /\ h[0] = <<0, 1>>
        /\ \A n \in 1..m : h[n] = Counted(h[n - 1], rs[n], f)
        /\ Score(rs, f) = h[m]
  BY ScoreRuns
<1> HIDE DEF m
<1>4. \A n \in 0..m : /\ g[n][1] \in Nat /\ g[n][2] \in Nat \ {0}
                      /\ h[n][1] \in Nat /\ h[n][2] \in Nat \ {0}
  BY DEF Fraction
<1>10. \A n \in 0..m : g[n][1] * h[n][2] \in Nat /\ h[n][1] * g[n][2] \in Nat
  BY <1>4, Products
<1> DEFINE AtLeast(n) == g[n][1] * h[n][2] >= h[n][1] * g[n][2]
           Above(n) == g[n][1] * h[n][2] > h[n][1] * g[n][2]
           T == {n \in 0..m : AtLeast(n) /\ ((\E k \in 1..n : In(rs[k], f)) => Above(n))}
<1>5. 0 \in T
  <2>1. /\ g[0][1] = 0 /\ g[0][2] = 1 /\ h[0][1] = 0 /\ h[0][2] = 1 /\ 0 \in 0..m
        /\ ~ \E k \in 1..0 : In(rs[k], f)
    BY <1>1, <1>2, <1>3
  <2>2. AtLeast(0)
    BY <2>1
  <2>3. QED
    BY <2>1, <2>2
<1>6. ASSUME NEW n \in 1..m, n - 1 \in T
      PROVE  n \in T
  <2>1. /\ n \in 0..m /\ n - 1 \in 0..m /\ rs[n] \in Seq(Entry)
        /\ AtLeast(n - 1) /\ ((\E k \in 1..n - 1 : In(rs[k], f)) => Above(n - 1))
        /\ \A k \in 1..n : k \in 1..n - 1 \/ k = n
    BY <1>1, <1>6
  <2> DEFINE x == g[n - 1]
             y == h[n - 1]
             c == K + RankOf(rs[n], e) - 1
             d == K + RankOf(rs[n], f) - 1
  <2>2. /\ x \in Fraction /\ y \in Fraction
        /\ x[1] \in Nat /\ x[2] \in Nat \ {0} /\ y[1] \in Nat /\ y[2] \in Nat \ {0}
        /\ x[1] * y[2] >= y[1] * x[2]
    BY <1>4, <2>1
  <2>3. /\ ~In(rs[n], e) => g[n] = x
        /\ In(rs[n], e) => g[n][1] = x[1] * c + x[2] /\ g[n][2] = x[2] * c
    BY <1>2, <2>1, <2>2, CountedIs
  <2>4. /\ ~In(rs[n], f) => h[n] = y
        /\ In(rs[n], f) => h[n][1] = y[1] * d + y[2] /\ h[n][2] = y[2] * d
    BY <1>3, <2>1, <2>2, CountedIs
  <2>5. /\ In(rs[n], e) => c \in Nat \ {0} /\ RankOf(rs[n], e) \in Nat
        /\ In(rs[n], f) => d \in Nat \ {0} /\ RankOf(rs[n], f) \in Nat
    BY <2>1, RankIs
  <2>6. In(rs[n], f) => In(rs[n], e) /\ RankOf(rs[n], e) < RankOf(rs[n], f)
    BY <1>1
  <2>7. In(rs[n], f) => c < d
    BY <2>5, <2>6 DEF K
  <2>8. (~In(rs[n], e) => Above(n - 1) = Above(n) /\ AtLeast(n))
    BY <2>1, <2>3, <2>4, <2>6
  <2> HIDE DEF x, y, c, d
  <2>9. CASE In(rs[n], f)
    <3>1. (x[1] * c + x[2]) * (y[2] * d) > (y[1] * d + y[2]) * (x[2] * c)
      BY <2>2, <2>5, <2>6, <2>7, <2>9, FractionsGrow
    <3>2. g[n][1] * h[n][2] > h[n][1] * g[n][2]
      BY <2>3, <2>4, <2>6, <2>9, <3>1
    <3>3. Above(n) /\ AtLeast(n)
      BY <1>10, <2>1, <3>2
    <3>4. QED
      BY <2>1, <3>3
  <2>10. CASE ~In(rs[n], f) /\ In(rs[n], e)
    <3>1. (x[1] * c + x[2]) * y[2] > y[1] * (x[2] * c)
      BY <2>2, <2>5, <2>10, FractionsGrow
    <3>2. g[n][1] * h[n][2] > h[n][1] * g[n][2]
      BY <2>3, <2>4, <2>10, <3>1
    <3>3. Above(n) /\ AtLeast(n)
      BY <1>10, <2>1, <3>2
    <3>4. QED
      BY <2>1, <3>3
  <2>11. CASE ~In(rs[n], f) /\ ~In(rs[n], e)
    BY <2>1, <2>8, <2>11
  <2>12. QED
    BY <2>9, <2>10, <2>11
<1> HIDE DEF T
<1>7. m \in T
  <2>1. \A n \in 1..m : n - 1 \in T => n \in T
    BY <1>6
  <2>2. \A n \in 0..m : n \in T
    BY <1>1, <1>5, <2>1, CountsUp
  <2>3. QED
    BY <1>1, <2>2
<1>8. Above(m)
  BY <1>1, <1>7 DEF T
<1>9. QED
  BY <1>2, <1>3, <1>8

\* The elements of a sequence are finitely many.
LEMMA ElementsFinite ==
  ASSUME NEW S, NEW s \in Seq(S)
  PROVE  IsFiniteSet(ToSet(s)) /\ ToSet(s) \subseteq S
<1>1. Len(s) \in Nat /\ DOMAIN s = 1..Len(s) /\ s \in [1..Len(s) -> S]
  OBVIOUS
<1>2. ToSet(s) \subseteq S /\ \A x \in ToSet(s) : \E i \in 1..Len(s) : s[i] = x
  BY <1>1 DEF ToSet
<1>3. IsFiniteSet(1..Len(s))
  BY <1>1, FS_Interval
<1>4. s \in [1..Len(s) -> ToSet(s)]
  BY <1>1 DEF ToSet
<1>5. s \in Surjection(1..Len(s), ToSet(s))
  BY <1>2, <1>4 DEF Surjection
<1>6. QED
  BY <1>2, <1>3, <1>5, FS_Surjection

\* The entries rrf ranks.
LEMMA CandidatesAre ==
  ASSUME NEW rs \in Seq(Seq(Entry))
  PROVE  /\ IsFiniteSet(Candidates(rs)) /\ Candidates(rs) \subseteq Entry
         /\ \A e \in Candidates(rs) : \E k \in DOMAIN rs : In(rs[k], e)
<1> DEFINE Sets == {ToSet(rs[k]) : k \in DOMAIN rs}
<1>1. Len(rs) \in Nat /\ DOMAIN rs = 1..Len(rs) /\ \A k \in DOMAIN rs : rs[k] \in Seq(Entry)
  OBVIOUS
<1>2. \A k \in DOMAIN rs : IsFiniteSet(ToSet(rs[k])) /\ ToSet(rs[k]) \subseteq Entry
  BY <1>1, ElementsFinite
<1>3. \A X \in Sets : IsFiniteSet(X) /\ X \subseteq Entry
  BY <1>2
<1>4. IsFiniteSet(Sets)
  <2> DEFINE f == [k \in 1..Len(rs) |-> ToSet(rs[k])]
  <2>1. f \in [1..Len(rs) -> Sets] /\ \A X \in Sets : \E k \in 1..Len(rs) : f[k] = X
    BY <1>1
  <2>2. f \in Surjection(1..Len(rs), Sets)
    <3> HIDE DEF f, Sets
    <3>1. QED
      BY <2>1 DEF Surjection
  <2>3. IsFiniteSet(1..Len(rs))
    BY <1>1, FS_Interval
  <2> HIDE DEF f, Sets
  <2>4. QED
    BY <2>2, <2>3, FS_Surjection
<1>5. IsFiniteSet(UNION Sets) /\ UNION Sets \subseteq Entry
  <2> HIDE DEF Sets
  <2>1. QED
    BY <1>3, <1>4, FS_UNION
<1>6. Candidates(rs) \subseteq UNION Sets
  BY DEF Candidates
<1>7. \A e \in Candidates(rs) : \E k \in DOMAIN rs : e \in ToSet(rs[k])
  BY DEF Candidates
<1>8. \A e, k : e \in ToSet(rs[k]) => In(rs[k], e)
  BY DEF ToSet, In
<1> HIDE DEF Sets
<1>9. IsFiniteSet(Candidates(rs)) /\ Candidates(rs) \subseteq Entry
  BY <1>5, <1>6, FS_Subset
<1>10. QED
  BY <1>7, <1>8, <1>9

\* What rrf sorts, in the order it sorts to.
FusedOrder(rs, s) ==
  /\ s \in SetToSeqs(Candidates(rs))
  /\ \A i, j \in DOMAIN s : i < j => ~Outranks(rs, s[j], s[i])

\* rrf sorts the candidates, no matter how it breaks ties, and cuts.
LEMMA FusedIs ==
  ASSUME NEW rs, NEW max, NEW a \in rrf(rs, max)
  PROVE  \E s : FusedOrder(rs, s) /\ a = Cut(s, max)
BY DEF rrf, Sorted, FusedOrder

\* An entry above f in every ranking that has f comes before f.
LEMMA FusedAbove ==
  ASSUME NEW rs \in Seq(Seq(Entry)), NEW s, FusedOrder(rs, s), NEW i \in DOMAIN s,
         NEW e \in Candidates(rs),
         \A k \in DOMAIN rs :
           In(rs[k], s[i]) => In(rs[k], e) /\ RankOf(rs[k], e) < RankOf(rs[k], s[i])
  PROVE  \E j \in 1..i - 1 : s[j] = e
<1>1. /\ s \in Seq(Candidates(rs)) /\ DOMAIN s = 1..Len(s) /\ Len(s) \in Nat
      /\ \E j \in DOMAIN s : s[j] = e
  <2>1. s \in SetToSeqs(Candidates(rs)) /\ IsFiniteSet(Candidates(rs))
    BY CandidatesAre DEF FusedOrder
  <2>2. QED
    BY <2>1, OrdersAre
<1>2. PICK j \in DOMAIN s : s[j] = e
  BY <1>1
<1>3. s[i] \in Candidates(rs)
  BY <1>1
<1>4. PICK k \in DOMAIN rs : In(rs[k], s[i])
  BY <1>3, CandidatesAre
<1>5. Score(rs, e)[1] * Score(rs, s[i])[2] > Score(rs, s[i])[1] * Score(rs, e)[2]
  BY <1>4, ScoreAbove
<1>6. Outranks(rs, e, s[i])
  BY <1>5 DEF Outranks
<1>7. ~(i < j)
  BY <1>2, <1>6 DEF FusedOrder
<1>8. j # i
  <2>1. k \in DOMAIN rs /\ rs[k] \in Seq(Entry)
    OBVIOUS
  <2>2. RankOf(rs[k], e) < RankOf(rs[k], s[i]) /\ RankOf(rs[k], e) \in Nat
    BY <1>4, <2>1, RankIs
  <2>3. RankOf(rs[k], e) # RankOf(rs[k], s[i])
    BY <2>2
  <2>4. QED
    BY <1>2, <2>3
<1>9. j \in 1..i - 1
  BY <1>1, <1>7, <1>8
<1>10. QED
  BY <1>2, <1>9

\* A strictly increasing function from 1..n to 1..n changes nothing.
LEMMA IncreasingIsIdentity ==
  ASSUME NEW n \in Nat, NEW f \in [1..n -> 1..n], \A i, j \in 1..n : i < j => f[i] < f[j]
  PROVE  \A i \in 1..n : f[i] = i
<1>1. \A i \in 1..n : f[i] \in Nat /\ f[i] >= 1 /\ f[i] <= n
  OBVIOUS
<1> DEFINE T == {k \in 0..n : k = 0 \/ f[k] >= k}
           U == {k \in 0..n : k = n \/ f[n - k] <= n - k}
<1>2. \A k \in 0..n : k \in T
  <2>1. 0 \in T
    OBVIOUS
  <2>2. ASSUME NEW k \in 1..n, k - 1 \in T
        PROVE  k \in T
    <3>1. CASE k = 1
      BY <1>1, <3>1
    <3>2. CASE k # 1
      <4>1. k - 1 \in 1..n /\ k - 1 < k /\ f[k - 1] >= k - 1
        BY <2>2, <3>2
      <4>2. f[k - 1] < f[k]
        BY <4>1
      <4>3. QED
        BY <1>1, <4>1, <4>2
    <3>3. QED
      BY <3>1, <3>2
  <2> HIDE DEF T
  <2>3. \A k \in 1..n : k - 1 \in T => k \in T
    BY <2>2
  <2>4. QED
    BY <2>1, <2>3, CountsUp
<1>3. \A k \in 0..n : k \in U
  <2>1. 0 \in U
    <3>1. CASE n = 0
      BY <3>1
    <3>2. CASE n # 0
      BY <1>1, <3>2
    <3>3. QED
      BY <3>1, <3>2
  <2>2. ASSUME NEW k \in 1..n, k - 1 \in U
        PROVE  k \in U
    <3>1. CASE k = n
      BY <3>1
    <3>2. CASE k # n
      <4>1. /\ n - k \in 1..n /\ n - (k - 1) \in 1..n /\ n - k < n - (k - 1)
            /\ f[n - (k - 1)] <= n - (k - 1)
        BY <2>2, <3>2
      <4>2. f[n - k] < f[n - (k - 1)]
        BY <4>1
      <4>3. f[n - k] <= n - k
        BY <1>1, <4>1, <4>2
      <4>4. QED
        BY <4>3
    <3>3. QED
      BY <3>1, <3>2
  <2> HIDE DEF U
  <2>3. \A k \in 1..n : k - 1 \in U => k \in U
    BY <2>2
  <2>4. QED
    BY <2>1, <2>3, CountsUp
<1>4. ASSUME NEW i \in 1..n
      PROVE  f[i] = i
  <2>1. i \in 0..n /\ n - i \in 0..n /\ n - (n - i) = i /\ n - i # n /\ i # 0
    OBVIOUS
  <2>2. i \in T /\ n - i \in U
    BY <1>2, <1>3, <2>1
  <2>3. f[i] >= i /\ f[i] <= i
    BY <2>1, <2>2
  <2>4. QED
    BY <1>1, <2>3
<1>5. QED
  BY <1>4

\* The fusion of one ranking is that ranking.
LEMMA FusedAlone ==
  ASSUME NEW r, Ranking(r), NEW s, FusedOrder(<<r>>, s)
  PROVE  s = r
<1> DEFINE rs == <<r>>
<1>1. r \in Seq(Entry) /\ \A i, j \in DOMAIN r : r[i].id = r[j].id => i = j
  BY DEF Ranking
<1>2. rs \in Seq(Seq(Entry)) /\ DOMAIN rs = {1} /\ rs[1] = r /\ \A k \in DOMAIN rs : rs[k] = r
  BY <1>1
<1>3. Candidates(rs) = ToSet(r)
  <2>1. \A x \in ToSet(r) : x \in ToSet(rs[1]) /\ \A j \in 1..1 - 1 : ~In(rs[j], x)
    BY <1>2
  <2>2. {ToSet(rs[k]) : k \in DOMAIN rs} = {ToSet(r)}
    BY <1>2
  <2>3. 1 \in DOMAIN rs
    BY <1>2
  <2> HIDE DEF rs
  <2>4. UNION {ToSet(rs[k]) : k \in DOMAIN rs} = ToSet(r)
    BY <2>2
  <2>5. QED
    BY <2>1, <2>3, <2>4 DEF Candidates
<1>4. FusedOrder(rs, s)
  OBVIOUS
<1> HIDE DEF rs
<1> DEFINE n == Len(r)
<1>5. n \in Nat /\ DOMAIN r = 1..n
  BY <1>1
<1>6. /\ s \in Seq(ToSet(r)) /\ DOMAIN s = 1..Len(s) /\ Len(s) \in Nat
      /\ \A i, j \in DOMAIN s : s[i] = s[j] => i = j
      /\ \A x \in ToSet(r) : \E j \in DOMAIN s : s[j] = x
  <2>1. s \in SetToSeqs(ToSet(r)) /\ IsFiniteSet(ToSet(r))
    BY <1>1, <1>3, <1>4, ElementsFinite DEF FusedOrder
  <2>2. QED
    BY <2>1, OrdersAre
<1>7. \A x : x \in ToSet(r) <=> \E i \in DOMAIN r : r[i] = x
  BY DEF ToSet
<1>8. \A i \in DOMAIN r : In(r, r[i]) /\ RankOf(r, r[i]) = i
  <2>1. ASSUME NEW i \in DOMAIN r
        PROVE  In(r, r[i]) /\ RankOf(r, r[i]) = i
    <3>1. In(r, r[i])
      BY DEF In
    <3>2. RankOf(r, r[i]) \in DOMAIN r /\ r[RankOf(r, r[i])].id = r[i].id
      BY <1>1, <3>1, RankIs
    <3>3. QED
      BY <1>1, <3>1, <3>2
  <2>2. QED
    BY <2>1
<1>9. Len(s) = n
  <2>1. IsFiniteSet(1..n) /\ Cardinality(1..n) = n
    BY <1>5, FS_Interval
  <2>2. r \in [1..n -> ToSet(r)] /\ \A i, j \in 1..n : r[i] = r[j] => i = j
    BY <1>1, <1>5, <1>7
  <2>3. r \in Injection(1..n, ToSet(r)) /\ r \in Surjection(1..n, ToSet(r))
    <3>1. r \in Surjection(1..n, ToSet(r))
      BY <1>5, <1>7, <2>2 DEF Surjection
    <3>2. r \in Injection(1..n, ToSet(r))
      BY <2>2, Fun_IsInj
    <3>3. QED
      BY <3>1, <3>2
  <2>4. Cardinality(ToSet(r)) = n
    BY <2>1, <2>3, FS_Surjection
  <2>5. s \in SetToSeqs(ToSet(r)) /\ IsFiniteSet(ToSet(r))
    BY <1>1, <1>3, <1>4, ElementsFinite DEF FusedOrder
  <2>6. Len(s) = Cardinality(ToSet(r))
    BY <2>5, OrdersAre
  <2>7. QED
    BY <2>4, <2>6
<1> DEFINE f == [i \in 1..n |-> RankOf(r, s[i])]
<1>10. \A i \in 1..n : s[i] \in ToSet(r) /\ f[i] \in 1..n /\ r[f[i]] = s[i]
  <2>1. ASSUME NEW i \in 1..n
        PROVE  s[i] \in ToSet(r) /\ f[i] \in 1..n /\ r[f[i]] = s[i]
    <3>1. s[i] \in ToSet(r)
      BY <1>6, <1>9
    <3>2. PICK j \in DOMAIN r : r[j] = s[i]
      BY <1>7, <3>1
    <3>3. RankOf(r, s[i]) = j
      BY <1>8, <3>2
    <3>4. QED
      BY <1>5, <3>1, <3>2, <3>3
  <2>2. QED
    BY <2>1
<1>11. f \in [1..n -> 1..n]
  BY <1>10
<1> HIDE DEF f, n
<1>12. \A i, j \in 1..n : i < j => f[i] < f[j]
  <2> SUFFICES ASSUME NEW i \in 1..n, NEW j \in 1..n, i < j, ~(f[i] < f[j])
               PROVE  FALSE
    OBVIOUS
  <2>1. f[i] # f[j]
    <3>1. s[i] # s[j]
      BY <1>5, <1>6, <1>9
    <3>2. QED
      BY <1>10, <3>1
  <2>2. f[j] < f[i]
    BY <1>5, <1>10, <2>1
  <2>3. RankOf(r, s[j]) < RankOf(r, s[i]) /\ In(r, s[j])
    BY <1>5, <1>8, <1>10, <2>2
  <2>4. PICK l \in 1..i - 1 : s[l] = s[j]
    <3>1. s[j] \in Candidates(rs) /\ i \in DOMAIN s
      BY <1>3, <1>6, <1>9, <1>10
    <3>2. \A k \in DOMAIN rs :
            In(rs[k], s[i]) => In(rs[k], s[j]) /\ RankOf(rs[k], s[j]) < RankOf(rs[k], s[i])
      BY <1>2, <2>3
    <3>3. QED
      BY <1>2, <1>4, <3>1, <3>2, FusedAbove
  <2>5. l = j
    BY <1>5, <1>6, <1>9, <2>4
  <2>6. QED
    BY <1>5, <2>5
<1>13. \A i \in 1..n : f[i] = i
  BY <1>5, <1>11, <1>12, IncreasingIsIdentity
<1>14. \A i \in 1..n : s[i] = r[i]
  BY <1>10, <1>13
<1>15. s \in Seq(Entry)
  BY <1>1, <1>6, ElementsFinite
<1>16. QED
  BY <1>1, <1>9, <1>14, <1>15, SeqEqual DEF n

-------------------------------------------------------------------------------
(* A recall *)

\* Whatever the calls do at the same time, the collection stays finite and has
\* one document per ID.
LEMMA CollectionStep ==
  ASSUME TypeOK, Filed, Collection, [Next]_vars
  PROVE  Filed' /\ Collection'
<1> USE DEF TypeOK, Filed, Goto, Return, Call, Pass
<1>1. ASSUME docs' \subseteq docs
      PROVE  Collection' /\ \A d \in docs' : d.key = d.id.key
  BY <1>1, FS_Subset DEF Collection
<1>2. ASSUME NEW p \in Callers, pc[p] # "idle", docs' = Added(p)
      PROVE  Collection' /\ \A d \in docs' : d.key = d.id.key
  <2> DEFINE kept == {d \in docs : d.id # arg[p].id}
  <2>1. IsFiniteSet(kept) /\ kept \subseteq docs
    <3>1. kept \subseteq docs
      OBVIOUS
    <3> HIDE DEF kept
    <3>2. QED
      BY <3>1, FS_Subset DEF Collection
  <2>2. docs' = kept \cup {arg[p]}
    BY <1>2 DEF Added
  <2>3. IsFiniteSet(docs')
    <3> HIDE DEF kept
    <3>1. QED
      BY <2>1, <2>2, FS_AddElement
  <2>4. \A d \in docs' : (d \in docs /\ d.id # arg[p].id) \/ d = arg[p]
    BY <2>2
  <2>5. QED
    BY <1>2, <2>3, <2>4 DEF Collection
<1>3. ASSUME NEW p \in Callers, CallerStep(p)
      PROVE  Filed' /\ Collection'
  <2>1. ASSUME NEW c \in Content, NEW tags \in SUBSET Tags, NEW t \in Times,
               AppendSeen(p, NewEntry(c, tags, t)) \/ AppendFirst(p, NewEntry(c, tags, t))
        PROVE  Filed' /\ Collection'
    <3> DEFINE e == NewEntry(c, tags, t)
    <3>1. e \in Entry /\ e.id = c /\ e.key = c.key
      BY NewEntryType
    <3>2. docs' = docs /\ (AppendSeen(p, e) \/ AppendFirst(p, e))
      BY <2>1 DEF AppendSeen, AppendFirst
    <3> HIDE DEF e
    <3>3. \A q \in Callers : pc'[q] # "idle" => arg'[q] \in Entry /\ arg'[q].key = arg'[q].id.key
      BY <3>1, <3>2 DEF AppendSeen, AppendFirst
    <3>4. QED
      BY <1>1, <3>2, <3>3
  <2>2. ASSUME NEW c \in Content, ForgetSeen(p, c)
        PROVE  Filed' /\ Collection'
    <3>1. PICK t \in Times : Pass(p, NewEntry(c, {}, t))
      BY <2>2 DEF ForgetSeen
    <3>2. NewEntry(c, {}, t) \in Entry /\ NewEntry(c, {}, t).key = NewEntry(c, {}, t).id.key
      BY NewEntryType
    <3>3. docs' = docs
      BY <2>2 DEF ForgetSeen
    <3>4. \A q \in Callers : pc'[q] # "idle" => arg'[q] \in Entry /\ arg'[q].key = arg'[q].id.key
      BY <2>2, <3>1, <3>2 DEF ForgetSeen
    <3>5. QED
      BY <1>1, <3>3, <3>4
  <2>3. ASSUME DeletePrior(p) \/ Add(p) \/ AppendFails(p) \/ ForgetDoc(p) \/ ForgetFails(p)
        PROVE  Filed' /\ Collection'
    <3>1. \A q \in Callers : pc'[q] # "idle" => arg'[q] \in Entry /\ arg'[q].key = arg'[q].id.key
      BY <2>3 DEF DeletePrior, Add, AppendFails, ForgetDoc, ForgetFails
    <3>2. docs' \subseteq docs \/ (pc[p] # "idle" /\ docs' = Added(p))
      BY <2>3 DEF DeletePrior, Add, AppendFails, ForgetDoc, ForgetFails, Superseding
    <3>3. QED
      BY <1>1, <1>2, <3>1, <3>2
  <2>4. QED
    BY <1>3, <2>1, <2>2, <2>3 DEF CallerStep
<1>4. CASE Restart
  <2>1. docs' = docs /\ \A q \in Callers : pc'[q] = "idle"
    BY <1>4 DEF Restart
  <2>2. QED
    BY <1>1, <2>1
<1>5. CASE UNCHANGED vars
  BY <1>5 DEF vars, Collection
<1> HIDE DEF TypeOK, Filed, Goto, Return, Call, Pass
<1>6. QED
  BY <1>3, <1>4, <1>5, NextSplit

\* SearchVector's answer is a ranking, no longer than it was asked to be.
LEMMA AdmittedRanks ==
  ASSUME TypeOK, Collection, NEW n \in Nat, NEW max \in Nat, NEW s \in QueryEmbedding(n)
  PROVE  Ranking(Admitted(s, max)) /\ Len(Admitted(s, max)) <= max
<1>1. PICK o \in SetToSeqs(docs) : s = Cut(o, n)
  BY DEF QueryEmbedding, Sorted
<1>2. Ranking(o)
  BY OrderRanks
<1>3. Ranking(s)
  BY <1>1, <1>2, RankingPart
<1> DEFINE P == {i \in DOMAIN s : InScope(s[i], AllKinds)}
           q == Picked(s, P)
           own == Cut(q, max)
           Q == {i \in DOMAIN own : Sim(own[i]) >= MinScore}
<1>4. P \in SUBSET (DOMAIN s)
  OBVIOUS
<1>5. Admitted(s, max) = Picked(own, Q)
  BY DEF Admitted
<1>6. Q \in SUBSET (DOMAIN own)
  OBVIOUS
<1> HIDE DEF P, Q
<1>7. Ranking(q)
  BY <1>3, <1>4, RankingPart
<1> HIDE DEF q
<1>8. Ranking(own) /\ Len(own) <= max /\ Len(own) \in Nat
  BY <1>7, RankingPart, CutIs DEF Ranking
<1> HIDE DEF own
<1>9. Ranking(Picked(own, Q)) /\ Len(Picked(own, Q)) <= Len(own) /\ Len(Picked(own, Q)) \in Nat
  <2>1. Ranking(Picked(own, Q))
    BY <1>6, <1>8, RankingPart
  <2>2. own \in Seq(Entry)
    BY <1>8 DEF Ranking
  <2>3. /\ Len(Picked(own, Q)) = Cardinality(Q) /\ Cardinality(Q) <= Len(own)
        /\ Cardinality(Q) \in Nat
    BY <1>6, <2>2, PickedIs
  <2>4. QED
    BY <2>1, <2>3
<1>10. QED
  BY <1>5, <1>8, <1>9

\* And so is SimpleRecaller's.
LEMMA SimpleRanks ==
  ASSUME TypeOK, Collection, NEW max \in Nat, NEW s \in SimpleRecall(max)
  PROVE  Ranking(s)
<1> DEFINE D == {d \in docs : InScope(d, AllKinds)}
<1>1. PICK o \in SetToSeqs(D) : s = Cut(o, max)
  BY DEF SimpleRecall, Sorted
<1>2. D \in SUBSET docs
  OBVIOUS
<1> HIDE DEF D
<1>3. Ranking(o)
  BY <1>2, OrderRanks
<1>4. QED
  BY <1>1, <1>3, RankingPart

\* The invariant of a recall.
RecallInv == TypeOK /\ Filed /\ Collection /\ RecallTypeOK /\ Progress

\* What a contributor's answer adds.
LEMMA ContributeStep ==
  ASSUME RecallTypeOK, Progress, rpc \in {"count", "query"}, NEW r, Ranking(r),
         ~req.hybrid => Len(r) <= req.max,
         Contribute(r), req' = req, failed' = failed, IsFiniteSet(counted')
  PROVE  RecallTypeOK' /\ Progress'
<1>1. req \in Request /\ req.hybrid \in BOOLEAN /\ rankings = <<>> /\ failed = {} /\ req.max > 0
  BY DEF RecallTypeOK, Progress, Request
<1>2. r \in Seq(Entry)
  BY DEF Ranking
<1>3. /\ rankings' = <<r>> /\ rankings' # <<>> /\ Len(rankings') = 1 /\ rankings'[1] = r
      /\ rankings' \in Seq(Seq(Entry)) /\ DOMAIN rankings' = {1}
  BY <1>1, <1>2 DEF Contribute
<1>4. rpc' = IF req.hybrid THEN "keyword" ELSE "fuse"
  BY DEF Contribute
<1>5. RecallTypeOK'
  <2>1. \A k \in DOMAIN rankings' : rankings'[k] = r
    BY <1>3
  <2>2. \A k \in DOMAIN rankings' : Ranking(rankings'[k])
    BY <2>1
  <2>3. Ranking(r)' <=> Ranking(r)
    BY DEF Ranking
  <2>4. rpc' \in {"idle", "embed", "count", "query", "keyword", "fuse", "done"}
    BY <1>4
  <2>5. QED
    BY <1>1, <1>3, <2>2, <2>4 DEF RecallTypeOK, Ranking
<1>6. failed' = {} /\ Contributors' # {}
  BY <1>1 DEF Contributors
<1>7. Progress'
  BY <1>1, <1>3, <1>4, <1>6 DEF Progress
<1>8. QED
  BY <1>5, <1>7

\* RecallTool.Execute, with and without a Kind.
LEMMA ExecuteStep ==
  ASSUME RecallTypeOK, Progress, NEW max \in 0..MaxCap + 1,
         \/ \E k \in AllKinds : ExecuteKind(max, k)
         \/ \E h \in Hints, hybrid \in BOOLEAN : Execute(h, max, hybrid)
  PROVE  RecallTypeOK' /\ Progress'
<1>1. CASE \E k \in AllKinds : ExecuteKind(max, k)
  <2>1. rpc = "idle" /\ rpc' = "done" /\ UNCHANGED <<req, counted, rankings, failed>>
    BY <1>1 DEF ExecuteKind
  <2>2. RecallTypeOK'
    BY <2>1 DEF RecallTypeOK, Ranking
  <2>3. Progress'
    BY <2>1 DEF Progress
  <2>4. QED
    BY <2>2, <2>3
<1>2. CASE \E h \in Hints, hybrid \in BOOLEAN : Execute(h, max, hybrid)
  <2>1. PICK h \in Hints, hybrid \in BOOLEAN : Execute(h, max, hybrid)
    BY <1>2
  <2>2. /\ rpc = "idle" /\ rpc' = "embed" /\ UNCHANGED <<counted, rankings, failed>>
        /\ req' = [req EXCEPT !.hint = h, !.max = Clamped(max), !.hybrid = hybrid]
    BY <2>1 DEF Execute
  <2>3. Clamped(max) \in Nat /\ Clamped(max) > 0
    BY VectorAssumption DEF Clamped
  <2>4. req \in Request
    BY DEF RecallTypeOK
  <2>5. req' \in Request /\ req'.max = Clamped(max)
    BY <2>2, <2>3, <2>4 DEF Request
  <2>6. RecallTypeOK'
    BY <2>2, <2>5 DEF RecallTypeOK, Ranking
  <2>7. Progress'
    BY <2>2, <2>3, <2>5 DEF Progress
  <2>8. QED
    BY <2>6, <2>7
<1>3. QED
  BY <1>1, <1>2

\* The vector recaller: it fails, embeds the hint, counts, or queries.
LEMMA VectorStep ==
  ASSUME TypeOK, Collection, RecallTypeOK, Progress, VectorFails \/ Embed \/ Count \/ Query
  PROVE  RecallTypeOK' /\ Progress'
<1>1. req \in Request /\ req.max \in Nat /\ req.hybrid \in BOOLEAN
  BY DEF RecallTypeOK, Request
<1>2. Fetch \in Nat /\ (~req.hybrid => Fetch = req.max)
  BY <1>1 DEF Fetch
<1>3. CASE VectorFails
  <2>1. /\ rpc \in {"embed", "query"} /\ failed' = failed \cup {"vector"}
        /\ rpc' = IF req.hybrid THEN "keyword" ELSE "fuse"
        /\ UNCHANGED <<req, counted, rankings, answer>>
    BY <1>3 DEF VectorFails
  <2>2. RecallTypeOK'
    BY <2>1 DEF RecallTypeOK, Ranking
  <2>3. rankings = <<>> /\ failed = {} /\ req.max > 0
    BY <2>1 DEF Progress
  <2>4. failed' = {"vector"} /\ (~req.hybrid => Contributors' = {"vector"})
    BY <2>1, <2>3 DEF Contributors
  <2>5. Progress'
    BY <1>1, <2>1, <2>3, <2>4 DEF Progress
  <2>6. QED
    BY <2>2, <2>5
<1>4. CASE Embed
  <2>1. PICK sim \in [Bodies -> Sims] : req' = [req EXCEPT !.sim = sim]
    BY <1>4 DEF Embed
  <2>2. rpc = "embed" /\ rpc' = "count" /\ UNCHANGED <<counted, rankings, failed, answer>>
    BY <1>4 DEF Embed
  <2>3. sim \in [Bodies -> Nat]
    BY VectorAssumption
  <2>4. req' \in Request /\ req'.max = req.max
    BY <1>1, <2>1, <2>3 DEF Request
  <2>5. RecallTypeOK'
    BY <2>2, <2>4 DEF RecallTypeOK, Ranking
  <2>6. Progress'
    BY <2>2, <2>4 DEF Progress
  <2>7. QED
    BY <2>5, <2>6
<1>5. CASE Count
  <2>1. rpc = "count" /\ IsFiniteSet(counted') /\ UNCHANGED <<req, failed, answer>>
    BY <1>5 DEF Count, Collection
  <2>2. CASE docs = {}
    <3>1. Contribute(<<>>)
      BY <1>5, <2>2 DEF Count
    <3>2. Ranking(<<>>) /\ Len(<<>>) = 0
      BY EmptySeq DEF Ranking
    <3>3. QED
      BY <1>1, <2>1, <3>1, <3>2, ContributeStep
  <2>3. CASE docs # {}
    <3>1. rpc' = "query" /\ rankings' = rankings
      BY <1>5, <2>3 DEF Count
    <3>2. RecallTypeOK'
      BY <2>1, <3>1 DEF RecallTypeOK, Ranking
    <3>3. Progress'
      BY <2>1, <3>1 DEF Progress
    <3>4. QED
      BY <3>2, <3>3
  <2>4. QED
    BY <2>2, <2>3
<1>6. CASE Query
  <2> DEFINE n == nResults(Fetch, Cardinality(counted))
  <2>1. rpc = "query" /\ UNCHANGED <<req, counted, failed, answer>>
    BY <1>6 DEF Query
  <2>5. IsFiniteSet(counted) /\ n \in Nat
    <3>1. IsFiniteSet(counted)
      BY DEF RecallTypeOK
    <3>2. Cardinality(counted) \in Nat
      BY <3>1, FS_CardinalityType
    <3>3. QED
      BY <1>2, <3>1, <3>2 DEF nResults
  <2>2. PICK s \in QueryEmbedding(n) : Contribute(Admitted(s, Fetch))
    BY <1>6 DEF Query
  <2>3. Ranking(Admitted(s, Fetch)) /\ Len(Admitted(s, Fetch)) <= Fetch
    <3> HIDE DEF n
    <3>1. QED
      BY <1>2, <2>2, <2>5, AdmittedRanks
  <2>4. QED
    BY <1>2, <2>1, <2>2, <2>3, <2>5, ContributeStep
<1>7. QED
  BY <1>3, <1>4, <1>5, <1>6

\* The keyword recaller.
LEMMA KeywordStep ==
  ASSUME TypeOK, Collection, RecallTypeOK, Progress, Keyword
  PROVE  RecallTypeOK' /\ Progress'
<1>1. /\ req \in Request /\ req.max \in Nat /\ rankings \in Seq(Seq(Entry)) /\ IsFiniteSet(counted)
      /\ \A k \in DOMAIN rankings : Ranking(rankings[k])
  BY DEF RecallTypeOK, Request
<1>2. /\ rpc = "keyword" /\ rpc' = "fuse" /\ UNCHANGED <<req, counted, answer>>
      /\ req.hybrid /\ req.max > 0 /\ failed = IF rankings = <<>> THEN {"vector"} ELSE {}
  BY DEF Keyword, Progress
<1>3. Contributors' = {"vector", "keyword"}
  BY <1>2 DEF Contributors
<1>4. CASE \E s \in SimpleRecall(Fetch) : rankings' = Append(rankings, s) /\ failed' = failed
  <2>1. PICK s \in SimpleRecall(Fetch) : rankings' = Append(rankings, s) /\ failed' = failed
    BY <1>4
  <2>2. Fetch \in Nat
    BY <1>1, <1>2 DEF Fetch
  <2>3. Ranking(s)
    BY <2>1, <2>2, SimpleRanks
  <2>4. s \in Seq(Entry)
    BY <2>3 DEF Ranking
  <2>5. /\ rankings' \in Seq(Seq(Entry)) /\ rankings' # <<>>
        /\ \A k \in DOMAIN rankings' : rankings'[k] = s
                                        \/ (k \in DOMAIN rankings /\ rankings'[k] = rankings[k])
    BY <1>1, <2>1, <2>4
  <2>6. \A k \in DOMAIN rankings' : Ranking(rankings'[k])
    BY <1>1, <2>3, <2>5
  <2>7. RecallTypeOK'
    BY <1>1, <1>2, <2>5, <2>6 DEF RecallTypeOK, Ranking
  <2>8. failed' # Contributors'
    BY <1>2, <1>3, <2>1
  <2>9. Progress'
    BY <1>2, <2>5, <2>8 DEF Progress
  <2>10. QED
    BY <2>7, <2>9
<1>5. CASE failed' = failed \cup {"keyword"} /\ rankings' = rankings
  <2>1. RecallTypeOK'
    BY <1>1, <1>2, <1>5 DEF RecallTypeOK, Ranking
  <2>2. rankings = <<>> <=> failed' = Contributors'
    BY <1>2, <1>3, <1>5
  <2>3. Progress'
    BY <1>2, <1>5, <2>2 DEF Progress
  <2>4. QED
    BY <2>1, <2>3
<1>6. QED
  BY <1>4, <1>5 DEF Keyword

\* The recaller returns.
LEMMA FuseStep ==
  ASSUME RecallTypeOK, Progress, Fuse
  PROVE  RecallTypeOK' /\ Progress'
<1>1. rpc = "fuse" /\ rpc' = "done" /\ UNCHANGED <<req, counted, rankings, failed>> /\ req.max > 0
  BY DEF Fuse, Progress
<1>2. RecallTypeOK'
  BY <1>1 DEF RecallTypeOK, Ranking
<1>3. /\ rankings = <<>> => answer' = Failure
      /\ rankings # <<>> => IF req.hybrid THEN answer' \in rrf(rankings, req.max)
                            ELSE answer' = rankings[1]
  BY DEF Fuse
<1>4. Contributors' = Contributors
  BY <1>1 DEF Contributors
<1>5. req.max # 0
  BY <1>1 DEF RecallTypeOK, Request
<1>6. Progress'
  BY <1>1, <1>3, <1>4, <1>5 DEF Progress
<1>7. QED
  BY <1>2, <1>6

\* Every step keeps the invariant, whatever the store does in between.
LEMMA RecallStep ==
  ASSUME RecallInv, [RecallNext]_allvars
  PROVE  RecallInv'
<1>1. TypeOK /\ Filed /\ Collection /\ RecallTypeOK /\ Progress
  BY DEF RecallInv
<1>2. ASSUME [Next]_vars
      PROVE  TypeOK' /\ Filed' /\ Collection'
  BY <1>1, <1>2, StoreType, CollectionStep
<1>3. ASSUME UNCHANGED rvars
      PROVE  RecallTypeOK' /\ Progress'
  <2>1. RecallTypeOK'
    BY <1>1, <1>3 DEF RecallTypeOK, Ranking, rvars
  <2>2. Contributors' = Contributors
    BY <1>3 DEF Contributors, rvars
  <2>3. Progress'
    BY <1>1, <1>3, <2>2 DEF Progress, rvars
  <2>4. QED
    BY <2>1, <2>3
<1>4. ASSUME UNCHANGED vars, RecallTypeOK' /\ Progress'
      PROVE  RecallInv'
  BY <1>2, <1>4 DEF RecallInv
<1>5. ASSUME NEW o \in Options, NewEmbedder(o)
      PROVE  RecallInv'
  BY <1>3, <1>4, <1>5 DEF NewEmbedder
<1>6. CASE StoreStep
  <2>1. [Next]_vars /\ UNCHANGED rvars
    BY <1>6 DEF StoreStep
  <2>2. QED
    BY <1>2, <1>3, <2>1 DEF RecallInv
<1>7. ASSUME NEW max \in 0..MaxCap + 1,
             \/ \E k \in AllKinds : ExecuteKind(max, k)
             \/ \E h \in Hints, hybrid \in BOOLEAN : Execute(h, max, hybrid)
      PROVE  RecallInv'
  <2>1. UNCHANGED vars
    BY <1>7 DEF ExecuteKind, Execute
  <2>2. RecallTypeOK' /\ Progress'
    BY <1>1, <1>7, ExecuteStep
  <2>3. QED
    BY <1>4, <2>1, <2>2
<1>8. CASE VectorFails \/ Embed \/ Count \/ Query
  <2>1. UNCHANGED vars
    BY <1>8 DEF VectorFails, Embed, Count, Query
  <2>2. QED
    BY <1>1, <1>4, <1>8, <2>1, VectorStep
<1>9. CASE Keyword
  <2>1. UNCHANGED vars
    BY <1>9 DEF Keyword
  <2>2. QED
    BY <1>1, <1>4, <1>9, <2>1, KeywordStep
<1>10. CASE Fuse
  <2>1. UNCHANGED vars
    BY <1>10 DEF Fuse
  <2>2. QED
    BY <1>1, <1>4, <1>10, <2>1, FuseStep
<1>11. CASE UNCHANGED allvars
  BY <1>3, <1>4, <1>11 DEF allvars
<1>12. QED
  BY <1>5, <1>6, <1>7, <1>8, <1>9, <1>10, <1>11 DEF RecallNext

\* The recallers, for any number of calls of the store at the same time.
THEOREM RecallInvariant == RecallSpec => []RecallInv
<1>1. RecallInit => RecallInv
  <2> SUFFICES ASSUME RecallInit
               PROVE  RecallInv
    OBVIOUS
  <2>1. TypeOK /\ Filed
    BY DEF RecallInit, Init, TypeOK, Filed, Returned
  <2>2. Collection
    BY FS_EmptySet DEF RecallInit, Init, Collection
  <2>3. /\ rpc = "idle" /\ req = NoRequest /\ counted = {} /\ rankings = <<>> /\ failed = {}
    BY DEF RecallInit
  <2>4. NoRequest \in Request /\ NoRequest.max = 0
    BY DEF NoRequest, Request
  <2>5. RecallTypeOK
    BY <2>3, <2>4, FS_EmptySet, EmptySeq DEF RecallTypeOK
  <2>6. Progress
    BY <2>3, <2>4 DEF Progress
  <2>7. QED
    BY <2>1, <2>2, <2>5, <2>6 DEF RecallInv
<1>2. RecallInv /\ [RecallNext]_allvars => RecallInv'
  BY RecallStep
<1>3. QED
  BY <1>1, <1>2, PTL DEF RecallSpec

\* A sequence of length one is its first element.
LEMMA OneElement ==
  ASSUME NEW S, NEW s \in Seq(S), Len(s) = 1
  PROVE  s # <<>> /\ s = <<s[1]>> /\ 1 \in DOMAIN s
<1>1. 1 \in DOMAIN s /\ s[1] \in S
  OBVIOUS
<1>2. s # <<>>
  OBVIOUS
<1>3. <<s[1]>> \in Seq(S) /\ Len(<<s[1]>>) = 1 /\ <<s[1]>>[1] = s[1]
  BY <1>1
<1>4. s = <<s[1]>>
  BY <1>3, SeqEqual
<1>5. QED
  BY <1>1, <1>2, <1>4

\* HybridRecaller "degrades gracefully": whatever fails and whatever the store
\* does in between, a recall errs only if no contributor answered, and the
\* fusion of one ranking is that ranking, cut to max.
THEOREM DegradesAlways == RecallSpec => []Degrades
<1>1. RecallInv => Degrades
  <2> SUFFICES ASSUME RecallInv, rpc = "done", req.max > 0
               PROVE  /\ (answer = Failure) = (failed = Contributors)
                      /\ Len(rankings) = 1 => answer = Cut(rankings[1], req.max)
    BY DEF Degrades, Contributors
  <2>1. /\ rankings = <<>> <=> failed = Contributors
        /\ rankings = <<>> => answer = Failure
        /\ rankings # <<>> => IF req.hybrid THEN answer \in rrf(rankings, req.max)
                              ELSE answer = rankings[1]
        /\ rankings # <<>> /\ ~req.hybrid => Len(rankings) = 1 /\ Len(rankings[1]) <= req.max
    BY DEF RecallInv, Progress
  <2>2. /\ req.max \in Nat /\ rankings \in Seq(Seq(Entry))
        /\ \A k \in DOMAIN rankings : Ranking(rankings[k])
    BY DEF RecallInv, RecallTypeOK, Request
  <2>3. ASSUME rankings # <<>>
        PROVE  answer \in Seq(Entry)
    <3>1. CASE req.hybrid
      <4>1. PICK s : FusedOrder(rankings, s) /\ answer = Cut(s, req.max)
        BY <2>1, <2>3, <3>1, FusedIs
      <4>2. IsFiniteSet(Candidates(rankings)) /\ Candidates(rankings) \subseteq Entry
        BY <2>2, CandidatesAre
      <4>3. s \in Seq(Candidates(rankings))
        BY <4>1, <4>2, OrdersAre DEF FusedOrder
      <4>4. s \in Seq(Entry)
        BY <4>2, <4>3
      <4>5. QED
        BY <2>2, <4>1, <4>4, CutIs
    <3>2. CASE ~req.hybrid
      <4>1. answer = rankings[1] /\ 1 \in DOMAIN rankings
        BY <2>1, <2>2, <2>3, <3>2
      <4>2. QED
        BY <2>2, <4>1
    <3>3. QED
      BY <3>1, <3>2
  <2>4. answer = Failure <=> failed = Contributors
    BY <2>1, <2>3, VectorAssumption
  <2>5. ASSUME Len(rankings) = 1
        PROVE  answer = Cut(rankings[1], req.max)
    <3> DEFINE r == rankings[1]
    <3>1. rankings # <<>> /\ rankings = <<r>> /\ 1 \in DOMAIN rankings
      BY <2>2, <2>5, OneElement
    <3>2. Ranking(r) /\ r \in Seq(Entry)
      BY <2>2, <3>1 DEF Ranking
    <3> HIDE DEF r
    <3>3. CASE req.hybrid
      <4>1. PICK s : FusedOrder(<<r>>, s) /\ answer = Cut(s, req.max)
        BY <2>1, <3>1, <3>3, FusedIs
      <4>2. s = r
        BY <3>2, <4>1, FusedAlone
      <4>3. QED
        BY <4>1, <4>2 DEF r
    <3>4. CASE ~req.hybrid
      <4>1. answer = r /\ Len(r) <= req.max
        BY <2>1, <3>1, <3>4 DEF r
      <4>2. Cut(r, req.max) = r
        BY <2>2, <3>2, <4>1, CutIs
      <4>3. QED
        BY <4>1, <4>2 DEF r
    <3>5. QED
      BY <3>3, <3>4
  <2>6. QED
    BY <2>4, <2>5
<1>2. QED
  BY <1>1, RecallInvariant, PTL

\* HybridRecaller's fusion is monotone, for any rankings: an entry that every
\* contributor which returned f has above f is in the answer, and before f.
THEOREM FusionMonotoneAlways == RecallSpec => []FusionMonotone
<1>1. RecallInv => FusionMonotone
  <2> SUFFICES ASSUME RecallInv, rpc = "done", rankings # <<>>, answer # Failure,
                      NEW i \in DOMAIN answer, NEW e \in Candidates(rankings),
                      \A k \in DOMAIN rankings :
                        In(rankings[k], answer[i]) =>
                          /\ In(rankings[k], e)
                          /\ RankOf(rankings[k], e) < RankOf(rankings[k], answer[i])
               PROVE  \E j \in 1..i - 1 : answer[j].id = e.id
    BY DEF FusionMonotone
  <2>1. /\ req.max \in Nat /\ rankings \in Seq(Seq(Entry))
        /\ \A k \in DOMAIN rankings : Ranking(rankings[k])
    BY DEF RecallInv, RecallTypeOK, Request
  <2>2. /\ IF req.hybrid THEN answer \in rrf(rankings, req.max) ELSE answer = rankings[1]
        /\ ~req.hybrid => Len(rankings) = 1
    BY <2>1 DEF RecallInv, Progress
  <2>3. CASE req.hybrid
    <3>1. PICK s : FusedOrder(rankings, s) /\ answer = Cut(s, req.max)
      BY <2>2, <2>3, FusedIs
    <3>2. s \in Seq(Candidates(rankings))
      <4>1. s \in SetToSeqs(Candidates(rankings)) /\ IsFiniteSet(Candidates(rankings))
        BY <2>1, <3>1, CandidatesAre DEF FusedOrder
      <4>2. QED
        BY <4>1, OrdersAre
    <3>3. /\ DOMAIN answer = 1..Len(answer) /\ Len(answer) \in Nat
          /\ \A j \in 1..Len(answer) : j \in DOMAIN s /\ answer[j] = s[j]
      BY <2>1, <3>1, <3>2, CutIs
    <3>4. i \in 1..Len(answer) /\ i \in DOMAIN s /\ answer[i] = s[i]
      BY <3>3
    <3>5. PICK j \in 1..i - 1 : s[j] = e
      BY <2>1, <3>1, <3>4, FusedAbove
    <3>6. j \in 1..Len(answer)
      BY <3>3, <3>4
    <3>7. QED
      BY <3>3, <3>5, <3>6
  <2>4. CASE ~req.hybrid
    <3>1. answer = rankings[1] /\ 1 \in DOMAIN rankings /\ Ranking(answer) /\ answer \in Seq(Entry)
      BY <2>1, <2>2, <2>4 DEF Ranking
    <3>2. In(answer, answer[i])
      BY DEF In
    <3>3. RankOf(answer, answer[i]) = i
      <4>1. /\ RankOf(answer, answer[i]) \in DOMAIN answer
            /\ answer[RankOf(answer, answer[i])].id = answer[i].id
        BY <3>1, <3>2, RankIs
      <4>2. QED
        BY <3>1, <4>1 DEF Ranking
    <3>4. In(answer, e) /\ RankOf(answer, e) < i
      BY <3>1, <3>2, <3>3
    <3>5. RankOf(answer, e) \in DOMAIN answer /\ answer[RankOf(answer, e)].id = e.id
      BY <3>1, <3>4, RankIs
    <3>6. RankOf(answer, e) \in 1..i - 1
      BY <3>1, <3>4, <3>5
    <3>7. QED
      BY <3>5, <3>6
  <2>5. QED
    BY <2>3, <2>4
<1>2. QED
  BY <1>1, RecallInvariant, PTL

------------------------------------------------------------------------------
(* SearchVector's headroom: counting the positions *)

\* The elements of a sequence without repetition that are at given positions are
\* as many as the positions.
LEMMA AsManyAsPositions ==
  ASSUME NEW S, NEW s \in Seq(S), \A i, j \in DOMAIN s : s[i] = s[j] => i = j,
         NEW P \in SUBSET (DOMAIN s), NEW D, D = {s[i] : i \in P}
  PROVE  IsFiniteSet(P) /\ Cardinality(P) \in Nat /\ IsFiniteSet(D) /\ Cardinality(D) = Cardinality(P)
<1>1. Len(s) \in Nat /\ DOMAIN s = 1..Len(s)
  OBVIOUS
<1>2. IsFiniteSet(1..Len(s))
  <2>1. 1 \in Int /\ Len(s) \in Int
    BY <1>1
  <2>2. QED
    BY <2>1, FS_Interval
<1>3. IsFiniteSet(P) /\ Cardinality(P) \in Nat
  BY <1>1, <1>2, FS_Subset, FS_CardinalityType
<1> DEFINE f == [i \in P |-> s[i]]
<1>4. f \in Surjection(P, D) /\ f \in Injection(P, D)
  BY DEF Surjection, Injection, IsInjective
<1>5. QED
  BY <1>3, <1>4, FS_Surjection

\* A set of numbers up to l that has with a number all smaller ones is a row.
LEMMA DownClosed ==
  ASSUME NEW l \in Nat, NEW X \in SUBSET (1..l),
         \A j \in 1..l, k \in X : j < k => j \in X
  PROVE  \E m \in 0..l : X = 1..m /\ Cardinality(X) = m
<1>1. CASE X = {}
  <2>1. X = 1..0 /\ Cardinality(X) = 0 /\ 0 \in 0..l
    BY <1>1, FS_EmptySet
  <2>2. QED
    BY <2>1
<1>2. CASE X # {}
  <2>1. X \in SUBSET (0..l)
    OBVIOUS
  <2>2. PICK m \in X : \A y \in X : y <= m
    BY <1>2, <2>1, GreatestNumber
  <2>3. m \in 1..l /\ X = 1..m
    <3>1. m \in 1..l
      OBVIOUS
    <3>2. \A y \in X : y \in 1..m
      BY <2>2
    <3>3. \A j \in 1..m : j \in 1..l /\ (j = m \/ j < m)
      BY <3>1
    <3>4. \A j \in 1..m : j \in X
      BY <3>3
    <3>5. QED
      BY <3>1, <3>2, <3>4
  <2>4. 1 \in Int /\ m \in Int /\ m >= 1
    BY <2>3
  <2>5. Cardinality(1..m) = IF 1 > m THEN 0 ELSE m - 1 + 1
    BY <2>4, FS_Interval
  <2>6. Cardinality(1..m) = m
    BY <2>4, <2>5
  <2>7. QED
    BY <2>3, <2>6
<1>3. QED
  BY <1>1, <1>2

\* What is asked of a contributor.
LEMMA FetchType ==
  ASSUME RecallTypeOK
  PROVE  Fetch \in Nat
BY DEF RecallTypeOK, Request, Fetch

\* The documents, the most similar first: what SearchVector takes of them.
LEMMA HeadroomStep ==
  ASSUME TypeOK, Collection, NEW max \in Nat, NEW n \in Nat,
         n = nResults(max, Cardinality(docs)), NEW r \in QueryEmbedding(n),
         NEW own, own = {d \in docs : InScope(d, AllKinds)},
         NEW relevant, relevant = Cardinality({d \in own : Sim(d) >= MinScore}),
         Cardinality(docs \ own) <= max, \A d \in docs : Sim(d) \in Nat
  PROVE  Len(Admitted(r, max)) = IF relevant < max THEN relevant ELSE max
<1>1. PICK s \in SetToSeqs(docs) :
        /\ r = Cut(s, n)
        /\ \A i, j \in DOMAIN s : i < j => ~(Sim(s[j]) > Sim(s[i]))
  BY DEF QueryEmbedding, Sorted
<1> DEFINE N == Cardinality(docs)
<1>2. IsFiniteSet(docs) /\ N \in Nat
  BY FS_CardinalityType DEF Collection
<1>3. /\ s \in Seq(docs) /\ Len(s) = N /\ DOMAIN s = 1..N
      /\ \A i, j \in 1..N : s[i] = s[j] => i = j
      /\ \A d \in docs : \E i \in 1..N : s[i] = d
      /\ \A i \in 1..N : s[i] \in docs
  BY <1>2, OrdersAre
<1>4. MinScore \in Nat /\ n = (IF N < max * 2 THEN N ELSE max * 2) /\ n <= N
  BY <1>2, VectorAssumption DEF nResults
<1> HIDE DEF N
<1>5. /\ r \in Seq(docs) /\ Len(r) = n /\ DOMAIN r = 1..n
      /\ \A i \in 1..n : r[i] = s[i] /\ i \in 1..N
  BY <1>1, <1>3, <1>4, CutIs
<1> DEFINE P == {i \in 1..N : s[i] \in own}
           Q == {i \in P : Sim(s[i]) >= MinScore}
           O == {i \in DOMAIN r : InScope(r[i], AllKinds)}
           at == Ascending(O)
           q == Picked(r, O)
           c == Cut(q, max)
           L == Len(c)
           X == {k \in DOMAIN c : Sim(c[k]) >= MinScore}
<1>6. O = {i \in 1..n : i \in P}
  BY <1>3, <1>5
<1>7. /\ q \in Seq(docs) /\ Len(q) = Cardinality(O) /\ DOMAIN q = 1..Cardinality(O)
      /\ Cardinality(O) \in Nat /\ at \in [1..Cardinality(O) -> O]
      /\ \A x \in O : \E k \in 1..Cardinality(O) : at[k] = x
      /\ \A j, k \in 1..Cardinality(O) : j < k <=> at[j] < at[k]
      /\ \A k \in 1..Cardinality(O) : q[k] = r[at[k]]
  <2>1. O \in SUBSET (DOMAIN r) /\ r \in Seq(docs)
    BY <1>5
  <2> HIDE DEF O
  <2>2. QED
    BY <2>1, PickedIs
<1>8. /\ c \in Seq(docs) /\ DOMAIN c = 1..L /\ L = (IF Cardinality(O) > max THEN max ELSE Cardinality(O))
      /\ \A k \in 1..L : c[k] = q[k] /\ k \in 1..Cardinality(O)
  <2>1. q \in Seq(docs)
    BY <1>7
  <2> HIDE DEF q, O
  <2>2. /\ c \in Seq(docs) /\ DOMAIN c = 1..L /\ L = (IF Len(q) > max THEN max ELSE Len(q))
        /\ \A k \in 1..L : k \in DOMAIN q /\ c[k] = q[k]
    BY <2>1, CutIs
  <2>3. QED
    BY <1>7, <2>2
<1>9. Len(Admitted(r, max)) = Cardinality(X)
  <2>1. Admitted(r, max) = Picked(c, X)
    BY DEF Admitted
  <2>2. X \in SUBSET (DOMAIN c)
    OBVIOUS
  <2> HIDE DEF X, c
  <2>3. c \in Seq(docs)
    BY <1>8
  <2>4. Len(Picked(c, X)) = Cardinality(X)
    BY <2>2, <2>3, PickedIs
  <2>5. QED
    BY <2>1, <2>4
<1>10. relevant = Cardinality(Q) /\ IsFiniteSet(Q) /\ Cardinality(Q) \in Nat
  <2> DEFINE D == {d \in own : Sim(d) >= MinScore}
  <2>1. D = {s[i] : i \in Q}
    BY <1>3
  <2>2. Q \in SUBSET (DOMAIN s)
    BY <1>3
  <2> HIDE DEF D, Q
  <2>3. QED
    BY <1>3, <2>1, <2>2, AsManyAsPositions DEF D
<1>11. L \in Nat /\ L <= max /\ L <= Cardinality(O)
  BY <1>7, <1>8
<1> HIDE DEF L, c, q, at
<1>12. ASSUME NEW k \in 1..L
       PROVE  /\ c[k] = s[at[k]] /\ at[k] \in O /\ at[k] \in P /\ at[k] \in 1..N
              /\ k \in X <=> at[k] \in Q
  <2>1. c[k] = q[k] /\ k \in 1..Cardinality(O)
    BY <1>8
  <2>2. q[k] = r[at[k]] /\ at[k] \in O
    BY <1>7, <2>1
  <2>3. at[k] \in 1..n /\ at[k] \in P
    BY <1>6, <2>2
  <2>4. c[k] = s[at[k]]
    BY <1>5, <2>1, <2>2, <2>3
  <2>5. k \in X <=> at[k] \in Q
    BY <1>8, <2>3, <2>4
  <2>6. QED
    BY <2>2, <2>3, <2>4, <2>5
<1>13. ASSUME NEW i \in P, NEW j \in Q, i < j
       PROVE  i \in Q
  <2>1. i \in 1..N /\ j \in 1..N /\ Sim(s[j]) >= MinScore
    OBVIOUS
  <2>2. ~(Sim(s[j]) > Sim(s[i])) /\ Sim(s[i]) \in Nat /\ Sim(s[j]) \in Nat
    BY <1>1, <1>3, <1>13, <2>1
  <2>3. Sim(s[i]) >= MinScore
    BY <1>4, <2>1, <2>2
  <2>4. QED
    BY <2>3
<1>14. X \in SUBSET (1..L)
  BY <1>8
<1>15. ASSUME NEW j \in 1..L, NEW k \in X, j < k
       PROVE  j \in X
  <2>1. k \in 1..L
    BY <1>14
  <2>2. at[j] < at[k]
    BY <1>7, <1>11, <1>15, <2>1
  <2>3. at[j] \in P /\ at[k] \in Q
    BY <1>12, <2>1
  <2>4. at[j] \in Q
    BY <1>13, <2>2, <2>3
  <2>5. QED
    BY <1>12, <2>4
<1> HIDE DEF X
<1>16. PICK m \in 0..L : X = 1..m /\ Cardinality(X) = m
  BY <1>11, <1>14, <1>15, DownClosed
<1> DEFINE A == {at[k] : k \in X}
<1>17. A \subseteq Q /\ Cardinality(A) = m
  <2>1. A \subseteq Q
    BY <1>12, <1>14
  <2>2. at \in Seq(O) /\ DOMAIN at = 1..Cardinality(O)
    BY <1>7
  <2>3. \A j, k \in DOMAIN at : at[j] = at[k] => j = k
    <3> SUFFICES ASSUME NEW j \in 1..Cardinality(O), NEW k \in 1..Cardinality(O), at[j] = at[k], j # k
                 PROVE  FALSE
      BY <2>2
    <3>1. j < k \/ k < j
      OBVIOUS
    <3>2. at[j] < at[k] \/ at[k] < at[j]
      BY <1>7, <3>1
    <3>3. at[j] \in Nat /\ at[k] \in Nat
      BY <1>6, <1>7
    <3>4. QED
      BY <3>2, <3>3
  <2>4. X \in SUBSET (DOMAIN at)
    <3>1. \A k \in 1..L : k \in 1..Cardinality(O)
      BY <1>7, <1>11
    <3>2. QED
      BY <1>14, <2>2, <3>1
  <2> HIDE DEF O
  <2>5. Cardinality(A) = Cardinality(X)
    <3> DEFINE f == [k \in X |-> at[k]]
    <3>1. \A j, k \in X : f[j] = f[k] => j = k
      BY <2>3, <2>4
    <3>2. f \in [X -> A] /\ \A x \in A : \E k \in X : f[k] = x
      OBVIOUS
    <3> HIDE DEF f, A
    <3>3. f \in Surjection(X, A) /\ f \in Injection(X, A)
      BY <3>1, <3>2 DEF Surjection, Injection, IsInjective
    <3>4. IsFiniteSet(X)
      <4>1. 1 \in Int /\ L \in Int
        BY <1>11
      <4>2. IsFiniteSet(1..L)
        BY <4>1, FS_Interval
      <4>3. QED
        BY <1>14, <4>2, FS_Subset
    <3>5. QED
      BY <3>3, <3>4, FS_Surjection
  <2>6. QED
    BY <1>16, <2>1, <2>5
<1> HIDE DEF A
<1>18. m <= Cardinality(Q)
  BY <1>10, <1>17, FS_Subset
<1>19. CASE m < L
  <2>1. at[m + 1] \in P /\ at[m + 1] \notin Q /\ m + 1 \in 1..L /\ m + 1 \in 1..Cardinality(O)
    <3>1. m + 1 \in 1..L /\ m + 1 \notin X
      BY <1>11, <1>16, <1>19
    <3>2. m + 1 \in 1..Cardinality(O)
      BY <1>7, <1>11, <3>1
    <3>3. QED
      BY <1>12, <3>1, <3>2
  <2>2. ASSUME NEW i \in Q
        PROVE  i \in A
    <3>1. i < at[m + 1] /\ at[m + 1] \in O /\ i \in P
      <4>1. i \in 1..N /\ at[m + 1] \in 1..N
        BY <2>1
      <4>2. ~(at[m + 1] < i) /\ at[m + 1] # i
        BY <1>13, <2>1, <2>2
      <4>3. QED
        BY <1>12, <2>1, <4>1, <4>2
    <3>2. i \in O
      BY <1>6, <3>1
    <3>3. PICK k \in 1..Cardinality(O) : at[k] = i
      BY <1>7, <3>2
    <3>4. k < m + 1
      BY <1>7, <2>1, <3>1, <3>3
    <3>5. k \in X
      BY <1>16, <3>4
    <3>6. QED
      BY <3>3, <3>5 DEF A
  <2>3. A = Q
    BY <1>17, <2>2
  <2>4. m = Cardinality(Q)
    BY <1>17, <2>3
  <2>5. QED
    BY <1>9, <1>10, <1>11, <1>16, <1>19, <2>4
<1>20. CASE m = L /\ L = max
  BY <1>9, <1>10, <1>16, <1>18, <1>20
<1>21. CASE m = L /\ L # max
  <2>1. L = Cardinality(O) /\ L < max
    BY <1>7, <1>8, <1>11, <1>21
  <2>2. IsFiniteSet(1..n) /\ Cardinality(1..n) = n /\ O \in SUBSET (1..n)
    <3>1. 1 \in Int /\ n \in Int
      OBVIOUS
    <3>2. IsFiniteSet(1..n) /\ Cardinality(1..n) = IF 1 > n THEN 0 ELSE n - 1 + 1
      BY <3>1, FS_Interval
    <3>3. QED
      BY <1>6, <3>1, <3>2
  <2>3. n = N
    <3> SUFFICES ASSUME n # N
                 PROVE  FALSE
      OBVIOUS
    <3>1. n = max * 2
      BY <1>4
    <3> DEFINE F == (1..n) \ O
    <3>2. Cardinality(F) = n - Cardinality(O)
      <4>1. (1..n) \cap O = O
        BY <2>2
      <4> HIDE DEF O
      <4>2. IsFiniteSet(1..n) => Cardinality((1..n) \ O) = Cardinality(1..n) - Cardinality((1..n) \cap O)
        BY FS_Difference, Zenon
      <4>3. QED
        BY <2>2, <4>1, <4>2
    <3> DEFINE E == {s[i] : i \in F}
    <3>3. F \in SUBSET (DOMAIN s)
      BY <1>3, <1>5
    <3>4. E \subseteq docs \ own
      BY <1>3, <1>5, <1>6
    <3> HIDE DEF F
    <3>5. Cardinality(E) = Cardinality(F)
      <4>1. s \in Seq(docs) /\ \A i, j \in DOMAIN s : s[i] = s[j] => i = j
        BY <1>3
      <4>2. QED
        BY <3>3, <4>1, AsManyAsPositions
    <3>6. IsFiniteSet(docs \ own) /\ Cardinality(docs \ own) \in Nat
      BY <1>2, FS_Subset, FS_CardinalityType
    <3> HIDE DEF E
    <3>7. Cardinality(E) <= Cardinality(docs \ own)
      BY <3>4, <3>6, FS_Subset
    <3>8. QED
      BY <1>7, <2>1, <3>1, <3>2, <3>5, <3>6, <3>7
  <2>4. Q \subseteq O
    BY <1>6, <2>3
  <2>5. Cardinality(Q) <= Cardinality(O)
    BY <2>2, <2>4, FS_Subset
  <2>6. m = Cardinality(Q)
    BY <1>7, <1>10, <1>16, <1>18, <1>21, <2>1, <2>5
  <2>7. QED
    BY <1>9, <1>10, <1>16, <1>21, <2>1, <2>6
<1>22. QED
  BY <1>11, <1>16, <1>19, <1>20, <1>21

\* The action HeadroomSuffices constrains.
HeadroomAction ==
  rpc = "query" /\ rankings # rankings' /\ docs = counted =>
    LET own      == {d \in docs : InScope(d, AllKinds)}
        relevant == Cardinality({d \in own : Sim(d) >= MinScore})
    IN  Cardinality(docs \ own) <= Fetch =>
          Len(rankings'[1]) = IF relevant < Fetch THEN relevant ELSE Fetch

\* SearchVector's overfetch is enough, for any collection, similarity and limit:
\* while no more documents of other agents are in the collection than asked for,
\* the agent's own relevant ones are found, up to the limit.
THEOREM HeadroomSufficesAlways == RecallSpec => HeadroomSuffices
<1>1. RecallInv /\ [RecallNext]_allvars => [HeadroomAction]_allvars
  <2> SUFFICES ASSUME RecallInv, RecallNext, rpc = "query", rankings # rankings', docs = counted,
                      NEW own, own = {d \in docs : InScope(d, AllKinds)},
                      NEW relevant, relevant = Cardinality({d \in own : Sim(d) >= MinScore}),
                      Cardinality(docs \ own) <= Fetch
               PROVE  Len(rankings'[1]) = IF relevant < Fetch THEN relevant ELSE Fetch
    BY DEF HeadroomAction
  <2>1. Query
    BY DEF RecallNext, NewEmbedder, StoreStep, Execute, ExecuteKind, VectorFails, Embed, Count,
           Keyword, Fuse, rvars
  <2>2. TypeOK /\ Collection /\ RecallTypeOK /\ rankings = <<>> /\ Fetch \in Nat
    BY FetchType DEF RecallInv, Progress
  <2> DEFINE n == nResults(Fetch, Cardinality(docs))
  <2>3. PICK s \in QueryEmbedding(n) : rankings' = Append(rankings, Admitted(s, Fetch))
    BY <2>1 DEF Query, Contribute
  <2>4. n \in Nat
    BY <2>2, FS_CardinalityType DEF nResults, Collection
  <2>5. \A d \in docs : Sim(d) \in Nat
    BY <2>2 DEF TypeOK, RecallTypeOK, Request, Sim, Entry, Content
  <2> HIDE DEF n
  <2>6. Len(Admitted(s, Fetch)) = IF relevant < Fetch THEN relevant ELSE Fetch
    BY <2>2, <2>4, <2>5, HeadroomStep DEF n
  <2>7. rankings'[1] = Admitted(s, Fetch)
    BY <2>2, <2>3
  <2>8. QED
    BY <2>6, <2>7
<1>2. QED
  BY <1>1, RecallInvariant, PTL DEF RecallSpec, HeadroomSuffices, HeadroomAction

------------------------------------------------------------------------------
(* The embedder: sequences put together *)

\* It makes no difference which two of three sequences are put together first.
LEMMA Associates ==
  \A S : \A a, b, c \in Seq(S) : (a \o b) \o c = a \o (b \o c)
BY ConcatAssociative

\* The sequences one after the other: f is what has been put together after each.
Together(S, ss, m, f) ==
  /\ f \in [1..m -> Seq(S)]
  /\ f[1] = ss[1]
  /\ \A i \in 2..m : f[i] = f[i - 1] \o ss[i]
  /\ FlattenSeq(ss) = f[m]

\* FlattenSeq puts them together.
LEMMA FlattenRuns ==
  ASSUME NEW S, NEW ss \in Seq(Seq(S)), NEW m, m = Len(ss), m > 0
  PROVE  \E f : Together(S, ss, m, f)
<1> DEFINE step == [n \in 1..m |-> [x \in Seq(S) |-> x \o ss[n]]]
           Runs(h) == h = [i \in 1..m |-> IF i = 1 THEN ss[i] ELSE h[i - 1] \o ss[i]]
<1>1. m \in Nat /\ m > 0 /\ \A n \in 1..m : ss[n] \in Seq(S)
  OBVIOUS
<1>2. step \in [1..m -> [Seq(S) -> Seq(S)]]
  BY <1>1, ConcatProperties
<1>3. PICK f \in [0..m -> Seq(S)] : Iteration(<<>>, step, m, f)
  <2>1. <<>> \in Seq(S)
    OBVIOUS
  <2> HIDE DEF step
  <2>2. QED
    BY <1>1, <1>2, <2>1, Iterates
<1>4. f[0] = <<>> /\ \A n \in 1..m : f[n] = f[n - 1] \o ss[n]
  <2>1. \A n \in 0..m : f[n] = IF n = 0 THEN <<>> ELSE step[n][f[n - 1]]
    BY <1>3 DEF Iteration
  <2>2. 0 \in 0..m /\ \A n \in 1..m : n \in 0..m /\ n # 0 /\ n - 1 \in 0..m
    BY <1>1
  <2>3. \A n \in 1..m : f[n - 1] \in Seq(S)
    BY <2>2
  <2>4. \A n \in 1..m : step[n][f[n - 1]] = f[n - 1] \o ss[n]
    BY <2>3
  <2> HIDE DEF step
  <2>5. QED
    BY <2>1, <2>2, <2>4
<1> HIDE DEF step
<1> DEFINE e == [i \in 1..m |-> f[i]]
<1>5. Runs(e)
  <2>1. ASSUME NEW i \in 1..m
        PROVE  e[i] = IF i = 1 THEN ss[i] ELSE e[i - 1] \o ss[i]
    <3>1. CASE i = 1
      <4>1. f[1] = f[0] \o ss[1] /\ ss[1] \in Seq(S) /\ 1 \in 1..m
        <5>1. 1 \in 1..m /\ 1 - 1 = 0
          BY <1>1
        <5>2. QED
          BY <1>1, <1>4, <5>1
      <4>2. f[1] = ss[1]
        BY <1>4, <4>1, ConcatEmptySeq
      <4>3. QED
        BY <3>1, <4>1, <4>2
    <3>2. CASE i # 1
      <4>1. i - 1 \in 1..m
        BY <1>1, <3>2
      <4>2. QED
        BY <1>4, <3>2, <4>1
    <3>3. QED
      BY <3>1, <3>2
  <2>2. e = [i \in 1..m |-> e[i]]
    OBVIOUS
  <2> HIDE DEF e
  <2>3. QED
    BY <2>1, <2>2
<1> DEFINE g == CHOOSE h : Runs(h)
<1>6. Runs(g)
  <2> HIDE DEF Runs
  <2>1. QED
    BY <1>5
<1>7. FlattenSeq(ss) = g[m]
  <2>1. Len(ss) # 0
    OBVIOUS
  <2>2. QED
    BY <2>1 DEF FlattenSeq
<1> HIDE DEF g
<1>8. \A i \in 1..m : g[i] = IF i = 1 THEN ss[i] ELSE g[i - 1] \o ss[i]
  BY <1>6
<1>9. \A i \in 1..m : g[i] \in Seq(S)
  <2> DEFINE T == {n \in 0..m : n = 0 \/ g[n] \in Seq(S)}
  <2>1. 0 \in T
    BY <1>1
  <2>2. ASSUME NEW n \in 1..m, n - 1 \in T
        PROVE  n \in T
    <3>1. n \in 0..m /\ ss[n] \in Seq(S)
      BY <1>1
    <3>2. CASE n = 1
      BY <1>8, <3>1, <3>2
    <3>3. CASE n # 1
      <4>1. n - 1 # 0
        BY <3>3
      <4>2. g[n - 1] \in Seq(S) /\ g[n] = g[n - 1] \o ss[n]
        BY <1>8, <2>2, <3>3, <4>1
      <4>3. g[n - 1] \o ss[n] \in Seq(S)
        BY <3>1, <4>2, ConcatProperties
      <4>4. QED
        BY <3>1, <4>2, <4>3
    <3>4. QED
      BY <3>2, <3>3
  <2> HIDE DEF T
  <2>3. \A n \in 1..m : n - 1 \in T => n \in T
    BY <2>2
  <2>4. \A n \in 0..m : n \in T
    BY <1>1, <2>1, <2>3, CountsUp
  <2>5. QED
    BY <1>1, <2>4 DEF T
<1>10. g \in [1..m -> Seq(S)]
  <2>1. g = [i \in 1..m |-> IF i = 1 THEN ss[i] ELSE g[i - 1] \o ss[i]]
    BY <1>6
  <2>2. DOMAIN g = 1..m /\ g = [i \in 1..m |-> g[i]]
    BY <2>1
  <2>3. QED
    BY <1>9, <2>2
<1>11. g[1] = ss[1] /\ \A i \in 2..m : g[i] = g[i - 1] \o ss[i]
  <2>1. 1 \in 1..m /\ \A i \in 2..m : i \in 1..m /\ i # 1
    BY <1>1
  <2>2. QED
    BY <1>8, <2>1
<1>12. QED
  BY <1>7, <1>10, <1>11 DEF Together

\* Nothing comes of nothing, and otherwise a sequence.
LEMMA FlattenIs ==
  ASSUME NEW S, NEW ss \in Seq(Seq(S))
  PROVE  FlattenSeq(ss) \in Seq(S) /\ (Len(ss) = 0 => FlattenSeq(ss) = <<>>)
<1>1. CASE Len(ss) = 0
  <2>1. ss = <<>>
    BY <1>1
  <2>2. FlattenSeq(ss) = ss
    BY <1>1 DEF FlattenSeq
  <2>3. <<>> \in Seq(S)
    OBVIOUS
  <2>4. QED
    BY <2>1, <2>2, <2>3
<1>2. CASE Len(ss) > 0
  <2> DEFINE m == Len(ss)
  <2>0. m = Len(ss) /\ m > 0
    BY <1>2
  <2> HIDE DEF m
  <2>1. PICK f : Together(S, ss, m, f)
    BY <2>0, FlattenRuns
  <2>2. Len(ss) \in 1..Len(ss)
    BY <1>2
  <2>3. QED
    BY <1>2, <2>0, <2>1, <2>2 DEF Together
<1>3. QED
  BY <1>1, <1>2

\* The first sequence in front.
LEMMA FlattenFirst ==
  ASSUME NEW S, NEW x \in Seq(S), NEW ss \in Seq(Seq(S))
  PROVE  FlattenSeq(<<x>> \o ss) = x \o FlattenSeq(ss)
<1> DEFINE m == Len(ss)
           tt == <<x>> \o ss
<1>1. m \in Nat /\ \A n \in 1..m : ss[n] \in Seq(S)
  OBVIOUS
<1>2. <<x>> \in Seq(Seq(S)) /\ Len(<<x>>) = 1 /\ <<x>>[1] = x
  OBVIOUS
<1>3. /\ tt \in Seq(Seq(S)) /\ Len(tt) = m + 1 /\ tt[1] = x
      /\ \A i \in 1..m : tt[i + 1] = ss[i]
  <2>1. /\ tt \in Seq(Seq(S)) /\ Len(tt) = 1 + m
        /\ \A i \in 1..1 + m : tt[i] = IF i <= 1 THEN <<x>>[i] ELSE ss[i - 1]
    BY <1>2, ConcatProperties
  <2> HIDE DEF tt, m
  <2>2. 1 \in 1..1 + m /\ 1 <= 1
    BY <1>1
  <2>3. tt[1] = x
    BY <1>2, <2>1, <2>2
  <2>4. \A i \in 1..m : i + 1 \in 1..1 + m /\ ~(i + 1 <= 1) /\ (i + 1) - 1 = i
    BY <1>1
  <2>5. \A i \in 1..m : tt[i + 1] = ss[i]
    BY <2>1, <2>4
  <2>6. QED
    BY <1>1, <2>1, <2>3, <2>5
<1> HIDE DEF m, tt
<1>4. PICK f \in [1..m + 1 -> Seq(S)] :
        /\ f[1] = x
        /\ \A i \in 2..m + 1 : f[i] = f[i - 1] \o tt[i]
        /\ FlattenSeq(tt) = f[m + 1]
  <2>1. m + 1 > 0 /\ m + 1 = Len(tt)
    BY <1>1, <1>3
  <2>2. PICK f : Together(S, tt, m + 1, f)
    BY <1>3, <2>1, FlattenRuns, Zenon
  <2>3. QED
    BY <1>3, <2>2 DEF Together
<1>5. CASE m = 0
  <2>1. FlattenSeq(ss) = <<>>
    BY <1>5, FlattenIs DEF m
  <2>2. FlattenSeq(tt) = x
    BY <1>4, <1>5
  <2>3. QED
    BY <2>1, <2>2, ConcatEmptySeq DEF tt
<1>6. CASE m # 0
  <2>1. PICK g \in [1..m -> Seq(S)] :
          /\ g[1] = ss[1]
          /\ \A i \in 2..m : g[i] = g[i - 1] \o ss[i]
          /\ FlattenSeq(ss) = g[m]
    <3>1. m > 0 /\ m = Len(ss)
      BY <1>1, <1>6 DEF m
    <3>2. PICK g : Together(S, ss, m, g)
      BY <3>1, FlattenRuns
    <3>3. QED
      BY <3>2 DEF Together
  <2> DEFINE T == {n \in 0..m : n = 0 \/ f[n + 1] = x \o g[n]}
  <2>2. 0 \in T
    BY <1>1
  <2>3. ASSUME NEW n \in 1..m, n - 1 \in T
        PROVE  n \in T
    <3>1. n \in 0..m /\ n + 1 \in 2..m + 1 /\ (n + 1) - 1 = n /\ n \in 1..m + 1
      BY <1>1
    <3>2. f[n + 1] = f[n] \o ss[n]
      BY <1>3, <1>4, <3>1
    <3>3. CASE n = 1
      <4>1. f[n + 1] = x \o g[n]
        BY <1>4, <2>1, <3>2, <3>3
      <4>2. QED
        BY <3>1, <4>1
    <3>4. CASE n # 1
      <4>1. n \in 2..m /\ n - 1 \in 1..m /\ (n - 1) + 1 = n /\ n - 1 # 0
        BY <1>1, <3>4
      <4>2. f[n] = x \o g[n - 1]
        BY <2>3, <4>1
      <4>3. g[n] = g[n - 1] \o ss[n] /\ g[n - 1] \in Seq(S) /\ ss[n] \in Seq(S)
        BY <1>1, <2>1, <4>1
      <4>4. (x \o g[n - 1]) \o ss[n] = x \o (g[n - 1] \o ss[n])
        <5> DEFINE b == g[n - 1]
                   c == ss[n]
        <5>1. x \in Seq(S) /\ b \in Seq(S) /\ c \in Seq(S)
          BY <4>3
        <5> HIDE DEF b, c
        <5>2. (x \o b) \o c = x \o (b \o c)
          BY <5>1, Associates
        <5>3. QED
          BY <5>2 DEF b, c
      <4>5. f[n + 1] = x \o g[n]
        BY <3>2, <4>2, <4>3, <4>4
      <4>6. QED
        BY <3>1, <4>5
    <3>5. QED
      BY <3>3, <3>4
  <2> HIDE DEF T
  <2>4. \A n \in 1..m : n - 1 \in T => n \in T
    BY <2>3
  <2>5. m \in T
    <3>1. \A n \in 0..m : n \in T
      BY <1>1, <2>2, <2>4, CountsUp
    <3>2. QED
      BY <1>1, <3>1
  <2>6. f[m + 1] = x \o g[m]
    BY <1>6, <2>5 DEF T
  <2>7. QED
    BY <1>4, <2>1, <2>6 DEF tt
<1>7. QED
  BY <1>5, <1>6

------------------------------------------------------------------------------
(* The embedder: the tokens of a word *)

\* Where a known piece that begins at s can end.
Ends(word, s) == {e \in s..Len(word) : Piece(word, s, e) \in Vocab}

\* The tokens of the word from s on, f being those from a later position on.
Tokens(word, s, f) ==
  IF s > Len(word) THEN <<>>
  ELSE IF Ends(word, s) = {} THEN <<UNK>>
  ELSE LET rest == f[Max(Ends(word, s)) + 1]
       IN  IF rest = <<UNK>> THEN rest
           ELSE <<Piece(word, s, Max(Ends(word, s)))>> \o rest

\* The longest known piece.
LEMMA LongestEnd ==
  ASSUME NEW word \in Seq(STRING), NEW s \in 1..Len(word) + 1, Ends(word, s) # {}
  PROVE  /\ Max(Ends(word, s)) \in s..Len(word)
         /\ Piece(word, s, Max(Ends(word, s))) \in Vocab
         /\ Max(Ends(word, s)) + 1 \in s + 1..Len(word) + 1
<1>1. Len(word) \in Nat
  OBVIOUS
<1>2. Ends(word, s) \in SUBSET (0..Len(word))
  BY <1>1 DEF Ends
<1>3. Max(Ends(word, s)) \in Ends(word, s)
  BY <1>1, <1>2, MinMaxIs
<1>4. /\ Max(Ends(word, s)) \in s..Len(word)
      /\ Piece(word, s, Max(Ends(word, s))) \in Vocab
  BY <1>3 DEF Ends
<1> DEFINE e == Max(Ends(word, s))
<1> HIDE DEF e
<1>5. e \in s..Len(word) => e + 1 \in s + 1..Len(word) + 1
  BY <1>1
<1>6. QED
  BY <1>4, <1>5 DEF e

\* What follows a position is all the tokens from there on depend on.
LEMMA TokensAgree ==
  ASSUME NEW word \in Seq(STRING), NEW s \in 1..Len(word) + 1, NEW f, NEW g,
         \A t \in s + 1..Len(word) + 1 : f[t] = g[t]
  PROVE  Tokens(word, s, f) = Tokens(word, s, g)
<1>1. CASE Ends(word, s) = {}
  BY <1>1 DEF Tokens
<1>2. CASE Ends(word, s) # {}
  <2>1. f[Max(Ends(word, s)) + 1] = g[Max(Ends(word, s)) + 1]
    BY <1>2, LongestEnd
  <2>2. QED
    BY <2>1 DEF Tokens
<1>3. QED
  BY <1>1, <1>2

\* wordPieceTokenize gets to the end of the word.
LEMMA TokenizeRuns ==
  ASSUME NEW word \in Seq(STRING), NEW n, n = Len(word)
  PROVE  \E f : /\ \A s \in 1..n + 1 : f[s] = Tokens(word, s, f)
                /\ wordPieceTokenize(word) = f[1]
<1> DEFINE Runs(k, f) == f = [s \in n + 1 - k..n + 1 |-> Tokens(word, s, f)]
           T == {k \in 0..n : \E f : Runs(k, f)}
<1>1. n \in Nat
  OBVIOUS
<1>2. 0 \in T
  <2> DEFINE e == [s \in n + 1 - 0..n + 1 |-> <<>>]
  <2>1. \A s \in n + 1 - 0..n + 1 : s > Len(word)
    BY <1>1
  <2>2. \A s \in n + 1 - 0..n + 1 : Tokens(word, s, e) = <<>>
    BY <2>1 DEF Tokens
  <2>3. Runs(0, e)
    BY <2>2
  <2>4. 0 \in 0..n
    BY <1>1
  <2> HIDE DEF Runs, e
  <2>5. QED
    BY <2>3, <2>4
<1>3. ASSUME NEW k \in 1..n, k - 1 \in T
      PROVE  k \in T
  <2>1. PICK f : Runs(k - 1, f)
    BY <1>3
  <2> DEFINE a == n + 1 - k
             g == [s \in a..n + 1 |-> IF s = a THEN Tokens(word, s, f) ELSE f[s]]
  <2>2. /\ a \in 1..n + 1 /\ n + 1 - (k - 1) = a + 1 /\ a \in Nat
        /\ \A s \in a..n + 1 : s \in 1..n + 1 /\ (s # a => s \in a + 1..n + 1)
        /\ \A s \in a..n + 1 : \A t \in s + 1..n + 1 : t \in a..n + 1 /\ t # a /\ t \in a + 1..n + 1
    BY <1>1
  <2>3. \A s \in a + 1..n + 1 : f[s] = Tokens(word, s, f)
    BY <2>1, <2>2
  <2> HIDE DEF a
  <2>4. \A s \in a..n + 1 : \A t \in s + 1..n + 1 : g[t] = f[t]
    BY <2>2
  <2>5. \A s \in a..n + 1 : Tokens(word, s, g) = Tokens(word, s, f)
    <3> HIDE DEF g
    <3> SUFFICES ASSUME NEW s \in a..n + 1
                 PROVE  Tokens(word, s, g) = Tokens(word, s, f)
      OBVIOUS
    <3>1. s \in 1..Len(word) + 1 /\ \A t \in s + 1..Len(word) + 1 : g[t] = f[t]
      BY <2>2, <2>4
    <3>2. QED
      BY <3>1, TokensAgree
  <2>6. \A s \in a..n + 1 : g[s] = Tokens(word, s, g)
    BY <2>2, <2>3, <2>5
  <2>7. g = [s \in a..n + 1 |-> g[s]]
    OBVIOUS
  <2> HIDE DEF g
  <2>8. Runs(k, g)
    BY <2>6, <2>7 DEF a
  <2>9. QED
    BY <1>1, <2>8
<1>4. n \in T
  <2> HIDE DEF T
  <2>1. \A k \in 1..n : k - 1 \in T => k \in T
    BY <1>3
  <2>2. \A k \in 0..n : k \in T
    BY <1>1, <1>2, <2>1, CountsUp
  <2>3. QED
    BY <1>1, <2>2
<1> DEFINE Whole(f) == f = [s \in 1..Len(word) + 1 |-> Tokens(word, s, f)]
           h == CHOOSE f : Whole(f)
<1>5. Whole(h)
  <2>1. PICK f : Runs(n, f)
    BY <1>4
  <2>2. n + 1 - n = 1
    BY <1>1
  <2>3. Whole(f)
    BY <2>1, <2>2
  <2> HIDE DEF Whole
  <2>4. QED
    BY <2>3
<1>6. wordPieceTokenize(word) = h[1]
  BY DEF wordPieceTokenize, Tokens, Ends
<1> HIDE DEF h
<1>7. \A s \in 1..n + 1 : h[s] = Tokens(word, s, h)
  BY <1>5
<1>8. QED
  BY <1>6, <1>7

\* What the pieces spell.
Spelt(ps) == FlattenSeq([i \in DOMAIN ps |-> ps[i].runes])

\* A piece in front spells its runes in front.
LEMMA SpeltFirst ==
  ASSUME NEW ps \in Seq(Vocab), NEW p \in Vocab
  PROVE  Spelt(<<p>> \o ps) = p.runes \o Spelt(ps)
<1> DEFINE rs == [i \in DOMAIN ps |-> ps[i].runes]
           qs == <<p>> \o ps
           ts == [i \in DOMAIN qs |-> qs[i].runes]
           m == Len(ps)
<1>1. p.runes \in Seq(STRING) /\ m \in Nat /\ DOMAIN ps = 1..m
      /\ \A i \in 1..m : ps[i].runes \in Seq(STRING)
  BY EmbedderAssumption
<1>2. rs \in Seq(Seq(STRING)) /\ Len(rs) = m /\ \A i \in 1..m : rs[i] = ps[i].runes
  BY <1>1
<1>3. <<p>> \in Seq(Vocab) /\ Len(<<p>>) = 1 /\ <<p>>[1] = p
  OBVIOUS
<1>4. /\ qs \in Seq(Vocab) /\ Len(qs) = 1 + m
      /\ \A i \in 1..1 + m : qs[i] = IF i <= 1 THEN <<p>>[i] ELSE ps[i - 1]
  BY <1>3, ConcatProperties
<1>5. DOMAIN qs = 1..1 + m /\ \A i \in 1..1 + m : qs[i].runes \in Seq(STRING)
  <2>1. \A i \in 1..1 + m : qs[i] \in Vocab
    BY <1>4
  <2>2. QED
    BY <1>4, <2>1, EmbedderAssumption
<1> HIDE DEF qs, m
<1>6. ts \in Seq(Seq(STRING)) /\ Len(ts) = 1 + m /\ \A i \in 1..1 + m : ts[i] = qs[i].runes
  BY <1>1, <1>5
<1> DEFINE us == <<p.runes>> \o rs
<1>7. /\ us \in Seq(Seq(STRING)) /\ Len(us) = 1 + m
      /\ \A i \in 1..1 + m : us[i] = IF i <= 1 THEN <<p.runes>>[i] ELSE rs[i - 1]
  <2>1. <<p.runes>> \in Seq(Seq(STRING)) /\ Len(<<p.runes>>) = 1
    BY <1>1
  <2> HIDE DEF rs
  <2>2. QED
    BY <1>2, <2>1, ConcatProperties
<1> HIDE DEF ts, rs, us
<1>8. \A i \in 1..1 + m : ts[i] = us[i]
  <2> SUFFICES ASSUME NEW i \in 1..1 + m
               PROVE  ts[i] = us[i]
    OBVIOUS
  <2>1. CASE i = 1
    BY <1>3, <1>4, <1>6, <1>7, <2>1
  <2>2. CASE i # 1
    <3>1. i - 1 \in 1..m /\ ~(i <= 1)
      BY <1>1, <2>2
    <3>2. QED
      BY <1>2, <1>4, <1>6, <1>7, <3>1
  <2>3. QED
    BY <2>1, <2>2
<1>9. ts = us
  BY <1>6, <1>7, <1>8, SeqEqual
<1>10. FlattenSeq(us) = p.runes \o FlattenSeq(rs)
  BY <1>1, <1>2, FlattenFirst DEF us
<1>11. QED
  BY <1>9, <1>10 DEF Spelt, ts, rs, qs

\* A word is said in full, or not known.
LEMMA SaidInFull ==
  ASSUME NEW word \in Seq(STRING)
  PROVE  LET ps == wordPieceTokenize(word)
         IN  \/ ps = <<UNK>>
             \/ ps \in Seq(Vocab) /\ Spelt(ps) = word
<1> DEFINE n == Len(word)
<1>1. n \in Nat /\ n = Len(word) /\ \A i \in 1..n : word[i] \in STRING
  OBVIOUS
<1> HIDE DEF n
<1>2. PICK f : /\ \A s \in 1..n + 1 : f[s] = Tokens(word, s, f)
               /\ wordPieceTokenize(word) = f[1]
  BY <1>1, TokenizeRuns
<1> DEFINE Good(s) == f[s] = <<UNK>> \/ (f[s] \in Seq(Vocab) /\ Spelt(f[s]) = SubSeq(word, s, n))
           T == {k \in 0..n : \A s \in n + 1 - k..n + 1 : Good(s)}
<1>3. 0 \in T
  <2>1. n + 1 \in 1..n + 1 /\ n + 1 > Len(word) /\ \A s \in n + 1 - 0..n + 1 : s = n + 1
    BY <1>1
  <2>2. f[n + 1] = <<>>
    BY <1>2, <2>1 DEF Tokens
  <2>3. SubSeq(word, n + 1, n) = <<>>
    BY <1>1, SubSeqEmpty
  <2>4. Spelt(<<>>) = <<>>
    <3> DEFINE rs == [i \in DOMAIN <<>> |-> <<>>[i].runes]
    <3>1. rs = <<>>
      OBVIOUS
    <3>2. FlattenSeq(<<>>) = <<>>
      BY DEF FlattenSeq
    <3>3. QED
      BY <3>1, <3>2 DEF Spelt
  <2>5. Good(n + 1)
    <3>1. <<>> \in Seq(Vocab)
      OBVIOUS
    <3>2. f[n + 1] \in Seq(Vocab)
      BY <2>2, <3>1
    <3>3. Spelt(f[n + 1]) = SubSeq(word, n + 1, n)
      BY <2>2, <2>3, <2>4
    <3>4. QED
      BY <3>2, <3>3
  <2> HIDE DEF Good
  <2>6. QED
    BY <1>1, <2>1, <2>5
<1>4. ASSUME NEW k \in 1..n, k - 1 \in T
      PROVE  k \in T
  <2> DEFINE a == n + 1 - k
             e == Max(Ends(word, a))
  <2>1. /\ a \in 1..n /\ a \in 1..n + 1 /\ n + 1 - (k - 1) = a + 1 /\ ~(a > Len(word))
        /\ \A s \in a..n + 1 : s = a \/ s \in a + 1..n + 1
    BY <1>1
  <2>2. \A s \in a + 1..n + 1 : Good(s)
    BY <1>4, <2>1
  <2> HIDE DEF a
  <2>3. Good(a)
    <3>1. CASE Ends(word, a) = {}
      BY <1>2, <2>1, <3>1 DEF Tokens
    <3>2. CASE Ends(word, a) # {}
      <4> DEFINE p == Piece(word, a, e)
                 rest == f[e + 1]
      <4>1. e \in a..n /\ p \in Vocab /\ e + 1 \in a + 1..n + 1
        BY <1>1, <2>1, <3>2, LongestEnd
      <4>2. Good(e + 1)
        BY <2>2, <4>1
      <4>3. f[a] = IF rest = <<UNK>> THEN rest ELSE <<p>> \o rest
        BY <1>2, <2>1, <3>2 DEF Tokens
      <4>4. CASE rest = <<UNK>>
        BY <4>3, <4>4
      <4>5. CASE rest # <<UNK>>
        <5>1. rest \in Seq(Vocab) /\ Spelt(rest) = SubSeq(word, e + 1, n)
          BY <4>2, <4>5
        <5>2. f[a] = <<p>> \o rest
          BY <4>3, <4>5
        <5>3. p.runes = SubSeq(word, a, e)
          BY DEF Piece
        <5> HIDE DEF e, p, rest
        <5>4. <<p>> \o rest \in Seq(Vocab)
          <6>1. <<p>> \in Seq(Vocab)
            BY <4>1
          <6>2. QED
            BY <5>1, <6>1, ConcatProperties
        <5>5. Spelt(f[a]) = p.runes \o Spelt(rest)
          BY <4>1, <5>1, <5>2, SpeltFirst
        <5>6. SubSeq(word, a, e) \o SubSeq(word, e + 1, n) = SubSeq(word, a, n)
          <6>1. a \in 1..Len(word) + 1 /\ e \in a - 1..Len(word) /\ n \in e..Len(word)
            BY <1>1, <2>1, <4>1
          <6>2. QED
            BY <6>1, ConcatAdjacentSubSeq
        <5>7. QED
          BY <5>1, <5>2, <5>3, <5>4, <5>5, <5>6
      <4>6. QED
        BY <4>4, <4>5
    <3>3. QED
      BY <3>1, <3>2
  <2> HIDE DEF Good
  <2>4. \A s \in a..n + 1 : Good(s)
    BY <2>1, <2>2, <2>3
  <2>5. k \in 0..n
    BY <1>1
  <2>6. QED
    BY <2>4, <2>5 DEF a
<1>5. Good(1)
  <2> HIDE DEF T
  <2>1. \A k \in 1..n : k - 1 \in T => k \in T
    BY <1>4
  <2>2. \A k \in 0..n : k \in T
    BY <1>1, <1>3, <2>1, CountsUp
  <2>3. n \in T /\ 1 \in n + 1 - n..n + 1
    BY <1>1, <2>2
  <2> HIDE DEF Good
  <2>4. QED
    BY <2>3 DEF T
<1>6. SubSeq(word, 1, n) = word
  BY <1>1, SubSeqFull
<1>7. QED
  BY <1>2, <1>5, <1>6

------------------------------------------------------------------------------
(* The embedder: what the network gets *)

Token == Vocab \cup {CLS, SEP, UNK, PAD}

\* What encode and encodeBatch make of a text: tokens that end in the only SEP,
\* none of them padding.
Sentence(s) ==
  /\ s \in Seq(Token) /\ Len(s) \in Nat /\ Len(s) >= 1
  /\ s[Len(s)] = SEP
  /\ \A i \in 1..Len(s) - 1 : s[i] # SEP
  /\ \A i \in 1..Len(s) : s[i] # PAD

\* The words of a text are pieces and UNK.
LEMMA WordTokens ==
  ASSUME NEW text \in Seq(Seq(STRING))
  PROVE  FlattenSeq([i \in DOMAIN text |-> wordPieceTokenize(text[i])]) \in Seq(Vocab \cup {UNK})
<1> DEFINE V == Vocab \cup {UNK}
           ws == [i \in DOMAIN text |-> wordPieceTokenize(text[i])]
           m == Len(text)
<1>1. m \in Nat /\ DOMAIN text = 1..m /\ \A i \in 1..m : text[i] \in Seq(STRING)
  OBVIOUS
<1>2. <<UNK>> \in Seq(V)
  OBVIOUS
<1>3. \A ps \in Seq(Vocab) : ps \in Seq(V)
  OBVIOUS
<1>4. \A i \in 1..m : wordPieceTokenize(text[i]) \in Seq(V)
  <2> SUFFICES ASSUME NEW i \in 1..m
               PROVE  wordPieceTokenize(text[i]) \in Seq(V)
    OBVIOUS
  <2>1. \/ wordPieceTokenize(text[i]) = <<UNK>>
        \/ wordPieceTokenize(text[i]) \in Seq(Vocab)
    BY <1>1, SaidInFull
  <2> HIDE DEF V
  <2>2. QED
    BY <1>2, <1>3, <2>1
<1> HIDE DEF V, m
<1>5. ws \in Seq(Seq(V))
  BY <1>1, <1>4
<1>6. FlattenSeq(ws) \in Seq(V)
  <2> HIDE DEF ws
  <2>1. QED
    BY <1>5, FlattenIs
<1>7. QED
  BY <1>6 DEF V

\* encode ends the text in its only SEP.
LEMMA EncodeIs ==
  ASSUME NEW text \in Seq(Seq(STRING))
  PROVE  Sentence(encode(text))
<1> DEFINE F == FlattenSeq([i \in DOMAIN text |-> wordPieceTokenize(text[i])])
           c == <<CLS>>
           z == <<SEP>>
           l == Len(F)
           s == (c \o F) \o z
<1>1. F \in Seq(Vocab \cup {UNK})
  BY WordTokens
<1>2. /\ CLS \in Token /\ CLS # SEP /\ CLS # PAD /\ SEP \in Token /\ SEP # PAD
      /\ \A t \in Vocab \cup {UNK} : t \in Token /\ t # SEP /\ t # PAD
  BY EmbedderAssumption DEF Token
<1>3. encode(text) = s
  BY DEF encode
<1> HIDE DEF F
<1>4. l \in Nat /\ F \in Seq(Token) /\ \A i \in 1..l : F[i] \in Vocab \cup {UNK}
  BY <1>1, <1>2
<1>5. /\ c \in Seq(Token) /\ Len(c) = 1 /\ c[1] = CLS
      /\ z \in Seq(Token) /\ Len(z) = 1 /\ z[1] = SEP
  BY <1>2
<1> HIDE DEF c, z, l
<1> DEFINE b == c \o F
<1>6. /\ b \in Seq(Token) /\ Len(b) = 1 + l
      /\ \A i \in 1..1 + l : b[i] = IF i <= 1 THEN c[i] ELSE F[i - 1]
  <2>1. /\ c \o F \in Seq(Token)
        /\ Len(c \o F) = Len(c) + Len(F)
        /\ \A i \in 1..Len(c) + Len(F) :
             (c \o F)[i] = IF i <= Len(c) THEN c[i] ELSE F[i - Len(c)]
    BY <1>4, <1>5, ConcatProperties, Zenon
  <2>2. QED
    BY <1>5, <2>1, Zenon DEF l
<1> HIDE DEF b
<1>7. /\ b \o z \in Seq(Token) /\ Len(b \o z) = (1 + l) + 1
      /\ \A i \in 1..(1 + l) + 1 : (b \o z)[i] = IF i <= 1 + l THEN b[i] ELSE z[i - (1 + l)]
  <2>1. /\ b \o z \in Seq(Token)
        /\ Len(b \o z) = Len(b) + Len(z)
        /\ \A i \in 1..Len(b) + Len(z) :
             (b \o z)[i] = IF i <= Len(b) THEN b[i] ELSE z[i - Len(b)]
    BY <1>5, <1>6, ConcatProperties, Zenon
  <2>2. QED
    BY <1>5, <1>6, <2>1, Zenon
<1> DEFINE t == b \o z
<1> HIDE DEF t
<1>8. /\ t \in Seq(Token) /\ Len(t) = l + 2
      /\ \A i \in 1..l + 1 : t[i] = b[i]
      /\ t[l + 2] = SEP
  <2>1. /\ l + 2 \in 1..(1 + l) + 1 /\ ~(l + 2 <= 1 + l) /\ (l + 2) - (1 + l) = 1
        /\ \A i \in 1..l + 1 : i \in 1..(1 + l) + 1 /\ i <= 1 + l
        /\ (1 + l) + 1 = l + 2
    BY <1>4
  <2>2. QED
    BY <1>5, <1>7, <2>1 DEF t
<1>9. \A i \in 1..l + 1 : b[i] # SEP /\ b[i] # PAD
  <2> SUFFICES ASSUME NEW i \in 1..l + 1
               PROVE  b[i] # SEP /\ b[i] # PAD
    OBVIOUS
  <2>1. CASE i = 1
    BY <1>2, <1>4, <1>5, <1>6, <2>1
  <2>2. CASE i # 1
    <3>1. i \in 1..1 + l /\ ~(i <= 1) /\ i - 1 \in 1..l
      BY <1>4, <2>2
    <3>2. QED
      BY <1>2, <1>4, <1>6, <3>1
  <2>3. QED
    BY <2>1, <2>2
<1>10. Sentence(t)
  <2>1. /\ l + 2 \in Nat /\ l + 2 >= 1
        /\ \A i \in 1..(l + 2) - 1 : i \in 1..l + 1
        /\ \A i \in 1..l + 2 : i = l + 2 \/ i \in 1..l + 1
    BY <1>4
  <2>2. \A i \in 1..(l + 2) - 1 : t[i] # SEP
    BY <1>8, <1>9, <2>1
  <2>3. \A i \in 1..l + 2 : t[i] # PAD
    BY <1>2, <1>8, <1>9, <2>1
  <2>4. QED
    BY <1>8, <2>1, <2>2, <2>3 DEF Sentence
<1>11. QED
  BY <1>3, <1>10 DEF t, b

\* Truncated fits and keeps the SEP at the end.
LEMMA TruncatedIs ==
  ASSUME NEW s, Sentence(s), NEW n \in Nat, n >= 1
  PROVE  /\ Sentence(Truncated(s, n))
         /\ Len(Truncated(s, n)) <= n
         /\ Len(s) <= n => Truncated(s, n) = s
<1>1. /\ s \in Seq(Token) /\ Len(s) \in Nat /\ Len(s) >= 1
      /\ \A i \in 1..Len(s) : s[i] # PAD /\ s[i] \in Token
      /\ \A i \in 1..Len(s) - 1 : s[i] # SEP
  BY DEF Sentence
<1>2. CASE Len(s) <= n
  <2>1. ~(Len(s) > n)
    BY <1>1, <1>2
  <2>2. Truncated(s, n) = s
    BY <2>1 DEF Truncated
  <2>3. QED
    BY <1>1, <1>2, <2>2
<1>3. CASE Len(s) > n
  <2> DEFINE u == SubSeq(s, 1, n)
             v == [u EXCEPT ![n] = SEP]
  <2>1. 1 \in Int /\ n \in Int /\ 1 <= n /\ n - 1 + 1 = n /\ \A i \in 1..n : i \in 1..Len(s) /\ 1 + i - 1 = i
    BY <1>1, <1>3
  <2>2. \A i \in 1..n : s[i] \in Token
    BY <1>1, <2>1
  <2>3. /\ u \in Seq(Token) /\ Len(u) = n /\ \A i \in 1..n : u[i] = s[i]
    BY <2>1, <2>2, SubSeqProperties
  <2>4. SEP \in Token /\ SEP # PAD /\ n \in 1..n
    BY <2>1, EmbedderAssumption DEF Token
  <2> HIDE DEF u
  <2>5. /\ v \in Seq(Token) /\ Len(v) = n
        /\ \A i \in 1..n : v[i] = IF i = n THEN SEP ELSE u[i]
    BY <2>3, <2>4, ExceptSeq
  <2>6. Truncated(s, n) = v
    BY <1>3 DEF Truncated, u
  <2> HIDE DEF v
  <2>7. \A i \in 1..n - 1 : i \in 1..n /\ i # n /\ i \in 1..Len(s) - 1
    BY <1>1, <1>3
  <2>8. \A i \in 1..n - 1 : v[i] # SEP
    BY <1>1, <2>3, <2>5, <2>7
  <2>9. \A i \in 1..n : v[i] # PAD
    BY <1>1, <2>1, <2>3, <2>4, <2>5
  <2>10. v[n] = SEP
    BY <2>4, <2>5
  <2>11. Sentence(v)
    BY <2>1, <2>5, <2>8, <2>9, <2>10 DEF Sentence
  <2>12. QED
    BY <1>3, <2>5, <2>6, <2>11
<1>4. QED
  BY <1>1, <1>2, <1>3

\* encodeBatch gives the network one run of real tokens that ends in the only
\* SEP, then padding, and the whole text when it fits.
LEMMA EncodeBatchIs ==
  ASSUME NEW text \in Seq(Seq(STRING)), NEW n \in Nat, n >= 1
  PROVE  LET code  == encodeBatch(text, n)
             real  == {i \in 1..n : code.mask[i] = 1}
             whole == encode(text)
         IN  /\ real = 1..Cardinality(real)
             /\ {i \in 1..n : code.ids[i] = SEP} = {Cardinality(real)}
             /\ \A i \in 1..n : (code.ids[i] = PAD) = (i \notin real)
             /\ Len(whole) <= n => SubSeq(code.ids, 1, Len(whole)) = whole
<1> DEFINE whole == encode(text)
           raw == Truncated(whole, n)
           l == Len(raw)
           code == encodeBatch(text, n)
           real == {i \in 1..n : code.mask[i] = 1}
<1>1. Sentence(whole)
  BY EncodeIs
<1>2. Sentence(raw) /\ l <= n /\ (Len(whole) <= n => raw = whole)
  <2> HIDE DEF whole
  <2>1. QED
    BY <1>1, TruncatedIs
<1>3. /\ l \in Nat /\ l >= 1 /\ raw[l] = SEP /\ raw \in Seq(Token)
      /\ \A i \in 1..l - 1 : raw[i] # SEP
      /\ \A i \in 1..l : raw[i] # PAD
  BY <1>2 DEF Sentence
<1>4. /\ \A i \in 1..n : code.mask[i] = IF i <= l THEN 1 ELSE 0
      /\ \A i \in 1..n : code.ids[i] = IF i <= l THEN raw[i] ELSE PAD
  BY DEF encodeBatch
<1> HIDE DEF code, raw, whole, l
<1>5. real = 1..l
  BY <1>2, <1>3, <1>4
<1>6. Cardinality(real) = l
  <2>1. 1 \in Int /\ l \in Int /\ ~(1 > l) /\ l - 1 + 1 = l
    BY <1>3
  <2>2. Cardinality(1..l) = l
    BY <2>1, FS_Interval
  <2> HIDE DEF real
  <2>3. QED
    BY <1>5, <2>2
<1> HIDE DEF real
<1>7. SEP # PAD
  BY EmbedderAssumption
<1>8. {i \in 1..n : code.ids[i] = SEP} = {l}
  <2>1. ASSUME NEW i \in 1..n
        PROVE  code.ids[i] = SEP <=> i = l
    <3>1. CASE i = l
      BY <1>3, <1>4, <3>1
    <3>2. CASE i < l
      <4>1. i \in 1..l - 1 /\ i <= l
        BY <1>3, <3>2
      <4>2. QED
        BY <1>3, <1>4, <3>2, <4>1
    <3>3. CASE i > l
      <4>1. ~(i <= l) /\ i # l
        BY <1>3, <3>3
      <4>2. QED
        BY <1>4, <1>7, <4>1
    <3>4. QED
      BY <1>3, <3>1, <3>2, <3>3
  <2>2. l \in 1..n
    BY <1>2, <1>3
  <2>3. QED
    BY <2>1, <2>2
<1>9. \A i \in 1..n : code.ids[i] = PAD <=> i \notin real
  <2> SUFFICES ASSUME NEW i \in 1..n
               PROVE  code.ids[i] = PAD <=> i \notin real
    OBVIOUS
  <2>1. i \in 1..l <=> i <= l
    BY <1>3
  <2>2. QED
    BY <1>3, <1>4, <1>5, <2>1
<1>10. ASSUME Len(whole) <= n
       PROVE  SubSeq(code.ids, 1, Len(whole)) = whole
  <2>1. raw = whole /\ l = Len(whole)
    BY <1>2, <1>10 DEF l
  <2>2. /\ 1 \in Int /\ l \in Int /\ 1 <= l /\ l - 1 + 1 = l
        /\ \A i \in 1..l : i \in 1..n /\ i <= l /\ 1 + i - 1 = i
    BY <1>2, <1>3
  <2>3. \A i \in 1..l : code.ids[i] = whole[i] /\ whole[i] \in Token
    <3>1. \A i \in 1..l : whole[i] \in Token
      BY <1>3, <2>1
    <3>2. QED
      BY <1>4, <2>1, <2>2, <3>1
  <2> DEFINE ids == code.ids
             u == SubSeq(ids, 1, l)
  <2>4. \A i \in 1..l : ids[i] = whole[i] /\ ids[i] \in Token
    BY <2>3
  <2> HIDE DEF ids
  <2>5. u \in Seq(Token) /\ Len(u) = l /\ \A i \in 1..l : u[i] = ids[i]
    BY <2>2, <2>4, SubSeqProperties
  <2> HIDE DEF u
  <2>6. whole \in Seq(Token)
    BY <1>3, <2>1
  <2>7. u = whole
    BY <2>1, <2>4, <2>5, <2>6, SeqEqual
  <2>8. QED
    BY <2>1, <2>7 DEF u, ids
<1>11. QED
  BY <1>5, <1>6, <1>8, <1>9, <1>10 DEF code, real, whole

\* A resolved shape is one with positions.
LEMMA ResolvedIs ==
  ASSUME NEW o \in Options, resolveModelOptions(o) # Failed
  PROVE  resolveModelOptions(o) \in Shape /\ resolveModelOptions(o).seqLen > 0
<1>1. /\ o.model \in Shape \cup {Unset} /\ o.modelID \in Shape \cup {Unset}
      /\ o.dim \in Int /\ o.seqLen \in Int
  BY VectorAssumption
<1>2. \A c \in Shape : parseModelConfig(c) # Failed =>
        parseModelConfig(c) \in Shape /\ parseModelConfig(c).seqLen > 0
  BY DEF parseModelConfig
<1>3. CASE o.model # Unset
  BY <1>1, <1>2, <1>3 DEF resolveModelOptions
<1>4. CASE o.model = Unset /\ o.modelID = Unset
  BY <1>4, EmbedderAssumption DEF resolveModelOptions
<1>5. CASE o.model = Unset /\ o.modelID # Unset /\ o.dim > 0 /\ o.seqLen > 0
  <2>1. resolveModelOptions(o) = [dim |-> o.dim, seqLen |-> o.seqLen]
    BY <1>5 DEF resolveModelOptions
  <2>2. QED
    BY <1>1, <1>5, <2>1 DEF Shape
<1>6. CASE o.model = Unset /\ o.modelID # Unset /\ ~(o.dim > 0 /\ o.seqLen > 0)
  BY <1>1, <1>2, <1>6 DEF resolveModelOptions
<1>7. QED
  BY <1>3, <1>4, <1>5, <1>6

\* NewEmbedder: whatever Options the host passes, a recall embeds with a shape
\* that has at least one position.
THEOREM ShapeAlways == RecallSpec => []ShapeInv
<1>1. RecallInit => ShapeInv
  BY DEF RecallInit, ShapeInv
<1>2. ShapeInv /\ [RecallNext]_allvars => ShapeInv'
  <2> SUFFICES ASSUME ShapeInv, [RecallNext]_allvars
               PROVE  ShapeInv'
    OBVIOUS
  <2>1. ASSUME NEW o \in Options, NewEmbedder(o)
        PROVE  ShapeInv'
    <3>1. shape' \in Shape /\ shape'.seqLen > 0
      BY <2>1, ResolvedIs DEF NewEmbedder
    <3>2. rpc' = rpc /\ shape' # Unset
      BY <2>1, <3>1, EmbedderAssumption DEF NewEmbedder, rvars
    <3>3. QED
      BY <3>1, <3>2 DEF ShapeInv
  <2>2. ASSUME shape' = shape, rpc' # "embed" \/ rpc' = rpc \/ shape # Unset
        PROVE  ShapeInv'
    BY <2>2 DEF ShapeInv
  <2>3. ASSUME RecallNext, ~\E o \in Options : NewEmbedder(o)
        PROVE  shape' = shape /\ (rpc' # "embed" \/ rpc' = rpc \/ shape # Unset)
    <3>1. CASE StoreStep
      BY <3>1 DEF StoreStep, rvars
    <3>2. ASSUME NEW max \in 0..MaxCap + 1, NEW k \in AllKinds, ExecuteKind(max, k)
          PROVE  shape' = shape /\ shape # Unset
      BY <3>2 DEF ExecuteKind
    <3>3. ASSUME NEW max \in 0..MaxCap + 1, NEW h \in Hints, NEW hybrid \in BOOLEAN,
                 Execute(h, max, hybrid)
          PROVE  shape' = shape /\ shape # Unset
      BY <3>3 DEF Execute
    <3>4. CASE VectorFails
      BY <3>4 DEF VectorFails
    <3>5. CASE Embed
      BY <3>5 DEF Embed
    <3>6. CASE Count
      BY <3>6 DEF Count, Contribute
    <3>7. CASE Query
      BY <3>7 DEF Query, Contribute
    <3>8. CASE Keyword
      BY <3>8 DEF Keyword
    <3>9. CASE Fuse
      BY <3>9 DEF Fuse
    <3>10. QED
      BY <2>3, <3>1, <3>2, <3>3, <3>4, <3>5, <3>6, <3>7, <3>8, <3>9 DEF RecallNext
  <2>4. CASE UNCHANGED allvars
    BY <2>4 DEF ShapeInv, allvars, rvars
  <2>5. QED
    BY <2>1, <2>2, <2>3, <2>4
<1>3. QED
  BY <1>1, <1>2, PTL DEF RecallSpec

\* encodeBatch: whatever Options the embedder was built from and whatever is
\* said, the network gets one run of real tokens that ends in the only SEP, then
\* padding, and every word in full or as one UNK.
THEOREM EncodingFaithfulAlways == RecallSpec => []EncodingFaithful
<1>1. RecallInv /\ ShapeInv => EncodingFaithful
  <2> SUFFICES ASSUME RecallInv, ShapeInv, rpc = "embed",
                      NEW text \in {req.hint} \cup {TextOf[b] : b \in Bodies}
               PROVE  LET n     == shape.seqLen
                          code  == encodeBatch(text, n)
                          real  == {i \in 1..n : code.mask[i] = 1}
                          whole == encode(text)
                          spelt(ps) == FlattenSeq([i \in DOMAIN ps |-> ps[i].runes])
                      IN  /\ n >= 1
                          /\ real = 1..Cardinality(real)
                          /\ {i \in 1..n : code.ids[i] = SEP} = {Cardinality(real)}
                          /\ \A i \in 1..n : (code.ids[i] = PAD) = (i \notin real)
                          /\ Len(whole) <= n => SubSeq(code.ids, 1, Len(whole)) = whole
                          /\ \A i \in DOMAIN text :
                               LET ps == wordPieceTokenize(text[i])
                               IN  ps = <<UNK>> \/ (~Contains(ps, UNK) /\ spelt(ps) = text[i])
    BY Zenon DEF EncodingFaithful
  <2>1. shape.seqLen \in Nat /\ shape.seqLen >= 1
    BY DEF ShapeInv, Shape
  <2>2. text \in Seq(Seq(STRING))
    <3>1. <<>> \in Seq(Seq(STRING))
      OBVIOUS
    <3>2. req.hint \in Hints \cup {<<>>}
      BY DEF RecallInv, RecallTypeOK, Request
    <3>3. req.hint \in Seq(Seq(STRING))
      BY <3>1, <3>2, VectorAssumption
    <3>4. \A b \in Bodies : TextOf[b] \in Seq(Seq(STRING))
      BY VectorAssumption
    <3>5. QED
      BY <3>3, <3>4
  <2>3. ASSUME NEW i \in DOMAIN text
        PROVE  LET ps == wordPieceTokenize(text[i])
               IN  ps = <<UNK>> \/ (~Contains(ps, UNK) /\ Spelt(ps) = text[i])
    <3> DEFINE ps == wordPieceTokenize(text[i])
    <3>1. text[i] \in Seq(STRING)
      BY <2>2
    <3>2. ps = <<UNK>> \/ (ps \in Seq(Vocab) /\ Spelt(ps) = text[i])
      BY <3>1, SaidInFull
    <3> HIDE DEF ps
    <3>3. ps \in Seq(Vocab) => ~Contains(ps, UNK)
      BY EmbedderAssumption DEF Contains
    <3>4. QED
      BY <3>2, <3>3 DEF ps
  <2> DEFINE n == shape.seqLen
  <2>4. n \in Nat /\ n >= 1
    BY <2>1
  <2> HIDE DEF n
  <2>5. LET code  == encodeBatch(text, n)
            real  == {i \in 1..n : code.mask[i] = 1}
            whole == encode(text)
        IN  /\ real = 1..Cardinality(real)
            /\ {i \in 1..n : code.ids[i] = SEP} = {Cardinality(real)}
            /\ \A i \in 1..n : (code.ids[i] = PAD) = (i \notin real)
            /\ Len(whole) <= n => SubSeq(code.ids, 1, Len(whole)) = whole
    BY <2>2, <2>4, EncodeBatchIs
  <2>6. QED
    BY <2>3, <2>4, <2>5, Zenon DEF n, Spelt
<1>2. QED
  BY <1>1, RecallInvariant, ShapeAlways, PTL
==============================================================================
