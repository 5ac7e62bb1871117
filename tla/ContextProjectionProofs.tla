------------------------ MODULE ContextProjectionProofs ------------------------
(***************************************************************************)
(* Proofs about ContextProjection, for every registry of kinds, every cap, *)
(* every scoring, and stores and conversations of any size: what one       *)
(* prompt holds, where it came from, and what the next one repeats.        *)
(***************************************************************************)
EXTENDS ContextProjection, FiniteSetTheorems, WellFoundedInduction, TLAPS

-------------------------------------------------------------------------------
(* The loop of recallForBudget *)

\* A non-empty set of naturals has a least element.
LEMMA LeastNat ==
  ASSUME NEW T \in SUBSET Nat, T # {}
  PROVE  \E x \in T : \A y \in T : x <= y
<1>1. PICK x \in T : \A y \in T : ~(<<y, x>> \in OpToRel(<, Nat))
  BY NatLessThanWellFounded, WFMin
<1>2. \A y \in T : ~(y < x)
  BY <1>1 DEF OpToRel
<1>3. QED
  BY <1>2

\* The loop over the first m entries: what is kept after each of them.
Loop(es, m, kept) ==
  kept = [n \in 0..m |-> IF n = 0 THEN <<>>
                         ELSE IF Kind(es[n]) \in AlwaysInclude THEN kept[n - 1]
                         ELSE Append(kept[n - 1], es[n])]

\* The loop runs to the end of every sequence of entries.
LEMMA LoopRuns ==
  ASSUME NEW es \in Seq(Entry), NEW m \in Nat
  PROVE  \E kept : Loop(es, m, kept)
<1> DEFINE T == {n \in Nat : ~\E kept : Loop(es, n, kept)}
<1>1. SUFFICES ASSUME T # {} PROVE FALSE
  OBVIOUS
<1>2. PICK n \in T : \A y \in T : n <= y
  <2> HIDE DEF T
  <2>1. T \in SUBSET Nat
    BY DEF T
  <2>2. QED
    BY <1>1, <2>1, LeastNat
<1>3. n # 0
  <2> DEFINE g == [i \in 0..0 |-> <<>>]
  <2>1. Loop(es, 0, g)
    BY DEF Loop
  <2>2. QED
    BY <2>1
<1>4. n - 1 \in Nat /\ n - 1 \notin T
  BY <1>2, <1>3
<1>5. PICK f : Loop(es, n - 1, f)
  BY <1>4
<1> DEFINE last == IF Kind(es[n]) \in AlwaysInclude THEN f[n - 1] ELSE Append(f[n - 1], es[n])
           g == [i \in 0..n |-> IF i = n THEN last ELSE f[i]]
<1>6. Loop(es, n, g)
  <2>1. \A i \in 0..n-1 : f[i] = IF i = 0 THEN <<>>
                                 ELSE IF Kind(es[i]) \in AlwaysInclude THEN f[i - 1]
                                 ELSE Append(f[i - 1], es[i])
    BY <1>5 DEF Loop
  <2>2. \A i \in 0..n : i # n => i \in 0..n-1
    BY <1>4
  <2>3. \A i \in 0..n : i # 0 => i - 1 \in 0..n-1 /\ i - 1 \in 0..n /\ i - 1 # n
    BY <1>4
  <2>4. \A i \in 0..n : i # n => g[i] = f[i]
    OBVIOUS
  <2>5. g[n] = last
    BY <1>4
  <2> HIDE DEF last
  <2>6. \A i \in 0..n : i # 0 => g[i - 1] = f[i - 1]
    BY <2>3
  <2>7. ASSUME NEW i \in 0..n
        PROVE  g[i] = IF i = 0 THEN <<>>
                      ELSE IF Kind(es[i]) \in AlwaysInclude THEN g[i - 1]
                      ELSE Append(g[i - 1], es[i])
    <3> HIDE DEF g
    <3>1. CASE i = n
      BY <1>3, <2>5, <2>6, <3>1 DEF last
    <3>2. CASE i # n
      BY <2>1, <2>2, <2>4, <2>6, <3>2
    <3>3. QED
      BY <3>1, <3>2
  <2>8. g = [i \in 0..n |-> g[i]]
    OBVIOUS
  <2> HIDE DEF g
  <2>9. QED
    BY <2>7, <2>8 DEF Loop
<1>7. QED
  BY <1>2, <1>6

\* What the loop has kept after n entries: those of the other kinds, in order.
Filtered(es, n, k) ==
  /\ k \in Seq(Entry) /\ Len(k) <= n
  /\ \A a \in 1..Len(k) : \E i \in 1..n : k[a] = es[i] /\ Kind(es[i]) \notin AlwaysInclude
  /\ \A i \in 1..n : Kind(es[i]) \notin AlwaysInclude => \E a \in 1..Len(k) : k[a] = es[i]
  /\ \A a, b \in 1..Len(k) : a < b => \E i, j \in 1..n : i < j /\ k[a] = es[i] /\ k[b] = es[j]

\* One round of the loop.
LEMMA FilteredStep ==
  ASSUME NEW es \in Seq(Entry), NEW n \in 1..Len(es), NEW k, Filtered(es, n - 1, k)
  PROVE  Filtered(es, n, IF Kind(es[n]) \in AlwaysInclude THEN k ELSE Append(k, es[n]))
<1>1. n \in Nat /\ n - 1 \in Nat /\ es[n] \in Entry /\ n \in 1..n
  OBVIOUS
<1>2. \A i : i \in 1..n <=> i \in 1..n-1 \/ i = n
  OBVIOUS
<1>3. CASE Kind(es[n]) \in AlwaysInclude
  BY <1>1, <1>2, <1>3 DEF Filtered
<1>4. CASE Kind(es[n]) \notin AlwaysInclude
  <2> DEFINE g == Append(k, es[n])
             l == Len(k)
  <2>1. /\ g \in Seq(Entry) /\ l \in Nat /\ Len(g) = l + 1
        /\ \A a \in 1..l : g[a] = k[a]
        /\ g[l + 1] = es[n]
    BY <1>1 DEF Filtered
  <2>2. \A a : a \in 1..Len(g) <=> a \in 1..l \/ a = l + 1
    BY <2>1
  <2>3. l <= n - 1
    BY DEF Filtered
  <2> HIDE DEF g, l
  <2>4. Len(g) <= n
    BY <1>1, <2>1, <2>3
  <2>5. ASSUME NEW a \in 1..Len(g)
        PROVE  \E i \in 1..n : g[a] = es[i] /\ Kind(es[i]) \notin AlwaysInclude
    <3>1. CASE a \in 1..l
      <4>1. PICK i \in 1..n-1 : k[a] = es[i] /\ Kind(es[i]) \notin AlwaysInclude
        BY <3>1 DEF Filtered, l
      <4>2. QED
        BY <1>2, <2>1, <3>1, <4>1
    <3>2. CASE a = l + 1
      BY <1>1, <1>4, <2>1, <3>2
    <3>3. QED
      BY <2>2, <3>1, <3>2
  <2>6. ASSUME NEW i \in 1..n, Kind(es[i]) \notin AlwaysInclude
        PROVE  \E a \in 1..Len(g) : g[a] = es[i]
    BY <1>2, <2>1, <2>2, <2>6 DEF Filtered, l
  <2>7. ASSUME NEW a \in 1..Len(g), NEW b \in 1..Len(g), a < b
        PROVE  \E i, j \in 1..n : i < j /\ g[a] = es[i] /\ g[b] = es[j]
    <3>1. a \in 1..l
      BY <2>1, <2>2, <2>7
    <3>2. CASE b \in 1..l
      <4>1. PICK i \in 1..n-1, j \in 1..n-1 : i < j /\ k[a] = es[i] /\ k[b] = es[j]
        BY <2>7, <3>1, <3>2 DEF Filtered, l
      <4>2. QED
        BY <1>2, <2>1, <3>1, <3>2, <4>1
    <3>3. CASE b = l + 1
      <4>1. PICK i \in 1..n-1 : k[a] = es[i]
        BY <3>1 DEF Filtered, l
      <4>2. i < n /\ i \in 1..n
        BY <1>1, <4>1
      <4>3. g[a] = es[i] /\ g[b] = es[n]
        BY <2>1, <3>1, <3>3, <4>1
      <4>4. QED
        BY <1>1, <4>2, <4>3
    <3>4. QED
      BY <2>2, <3>2, <3>3
  <2>8. Filtered(es, n, g)
    BY <2>1, <2>4, <2>5, <2>6, <2>7 DEF Filtered
  <2>9. QED
    BY <1>4, <2>8 DEF g
<1>5. QED
  BY <1>3, <1>4

\* recallForBudget keeps the entries of the other kinds, in their order.
LEMMA NotCoreFilters ==
  ASSUME NEW es \in Seq(Entry)
  PROVE  Filtered(es, Len(es), NotCore(es))
<1> DEFINE N == Len(es)
           f == CHOOSE kept : Loop(es, N, kept)
           T == {n \in 0..N : ~Filtered(es, n, f[n])}
<1>1. N \in Nat
  OBVIOUS
<1>2. Loop(es, N, f)
  BY <1>1, LoopRuns
<1>3. NotCore(es) = f[N]
  BY DEF NotCore, Loop
<1> HIDE DEF f, N
<1>4. \A n \in 0..N : f[n] = IF n = 0 THEN <<>>
                             ELSE IF Kind(es[n]) \in AlwaysInclude THEN f[n - 1]
                             ELSE Append(f[n - 1], es[n])
  BY <1>2 DEF Loop
<1>5. SUFFICES ASSUME T # {} PROVE FALSE
  BY <1>1, <1>3 DEF N
<1>6. PICK n \in T : \A y \in T : n <= y
  <2>1. T \in SUBSET Nat
    BY <1>1
  <2> HIDE DEF T
  <2>2. QED
    BY <1>5, <2>1, LeastNat
<1>7. CASE n = 0
  <2>1. f[0] = <<>>
    BY <1>1, <1>4
  <2>2. Filtered(es, 0, <<>>)
    BY DEF Filtered
  <2>3. QED
    BY <1>6, <1>7, <2>1, <2>2
<1>8. CASE n # 0
  <2>1. n \in 1..N /\ n - 1 \in 0..N /\ n - 1 \notin T
    BY <1>1, <1>6, <1>8
  <2>2. Filtered(es, n - 1, f[n - 1])
    BY <2>1
  <2>3. Filtered(es, n, IF Kind(es[n]) \in AlwaysInclude THEN f[n - 1] ELSE Append(f[n - 1], es[n]))
    BY <2>1, <2>2, FilteredStep DEF N
  <2>4. f[n] = IF Kind(es[n]) \in AlwaysInclude THEN f[n - 1] ELSE Append(f[n - 1], es[n])
    BY <1>4, <1>6, <1>8
  <2>5. QED
    BY <1>6, <2>3, <2>4
<1>9. QED
  BY <1>7, <1>8

-------------------------------------------------------------------------------
(* What one read of the store returns *)

\* Cutting a sequence leaves a prefix of it.
LEMMA CutPrefix ==
  ASSUME NEW s \in Seq(Entry), NEW max \in Nat
  PROVE  /\ Cut(s, max) \in Seq(Entry)
         /\ Len(Cut(s, max)) <= Len(s)
         /\ max > 0 => Len(Cut(s, max)) <= max
         /\ \A i \in 1..Len(Cut(s, max)) : Cut(s, max)[i] = s[i]
<1>1. CASE max > 0 /\ Len(s) > max
  <2>1. Cut(s, max) = SubSeq(s, 1, max)
    BY <1>1 DEF Cut
  <2>2. /\ SubSeq(s, 1, max) \in Seq(Entry) /\ Len(SubSeq(s, 1, max)) = max
        /\ \A i \in 1..max : SubSeq(s, 1, max)[i] = s[i]
    BY <1>1
  <2>3. QED
    BY <1>1, <2>1, <2>2
<1>2. CASE ~(max > 0 /\ Len(s) > max)
  <2>1. Cut(s, max) = s
    BY <1>2 DEF Cut
  <2>2. Len(s) \in Nat
    OBVIOUS
  <2>3. QED
    BY <1>2, <2>1, <2>2
<1>3. QED
  BY <1>1, <1>2

\* A sequence of a finite set has each of its elements once.
LEMMA SequenceOfSet ==
  ASSUME NEW S \in SUBSET Entry, IsFiniteSet(S), NEW s \in SetToSeqs(S)
  PROVE  /\ s \in Seq(Entry)
         /\ \A i \in 1..Len(s) : s[i] \in S
         /\ \A i, j \in 1..Len(s) : i # j => s[i] # s[j]
         /\ \A e \in S : \E i \in 1..Len(s) : s[i] = e
<1> DEFINE n == Cardinality(S)
<1>1. n \in Nat
  BY FS_CardinalityType
<1>2. s \in [1..n -> S] /\ \A i, j \in 1..n : i # j => s[i] # s[j]
  BY DEF SetToSeqs
<1>3. IsFiniteSet(1..n) /\ Cardinality(1..n) = n
  <2>1. 1 \in Int /\ n \in Int
    BY <1>1
  <2> HIDE DEF n
  <2>2. QED
    BY <1>1, <2>1, FS_Interval
<1>4. s \in Injection(1..n, S)
  BY <1>2 DEF Injection, IsInjective
<1>5. s \in Surjection(1..n, S)
  BY <1>3, <1>4, FS_Injection
<1>6. \A e \in S : \E i \in 1..n : s[i] = e
  BY <1>5 DEF Surjection
<1> HIDE DEF n
<1>7. s \in Seq(Entry) /\ Len(s) = n
  BY <1>1, <1>2
<1>8. QED
  BY <1>2, <1>6, <1>7

\* The entries of a finite part of the store, cut: entries of that part with
\* different IDs.
LEMMA ReadEntries ==
  ASSUME TypeOK, StoreInv, NEW S \in SUBSET live, NEW s \in SetToSeqs(S), NEW max \in Nat
  PROVE  /\ Cut(s, max) \in Seq(Entry)
         /\ \A i \in DOMAIN Cut(s, max) : Cut(s, max)[i] \in S
         /\ DistinctIDs(Cut(s, max))
         /\ max > 0 => Len(Cut(s, max)) <= max
<1>1. S \in SUBSET Entry /\ IsFiniteSet(S)
  BY FS_Subset DEF TypeOK, StoreInv
<1>2. /\ s \in Seq(Entry)
      /\ \A i \in 1..Len(s) : s[i] \in S
      /\ \A i, j \in 1..Len(s) : i # j => s[i] # s[j]
  BY <1>1, SequenceOfSet
<1> DEFINE c == Cut(s, max)
<1>3. /\ c \in Seq(Entry) /\ Len(c) <= Len(s) /\ \A i \in 1..Len(c) : c[i] = s[i]
      /\ max > 0 => Len(c) <= max
  BY <1>2, CutPrefix
<1> HIDE DEF c
<1>4. DOMAIN c = 1..Len(c) /\ \A i \in 1..Len(c) : i \in 1..Len(s)
  BY <1>2, <1>3
<1>5. \A i \in DOMAIN c : c[i] \in S
  BY <1>2, <1>3, <1>4
<1>6. \A i, j \in DOMAIN c : i # j => c[i] # c[j]
  BY <1>2, <1>3, <1>4
<1>7. DistinctIDs(c)
  BY <1>5, <1>6 DEF DistinctIDs, StoreInv
<1>8. QED
  BY <1>3, <1>5, <1>7 DEF c

\* The caps are naturals.
LEMMA Caps ==
  /\ maxItems \in Nat
  /\ \A kind \in AlwaysInclude : Cap(kind) \in Nat
BY ProjectionAssumption DEF maxItems, Cap

\* One read for CORE: entries of the kind, in the store now.
LEMMA KindRead ==
  ASSUME TypeOK, StoreInv, NEW kind \in AlwaysInclude,
         NEW es \in Recall(AgentID, {kind}, Cap(kind)) \cup OnError
  PROVE  /\ es \in Seq(Entry) /\ DistinctIDs(es)
         /\ \A i \in DOMAIN es : es[i] \in live /\ Kind(es[i]) = kind
<1>1. CASE es \in Recall(AgentID, {kind}, Cap(kind))
  <2> DEFINE S == {e \in live : matches(e, AgentID, {kind})}
  <2>1. PICK s \in SetToSeqs(S) : es = Cut(s, Cap(kind))
    BY <1>1 DEF Recall, NewestFirst
  <2>2. S \in SUBSET live
    OBVIOUS
  <2>3. \A e \in S : e \in live /\ Kind(e) = kind
    BY DEF matches
  <2> HIDE DEF S
  <2>4. QED
    BY <2>1, <2>2, <2>3, Caps, ReadEntries
<1>2. CASE es = <<>>
  BY <1>2 DEF DistinctIDs
<1>3. QED
  BY <1>1, <1>2 DEF OnError

\* The recall for RELEVANT: entries of the other kinds, in the store now, no more
\* than the budget.
LEMMA BudgetRead ==
  ASSUME TypeOK, StoreInv, NEW budget \in Nat, budget > 0,
         NEW es \in SimpleRecall(budget) \cup OnError
  PROVE  /\ NotCore(es) \in Seq(Entry) /\ DistinctIDs(NotCore(es))
         /\ Len(NotCore(es)) <= budget
         /\ \A i \in DOMAIN NotCore(es) :
              NotCore(es)[i] \in live /\ Kind(NotCore(es)[i]) \notin AlwaysInclude
<1>1. /\ es \in Seq(Entry) /\ DistinctIDs(es) /\ Len(es) <= budget
      /\ \A i \in DOMAIN es : es[i] \in live
  <2>1. CASE es \in SimpleRecall(budget)
    <3> DEFINE S == {e \in live : Wanted(e)}
    <3>1. PICK s \in SetToSeqs(S) : es = Cut(s, budget)
      BY <2>1 DEF SimpleRecall, BestFirst
    <3>2. S \in SUBSET live
      OBVIOUS
    <3> HIDE DEF S
    <3>3. QED
      BY <3>1, <3>2, ReadEntries
  <2>2. CASE es = <<>>
    BY <2>2 DEF DistinctIDs
  <2>3. QED
    BY <2>1, <2>2 DEF OnError
<1> DEFINE k == NotCore(es)
           n == Len(es)
<1>2. Filtered(es, n, k)
  BY <1>1, NotCoreFilters
<1>3. n \in Nat /\ DOMAIN es = 1..n /\ k \in Seq(Entry) /\ DOMAIN k = 1..Len(k) /\ Len(k) \in Nat
  BY <1>1, <1>2 DEF Filtered
<1> HIDE DEF k, n
<1>4. Len(k) <= budget
  BY <1>1, <1>2, <1>3 DEF Filtered, n
<1>5. ASSUME NEW a \in DOMAIN k PROVE k[a] \in live /\ Kind(k[a]) \notin AlwaysInclude
  BY <1>1, <1>2, <1>3 DEF Filtered
<1>6. ASSUME NEW a \in DOMAIN k, NEW b \in DOMAIN k, a < b PROVE k[a].id # k[b].id
  <2>1. PICK i \in 1..n, j \in 1..n : i < j /\ k[a] = es[i] /\ k[b] = es[j]
    BY <1>2, <1>3, <1>6 DEF Filtered
  <2>2. i # j
    BY <2>1
  <2>3. QED
    BY <1>1, <1>3, <2>1, <2>2 DEF DistinctIDs
<1>7. DistinctIDs(k)
  <2>1. \A a, b \in 1..Len(k) : a # b => a < b \/ b < a
    BY <1>3
  <2>2. QED
    BY <1>3, <1>6, <2>1 DEF DistinctIDs
<1>8. QED
  BY <1>3, <1>4, <1>5, <1>7 DEF k

-------------------------------------------------------------------------------
(* The prompt *)

Role == [from : {"core", "conversation", "relevant"}, body : Seq(Entry) \cup TurnMessages]

\* The message a block makes of its entries, if there are any.
LEMMA BlockType ==
  ASSUME NEW from \in {"core", "relevant"}, NEW es \in Seq(Entry)
  PROVE  /\ Block(from, es) \in Seq(Role)
         /\ Len(Block(from, es)) = IF es = <<>> THEN 0 ELSE 1
<1>1. es # <<>> => Message(from, es) \in Role
  BY DEF Message, Role
<1>2. QED
  BY <1>1 DEF Block

\* Two sequences, one after the other.
LEMMA Concat ==
  ASSUME NEW S, NEW s \in Seq(S), NEW t \in Seq(S)
  PROVE  /\ s \o t \in Seq(S) /\ Len(s) \in Nat /\ Len(t) \in Nat
         /\ Len(s \o t) = Len(s) + Len(t)
         /\ \A i \in 1..Len(s) : (s \o t)[i] = s[i]
         /\ \A i \in Len(s)+1..Len(s)+Len(t) : (s \o t)[i] = t[i - Len(s)]
OBVIOUS

\* msgs is a prompt of CORE c, k messages of the conversation, and RELEVANT r.
Parts(msgs, c, k, r) ==
  LET b == Len(Block("core", c))
  IN  /\ msgs \in Seq(Role)
      /\ b \in {0, 1}
      /\ Len(msgs) = b + k + IF r = <<>> THEN 0 ELSE 1
      /\ \A i \in 1..b : msgs[i] = Block("core", c)[i]
      /\ \A i \in b+1..b+k : msgs[i] = Message("conversation", conv[i - b])

\* A prompt is CORE, the conversation it was built around, and RELEVANT.
LEMMA PromptParts ==
  ASSUME TypeOK, NEW c \in Seq(Entry), NEW r \in Seq(Entry), NEW k \in 0..Len(conv)
  PROVE  Parts(Block("core", c) \o Said(k) \o Block("relevant", r), c, k, r)
<1> DEFINE B == Block("core", c)
           R == Block("relevant", r)
           S == Said(k)
<1>1. B \in Seq(Role) /\ Len(B) \in {0, 1}
  BY BlockType
<1>2. R \in Seq(Role) /\ Len(R) = IF r = <<>> THEN 0 ELSE 1
  BY BlockType
<1>3. S \in Seq(Role) /\ Len(S) = k /\ \A i \in 1..k : S[i] = Message("conversation", conv[i])
  <2>1. \A i \in 1..k : conv[i] \in TurnMessages
    BY DEF TypeOK
  <2>2. \A i \in 1..k : Message("conversation", conv[i]) \in Role
    BY <2>1 DEF Message, Role
  <2>3. k \in Nat
    BY DEF TypeOK
  <2>4. QED
    BY <2>2, <2>3 DEF Said
<1> HIDE DEF B, R, S
<1>4. /\ B \o S \in Seq(Role) /\ Len(B \o S) = Len(B) + k
      /\ \A i \in 1..Len(B) : (B \o S)[i] = B[i]
      /\ \A i \in Len(B)+1..Len(B)+k : (B \o S)[i] = S[i - Len(B)]
  BY <1>1, <1>3, Concat
<1> DEFINE Q == B \o S
<1> HIDE DEF Q
<1>5. /\ Q \o R \in Seq(Role) /\ Len(Q \o R) = Len(Q) + Len(R)
      /\ \A i \in 1..Len(Q) : (Q \o R)[i] = Q[i]
  BY <1>2, <1>4, Concat DEF Q
<1>6. k \in Nat
  BY DEF TypeOK
<1>7. \A i \in Len(B)+1..Len(B)+k : i - Len(B) \in 1..k /\ i \in 1..Len(B)+k
  BY <1>1, <1>6
<1>8. \A i \in 1..Len(B) : i \in 1..Len(B)+k
  BY <1>1, <1>6
<1>9. /\ Q \o R \in Seq(Role)
      /\ Len(B) \in {0, 1}
      /\ Len(Q \o R) = Len(B) + k + IF r = <<>> THEN 0 ELSE 1
      /\ \A i \in 1..Len(B) : (Q \o R)[i] = B[i]
      /\ \A i \in Len(B)+1..Len(B)+k : (Q \o R)[i] = Message("conversation", conv[i - Len(B)])
  BY <1>1, <1>2, <1>3, <1>4, <1>5, <1>6, <1>7, <1>8 DEF Q
<1>10. QED
  BY <1>9 DEF Parts, Q, B, S, R

\* The prompt Finish hands over.
LEMMA PromptNow ==
  ASSUME TypeOK
  PROVE  /\ Len(conv) \in Nat
         /\ Prompt = Block("core", core) \o Said(Len(conv)) \o Block("relevant", relevant)
         /\ Prompt \in Seq(Role) /\ Len(Prompt) \in Nat
         /\ relevant # <<>> => Len(Prompt) > 0
         /\ Breakpoint \in Nat
         /\ Breakpoint > 0 => relevant # <<>> /\ Breakpoint = Len(Prompt) - 1
<1>1. Len(conv) \in Nat /\ DOMAIN conv = 1..Len(conv)
  BY DEF TypeOK
<1>2. Prompt = Block("core", core) \o Said(Len(conv)) \o Block("relevant", relevant)
  BY <1>1 DEF Prompt, Baseline, Said
<1>3. core \in Seq(Entry) /\ relevant \in Seq(Entry) /\ Len(conv) \in 0..Len(conv)
  BY <1>1 DEF TypeOK
<1>4. /\ Prompt \in Seq(Role) /\ Len(Block("core", core)) \in {0, 1}
      /\ Len(Prompt) = Len(Block("core", core)) + Len(conv) + IF relevant = <<>> THEN 0 ELSE 1
  BY <1>2, <1>3, PromptParts DEF Parts
<1>5. Len(Prompt) \in Nat /\ (relevant # <<>> => Len(Prompt) > 0)
  BY <1>1, <1>4
<1>6. QED
  BY <1>1, <1>2, <1>4, <1>5 DEF Breakpoint

-------------------------------------------------------------------------------
(* The store *)

\* The Appends and Forgets of other sessions keep one entry per ID.
LEMMA WriteKeeps ==
  ASSUME TypeOK, StoreInv, NEW c \in Writes, NEW tags \in SUBSET Tags,
         AppendKnown(c, tags) \/ (\E t \in Times : AppendNew(c, tags, t)) \/ Forget(c)
  PROVE  live' \in SUBSET Entry /\ StoreInv'
<1>1. c \in Content
  BY ProjectionAssumption
<1>2. CASE AppendKnown(c, tags)
  <2>1. PICK e \in live : e.id = c /\ live' = (live \ {e}) \cup {Merge(e, tags)}
    BY <1>2 DEF AppendKnown
  <2>2. Merge(e, tags) \in Entry /\ Merge(e, tags).id = e.id
    <3>1. e \in Entry
      BY DEF TypeOK
    <3>2. e.tags \cup tags \in SUBSET Tags
      BY <3>1 DEF Entry
    <3>3. QED
      BY <3>1, <3>2 DEF Merge, Entry
  <2>3. IsFiniteSet(live')
    <3>1. IsFiniteSet(live \ {e})
      BY FS_RemoveElement DEF StoreInv
    <3>2. QED
      BY <2>1, <3>1, FS_AddElement
  <2> DEFINE m == Merge(e, tags)
  <2> HIDE DEF m
  <2>4. live' = (live \ {e}) \cup {m} /\ m.id = e.id /\ m \in Entry
    BY <2>1, <2>2 DEF m
  <2>5. QED
    BY <2>1, <2>3, <2>4 DEF StoreInv, TypeOK
<1>3. ASSUME NEW t \in Times, AppendNew(c, tags, t)
      PROVE  live' \in SUBSET Entry /\ StoreInv'
  <2> DEFINE n == NewEntry(c, tags, t)
             S == {e \in live : ~SameFact(e, c)}
  <2>1. n \in Entry /\ n.id = c
    BY <1>1 DEF NewEntry, Entry, Content
  <2>2. live' = S \cup {n} /\ \A e \in live : e.id # c
    BY <1>3 DEF AppendNew
  <2>3. S \in SUBSET live
    OBVIOUS
  <2> HIDE DEF n, S
  <2>4. IsFiniteSet(live')
    <3>1. IsFiniteSet(S)
      BY <2>3, FS_Subset DEF StoreInv
    <3>2. QED
      BY <2>2, <3>1, FS_AddElement
  <2>5. QED
    BY <2>1, <2>2, <2>3, <2>4 DEF StoreInv, TypeOK
<1>4. CASE Forget(c)
  <2>1. live' \in SUBSET live
    BY <1>4 DEF Forget
  <2>2. IsFiniteSet(live')
    BY <2>1, FS_Subset DEF StoreInv
  <2>3. QED
    BY <2>1, <2>2 DEF StoreInv, TypeOK
<1>5. QED
  BY <1>2, <1>3, <1>4

-------------------------------------------------------------------------------
(* The invariants *)

ProjectionInv == TypeOK /\ StoreInv /\ GatherInv /\ PromptInv

\* A prompt that is left alone stays a prompt of the conversation.
LEMMA PromptKept ==
  ASSUME TypeOK, PromptInv, UNCHANGED proj,
         conv' = conv \/ \E m \in TurnMessages : conv' = Append(conv, m)
  PROVE  PromptInv' /\ conv' \in Seq(TurnMessages)
<1>1. /\ conv' \in Seq(TurnMessages) /\ Len(conv) \in Nat /\ Len(conv') \in Nat
      /\ Len(conv) <= Len(conv')
      /\ \A i \in 1..Len(conv) : conv'[i] = conv[i]
  <2>1. conv \in Seq(TurnMessages) /\ Len(conv) \in Nat
    BY DEF TypeOK
  <2>2. CASE conv' = conv
    BY <2>1, <2>2
  <2>3. ASSUME NEW m \in TurnMessages, conv' = Append(conv, m)
        PROVE  /\ conv' \in Seq(TurnMessages) /\ Len(conv') = Len(conv) + 1
               /\ \A i \in 1..Len(conv) : conv'[i] = conv[i]
    BY <2>1, <2>3
  <2>4. QED
    BY <2>1, <2>2, <2>3
<1>2. PICK k \in 0..Len(conv) :
        proj.msgs = Block("core", proj.core) \o Said(k) \o Block("relevant", proj.relevant)
  BY DEF PromptInv
<1>3. k \in 0..Len(conv') /\ [i \in 1..k |-> Message("conversation", conv'[i])] = Said(k)
  BY <1>1 DEF Said
<1>4. proj'.msgs = Block("core", proj'.core) \o [i \in 1..k |-> Message("conversation", conv'[i])]
                     \o Block("relevant", proj'.relevant)
  BY <1>2, <1>3
<1>5. proj'.mark > 0 => proj'.relevant # <<>> /\ proj'.mark = Len(proj'.msgs) - 1
  BY DEF PromptInv
<1>6. \E j \in 0..Len(conv') :
        proj'.msgs = Block("core", proj'.core) \o [i \in 1..j |-> Message("conversation", conv'[i])]
                       \o Block("relevant", proj'.relevant)
  BY <1>3, <1>4
<1>7. QED
  BY <1>1, <1>5, <1>6 DEF PromptInv, Said, Block, Message

\* What other sessions do to the store between two reads takes nothing back from
\* what Project has gathered.
LEMMA WriteStep ==
  ASSUME ProjectionInv, NEW c \in Writes, NEW tags \in SUBSET Tags,
         AppendKnown(c, tags) \/ (\E t \in Times : AppendNew(c, tags, t)) \/ Forget(c)
  PROVE  ProjectionInv'
<1>1. live' \in SUBSET Entry /\ StoreInv'
  BY WriteKeeps DEF ProjectionInv
<1>2. Write
  BY DEF AppendKnown, AppendNew, Forget
<1>3. UNCHANGED <<conv, pc, pending, core, relevant, proj>>
  BY <1>2 DEF Write, projectVars
<1>4. PromptInv'
  BY <1>3, PromptKept DEF ProjectionInv
<1>5. during' = IF pc = "idle" THEN {} ELSE during \cup {live'}
  BY <1>2 DEF Write
<1>6. TypeOK'
  BY <1>1, <1>3, <1>5 DEF ProjectionInv, TypeOK
<1>7. GatherInv'
  <2>1. CASE pc = "idle"
    <3>1. core = <<>> /\ relevant = <<>>
      BY <2>1 DEF ProjectionInv, GatherInv
    <3>2. QED
      BY <1>3, <2>1, <3>1 DEF GatherInv, DistinctIDs, ProjectionInv
  <2>2. CASE pc # "idle"
    <3>1. during \subseteq during' /\ live' \in during'
      BY <1>5, <2>2
    <3>2. QED
      BY <1>3, <2>2, <3>1 DEF GatherInv, DistinctIDs, ProjectionInv, maxItems, Kind
  <2>3. QED
    BY <2>1, <2>2
<1>8. QED
  BY <1>1, <1>4, <1>6, <1>7 DEF ProjectionInv

\* A read for CORE adds entries of a kind that was not read before.
LEMMA ReadKindStep ==
  ASSUME ProjectionInv, NEW kind \in AlwaysInclude, ReadKind(kind)
  PROVE  ProjectionInv'
<1> USE DEF ProjectionInv
<1>1. /\ pc = "core" /\ kind \in pending /\ pending' = pending \ {kind}
      /\ pc' \in {"recall", "core"}
      /\ UNCHANGED <<live, conv, relevant, proj, during>>
  BY DEF ReadKind
<1>2. PICK es \in Recall(AgentID, {kind}, Cap(kind)) \cup OnError : core' = core \o es
  BY DEF ReadKind
<1>3. /\ es \in Seq(Entry) /\ DistinctIDs(es)
      /\ \A i \in DOMAIN es : es[i] \in live /\ Kind(es[i]) = kind
  BY <1>2, KindRead
<1>4. /\ core \in Seq(Entry) /\ DistinctIDs(core)
      /\ \A i \in DOMAIN core : Kind(core[i]) \in AlwaysInclude \ pending /\ core[i] \in UNION during
  BY DEF TypeOK, GatherInv
<1> DEFINE n == Len(core)
           m == Len(es)
<1>5. /\ core' \in Seq(Entry) /\ n \in Nat /\ m \in Nat /\ Len(core') = n + m
      /\ \A i \in 1..n : core'[i] = core[i]
      /\ \A i \in n+1..n+m : core'[i] = es[i - n]
  BY <1>2, <1>3, <1>4, Concat
<1>6. /\ DOMAIN core = 1..n /\ DOMAIN es = 1..m /\ DOMAIN core' = 1..n+m
  BY <1>3, <1>4, <1>5
<1> HIDE DEF n, m
<1>7. \A i \in 1..n+m : i \in 1..n \/ (i \in n+1..n+m /\ i - n \in 1..m)
  BY <1>5
<1>8. ASSUME NEW i \in DOMAIN core'
      PROVE  Kind(core'[i]) \in AlwaysInclude \ pending' /\ core'[i] \in UNION during
  <2>1. CASE i \in 1..n
    BY <1>1, <1>4, <1>5, <1>6, <2>1
  <2>2. CASE i \in n+1..n+m /\ i - n \in 1..m
    <3>1. core'[i] \in live /\ Kind(core'[i]) = kind
      BY <1>3, <1>5, <1>6, <2>2
    <3>2. live \in during
      BY <1>1 DEF GatherInv
    <3>3. QED
      BY <1>1, <3>1, <3>2
  <2>3. QED
    BY <1>6, <1>7, <2>1, <2>2
<1>9. ASSUME NEW i \in DOMAIN core', NEW j \in DOMAIN core', i < j
      PROVE  core'[i].id # core'[j].id
  <2>1. CASE i \in 1..n /\ j \in 1..n
    <3>1. i # j
      BY <1>9, <2>1
    <3>2. QED
      BY <1>4, <1>5, <1>6, <2>1, <3>1 DEF DistinctIDs
  <2>2. CASE i \in 1..n /\ j \in n+1..n+m /\ j - n \in 1..m
    <3>1. Kind(core'[i]) \notin pending
      BY <1>4, <1>5, <1>6, <2>2
    <3>2. Kind(core'[j]) \in pending
      BY <1>1, <1>3, <1>5, <1>6, <2>2
    <3>3. QED
      BY <3>1, <3>2 DEF Kind
  <2>3. CASE /\ i \in n+1..n+m /\ i - n \in 1..m
             /\ j \in n+1..n+m /\ j - n \in 1..m
    <3>1. i - n # j - n
      BY <1>5, <1>9, <2>3
    <3>2. QED
      BY <1>3, <1>5, <1>6, <2>3, <3>1 DEF DistinctIDs
  <2>4. ~(i \in n+1..n+m /\ j \in 1..n)
    BY <1>5, <1>9
  <2>5. QED
    BY <1>6, <1>7, <2>1, <2>2, <2>3, <2>4
<1>10. DistinctIDs(core')
  <2>1. \A i, j \in 1..n+m : i # j => i < j \/ j < i
    BY <1>5
  <2>2. QED
    BY <1>6, <1>9, <2>1 DEF DistinctIDs
<1>11. relevant = <<>>
  BY <1>1 DEF GatherInv
<1>12. GatherInv'
  BY <1>1, <1>8, <1>10, <1>11 DEF GatherInv, DistinctIDs, Kind
<1>13. TypeOK'
  BY <1>1, <1>5 DEF TypeOK
<1>14. StoreInv'
  BY <1>1 DEF StoreInv
<1>15. PromptInv'
  BY <1>1, PromptKept
<1>16. QED
  BY <1>12, <1>13, <1>14, <1>15

\* The recall fills what CORE left of the budget.
LEMMA RecallStep ==
  ASSUME ProjectionInv, RecallForBudget
  PROVE  ProjectionInv'
<1> USE DEF ProjectionInv
<1> DEFINE budget == maxItems - Len(core)
<1>1. pc = "recall" /\ pc' = "finish" /\ UNCHANGED <<live, conv, pending, core, proj, during>>
  BY DEF RecallForBudget
<1>2. core \in Seq(Entry) /\ Len(core) \in Nat /\ maxItems \in Nat
  BY Caps DEF TypeOK
<1>3. /\ relevant' \in Seq(Entry) /\ DistinctIDs(relevant')
      /\ \A i \in DOMAIN relevant' : relevant'[i] \in live /\ Kind(relevant'[i]) \notin AlwaysInclude
      /\ relevant' # <<>> => Len(core) + Len(relevant') <= maxItems
  <2>1. CASE budget <= 0
    <3>1. relevant' = <<>>
      BY <2>1 DEF RecallForBudget
    <3>2. QED
      BY <3>1 DEF DistinctIDs
  <2>2. CASE ~(budget <= 0)
    <3>1. budget \in Nat /\ budget > 0
      BY <1>2, <2>2
    <3>2. PICK es \in SimpleRecall(budget) \cup OnError : relevant' = NotCore(es)
      BY <2>2 DEF RecallForBudget
    <3> HIDE DEF budget, ProjectionInv
    <3>3. TypeOK /\ StoreInv
      BY DEF ProjectionInv
    <3>4. /\ relevant' \in Seq(Entry) /\ DistinctIDs(relevant') /\ Len(relevant') <= budget
          /\ \A i \in DOMAIN relevant' : relevant'[i] \in live /\ Kind(relevant'[i]) \notin AlwaysInclude
      BY <3>1, <3>2, <3>3, BudgetRead
    <3>5. Len(relevant') \in Nat
      BY <3>4
    <3>6. Len(core) + Len(relevant') <= maxItems
      BY <1>2, <3>4, <3>5 DEF budget
    <3>7. QED
      BY <3>4, <3>6
  <2>3. QED
    BY <2>1, <2>2
<1>4. live \in during
  BY <1>1 DEF GatherInv
<1>5. GatherInv'
  BY <1>1, <1>3, <1>4 DEF GatherInv, DistinctIDs, Kind, maxItems
<1>6. TypeOK' /\ StoreInv'
  BY <1>1, <1>3 DEF TypeOK, StoreInv
<1>7. PromptInv'
  BY <1>1, PromptKept
<1>8. QED
  BY <1>5, <1>6, <1>7

\* Finish hands over the prompt and starts anew.
LEMMA FinishStep ==
  ASSUME ProjectionInv, Finish
  PROVE  ProjectionInv'
<1> USE DEF ProjectionInv
<1>1. /\ pc = "finish" /\ pc' = "idle" /\ core' = <<>> /\ relevant' = <<>> /\ during' = {}
      /\ proj' = [core |-> core, relevant |-> relevant, msgs |-> Prompt,
                  mark |-> Breakpoint, views |-> during]
      /\ UNCHANGED <<live, conv, pending>>
  BY DEF Finish
<1>2. /\ Prompt = Block("core", core) \o Said(Len(conv)) \o Block("relevant", relevant)
      /\ Prompt \in Seq(Role) /\ Breakpoint \in Nat /\ Len(conv) \in Nat
      /\ Breakpoint > 0 => relevant # <<>> /\ Breakpoint = Len(Prompt) - 1
  BY PromptNow
<1>3. proj' \in Prompts
  BY <1>1, <1>2 DEF Prompts, Role, TypeOK
<1>4. TypeOK' /\ StoreInv'
  BY <1>1, <1>3 DEF TypeOK, StoreInv
<1>5. GatherInv'
  BY <1>1 DEF GatherInv, DistinctIDs
<1>6. PromptInv'
  <2>1. /\ proj'.msgs = Block("core", proj'.core) \o Said(Len(conv)) \o Block("relevant", proj'.relevant)
        /\ proj'.mark > 0 => proj'.relevant # <<>> /\ proj'.mark = Len(proj'.msgs) - 1
    BY <1>1, <1>2
  <2>2. Len(conv) \in 0..Len(conv') /\ conv' = conv
    BY <1>1, <1>2
  <2>3. QED
    BY <2>1, <2>2 DEF PromptInv, Said, Block, Message
<1>7. QED
  BY <1>4, <1>5, <1>6

\* At every moment of every projection, under every interleaving with the store's
\* other writers: what CORE and RELEVANT hold, where it came from and how much of
\* it there is.
THEOREM ProjectionInvariant == Spec => []ProjectionInv
<1>1. Init => ProjectionInv
  <2> SUFFICES ASSUME Init PROVE ProjectionInv
    OBVIOUS
  <2>1. StoreInv
    BY FS_EmptySet DEF Init, StoreInv
  <2>2. GatherInv
    BY DEF Init, GatherInv, DistinctIDs
  <2>3. proj \in Prompts
    BY DEF Init, Prompts
  <2>4. TypeOK
    BY <2>3 DEF Init, TypeOK
  <2>5. PromptInv
    <3>1. conv = <<>> /\ Len(conv) = 0 /\ 0 \in 0..Len(conv)
      BY DEF Init
    <3>2. Said(0) = <<>>
      BY DEF Said
    <3>3. Block("core", proj.core) = <<>> /\ Block("relevant", proj.relevant) = <<>>
      BY DEF Init, Block
    <3>4. proj.msgs = <<>> /\ proj.mark = 0
      BY DEF Init
    <3>5. <<>> \o <<>> \o <<>> = <<>>
      OBVIOUS
    <3>6. QED
      BY <3>1, <3>2, <3>3, <3>4, <3>5 DEF PromptInv
  <2>6. QED
    BY <2>1, <2>2, <2>4, <2>5 DEF ProjectionInv
<1>2. ProjectionInv /\ [Next]_vars => ProjectionInv'
  <2> SUFFICES ASSUME ProjectionInv, [Next]_vars PROVE ProjectionInv'
    OBVIOUS
  <2>1. ASSUME NEW m \in TurnMessages, AddTurn(m) PROVE ProjectionInv'
    <3>1. /\ conv' = Append(conv, m)
          /\ UNCHANGED <<live, pc, pending, core, relevant, proj, during>>
      BY <2>1 DEF AddTurn, projectVars
    <3>2. PromptInv' /\ conv' \in Seq(TurnMessages)
      BY <3>1, PromptKept DEF ProjectionInv
    <3>3. QED
      BY <3>1, <3>2 DEF ProjectionInv, TypeOK, StoreInv, GatherInv, DistinctIDs, Kind, maxItems
  <2>2. CASE ProjectBegin
    <3>1. /\ pc = "idle" /\ pc' \in {"recall", "core"} /\ pending' = AlwaysInclude
          /\ during' = {live}
          /\ UNCHANGED <<live, conv, core, relevant, proj>>
      BY <2>2 DEF ProjectBegin
    <3>2. core = <<>> /\ relevant = <<>>
      BY <3>1 DEF ProjectionInv, GatherInv
    <3>3. GatherInv'
      BY <3>1, <3>2 DEF GatherInv, DistinctIDs
    <3>4. PromptInv'
      BY <3>1, PromptKept DEF ProjectionInv
    <3>5. TypeOK' /\ StoreInv'
      BY <3>1 DEF ProjectionInv, TypeOK, StoreInv
    <3>6. QED
      BY <3>3, <3>4, <3>5 DEF ProjectionInv
  <2>3. CASE InnerFails \/ UNCHANGED vars
    <3>1. UNCHANGED <<live, conv, pc, pending, core, relevant, proj, during>>
      BY <2>3 DEF InnerFails, vars
    <3>2. PromptInv'
      BY <3>1, PromptKept DEF ProjectionInv
    <3>3. QED
      BY <3>1, <3>2 DEF ProjectionInv, TypeOK, StoreInv, GatherInv, DistinctIDs, Kind, maxItems
  <2>4. ASSUME NEW c \in Writes, NEW tags \in SUBSET Tags,
               AppendKnown(c, tags) \/ \E t \in Times : AppendNew(c, tags, t)
        PROVE  ProjectionInv'
    BY <2>4, WriteStep
  <2>5. ASSUME NEW c \in Writes, Forget(c) PROVE ProjectionInv'
    <3>1. {} \in SUBSET Tags
      OBVIOUS
    <3>2. QED
      BY <2>5, <3>1, WriteStep
  <2>6. CASE \E kind \in AlwaysInclude : ReadKind(kind)
    BY <2>6, ReadKindStep
  <2>7. CASE RecallForBudget \/ Finish
    BY <2>7, RecallStep, FinishStep
  <2>8. QED
    BY <2>1, <2>2, <2>3, <2>4, <2>5, <2>6, <2>7 DEF Next
<1>3. QED
  BY <1>1, <1>2, PTL DEF Spec

-------------------------------------------------------------------------------
(* What is in the prompt *)

\* The projection changes only when it is handed over.
LEMMA OnlyFinish ==
  ASSUME Next, proj' # proj
  PROVE  Finish
<1>1. ASSUME NEW c \in Writes, NEW tags \in SUBSET Tags,
             AppendKnown(c, tags) \/ (\E t \in Times : AppendNew(c, tags, t)) \/ Forget(c)
      PROVE  FALSE
  <2>1. Write
    BY <1>1 DEF AppendKnown, AppendNew, Forget
  <2>2. QED
    BY <2>1 DEF Write, projectVars
<1>2. ASSUME NEW m \in TurnMessages, AddTurn(m) PROVE FALSE
  BY <1>2 DEF AddTurn, projectVars
<1>3. ASSUME ProjectBegin \/ InnerFails \/ RecallForBudget PROVE FALSE
  BY <1>3 DEF ProjectBegin, InnerFails, RecallForBudget
<1>4. ASSUME NEW kind \in AlwaysInclude, ReadKind(kind) PROVE FALSE
  BY <1>4 DEF ReadKind
<1>5. \E tags : tags \in SUBSET Tags
  OBVIOUS
<1>6. ASSUME NEW c \in Writes, Forget(c) PROVE FALSE
  BY <1>1, <1>5, <1>6
<1>7. QED
  BY <1>1, <1>2, <1>3, <1>4, <1>6 DEF Next

\* The entries of the projection that is being handed over.
LEMMA HandedOver ==
  ASSUME ProjectionInv, Finish
  PROVE  LET n == Len(core)
             m == Len(relevant)
         IN  /\ n \in Nat /\ m \in Nat
             /\ Len(Injected') = n + m /\ DOMAIN Injected' = 1..n+m
             /\ proj'.core = core /\ proj'.relevant = relevant
             /\ DOMAIN core = 1..n /\ DOMAIN relevant = 1..m
             /\ \A i \in 1..n : Injected'[i] = core[i]
             /\ \A i \in n+1..n+m : i - n \in 1..m /\ Injected'[i] = relevant[i - n]
             /\ \A i \in 1..n+m : i \in 1..n \/ i \in n+1..n+m
<1>1. core \in Seq(Entry) /\ relevant \in Seq(Entry)
  BY DEF ProjectionInv, TypeOK
<1>2. proj'.core = core /\ proj'.relevant = relevant
  BY DEF Finish
<1>3. Injected' = core \o relevant
  BY <1>2 DEF Injected
<1>4. /\ core \o relevant \in Seq(Entry) /\ Len(core) \in Nat /\ Len(relevant) \in Nat
      /\ Len(core \o relevant) = Len(core) + Len(relevant)
      /\ \A i \in 1..Len(core) : (core \o relevant)[i] = core[i]
      /\ \A i \in Len(core)+1..Len(core)+Len(relevant) :
           (core \o relevant)[i] = relevant[i - Len(core)]
  BY <1>1, Concat
<1>5. /\ DOMAIN core = 1..Len(core) /\ DOMAIN relevant = 1..Len(relevant)
      /\ DOMAIN (core \o relevant) = 1..Len(core)+Len(relevant)
  BY <1>1, <1>4
<1>6. /\ \A i \in Len(core)+1..Len(core)+Len(relevant) : i - Len(core) \in 1..Len(relevant)
      /\ \A i \in 1..Len(core)+Len(relevant) :
           i \in 1..Len(core) \/ i \in Len(core)+1..Len(core)+Len(relevant)
  BY <1>4
<1>7. QED
  BY <1>2, <1>3, <1>4, <1>5, <1>6

\* No memory appears twice in one prompt, for any registry of kinds, any caps and
\* any interleaving of Project's reads with the other users of the store.
THEOREM NoDuplicateAlways == Spec => []NoDuplicate
<1>1. Init => NoDuplicate
  <2> SUFFICES ASSUME Init PROVE NoDuplicate
    OBVIOUS
  <2>1. proj.core = <<>> /\ proj.relevant = <<>>
    BY DEF Init
  <2>2. <<>> \o <<>> = <<>> /\ \A i : i \notin DOMAIN <<>>
    OBVIOUS
  <2>3. \A i : i \notin DOMAIN Injected
    BY <2>1, <2>2 DEF Injected
  <2>4. QED
    BY <2>3 DEF NoDuplicate
<1>2. ProjectionInv /\ NoDuplicate /\ [Next]_vars => NoDuplicate'
  <2> SUFFICES ASSUME ProjectionInv, NoDuplicate, [Next]_vars PROVE NoDuplicate'
    OBVIOUS
  <2>1. CASE proj' = proj
    <3>1. Injected' = Injected
      BY <2>1 DEF Injected
    <3>2. QED
      BY <3>1 DEF NoDuplicate
  <2>2. CASE proj' # proj
    <3>1. Finish
      BY <2>2, OnlyFinish DEF vars
    <3> DEFINE n == Len(core)
               m == Len(relevant)
    <3>2. /\ n \in Nat /\ m \in Nat /\ DOMAIN Injected' = 1..n+m
          /\ DOMAIN core = 1..n /\ DOMAIN relevant = 1..m
          /\ \A i \in 1..n : Injected'[i] = core[i]
          /\ \A i \in n+1..n+m : i - n \in 1..m /\ Injected'[i] = relevant[i - n]
          /\ \A i \in 1..n+m : i \in 1..n \/ i \in n+1..n+m
      BY <3>1, HandedOver
    <3>3. /\ \A i \in 1..n : Kind(core[i]) \in AlwaysInclude
          /\ \A i \in 1..m : Kind(relevant[i]) \notin AlwaysInclude
          /\ \A i, j \in 1..n : i # j => core[i].id # core[j].id
          /\ \A i, j \in 1..m : i # j => relevant[i].id # relevant[j].id
      BY <3>2 DEF ProjectionInv, GatherInv, DistinctIDs
    <3> HIDE DEF n, m
    <3>4. ASSUME NEW i \in 1..n+m, NEW j \in 1..n+m, i # j
          PROVE  Injected'[i].id # Injected'[j].id
      <4>1. CASE i \in 1..n /\ j \in 1..n
        BY <3>2, <3>3, <3>4, <4>1
      <4>2. CASE i \in 1..n /\ j \in n+1..n+m
        <5>1. Kind(Injected'[i]) # Kind(Injected'[j])
          BY <3>2, <3>3, <4>2
        <5>2. QED
          BY <5>1 DEF Kind
      <4>3. CASE i \in n+1..n+m /\ j \in 1..n
        <5>1. Kind(Injected'[i]) # Kind(Injected'[j])
          BY <3>2, <3>3, <4>3
        <5>2. QED
          BY <5>1 DEF Kind
      <4>4. CASE i \in n+1..n+m /\ j \in n+1..n+m
        <5>1. i - n # j - n
          BY <3>2, <3>4, <4>4
        <5>2. QED
          BY <3>2, <3>3, <4>4, <5>1
      <4>5. QED
        BY <3>2, <4>1, <4>2, <4>3, <4>4
    <3>5. QED
      BY <3>2, <3>4 DEF NoDuplicate
  <2>3. QED
    BY <2>1, <2>2
<1>3. QED
  BY <1>1, <1>2, ProjectionInvariant, PTL DEF Spec

\* RELEVANT never takes the prompt over the item budget, for every cap.
THEOREM WithinBudgetAlways == Spec => []WithinBudget
<1>1. Init => WithinBudget
  BY DEF Init, WithinBudget
<1>2. ProjectionInv /\ WithinBudget /\ [Next]_vars => WithinBudget'
  <2> SUFFICES ASSUME ProjectionInv, WithinBudget, [Next]_vars PROVE WithinBudget'
    OBVIOUS
  <2>1. CASE proj' = proj
    BY <2>1 DEF WithinBudget, Injected, maxItems
  <2>2. CASE proj' # proj
    <3>1. Finish
      BY <2>2, OnlyFinish DEF vars
    <3>2. Len(Injected') = Len(core) + Len(relevant) /\ proj'.relevant = relevant
      BY <3>1, HandedOver
    <3>3. relevant # <<>> => Len(core) + Len(relevant) <= maxItems
      BY DEF ProjectionInv, GatherInv
    <3>4. QED
      BY <3>2, <3>3 DEF WithinBudget, maxItems
  <2>3. QED
    BY <2>1, <2>2
<1>3. QED
  BY <1>1, <1>2, ProjectionInvariant, PTL DEF Spec

\* Every memory in a prompt was in the store during the call that built it.
THEOREM FreshMemoriesAlways == Spec => FreshMemories
<1>1. ProjectionInv /\ [Next]_vars
        => [\A i \in DOMAIN Injected' : Injected'[i] \in UNION during]_proj
  <2> SUFFICES ASSUME ProjectionInv, [Next]_vars, proj' # proj, NEW i \in DOMAIN Injected'
               PROVE  Injected'[i] \in UNION during
    OBVIOUS
  <2>1. Finish
    BY OnlyFinish DEF vars
  <2> DEFINE n == Len(core)
             m == Len(relevant)
  <2>2. /\ DOMAIN Injected' = 1..n+m
        /\ DOMAIN core = 1..n /\ DOMAIN relevant = 1..m
        /\ \A j \in 1..n : Injected'[j] = core[j]
        /\ \A j \in n+1..n+m : j - n \in 1..m /\ Injected'[j] = relevant[j - n]
        /\ \A j \in 1..n+m : j \in 1..n \/ j \in n+1..n+m
    BY <2>1, HandedOver
  <2>3. /\ \A j \in 1..n : core[j] \in UNION during
        /\ \A j \in 1..m : relevant[j] \in UNION during
    BY <2>2 DEF ProjectionInv, GatherInv
  <2> HIDE DEF n, m
  <2>4. CASE i \in 1..n
    BY <2>2, <2>3, <2>4
  <2>5. CASE i \in n+1..n+m
    BY <2>2, <2>3, <2>5
  <2>6. QED
    BY <2>2, <2>4, <2>5
<1>2. QED
  BY <1>1, ProjectionInvariant, PTL DEF Spec, FreshMemories

\* While CORE stays the same, what the provider cached of the last prompt starts
\* the next one.
THEOREM StablePrefixAlways == Spec => StablePrefix
<1> DEFINE Stable == IF proj.mark > 0 THEN proj.mark
                     ELSE Len(proj.msgs) - Len(Block("relevant", proj.relevant))
<1>1. ProjectionInv /\ [Next]_vars
        => [proj'.core = proj.core => IsPrefix(SubSeq(proj.msgs, 1, Stable), proj'.msgs)]_proj
  <2> SUFFICES ASSUME ProjectionInv, [Next]_vars, proj' # proj, proj'.core = proj.core
               PROVE  IsPrefix(SubSeq(proj.msgs, 1, Stable), proj'.msgs)
    OBVIOUS
  <2>1. Finish
    BY OnlyFinish DEF vars
  <2>2. TypeOK /\ PromptInv
    BY DEF ProjectionInv
  <2>3. PICK k \in 0..Len(conv) :
          proj.msgs = Block("core", proj.core) \o Said(k) \o Block("relevant", proj.relevant)
    BY <2>2 DEF PromptInv
  <2> DEFINE old == proj.msgs
             new == proj'.msgs
             c == Block("core", core)
             b == Len(c)
             N == Len(conv)
  <2>4. /\ proj.core = core /\ N \in Nat
        /\ new = c \o Said(N) \o Block("relevant", relevant)
    BY <2>1, <2>2, PromptNow DEF Finish
  <2>5. /\ proj.core \in Seq(Entry) /\ proj.relevant \in Seq(Entry)
        /\ core \in Seq(Entry) /\ relevant \in Seq(Entry)
        /\ proj.mark \in Nat
    BY <2>2 DEF TypeOK, Prompts
  <2>6. /\ old \in Seq(Role) /\ b \in {0, 1}
        /\ Len(old) = b + k + IF proj.relevant = <<>> THEN 0 ELSE 1
        /\ \A i \in 1..b : old[i] = c[i]
        /\ \A i \in b+1..b+k : old[i] = Message("conversation", conv[i - b])
    <3>1. Parts(old, core, k, proj.relevant)
      BY <2>2, <2>3, <2>4, <2>5, PromptParts
    <3>2. QED
      BY <3>1 DEF Parts
  <2>7. N \in 0..N
    BY <2>4
  <2>8. /\ new \in Seq(Role)
        /\ Len(new) = b + N + IF relevant = <<>> THEN 0 ELSE 1
        /\ \A i \in 1..b : new[i] = c[i]
        /\ \A i \in b+1..b+N : new[i] = Message("conversation", conv[i - b])
    <3>1. Parts(new, core, N, relevant)
      BY <2>2, <2>4, <2>5, <2>7, PromptParts
    <3>2. QED
      BY <3>1 DEF Parts
  <2>9. Stable = b + k
    <3>1. proj.mark > 0 => proj.relevant # <<>> /\ proj.mark = Len(old) - 1
      BY <2>2 DEF PromptInv
    <3>2. k \in Nat /\ b \in Nat
      BY <2>3, <2>4, <2>6
    <3>3. Len(Block("relevant", proj.relevant)) = IF proj.relevant = <<>> THEN 0 ELSE 1
      BY <2>5, BlockType
    <3> HIDE DEF b, c, old
    <3>4. QED
      BY <2>5, <2>6, <3>1, <3>2, <3>3 DEF Stable, old
  <2> HIDE DEF old, new, c, b, N, Stable
  <2>10. /\ b + k \in Nat /\ b + k <= Len(old) /\ b + k <= Len(new) /\ k \in Nat /\ k <= N
    BY <2>3, <2>4, <2>6, <2>8 DEF N
  <2>11. \A i \in 1..b+k : i \in 1..b \/ (i \in b+1..b+k /\ i \in b+1..b+N)
    BY <2>4, <2>6, <2>10
  <2>12. \A i \in 1..b+k : old[i] = new[i]
    BY <2>6, <2>8, <2>11
  <2> DEFINE p == SubSeq(old, 1, b + k)
  <2>13. /\ p \in Seq(Role) /\ Len(p) = b + k
         /\ \A i \in 1..b+k : p[i] = old[i]
    BY <2>6, <2>10
  <2>14. SubSeq(p, 1, b + k) = SubSeq(new, 1, b + k)
    <3> HIDE DEF p
    <3>1. /\ SubSeq(p, 1, b + k) \in Seq(Role) /\ Len(SubSeq(p, 1, b + k)) = b + k
          /\ \A i \in 1..b+k : SubSeq(p, 1, b + k)[i] = p[i]
      BY <2>10, <2>13
    <3>2. /\ SubSeq(new, 1, b + k) \in Seq(Role) /\ Len(SubSeq(new, 1, b + k)) = b + k
          /\ \A i \in 1..b+k : SubSeq(new, 1, b + k)[i] = new[i]
      BY <2>8, <2>10
    <3>3. \A i \in 1..b+k : SubSeq(p, 1, b + k)[i] = SubSeq(new, 1, b + k)[i]
      BY <2>12, <2>13, <3>1, <3>2
    <3> DEFINE s == SubSeq(p, 1, b + k)
               t == SubSeq(new, 1, b + k)
    <3> HIDE DEF s, t
    <3>4. s \in Seq(Role) /\ t \in Seq(Role) /\ Len(s) = Len(t) /\ \A i \in 1..Len(s) : s[i] = t[i]
      BY <3>1, <3>2, <3>3 DEF s, t
    <3>5. s = t
      BY <3>4
    <3>6. QED
      BY <3>5 DEF s, t
  <2>15. QED
    BY <2>9, <2>10, <2>13, <2>14 DEF IsPrefix, old, new
<1>2. QED
  BY <1>1, ProjectionInvariant, PTL DEF Spec, StablePrefix

\* The entries the recaller leaves out outrank none of those it returns, whatever
\* the scores are and however ties fall.
THEOREM TopRankedAlways == Spec => TopRanked
<1> DEFINE Best == \A i \in DOMAIN relevant', e \in live \ ToSet(relevant') :
                     Wanted(e) /\ Kind(e) \notin AlwaysInclude => ~Ranked(e, relevant'[i])
<1>1. ProjectionInv /\ [Next]_vars => [pc = "recall" => Best]_pc
  <2> SUFFICES ASSUME ProjectionInv, Next, pc' # pc, pc = "recall",
                      NEW a \in DOMAIN relevant', NEW e \in live \ ToSet(relevant'),
                      Wanted(e), Kind(e) \notin AlwaysInclude
               PROVE  ~Ranked(e, relevant'[a])
    BY DEF vars
  <2>1. RecallForBudget
    <3>1. ASSUME NEW c \in Writes, NEW tags \in SUBSET Tags,
                 AppendKnown(c, tags) \/ \E t \in Times : AppendNew(c, tags, t)
          PROVE  FALSE
      BY <3>1 DEF AppendKnown, AppendNew, Write, projectVars
    <3>2. ASSUME NEW c \in Writes, Forget(c) PROVE FALSE
      BY <3>2 DEF Forget, Write, projectVars
    <3>3. ASSUME NEW m \in TurnMessages, AddTurn(m) PROVE FALSE
      BY <3>3 DEF AddTurn
    <3>4. ASSUME NEW kind \in AlwaysInclude, ReadKind(kind) PROVE FALSE
      BY <3>4 DEF ReadKind
    <3>5. ASSUME ProjectBegin \/ InnerFails \/ Finish PROVE FALSE
      BY <3>5 DEF ProjectBegin, InnerFails, Finish
    <3>6. QED
      BY <3>1, <3>2, <3>3, <3>4, <3>5 DEF Next
  <2>2. relevant' # <<>>
    OBVIOUS
  <2>3. core \in Seq(Entry) /\ Len(core) \in Nat /\ maxItems \in Nat
    BY Caps DEF ProjectionInv, TypeOK
  <2> DEFINE budget == maxItems - Len(core)
             S == {x \in live : Wanted(x)}
  <2>4. PICK es \in SimpleRecall(budget) \cup OnError : budget > 0 /\ relevant' = NotCore(es)
    BY <2>1, <2>2, <2>3 DEF RecallForBudget
  <2>5. es # <<>>
    <3>1. SUFFICES ASSUME es = <<>> PROVE FALSE
      OBVIOUS
    <3>2. es \in Seq(Entry) /\ Len(es) = 0
      BY <3>1
    <3>3. NotCore(es) \in Seq(Entry) /\ Len(NotCore(es)) <= 0
      BY <3>2, NotCoreFilters DEF Filtered
    <3>4. \A k \in Seq(Entry) : Len(k) <= 0 => k = <<>>
      OBVIOUS
    <3>5. QED
      BY <2>2, <2>4, <3>3, <3>4
  <2>6. PICK s \in SetToSeqs(S) : /\ es = Cut(s, budget)
                                  /\ \A i, j \in DOMAIN s : i < j => ~Ranked(s[j], s[i])
    BY <2>4, <2>5 DEF SimpleRecall, BestFirst, OnError
  <2>7. S \in SUBSET Entry /\ IsFiniteSet(S)
    <3>1. S \in SUBSET live
      OBVIOUS
    <3> HIDE DEF S
    <3>2. QED
      BY <3>1, FS_Subset DEF ProjectionInv, TypeOK, StoreInv
  <2>8. e \in S
    OBVIOUS
  <2> HIDE DEF S
  <2>9. s \in Seq(Entry) /\ \E i \in 1..Len(s) : s[i] = e
    BY <2>6, <2>7, <2>8, SequenceOfSet
  <2>10. budget \in Nat
    BY <2>3, <2>4
  <2> HIDE DEF budget
  <2>11. /\ es \in Seq(Entry) /\ Len(es) <= Len(s)
         /\ \A i \in 1..Len(es) : es[i] = s[i]
    BY <2>6, <2>9, <2>10, CutPrefix
  <2> DEFINE k == relevant'
             n == Len(es)
             l == Len(s)
  <2>12. Filtered(es, n, k)
    BY <2>4, <2>11, NotCoreFilters
  <2>13. DOMAIN k = 1..Len(k) /\ n \in Nat /\ l \in Nat /\ DOMAIN s = 1..l /\ n <= l
    BY <2>9, <2>11, <2>12 DEF Filtered
  <2> HIDE DEF k, n, l
  <2>14. a \in 1..Len(k)
    BY <2>13 DEF k
  <2>15. PICK i \in 1..n : k[a] = es[i]
    BY <2>12, <2>14 DEF Filtered
  <2>16. PICK j \in 1..l : s[j] = e
    BY <2>9 DEF l
  <2>17. ~(j \in 1..n)
    <3>1. SUFFICES ASSUME j \in 1..n PROVE FALSE
      OBVIOUS
    <3>2. es[j] = e
      BY <2>11, <2>16, <3>1 DEF n
    <3>3. PICK d \in 1..Len(k) : k[d] = e
      BY <2>12, <3>1, <3>2 DEF Filtered
    <3>4. QED
      BY <2>13, <3>3 DEF ToSet, k
  <2>18. i < j /\ i \in 1..l /\ k[a] = s[i]
    BY <2>11, <2>13, <2>15, <2>16, <2>17 DEF n
  <2>19. ~Ranked(s[j], s[i])
    BY <2>6, <2>13, <2>16, <2>18
  <2>20. QED
    BY <2>16, <2>18, <2>19 DEF k
<1>2. QED
  BY <1>1, ProjectionInvariant, PTL DEF Spec, TopRanked
===============================================================================
