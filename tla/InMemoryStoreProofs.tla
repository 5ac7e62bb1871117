------------------------- MODULE InMemoryStoreProofs -------------------------
(***************************************************************************)
(* The map-based memory store keeps its key index exact and implements the *)
(* promise of memory.Store, for any agents, keys, bodies, tags and clock.  *)
(* IndexExact is what makes the refinement work: a supersession deletes    *)
(* the entry the index names, so it removes what the abstract Append       *)
(* removes only if the index names every live entry under its key and no   *)
(* other.                                                                  *)
(***************************************************************************)
EXTENDS InMemoryStore, TLAPS

\* A new entry carries its content's Key and is well typed; so is a merged one.
LEMMA EntryFacts ==
  ASSUME NEW c \in Content, NEW tags \in SUBSET Tags
  PROVE  /\ \A t \in Times : /\ NewEntry(c, tags, t) \in Entry
                             /\ NewEntry(c, tags, t).id = c
                             /\ NewEntry(c, tags, t).key = c.key
         /\ \A e \in Entry : /\ Merge(e, tags) \in Entry
                             /\ Merge(e, tags).id = e.id
                             /\ Merge(e, tags).key = e.key
BY DEF NewEntry, Merge, Entry, Content

\* Two contents share a slot of the key index exactly if agent and Key agree.
LEMMA SlotFacts ==
  ASSUME NEW c \in Content, NEW d \in Content
  PROVE  /\ Slot(c) = Slot(d) <=> c.agent = d.agent /\ c.key = d.key
         /\ c.key # NoKey => Slot(c) \in Agents \X Keys
BY DEF Slot, agentKeyIndex, Content

Inv == TypeOK /\ IndexExact

\* The maps start empty.
LEMMA InitInv == Init => Inv
BY DEF Init, Empty, Inv, TypeOK, IndexExact, Returned

\* Re-Append of a live content changes tags only; the index already names it.
LEMMA ExistingInv ==
  ASSUME Inv, NEW c \in Content, NEW tags \in SUBSET Tags, AppendExisting(c, tags)
  PROVE  Inv'
<1>1. entries[c] \in Entry /\ entries[c].id = c /\ entries[c].key = c.key
  BY DEF Inv, TypeOK, IndexExact, AppendExisting
<1>2. /\ Merge(entries[c], tags) \in Entry
      /\ Merge(entries[c], tags).id = c
      /\ Merge(entries[c], tags).key = c.key
  BY <1>1, EntryFacts
<1>3. /\ DOMAIN entries' = DOMAIN entries
      /\ entries'[c] = Merge(entries[c], tags)
      /\ \A d \in DOMAIN entries : d # c => entries'[d] = entries[d]
  BY DEF AppendExisting, Put
<1>4. /\ DOMAIN keyToID' = DOMAIN keyToID
      /\ \A k \in DOMAIN keyToID : keyToID'[k] = keyToID[k]
  <2>1. CASE c.key = NoKey
    BY <2>1 DEF AppendExisting
  <2>2. CASE c.key # NoKey
    <3>1. Slot(c) \in DOMAIN keyToID /\ keyToID[Slot(c)] = c
      BY <2>2 DEF Inv, IndexExact, AppendExisting
    <3> QED BY <2>2, <3>1 DEF AppendExisting, Put
  <2> QED BY <2>1, <2>2
<1>5. TypeOK'
  BY <1>2, <1>3, <1>4 DEF Inv, TypeOK, AppendExisting, Returned
<1>6. IndexExact'
  BY <1>2, <1>3, <1>4 DEF Inv, IndexExact
<1> QED BY <1>5, <1>6 DEF Inv

\* What an Append under a key deletes is what sits at its (AgentID, Key).
LEMMA PriorIsSameFact ==
  ASSUME Inv, NEW c \in Content, NEW d \in DOMAIN entries
  PROVE  d \in Prior(c) <=> SameFact(entries[d], c)
<1>1. /\ d \in Content
      /\ entries[d].id = d
      /\ entries[d].key = d.key
      /\ d.key # NoKey => Slot(d) \in DOMAIN keyToID /\ keyToID[Slot(d)] = d
  BY DEF Inv, TypeOK, IndexExact
<1>2. Slot(c) = Slot(d) <=> c.agent = d.agent /\ c.key = d.key
  BY <1>1, SlotFacts
<1>3. SameFact(entries[d], c) <=> c.key # NoKey /\ Slot(c) = Slot(d)
  BY <1>1, <1>2 DEF SameFact
<1>4. d \in Prior(c) <=> c.key # NoKey /\ Slot(c) \in DOMAIN keyToID /\ keyToID[Slot(c)] = d
  BY DEF Prior
<1>5. ASSUME Slot(c) \in DOMAIN keyToID, keyToID[Slot(c)] = d
      PROVE  Slot(c) = Slot(d)
  BY <1>5 DEF Inv, IndexExact
<1>6. ASSUME c.key # NoKey, Slot(c) = Slot(d)
      PROVE  Slot(c) \in DOMAIN keyToID /\ keyToID[Slot(c)] = d
  BY <1>1, <1>2, <1>6
<1> QED BY <1>3, <1>4, <1>5, <1>6

\* A new content takes its key over and leaves every other key alone.
LEMMA FreshInv ==
  ASSUME Inv, NEW c \in Content, NEW tags \in SUBSET Tags, AppendFresh(c, tags)
  PROVE  Inv'
<1> DEFINE e == NewEntry(c, tags, now)
<1>1. e \in Entry /\ e.id = c /\ e.key = c.key
  BY EntryFacts DEF Inv, TypeOK
<1> HIDE DEF e
<1>2. /\ DOMAIN entries' = (DOMAIN entries \ Prior(c)) \cup {c}
      /\ entries'[c] = e
      /\ \A d \in DOMAIN entries \ Prior(c) : d # c => entries'[d] = entries[d]
  BY DEF AppendFresh, Put, Drop, Restrict, e
<1>3. /\ c.key = NoKey => keyToID' = keyToID
      /\ c.key # NoKey => /\ DOMAIN keyToID' = DOMAIN keyToID \cup {Slot(c)}
                          /\ keyToID'[Slot(c)] = c
                          /\ \A k \in DOMAIN keyToID : k # Slot(c) => keyToID'[k] = keyToID[k]
  BY DEF AppendFresh, Put
<1>4. TypeOK'
  BY <1>1, <1>2, <1>3, SlotFacts DEF Inv, TypeOK, AppendFresh, Returned, e
<1>5. ASSUME NEW d \in DOMAIN entries'
      PROVE  /\ entries'[d].id = d
             /\ entries'[d].key = d.key
             /\ d.key # NoKey => Slot(d) \in DOMAIN keyToID' /\ keyToID'[Slot(d)] = d
  <2>1. CASE d = c
    BY <2>1, <1>1, <1>2, <1>3
  <2>2. CASE d # c
    <3>1. d \in DOMAIN entries /\ d \notin Prior(c) /\ entries'[d] = entries[d]
      BY <2>2, <1>2
    <3>2. /\ entries[d].id = d /\ entries[d].key = d.key /\ d \in Content
          /\ d.key # NoKey => Slot(d) \in DOMAIN keyToID /\ keyToID[Slot(d)] = d
      BY <3>1 DEF Inv, IndexExact, TypeOK
    <3>3. c.key # NoKey => Slot(d) # Slot(c)
      BY <3>1, <3>2, SlotFacts, PriorIsSameFact DEF SameFact
    <3> QED BY <3>1, <3>2, <3>3, <1>3
  <2> QED BY <2>1, <2>2
<1>6. ASSUME NEW k \in DOMAIN keyToID'
      PROVE  /\ keyToID'[k] \in DOMAIN entries'
             /\ keyToID'[k].key # NoKey
             /\ Slot(keyToID'[k]) = k
  <2>1. CASE c.key # NoKey /\ k = Slot(c)
    BY <2>1, <1>2, <1>3
  <2>2. CASE ~(c.key # NoKey /\ k = Slot(c))
    <3>1. k \in DOMAIN keyToID /\ keyToID'[k] = keyToID[k]
      BY <2>2, <1>3
    <3>2. keyToID[k] \in DOMAIN entries /\ keyToID[k].key # NoKey /\ Slot(keyToID[k]) = k
      BY <3>1 DEF Inv, IndexExact
    <3>3. keyToID[k] \notin Prior(c)
      <4>1. ASSUME keyToID[k] \in Prior(c) PROVE FALSE
        <5>1. c.key # NoKey /\ Slot(c) \in DOMAIN keyToID /\ keyToID[k] = keyToID[Slot(c)]
          BY <4>1 DEF Prior
        <5>2. Slot(keyToID[Slot(c)]) = Slot(c)
          BY <5>1 DEF Inv, IndexExact
        <5> QED BY <5>1, <5>2, <3>2, <2>2
      <4> QED BY <4>1
    <3> QED BY <3>1, <3>2, <3>3, <1>2
  <2> QED BY <2>1, <2>2
<1> QED BY <1>4, <1>5, <1>6 DEF Inv, IndexExact

\* Forget frees the key of the entry it removes and no other.
LEMMA ForgetInv ==
  ASSUME Inv, NEW c \in Content, Forget(c)
  PROVE  Inv'
<1>1. /\ DOMAIN entries' = DOMAIN entries \ {c}
      /\ \A d \in DOMAIN entries \ {c} : entries'[d] = entries[d]
  BY DEF Forget, Drop, Restrict
<1>2. CASE c \in DOMAIN entries /\ c.key # NoKey
  <2>1. /\ entries[c].id = c /\ entries[c].key = c.key
        /\ Slot(c) \in DOMAIN keyToID /\ keyToID[Slot(c)] = c
    BY <1>2 DEF Inv, IndexExact
  <2>2. /\ DOMAIN keyToID' = DOMAIN keyToID \ {Slot(c)}
        /\ \A k \in DOMAIN keyToID \ {Slot(c)} : keyToID'[k] = keyToID[k]
    BY <1>2, <2>1 DEF Forget, Drop, Restrict, Slot
  <2>3. TypeOK'
    BY <1>1, <2>2 DEF Inv, TypeOK, Forget, Returned
  <2>4. \A d \in DOMAIN entries' : d.key # NoKey => Slot(d) # Slot(c)
    BY <1>1, <2>1 DEF Inv, IndexExact
  <2>5. \A k \in DOMAIN keyToID' : keyToID[k] # c
    BY <2>2 DEF Inv, IndexExact
  <2>6. IndexExact'
    BY <1>1, <2>2, <2>4, <2>5 DEF Inv, IndexExact
  <2> QED BY <2>3, <2>6 DEF Inv
<1>3. CASE ~(c \in DOMAIN entries /\ c.key # NoKey)
  <2>1. keyToID' = keyToID
    BY <1>3 DEF Forget, Inv, IndexExact
  <2>2. TypeOK'
    BY <1>1, <2>1 DEF Inv, TypeOK, Forget, Returned
  <2>3. \A k \in DOMAIN keyToID : keyToID[k] # c
    BY <1>3 DEF Inv, IndexExact
  <2>4. IndexExact'
    BY <1>1, <2>1, <2>3 DEF Inv, IndexExact
  <2> QED BY <2>2, <2>4 DEF Inv
<1> QED BY <1>2, <1>3

\* Every step of the store keeps the maps in step.
LEMMA NextInv == Inv /\ [Next]_vars => Inv'
<1> SUFFICES ASSUME Inv, [Next]_vars PROVE Inv'
  OBVIOUS
<1>1. ASSUME NEW c \in Content, NEW tags \in SUBSET Tags, Append(c, tags)
      PROVE  Inv'
  BY <1>1, ExistingInv, FreshInv DEF Append
<1>2. ASSUME NEW c \in Content, Forget(c)
      PROVE  Inv'
  BY <1>2, ForgetInv
<1>3. CASE Tick
  BY <1>3 DEF Tick, Inv, TypeOK, IndexExact
<1>4. CASE UNCHANGED vars
  BY <1>4 DEF vars, Inv, TypeOK, IndexExact
<1> QED BY <1>1, <1>2, <1>3, <1>4 DEF Next

\* The key index names exactly the live keyed entries in every reachable state:
\* Append (store_inmemory.go) supersedes the right entry and Forget leaves no
\* dangling key, for any number of agents, keys and contents.
THEOREM IndexExactAlways == Spec => []IndexExact
<1>1. Spec => []Inv
  BY InitInv, NextInv, PTL DEF Spec
<1>2. Inv => IndexExact
  BY DEF Inv
<1> QED BY <1>1, <1>2, PTL

\* Types of the store's maps in every reachable state.
THEOREM TypeCorrect == Spec => []TypeOK
<1>1. Spec => []Inv
  BY InitInv, NextInv, PTL DEF Spec
<1>2. Inv => TypeOK
  BY DEF Inv
<1> QED BY <1>1, <1>2, PTL

------------------------------------------------------------------------------
(* Refinement *)

\* Live entries are exactly the values of the map.
LEMMA InLive ==
  ASSUME NEW x PROVE x \in Live <=> \E d \in DOMAIN entries : x = entries[d]
BY DEF Live

\* A re-Append of a live content is the abstract tag merge.
LEMMA ExistingRefines ==
  ASSUME Inv, NEW c \in Content, NEW tags \in SUBSET Tags, AppendExisting(c, tags)
  PROVE  Memory!AppendKnown(c, tags)
<1> DEFINE e == entries[c]
<1>1. c \in DOMAIN entries /\ e \in Live /\ e.id = c
  BY DEF AppendExisting, Live, Inv, IndexExact
<1>2. Live' = (Live \ {e}) \cup {Merge(e, tags)}
  <2>1. /\ DOMAIN entries' = DOMAIN entries
        /\ entries'[c] = Merge(e, tags)
        /\ \A d \in DOMAIN entries : d # c => entries'[d] = entries[d]
    BY DEF AppendExisting, Put
  <2>2. \A d \in DOMAIN entries : d # c => entries[d] # e
    BY <1>1 DEF Inv, IndexExact
  <2> QED BY <2>1, <2>2, <1>1 DEF Live
<1>3. returned' = Merge(e, tags)
  BY DEF AppendExisting
<1> QED BY <1>1, <1>2, <1>3 DEF Memory!AppendKnown, Merge, Memory!Merge

\* An Append of a new content is the abstract supersession: it removes the
\* entries at the same (AgentID, Key) and nothing else.
LEMMA FreshRefines ==
  ASSUME Inv, NEW c \in Content, NEW tags \in SUBSET Tags, AppendFresh(c, tags)
  PROVE  Memory!AppendNew(c, tags, now)
<1> DEFINE e == NewEntry(c, tags, now)
<1>1. \A x \in Live : x.id # c
  BY DEF AppendFresh, Live, Inv, IndexExact
<1>2. /\ DOMAIN entries' = (DOMAIN entries \ Prior(c)) \cup {c}
      /\ entries'[c] = e
      /\ \A d \in DOMAIN entries \ Prior(c) : entries'[d] = entries[d]
  BY DEF AppendFresh, Put, Drop, Restrict
<1>3. \A d \in DOMAIN entries : d \in Prior(c) <=> SameFact(entries[d], c)
  BY PriorIsSameFact
<1>4. Live' = {x \in Live : ~SameFact(x, c)} \cup {e}
  <2> HIDE DEF e
  <2> QED BY <1>2, <1>3 DEF Live
<1>5. returned' = e
  BY DEF AppendFresh
<1> QED BY <1>1, <1>4, <1>5 DEF Memory!AppendNew, SameFact, Memory!SameFact, NewEntry, Memory!NewEntry

\* Forget removes the entry from the abstract set and leaves the others.
LEMMA ForgetRefines ==
  ASSUME Inv, NEW c \in Content, Forget(c)
  PROVE  Memory!Forget(c)
<1>1. /\ DOMAIN entries' = DOMAIN entries \ {c}
      /\ \A d \in DOMAIN entries \ {c} : entries'[d] = entries[d]
  BY DEF Forget, Drop, Restrict
<1>2. \A d \in DOMAIN entries : entries[d].id = d
  BY DEF Inv, IndexExact
<1>3. Live' = {x \in Live : x.id # c}
  BY <1>1, <1>2 DEF Live
<1> QED BY <1>3 DEF Forget, Memory!Forget

\* InMemoryStore (Append, Forget of store_inmemory.go) implements the promise of
\* memory.Store stated in KeyedMemory: an Append replaces exactly the entry at
\* its (AgentID, Key), a re-Append merges tags and keeps CreatedAt, the returned
\* entry is the stored one, and a forgotten entry is gone.
THEOREM ImplementsKeyedMemory == Spec => MemorySpec
<1>1. Init => Memory!Init
  BY DEF Init, Memory!Init, Live, Empty
<1>2. Inv /\ [Next]_vars => [Memory!Next]_Memory!vars
  <2> SUFFICES ASSUME Inv, [Next]_vars PROVE [Memory!Next]_Memory!vars
    OBVIOUS
  <2>1. ASSUME NEW c \in Content, NEW tags \in SUBSET Tags, Append(c, tags)
        PROVE  Memory!Next
    <3>1. CASE AppendExisting(c, tags)
      BY <3>1, ExistingRefines DEF Memory!Next, Content, Memory!Content
    <3>2. CASE AppendFresh(c, tags)
      <4>1. now \in Times
        BY DEF Inv, TypeOK
      <4> QED BY <3>2, <4>1, FreshRefines DEF Memory!Next, Content, Memory!Content
    <3> QED BY <2>1, <3>1, <3>2 DEF Append
  <2>2. ASSUME NEW c \in Content, Forget(c)
        PROVE  Memory!Next
    BY <2>2, ForgetRefines DEF Memory!Next, Content, Memory!Content
  <2>3. CASE Tick
    BY <2>3 DEF Tick, Memory!vars, Live
  <2>4. CASE UNCHANGED vars
    BY <2>4 DEF vars, Memory!vars, Live
  <2> QED BY <2>1, <2>2, <2>3, <2>4 DEF Next
<1>3. Spec => []Inv
  BY InitInv, NextInv, PTL DEF Spec
<1> QED BY <1>1, <1>2, <1>3, PTL DEF Spec, MemorySpec, Memory!Spec
==============================================================================
