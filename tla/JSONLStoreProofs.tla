--------------------------- MODULE JSONLStoreProofs ---------------------------
(***************************************************************************)
(* Proofs about JSONLStore, for all callers, agents, keys and contents and *)
(* files of any length: the append-only file keeps the promise of          *)
(* memory.Store, and nothing comes back from it that was not appended.     *)
(***************************************************************************)
EXTENDS JSONLStore, FiniteSetTheorems, WellFoundedInduction, TLAPS

-------------------------------------------------------------------------------
(* Positions *)

\* A non-empty set of naturals has a least element.
LEMMA LeastNat ==
  ASSUME NEW T \in SUBSET Nat, T # {}
  PROVE  \E x \in T : \A y \in T : x <= y
<1>1. PICK x \in T : \A y \in T : ~(<<y, x>> \in OpToRel(<, Nat))
  BY NatLessThanWellFounded, WFMin
<1>2. \A y \in T : ~(y < x)
  BY <1>1 DEF OpToRel
<1>3. QED
  BY <1>2

\* A non-empty set of positions has a last one.
LEMMA LastPosition ==
  ASSUME NEW n \in Nat, NEW T \in SUBSET (1..n), T # {}
  PROVE  \E x \in T : \A y \in T : y <= x
<1> DEFINE U == {n - y : y \in T}
<1>1. U \in SUBSET Nat
  OBVIOUS
<1>2. U # {}
  OBVIOUS
<1> HIDE DEF U
<1>3. PICK u \in U : \A v \in U : u <= v
  BY <1>1, <1>2, LeastNat
<1>4. PICK x \in T : u = n - x
  BY <1>3 DEF U
<1>5. \A y \in T : n - x <= n - y
  BY <1>3, <1>4 DEF U
<1>6. QED
  BY <1>5

-------------------------------------------------------------------------------
(* What readAllLocked makes of a file *)

\* A record is a put of an entry, a tombstone, or bytes that do not parse.
LEMMA RecordKinds ==
  /\ \A e \in Entry : /\ Put(e) \in Record /\ Put(e).kind = "put"
                      /\ Put(e).entry = e /\ RecID(Put(e)) = e.id
  /\ \A c \in Content : /\ Tombstone(c) \in Record /\ Tombstone(c).kind = "deleted"
                        /\ RecID(Tombstone(c)) = c
  /\ Broken \in Record /\ Broken.kind = "broken"
  /\ \A r \in Record : r.kind = "put" => r.entry \in Entry /\ RecID(r) = r.entry.id
<1>1. \A e \in Entry : Put(e) \in Record /\ Put(e).kind = "put" /\ Put(e).entry = e
  BY DEF Record, Put
<1>2. \A c \in Content : /\ Tombstone(c) \in Record /\ Tombstone(c).kind = "deleted"
                          /\ Tombstone(c).id = c
  BY DEF Record, Tombstone
<1>3. Broken \in Record /\ Broken.kind = "broken"
  BY DEF Record, Broken
<1>4. \A r \in Record : r.kind = "put" => \E e \in Entry : r = Put(e)
  BY <1>2, <1>3 DEF Record
<1>5. QED
  BY <1>1, <1>2, <1>3, <1>4 DEF RecID

\* The entry at position i of f is the last word on its ID.
IsLast(f, i) == f[i].kind = "put" /\ \A j \in i+1..Len(f) : RecID(f[j]) # RecID(f[i])

\* What the second pass keeps, position by position.
LEMMA ReplayMember ==
  ASSUME NEW f \in Seq(Record), NEW e
  PROVE  e \in Replay(f) <=>
           \E i \in 1..Len(f) : /\ IsLast(f, i) /\ f[i].entry = e
                                /\ e.key # NoKey => ~Superseded(f, e)
<1>1. DOMAIN f = 1..Len(f)
  OBVIOUS
<1>2. QED
  BY <1>1 DEF Replay, LastOf, IsLast

\* Entries that are live are entries.
LEMMA ReplayType ==
  ASSUME NEW f \in Seq(Record)
  PROVE  Replay(f) \subseteq Entry
BY ReplayMember, RecordKinds DEF IsLast

\* One entry per ID is live.
LEMMA OnePerID ==
  ASSUME NEW f \in Seq(Record), NEW e \in Replay(f), NEW x \in Replay(f), e.id = x.id
  PROVE  e = x
<1>1. PICK i \in 1..Len(f) : IsLast(f, i) /\ f[i].entry = e
  BY ReplayMember
<1>2. PICK j \in 1..Len(f) : IsLast(f, j) /\ f[j].entry = x
  BY ReplayMember
<1>3. RecID(f[i]) = e.id /\ RecID(f[j]) = x.id
  BY <1>1, <1>2, RecordKinds DEF IsLast
<1>4. i = j
  BY <1>1, <1>2, <1>3 DEF IsLast
<1>5. QED
  BY <1>1, <1>2, <1>4

\* Of two live entries with different IDs at most one is filed under a key: the
\* last put under the key supersedes the others.
LEMMA OneLivePerKey ==
  ASSUME NEW f \in Seq(Record), NEW e \in Replay(f), NEW x \in Replay(f),
         e.key # NoKey, x.key = e.key, x.id.agent = e.id.agent
  PROVE  e.id = x.id
<1> DEFINE T == {i \in 1..Len(f) : AtKey(f[i], e.id.agent, e.key)}
<1>1. PICK i \in 1..Len(f) : IsLast(f, i) /\ f[i].entry = e /\ ~Superseded(f, e)
  BY ReplayMember
<1>2. ~Superseded(f, x)
  BY ReplayMember
<1>3. i \in T
  BY <1>1 DEF IsLast, AtKey
<1>4. Len(f) \in Nat /\ DOMAIN f = 1..Len(f)
  OBVIOUS
<1>5. PICK m \in T : \A j \in T : j <= m
  BY <1>3, <1>4, LastPosition
<1>6. \A j \in m+1..Len(f) : ~AtKey(f[j], e.id.agent, e.key)
  BY <1>4, <1>5
<1>7. RecID(f[m]) = e.id
  BY <1>1, <1>4, <1>5, <1>6 DEF Superseded
<1>8. RecID(f[m]) = x.id
  BY <1>2, <1>4, <1>5, <1>6 DEF Superseded
<1>9. QED
  BY <1>7, <1>8

-------------------------------------------------------------------------------
(* One more record *)

\* Appending a record to a file.
LEMMA FileAppend ==
  ASSUME NEW f \in Seq(Record), NEW r \in Record
  PROVE  /\ Append(f, r) \in Seq(Record)
         /\ Len(f) \in Nat /\ Len(Append(f, r)) = Len(f) + 1
         /\ \A i \in 1..Len(f) : Append(f, r)[i] = f[i]
         /\ Append(f, r)[Len(f) + 1] = r
OBVIOUS

\* A record is the last word on an ID until another one names the ID.
LEMMA LastAppend ==
  ASSUME NEW f \in Seq(Record), NEW r \in Record, NEW i \in 1..Len(f)
  PROVE  IsLast(Append(f, r), i) <=> IsLast(f, i) /\ RecID(f[i]) # RecID(r)
<1> DEFINE g == Append(f, r)
<1>1. /\ Len(f) \in Nat /\ Len(g) = Len(f) + 1 /\ g[Len(f) + 1] = r
      /\ \A j \in 1..Len(f) : g[j] = f[j]
  BY FileAppend
<1> HIDE DEF g
<1>2. \A j : j \in i+1..Len(g) <=> j \in i+1..Len(f) \/ j = Len(f) + 1
  BY <1>1
<1>3. \A j \in i+1..Len(f) : j \in 1..Len(f)
  BY <1>1
<1>4. IsLast(g, i) <=> IsLast(f, i) /\ RecID(f[i]) # RecID(r)
  BY <1>1, <1>2, <1>3 DEF IsLast
<1>5. QED
  BY <1>4 DEF g

\* A put under the key of an entry decides whether the entry is superseded;
\* every other record leaves it as it was.
LEMMA SupersededAppend ==
  ASSUME NEW f \in Seq(Record), NEW r \in Record, NEW e
  PROVE  Superseded(Append(f, r), e) <=>
           IF AtKey(r, e.id.agent, e.key) THEN RecID(r) # e.id ELSE Superseded(f, e)
<1> DEFINE g == Append(f, r)
           At(s) == AtKey(s, e.id.agent, e.key)
<1>1. /\ Len(f) \in Nat /\ Len(g) = Len(f) + 1 /\ g[Len(f) + 1] = r
      /\ \A j \in 1..Len(f) : g[j] = f[j]
      /\ DOMAIN g = 1..Len(f) + 1 /\ DOMAIN f = 1..Len(f)
  BY FileAppend
<1>2. Superseded(g, e) <=>
        \E i \in 1..Len(f) + 1 : /\ At(g[i]) /\ RecID(g[i]) # e.id
                                 /\ \A j \in i+1..Len(f) + 1 : ~At(g[j])
  BY <1>1 DEF Superseded
<1>3. Superseded(f, e) <=>
        \E i \in 1..Len(f) : /\ At(f[i]) /\ RecID(f[i]) # e.id
                             /\ \A j \in i+1..Len(f) : ~At(f[j])
  BY <1>1 DEF Superseded
<1> HIDE DEF g, At
<1>4. CASE At(r)
  <2>1. \A i \in 1..Len(f) : ~(\A j \in i+1..Len(f) + 1 : ~At(g[j]))
    BY <1>1, <1>4
  <2>2. \A j : j \notin (Len(f) + 1) + 1..Len(f) + 1
    BY <1>1
  <2>3. Superseded(g, e) <=> RecID(r) # e.id
    BY <1>1, <1>2, <1>4, <2>1, <2>2
  <2>4. QED
    BY <1>4, <2>3 DEF g, At
<1>5. CASE ~At(r)
  <2>1. ASSUME NEW i \in 1..Len(f)
        PROVE  (\A j \in i+1..Len(f) + 1 : ~At(g[j])) <=> (\A j \in i+1..Len(f) : ~At(f[j]))
    BY <1>1, <1>5
  <2>2. Superseded(g, e) <=> Superseded(f, e)
    BY <1>1, <1>2, <1>3, <1>5, <2>1
  <2>3. QED
    BY <1>5, <2>2 DEF g, At
<1>6. QED
  BY <1>4, <1>5

\* What one more record does to the live entries.
LEMMA ReplayAppend ==
  ASSUME NEW f \in Seq(Record), NEW r \in Record, NEW x
  PROVE  x \in Replay(Append(f, r)) <=>
           \/ r.kind = "put" /\ r.entry = x
           \/ /\ x \in Replay(f)
              /\ x.id # RecID(r)
              /\ x.key # NoKey => ~AtKey(r, x.id.agent, x.key)
<1> DEFINE g == Append(f, r)
           n == Len(f) + 1
           Kept(i) == /\ IsLast(g, i) /\ g[i].entry = x
                      /\ x.key # NoKey => ~Superseded(g, x)
<1>1. /\ g \in Seq(Record) /\ Len(f) \in Nat /\ Len(g) = n /\ g[n] = r
      /\ \A j \in 1..Len(f) : g[j] = f[j]
  BY FileAppend
<1>2. x \in Replay(g) <=> \E i \in 1..n : Kept(i)
  BY <1>1, ReplayMember
<1>3. Kept(n) <=> r.kind = "put" /\ r.entry = x
  <2>1. IsLast(g, n) <=> r.kind = "put"
    BY <1>1 DEF IsLast
  <2>2. r.kind = "put" /\ r.entry = x => ~Superseded(g, x)
    <3>1. r.kind = "put" /\ r.entry = x => AtKey(r, x.id.agent, x.key) /\ RecID(r) = x.id
      BY RecordKinds DEF AtKey
    <3>2. QED
      BY <3>1, SupersededAppend
  <2>3. QED
    BY <1>1, <2>1, <2>2
<1>4. ASSUME NEW i \in 1..Len(f)
      PROVE  Kept(i) <=> /\ IsLast(f, i) /\ f[i].entry = x
                         /\ x.key # NoKey => ~Superseded(f, x)
                         /\ x.id # RecID(r)
                         /\ x.key # NoKey => ~AtKey(r, x.id.agent, x.key)
  <2>1. IsLast(f, i) => RecID(f[i]) = f[i].entry.id
    BY RecordKinds DEF IsLast
  <2>2. IsLast(g, i) <=> IsLast(f, i) /\ RecID(f[i]) # RecID(r)
    BY LastAppend
  <2>3. g[i] = f[i]
    BY <1>1
  <2>4. Superseded(g, x) <=>
          IF AtKey(r, x.id.agent, x.key) THEN RecID(r) # x.id ELSE Superseded(f, x)
    BY SupersededAppend
  <2> HIDE DEF g
  <2>5. QED
    BY <2>1, <2>2, <2>3, <2>4
<1>5. x \in Replay(f) <=> \E i \in 1..Len(f) : /\ IsLast(f, i) /\ f[i].entry = x
                                               /\ x.key # NoKey => ~Superseded(f, x)
  BY ReplayMember
<1>6. (\E i \in 1..n : Kept(i)) <=> Kept(n) \/ \E i \in 1..Len(f) : Kept(i)
  <2> HIDE DEF Kept
  <2>1. \A i : i \in 1..n <=> i \in 1..Len(f) \/ i = n
    BY <1>1
  <2>2. QED
    BY <2>1
<1> HIDE DEF Kept, g, n
<1>7. x \in Replay(g) <=>
           \/ r.kind = "put" /\ r.entry = x
           \/ /\ x \in Replay(f)
              /\ x.id # RecID(r)
              /\ x.key # NoKey => ~AtKey(r, x.id.agent, x.key)
  BY <1>2, <1>3, <1>4, <1>5, <1>6
<1>8. QED
  BY <1>7 DEF g

-------------------------------------------------------------------------------
(* Types *)

\* A stamped Append holds an entry.
LEMMA PendingType ==
  ASSUME TypeOK, NEW p \in Callers, pending[p] # <<>>
  PROVE  pending[p][1] \in Entry
BY DEF TypeOK

\* Merging tags changes nothing else.
LEMMA MergeType ==
  ASSUME NEW e \in Entry, NEW tags \in SUBSET Tags
  PROVE  /\ Merge(e, tags) \in Entry
         /\ Merge(e, tags).id = e.id /\ Merge(e, tags).key = e.key
         /\ tags \subseteq e.tags => Merge(e, tags) = e
<1>1. e = [id |-> e.id, key |-> e.key, tags |-> e.tags, created |-> e.created]
  BY DEF Entry
<1>2. Merge(e, tags) = [id |-> e.id, key |-> e.key, tags |-> e.tags \cup tags,
                        created |-> e.created]
  BY <1>1 DEF Merge
<1>3. e.tags \cup tags \in SUBSET Tags
  BY DEF Entry
<1>4. tags \subseteq e.tags => e.tags \cup tags = e.tags
  OBVIOUS
<1>5. QED
  BY <1>1, <1>2, <1>3, <1>4 DEF Entry

\* Append writes an entry with the ID that its caller's content has.
LEMMA ToWriteType ==
  ASSUME TypeOK, NEW p \in Callers, pending[p] # <<>>, NEW e \in ToWrite(p)
  PROVE  e \in Entry /\ e.id = pending[p][1].id
<1>1. pending[p][1] \in Entry /\ pending[p][1].tags \in SUBSET Tags
  BY PendingType DEF Entry
<1>2. \A x \in Existing(pending[p][1]) : x \in Entry /\ x.id = pending[p][1].id
  BY ReplayType DEF TypeOK, Existing
<1>3. CASE Existing(pending[p][1]) = {}
  BY <1>1, <1>3 DEF ToWrite
<1>4. CASE Existing(pending[p][1]) # {}
  <2>1. PICK x \in Existing(pending[p][1]) : e = Merge(x, pending[p][1].tags)
    BY <1>4 DEF ToWrite
  <2>2. QED
    BY <1>1, <1>2, <2>1, MergeType
<1>5. QED
  BY <1>3, <1>4

\* A line that is written ends the file, or ruins it together with the line
\* before it.
LEMMA GluedFile ==
  ASSUME TypeOK, FileInv, NEW r \in Record
  PROVE  /\ Glued(r) \in Seq(Record) /\ Glued(r) # <<>>
         /\ openTail => \E i \in DOMAIN Glued(r) : Glued(r)[i].kind = "broken"
         /\ ~openTail => Glued(r) = Append(file, r)
<1>1. CASE openTail
  <2>1. Len(file) \in 1..Len(file) /\ Len(file) \in DOMAIN file
    BY <1>1 DEF TypeOK, FileInv
  <2>2. Glued(r) = [file EXCEPT ![Len(file)] = Broken]
    BY <1>1 DEF Glued
  <2>3. Broken \in Record /\ Broken.kind = "broken"
    BY RecordKinds
  <2>4. /\ [file EXCEPT ![Len(file)] = Broken] \in Seq(Record)
        /\ DOMAIN [file EXCEPT ![Len(file)] = Broken] = DOMAIN file
        /\ [file EXCEPT ![Len(file)] = Broken][Len(file)] = Broken
        /\ Len([file EXCEPT ![Len(file)] = Broken]) = Len(file)
    BY <2>1, <2>3 DEF TypeOK
  <2>5. [file EXCEPT ![Len(file)] = Broken] # <<>>
    BY <2>1, <2>4
  <2>6. QED
    BY <1>1, <2>1, <2>2, <2>3, <2>4, <2>5
<1>2. CASE ~openTail
  BY <1>2, FileAppend DEF Glued, TypeOK
<1>3. QED
  BY <1>1, <1>2

\* Compact writes a well-formed file of records that were live.
LEMMA CompactedFile ==
  ASSUME TypeOK, file' \in SetToSeqs({Compacted(e) : e \in Replay(file)})
  PROVE  /\ file' \in Seq(Record)
         /\ \A i \in 1..Len(file') : \E e \in Replay(file) : file'[i] = Compacted(e)
<1> DEFINE S == {Compacted(e) : e \in Replay(file)}
           D == {i \in 1..Len(file) : file[i].kind = "put" /\ file[i].entry \in Replay(file)}
           g == [i \in D |-> Compacted(file[i].entry)]
<1>1. S \subseteq Record
  <2>1. ASSUME NEW e \in Replay(file) PROVE Compacted(e) \in Record
    <3>1. e \in Entry
      BY ReplayType DEF TypeOK
    <3>2. [e EXCEPT !.key = NoKey] \in Entry
      BY <3>1 DEF Entry
    <3>3. QED
      BY <3>2, RecordKinds DEF Compacted
  <2>2. QED
    BY <2>1
<1>2. IsFiniteSet(S)
  <2>1. Len(file) \in Nat
    BY DEF TypeOK
  <2>2. IsFiniteSet(D)
    <3>1. 1 \in Int /\ Len(file) \in Int
      BY <2>1
    <3>2. IsFiniteSet(1..Len(file))
      BY <3>1, FS_Interval
    <3>3. D \in SUBSET (1..Len(file))
      OBVIOUS
    <3> HIDE DEF D
    <3>4. QED
      BY <3>2, <3>3, FS_Subset
  <2>3. \A e \in Replay(file) : \E i \in D : file[i].entry = e
    BY ReplayMember DEF TypeOK, IsLast
  <2>4. g \in Surjection(D, S)
    BY <2>3 DEF Surjection
  <2>5. QED
    BY <2>2, <2>4, FS_Surjection
<1>3. Cardinality(S) \in Nat
  BY <1>2, FS_CardinalityType
<1>4. file' \in [1..Cardinality(S) -> S]
  BY DEF SetToSeqs
<1> HIDE DEF S
<1>5. file' \in Seq(S) /\ Len(file') = Cardinality(S)
  BY <1>3, <1>4
<1>6. file' \in Seq(Record)
  BY <1>1, <1>3, <1>4
<1>7. QED
  BY <1>4, <1>5, <1>6 DEF S

\* A write keeps the file well formed.
LEMMA WriteKeeps ==
  ASSUME TypeOK, FileInv, NEW r \in Record, Write(r) \/ WritePart(r)
  PROVE  file' \in Seq(Record) /\ file' # <<>> /\ openTail' \in BOOLEAN
<1>1. \E q \in Record : file' = Glued(q)
  BY RecordKinds DEF Write, WritePart
<1>2. QED
  BY <1>1, GluedFile DEF Write, WritePart

\* Every step keeps the types, and with them the shape of the file.
LEMMA FileStep ==
  ASSUME TypeOK, FileInv, [Next]_vars
  PROVE  TypeOK' /\ FileInv'
<1> DEFINE FileOK == /\ file' \in Seq(Record) /\ openTail' \in BOOLEAN
                     /\ openTail' => file' # <<>>
           PendingOK == /\ pending' \in [Callers -> {<<>>} \cup {<<e>> : e \in Entry}]
                        /\ \A p \in Callers : pending'[p] # <<>> =>
                             pending'[p][1].key = pending'[p][1].id.key
<1>1. ASSUME UNCHANGED <<file, openTail>> PROVE FileOK
  BY <1>1 DEF TypeOK, FileInv
<1>2. ASSUME NEW r \in Record, Write(r) \/ WritePart(r) PROVE FileOK
  BY <1>2, WriteKeeps
<1>3. ASSUME pending' = pending \/ \E p \in Callers : Free(p) PROVE PendingOK
  BY <1>3 DEF Free, TypeOK, FileInv
<1>4. ASSUME FileOK, PendingOK, returned' \in Returned PROVE TypeOK' /\ FileInv'
  BY <1>4 DEF TypeOK, FileInv
<1>5. ASSUME NEW p \in Callers, NEW c \in Content, NEW tags \in SUBSET Tags, NEW t \in Times,
             Stamp(p, c, tags, t)
      PROVE  TypeOK' /\ FileInv'
  <2> DEFINE e == NewEntry(c, tags, t)
  <2>1. e \in Entry /\ e.key = e.id.key
    BY DEF NewEntry, Entry, Content
  <2>2. pending' = [pending EXCEPT ![p] = <<e>>]
    BY <1>5 DEF Stamp
  <2> HIDE DEF e
  <2>3. PendingOK
    BY <2>1, <2>2 DEF TypeOK, FileInv
  <2>4. QED
    BY <1>1, <1>4, <1>5, <2>3 DEF Stamp, TypeOK
<1>6. ASSUME NEW p \in Callers, AppendUnreadable(p) \/ AppendSame(p)
      PROVE  TypeOK' /\ FileInv'
  <2>1. returned' \in Returned
    BY <1>6, ReplayType DEF AppendUnreadable, AppendSame, Existing, Returned, TypeOK
  <2>2. QED
    BY <1>1, <1>3, <1>4, <1>6, <2>1 DEF AppendUnreadable, AppendSame
<1>7. ASSUME NEW p \in Callers, AppendWrite(p) \/ AppendWriteFails(p)
      PROVE  TypeOK' /\ FileInv'
  <2>1. PICK e \in ToWrite(p) : \/ Write(Put(e)) /\ returned' = e
                                \/ WritePart(Put(e)) /\ returned' = Failure
    BY <1>7 DEF AppendWrite, AppendWriteFails
  <2>2. e \in Entry /\ Put(e) \in Record
    BY <1>7, ToWriteType, RecordKinds DEF AppendWrite, AppendWriteFails
  <2>3. QED
    BY <1>2, <1>3, <1>4, <1>7, <2>1, <2>2 DEF AppendWrite, AppendWriteFails, Returned
<1>8. ASSUME NEW c \in Content, Forget(c) \/ ForgetFails(c)
      PROVE  TypeOK' /\ FileInv'
  <2>1. Tombstone(c) \in Record
    BY RecordKinds
  <2>2. QED
    BY <1>2, <1>3, <1>4, <1>8, <2>1 DEF Forget, ForgetFails, Returned
<1>9. CASE Crash
  <2>1. PendingOK
    BY <1>9 DEF Crash
  <2>2. CASE UNCHANGED <<file, openTail>>
    BY <1>1, <1>4, <1>9, <2>1, <2>2 DEF Crash, Returned
  <2>3. ASSUME NEW p \in Callers, pending[p] # <<>>, NEW e \in ToWrite(p), WritePart(Put(e))
        PROVE  TypeOK' /\ FileInv'
    <3>1. Put(e) \in Record
      BY <2>3, ToWriteType, RecordKinds
    <3>2. QED
      BY <1>2, <1>4, <1>9, <2>1, <2>3, <3>1 DEF Crash, Returned
  <2>4. QED
    BY <1>9, <2>2, <2>3 DEF Crash
<1>10. CASE Compact
  <2>1. FileOK
    <3>1. CASE Readable
      BY <1>10, <3>1, CompactedFile DEF Compact
    <3>2. CASE ~Readable
      BY <1>1, <1>10, <3>2 DEF Compact
    <3>3. QED
      BY <3>1, <3>2
  <2>2. QED
    BY <1>3, <1>4, <1>10, <2>1 DEF Compact, Returned
<1>11. CASE UNCHANGED vars
  BY <1>1, <1>3, <1>4, <1>11 DEF vars, TypeOK
<1> HIDE DEF FileOK, PendingOK
<1>12. QED
  BY <1>5, <1>6, <1>7, <1>8, <1>9, <1>10, <1>11 DEF Next

\* The file is a sequence of records whatever fails, crashes or is compacted.
THEOREM FileInvariant == Spec => [](TypeOK /\ FileInv)
<1>1. Init => TypeOK /\ FileInv
  <2> SUFFICES ASSUME Init PROVE TypeOK /\ FileInv
    OBVIOUS
  <2>1. file \in Seq(Record)
    BY DEF Init
  <2>2. pending \in [Callers -> {<<>>} \cup {<<e>> : e \in Entry}]
    BY DEF Init
  <2>3. returned \in Returned
    BY DEF Init, Returned
  <2>4. openTail \in BOOLEAN
    BY DEF Init
  <2>5. FileInv
    BY DEF Init, FileInv
  <2>6. QED
    BY <2>1, <2>2, <2>3, <2>4, <2>5 DEF TypeOK
<1>2. TypeOK /\ FileInv /\ [Next]_vars => (TypeOK /\ FileInv)'
  BY FileStep
<1>3. QED
  BY <1>1, <1>2, PTL DEF Spec

-------------------------------------------------------------------------------
(* Nothing comes back *)

\* A readable file that was written to got one record more.
LEMMA WrittenReadable ==
  ASSUME TypeOK, FileInv, Readable', NEW r \in Record, Write(r) \/ WritePart(r)
  PROVE  file' = Append(file, r) /\ ~openTail
<1>1. \E q \in {r, Broken} : file' = Glued(q)
  BY DEF Write, WritePart
<1>2. PICK q \in {r, Broken} : file' = Glued(q)
  BY <1>1
<1>3. q \in Record
  BY <1>2, RecordKinds
<1>4. ~openTail /\ file' = Append(file, q)
  BY <1>2, <1>3, GluedFile DEF Readable
<1>5. q.kind # "broken"
  <2>1. Len(file) + 1 \in DOMAIN file' /\ file'[Len(file) + 1] = q
    BY <1>3, <1>4 DEF TypeOK
  <2>2. QED
    BY <2>1 DEF Readable
<1>6. q = r
  BY <1>2, <1>5, RecordKinds
<1>7. QED
  BY <1>4, <1>6

\* One more record makes at most its own ID live, and a tombstone none.
LEMMA KnownAppend ==
  ASSUME NEW f \in Seq(Record), NEW r \in Record, NEW c \in Known(Append(f, r))
  PROVE  c \in Known(f) \/ (r.kind = "put" /\ c = RecID(r))
<1>1. PICK x \in Replay(Append(f, r)) : c = x.id
  BY DEF Known
<1>2. x \in Replay(f) \/ (r.kind = "put" /\ r.entry = x)
  BY <1>1, ReplayAppend
<1>3. QED
  BY <1>1, <1>2, RecordKinds DEF Known

\* An entry becomes live only by an Append of its own content: no tombstone, tag
\* update, torn write, crash or compaction brings back what was forgotten or
\* superseded.
THEOREM NoResurrectionAlways == Spec => NoResurrection
<1> DEFINE Appended(c) ==
      \E p \in Callers : pending[p] # <<>> /\ pending[p][1].id = c /\ pending'[p] = <<>>
<1>1. TypeOK /\ FileInv /\ [Next]_vars
        => [Readable /\ Readable' => \A c \in Known(file)' \ Known(file) : Appended(c)]_vars
  <2> SUFFICES ASSUME TypeOK, FileInv, Next, Readable, Readable',
                      NEW c \in Known(file') \ Known(file)
               PROVE  Appended(c)
    BY DEF Known, Replay, LastOf, Superseded
  <2>1. file' # file
    OBVIOUS
  <2>2. ASSUME NEW p \in Callers, pending[p] # <<>>, pending'[p] = <<>>,
               NEW e \in ToWrite(p), Write(Put(e)) \/ WritePart(Put(e))
        PROVE  Appended(c)
    <3>1. e \in Entry /\ e.id = pending[p][1].id
      BY <2>2, ToWriteType
    <3>2. Put(e) \in Record /\ RecID(Put(e)) = e.id
      BY <3>1, RecordKinds
    <3>3. file' = Append(file, Put(e))
      BY <2>2, <3>2, WrittenReadable
    <3>4. c = e.id
      BY <3>2, <3>3, KnownAppend DEF TypeOK
    <3>5. QED
      BY <2>2, <3>1, <3>4
  <2>3. ASSUME NEW p \in Callers, AppendWrite(p) \/ AppendWriteFails(p)
        PROVE  Appended(c)
    <3>1. pending[p] # <<>> /\ pending'[p] = <<>>
      BY <2>3 DEF AppendWrite, AppendWriteFails, Free, TypeOK
    <3>2. QED
      BY <2>2, <2>3, <3>1 DEF AppendWrite, AppendWriteFails
  <2>4. ASSUME NEW d \in Content, Forget(d) \/ ForgetFails(d)
        PROVE  FALSE
    <3>1. Tombstone(d) \in Record /\ Tombstone(d).kind = "deleted"
      BY RecordKinds
    <3>2. file' = Append(file, Tombstone(d))
      BY <2>4, <3>1, WrittenReadable DEF Forget, ForgetFails
    <3>3. QED
      BY <3>1, <3>2, KnownAppend DEF TypeOK
  <2>5. CASE Crash
    BY <2>1, <2>2, <2>5 DEF Crash
  <2>6. CASE Compact
    <3>1. /\ file' \in Seq(Record)
          /\ \A i \in 1..Len(file') : \E e \in Replay(file) : file'[i] = Compacted(e)
      BY <2>6, CompactedFile DEF Compact
    <3>2. PICK x \in Replay(file') : c = x.id
      BY DEF Known
    <3>3. PICK i \in 1..Len(file') : file'[i].entry = x
      BY <3>1, <3>2, ReplayMember
    <3>4. PICK e \in Replay(file) : file'[i] = Compacted(e)
      BY <3>1
    <3>5. e \in Entry
      BY ReplayType DEF TypeOK
    <3>6. Compacted(e).entry.id = e.id
      BY <3>5 DEF Compacted, Put, Entry
    <3>7. QED
      BY <3>2, <3>3, <3>4, <3>6 DEF Known
  <2>7. CASE \E p \in Callers :
               \/ \E d \in Content, tags \in SUBSET Tags, t \in Times : Stamp(p, d, tags, t)
               \/ AppendUnreadable(p) \/ AppendSame(p)
    BY <2>1, <2>7 DEF Stamp, AppendUnreadable, AppendSame
  <2> HIDE DEF Appended
  <2>8. QED
    BY <2>3, <2>4, <2>5, <2>6, <2>7 DEF Next
<1>2. QED
  BY <1>1, FileInvariant, PTL DEF Spec, NoResurrection

-------------------------------------------------------------------------------
(* The promise of memory.Store *)

\* A put under a new ID replaces what its key held; a put that keeps the key of
\* the live entry with its ID replaces that one.
LEMMA ReplayOfPut ==
  ASSUME NEW f \in Seq(Record), NEW e \in Entry
  PROVE  /\ (\A x \in Replay(f) : x.id # e.id) /\ e.key = e.id.key =>
              Replay(Append(f, Put(e))) = {x \in Replay(f) : ~SameFact(x, e.id)} \cup {e}
         /\ \A x \in Replay(f) : x.id = e.id /\ x.key = e.key =>
              Replay(Append(f, Put(e))) = (Replay(f) \ {x}) \cup {e}
<1>1. Put(e) \in Record /\ Put(e).kind = "put" /\ Put(e).entry = e /\ RecID(Put(e)) = e.id
  BY RecordKinds
<1>2. \A x : x \in Replay(Append(f, Put(e))) <=>
               \/ x = e
               \/ /\ x \in Replay(f)
                  /\ x.id # e.id
                  /\ x.key # NoKey => ~AtKey(Put(e), x.id.agent, x.key)
  BY <1>1, ReplayAppend
<1>3. \A x : AtKey(Put(e), x.id.agent, x.key) <=> e.id.agent = x.id.agent /\ e.key = x.key
  BY <1>1 DEF AtKey, agentKeyIndex
<1>4. ASSUME \A x \in Replay(f) : x.id # e.id, e.key = e.id.key
      PROVE  Replay(Append(f, Put(e))) = {x \in Replay(f) : ~SameFact(x, e.id)} \cup {e}
  BY <1>2, <1>3, <1>4 DEF SameFact
<1>5. ASSUME NEW x \in Replay(f), x.id = e.id, x.key = e.key
      PROVE  Replay(Append(f, Put(e))) = (Replay(f) \ {x}) \cup {e}
  <2>1. \A y \in Replay(f) : y.id = e.id => y = x
    BY <1>5, OnePerID
  <2>2. \A y \in Replay(f) : y.key # NoKey /\ e.id.agent = y.id.agent /\ e.key = y.key => y.id = e.id
    BY <1>5, OneLivePerKey
  <2>3. QED
    BY <1>2, <1>3, <1>5, <2>1, <2>2
<1>6. QED
  BY <1>4, <1>5

\* A tombstone removes the entry with its ID and no other.
LEMMA ReplayOfTombstone ==
  ASSUME NEW f \in Seq(Record), NEW c \in Content
  PROVE  Replay(Append(f, Tombstone(c))) = {x \in Replay(f) : x.id # c}
<1>1. /\ Tombstone(c) \in Record /\ Tombstone(c).kind = "deleted" /\ RecID(Tombstone(c)) = c
  BY RecordKinds
<1>2. \A x : ~AtKey(Tombstone(c), x.id.agent, x.key)
  BY <1>1 DEF AtKey
<1>3. QED
  BY <1>1, <1>2, ReplayAppend

\* An Append that goes through is one of the abstract Appends.
LEMMA AppendIsAbstract ==
  ASSUME TypeOK, FileInv, Readable', NEW p \in Callers, AppendSame(p) \/ AppendWrite(p)
  PROVE  \E c \in Content, tags \in SUBSET Tags :
            Memory!AppendKnown(c, tags) \/ \E t \in Times : Memory!AppendNew(c, tags, t)
<1> DEFINE e == pending[p][1]
<1>1. pending[p] # <<>>
  BY DEF AppendSame, AppendWrite
<1>2. /\ e \in Entry /\ e.key = e.id.key
      /\ e.id \in Content /\ e.tags \in SUBSET Tags /\ e.created \in Times
  BY <1>1, PendingType DEF FileInv, Entry
<1>3. file \in Seq(Record)
  BY DEF TypeOK
<1>4. \A x \in Replay(file) : x \in Entry
  BY <1>3, ReplayType
<1>5. CASE AppendSame(p)
  <2>1. PICK x \in Replay(file) : x.id = e.id /\ e.tags \subseteq x.tags /\ returned' = x
    BY <1>5 DEF AppendSame, Existing
  <2>2. Merge(x, e.tags) = x
    BY <1>2, <1>4, <2>1, MergeType
  <2>3. Replay(file)' = (Replay(file) \ {x}) \cup {Merge(x, e.tags)}
    <3>1. file' = file
      BY <1>5 DEF AppendSame
    <3>2. Replay(file') = Replay(file)
      BY <3>1
    <3>3. QED
      BY <2>2, <3>2
  <2> HIDE DEF e
  <2>4. Memory!AppendKnown(e.id, e.tags)
    BY <2>1, <2>2, <2>3 DEF Memory!AppendKnown, Memory!Merge, Merge
  <2>5. QED
    BY <1>2, <2>4
<1>6. CASE AppendWrite(p)
  <2>1. PICK w \in ToWrite(p) : Write(Put(w)) /\ returned' = w
    BY <1>6 DEF AppendWrite
  <2>2. w \in Entry /\ w.id = e.id
    BY <1>1, <2>1, ToWriteType
  <2>3. file' = Append(file, Put(w))
    BY <2>1, <2>2, RecordKinds, WrittenReadable
  <2>4. Replay(file)' = Replay(Append(file, Put(w)))
    BY <2>3
  <2>5. CASE Existing(e) = {}
    <3>1. w = e
      BY <2>1, <2>5 DEF ToWrite
    <3>2. e = NewEntry(e.id, e.tags, e.created)
      BY <1>2 DEF Entry, NewEntry
    <3>3. \A x \in Replay(file) : x.id # e.id
      BY <2>5 DEF Existing
    <3> HIDE DEF e
    <3>4. Replay(file)' = {x \in Replay(file) : ~SameFact(x, e.id)} \cup {e}
      BY <1>2, <1>3, <2>4, <3>1, <3>3, ReplayOfPut
    <3>5. Memory!AppendNew(e.id, e.tags, e.created)
      BY <2>1, <3>1, <3>2, <3>3, <3>4
         DEF Memory!AppendNew, Memory!NewEntry, NewEntry, Memory!SameFact, SameFact
    <3>6. QED
      BY <1>2, <3>5
  <2>6. CASE Existing(e) # {}
    <3>1. PICK x \in Replay(file) : x.id = e.id /\ w = Merge(x, e.tags)
      BY <2>1, <2>6 DEF ToWrite, Existing
    <3>2. x.id = w.id /\ x.key = w.key
      BY <1>2, <1>4, <3>1, MergeType
    <3> HIDE DEF e
    <3>3. Replay(file)' = (Replay(file) \ {x}) \cup {w}
      BY <1>3, <2>2, <2>4, <3>2, ReplayOfPut
    <3>4. Memory!AppendKnown(e.id, e.tags)
      BY <2>1, <3>1, <3>3 DEF Memory!AppendKnown, Memory!Merge, Merge
    <3>5. QED
      BY <1>2, <3>4
  <2>7. QED
    BY <2>5, <2>6
<1>7. QED
  BY <1>5, <1>6

\* Between two readable files, and while no live entry has lost its Key to
\* Compact, every step that is not itself disturbed is a step of the abstract set
\* of live entries, or leaves it and the answer alone.
THEOREM MemoryStepAlways == Spec => MemoryStep
<1>1. TypeOK /\ FileInv /\ [Next]_vars
        => [Readable /\ Readable' /\ KeysKept /\ ~Disturbed
              => [Memory!Next]_<<Replay(file), returned>>]_vars
  <2> SUFFICES ASSUME TypeOK, FileInv, Next, Readable, Readable', ~Disturbed
               PROVE  Memory!Next \/ (Replay(file)' = Replay(file) /\ returned' = returned)
    OBVIOUS
  <2>1. ASSUME NEW p \in Callers, NEW c \in Content, NEW tags \in SUBSET Tags, NEW t \in Times,
               Stamp(p, c, tags, t)
        PROVE  Replay(file)' = Replay(file) /\ returned' = returned
    <3>1. file' = file /\ returned' = returned
      BY <2>1 DEF Stamp
    <3>2. QED
      BY <3>1
  <2>2. ASSUME NEW p \in Callers, AppendUnreadable(p)
        PROVE  FALSE
    BY <2>2 DEF AppendUnreadable
  <2>3. ASSUME NEW p \in Callers, AppendSame(p) \/ AppendWrite(p)
        PROVE  Memory!Next
    BY <2>3, AppendIsAbstract DEF Memory!Next, Memory!Content, Content
  <2>4. ASSUME NEW c \in Content, Forget(c)
        PROVE  Memory!Next
    <3>1. Tombstone(c) \in Record
      BY RecordKinds
    <3>2. file' = Append(file, Tombstone(c)) /\ returned' = NoEntry
      BY <2>4, <3>1, WrittenReadable DEF Forget
    <3>3. Replay(file)' = {x \in Replay(file) : x.id # c}
      BY <3>2, ReplayOfTombstone DEF TypeOK
    <3>4. Memory!Forget(c)
      BY <3>2, <3>3 DEF Memory!Forget
    <3>5. QED
      BY <3>4 DEF Memory!Next, Memory!Content, Content
  <2>5. QED
    BY <2>1, <2>2, <2>3, <2>4 DEF Next, Disturbed
<1>2. QED
  BY <1>1, FileInvariant, PTL DEF Spec, MemoryStep
===============================================================================
